-------------------------- MODULE WebhookDispatcher --------------------------
(***************************************************************************)
(* packages/webhooks/src/dispatcher.ts: the worker that turns the          *)
(* webhook_events of one merchant into HTTP calls to its endpoints, and    *)
(* the endpoint settings of webhook-endpoints.service.ts.  No database     *)
(* transaction spans two statements here, so every statement is a step of  *)
(* its own, and the HTTP call lies between two of them.  Several workers   *)
(* may run: ADR 0009 allows it, and a rolling update overlaps two.         *)
(***************************************************************************)
EXTENDS Integers, Sequences, FiniteSets

CONSTANTS
  Events,      \* webhook_events the other services write, one type each
  Endpoints,   \* the merchant's webhook_endpoints
  Workers,     \* processes running runWebhookLoop
  NoItem,      \* a worker between two items of a loop
  maxAttempts, \* webhook_endpoints.max_attempts
  disableAfterConsecutiveFailures, batchSize,
  MaxUpdates,  \* bound: changes of endpoint settings
  MaxCrashes,  \* bound: polls that die half-way
  MaxErrors,   \* bound: database errors in finalizeSuccess
  MaxSubscriptions  \* bound: pairs of an event and an enabled endpoint subscribed to it

ASSUME DispatcherConstants ==
  /\ NoItem \notin Events
  /\ NoItem \notin Events \X Endpoints \X Nat
  /\ maxAttempts \in Nat \ {0}
  /\ disableAfterConsecutiveFailures \in Nat \ {0}
  /\ batchSize \in Nat \ {0}
  /\ MaxUpdates \in Nat
  /\ MaxCrashes \in Nat
  /\ MaxErrors \in Nat
  /\ MaxSubscriptions \in Nat

\* The unique key of webhook_deliveries: event, endpoint, attempt.
Row == Events \X Endpoints \X (1..maxAttempts)

VARIABLES
  events,       \* webhook_events, in order of creation
  enabled, consecutiveFailures, eventTypes,   \* webhook_endpoints
  delivery,     \* webhook_deliveries.status; "none" while there is no row
  created,      \* the rows, in order of creation
  dueRetries,   \* rows whose next_retry_at has passed, in its order
  stale,        \* rows not updated for staleInFlightMs
  worker,       \* what each worker is in the middle of
  receipts,     \* HTTP requests the endpoint has received for each row
  updates, crashes, errors

endpointVars == <<enabled, consecutiveFailures, eventTypes>>
rowVars      == <<delivery, created, dueRetries>>
envVars      == <<events, stale, receipts, updates, crashes, errors>>
vars == <<endpointVars, rowVars, worker, envVars>>

DeliveryStatus ==
  {"PENDING", "IN_FLIGHT", "DELIVERED", "FAILED", "EXHAUSTED", "ABANDONED"}

emitted == {events[k] : k \in 1..Len(events)}

\* eventTypes.length > 0 && !eventTypes.includes(event.type) is skipped.
subscribed(p, ev) == eventTypes[p] = {} \/ ev \in eventTypes[p]

subscriptions == {c \in Events \X Endpoints : enabled[c[2]] /\ subscribed(c[2], c[1])}

\* The rows of S before x in the given order.
ahead(S, order, x) ==
  {y \in S : \E i, j \in 1..Len(order) : i < j /\ order[i] = y /\ order[j] = x}

\* ORDER BY ... LIMIT batchSize: the first rows of S in the given order.
oldest(S, order) == {x \in S : Cardinality(ahead(S, order, x)) < batchSize}

-----------------------------------------------------------------------------
(* The loops of runOnce.  `work` holds the items a loop has left, `at` the *)
(* one it is handling, `op` the next statement for it, `targets` the       *)
(* endpoints an event still has to be fanned out to.                       *)

AtRest(phase, work) ==
  [phase |-> phase, op |-> "next", at |-> NoItem, work |-> work, targets |-> {}]

Idle == AtRest("idle", {})

\* Worker w picks item x and goes on with statement op.
Pick(w, x, op) ==
  worker' = [worker EXCEPT ![w].work = @ \ {x}, ![w].at = x, ![w].op = op]
Step(w, op) == worker' = [worker EXCEPT ![w].op = op]
Finish(w) == worker' = [worker EXCEPT ![w] = AtRest(@.phase, @.work)]
Skip(w, x) == worker' = [worker EXCEPT ![w].work = @ \ {x}]

Handling(w, phase, x) ==
  worker[w].phase = phase /\ worker[w].op = "next" /\ x \in worker[w].work

\* The query each loop starts with.  (Mutants: no row is ever recovered; a
\* row in flight is recovered whatever its age.)
neverStale == {}
anyInFlight == {r \in Row : delivery[r] = "IN_FLIGHT"}
staleInFlight == {r \in stale : delivery[r] = "IN_FLIGHT"}

unfannedEvents ==
  {ev \in emitted : /\ \A r \in Row : r[1] = ev => delivery[r] = "none"
                    /\ \E p \in Endpoints : enabled[p]}

retriesDue ==
  {r \in Row : delivery[r] = "FAILED" /\ \E k \in 1..Len(dueRetries) : dueRetries[k] = r}

pendingDeliveries == {r \in Row : delivery[r] = "PENDING"}

\* runOnce: recover, enqueue, promote, send.
runOnce(w) ==
  /\ worker[w].op = "next"
  /\ worker[w].work = {}
  /\ worker' = [worker EXCEPT ![w] =
       CASE @.phase = "idle"    -> AtRest("recover", oldest(staleInFlight, created))
         [] @.phase = "recover" -> AtRest("enqueue", oldest(unfannedEvents, events))
         [] @.phase = "enqueue" -> AtRest("promote", oldest(retriesDue, dueRetries))
         [] @.phase = "promote" -> AtRest("send", oldest(pendingDeliveries, created))
         [] @.phase = "send"    -> Idle]
  /\ UNCHANGED <<endpointVars, rowVars, envVars>>

\* upsert with an empty update: an existing row is left alone.  (Mutant: the
\* update resets it.)
upsertResetting(r) ==
  /\ delivery' = [delivery EXCEPT ![r] = "PENDING"]
  /\ created' = IF delivery[r] = "none" THEN Append(created, r) ELSE created
upsert(r) ==
  IF delivery[r] = "none"
  THEN /\ delivery' = [delivery EXCEPT ![r] = "PENDING"]
       /\ created' = Append(created, r)
  ELSE UNCHANGED <<delivery, created>>

-----------------------------------------------------------------------------
(* recoverStaleInFlight, enqueueNewDeliveries, promoteDueRetries           *)

recoverStaleInFlight(w, r) ==
  /\ Handling(w, "recover", r)
  /\ Pick(w, r, "failure")
  /\ UNCHANGED <<endpointVars, rowVars, envVars>>

\* The endpoints of an event are read, then given a row each.  (Mutant: one
\* endpoint is read.)
loadFirstEndpoint(w, ev) ==
  LET targets == {p \in Endpoints : enabled[p] /\ subscribed(p, ev)}
  IN /\ Handling(w, "enqueue", ev)
     /\ IF targets = {} THEN Skip(w, ev)
        ELSE \E p \in targets :
               worker' = [worker EXCEPT ![w].work = @ \ {ev}, ![w].at = ev,
                                        ![w].op = "fan", ![w].targets = {p}]
     /\ UNCHANGED <<endpointVars, rowVars, envVars>>
loadEndpoints(w, ev) ==
  LET targets == {p \in Endpoints : enabled[p] /\ subscribed(p, ev)}
  IN /\ Handling(w, "enqueue", ev)
     /\ IF targets = {} THEN Skip(w, ev)
        ELSE worker' = [worker EXCEPT ![w].work = @ \ {ev}, ![w].at = ev,
                                      ![w].op = "fan", ![w].targets = targets]
     /\ UNCHANGED <<endpointVars, rowVars, envVars>>

enqueueDelivery(w, p) ==
  /\ worker[w].op = "fan"
  /\ p \in worker[w].targets
  /\ upsert(<<worker[w].at, p, 1>>)
  /\ IF worker[w].targets = {p} THEN Finish(w)
     ELSE worker' = [worker EXCEPT ![w].targets = @ \ {p}]
  /\ UNCHANGED <<endpointVars, dueRetries, envVars>>

loadRetry(w, r) ==
  /\ Handling(w, "promote", r)
  /\ Pick(w, r, IF enabled[r[2]] THEN "insert" ELSE "retire")
  /\ UNCHANGED <<endpointVars, rowVars, envVars>>

retireRetry(w) ==
  /\ worker[w].op = "retire"
  /\ delivery' = [delivery EXCEPT ![worker[w].at] = "ABANDONED"]
  /\ Finish(w)
  /\ UNCHANGED <<endpointVars, created, dueRetries, envVars>>

\* The FAILED row stays as it is, its next_retry_at included.
insertRetry(w) ==
  LET r == worker[w].at
  IN /\ worker[w].op = "insert"
     /\ upsert(<<r[1], r[2], r[3] + 1>>)
     /\ Finish(w)
     /\ UNCHANGED <<endpointVars, dueRetries, envVars>>

-----------------------------------------------------------------------------
(* attemptDelivery                                                         *)

\* The delivery and its endpoint are read.
loadDelivery(w, r) ==
  /\ Handling(w, "send", r)
  /\ IF delivery[r] # "PENDING" THEN Skip(w, r)
     ELSE Pick(w, r, IF enabled[r[2]] THEN "claim" ELSE "abandon")
  /\ UNCHANGED <<endpointVars, rowVars, envVars>>

abandonDelivery(w) ==
  /\ worker[w].op = "abandon"
  /\ delivery' = [delivery EXCEPT ![worker[w].at] = "ABANDONED"]
  /\ Finish(w)
  /\ UNCHANGED <<endpointVars, created, dueRetries, envVars>>

\* UPDATE ... WHERE status = 'PENDING'.  (Mutant: without the condition.)
claimBlindly(w) ==
  /\ worker[w].op = "claim"
  /\ delivery' = [delivery EXCEPT ![worker[w].at] = "IN_FLIGHT"]
  /\ Step(w, "post")
  /\ UNCHANGED <<endpointVars, created, dueRetries, envVars>>
claimDelivery(w) ==
  LET r == worker[w].at
  IN /\ worker[w].op = "claim"
     /\ IF delivery[r] = "PENDING"
        THEN delivery' = [delivery EXCEPT ![r] = "IN_FLIGHT"] /\ Step(w, "post")
        ELSE UNCHANGED delivery /\ Finish(w)
     /\ UNCHANGED <<endpointVars, created, dueRetries, envVars>>

\* The HTTP call.  The request may be refused (a private address), lost or
\* received, and the answer of a received one may be 2xx, another status or
\* lost (a timeout): only a 2xx that arrives is a success.  (Mutant: a call
\* without an answer is taken for a success.)
postIgnoringErrors(w, arrives, answer) ==
  /\ worker[w].op = "post"
  /\ receipts' = [receipts EXCEPT ![worker[w].at] = @ + IF arrives THEN 1 ELSE 0]
  /\ Step(w, answer)
  /\ UNCHANGED <<endpointVars, rowVars, events, stale, updates, crashes, errors>>
postDelivery(w, arrives, answer) ==
  /\ worker[w].op = "post"
  /\ answer = "success" => arrives
  /\ receipts' = [receipts EXCEPT ![worker[w].at] = @ + IF arrives THEN 1 ELSE 0]
  /\ Step(w, answer)
  /\ UNCHANGED <<endpointVars, rowVars, events, stale, updates, crashes, errors>>

\* finalizeSuccess: the row, then the endpoint's counter.
finalizeSuccess(w) ==
  /\ worker[w].op = "success"
  /\ delivery' = [delivery EXCEPT ![worker[w].at] = "DELIVERED"]
  /\ Step(w, "reset")
  /\ UNCHANGED <<endpointVars, created, dueRetries, envVars>>

\* (Mutant: a success takes back one failure.)
forgiveFailure(w) ==
  /\ worker[w].op = "reset"
  /\ consecutiveFailures' = [consecutiveFailures EXCEPT ![worker[w].at[2]] = @ - 1]
  /\ Finish(w)
  /\ UNCHANGED <<enabled, eventTypes, rowVars, envVars>>
resetFailures(w) ==
  /\ worker[w].op = "reset"
  /\ consecutiveFailures' = [consecutiveFailures EXCEPT ![worker[w].at[2]] = 0]
  /\ Finish(w)
  /\ UNCHANGED <<enabled, eventTypes, rowVars, envVars>>

\* A database error in either update of finalizeSuccess lands in the catch
\* of the HTTP call, which goes on to finalizeFailure.
successFails(w) ==
  /\ errors < MaxErrors
  /\ worker[w].op \in {"success", "reset"}
  /\ Step(w, "failure")
  /\ errors' = errors + 1
  /\ UNCHANGED <<endpointVars, rowVars, events, stale, receipts, updates, crashes>>

\* finalizeFailure: count the failure and decide from the counter read back;
\* disable the endpoint and abandon what is queued for it, if it comes to
\* that; close the row.
countFailure(w) ==
  LET p == worker[w].at[2]
      failures == consecutiveFailures[p] + 1
      attemptsExhausted == worker[w].at[3] >= maxAttempts
      shouldDisable == ~attemptsExhausted /\ failures >= disableAfterConsecutiveFailures
  IN /\ worker[w].op = "failure"
     /\ consecutiveFailures' = [consecutiveFailures EXCEPT ![p] = failures]
     /\ Step(w, IF attemptsExhausted THEN "EXHAUSTED"
                ELSE IF shouldDisable THEN "disable" ELSE "FAILED")
     /\ UNCHANGED <<enabled, eventTypes, rowVars, envVars>>

disableEndpoint(w) ==
  /\ worker[w].op = "disable"
  /\ enabled' = [enabled EXCEPT ![worker[w].at[2]] = FALSE]
  /\ Step(w, "sweep")
  /\ UNCHANGED <<consecutiveFailures, eventTypes, rowVars, envVars>>

abandonQueued(w) ==
  /\ worker[w].op = "sweep"
  /\ delivery' = [r \in Row |-> IF r[2] = worker[w].at[2] /\ delivery[r] = "PENDING"
                                THEN "ABANDONED" ELSE delivery[r]]
  /\ Step(w, "ABANDONED")
  /\ UNCHANGED <<endpointVars, created, dueRetries, envVars>>

\* Row r leaves the due retries, where it occurs once at most.
dropRetry(r) ==
  LET places == {k \in 1..Len(dueRetries) : dueRetries[k] = r}
      place  == CHOOSE k \in places : TRUE
  IN IF places = {} THEN dueRetries
     ELSE SubSeq(dueRetries, 1, place - 1) \o SubSeq(dueRetries, place + 1, Len(dueRetries))

\* next_retry_at lies ahead again, or is null.
closeFailed(w) ==
  LET r == worker[w].at
  IN /\ worker[w].op \in {"EXHAUSTED", "FAILED", "ABANDONED"}
     /\ delivery' = [delivery EXCEPT ![r] = worker[w].op]
     /\ dueRetries' = dropRetry(r)
     /\ Finish(w)
     /\ UNCHANGED <<endpointVars, created, envVars>>

-----------------------------------------------------------------------------
(* Around the workers                                                      *)

\* emitWebhook of the API, the sweep and the monitor.
emitWebhook(ev) ==
  /\ ev \notin emitted
  /\ events' = Append(events, ev)
  /\ UNCHANGED <<endpointVars, rowVars, worker, stale, receipts, updates, crashes, errors>>

\* PATCH of an endpoint: `change` is dto.enabled ("keep" when absent) and
\* `types` the event types it has afterwards.  An endpoint that does not
\* exist yet is a disabled one without rows, and `create` enables it.
update(p, change, types) ==
  /\ updates < MaxUpdates
  /\ enabled' = [enabled EXCEPT ![p] = IF change = "keep" THEN @ ELSE change = "enable"]
  /\ consecutiveFailures' = [consecutiveFailures EXCEPT ![p] = IF change = "enable" THEN 0 ELSE @]
  /\ eventTypes' = [eventTypes EXCEPT ![p] = types]
  /\ Cardinality(subscriptions') <= MaxSubscriptions
  /\ updates' = updates + 1
  /\ UNCHANGED <<rowVars, worker, events, stale, receipts, crashes, errors>>

\* The process dies, or a database or decryption error anywhere else ends
\* runOnce; the loop starts a new one.
crash(w) ==
  /\ crashes < MaxCrashes
  /\ worker[w] # Idle
  /\ worker' = [worker EXCEPT ![w] = Idle]
  /\ crashes' = crashes + 1
  /\ UNCHANGED <<endpointVars, rowVars, events, stale, receipts, updates, errors>>

\* computeRetryDelayMs after the failure, the retry falls due.
retryFallsDue(r) ==
  /\ delivery[r] = "FAILED"
  /\ \A k \in 1..Len(dueRetries) : dueRetries[k] # r
  /\ dueRetries' = Append(dueRetries, r)
  /\ UNCHANGED <<endpointVars, delivery, created, worker, envVars>>

\* staleInFlightMs is longer than any attempt takes (ADR 0009): only a row
\* whose worker is gone grows old in flight.
inFlightGrowsStale(r) ==
  /\ delivery[r] = "IN_FLIGHT"
  /\ r \notin stale
  /\ \A w \in Workers : worker[w].phase = "send" => worker[w].at # r
  /\ stale' = stale \cup {r}
  /\ UNCHANGED <<endpointVars, rowVars, worker, events, receipts, updates, crashes, errors>>

-----------------------------------------------------------------------------

Init ==
  /\ events = <<>>
  /\ enabled \in [Endpoints -> BOOLEAN]
  /\ consecutiveFailures = [p \in Endpoints |-> 0]
  /\ eventTypes \in [Endpoints -> SUBSET Events]
  /\ \A p \in Endpoints : ~enabled[p] => eventTypes[p] = {}   \* not created yet
  /\ Cardinality(subscriptions) <= MaxSubscriptions
  /\ delivery = [r \in Row |-> "none"]
  /\ created = <<>>
  /\ dueRetries = <<>>
  /\ stale = {}
  /\ worker = [w \in Workers |-> Idle]
  /\ receipts = [r \in Row |-> 0]
  /\ updates = 0
  /\ crashes = 0
  /\ errors = 0

\* One statement of worker w's poll.
Run(w) ==
  \/ runOnce(w)
  \/ \E r \in Row : recoverStaleInFlight(w, r) \/ loadRetry(w, r) \/ loadDelivery(w, r)
  \/ \E ev \in Events : loadEndpoints(w, ev)
  \/ \E p \in Endpoints : enqueueDelivery(w, p)
  \/ retireRetry(w) \/ insertRetry(w)
  \/ abandonDelivery(w) \/ claimDelivery(w)
  \/ \E arrives \in BOOLEAN, answer \in {"success", "failure"} : postDelivery(w, arrives, answer)
  \/ finalizeSuccess(w) \/ resetFailures(w)
  \/ countFailure(w) \/ disableEndpoint(w) \/ abandonQueued(w) \/ closeFailed(w)

Next ==
  \/ \E w \in Workers : Run(w) \/ successFails(w) \/ crash(w)
  \/ \E ev \in Events : emitWebhook(ev)
  \/ \E p \in Endpoints, change \in {"keep", "enable", "disable"}, types \in SUBSET Events :
       update(p, change, types)
  \/ \E r \in Row : retryFallsDue(r) \/ inFlightGrowsStale(r)

Spec == Init /\ [][Next]_vars

\* runWebhookLoop polls for ever, and time passes.  Nothing is assumed of
\* endpoints: they may never answer.
FairSpec ==
  /\ Spec
  /\ \A w \in Workers : WF_vars(Run(w))
  /\ \A r \in Row : WF_vars(retryFallsDue(r)) /\ WF_vars(inFlightGrowsStale(r))

-----------------------------------------------------------------------------
(* Properties                                                              *)

\* The type invariant.
TypeOK ==
  /\ events \in Seq(Events)
  /\ enabled \in [Endpoints -> BOOLEAN]
  /\ consecutiveFailures \in [Endpoints -> Nat]
  /\ eventTypes \in [Endpoints -> SUBSET Events]
  /\ delivery \in [Row -> DeliveryStatus \cup {"none"}]
  /\ created \in Seq(Row)
  /\ dueRetries \in Seq(Row)
  /\ stale \subseteq Row
  /\ worker \in [Workers ->
       [phase : {"idle", "recover", "enqueue", "promote", "send"},
        op : {"next", "fan", "retire", "insert", "abandon", "claim", "post", "success",
              "reset", "failure", "disable", "sweep", "EXHAUSTED", "FAILED", "ABANDONED"},
        at : Row \cup Events \cup {NoItem},
        work : SUBSET (Row \cup Events),
        targets : SUBSET Endpoints]]
  /\ receipts \in [Row -> Nat]
  /\ updates \in Nat
  /\ crashes \in Nat
  /\ errors \in Nat

\* "Two workers racing on the same row cannot both send it": however many
\* workers poll, crash and recover, the endpoint receives one request at most
\* under each x-webhook-delivery-id.
AttemptSentOnce == \A r \in Row : receipts[r] <= 1

\* "Only the newest row is ever current": an attempt that has a successor has
\* failed, or was abandoned; it is not waiting, in flight or delivered.
ChainInOrder ==
  \A r, s \in Row :
    /\ r[1] = s[1] /\ r[2] = s[2] /\ r[3] < s[3]
    /\ delivery[s] # "none"
    => delivery[r] \in {"FAILED", "ABANDONED"}

\* The state of a chain: that of its newest row.
newest(c) ==
  LET made == {n \in 1..maxAttempts : delivery[<<c[1], c[2], n>>] # "none"}
  IN IF made = {} THEN "none"
     ELSE delivery[<<c[1], c[2], CHOOSE n \in made : \A m \in made : m <= n>>]

chainState(c) ==
  CASE newest(c) = "none"      -> "none"
    [] newest(c) = "DELIVERED" -> "delivered"
    [] newest(c) = "EXHAUSTED" -> "exhausted"
    [] newest(c) = "ABANDONED" -> "abandoned"
    [] OTHER                   -> "open"

Chains == Events \X Endpoints

Promise == INSTANCE WebhookDelivery WITH
  chain    <- [c \in Chains |-> chainState(c)],
  received <- {c \in Chains : \E n \in 1..maxAttempts : receipts[<<c[1], c[2], n>>] > 0}

\* The dispatcher with one worker, and without database errors in
\* finalizeSuccess, implements the promise: a chain is opened and closed once,
\* and reported delivered only if the endpoint received it, whatever crashes,
\* retries and changes of settings come between.
KeepsPromise == Promise!Spec

\* A settled attempt is history: DELIVERED, EXHAUSTED and ABANDONED rows
\* never change again, and a FAILED one is at most abandoned.
SettledRowsStay ==
  [][\A r \in Row :
       /\ delivery[r] \in {"DELIVERED", "EXHAUSTED", "ABANDONED"} => delivery'[r] = delivery[r]
       /\ delivery[r] = "FAILED" => delivery'[r] \in {"FAILED", "ABANDONED"}]_vars

\* "FAILED, due -> a NEW row is inserted": no chain stays open for ever.  It
\* is delivered, runs out of attempts, or loses its endpoint.
ChainSettles ==
  \A c \in Chains :
    chainState(c) = "open" ~> chainState(c) \in {"delivered", "exhausted", "abandoned"}

\* A due retry no poll gets to: rows that were promoted before and stay in the
\* query fill its batch.
promoted(r) == r[3] < maxAttempts /\ delivery[<<r[1], r[2], r[3] + 1>>] # "none"
overtaken(c) ==
  \E r \in retriesDue :
    /\ r[1] = c[1] /\ r[2] = c[2] /\ ~promoted(r)
    /\ Cardinality({q \in ahead(retriesDue, dueRetries, r) : promoted(q)}) >= batchSize

\* What is left of ChainSettles whatever the size of the batch: a chain stays
\* open only if promoted rows overtake it, never because a worker died with
\* it, an answer was lost or an endpoint was disabled half-way.
ChainSettlesUnlessOvertaken ==
  \A c \in Chains :
    chainState(c) = "open"
      ~> chainState(c) \in {"delivered", "exhausted", "abandoned"} \/ overtaken(c)

\* Events nobody is subscribed to never get a row, so they stay in the query
\* of enqueueNewDeliveries, and may fill its batch.
crowdedOut(ev) ==
  Cardinality({f \in ahead(unfannedEvents, events, ev) :
                 \A p \in Endpoints : ~enabled[p] \/ ~subscribed(p, f)}) >= batchSize

\* The event has been given to another endpoint, and a poll has died or the
\* settings have changed: an event with a row counts as fanned out.
passedOver(ev, p) ==
  /\ crashes > 0 \/ updates > 0
  /\ \E q \in Endpoints \ {p} : delivery[<<ev, q, 1>>] # "none"

\* The fan-out of the event is still to come, and nothing will interrupt it.
undisturbed(ev) ==
  /\ ev \in unfannedEvents /\ \A w \in Workers : worker[w].at # ev
  /\ crashes = MaxCrashes /\ updates = MaxUpdates

\* "Events with zero delivery rows so far get one PENDING attempt-1 row per
\* currently-enabled, subscribed endpoint": every event reaches each of them.
\* Only two things keep an enabled, subscribed endpoint from it: a fan-out
\* that was interrupted after another endpoint had its row (never one that
\* begins after the last interruption), and older events without a subscriber
\* that fill the batch.
EventReachesEndpoint ==
  \A ev \in Events :
    LET reached(p) == delivery[<<ev, p, 1>>] # "none" \/ ~enabled[p] \/ ~subscribed(p, ev)
    IN /\ ev \in emitted ~> crowdedOut(ev) \/ \A p \in Endpoints : reached(p) \/ passedOver(ev, p)
       /\ undisturbed(ev) ~> crowdedOut(ev) \/ \A p \in Endpoints : reached(p)
=============================================================================
