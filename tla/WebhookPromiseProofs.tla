------------------------- MODULE WebhookPromiseProofs -------------------------
(***************************************************************************)
(* The dispatcher with one worker, and without database errors in          *)
(* finalizeSuccess, implements WebhookDelivery: the argument by refinement *)
(* on top of the invariant of WebhookDispatcherProofs.                     *)
(***************************************************************************)
EXTENDS WebhookDispatcherProofs

-----------------------------------------------------------------------------
(* What a lone worker knows of the rows it has at hand.                    *)

Knows(x, d, got) ==
  /\ x.phase = "recover" => \A r \in x.work : d[r] = "IN_FLIGHT"
  /\ x.phase = "promote" => \A r \in x.work : d[r] = "FAILED"
  /\ x.op \notin {"next", "fan"} => x.at \notin x.work
  /\ x.op \in {"abandon", "claim"} => d[x.at] = "PENDING"
  /\ x.op \in {"retire", "insert"} => d[x.at] = "FAILED"
  /\ x.op \in {"post", "success"} \cup FailureOps => d[x.at] = "IN_FLIGHT"
  /\ x.op = "success" => got[x.at] > 0

LoneInv == \A w \in Workers : Knows(worker[w], delivery, receipts)

-----------------------------------------------------------------------------
(* What a step does to the rows and to the endpoint.                       *)

Prior(q) == <<q[1], q[2], q[3] - 1>>

Inserts(q) ==
  /\ delivery[q] = "none"
  /\ q[3] = 1 \/ delivery[Prior(q)] = "FAILED"
  /\ delivery' = [delivery EXCEPT ![q] = "PENDING"]
  /\ UNCHANGED receipts

Claims(q) ==
  /\ delivery[q] = "PENDING"
  /\ delivery' = [delivery EXCEPT ![q] = "IN_FLIGHT"]
  /\ UNCHANGED receipts

Posts(q) ==
  /\ delivery[q] = "IN_FLIGHT"
  /\ receipts' \in {receipts, [receipts EXCEPT ![q] = @ + 1]}
  /\ UNCHANGED delivery

Delivers(q) ==
  /\ delivery[q] = "IN_FLIGHT"
  /\ receipts[q] > 0
  /\ delivery' = [delivery EXCEPT ![q] = "DELIVERED"]
  /\ UNCHANGED receipts

Closes(q) ==
  /\ delivery[q] = "IN_FLIGHT"
  /\ \E status \in {"FAILED", "EXHAUSTED"} : delivery' = [delivery EXCEPT ![q] = status]
  /\ UNCHANGED receipts

Abandons(Q) ==
  /\ \A q \in Q : delivery[q] \in {"PENDING", "IN_FLIGHT", "FAILED"}
  /\ delivery' = [r \in Row |-> IF r \in Q THEN "ABANDONED" ELSE delivery[r]]
  /\ UNCHANGED receipts

Effect ==
  \/ UNCHANGED <<delivery, receipts>>
  \/ \E q \in Row : Inserts(q) \/ Claims(q) \/ Posts(q) \/ Delivers(q) \/ Closes(q)
  \/ \E Q \in SUBSET Row : Abandons(Q)

-----------------------------------------------------------------------------
(* The steps of a lone worker.                                             *)

\* The lone worker after a step.
LEMMA LoneMoves ==
  ASSUME DispatcherInv, NEW w, Workers = {w}, NEW y,
         worker' = [worker EXCEPT ![w] = y], Knows(y, delivery', receipts')
  PROVE  LoneInv'
<1>1. worker \in [Workers -> WorkerState]
  BY DEF DispatcherInv, TypeOK, WorkerState
<1>2. worker'[w] = y
  BY <1>1
<1> QED BY <1>2 DEF LoneInv

\* It knows what it has just read: the loops start with rows in the status
\* their query asks for.
LEMMA LoneRunOnce ==
  ASSUME DispatcherInv, LoneInv, NEW w, Workers = {w}, runOnce(w)
  PROVE  LoneInv' /\ Effect
<1>1. UNCHANGED <<delivery, receipts>>
  BY DEF runOnce, rowVars, envVars
<1>2. \A S, order : oldest(S, order) \subseteq S
  BY DEF oldest
<1>3. ASSUME NEW phase, NEW work,
             phase = "recover" => work \subseteq staleInFlight,
             phase = "promote" => work \subseteq retriesDue,
             worker' = [worker EXCEPT ![w] = AtRest(phase, work)]
      PROVE  LoneInv'
  <2> DEFINE y == AtRest(phase, work)
  <2>1. y.phase = phase /\ y.op = "next" /\ y.work = work
    BY DEF AtRest
  <2> HIDE DEF y
  <2>2. Knows(y, delivery, receipts)
    BY <1>3, <2>1 DEF Knows, staleInFlight, retriesDue, FailureOps, CloseOps
  <2> QED BY <1>1, <1>3, <2>2, LoneMoves DEF y
<1>4. worker[w].phase \in {"idle", "recover", "enqueue", "promote", "send"}
  BY DEF DispatcherInv, WorkerShape, WorkerState
<1>5. CASE worker[w].phase = "idle"
  <2>1. worker' = [worker EXCEPT ![w] = AtRest("recover", oldest(staleInFlight, created))]
    BY <1>5 DEF runOnce
  <2> QED BY <1>1, <1>2, <1>3, <2>1 DEF Effect
<1>6. CASE worker[w].phase = "recover"
  <2>1. worker' = [worker EXCEPT ![w] = AtRest("enqueue", oldest(unfannedEvents, events))]
    BY <1>6 DEF runOnce
  <2> QED BY <1>1, <1>3, <2>1 DEF Effect
<1>7. CASE worker[w].phase = "enqueue"
  <2>1. worker' = [worker EXCEPT ![w] = AtRest("promote", oldest(retriesDue, dueRetries))]
    BY <1>7 DEF runOnce
  <2> QED BY <1>1, <1>2, <1>3, <2>1 DEF Effect
<1>8. CASE worker[w].phase = "promote"
  <2>1. worker' = [worker EXCEPT ![w] = AtRest("send", oldest(pendingDeliveries, created))]
    BY <1>8 DEF runOnce
  <2> QED BY <1>1, <1>3, <2>1 DEF Effect
<1>9. CASE worker[w].phase = "send"
  <2>1. worker' = [worker EXCEPT ![w] = AtRest("idle", {})]
    BY <1>9 DEF runOnce, Idle
  <2> QED BY <1>1, <1>3, <2>1 DEF Effect
<1> QED BY <1>4, <1>5, <1>6, <1>7, <1>8, <1>9

\* Picking an item or reading what belongs to it leaves the rows alone.
LEMMA LonePicks ==
  ASSUME DispatcherInv, LoneInv, NEW w, Workers = {w},
         \/ \E r \in Row : recoverStaleInFlight(w, r) \/ loadRetry(w, r) \/ loadDelivery(w, r)
         \/ \E ev \in Events : loadEndpoints(w, ev)
  PROVE  LoneInv' /\ Effect
<1> DEFINE x == worker[w]
<1>1. /\ UNCHANGED <<delivery, receipts>>
      /\ x \in WorkerState
      /\ Knows(x, delivery, receipts)
      /\ worker \in [Workers -> WorkerState]
  BY DEF recoverStaleInFlight, loadRetry, loadDelivery, loadEndpoints, rowVars, envVars,
         DispatcherInv, TypeOK, WorkerState, LoneInv
<1>2. Effect
  BY <1>1 DEF Effect
<1>3. ASSUME NEW r, NEW op, r \in x.work, x.op = "next",
             worker' = [worker EXCEPT ![w] = Moved(x, op, r, x.work \ {r})],
             \/ op = "failure" /\ x.phase = "recover"
             \/ op \in {"insert", "retire"} /\ x.phase = "promote"
             \/ op \in {"claim", "abandon"} /\ delivery[r] = "PENDING"
      PROVE  LoneInv'
  <2> DEFINE y == Moved(x, op, r, x.work \ {r})
  <2>1. y.phase = x.phase /\ y.op = op /\ y.at = r /\ y.work = x.work \ {r}
    BY DEF Moved
  <2> HIDE DEF y
  <2>2. Knows(y, delivery, receipts)
    BY <1>1, <1>3, <2>1 DEF Knows, FailureOps, CloseOps
  <2> QED BY <1>1, <1>3, <2>2, LoneMoves DEF y
<1>4. ASSUME NEW i, x.op = "next",
             worker' = [worker EXCEPT ![w] = Moved(x, "next", x.at, x.work \ {i})]
      PROVE  LoneInv'
  <2> DEFINE y == Moved(x, "next", x.at, x.work \ {i})
  <2>1. y.phase = x.phase /\ y.op = "next" /\ y.at = x.at /\ y.work = x.work \ {i}
    BY DEF Moved
  <2> HIDE DEF y
  <2>2. Knows(y, delivery, receipts)
    BY <1>1, <1>4, <2>1 DEF Knows, FailureOps, CloseOps
  <2> QED BY <1>1, <1>4, <2>2, LoneMoves DEF y
<1>5. ASSUME NEW r \in Row, recoverStaleInFlight(w, r)
      PROVE  LoneInv'
  BY <1>3, <1>5, WorkerForms DEF recoverStaleInFlight, Handling
<1>6. ASSUME NEW r \in Row, loadRetry(w, r)
      PROVE  LoneInv'
  <2> DEFINE op == IF enabled[r[2]] THEN "insert" ELSE "retire"
  <2>1. Pick(w, r, op) /\ r \in x.work /\ x.op = "next" /\ x.phase = "promote"
    BY <1>6 DEF loadRetry, Handling
  <2>2. op \in {"insert", "retire"}
    OBVIOUS
  <2> HIDE DEF op
  <2> QED BY <1>3, <2>1, <2>2, WorkerForms
<1>7. ASSUME NEW r \in Row, loadDelivery(w, r)
      PROVE  LoneInv'
  <2>1. CASE delivery[r] # "PENDING"
    BY <1>4, <1>7, <2>1, WorkerForms DEF loadDelivery, Handling
  <2>2. CASE delivery[r] = "PENDING"
    <3> DEFINE op == IF enabled[r[2]] THEN "claim" ELSE "abandon"
    <3>1. Pick(w, r, op) /\ r \in x.work /\ x.op = "next"
      BY <1>7, <2>2 DEF loadDelivery, Handling
    <3>2. op \in {"claim", "abandon"}
      OBVIOUS
    <3> HIDE DEF op
    <3>3. worker' = [worker EXCEPT ![w] = Moved(x, op, r, x.work \ {r})]
      BY <3>1, WorkerForms
    <3> HIDE DEF x
    <3> QED BY <1>3, <2>2, <3>1, <3>2, <3>3
  <2> QED BY <2>1, <2>2
<1>8. ASSUME NEW ev \in Events, loadEndpoints(w, ev)
      PROVE  LoneInv'
  <2> DEFINE targets == {p \in Endpoints : enabled[p] /\ subscribed(p, ev)}
  <2>1. CASE targets = {}
    BY <1>4, <1>8, <2>1, WorkerForms DEF loadEndpoints, Handling
  <2>2. CASE targets # {}
    <3>1. worker' = [worker EXCEPT ![w].work = @ \ {ev}, ![w].at = ev,
                                   ![w].op = "fan", ![w].targets = targets]
      BY <1>8, <2>2 DEF loadEndpoints
    <3>2. x.phase = "enqueue"
      BY <1>8 DEF loadEndpoints, Handling
    <3> HIDE DEF targets
    <3> DEFINE y == [x EXCEPT !.work = @ \ {ev}, !.at = ev, !.op = "fan", !.targets = targets]
    <3>3. worker' = [worker EXCEPT ![w] = y]
      BY <1>1, <3>1
    <3>4. y.phase = "enqueue" /\ y.op = "fan"
      BY <1>1, <3>2 DEF WorkerState
    <3> HIDE DEF y
    <3>5. Knows(y, delivery, receipts)
      BY <3>4 DEF Knows, FailureOps, CloseOps
    <3> QED BY <1>1, <3>3, <3>5, LoneMoves
  <2> QED BY <2>1, <2>2
<1> QED BY <1>2, <1>5, <1>6, <1>7, <1>8

\* An item is finished without touching the rows of the items to come.
LEMMA LoneFinish ==
  ASSUME DispatcherInv, LoneInv, NEW w, Workers = {w}, Finish(w),
         worker[w].phase \in {"recover", "promote"} =>
           \A r \in worker[w].work : delivery'[r] = delivery[r]
  PROVE  LoneInv'
<1> DEFINE x == worker[w]
           y == AtRest(x.phase, x.work)
<1>1. worker' = [worker EXCEPT ![w] = y]
  BY WorkerForms
<1>2. Knows(x, delivery, receipts)
  BY DEF LoneInv
<1>3. y.phase = x.phase /\ y.op = "next" /\ y.work = x.work
  BY DEF AtRest
<1> HIDE DEF y
<1>4. Knows(y, delivery', receipts')
  BY <1>2, <1>3 DEF Knows, FailureOps, CloseOps
<1> QED BY <1>1, <1>4, LoneMoves

\* The statements of enqueueNewDeliveries and promoteDueRetries insert a row
\* at the end of its chain, or retire a failed one.
LEMMA LoneInserts ==
  ASSUME DispatcherInv, LoneInv, NEW w, Workers = {w},
         (\E p \in Endpoints : enqueueDelivery(w, p)) \/ insertRetry(w)
  PROVE  LoneInv' /\ Effect
<1> DEFINE x == worker[w]
<1>1. /\ TypeOK /\ x \in WorkerState /\ WorkerShape(x) /\ Knows(x, delivery, receipts)
      /\ worker \in [Workers -> WorkerState]
  BY DEF DispatcherInv, TypeOK, WorkerState, LoneInv
<1>2. ASSUME NEW q \in Row, upsert(q), UNCHANGED receipts,
             q[3] = 1 \/ delivery[Prior(q)] = "FAILED"
      PROVE  Effect
  <2>1. Inserts(q) \/ UNCHANGED <<delivery, receipts>>
    BY <1>2 DEF upsert, Inserts
  <2> QED BY <2>1 DEF Effect
<1>3. ASSUME NEW p \in Endpoints, enqueueDelivery(w, p)
      PROVE  LoneInv' /\ Effect
  <2>1. x.op = "fan" /\ x.phase = "enqueue" /\ x.at \in Events
    BY <1>1, <1>3 DEF enqueueDelivery, WorkerShape
  <2> DEFINE q == <<x.at, p, 1>>
  <2>2. q \in Row /\ q[3] = 1
    BY <2>1, DispatcherConstants DEF Row
  <2>3. upsert(q) /\ UNCHANGED receipts
    BY <1>3 DEF enqueueDelivery, envVars
  <2> HIDE DEF q
  <2>4. Effect
    BY <1>2, <2>2, <2>3
  <2>5. CASE x.targets = {p}
    BY <1>3, <2>1, <2>4, <2>5, LoneFinish DEF enqueueDelivery
  <2>6. CASE x.targets # {p}
    <3> DEFINE y == [x EXCEPT !.targets = @ \ {p}]
    <3>1. worker' = [worker EXCEPT ![w].targets = @ \ {p}]
      BY <1>3, <2>6 DEF enqueueDelivery
    <3>2. worker' = [worker EXCEPT ![w] = y]
      BY <1>1, <3>1
    <3>3. y.phase = "enqueue" /\ y.op = "fan"
      BY <1>1, <2>1 DEF WorkerState
    <3> HIDE DEF y
    <3>4. Knows(y, delivery', receipts')
      BY <3>3 DEF Knows, FailureOps, CloseOps
    <3> QED BY <2>4, <3>2, <3>4, LoneMoves
  <2> QED BY <2>5, <2>6
<1>4. ASSUME insertRetry(w)
      PROVE  LoneInv' /\ Effect
  <2> DEFINE r == x.at
             q == <<r[1], r[2], r[3] + 1>>
  <2>1. x.op = "insert" /\ x.phase = "promote" /\ r \in Row /\ delivery[r] = "FAILED"
    BY <1>1, <1>4 DEF insertRetry, WorkerShape, Knows
  <2>2. r[3] < maxAttempts
    BY <2>1 DEF DispatcherInv, RowsSound
  <2>3. q \in Row /\ Prior(q) = r
    BY <2>1, <2>2, DispatcherConstants DEF Row, Prior
  <2>4. upsert(q) /\ UNCHANGED receipts /\ Finish(w)
    BY <1>4 DEF insertRetry, envVars
  <2> HIDE DEF q
  <2>5. Effect
    BY <1>2, <2>1, <2>3, <2>4
  <2>6. \A s \in Row : delivery[s] = "FAILED" => delivery'[s] = delivery[s]
    BY <1>1, <2>3, <2>4 DEF upsert, TypeOK
  <2>7. \A s \in x.work : s \in Row /\ delivery[s] = "FAILED"
    BY <1>1, <2>1 DEF WorkerShape, Knows
  <2> QED BY <2>4, <2>5, <2>6, <2>7, LoneFinish
<1> QED BY <1>3, <1>4

\* Giving up one row.
LEMMA LoneAbandons ==
  ASSUME DispatcherInv, LoneInv, NEW w, Workers = {w}, retireRetry(w) \/ abandonDelivery(w)
  PROVE  LoneInv' /\ Effect
<1> DEFINE x == worker[w]
           r == x.at
<1>1. TypeOK /\ WorkerShape(x) /\ Knows(x, delivery, receipts)
  BY DEF DispatcherInv, LoneInv
<1>2. /\ x.op \in {"retire", "abandon"}
      /\ delivery' = [delivery EXCEPT ![r] = "ABANDONED"]
      /\ Finish(w)
      /\ UNCHANGED receipts
  BY DEF retireRetry, abandonDelivery, envVars
<1>3. r \in Row /\ delivery[r] \in {"PENDING", "FAILED"} /\ r \notin x.work
  BY <1>1, <1>2 DEF WorkerShape, Knows
<1>4. delivery' = [q \in Row |-> IF q \in {r} THEN "ABANDONED" ELSE delivery[q]]
  BY <1>1, <1>2, <1>3 DEF TypeOK
<1>5. Abandons({r})
  BY <1>2, <1>3, <1>4 DEF Abandons
<1>6. x.phase \in {"recover", "promote"} => \A q \in x.work : delivery'[q] = delivery[q]
  BY <1>1, <1>3, <1>4 DEF WorkerShape
<1> QED BY <1>2, <1>3, <1>5, <1>6, LoneFinish DEF Effect

\* The claim finds the row as it was read, and the call that is answered with
\* a success has been received.
LEMMA LoneSends ==
  ASSUME DispatcherInv, LoneInv, NEW w, Workers = {w},
         \/ claimDelivery(w)
         \/ \E arrives \in BOOLEAN, answer \in {"success", "failure"} : postDelivery(w, arrives, answer)
         \/ finalizeSuccess(w)
  PROVE  LoneInv' /\ Effect
<1> DEFINE x == worker[w]
           r == x.at
<1>1. TypeOK /\ WorkerShape(x) /\ Knows(x, delivery, receipts)
  BY DEF DispatcherInv, LoneInv
<1>2. ASSUME NEW op \in {"post", "success", "reset", "failure"}, Step(w, op),
             x.op \in {"claim", "post", "success"},
             op \in {"post", "success", "failure"} => delivery'[r] = "IN_FLIGHT",
             op = "success" => receipts'[r] > 0
      PROVE  LoneInv'
  <2> DEFINE y == Moved(x, op, r, x.work)
  <2>1. worker' = [worker EXCEPT ![w] = y]
    BY <1>2, WorkerForms
  <2>2. y.phase = "send" /\ y.op = op /\ y.at = r /\ y.work = x.work /\ r \notin x.work
    BY <1>1, <1>2 DEF Moved, WorkerShape, Knows
  <2> HIDE DEF y
  <2>3. Knows(y, delivery', receipts')
    BY <1>2, <2>2 DEF Knows, FailureOps, CloseOps
  <2> QED BY <2>1, <2>3, LoneMoves
<1>3. ASSUME claimDelivery(w)
      PROVE  LoneInv' /\ Effect
  <2>1. x.op = "claim" /\ r \in Row /\ delivery[r] = "PENDING"
    BY <1>1, <1>3 DEF claimDelivery, WorkerShape, Knows
  <2>2. Claims(r) /\ Step(w, "post")
    BY <1>3, <2>1 DEF claimDelivery, Claims, envVars
  <2>3. delivery'[r] = "IN_FLIGHT"
    BY <1>1, <2>1, <2>2 DEF Claims, TypeOK
  <2> QED BY <1>2, <2>1, <2>2, <2>3 DEF Effect
<1>4. ASSUME NEW arrives \in BOOLEAN, NEW answer \in {"success", "failure"},
             postDelivery(w, arrives, answer)
      PROVE  LoneInv' /\ Effect
  <2>1. x.op = "post" /\ r \in Row /\ delivery[r] = "IN_FLIGHT"
    BY <1>1, <1>4 DEF postDelivery, WorkerShape, Knows
  <2>2. UNCHANGED delivery /\ Step(w, answer)
    BY <1>4 DEF postDelivery, rowVars
  <2>3. receipts \in [Row -> Nat]
    BY <1>1 DEF TypeOK
  <2>4. CASE arrives
    <3>1. receipts' = [receipts EXCEPT ![r] = @ + 1]
      BY <1>4, <2>4 DEF postDelivery
    <3>2. receipts'[r] > 0
      BY <2>1, <2>3, <3>1
    <3>3. Posts(r)
      BY <2>1, <2>2, <3>1 DEF Posts
    <3> QED BY <1>2, <2>1, <2>2, <3>2, <3>3 DEF Effect
  <2>5. CASE ~arrives
    <3>1. receipts' = [receipts EXCEPT ![r] = @ + 0] /\ answer # "success"
      BY <1>4, <2>5 DEF postDelivery
    <3>2. receipts' = receipts
      BY <2>1, <2>3, <3>1
    <3>3. Posts(r)
      BY <2>1, <2>2, <3>2 DEF Posts
    <3> QED BY <1>2, <2>1, <2>2, <3>1, <3>3 DEF Effect
  <2> QED BY <2>4, <2>5
<1>5. ASSUME finalizeSuccess(w)
      PROVE  LoneInv' /\ Effect
  <2>1. x.op = "success" /\ r \in Row /\ delivery[r] = "IN_FLIGHT" /\ receipts[r] > 0
    BY <1>1, <1>5 DEF finalizeSuccess, WorkerShape, Knows
  <2>2. Delivers(r) /\ Step(w, "reset")
    BY <1>5, <2>1 DEF finalizeSuccess, Delivers, envVars
  <2> QED BY <1>2, <2>1, <2>2 DEF Effect
<1> QED BY <1>3, <1>4, <1>5

\* finalizeFailure works on the row it was called for, which is in flight to
\* the end.
LEMMA LoneFails ==
  ASSUME DispatcherInv, LoneInv, NEW w, Workers = {w},
         countFailure(w) \/ disableEndpoint(w) \/ abandonQueued(w) \/ closeFailed(w)
  PROVE  LoneInv' /\ Effect
<1> DEFINE x == worker[w]
           r == x.at
<1>1. TypeOK /\ WorkerShape(x) /\ Knows(x, delivery, receipts)
  BY DEF DispatcherInv, LoneInv
<1>2. x.op \in FailureOps
  BY DEF countFailure, disableEndpoint, abandonQueued, closeFailed, FailureOps, CloseOps
<1>3. r \in Row /\ delivery[r] = "IN_FLIGHT" /\ r \notin x.work /\ x.phase \in {"recover", "send"}
  BY <1>1, <1>2 DEF WorkerShape, Knows, FailureOps, CloseOps
<1>4. x.work \subseteq Row /\ (x.phase = "recover" => \A q \in x.work : delivery[q] = "IN_FLIGHT")
  BY <1>1, <1>3 DEF WorkerShape, Knows
<1>5. ASSUME NEW op \in FailureOps, Step(w, op),
             \A q \in Row : delivery[q] = "IN_FLIGHT" => delivery'[q] = "IN_FLIGHT"
      PROVE  LoneInv'
  <2> DEFINE y == Moved(x, op, r, x.work)
  <2>1. worker' = [worker EXCEPT ![w] = y]
    BY <1>5, WorkerForms
  <2>2. y.phase = x.phase /\ y.op = op /\ y.at = r /\ y.work = x.work
    BY DEF Moved
  <2> HIDE DEF y
  <2>3. op \notin {"next", "fan", "abandon", "claim", "retire", "insert", "post", "success"}
    BY DEF FailureOps, CloseOps
  <2>4. Knows(y, delivery', receipts')
    BY <1>3, <1>4, <1>5, <2>2, <2>3 DEF Knows
  <2> QED BY <2>1, <2>4, LoneMoves
<1>6. ASSUME countFailure(w) \/ disableEndpoint(w)
      PROVE  LoneInv' /\ Effect
  <2>1. UNCHANGED <<delivery, receipts>>
    BY <1>6 DEF countFailure, disableEndpoint, rowVars, envVars
  <2>2. Step(w, "EXHAUSTED") \/ Step(w, "disable") \/ Step(w, "FAILED") \/ Step(w, "sweep")
    BY <1>6 DEF countFailure, disableEndpoint
  <2>3. {"EXHAUSTED", "disable", "FAILED", "sweep"} \subseteq FailureOps
    BY DEF FailureOps, CloseOps
  <2>4. LoneInv'
    BY <1>5, <2>1, <2>2, <2>3
  <2> QED BY <2>1, <2>4 DEF Effect
<1>7. ASSUME abandonQueued(w)
      PROVE  LoneInv' /\ Effect
  <2> DEFINE Q == {q \in Row : q[2] = r[2] /\ delivery[q] = "PENDING"}
  <2>1. /\ delivery' = [q \in Row |-> IF q[2] = r[2] /\ delivery[q] = "PENDING"
                                      THEN "ABANDONED" ELSE delivery[q]]
        /\ UNCHANGED receipts
        /\ Step(w, "ABANDONED")
    BY <1>7 DEF abandonQueued, envVars
  <2>2. delivery' = [q \in Row |-> IF q \in Q THEN "ABANDONED" ELSE delivery[q]]
    BY <2>1
  <2>3. Abandons(Q) /\ Q \in SUBSET Row
    BY <2>1, <2>2 DEF Abandons
  <2>4. "ABANDONED" \in FailureOps
    BY DEF FailureOps, CloseOps
  <2>5. LoneInv'
    BY <1>5, <2>1, <2>4
  <2> HIDE DEF Q
  <2> QED BY <2>3, <2>5 DEF Effect
<1>8. ASSUME closeFailed(w)
      PROVE  LoneInv' /\ Effect
  <2>1. /\ delivery' = [delivery EXCEPT ![r] = x.op]
        /\ UNCHANGED receipts
        /\ Finish(w)
        /\ x.op \in {"EXHAUSTED", "FAILED", "ABANDONED"}
    BY <1>8 DEF closeFailed, envVars
  <2>2. LoneInv'
    BY <1>1, <1>3, <1>4, <2>1, LoneFinish DEF TypeOK
  <2>3. CASE x.op = "ABANDONED"
    <3>1. delivery' = [q \in Row |-> IF q \in {r} THEN "ABANDONED" ELSE delivery[q]]
      BY <1>1, <1>3, <2>1, <2>3 DEF TypeOK
    <3>2. Abandons({r}) /\ {r} \in SUBSET Row
      BY <1>3, <2>1, <3>1 DEF Abandons
    <3> QED BY <2>2, <3>2 DEF Effect
  <2>4. CASE x.op \in {"EXHAUSTED", "FAILED"}
    <3>1. Closes(r)
      BY <1>3, <2>1, <2>4 DEF Closes
    <3> QED BY <1>3, <2>2, <3>1 DEF Effect
  <2> QED BY <2>1, <2>3, <2>4
<1> QED BY <1>6, <1>7, <1>8

\* Every step of a dispatcher with one worker, and without database errors in
\* finalizeSuccess, keeps what the worker knows and has one of the effects.
LEMMA LoneStep ==
  ASSUME DispatcherInv, LoneInv, NEW w, Workers = {w}, MaxErrors = 0, [Next]_vars
  PROVE  LoneInv' /\ Effect
<1>1. CASE UNCHANGED vars
  BY <1>1 DEF vars, rowVars, envVars, LoneInv, Effect
<1>2. CASE Run(w)
  <2>1. CASE resetFailures(w)
    <3>1. UNCHANGED <<delivery, receipts>> /\ Finish(w)
      BY <2>1 DEF resetFailures, rowVars, envVars
    <3> QED BY <3>1, LoneFinish DEF Effect
  <2> QED BY <1>2, <2>1, LoneRunOnce, LonePicks, LoneInserts, LoneAbandons, LoneSends, LoneFails
          DEF Run
<1>3. ~successFails(w)
  BY DEF successFails, DispatcherInv, TypeOK
<1>4. CASE crash(w)
  <2> DEFINE y == Idle
  <2>1. worker' = [worker EXCEPT ![w] = y] /\ UNCHANGED <<delivery, receipts>>
    BY <1>4 DEF crash, rowVars
  <2>2. y.phase = "idle" /\ y.op = "next"
    BY DEF Idle, AtRest
  <2> HIDE DEF y
  <2>3. Knows(y, delivery', receipts')
    BY <2>2 DEF Knows, FailureOps, CloseOps
  <2> QED BY <2>1, <2>3, LoneMoves DEF Effect
<1>5. CASE \/ \E ev \in Events : emitWebhook(ev)
           \/ \E p \in Endpoints, change \in {"keep", "enable", "disable"}, types \in SUBSET Events :
                update(p, change, types)
           \/ \E r \in Row : retryFallsDue(r) \/ inFlightGrowsStale(r)
  <2>1. UNCHANGED <<delivery, receipts, worker>>
    BY <1>5 DEF emitWebhook, update, retryFallsDue, inFlightGrowsStale, rowVars, envVars
  <2> QED BY <2>1 DEF LoneInv, Effect
<1> QED BY <1>1, <1>2, <1>3, <1>4, <1>5 DEF Next

\* Idle workers know nothing.
LEMMA LoneInit ==
  ASSUME Init
  PROVE  LoneInv
<1> DEFINE y == Idle
<1>1. y.phase = "idle" /\ y.op = "next"
  BY DEF Idle, AtRest
<1> HIDE DEF y
<1>2. Knows(y, delivery, receipts)
  BY <1>1 DEF Knows, FailureOps, CloseOps
<1> QED BY <1>2 DEF LoneInv, Init, y

\* A dispatcher with one worker never rewrites history: no crash, retry,
\* recovery or change of settings takes a row out of DELIVERED, EXHAUSTED or
\* ABANDONED, nor out of FAILED but to abandon it.
THEOREM HistoryStays ==
  ASSUME NEW only, Workers = {only}, MaxErrors = 0
  PROVE  Spec => SettledRowsStay
<1> DEFINE Stays == \A r \in Row :
             /\ delivery[r] \in {"DELIVERED", "EXHAUSTED", "ABANDONED"} => delivery'[r] = delivery[r]
             /\ delivery[r] = "FAILED" => delivery'[r] \in {"FAILED", "ABANDONED"}
<1>1. DispatcherInv /\ Effect => Stays
  BY DEF DispatcherInv, TypeOK, Effect, Inserts, Claims, Posts, Delivers, Closes, Abandons
<1>2. DispatcherInv /\ LoneInv /\ [Next]_vars => LoneInv' /\ Effect
  BY LoneStep
<1>3. DispatcherInv /\ LoneInv /\ [Next]_vars => [Stays]_vars
  BY <1>1, <1>2
<1>4. Init => LoneInv
  BY LoneInit
<1> HIDE DEF Stays
<1>5. Spec => [][Stays]_vars
  BY <1>2, <1>3, <1>4, DispatcherInitInv, DispatcherStepInv, PTL DEF Spec
<1> QED BY <1>5 DEF Stays, SettledRowsStay

-----------------------------------------------------------------------------
(* The newest row of a chain.                                              *)

RowOf(c, n)  == <<c[1], c[2], n>>
ChainOf(r)   == <<r[1], r[2]>>
Made(c, d)   == {n \in 1..maxAttempts : d[RowOf(c, n)] # "none"}
Top(M)       == CHOOSE n \in M : \A m \in M : m <= n
Newest(c, d) == IF Made(c, d) = {} THEN "none" ELSE d[RowOf(c, Top(Made(c, d)))]

StateOf(status) ==
  CASE status = "none"      -> "none"
    [] status = "DELIVERED" -> "delivered"
    [] status = "EXHAUSTED" -> "exhausted"
    [] status = "ABANDONED" -> "abandoned"
    [] OTHER                -> "open"

\* Every chain with a row has a last one.  (It holds of any finite set; as an
\* invariant it needs no induction over the attempts.)
TopExists(c, d) ==
  \/ \A n \in 1..maxAttempts : d[RowOf(c, n)] = "none"
  \/ \E r \in Row : ChainOf(r) = c /\ d[r] # "none" /\ Last(r, d)

TopsInv == \A c \in Chains : TopExists(c, delivery)

\* Rows and chains.
LEMMA RowFacts ==
  /\ \A r \in Row : ChainOf(r) \in Chains /\ RowOf(ChainOf(r), r[3]) = r /\ r[3] \in 1..maxAttempts
  /\ \A c \in Chains, n \in 1..maxAttempts :
       RowOf(c, n) \in Row /\ ChainOf(RowOf(c, n)) = c /\ RowOf(c, n)[3] = n
BY DEF Row, Chains, ChainOf, RowOf

\* The row without a successor is the newest.
LEMMA LastIsNewest ==
  ASSUME NEW d, NEW r \in Row, d[r] # "none", Last(r, d)
  PROVE  Newest(ChainOf(r), d) = d[r]
<1> DEFINE c == ChainOf(r)
           M == Made(c, d)
           top == Top(M)
<1>1. c \in Chains /\ RowOf(c, r[3]) = r /\ r[3] \in 1..maxAttempts
  BY RowFacts
<1>2. r[3] \in M
  BY <1>1 DEF Made
<1>3. ASSUME NEW m \in M PROVE m <= r[3]
  <2>1. m \in 1..maxAttempts /\ d[RowOf(c, m)] # "none" /\ RowOf(c, m) \in Row
    BY <1>1, RowFacts DEF Made
  <2>2. m > r[3] => Follows(RowOf(c, m), r)
    BY <1>1 DEF Follows, RowOf, ChainOf
  <2>3. m \in Int /\ r[3] \in Int
    BY <1>1, <2>1, DispatcherConstants
  <2> QED BY <2>1, <2>2, <2>3 DEF Last
<1>4. top \in M /\ \A m \in M : m <= top
  BY <1>2, <1>3 DEF Top
<1>5. top \in Int /\ r[3] \in Int
  BY <1>1, <1>4, DispatcherConstants DEF Made
<1>6. top = r[3]
  BY <1>2, <1>3, <1>4, <1>5
<1> QED BY <1>1, <1>2, <1>6 DEF Newest

\* A chain without rows has none.
LEMMA EmptyIsNone ==
  ASSUME NEW c, NEW d, \A n \in 1..maxAttempts : d[RowOf(c, n)] = "none"
  PROVE  Newest(c, d) = "none"
BY DEF Newest, Made

\* A chain whose rows are not touched keeps its newest row.
LEMMA UntouchedChain ==
  ASSUME NEW c \in Chains, NEW d, NEW e, TopExists(c, d),
         \A n \in 1..maxAttempts : e[RowOf(c, n)] = d[RowOf(c, n)]
  PROVE  TopExists(c, e) /\ Newest(c, e) = Newest(c, d)
<1>1. CASE \A n \in 1..maxAttempts : d[RowOf(c, n)] = "none"
  BY <1>1, EmptyIsNone DEF TopExists
<1>2. CASE \E r \in Row : ChainOf(r) = c /\ d[r] # "none" /\ Last(r, d)
  <2>1. PICK r \in Row : ChainOf(r) = c /\ d[r] # "none" /\ Last(r, d)
    BY <1>2
  <2>2. e[r] = d[r]
    BY <2>1, RowFacts
  <2>3. ASSUME NEW q \in Row, Follows(q, r) PROVE e[q] = "none"
    <3>1. ChainOf(q) = c
      BY <2>1, <2>3 DEF Follows, ChainOf
    <3> QED BY <2>1, <2>3, <3>1, RowFacts DEF Last
  <2>4. Last(r, e)
    BY <2>3 DEF Last
  <2> QED BY <2>1, <2>2, <2>4, LastIsNewest DEF TopExists
<1> QED BY <1>1, <1>2 DEF TopExists

\* A change of a row q that has no successor is a change of its chain alone.
LEMMA LastChanges ==
  ASSUME NEW d, NEW e, NEW q \in Row, e[q] # "none", Last(q, d),
         \A r \in Row : r # q => e[r] = d[r],
         \A c \in Chains : TopExists(c, d)
  PROVE  /\ \A c \in Chains : TopExists(c, e)
         /\ Newest(ChainOf(q), e) = e[q]
         /\ \A c \in Chains : c # ChainOf(q) => Newest(c, e) = Newest(c, d)
<1>2. Last(q, e)
  BY DispatcherConstants DEF Last, Follows, Row
<1>3. Newest(ChainOf(q), e) = e[q] /\ TopExists(ChainOf(q), e)
  BY <1>2, LastIsNewest DEF TopExists
<1>4. ASSUME NEW c \in Chains, c # ChainOf(q)
      PROVE  TopExists(c, e) /\ Newest(c, e) = Newest(c, d)
  <2>1. \A n \in 1..maxAttempts : e[RowOf(c, n)] = d[RowOf(c, n)]
    BY <1>4, RowFacts
  <2> HIDE DEF TopExists
  <2> QED BY <2>1, UntouchedChain
<1> QED BY <1>3, <1>4

\* The state of a chain of the dispatcher, and whether it was received.
MappedChain == [c \in Chains |-> StateOf(Newest(c, delivery))]
MappedReceived == {c \in Chains : \E n \in 1..maxAttempts : receipts[RowOf(c, n)] > 0}

\* The state of a chain is that of its newest row.
LEMMA ChainStates ==
  /\ [c \in Chains |-> chainState(c)] = MappedChain
  /\ [c \in Chains |-> chainState(c)]' = MappedChain'
<1>1. \A c : newest(c) = Newest(c, delivery) /\ newest(c)' = Newest(c, delivery')
  BY DEF newest, Newest, Made, Top, RowOf
<1>2. \A c : chainState(c) = StateOf(newest(c)) /\ chainState(c)' = StateOf(newest(c)')
  BY DEF chainState, StateOf
<1> QED BY <1>1, <1>2 DEF MappedChain

-----------------------------------------------------------------------------
(* Every effect is a step of the promise, or none.                         *)

\* A row that is waiting or in flight has no successor, and a row that is
\* inserted gets none.
LEMMA CurrentIsLast ==
  ASSUME DispatcherInv, NEW q \in Row, delivery[q] \in {"none", "PENDING", "IN_FLIGHT"}
  PROVE  Last(q, delivery)
BY DEF DispatcherInv, RowsSound

\* Changing the status of the newest row of a chain to another one changes the
\* state of that chain and of no other.
LEMMA StatusChange ==
  ASSUME DispatcherInv, TopsInv, NEW q \in Row, NEW status, status # "none",
         delivery[q] \in {"none", "PENDING", "IN_FLIGHT"},
         delivery' = [delivery EXCEPT ![q] = status]
  PROVE  /\ TopsInv'
         /\ MappedChain' = [MappedChain EXCEPT ![ChainOf(q)] = StateOf(status)]
         /\ delivery[q] # "none" => MappedChain[ChainOf(q)] = "open"
<1>1. delivery \in [Row -> DeliveryStatus \cup {"none"}] /\ Last(q, delivery)
  BY CurrentIsLast DEF DispatcherInv, TypeOK
<1>2. /\ \A c \in Chains : TopExists(c, delivery')
      /\ Newest(ChainOf(q), delivery') = status
      /\ \A c \in Chains : c # ChainOf(q) => Newest(c, delivery') = Newest(c, delivery)
  <2>1. \A c \in Chains : TopExists(c, delivery)
    BY DEF TopsInv
  <2>2. delivery'[q] = status /\ \A r \in Row : r # q => delivery'[r] = delivery[r]
    BY <1>1
  <2> QED BY <1>1, <2>1, <2>2, LastChanges
<1>3. ChainOf(q) \in Chains
  BY RowFacts
<1>4. MappedChain' = [MappedChain EXCEPT ![ChainOf(q)] = StateOf(status)]
  BY <1>2, <1>3 DEF MappedChain
<1>5. ASSUME delivery[q] # "none" PROVE MappedChain[ChainOf(q)] = "open"
  <2>1. Newest(ChainOf(q), delivery) = delivery[q]
    BY <1>1, <1>5, LastIsNewest
  <2> QED BY <1>3, <1>5, <2>1 DEF MappedChain, StateOf
<1> QED BY <1>2, <1>4, <1>5 DEF TopsInv

\* The first row of a chain opens it; a later one follows the newest, which
\* has failed, and the chain stays open.
LEMMA InsertRefines ==
  ASSUME DispatcherInv, TopsInv, NEW q \in Row, Inserts(q)
  PROVE  /\ TopsInv'
         /\ MappedChain' = [MappedChain EXCEPT ![ChainOf(q)] = "open"]
         /\ MappedChain[ChainOf(q)] \in {"none", "open"}
<1> DEFINE c == ChainOf(q)
<1>1. c \in Chains /\ RowOf(c, q[3]) = q /\ q[3] \in 1..maxAttempts
  BY RowFacts
<1>2. Last(q, delivery) /\ delivery[q] = "none"
  BY CurrentIsLast DEF Inserts
<1>3. StateOf("PENDING") = "open"
  BY DEF StateOf
<1>4. TopsInv' /\ MappedChain' = [MappedChain EXCEPT ![c] = "open"]
  BY <1>3, StatusChange DEF Inserts
<1>5. CASE q[3] = 1
  <2>1. ASSUME NEW n \in 1..maxAttempts PROVE delivery[RowOf(c, n)] = "none"
    <3>1. RowOf(c, n) \in Row
      BY <1>1, RowFacts
    <3>2. n = 1 \/ Follows(RowOf(c, n), q)
      BY <1>1, <1>5, DispatcherConstants DEF Follows, RowOf, ChainOf
    <3> QED BY <1>1, <1>2, <1>5, <3>1, <3>2 DEF Last
  <2>2. Newest(c, delivery) = "none"
    BY <2>1, EmptyIsNone
  <2> QED BY <1>1, <1>4, <2>2 DEF MappedChain, StateOf
<1>6. CASE q[3] # 1
  <2>1. Prior(q) \in Row /\ ChainOf(Prior(q)) = c
    BY <1>6, DispatcherConstants DEF Row, Prior, ChainOf
  <2>2. delivery[Prior(q)] = "FAILED"
    BY <1>6 DEF Inserts
  <2>3. ASSUME NEW s \in Row, Follows(s, Prior(q)) PROVE s = q \/ Follows(s, q)
    BY <2>3, DispatcherConstants DEF Row, Prior, Follows
  <2>4. Last(Prior(q), delivery)
    BY <1>2, <2>3 DEF Last
  <2>5. Newest(c, delivery) = "FAILED"
    BY <2>1, <2>2, <2>4, LastIsNewest
  <2> QED BY <1>1, <1>4, <2>5 DEF MappedChain, StateOf
<1> QED BY <1>5, <1>6

\* Abandoning rows abandons the chains they are the newest of.
LEMMA AbandonRefines ==
  ASSUME DispatcherInv, TopsInv, NEW Q \in SUBSET Row, Abandons(Q)
  PROVE  /\ TopsInv'
         /\ \E C \in SUBSET Chains :
              /\ \A c \in C : MappedChain[c] = "open"
              /\ MappedChain' = [c \in Chains |-> IF c \in C THEN "abandoned" ELSE MappedChain[c]]
<1> DEFINE C == {c \in Chains : MappedChain[c] = "open" /\ MappedChain'[c] = "abandoned"}
<1>1. \A r \in Row : /\ delivery'[r] = "none" <=> delivery[r] = "none"
                     /\ r \in Q => /\ delivery[r] \in {"PENDING", "IN_FLIGHT", "FAILED"}
                                   /\ delivery'[r] = "ABANDONED"
                     /\ r \notin Q => delivery'[r] = delivery[r]
  BY DEF Abandons
<1>2. ASSUME NEW c \in Chains
      PROVE  /\ TopExists(c, delivery')
             /\ \/ MappedChain'[c] = MappedChain[c]
                \/ MappedChain[c] = "open" /\ MappedChain'[c] = "abandoned"
  <2>1. CASE \A n \in 1..maxAttempts : delivery[RowOf(c, n)] = "none"
    <3>1. \A n \in 1..maxAttempts : delivery'[RowOf(c, n)] = "none"
      BY <1>1, <1>2, <2>1, RowFacts
    <3>2. Newest(c, delivery) = "none" /\ Newest(c, delivery') = "none"
      BY <2>1, <3>1, EmptyIsNone
    <3> QED BY <3>1, <3>2 DEF TopExists, MappedChain
  <2>2. CASE \E r \in Row : ChainOf(r) = c /\ delivery[r] # "none" /\ Last(r, delivery)
    <3>1. PICK r \in Row : ChainOf(r) = c /\ delivery[r] # "none" /\ Last(r, delivery)
      BY <2>2
    <3>2. delivery'[r] # "none" /\ Last(r, delivery')
      BY <1>1, <3>1 DEF Last
    <3>3. Newest(c, delivery) = delivery[r] /\ Newest(c, delivery') = delivery'[r]
      BY <3>1, <3>2, LastIsNewest
    <3>4. MappedChain[c] = StateOf(delivery[r]) /\ MappedChain'[c] = StateOf(delivery'[r])
      BY <3>3 DEF MappedChain
    <3>5. TopExists(c, delivery')
      BY <3>1, <3>2 DEF TopExists
    <3>6. CASE r \in Q
      BY <1>1, <3>4, <3>5, <3>6 DEF StateOf
    <3>7. CASE r \notin Q
      BY <1>1, <3>4, <3>5, <3>7
    <3> QED BY <3>6, <3>7
  <2> QED BY <2>1, <2>2 DEF TopsInv, TopExists
<1>3. TopsInv'
  BY <1>2 DEF TopsInv
<1>4. MappedChain' = [c \in Chains |-> MappedChain'[c]]
  BY DEF MappedChain
<1>5. MappedChain' = [c \in Chains |-> IF c \in C THEN "abandoned" ELSE MappedChain[c]]
  <2>1. \A c \in Chains : MappedChain'[c] = IF c \in C THEN "abandoned" ELSE MappedChain[c]
    BY <1>2
  <2> HIDE DEF C
  <2> QED BY <1>4, <2>1
<1>6. C \in SUBSET Chains /\ \A c \in C : MappedChain[c] = "open"
  OBVIOUS
<1> HIDE DEF C
<1> QED BY <1>3, <1>5, <1>6

\* Every effect on rows and requests is a step of the promise on chains, or
\* leaves the chains as they are.
LEMMA EffectRefines ==
  ASSUME DispatcherInv, TopsInv, Effect
  PROVE  TopsInv' /\ [Promise!Next]_(Promise!vars)
<1>1. /\ [c \in Chains |-> chainState(c)] = MappedChain
      /\ [c \in Chains |-> chainState(c)]' = MappedChain'
  BY ChainStates
<1>2. MappedReceived = {c \in Chains : \E n \in 1..maxAttempts : receipts[<<c[1], c[2], n>>] > 0}
  BY DEF MappedReceived, RowOf
<1>3. UNCHANGED <<MappedChain, MappedReceived>> => UNCHANGED Promise!vars
  BY <1>1 DEF Promise!vars, MappedReceived, RowOf
<1>4. UNCHANGED receipts => UNCHANGED MappedReceived
  BY DEF MappedReceived
<1>5. MappedChain \in [Chains -> {"none", "open", "delivered", "exhausted", "abandoned"}]
  BY DEF MappedChain, StateOf
<1>6. CASE UNCHANGED <<delivery, receipts>>
  BY <1>3, <1>6 DEF TopsInv, MappedChain, MappedReceived
<1>7. ASSUME NEW q \in Row, Inserts(q)
      PROVE  TopsInv' /\ [Promise!Next]_(Promise!vars)
  <2> DEFINE c == ChainOf(q)
  <2>1. /\ TopsInv' /\ c \in Chains
        /\ MappedChain' = [MappedChain EXCEPT ![c] = "open"]
        /\ MappedChain[c] \in {"none", "open"}
        /\ UNCHANGED MappedReceived
    BY <1>4, <1>7, InsertRefines, RowFacts DEF Inserts
  <2>2. CASE MappedChain[c] = "none"
    <3>1. Promise!Open(c)
      BY <1>1, <2>1, <2>2 DEF Promise!Open, MappedReceived, RowOf
    <3> QED BY <2>1, <3>1 DEF Promise!Next
  <2>3. CASE MappedChain[c] = "open"
    BY <1>3, <1>5, <2>1, <2>3
  <2> QED BY <2>1, <2>2, <2>3
<1>8. ASSUME NEW q \in Row, Claims(q)
      PROVE  TopsInv' /\ [Promise!Next]_(Promise!vars)
  <2>1. StateOf("IN_FLIGHT") = "open"
    BY DEF StateOf
  <2>2. /\ TopsInv'
        /\ MappedChain' = [MappedChain EXCEPT ![ChainOf(q)] = "open"]
        /\ MappedChain[ChainOf(q)] = "open"
    BY <1>8, <2>1, StatusChange DEF Claims
  <2> QED BY <1>3, <1>4, <1>5, <1>8, <2>2 DEF Claims
<1>9. ASSUME NEW q \in Row, Posts(q)
      PROVE  TopsInv' /\ [Promise!Next]_(Promise!vars)
  <2> DEFINE c == ChainOf(q)
  <2>1. c \in Chains /\ RowOf(c, q[3]) = q /\ q[3] \in 1..maxAttempts
    BY RowFacts
  <2>2. TopsInv' /\ UNCHANGED MappedChain
    BY <1>9 DEF Posts, TopsInv, MappedChain
  <2>3. CASE receipts' = receipts
    BY <1>3, <1>4, <2>2, <2>3
  <2>4. CASE receipts' = [receipts EXCEPT ![q] = @ + 1]
    <3>1. receipts \in [Row -> Nat]
      BY DEF DispatcherInv, TypeOK
    <3>2. receipts'[q] > 0 /\ \A r \in Row : r # q => receipts'[r] = receipts[r]
      BY <2>4, <3>1
    <3>3. MappedReceived' = MappedReceived \cup {c}
      <4>1. c \in MappedReceived'
        BY <2>1, <3>2 DEF MappedReceived
      <4>2. ASSUME NEW e \in Chains, e # c
            PROVE  e \in MappedReceived' <=> e \in MappedReceived
        BY <3>2, <4>2, RowFacts DEF MappedReceived
      <4>3. MappedReceived \subseteq Chains /\ MappedReceived' \subseteq Chains
        BY DEF MappedReceived
      <4> QED BY <2>1, <4>1, <4>2, <4>3
    <3>4. MappedChain[c] = "open"
      <4>1. Newest(c, delivery) = "IN_FLIGHT"
        BY <1>9, CurrentIsLast, LastIsNewest DEF Posts
      <4> QED BY <2>1, <4>1 DEF MappedChain, StateOf
    <3>5. Promise!Receive(c)
      BY <1>1, <2>2, <3>3, <3>4 DEF Promise!Receive, MappedReceived, RowOf
    <3> QED BY <2>1, <2>2, <3>5 DEF Promise!Next
  <2> QED BY <1>9, <2>3, <2>4 DEF Posts
<1>10. ASSUME NEW q \in Row, Delivers(q)
       PROVE  TopsInv' /\ [Promise!Next]_(Promise!vars)
  <2> DEFINE c == ChainOf(q)
  <2>1. c \in Chains /\ RowOf(c, q[3]) = q /\ q[3] \in 1..maxAttempts
    BY RowFacts
  <2>2. StateOf("DELIVERED") = "delivered"
    BY DEF StateOf
  <2>3. /\ TopsInv'
        /\ MappedChain' = [MappedChain EXCEPT ![c] = "delivered"]
        /\ MappedChain[c] = "open"
    BY <1>10, <2>2, StatusChange DEF Delivers
  <2>4. c \in MappedReceived /\ UNCHANGED MappedReceived
    BY <1>4, <1>10, <2>1 DEF MappedReceived, Delivers
  <2>5. Promise!Deliver(c)
    BY <1>1, <2>3, <2>4 DEF Promise!Deliver, MappedReceived, RowOf
  <2> QED BY <2>1, <2>3, <2>5 DEF Promise!Next
<1>11. ASSUME NEW q \in Row, Closes(q)
       PROVE  TopsInv' /\ [Promise!Next]_(Promise!vars)
  <2> DEFINE c == ChainOf(q)
  <2>1. PICK status \in {"FAILED", "EXHAUSTED"} : delivery' = [delivery EXCEPT ![q] = status]
    BY <1>11 DEF Closes
  <2>2. /\ TopsInv' /\ c \in Chains
        /\ MappedChain' = [MappedChain EXCEPT ![c] = StateOf(status)]
        /\ MappedChain[c] = "open"
        /\ UNCHANGED MappedReceived
    BY <1>4, <1>11, <2>1, StatusChange, RowFacts DEF Closes
  <2>3. CASE status = "FAILED"
    BY <1>3, <1>5, <2>2, <2>3 DEF StateOf
  <2>4. CASE status = "EXHAUSTED"
    <3>1. StateOf(status) = "exhausted"
      BY <2>4 DEF StateOf
    <3>2. Promise!Exhaust(c)
      BY <1>1, <2>2, <3>1 DEF Promise!Exhaust, MappedReceived, RowOf
    <3> QED BY <2>2, <3>2 DEF Promise!Next
  <2> QED BY <2>3, <2>4
<1>12. ASSUME NEW Q \in SUBSET Row, Abandons(Q)
       PROVE  TopsInv' /\ [Promise!Next]_(Promise!vars)
  <2>1. PICK C \in SUBSET Chains :
          /\ \A c \in C : MappedChain[c] = "open"
          /\ MappedChain' = [c \in Chains |-> IF c \in C THEN "abandoned" ELSE MappedChain[c]]
    BY <1>12, AbandonRefines
  <2>2. TopsInv' /\ UNCHANGED MappedReceived
    BY <1>4, <1>12, AbandonRefines DEF Abandons
  <2>3. Promise!Abandon(C)
    BY <1>1, <2>1, <2>2 DEF Promise!Abandon, MappedReceived, RowOf
  <2> QED BY <2>2, <2>3 DEF Promise!Next
<1> QED BY <1>6, <1>7, <1>8, <1>9, <1>10, <1>11, <1>12 DEF Effect

\* At first no chain is open and nothing has been received.
LEMMA PromiseInit ==
  ASSUME Init
  PROVE  TopsInv /\ Promise!Init
<1>1. \A c \in Chains, n \in 1..maxAttempts :
        delivery[RowOf(c, n)] = "none" /\ receipts[RowOf(c, n)] = 0
  BY RowFacts DEF Init
<1>2. TopsInv /\ \A c \in Chains : Newest(c, delivery) = "none"
  BY <1>1, EmptyIsNone DEF TopsInv, TopExists
<1>3. MappedChain = [c \in Chains |-> "none"]
  BY <1>2 DEF MappedChain, StateOf
<1>4. MappedReceived = {}
  BY <1>1 DEF MappedReceived
<1> QED BY <1>2, <1>3, <1>4, ChainStates DEF Promise!Init, MappedReceived, RowOf

\* With one worker, and without database errors in finalizeSuccess, the
\* dispatcher implements WebhookDelivery for any number of events, endpoints,
\* attempts, crashes and changes of settings: a chain is opened once, closed
\* once and for ever, and reported delivered only if the endpoint received it.
THEOREM PromiseKept ==
  ASSUME NEW only, Workers = {only}, MaxErrors = 0
  PROVE  Spec => KeepsPromise
<1>1. Init => LoneInv /\ TopsInv /\ Promise!Init
  BY LoneInit, PromiseInit
<1>2. DispatcherInv /\ LoneInv /\ [Next]_vars => LoneInv' /\ Effect
  BY LoneStep
<1>3. DispatcherInv /\ TopsInv /\ Effect => TopsInv' /\ [Promise!Next]_(Promise!vars)
  BY EffectRefines
<1>4. Spec => Promise!Init /\ [][Promise!Next]_(Promise!vars)
  BY <1>1, <1>2, <1>3, DispatcherInitInv, DispatcherStepInv, PTL DEF Spec
<1> QED BY <1>4 DEF KeepsPromise, Promise!Spec
=============================================================================
