----------------------- MODULE WebhookDispatcherProofs -----------------------
(***************************************************************************)
(* The dispatcher with any number of workers, events, endpoints, attempts, *)
(* crashes and database errors sends an attempt once and keeps the rows of *)
(* a chain in order; with one worker it implements WebhookDelivery.        *)
(***************************************************************************)
EXTENDS WebhookDispatcher, TLAPS

-----------------------------------------------------------------------------
(* The inductive invariant.  Its parts are operators of the values of the  *)
(* variables: x is what a worker is in the middle of, d the status and     *)
(* got the requests received of each row, and old the stale rows.          *)

CloseOps   == {"EXHAUSTED", "FAILED", "ABANDONED"}
FailureOps == {"failure", "disable", "sweep"} \cup CloseOps
SendOps    == {"post", "success", "reset"} \cup FailureOps

WorkerState ==
  [phase : {"idle", "recover", "enqueue", "promote", "send"},
   op : {"next", "fan", "retire", "insert", "abandon", "claim", "post", "success",
         "reset", "failure", "disable", "sweep", "EXHAUSTED", "FAILED", "ABANDONED"},
   at : Row \cup Events \cup {NoItem},
   work : SUBSET (Row \cup Events),
   targets : SUBSET Endpoints]

\* The types of everything but the workers.
OtherTypes ==
  /\ events \in Seq(Events)
  /\ enabled \in [Endpoints -> BOOLEAN]
  /\ consecutiveFailures \in [Endpoints -> Nat]
  /\ eventTypes \in [Endpoints -> SUBSET Events]
  /\ delivery \in [Row -> DeliveryStatus \cup {"none"}]
  /\ created \in Seq(Row)
  /\ dueRetries \in Seq(Row)
  /\ stale \subseteq Row
  /\ receipts \in [Row -> Nat]
  /\ updates \in Nat /\ crashes \in Nat /\ errors \in Nat

\* The statements of each loop are about items of that loop.
WorkerShape(x) ==
  /\ x \in WorkerState
  /\ x.work \subseteq IF x.phase = "enqueue" THEN Events ELSE Row
  /\ x.op = "fan" => x.phase = "enqueue" /\ x.at \in Events
  /\ x.op \in {"retire", "insert"} => x.phase = "promote" /\ x.at \in Row
  /\ x.op \in {"abandon", "claim", "post", "success", "reset"} => x.phase = "send" /\ x.at \in Row
  /\ x.op \in FailureOps => x.phase \in {"recover", "send"} /\ x.at \in Row
  /\ x.op = "FAILED" => x.at[3] < maxAttempts
  /\ x.op = "EXHAUSTED" => x.at[3] >= maxAttempts

\* x has claimed row r and not let go of it; has r to retry; to recover.
Sends(x, r)    == x.phase = "send" /\ x.op \in SendOps /\ x.at = r
Promotes(x, r) == x.phase = "promote" /\ (r \in x.work \/ (x.op # "next" /\ x.at = r))
Recovers(x, r) == x.phase = "recover" /\ (r \in x.work \/ (x.op # "next" /\ x.at = r))

\* s is a later attempt of r's chain.
Follows(s, r) == r[1] = s[1] /\ r[2] = s[2] /\ r[3] < s[3]
Last(r, d)    == \A s \in Row : Follows(s, r) => d[s] = "none"

WorkerSound(x, d, old, got) ==
  /\ \A r \in Row : Recovers(x, r) => r \in old
  /\ \A r \in Row : Promotes(x, r) => d[r] \in {"FAILED", "ABANDONED"} /\ r[3] < maxAttempts
  /\ \A r \in Row : Sends(x, r) => /\ d[r] \notin {"none", "PENDING", "FAILED"}
                                   /\ r \notin old
                                   /\ Last(r, d)
  /\ x.op \in {"abandon", "claim"} => d[x.at] # "none"
  /\ x.op = "post" => got[x.at] = 0

\* A claimed row is nobody else's, neither to send nor to retry.
Exclusive(x, y) == \A r \in Row : Sends(x, r) => ~Sends(y, r) /\ ~Promotes(y, r)

RowsSound(d, old, got) ==
  \A r \in Row :
    /\ d[r] \in {"none", "PENDING"} => r \notin old /\ got[r] = 0
    /\ got[r] <= 1
    /\ d[r] = "FAILED" => r[3] < maxAttempts
    /\ d[r] \in {"FAILED", "ABANDONED"} \/ Last(r, d)

DispatcherInv ==
  /\ TypeOK
  /\ RowsSound(delivery, stale, receipts)
  /\ \A w \in Workers : /\ WorkerShape(worker[w])
                        /\ WorkerSound(worker[w], delivery, stale, receipts)
  /\ \A w, v \in Workers : w # v => Exclusive(worker[w], worker[v])

-----------------------------------------------------------------------------
(* What a step of worker w, which leaves it at y, may do to the rows.      *)

Created(q) ==
  /\ delivery[q] = "none" /\ delivery'[q] = "PENDING"
  /\ \A p \in Row : Follows(q, p) => /\ delivery[p] \in {"FAILED", "ABANDONED"}
                                     /\ delivery'[p] = delivery[p]
                                     /\ \A v \in Workers : ~Sends(worker[v], p)
Claimed(q) == delivery[q] = "PENDING" /\ delivery'[q] = "IN_FLIGHT"
Abandoned(q) == delivery[q] # "none" /\ delivery'[q] = "ABANDONED"
Failed(q, w, y) ==
  /\ delivery[q] \notin {"none", "PENDING"} /\ delivery'[q] = "FAILED"
  /\ q[3] < maxAttempts
  /\ ~Sends(y, q)
  /\ \A v \in Workers \ {w} : ~Sends(worker[v], q)
Concluded(q) ==
  /\ delivery[q] \notin {"none", "PENDING"} /\ delivery'[q] \in {"DELIVERED", "EXHAUSTED"}
  /\ Last(q, delivery)
  /\ \A v \in Workers : ~Promotes(worker[v], q)

RowMoves(w, y) ==
  \A q \in Row : \/ delivery'[q] = delivery[q]
                 \/ Created(q) \/ Claimed(q) \/ Abandoned(q) \/ Failed(q, w, y) \/ Concluded(q)

ReceiptMoves(w) ==
  \A q \in Row : \/ receipts'[q] = receipts[q]
                 \/ Sends(worker[w], q) /\ receipts'[q] <= 1

ClaimsGrow(w, y) ==
  \A q \in Row : /\ Sends(y, q) => Sends(worker[w], q) \/ delivery[q] = "PENDING"
                 /\ Promotes(y, q) => Promotes(worker[w], q) \/ delivery[q] = "FAILED"

WorkerMoves(w, y) ==
  /\ worker' = [worker EXCEPT ![w] = y]
  /\ stale' = stale
  /\ RowMoves(w, y) /\ ReceiptMoves(w) /\ ClaimsGrow(w, y)

\* The rows stay sound: none is current that has a successor.
LEMMA RowsStep ==
  ASSUME DispatcherInv, TypeOK', NEW w \in Workers, NEW y, WorkerMoves(w, y)
  PROVE  RowsSound(delivery', stale', receipts')
<1> USE DEF WorkerMoves
<1>1. RowsSound(delivery, stale, receipts)
  BY DEF DispatcherInv
<1>2. \A v \in Workers : WorkerSound(worker[v], delivery, stale, receipts)
  BY DEF DispatcherInv
<1> SUFFICES ASSUME NEW r \in Row
             PROVE  /\ delivery'[r] \in {"none", "PENDING"} => r \notin stale /\ receipts'[r] = 0
                    /\ receipts'[r] <= 1
                    /\ delivery'[r] = "FAILED" => r[3] < maxAttempts
                    /\ delivery'[r] \in {"FAILED", "ABANDONED"} \/ Last(r, delivery')
  BY DEF RowsSound
<1>3. delivery'[r] \in {"none", "PENDING"} => delivery[r] \in {"none", "PENDING"}
  BY DEF RowMoves, Created, Claimed, Abandoned, Failed, Concluded
<1>4. receipts'[r] <= 1
  BY <1>1 DEF RowsSound, ReceiptMoves
<1>5. delivery[r] \in {"none", "PENDING"} => receipts'[r] = receipts[r]
  BY <1>2 DEF WorkerSound, ReceiptMoves
<1>6. delivery'[r] = "FAILED" => r[3] < maxAttempts
  BY <1>1 DEF RowsSound, RowMoves, Created, Claimed, Abandoned, Failed, Concluded
<1>7. delivery'[r] \in {"FAILED", "ABANDONED"} \/ Last(r, delivery')
  <2> SUFFICES ASSUME delivery'[r] \notin {"FAILED", "ABANDONED"},
                      NEW s \in Row, Follows(s, r), delivery'[s] # "none"
               PROVE  FALSE
    BY DEF Last
  <2>1. CASE delivery[s] = "none"
    <3>1. Created(s)
      BY <2>1 DEF RowMoves, Created, Claimed, Abandoned, Failed, Concluded
    <3> QED BY <3>1 DEF Created
  <2>2. CASE delivery[s] # "none"
    <3>1. delivery[r] \in {"FAILED", "ABANDONED"} /\ ~Last(r, delivery)
      BY <1>1, <2>2 DEF RowsSound, Last
    <3> QED BY <3>1 DEF RowMoves, Created, Claimed, Abandoned, Failed, Concluded
  <2> QED BY <2>1, <2>2
<1> QED BY <1>1, <1>3, <1>4, <1>5, <1>6, <1>7 DEF RowsSound

\* The workers that do not move stay sound.
LEMMA OthersStep ==
  ASSUME DispatcherInv, TypeOK', NEW w \in Workers, NEW y, WorkerMoves(w, y),
         NEW v \in Workers, v # w
  PROVE  WorkerSound(worker[v], delivery', stale', receipts')
<1> USE DEF WorkerMoves
<1> DEFINE x == worker[v]
<1>1. WorkerSound(x, delivery, stale, receipts) /\ WorkerShape(x)
  BY DEF DispatcherInv
<1>2. RowsSound(delivery, stale, receipts)
  BY DEF DispatcherInv
<1>3. Exclusive(x, worker[w])
  BY DEF DispatcherInv
<1>4. \A r \in Row : Promotes(x, r) => delivery'[r] \in {"FAILED", "ABANDONED"}
  BY <1>1 DEF WorkerSound, RowMoves, Created, Claimed, Abandoned, Failed, Concluded
<1>5. ASSUME NEW r \in Row, Sends(x, r)
      PROVE  delivery'[r] \notin {"none", "PENDING", "FAILED"} /\ Last(r, delivery')
  <2>1. delivery[r] \notin {"none", "PENDING", "FAILED"} /\ Last(r, delivery)
    BY <1>1, <1>5 DEF WorkerSound
  <2>2. ~Failed(r, w, y) /\ \A s \in Row : Follows(s, r) => ~Created(s)
    BY <1>5 DEF Failed, Created
  <2> QED BY <2>1, <2>2 DEF Last, RowMoves, Created, Claimed, Abandoned, Failed, Concluded
<1>6. x.op \in {"abandon", "claim"} => delivery'[x.at] # "none"
  <2> SUFFICES ASSUME x.op \in {"abandon", "claim"} PROVE delivery'[x.at] # "none"
    OBVIOUS
  <2>1. x.at \in Row /\ delivery[x.at] # "none"
    BY <1>1 DEF WorkerShape, WorkerSound
  <2> QED BY <2>1 DEF RowMoves, Created, Claimed, Abandoned, Failed, Concluded
<1>7. x.op = "post" => receipts'[x.at] = 0
  <2> SUFFICES ASSUME x.op = "post" PROVE receipts'[x.at] = 0
    OBVIOUS
  <2>1. x.at \in Row /\ receipts[x.at] = 0 /\ Sends(x, x.at)
    BY <1>1 DEF WorkerShape, WorkerSound, Sends, SendOps
  <2>2. ~Sends(worker[w], x.at)
    BY <1>3, <2>1 DEF Exclusive
  <2> QED BY <2>1, <2>2 DEF ReceiptMoves
<1> HIDE DEF x
<1>8. WorkerSound(x, delivery', stale', receipts')
  BY <1>1, <1>4, <1>5, <1>6, <1>7 DEF WorkerSound
<1> QED BY <1>8 DEF x

\* Nobody gets hold of a row that somebody else has claimed.
LEMMA ExclusiveStep ==
  ASSUME DispatcherInv, TypeOK', NEW w \in Workers, NEW y, WorkerMoves(w, y),
         NEW v \in Workers, v # w
  PROVE  Exclusive(y, worker[v]) /\ Exclusive(worker[v], y)
<1>1. \A r \in Row : Sends(worker[v], r) \/ Promotes(worker[v], r) => delivery[r] # "PENDING"
  BY DEF DispatcherInv, WorkerSound
<1>2. \A r \in Row : Sends(worker[v], r) => delivery[r] # "FAILED"
  BY DEF DispatcherInv, WorkerSound
<1>3. Exclusive(worker[w], worker[v]) /\ Exclusive(worker[v], worker[w])
  BY DEF DispatcherInv
<1> QED BY <1>1, <1>2, <1>3 DEF Exclusive, WorkerMoves, ClaimsGrow

\* A step of a worker keeps the invariant if the worker itself stays sound.
LEMMA StepKeeps ==
  ASSUME DispatcherInv, TypeOK', NEW w \in Workers, NEW y, WorkerMoves(w, y),
         WorkerShape(y), WorkerSound(y, delivery', stale', receipts')
  PROVE  DispatcherInv'
<1>0. worker \in [Workers -> WorkerState]
  BY DEF DispatcherInv, TypeOK, WorkerState
<1>1. worker'[w] = y /\ \A v \in Workers : v # w => worker'[v] = worker[v]
  BY <1>0 DEF WorkerMoves
<1>2. RowsSound(delivery', stale', receipts')
  BY RowsStep
<1>3. ASSUME NEW v \in Workers
      PROVE  WorkerShape(worker'[v]) /\ WorkerSound(worker'[v], delivery', stale', receipts')
  <2>1. CASE v = w
    BY <1>1, <2>1
  <2>2. CASE v # w
    BY <1>1, <2>2, OthersStep DEF DispatcherInv
  <2> QED BY <2>1, <2>2
<1>4. ASSUME NEW u \in Workers, NEW v \in Workers, u # v
      PROVE  Exclusive(worker'[u], worker'[v])
  <2>1. CASE u = w
    BY <1>1, <1>4, <2>1, ExclusiveStep
  <2>2. CASE v = w
    BY <1>1, <1>4, <2>2, ExclusiveStep
  <2>3. CASE u # w /\ v # w
    BY <1>1, <1>4, <2>3 DEF DispatcherInv
  <2> QED BY <2>1, <2>2, <2>3
<1> QED BY <1>2, <1>3, <1>4 DEF DispatcherInv

-----------------------------------------------------------------------------
(* Where a statement leaves its worker.                                    *)

Moved(x, op, at, work) ==
  [phase |-> x.phase, op |-> op, at |-> at, work |-> work, targets |-> x.targets]

\* Picking item i, as a change of the worker's record.
LEMMA PickedRecord ==
  ASSUME NEW x \in WorkerState, NEW i, NEW op
  PROVE  [x EXCEPT !.work = @ \ {i}, !.at = i, !.op = op] = Moved(x, op, i, x.work \ {i})
<1> DEFINE rest == x.work \ {i}
<1> HIDE DEF rest
<1>1. [x EXCEPT !.work = rest] = Moved(x, x.op, x.at, rest)
  BY DEF Moved, WorkerState
<1>2. [Moved(x, x.op, x.at, rest) EXCEPT !.at = i] = Moved(x, x.op, i, rest)
  BY DEF Moved
<1>3. [Moved(x, x.op, i, rest) EXCEPT !.op = op] = Moved(x, op, i, rest)
  BY DEF Moved
<1> QED BY <1>1, <1>2, <1>3 DEF rest

\* Picking an item, going on with the next statement, finishing an item and
\* skipping one leave the worker in these states.
LEMMA WorkerForms ==
  ASSUME DispatcherInv, NEW w \in Workers
  PROVE  /\ \A i, op : Pick(w, i, op) =>
              worker' = [worker EXCEPT ![w] = Moved(worker[w], op, i, worker[w].work \ {i})]
         /\ \A op : Step(w, op) =>
              worker' = [worker EXCEPT ![w] = Moved(worker[w], op, worker[w].at, worker[w].work)]
         /\ Finish(w) =>
              worker' = [worker EXCEPT ![w] = AtRest(worker[w].phase, worker[w].work)]
         /\ \A i : Skip(w, i) =>
              worker' = [worker EXCEPT ![w] = Moved(worker[w], worker[w].op, worker[w].at,
                                                    worker[w].work \ {i})]
<1>1. worker \in [Workers -> WorkerState]
  BY DEF DispatcherInv, TypeOK, WorkerState
<1>2. worker[w] \in WorkerState
  BY <1>1
<1>3. ASSUME NEW i, NEW op, Pick(w, i, op)
      PROVE  worker' = [worker EXCEPT ![w] = Moved(worker[w], op, i, worker[w].work \ {i})]
  <2>1. worker' = [worker EXCEPT ![w] = [worker[w] EXCEPT !.work = @ \ {i}, !.at = i, !.op = op]]
    BY <1>1, <1>3 DEF Pick
  <2> QED BY <1>2, <2>1, PickedRecord
<1>4. ASSUME NEW op, Step(w, op)
      PROVE  worker' = [worker EXCEPT ![w] = Moved(worker[w], op, worker[w].at, worker[w].work)]
  <2>1. worker' = [worker EXCEPT ![w] = [worker[w] EXCEPT !.op = op]]
    BY <1>1, <1>4 DEF Step
  <2>2. [worker[w] EXCEPT !.op = op] = Moved(worker[w], op, worker[w].at, worker[w].work)
    BY <1>2 DEF Moved, WorkerState
  <2> QED BY <2>1, <2>2
<1>5. ASSUME Finish(w)
      PROVE  worker' = [worker EXCEPT ![w] = AtRest(worker[w].phase, worker[w].work)]
  BY <1>1, <1>2, <1>5 DEF Finish, AtRest
<1>6. ASSUME NEW i, Skip(w, i)
      PROVE  worker' = [worker EXCEPT ![w] = Moved(worker[w], worker[w].op, worker[w].at,
                                                    worker[w].work \ {i})]
  <2>1. worker' = [worker EXCEPT ![w] = [worker[w] EXCEPT !.work = @ \ {i}]]
    BY <1>1, <1>6 DEF Skip
  <2>2. [worker[w] EXCEPT !.work = @ \ {i}]
          = Moved(worker[w], worker[w].op, worker[w].at, worker[w].work \ {i})
    BY <1>2 DEF Moved, WorkerState
  <2> QED BY <2>1, <2>2
<1> QED BY <1>3, <1>4, <1>5, <1>6

\* A worker at rest in a phase it is entering or in, with work it may have, is
\* sound and claims nothing.
LEMMA RestSound ==
  ASSUME NEW phase \in {"idle", "recover", "enqueue", "promote", "send"}, NEW work,
         work \subseteq IF phase = "enqueue" THEN Events ELSE Row,
         NEW d, NEW old, NEW got,
         phase = "recover" => work \subseteq old,
         phase = "promote" => \A r \in work : d[r] \in {"FAILED", "ABANDONED"} /\ r[3] < maxAttempts
  PROVE  /\ WorkerShape(AtRest(phase, work))
         /\ WorkerSound(AtRest(phase, work), d, old, got)
         /\ \A r : ~Sends(AtRest(phase, work), r)
         /\ \A r : Promotes(AtRest(phase, work), r) => phase = "promote" /\ r \in work
<1> DEFINE y == AtRest(phase, work)
<1>1. y.phase = phase /\ y.op = "next" /\ y.at = NoItem /\ y.work = work /\ y.targets = {}
  BY DEF AtRest
<1>2. y \in WorkerState
  BY DEF AtRest, WorkerState
<1> HIDE DEF y
<1>3. WorkerShape(y)
  BY <1>1, <1>2 DEF WorkerShape, FailureOps, CloseOps
<1>4. WorkerSound(y, d, old, got) /\ \A r : ~Sends(y, r)
  BY <1>1 DEF WorkerSound, Recovers, Promotes, Sends, SendOps, FailureOps, CloseOps
<1>5. \A r : Promotes(y, r) => phase = "promote" /\ r \in work
  BY <1>1 DEF Promotes
<1> QED BY <1>3, <1>4, <1>5 DEF y

\* A statement that leaves the rows alone keeps the invariant.
LEMMA QuietStep ==
  ASSUME DispatcherInv, NEW w \in Workers, NEW y,
         worker' = [worker EXCEPT ![w] = y],
         UNCHANGED <<delivery, stale, receipts>>,
         WorkerShape(y), WorkerSound(y, delivery, stale, receipts), ClaimsGrow(w, y),
         OtherTypes'
  PROVE  DispatcherInv'
<1>1. worker \in [Workers -> WorkerState] /\ y \in WorkerState
  BY DEF DispatcherInv, TypeOK, WorkerState, WorkerShape
<1>2. worker' \in [Workers -> WorkerState]
  BY <1>1
<1>3. TypeOK'
  BY <1>2 DEF TypeOK, OtherTypes, WorkerState
<1>4. WorkerMoves(w, y)
  BY DEF WorkerMoves, RowMoves, ReceiptMoves
<1>5. WorkerSound(y, delivery', stale', receipts')
  OBVIOUS
<1> QED BY <1>3, <1>4, <1>5, StepKeeps

\* runOnce starts its next loop with items of the kind that loop handles.
LEMMA RunOnceKeeps ==
  ASSUME DispatcherInv, NEW w \in Workers, runOnce(w)
  PROVE  DispatcherInv'
<1>1. TypeOK /\ worker[w] \in WorkerState
  BY DEF DispatcherInv, TypeOK, WorkerState
<1>2. \A S, order : oldest(S, order) \subseteq S
  BY DEF oldest
<1>3. staleInFlight \subseteq Row /\ staleInFlight \subseteq stale
  BY <1>1 DEF staleInFlight, TypeOK
<1>4. unfannedEvents \subseteq Events
  BY <1>1 DEF unfannedEvents, emitted, TypeOK
<1>5. retriesDue \subseteq Row /\ \A r \in retriesDue : delivery[r] = "FAILED" /\ r[3] < maxAttempts
  BY DEF retriesDue, DispatcherInv, RowsSound
<1>6. pendingDeliveries \subseteq Row
  BY DEF pendingDeliveries
<1>7. ASSUME NEW phase \in {"idle", "recover", "enqueue", "promote", "send"}, NEW work,
             work \subseteq IF phase = "enqueue" THEN Events ELSE Row,
             phase = "recover" => work \subseteq stale,
             phase = "promote" => work \subseteq retriesDue,
             worker' = [worker EXCEPT ![w] = AtRest(phase, work)]
      PROVE  DispatcherInv'
  <2>1. phase = "promote" => \A r \in work : delivery[r] \in {"FAILED", "ABANDONED"} /\ r[3] < maxAttempts
    BY <1>5, <1>7
  <2> DEFINE y == AtRest(phase, work)
  <2>2. /\ WorkerShape(y) /\ WorkerSound(y, delivery, stale, receipts)
        /\ \A r : ~Sends(y, r)
        /\ \A r : Promotes(y, r) => phase = "promote" /\ r \in work
    BY <1>7, <2>1, RestSound
  <2> HIDE DEF y
  <2>3. ClaimsGrow(w, y)
    BY <1>5, <1>7, <2>2 DEF ClaimsGrow
  <2> QED BY <1>1, <1>7, <2>2, <2>3, QuietStep
          DEF y, runOnce, TypeOK, OtherTypes, endpointVars, rowVars, envVars
<1>8. worker[w].phase \in {"idle", "recover", "enqueue", "promote", "send"}
  BY <1>1 DEF WorkerState
<1>9. CASE worker[w].phase = "idle"
  <2>1. worker' = [worker EXCEPT ![w] = AtRest("recover", oldest(staleInFlight, created))]
    BY <1>9 DEF runOnce
  <2> QED BY <1>2, <1>3, <1>7, <2>1
<1>10. CASE worker[w].phase = "recover"
  <2>1. worker' = [worker EXCEPT ![w] = AtRest("enqueue", oldest(unfannedEvents, events))]
    BY <1>10 DEF runOnce
  <2> QED BY <1>2, <1>4, <1>7, <2>1
<1>11. CASE worker[w].phase = "enqueue"
  <2>1. worker' = [worker EXCEPT ![w] = AtRest("promote", oldest(retriesDue, dueRetries))]
    BY <1>11 DEF runOnce
  <2> QED BY <1>2, <1>5, <1>7, <2>1
<1>12. CASE worker[w].phase = "promote"
  <2>1. worker' = [worker EXCEPT ![w] = AtRest("send", oldest(pendingDeliveries, created))]
    BY <1>12 DEF runOnce
  <2> QED BY <1>2, <1>6, <1>7, <2>1
<1>13. CASE worker[w].phase = "send"
  <2>1. worker' = [worker EXCEPT ![w] = AtRest("idle", {})]
    BY <1>13 DEF runOnce, Idle
  <2> QED BY <1>7, <2>1
<1> QED BY <1>8, <1>9, <1>10, <1>11, <1>12, <1>13

\* A statement that finishes an item keeps the invariant.
LEMMA FinishKeeps ==
  ASSUME DispatcherInv, NEW w \in Workers, Finish(w),
         UNCHANGED <<stale, receipts>>, OtherTypes',
         RowMoves(w, AtRest(worker[w].phase, worker[w].work))
  PROVE  DispatcherInv'
<1> DEFINE x == worker[w]
           y == AtRest(x.phase, x.work)
<1>1. x \in WorkerState /\ WorkerShape(x) /\ WorkerSound(x, delivery, stale, receipts)
  BY DEF DispatcherInv, TypeOK, WorkerState
<1>2. /\ x.phase \in {"idle", "recover", "enqueue", "promote", "send"}
      /\ x.work \subseteq IF x.phase = "enqueue" THEN Events ELSE Row
  BY <1>1 DEF WorkerState, WorkerShape
<1>3. x.phase = "recover" => x.work \subseteq stale'
  BY <1>1, <1>2 DEF WorkerSound, Recovers
<1>4. x.phase = "promote" => \A r \in x.work : delivery'[r] \in {"FAILED", "ABANDONED"} /\ r[3] < maxAttempts
  <2> SUFFICES ASSUME x.phase = "promote", NEW r \in x.work
               PROVE  delivery'[r] \in {"FAILED", "ABANDONED"} /\ r[3] < maxAttempts
    OBVIOUS
  <2>1. r \in Row /\ Promotes(x, r)
    BY <1>2 DEF Promotes
  <2>2. delivery[r] \in {"FAILED", "ABANDONED"} /\ r[3] < maxAttempts
    BY <1>1, <2>1 DEF WorkerSound
  <2> QED BY <2>1, <2>2 DEF RowMoves, Created, Claimed, Abandoned, Failed, Concluded
<1>5. /\ WorkerShape(y) /\ WorkerSound(y, delivery', stale', receipts')
      /\ \A r : ~Sends(y, r)
      /\ \A r : Promotes(y, r) => x.phase = "promote" /\ r \in x.work
  BY <1>2, <1>3, <1>4, RestSound
<1>6. worker' = [worker EXCEPT ![w] = y]
  BY WorkerForms
<1> HIDE DEF y
<1>7. ClaimsGrow(w, y)
  BY <1>5 DEF ClaimsGrow, Promotes
<1>8. TypeOK'
  BY <1>5, <1>6 DEF DispatcherInv, TypeOK, OtherTypes, WorkerState, WorkerShape
<1>9. WorkerMoves(w, y)
  BY <1>6, <1>7 DEF WorkerMoves, ReceiptMoves, y
<1> QED BY <1>5, <1>8, <1>9, StepKeeps

\* Statements that only change what their worker is doing keep the types of
\* everything else.
LEMMA OtherTypesKeep ==
  ASSUME TypeOK, UNCHANGED <<endpointVars, rowVars, envVars>>
  PROVE  OtherTypes'
BY DEF TypeOK, OtherTypes, endpointVars, rowVars, envVars

\* Reading a stale row leaves it to finalizeFailure.
LEMMA RecoverKeeps ==
  ASSUME DispatcherInv, NEW w \in Workers, NEW r \in Row, recoverStaleInFlight(w, r)
  PROVE  DispatcherInv'
<1> DEFINE x == worker[w]
           y == Moved(x, "failure", r, x.work \ {r})
<1>1. x \in WorkerState /\ WorkerShape(x) /\ WorkerSound(x, delivery, stale, receipts) /\ TypeOK
  BY DEF DispatcherInv, TypeOK, WorkerState
<1>2. x.phase = "recover" /\ r \in x.work
  BY DEF recoverStaleInFlight, Handling
<1>3. worker' = [worker EXCEPT ![w] = y]
  BY WorkerForms DEF recoverStaleInFlight
<1>4. y.phase = "recover" /\ y.op = "failure" /\ y.at = r /\ y.work = x.work \ {r} /\ y.targets = x.targets
  BY <1>2 DEF Moved
<1>5. y \in WorkerState
  BY <1>1, <1>2 DEF Moved, WorkerState
<1> HIDE DEF y
<1>6. WorkerShape(y)
  BY <1>1, <1>2, <1>4, <1>5 DEF WorkerShape, FailureOps, CloseOps
<1>7. WorkerSound(y, delivery, stale, receipts)
  BY <1>1, <1>2, <1>4 DEF WorkerSound, Recovers, Promotes, Sends
<1>8. ClaimsGrow(w, y)
  BY <1>4 DEF ClaimsGrow, Promotes, Sends
<1> QED BY <1>1, <1>3, <1>6, <1>7, <1>8, OtherTypesKeep, QuietStep
        DEF recoverStaleInFlight, rowVars, envVars

\* The endpoints of an event are read: either it has none, or the fan-out begins.
LEMMA LoadEndpointsKeeps ==
  ASSUME DispatcherInv, NEW w \in Workers, NEW ev \in Events, loadEndpoints(w, ev)
  PROVE  DispatcherInv'
<1> DEFINE x == worker[w]
           targets == {p \in Endpoints : enabled[p] /\ subscribed(p, ev)}
           y == [Moved(x, "fan", ev, x.work \ {ev}) EXCEPT !.targets = targets]
           z == Moved(x, "next", x.at, x.work \ {ev})
<1>1. x \in WorkerState /\ WorkerShape(x) /\ WorkerSound(x, delivery, stale, receipts) /\ TypeOK
  BY DEF DispatcherInv, TypeOK, WorkerState
<1>2. x.phase = "enqueue" /\ x.op = "next" /\ ev \in x.work
  BY DEF loadEndpoints, Handling
<1>3. UNCHANGED <<delivery, stale, receipts>> /\ OtherTypes'
  BY <1>1, OtherTypesKeep DEF loadEndpoints, rowVars, envVars
<1>4. CASE targets = {}
  <2>1. worker' = [worker EXCEPT ![w] = z]
    BY <1>2, <1>4, WorkerForms DEF loadEndpoints
  <2>2. z.phase = "enqueue" /\ z.op = "next" /\ z.at = x.at /\ z.work = x.work \ {ev} /\ z.targets = x.targets
    BY <1>2 DEF Moved
  <2>3. z \in WorkerState
    BY <1>1, <1>2 DEF Moved, WorkerState
  <2> HIDE DEF z
  <2>4. WorkerShape(z)
    BY <1>1, <1>2, <2>2, <2>3 DEF WorkerShape, FailureOps, CloseOps
  <2>5. WorkerSound(z, delivery, stale, receipts) /\ ClaimsGrow(w, z)
    BY <2>2 DEF WorkerSound, ClaimsGrow, Recovers, Promotes, Sends
  <2> QED BY <1>3, <2>1, <2>4, <2>5, QuietStep
<1>5. CASE targets # {}
  <2>1. worker' = [worker EXCEPT ![w].work = @ \ {ev}, ![w].at = ev, ![w].op = "fan", ![w].targets = targets]
    BY <1>5 DEF loadEndpoints
  <2>2. worker' = [worker EXCEPT ![w] = [[x EXCEPT !.work = @ \ {ev}, !.at = ev, !.op = "fan"] EXCEPT !.targets = targets]]
    <3> HIDE DEF targets
    <3> QED BY <2>1, <1>1 DEF DispatcherInv, TypeOK
  <2>3. [x EXCEPT !.work = @ \ {ev}, !.at = ev, !.op = "fan"] = Moved(x, "fan", ev, x.work \ {ev})
    BY <1>1, PickedRecord
  <2>4. worker' = [worker EXCEPT ![w] = y]
    BY <2>2, <2>3
  <2>5. y.phase = "enqueue" /\ y.op = "fan" /\ y.at = ev /\ y.work = x.work \ {ev} /\ y.targets = targets
    BY <1>2 DEF Moved
  <2>6. y \in WorkerState
    BY <1>1, <1>2 DEF Moved, WorkerState
  <2> HIDE DEF y
  <2>7. WorkerShape(y) /\ WorkerSound(y, delivery, stale, receipts) /\ ClaimsGrow(w, y)
    BY <1>1, <1>2, <2>5, <2>6
    DEF WorkerShape, WorkerSound, ClaimsGrow, Recovers, Promotes, Sends, SendOps, FailureOps, CloseOps
  <2> QED BY <1>3, <2>4, <2>7, QuietStep
<1> QED BY <1>4, <1>5

\* A retry that is due is read together with its endpoint.
LEMMA LoadRetryKeeps ==
  ASSUME DispatcherInv, NEW w \in Workers, NEW r \in Row, loadRetry(w, r)
  PROVE  DispatcherInv'
<1> DEFINE x == worker[w]
           op == IF enabled[r[2]] THEN "insert" ELSE "retire"
           y == Moved(x, op, r, x.work \ {r})
<1>1. x \in WorkerState /\ WorkerShape(x) /\ WorkerSound(x, delivery, stale, receipts) /\ TypeOK
  BY DEF DispatcherInv, TypeOK, WorkerState
<1>2. x.phase = "promote" /\ r \in x.work
  BY DEF loadRetry, Handling
<1>3. worker' = [worker EXCEPT ![w] = y]
  BY WorkerForms DEF loadRetry
<1>4. op \in {"insert", "retire"}
  OBVIOUS
<1> HIDE DEF op
<1>5. y.phase = "promote" /\ y.op = op /\ y.at = r /\ y.work = x.work \ {r} /\ y.targets = x.targets
  BY <1>2 DEF Moved
<1>6. y \in WorkerState
  BY <1>1, <1>2, <1>4 DEF Moved, WorkerState
<1> HIDE DEF y
<1>7. WorkerShape(y)
  BY <1>1, <1>2, <1>4, <1>5, <1>6 DEF WorkerShape, FailureOps, CloseOps
<1>8. WorkerSound(y, delivery, stale, receipts)
  BY <1>1, <1>2, <1>4, <1>5 DEF WorkerSound, Recovers, Promotes, Sends
<1>9. ClaimsGrow(w, y)
  BY <1>2, <1>5 DEF ClaimsGrow, Promotes, Sends
<1> QED BY <1>1, <1>3, <1>7, <1>8, <1>9, OtherTypesKeep, QuietStep
        DEF loadRetry, rowVars, envVars

\* A pending delivery is read together with its endpoint; one that is no
\* longer pending is skipped.
LEMMA LoadDeliveryKeeps ==
  ASSUME DispatcherInv, NEW w \in Workers, NEW r \in Row, loadDelivery(w, r)
  PROVE  DispatcherInv'
<1> DEFINE x == worker[w]
           op == IF enabled[r[2]] THEN "claim" ELSE "abandon"
           y == Moved(x, op, r, x.work \ {r})
           z == Moved(x, "next", x.at, x.work \ {r})
<1>1. x \in WorkerState /\ WorkerShape(x) /\ WorkerSound(x, delivery, stale, receipts) /\ TypeOK
  BY DEF DispatcherInv, TypeOK, WorkerState
<1>2. x.phase = "send" /\ x.op = "next" /\ r \in x.work
  BY DEF loadDelivery, Handling
<1>3. UNCHANGED <<delivery, stale, receipts>> /\ OtherTypes'
  BY <1>1, OtherTypesKeep DEF loadDelivery, rowVars, envVars
<1>4. CASE delivery[r] # "PENDING"
  <2>1. worker' = [worker EXCEPT ![w] = z]
    BY <1>2, <1>4, WorkerForms DEF loadDelivery
  <2>2. z.phase = "send" /\ z.op = "next" /\ z.at = x.at /\ z.work = x.work \ {r} /\ z.targets = x.targets
    BY <1>2 DEF Moved
  <2>3. z \in WorkerState
    BY <1>1, <1>2 DEF Moved, WorkerState
  <2> HIDE DEF z
  <2>4. WorkerShape(z)
    BY <1>1, <1>2, <2>2, <2>3 DEF WorkerShape, FailureOps, CloseOps
  <2>5. WorkerSound(z, delivery, stale, receipts) /\ ClaimsGrow(w, z)
    BY <2>2 DEF WorkerSound, ClaimsGrow, Recovers, Promotes, Sends, SendOps, FailureOps, CloseOps
  <2> QED BY <1>3, <2>1, <2>4, <2>5, QuietStep
<1>5. CASE delivery[r] = "PENDING"
  <2>1. worker' = [worker EXCEPT ![w] = y]
    BY <1>5, WorkerForms DEF loadDelivery
  <2>2. op \in {"claim", "abandon"}
    OBVIOUS
  <2> HIDE DEF op
  <2>3. y.phase = "send" /\ y.op = op /\ y.at = r /\ y.work = x.work \ {r} /\ y.targets = x.targets
    BY <1>2 DEF Moved
  <2>4. y \in WorkerState
    BY <1>1, <1>2, <2>2 DEF Moved, WorkerState
  <2> HIDE DEF y
  <2>5. WorkerShape(y)
    BY <1>1, <1>2, <2>2, <2>3, <2>4 DEF WorkerShape, FailureOps, CloseOps
  <2>6. WorkerSound(y, delivery, stale, receipts) /\ ClaimsGrow(w, y)
    BY <1>5, <2>2, <2>3 DEF WorkerSound, ClaimsGrow, Recovers, Promotes, Sends, SendOps, FailureOps, CloseOps
  <2> QED BY <1>3, <2>1, <2>5, <2>6, QuietStep
<1> QED BY <1>4, <1>5

\* A statement of attemptDelivery or finalizeFailure that leaves the rows
\* alone goes on to the next one for the same row.
LEMMA GoesOnKeeps ==
  ASSUME DispatcherInv, NEW w \in Workers, NEW op, Step(w, op),
         UNCHANGED <<delivery, stale, receipts>>, OtherTypes',
         worker[w].op \in SendOps,
         op \in FailureOps,
         op = "FAILED" => worker[w].at[3] < maxAttempts,
         op = "EXHAUSTED" => worker[w].at[3] >= maxAttempts
  PROVE  DispatcherInv'
<1> DEFINE x == worker[w]
           y == Moved(x, op, x.at, x.work)
<1>1. x \in WorkerState /\ WorkerShape(x) /\ WorkerSound(x, delivery, stale, receipts)
  BY DEF DispatcherInv, TypeOK, WorkerState
<1>2. worker' = [worker EXCEPT ![w] = y]
  BY WorkerForms
<1>3. y.phase = x.phase /\ y.op = op /\ y.at = x.at /\ y.work = x.work /\ y.targets = x.targets
  BY DEF Moved
<1>4. y \in WorkerState
  BY <1>1 DEF Moved, WorkerState, FailureOps, CloseOps
<1>5. x.phase \in {"recover", "send"} /\ x.at \in Row
  BY <1>1 DEF WorkerShape, SendOps, FailureOps, CloseOps
<1> HIDE DEF y
<1>6. WorkerShape(y)
  BY <1>1, <1>3, <1>4, <1>5 DEF WorkerShape, FailureOps, CloseOps
<1>7. op \in SendOps /\ op \notin {"next", "abandon", "claim", "post"} /\ x.op # "next"
  BY DEF SendOps, FailureOps, CloseOps
<1>8. ClaimsGrow(w, y)
  BY <1>3, <1>5 DEF ClaimsGrow, Promotes, Sends
<1>9. WorkerSound(y, delivery, stale, receipts)
  BY <1>1, <1>3, <1>5, <1>7 DEF WorkerSound, Recovers, Promotes, Sends
<1> QED BY <1>2, <1>6, <1>8, <1>9, QuietStep

\* The error of finalizeSuccess is handled as a failure of the same row.
LEMMA SuccessFailsKeeps ==
  ASSUME DispatcherInv, NEW w \in Workers, successFails(w)
  PROVE  DispatcherInv'
<1>1. Step(w, "failure") /\ "failure" \in FailureOps /\ worker[w].op \in SendOps
  BY DEF successFails, SendOps, FailureOps
<1>2. OtherTypes' /\ UNCHANGED <<delivery, stale, receipts>>
  BY DEF DispatcherInv, TypeOK, OtherTypes, successFails, endpointVars, rowVars
<1> QED BY <1>1, <1>2, GoesOnKeeps

\* Counting a failure decides how the row will be closed.
LEMMA CountFailureKeeps ==
  ASSUME DispatcherInv, NEW w \in Workers, countFailure(w)
  PROVE  DispatcherInv'
<1> DEFINE r == worker[w].at
           failures == consecutiveFailures[r[2]] + 1
           shouldDisable == ~(r[3] >= maxAttempts) /\ failures >= disableAfterConsecutiveFailures
           op == IF r[3] >= maxAttempts THEN "EXHAUSTED"
                 ELSE IF shouldDisable THEN "disable" ELSE "FAILED"
<1>1. worker[w].op = "failure" /\ worker[w].op \in SendOps
  BY DEF countFailure, SendOps, FailureOps
<1>2. r \in Row
  BY <1>1 DEF DispatcherInv, WorkerShape, FailureOps
<1>3. r[2] \in Endpoints /\ r[3] \in Nat /\ maxAttempts \in Nat
  BY <1>2, DispatcherConstants DEF Row
<1>4. OtherTypes' /\ UNCHANGED <<delivery, stale, receipts>>
  <2>1. consecutiveFailures' \in [Endpoints -> Nat]
    BY <1>3 DEF countFailure, DispatcherInv, TypeOK
  <2> QED BY <2>1 DEF DispatcherInv, TypeOK, OtherTypes, countFailure, rowVars, envVars
<1>5. Step(w, op)
  BY DEF countFailure
<1>6. /\ op \in FailureOps
      /\ op = "FAILED" => r[3] < maxAttempts
      /\ op = "EXHAUSTED" => r[3] >= maxAttempts
  <2> HIDE DEF shouldDisable, r
  <2> QED BY <1>3 DEF FailureOps, CloseOps
<1> HIDE DEF op
<1> QED BY <1>1, <1>4, <1>5, <1>6, GoesOnKeeps

\* Disabling the endpoint goes on to the rows queued for it.
LEMMA DisableKeeps ==
  ASSUME DispatcherInv, NEW w \in Workers, disableEndpoint(w)
  PROVE  DispatcherInv'
<1>1. worker[w].op \in SendOps /\ Step(w, "sweep") /\ "sweep" \in FailureOps
  BY DEF disableEndpoint, SendOps, FailureOps
<1>2. enabled' \in [Endpoints -> BOOLEAN]
  BY DEF disableEndpoint, DispatcherInv, TypeOK
<1>3. OtherTypes' /\ UNCHANGED <<delivery, stale, receipts>>
  BY <1>2 DEF DispatcherInv, TypeOK, OtherTypes, disableEndpoint, rowVars, envVars
<1> QED BY <1>1, <1>3, GoesOnKeeps

\* Nothing happens to the rows when the success clears the counter.
LEMMA ResetKeeps ==
  ASSUME DispatcherInv, NEW w \in Workers, resetFailures(w)
  PROVE  DispatcherInv'
<1>1. worker[w].at \in Row
  BY DEF DispatcherInv, WorkerShape, resetFailures
<1>2. consecutiveFailures' \in [Endpoints -> Nat]
  BY <1>1 DEF resetFailures, DispatcherInv, TypeOK, Row
<1>3. OtherTypes' /\ UNCHANGED <<delivery, stale, receipts>>
  BY <1>2 DEF DispatcherInv, TypeOK, OtherTypes, resetFailures, rowVars, envVars
<1>4. RowMoves(w, AtRest(worker[w].phase, worker[w].work))
  BY <1>3 DEF RowMoves
<1> QED BY <1>3, <1>4, FinishKeeps DEF resetFailures

\* A poll that dies leaves its claims to staleInFlight.
LEMMA CrashKeeps ==
  ASSUME DispatcherInv, NEW w \in Workers, crash(w)
  PROVE  DispatcherInv'
<1>1. OtherTypes' /\ UNCHANGED <<delivery, stale, receipts>>
  BY DEF DispatcherInv, TypeOK, OtherTypes, crash, endpointVars, rowVars
<1> DEFINE y == AtRest("idle", {})
<1>2. /\ WorkerShape(y) /\ WorkerSound(y, delivery, stale, receipts)
      /\ \A r : ~Sends(y, r)
      /\ \A r : ~Promotes(y, r)
  BY RestSound
<1>3. worker' = [worker EXCEPT ![w] = y]
  BY DEF crash, Idle
<1> HIDE DEF y
<1>4. ClaimsGrow(w, y)
  BY <1>2 DEF ClaimsGrow
<1> QED BY <1>1, <1>2, <1>3, <1>4, QuietStep

\* A row is only inserted where there is none, behind attempts that are over.
LEMMA UpsertMoves ==
  ASSUME DispatcherInv, NEW r \in Row, upsert(r), NEW w, NEW y,
         \A p \in Row : Follows(r, p) => /\ delivery[p] \in {"FAILED", "ABANDONED"}
                                         /\ \A v \in Workers : ~Sends(worker[v], p)
  PROVE  /\ RowMoves(w, y)
         /\ delivery' \in [Row -> DeliveryStatus \cup {"none"}]
         /\ created' \in Seq(Row)
<1>1. TypeOK
  BY DEF DispatcherInv
<1>2. CASE delivery[r] = "none"
  <2>1. delivery' = [delivery EXCEPT ![r] = "PENDING"] /\ created' = Append(created, r)
    BY <1>2 DEF upsert
  <2>2. delivery' \in [Row -> DeliveryStatus \cup {"none"}] /\ created' \in Seq(Row)
    BY <1>1, <2>1 DEF TypeOK, DeliveryStatus
  <2>3. \A p \in Row : Follows(r, p) => p # r
    BY DispatcherConstants DEF Follows, Row
  <2>4. Created(r)
    BY <1>1, <1>2, <2>1, <2>3 DEF Created, TypeOK
  <2>5. \A q \in Row : q = r \/ delivery'[q] = delivery[q]
    BY <1>1, <2>1 DEF TypeOK
  <2> QED BY <2>2, <2>4, <2>5 DEF RowMoves
<1>3. CASE delivery[r] # "none"
  BY <1>1, <1>3 DEF upsert, RowMoves, TypeOK
<1> QED BY <1>2, <1>3

\* One endpoint of an event gets its first attempt.
LEMMA EnqueueKeeps ==
  ASSUME DispatcherInv, NEW w \in Workers, NEW p \in Endpoints, enqueueDelivery(w, p)
  PROVE  DispatcherInv'
<1> DEFINE x == worker[w]
           r == <<x.at, p, 1>>
           y == [x EXCEPT !.targets = @ \ {p}]
<1>1. x \in WorkerState /\ WorkerShape(x) /\ WorkerSound(x, delivery, stale, receipts) /\ TypeOK
  BY DEF DispatcherInv, TypeOK, WorkerState
<1>2. x.op = "fan" /\ x.phase = "enqueue" /\ x.at \in Events /\ upsert(r)
  BY <1>1 DEF enqueueDelivery, WorkerShape
<1>3. r \in Row /\ \A q \in Row : ~Follows(r, q)
  BY <1>2, DispatcherConstants DEF Row, Follows
<1> HIDE DEF r
<1>4. /\ \A z : RowMoves(w, z)
      /\ delivery' \in [Row -> DeliveryStatus \cup {"none"}]
      /\ created' \in Seq(Row)
  BY <1>2, <1>3, UpsertMoves
<1>5. UNCHANGED <<stale, receipts>> /\ OtherTypes'
  BY <1>1, <1>4 DEF enqueueDelivery, TypeOK, OtherTypes, endpointVars, envVars
<1>6. CASE x.targets = {p}
  BY <1>4, <1>5, <1>6, FinishKeeps DEF enqueueDelivery
<1>7. CASE x.targets # {p}
  <2>1. worker' = [worker EXCEPT ![w].targets = @ \ {p}]
    BY <1>7 DEF enqueueDelivery
  <2>2. worker' = [worker EXCEPT ![w] = y]
    BY <1>1, <2>1 DEF TypeOK
  <2>3. y \in WorkerState /\ y.phase = "enqueue" /\ y.op = "fan" /\ y.at = x.at /\ y.work = x.work
    BY <1>1, <1>2 DEF WorkerState
  <2> HIDE DEF y
  <2>4. WorkerShape(y)
    BY <1>1, <1>2, <2>3 DEF WorkerShape, FailureOps, CloseOps
  <2>5. WorkerSound(y, delivery', stale', receipts') /\ ClaimsGrow(w, y)
    BY <2>3 DEF WorkerSound, ClaimsGrow, Recovers, Promotes, Sends
  <2>6. TypeOK'
    BY <1>1, <1>5, <2>2, <2>3 DEF TypeOK, OtherTypes, WorkerState
  <2>7. WorkerMoves(w, y)
    BY <1>4, <1>5, <2>2, <2>5 DEF WorkerMoves, ReceiptMoves
  <2> QED BY <2>4, <2>5, <2>6, <2>7, StepKeeps
<1> QED BY <1>6, <1>7

\* A due retry gets its successor: the attempts before it are over, and
\* nobody is sending one of them.
LEMMA InsertRetryKeeps ==
  ASSUME DispatcherInv, NEW w \in Workers, insertRetry(w)
  PROVE  DispatcherInv'
<1> DEFINE x == worker[w]
           r == x.at
           s == <<r[1], r[2], r[3] + 1>>
<1>1. WorkerShape(x) /\ WorkerSound(x, delivery, stale, receipts) /\ TypeOK
  BY DEF DispatcherInv
<1>2. x.op = "insert" /\ upsert(s)
  BY DEF insertRetry
<1>3. x.phase = "promote" /\ r \in Row /\ Promotes(x, r)
  BY <1>1, <1>2 DEF WorkerShape, Promotes
<1>4. delivery[r] \in {"FAILED", "ABANDONED"} /\ r[3] < maxAttempts
  BY <1>1, <1>3 DEF WorkerSound
<1>5. s \in Row
  BY <1>3, <1>4, DispatcherConstants DEF Row
<1>6. ASSUME NEW q \in Row, Follows(s, q)
      PROVE  delivery[q] \in {"FAILED", "ABANDONED"} /\ \A v \in Workers : ~Sends(worker[v], q)
  <2>1. q = r \/ Follows(r, q)
    BY <1>3, <1>6, DispatcherConstants DEF Row, Follows
  <2>2. CASE q = r
    <3>1. \A v \in Workers : v # w => ~Sends(worker[v], r)
      BY <1>3 DEF DispatcherInv, Exclusive
    <3>2. ~Sends(x, r)
      BY <1>3 DEF Sends
    <3> QED BY <1>4, <2>2, <3>1, <3>2
  <2>3. CASE Follows(r, q)
    <3>1. ~Last(q, delivery)
      BY <1>3, <1>4, <2>3 DEF Last
    <3> QED BY <3>1 DEF DispatcherInv, RowsSound, WorkerSound
  <2> QED BY <2>1, <2>2, <2>3
<1> HIDE DEF s
<1>7. /\ \A y : RowMoves(w, y)
      /\ delivery' \in [Row -> DeliveryStatus \cup {"none"}]
      /\ created' \in Seq(Row)
  BY <1>2, <1>5, <1>6, UpsertMoves
<1>8. UNCHANGED <<stale, receipts>> /\ OtherTypes'
  BY <1>1, <1>7 DEF insertRetry, TypeOK, OtherTypes, endpointVars, envVars
<1> QED BY <1>7, <1>8, FinishKeeps DEF insertRetry

\* A row is abandoned whatever became of it since it was read.
LEMMA AbandonKeeps ==
  ASSUME DispatcherInv, NEW w \in Workers, retireRetry(w) \/ abandonDelivery(w)
  PROVE  DispatcherInv'
<1> DEFINE x == worker[w]
           r == x.at
<1>1. WorkerShape(x) /\ WorkerSound(x, delivery, stale, receipts) /\ TypeOK
  BY DEF DispatcherInv
<1>2. /\ x.op \in {"retire", "abandon"}
      /\ delivery' = [delivery EXCEPT ![r] = "ABANDONED"]
      /\ Finish(w)
      /\ UNCHANGED <<endpointVars, created, dueRetries, envVars>>
  BY DEF retireRetry, abandonDelivery
<1>3. r \in Row /\ delivery[r] # "none"
  BY <1>1, <1>2 DEF WorkerShape, WorkerSound, Promotes
<1>4. delivery' \in [Row -> DeliveryStatus \cup {"none"}]
  BY <1>1, <1>2 DEF TypeOK, DeliveryStatus
<1>5. \A y : RowMoves(w, y)
  BY <1>1, <1>2, <1>3 DEF RowMoves, Abandoned, TypeOK
<1>6. UNCHANGED <<stale, receipts>> /\ OtherTypes'
  BY <1>1, <1>2, <1>4 DEF TypeOK, OtherTypes, endpointVars, envVars
<1> QED BY <1>2, <1>5, <1>6, FinishKeeps

\* The conditional update claims a row for one worker.
LEMMA ClaimKeeps ==
  ASSUME DispatcherInv, NEW w \in Workers, claimDelivery(w)
  PROVE  DispatcherInv'
<1> DEFINE x == worker[w]
           r == x.at
           y == Moved(x, "post", r, x.work)
<1>1. x \in WorkerState /\ WorkerShape(x) /\ WorkerSound(x, delivery, stale, receipts) /\ TypeOK
  BY DEF DispatcherInv, TypeOK, WorkerState
<1>2. x.op = "claim" /\ x.phase = "send" /\ r \in Row
  BY <1>1 DEF claimDelivery, WorkerShape
<1>3. CASE delivery[r] # "PENDING"
  <2>1. UNCHANGED <<delivery, stale, receipts>> /\ OtherTypes' /\ Finish(w)
    BY <1>1, <1>3, OtherTypesKeep DEF claimDelivery, rowVars, envVars
  <2>2. \A z : RowMoves(w, z)
    BY <2>1 DEF RowMoves
  <2> QED BY <2>1, <2>2, FinishKeeps
<1>4. CASE delivery[r] = "PENDING"
  <2>1. delivery' = [delivery EXCEPT ![r] = "IN_FLIGHT"] /\ worker' = [worker EXCEPT ![w] = y]
    BY <1>4, WorkerForms DEF claimDelivery
  <2>2. UNCHANGED <<stale, receipts>> /\ OtherTypes'
    <3>1. delivery' \in [Row -> DeliveryStatus \cup {"none"}]
      BY <1>1, <2>1 DEF TypeOK, DeliveryStatus
    <3> QED BY <1>1, <3>1 DEF claimDelivery, TypeOK, OtherTypes, endpointVars, envVars
  <2>3. y \in WorkerState /\ y.phase = "send" /\ y.op = "post" /\ y.at = r /\ y.work = x.work
    BY <1>1, <1>2 DEF WorkerState, Moved
  <2> HIDE DEF y
  <2>4. WorkerShape(y)
    BY <1>1, <1>2, <2>3 DEF WorkerShape, FailureOps, CloseOps
  <2>5. r \notin stale /\ receipts[r] = 0 /\ Last(r, delivery)
    BY <1>2, <1>4 DEF DispatcherInv, RowsSound
  <2>6. delivery'[r] = "IN_FLIGHT" /\ \A q \in Row : q # r => delivery'[q] = delivery[q]
    BY <1>1, <1>2, <2>1 DEF TypeOK
  <2>7. Last(r, delivery')
    BY <1>2, <2>5, <2>6, DispatcherConstants DEF Last, Follows, Row
  <2>8. WorkerSound(y, delivery', stale', receipts') /\ ClaimsGrow(w, y)
    BY <1>4, <2>2, <2>3, <2>5, <2>6, <2>7
    DEF WorkerSound, ClaimsGrow, Recovers, Promotes, Sends
  <2>9. TypeOK'
    BY <1>1, <2>1, <2>2, <2>3 DEF TypeOK, OtherTypes, WorkerState
  <2>10. WorkerMoves(w, y)
    BY <1>4, <2>1, <2>2, <2>6, <2>8 DEF WorkerMoves, ReceiptMoves, RowMoves, Claimed
  <2> QED BY <2>4, <2>8, <2>9, <2>10, StepKeeps
<1> QED BY <1>3, <1>4

\* The HTTP call is made once for a claimed row.
LEMMA PostKeeps ==
  ASSUME DispatcherInv, NEW w \in Workers, NEW arrives \in BOOLEAN,
         NEW answer \in {"success", "failure"}, postDelivery(w, arrives, answer)
  PROVE  DispatcherInv'
<1> DEFINE x == worker[w]
           r == x.at
           y == Moved(x, answer, r, x.work)
           got == IF arrives THEN 1 ELSE 0
<1>1. x \in WorkerState /\ WorkerShape(x) /\ WorkerSound(x, delivery, stale, receipts) /\ TypeOK
  BY DEF DispatcherInv, TypeOK, WorkerState
<1>2. x.op = "post" /\ x.phase = "send" /\ r \in Row /\ receipts[r] = 0
  BY <1>1 DEF postDelivery, WorkerShape, WorkerSound
<1>3. receipts' = [receipts EXCEPT ![r] = @ + got] /\ worker' = [worker EXCEPT ![w] = y]
  BY WorkerForms DEF postDelivery
<1>4. got \in {0, 1}
  OBVIOUS
<1> HIDE DEF got
<1>5. /\ receipts' \in [Row -> Nat]
      /\ receipts'[r] <= 1
      /\ \A q \in Row : q # r => receipts'[q] = receipts[q]
  BY <1>1, <1>2, <1>3, <1>4 DEF TypeOK
<1>6. UNCHANGED <<delivery, stale>> /\ OtherTypes'
  BY <1>1, <1>5 DEF postDelivery, TypeOK, OtherTypes, endpointVars, rowVars
<1>7. y \in WorkerState /\ y.phase = "send" /\ y.op = answer /\ y.at = r /\ y.work = x.work
  BY <1>1, <1>2 DEF WorkerState, Moved
<1> HIDE DEF y
<1>8. WorkerShape(y)
  BY <1>1, <1>2, <1>7 DEF WorkerShape, FailureOps, CloseOps
<1>9. Sends(x, r)
  BY <1>2 DEF Sends, SendOps
<1>10. WorkerSound(y, delivery', stale', receipts') /\ ClaimsGrow(w, y)
  BY <1>1, <1>2, <1>6, <1>7, <1>9 DEF WorkerSound, ClaimsGrow, Recovers, Promotes, Sends
<1>11. TypeOK'
  BY <1>1, <1>3, <1>6, <1>7 DEF TypeOK, OtherTypes, WorkerState
<1>12. WorkerMoves(w, y)
  BY <1>3, <1>5, <1>6, <1>9, <1>10 DEF WorkerMoves, ReceiptMoves, RowMoves
<1> QED BY <1>8, <1>10, <1>11, <1>12, StepKeeps

\* A row is reported delivered by the worker that claimed it.
LEMMA SuccessKeeps ==
  ASSUME DispatcherInv, NEW w \in Workers, finalizeSuccess(w)
  PROVE  DispatcherInv'
<1> DEFINE x == worker[w]
           r == x.at
           y == Moved(x, "reset", r, x.work)
<1>1. x \in WorkerState /\ WorkerShape(x) /\ WorkerSound(x, delivery, stale, receipts) /\ TypeOK
  BY DEF DispatcherInv, TypeOK, WorkerState
<1>2. x.op = "success" /\ x.phase = "send" /\ r \in Row
  BY <1>1 DEF finalizeSuccess, WorkerShape
<1>3. Sends(x, r)
  BY <1>2 DEF Sends, SendOps
<1>4. delivery[r] \notin {"none", "PENDING"} /\ r \notin stale /\ Last(r, delivery)
  BY <1>1, <1>2, <1>3 DEF WorkerSound
<1>5. \A v \in Workers : ~Promotes(worker[v], r)
  BY <1>2, <1>3 DEF DispatcherInv, Exclusive, Promotes
<1>6. delivery' = [delivery EXCEPT ![r] = "DELIVERED"] /\ worker' = [worker EXCEPT ![w] = y]
  BY WorkerForms DEF finalizeSuccess
<1>7. /\ delivery' \in [Row -> DeliveryStatus \cup {"none"}]
      /\ delivery'[r] = "DELIVERED"
      /\ \A q \in Row : q # r => delivery'[q] = delivery[q]
  BY <1>1, <1>2, <1>6 DEF TypeOK, DeliveryStatus
<1>8. UNCHANGED <<stale, receipts>> /\ OtherTypes'
  BY <1>1, <1>7 DEF finalizeSuccess, TypeOK, OtherTypes, endpointVars, envVars
<1>9. y \in WorkerState /\ y.phase = "send" /\ y.op = "reset" /\ y.at = r /\ y.work = x.work
  BY <1>1, <1>2 DEF WorkerState, Moved
<1> HIDE DEF y
<1>10. WorkerShape(y)
  BY <1>1, <1>2, <1>9 DEF WorkerShape, FailureOps, CloseOps
<1>11. Last(r, delivery')
  BY <1>2, <1>4, <1>7, DispatcherConstants DEF Last, Follows, Row
<1>12. WorkerSound(y, delivery', stale', receipts')
  BY <1>4, <1>7, <1>8, <1>9, <1>11 DEF WorkerSound, Recovers, Promotes, Sends
<1>13. ClaimsGrow(w, y)
  BY <1>3, <1>9 DEF ClaimsGrow, Promotes, Sends
<1>14. TypeOK'
  BY <1>1, <1>6, <1>8, <1>9 DEF TypeOK, OtherTypes, WorkerState
<1>15. WorkerMoves(w, y)
  BY <1>4, <1>5, <1>6, <1>7, <1>8, <1>13 DEF WorkerMoves, ReceiptMoves, RowMoves, Concluded
<1> QED BY <1>10, <1>12, <1>14, <1>15, StepKeeps

\* A row in the hands of finalizeFailure was claimed, by this worker or by one
\* that is gone, and nobody else is sending it.
LEMMA FailureOwns ==
  ASSUME DispatcherInv, NEW w \in Workers, worker[w].op \in FailureOps
  PROVE  /\ worker[w].at \in Row
         /\ delivery[worker[w].at] \notin {"none", "PENDING"}
         /\ \A v \in Workers : v # w => ~Sends(worker[v], worker[w].at)
<1> DEFINE x == worker[w]
           r == x.at
<1>1. r \in Row /\ x.phase \in {"recover", "send"}
  BY DEF DispatcherInv, WorkerShape
<1>2. CASE x.phase = "send"
  <2>1. Sends(x, r)
    BY <1>2 DEF Sends, SendOps
  <2> QED BY <1>1, <2>1 DEF DispatcherInv, WorkerSound, Exclusive
<1>3. CASE x.phase = "recover"
  <2>1. Recovers(x, r)
    BY <1>3 DEF Recovers, FailureOps, CloseOps
  <2>2. r \in stale
    BY <1>1, <2>1 DEF DispatcherInv, WorkerSound
  <2> QED BY <1>1, <2>2 DEF DispatcherInv, WorkerSound, RowsSound
<1> QED BY <1>1, <1>2, <1>3

\* The sweep abandons pending rows and leaves the row in hand alone.
LEMMA SweepKeeps ==
  ASSUME DispatcherInv, NEW w \in Workers, abandonQueued(w)
  PROVE  DispatcherInv'
<1> DEFINE x == worker[w]
           r == x.at
           y == Moved(x, "ABANDONED", r, x.work)
<1>1. x \in WorkerState /\ WorkerShape(x) /\ WorkerSound(x, delivery, stale, receipts) /\ TypeOK
  BY DEF DispatcherInv, TypeOK, WorkerState
<1>2. x.op = "sweep" /\ x.op \in FailureOps
  BY DEF abandonQueued, FailureOps
<1>3. r \in Row /\ x.phase \in {"recover", "send"} /\ delivery[r] # "PENDING"
  BY <1>1, <1>2, FailureOwns DEF WorkerShape
<1>4. /\ delivery' = [q \in Row |-> IF q[2] = r[2] /\ delivery[q] = "PENDING"
                                    THEN "ABANDONED" ELSE delivery[q]]
      /\ worker' = [worker EXCEPT ![w] = y]
  BY WorkerForms DEF abandonQueued
<1>5. /\ delivery' \in [Row -> DeliveryStatus \cup {"none"}]
      /\ \A q \in Row : \/ delivery'[q] = delivery[q]
                        \/ delivery[q] = "PENDING" /\ delivery'[q] = "ABANDONED"
  BY <1>1, <1>4 DEF TypeOK, DeliveryStatus
<1>6. UNCHANGED <<stale, receipts>> /\ OtherTypes'
  BY <1>1, <1>5 DEF abandonQueued, TypeOK, OtherTypes, endpointVars, envVars
<1>7. y \in WorkerState /\ y.phase = x.phase /\ y.op = "ABANDONED" /\ y.at = r /\ y.work = x.work
  BY <1>1 DEF WorkerState, Moved
<1> HIDE DEF y
<1>8. WorkerShape(y)
  BY <1>1, <1>3, <1>7 DEF WorkerShape, FailureOps, CloseOps
<1>9. \A q \in Row : /\ Sends(y, q) => Sends(x, q)
                     /\ Recovers(y, q) => Recovers(x, q)
                     /\ ~Promotes(y, q)
  BY <1>2, <1>3, <1>7 DEF Sends, Recovers, Promotes, SendOps
<1>10. \A q \in Row : Last(q, delivery) => Last(q, delivery')
  BY <1>5 DEF Last
<1>11. WorkerSound(y, delivery', stale', receipts')
  BY <1>1, <1>5, <1>6, <1>7, <1>9, <1>10 DEF WorkerSound
<1>12. ClaimsGrow(w, y)
  BY <1>9 DEF ClaimsGrow
<1>13. TypeOK'
  BY <1>1, <1>4, <1>6, <1>7 DEF TypeOK, OtherTypes, WorkerState
<1>14. WorkerMoves(w, y)
  BY <1>4, <1>5, <1>6, <1>12 DEF WorkerMoves, ReceiptMoves, RowMoves, Abandoned
<1> QED BY <1>8, <1>11, <1>13, <1>14, StepKeeps

\* Dropping a row leaves a sequence of rows.
LEMMA DropRetryType ==
  ASSUME TypeOK, NEW r
  PROVE  dropRetry(r) \in Seq(Row)
<1> DEFINE places == {k \in 1..Len(dueRetries) : dueRetries[k] = r}
           k == CHOOSE i \in places : TRUE
<1>1. dueRetries \in Seq(Row)
  BY DEF TypeOK
<1>2. CASE places = {}
  BY <1>1, <1>2 DEF dropRetry
<1>3. CASE places # {}
  <2>1. k \in places
    BY <1>3
  <2>2. k \in 1..Len(dueRetries)
    BY <2>1
  <2> HIDE DEF k
  <2>3. /\ SubSeq(dueRetries, 1, k - 1) \in Seq(Row)
        /\ SubSeq(dueRetries, k + 1, Len(dueRetries)) \in Seq(Row)
    BY <1>1, <2>2
  <2>4. SubSeq(dueRetries, 1, k - 1) \o SubSeq(dueRetries, k + 1, Len(dueRetries)) \in Seq(Row)
    BY <2>3
  <2> QED BY <1>3, <2>4 DEF dropRetry, k
<1> QED BY <1>2, <1>3

\* Closing a failed row.
LEMMA CloseKeeps ==
  ASSUME DispatcherInv, NEW w \in Workers, closeFailed(w)
  PROVE  DispatcherInv'
<1> DEFINE x == worker[w]
           r == x.at
           y == AtRest(x.phase, x.work)
<1>1. WorkerShape(x) /\ WorkerSound(x, delivery, stale, receipts) /\ TypeOK
  BY DEF DispatcherInv
<1>2. x.op \in CloseOps /\ x.op \in FailureOps
  BY DEF closeFailed, CloseOps, FailureOps
<1>3. /\ r \in Row /\ delivery[r] \notin {"none", "PENDING"}
      /\ \A v \in Workers : v # w => ~Sends(worker[v], r)
  BY <1>2, FailureOwns
<1>4. delivery' = [delivery EXCEPT ![r] = x.op] /\ Finish(w)
  BY DEF closeFailed
<1>5. /\ delivery' \in [Row -> DeliveryStatus \cup {"none"}]
      /\ delivery'[r] = x.op
      /\ \A q \in Row : q # r => delivery'[q] = delivery[q]
  BY <1>1, <1>2, <1>3, <1>4 DEF TypeOK, DeliveryStatus, CloseOps
<1>6. dueRetries' \in Seq(Row)
  BY <1>1, DropRetryType DEF closeFailed
<1>7. UNCHANGED <<stale, receipts>> /\ OtherTypes'
  BY <1>1, <1>5, <1>6 DEF closeFailed, TypeOK, OtherTypes, endpointVars, envVars
<1>8. ~Sends(y, r)
  BY DEF Sends, AtRest, SendOps, FailureOps, CloseOps
<1> HIDE DEF y
<1>9. Abandoned(r) \/ Failed(r, w, y) \/ Concluded(r)
  <2>1. CASE x.op = "ABANDONED"
    BY <1>3, <1>5, <2>1 DEF Abandoned
  <2>2. CASE x.op = "FAILED"
    BY <1>1, <1>3, <1>5, <1>8, <2>2 DEF Failed, WorkerShape
  <2>3. CASE x.op = "EXHAUSTED"
    <3>1. r[3] >= maxAttempts /\ r[3] \in Nat
      BY <1>1, <1>3, <2>3 DEF WorkerShape, Row
    <3>2. Last(r, delivery)
      BY <1>3, <3>1, DispatcherConstants DEF Last, Follows, Row
    <3>3. \A v \in Workers : ~Promotes(worker[v], r)
      BY <1>3, <3>1, DispatcherConstants DEF DispatcherInv, WorkerSound
    <3> QED BY <1>3, <1>5, <2>3, <3>2, <3>3 DEF Concluded
  <2> QED BY <1>2, <2>1, <2>2, <2>3 DEF CloseOps
<1>10. RowMoves(w, y)
  BY <1>5, <1>9 DEF RowMoves
<1> QED BY <1>4, <1>7, <1>10, FinishKeeps DEF y

-----------------------------------------------------------------------------
(* The invariant is inductive.                                             *)

\* It holds of an empty database and idle workers.
LEMMA DispatcherInitInv == Init => DispatcherInv
<1> SUFFICES ASSUME Init PROVE DispatcherInv
  OBVIOUS
<1> USE DEF Init
<1>1. OtherTypes
  BY DEF OtherTypes
<1>2. Idle \in WorkerState
  BY DEF Idle, AtRest, WorkerState
<1>3. TypeOK
  BY <1>1, <1>2 DEF TypeOK, OtherTypes, WorkerState
<1>4. RowsSound(delivery, stale, receipts)
  BY DEF RowsSound, Last
<1>5. /\ WorkerShape(Idle) /\ WorkerSound(Idle, delivery, stale, receipts)
      /\ \A r : ~Sends(Idle, r)
  BY RestSound DEF Idle
<1> QED BY <1>3, <1>4, <1>5 DEF DispatcherInv, Exclusive

\* Whatever happens around the workers keeps it: only a row that nobody is
\* sending grows old in flight.
LEMMA SurroundingsKeep ==
  ASSUME DispatcherInv,
         \/ \E ev \in Events : emitWebhook(ev)
         \/ \E p \in Endpoints, change \in {"keep", "enable", "disable"}, types \in SUBSET Events :
              update(p, change, types)
         \/ \E r \in Row : retryFallsDue(r) \/ inFlightGrowsStale(r)
  PROVE  DispatcherInv'
<1>1. TypeOK
  BY DEF DispatcherInv
<1>2. ASSUME UNCHANGED <<delivery, stale, receipts, worker>>, OtherTypes'
      PROVE  DispatcherInv'
  <2>1. TypeOK'
    BY <1>1, <1>2 DEF TypeOK, OtherTypes
  <2> QED BY <1>2, <2>1 DEF DispatcherInv
<1>3. ASSUME NEW ev \in Events, emitWebhook(ev)
      PROVE  DispatcherInv'
  <2>1. events' \in Seq(Events)
    BY <1>1, <1>3 DEF emitWebhook, TypeOK
  <2> QED BY <1>1, <1>2, <1>3, <2>1 DEF emitWebhook, TypeOK, OtherTypes, endpointVars, rowVars
<1>4. ASSUME NEW p \in Endpoints, NEW change \in {"keep", "enable", "disable"},
             NEW types \in SUBSET Events, update(p, change, types)
      PROVE  DispatcherInv'
  <2>1. enabled' \in [Endpoints -> BOOLEAN]
    BY <1>1, <1>4 DEF update, TypeOK
  <2>2. consecutiveFailures' \in [Endpoints -> Nat] /\ updates' \in Nat
    BY <1>1, <1>4 DEF update, TypeOK
  <2>3. eventTypes' \in [Endpoints -> SUBSET Events]
    BY <1>1, <1>4 DEF update, TypeOK
  <2> QED BY <1>1, <1>2, <1>4, <2>1, <2>2, <2>3 DEF update, TypeOK, OtherTypes, rowVars
<1>5. ASSUME NEW r \in Row, retryFallsDue(r)
      PROVE  DispatcherInv'
  <2>1. dueRetries' \in Seq(Row)
    BY <1>1, <1>5 DEF retryFallsDue, TypeOK
  <2> QED BY <1>1, <1>2, <1>5, <2>1 DEF retryFallsDue, TypeOK, OtherTypes, endpointVars, envVars
<1>6. ASSUME NEW r \in Row, inFlightGrowsStale(r)
      PROVE  DispatcherInv'
  <2>1. stale' = stale \cup {r} /\ UNCHANGED <<delivery, receipts, worker>>
    BY <1>6 DEF inFlightGrowsStale, rowVars
  <2>2. TypeOK'
    BY <1>1, <1>6 DEF inFlightGrowsStale, TypeOK, endpointVars, rowVars
  <2>3. delivery[r] = "IN_FLIGHT" /\ \A w \in Workers : ~Sends(worker[w], r)
    BY <1>6 DEF inFlightGrowsStale, Sends
  <2>4. RowsSound(delivery, stale', receipts)
    BY <2>1, <2>3 DEF DispatcherInv, RowsSound
  <2>5. \A w \in Workers : WorkerSound(worker[w], delivery, stale', receipts)
    BY <2>1, <2>3 DEF DispatcherInv, WorkerSound
  <2> QED BY <2>1, <2>2, <2>4, <2>5 DEF DispatcherInv
<1> QED BY <1>3, <1>4, <1>5, <1>6

\* Every step keeps it.
LEMMA DispatcherStepInv == DispatcherInv /\ [Next]_vars => DispatcherInv'
<1> SUFFICES ASSUME DispatcherInv, [Next]_vars PROVE DispatcherInv'
  OBVIOUS
<1>1. CASE UNCHANGED vars
  BY <1>1 DEF vars, endpointVars, rowVars, envVars, DispatcherInv, TypeOK
<1>2. ASSUME NEW w \in Workers, Run(w)
      PROVE  DispatcherInv'
  BY <1>2, RunOnceKeeps, RecoverKeeps, LoadRetryKeeps, LoadDeliveryKeeps, LoadEndpointsKeeps,
     EnqueueKeeps, InsertRetryKeeps, AbandonKeeps, ClaimKeeps, PostKeeps, SuccessKeeps,
     ResetKeeps, CountFailureKeeps, DisableKeeps, SweepKeeps, CloseKeeps
  DEF Run
<1>3. ASSUME NEW w \in Workers, successFails(w) \/ crash(w)
      PROVE  DispatcherInv'
  BY <1>3, SuccessFailsKeeps, CrashKeeps
<1> QED BY <1>1, <1>2, <1>3, SurroundingsKeep DEF Next

\* The invariant says what is wanted of the rows.
LEMMA DispatcherInvMeans == DispatcherInv => TypeOK /\ AttemptSentOnce /\ ChainInOrder
<1> SUFFICES ASSUME DispatcherInv PROVE TypeOK /\ AttemptSentOnce /\ ChainInOrder
  OBVIOUS
<1>1. RowsSound(delivery, stale, receipts) /\ TypeOK
  BY DEF DispatcherInv
<1>2. AttemptSentOnce
  BY <1>1 DEF AttemptSentOnce, RowsSound
<1>3. ChainInOrder
  BY <1>1 DEF ChainInOrder, RowsSound, Last, Follows
<1> QED BY <1>1, <1>2, <1>3

\* With any number of workers, crashes and database errors, the dispatcher's
\* rows, endpoints and workers stay in their types.
THEOREM DispatcherTypeCorrect == Spec => []TypeOK
<1> QED BY DispatcherInvMeans, DispatcherInitInv, DispatcherStepInv, PTL DEF Spec

\* An attempt reaches its endpoint once at most, though every worker may load
\* the same row, crash after sending it or find it stale: only the one that
\* claimed it sends it.
THEOREM AttemptsAreClaimed == Spec => []AttemptSentOnce
<1> QED BY DispatcherInvMeans, DispatcherInitInv, DispatcherStepInv, PTL DEF Spec

\* Only the newest attempt of a chain is current: every earlier one has ended,
\* whoever of two workers, a sweep or a restart inserted the next.
THEOREM ChainsStayInOrder == Spec => []ChainInOrder
<1> QED BY DispatcherInvMeans, DispatcherInitInv, DispatcherStepInv, PTL DEF Spec
=============================================================================
