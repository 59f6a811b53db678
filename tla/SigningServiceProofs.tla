------------------------ MODULE SigningServiceProofs -------------------------
(***************************************************************************)
(* For any number of requests, operators and calls under way, and any      *)
(* policy: no key is used below the quorum, and what is reported as signed *)
(* is accounted for.                                                       *)
(*                                                                         *)
(* The argument: approvals are lost (two calls save over each other) but   *)
(* never invented.  Whatever list a call or a row holds names different    *)
(* users, and each of them is in the audit log, except the caller who is   *)
(* about to be written there.  The audit log only grows, so a list that is *)
(* long enough when its call decides is still backed by as many entries    *)
(* when the key is used.                                                   *)
(***************************************************************************)
EXTENDS SigningService, FiniteSetTheorems, TLAPS

-----------------------------------------------------------------------------
(* The inductive invariant.  Its parts are stated over the values of the   *)
(* variables, so that one lemma serves every step that lets them grow.     *)

SignPc == {"ceilings", "refuse", "save", "audit", "saveRejected", "auditRejected",
           "sign", "record", "saveSigned", "auditSigned", "signFailed"}

SignCallRecord ==
  [pc : SignPc, op : {"submit", "approve", "reject"}, req : SignRequests,
   actor : Operators, approvals : Seq(Operators)]

\* The users whose approval of r is in a log, and a key's use.
Approvers(audit, r) == {u \in Operators : <<r, "approved", u>> \in audit}
KeyUsed(audit, r) == <<r, "key_used">> \in audit

Distinct(s) == \A i, j \in 1..Len(s) : s[i] = s[j] => i = j

\* Every approval in s is in the log, or is one of `pending`.  (Below two
\* required approvals the submitter's own stands in the list, unlogged.)
Backed(s, r, audit, pending) ==
  requiredApprovals > 1 => \A i \in 1..Len(s) : s[i] \in Approvers(audit, r) \cup pending

\* What the call x has read and done.
CallSound(x, req, audit, spend) ==
  \/ x = IdleSignCall
  \/ /\ x \in SignCallRecord
     /\ req[x.req] # NoRequest
     /\ Distinct(x.approvals)
     /\ Backed(x.approvals, x.req, audit, IF x.pc = "audit" THEN {x.actor} ELSE {})
     /\ x.pc = "audit" => x.actor # req[x.req].requestedBy
     /\ x.pc \in {"sign", "record", "saveSigned", "auditSigned"} =>
          Len(x.approvals) >= requiredApprovals
     /\ x.pc \in {"record", "saveSigned", "auditSigned"} => KeyUsed(audit, x.req)
     /\ x.pc \in {"saveSigned", "auditSigned"} => spend[x.req] > 0

\* The row of request r.
RowSound(row, r, req, audit, spend) ==
  row # NoRequest =>
    /\ row \in [status : {"PENDING_APPROVAL", "SIGNED", "REJECTED"}, approvals : Seq(Operators)]
    /\ req[r] # NoRequest
    /\ Distinct(row.approvals)
    /\ Backed(row.approvals, r, audit, {})
    /\ row.status = "SIGNED" => spend[r] > 0 /\ KeyUsed(audit, r)

\* A log entry is an approval by somebody other than the requester, or a
\* key's use.
EntrySound(e, req) ==
  \E r \in SignRequests :
    /\ req[r] # NoRequest
    /\ \/ e = <<r, "key_used">>
       \/ \E u \in Operators : e = <<r, "approved", u>> /\ u # req[r].requestedBy

QuorumSound(audit, r) ==
  KeyUsed(audit, r) /\ requiredApprovals > 1 => Cardinality(Approvers(audit, r)) >= requiredApprovals

SigningTypes ==
  /\ signReq \in [SignRequests -> SigningRequest \cup {NoRequest}]
  /\ signRow = [r \in SignRequests |-> signRow[r]]
  /\ signSpend \in [SignRequests -> Nat]
  /\ signMapped \in KeyIds \cup {NoKey}
  /\ signCall = [c \in SignCalls |-> signCall[c]]

SigningInv ==
  /\ SigningTypes
  /\ \A c \in SignCalls : CallSound(signCall[c], signReq, signAudit, signSpend)
  /\ \A r \in SignRequests : RowSound(signRow[r], r, signReq, signAudit, signSpend)
  /\ \A e \in signAudit : EntrySound(e, signReq)
  /\ \A r \in SignRequests : QuorumSound(signAudit, r)
  /\ \A r \in SignRequests :
       signAnswer = <<r, "SIGNED">> => signSpend[r] > 0 /\ KeyUsed(signAudit, r)

-----------------------------------------------------------------------------
(* What lets the parts stand.                                              *)

\* Requests once made stay as they are; log and spend entries are only added.
Grows(req, audit, spend, req2, audit2, spend2) ==
  /\ \A r \in SignRequests : req[r] # NoRequest => req2[r] = req[r]
  /\ audit \subseteq audit2
  /\ \A r \in SignRequests : spend[r] > 0 => spend2[r] > 0

\* A call that was sound stays sound while the tables grow.
LEMMA CallSoundGrows ==
  ASSUME NEW x, NEW req, NEW audit, NEW spend, NEW req2, NEW audit2, NEW spend2,
         Grows(req, audit, spend, req2, audit2, spend2),
         CallSound(x, req, audit, spend)
  PROVE  CallSound(x, req2, audit2, spend2)
<1>1. CASE x = IdleSignCall
  BY <1>1 DEF CallSound
<1>2. CASE x # IdleSignCall
  <2>1. x \in SignCallRecord /\ x.req \in SignRequests
    BY <1>2 DEF CallSound, SignCallRecord
  <2>2. req[x.req] # NoRequest /\ req2[x.req] = req[x.req]
    BY <1>2, <2>1 DEF CallSound, Grows
  <2>3. Backed(x.approvals, x.req, audit2, IF x.pc = "audit" THEN {x.actor} ELSE {})
    BY <1>2 DEF CallSound, Grows, Backed, Approvers
  <2>4. KeyUsed(audit, x.req) => KeyUsed(audit2, x.req)
    BY DEF KeyUsed, Grows
  <2>5. spend[x.req] > 0 => spend2[x.req] > 0
    BY <2>1 DEF Grows
  <2> QED
    BY <1>2, <2>1, <2>2, <2>3, <2>4, <2>5 DEF CallSound
<1> QED
  BY <1>1, <1>2

\* So does a row.
LEMMA RowSoundGrows ==
  ASSUME NEW row, NEW r \in SignRequests,
         NEW req, NEW audit, NEW spend, NEW req2, NEW audit2, NEW spend2,
         Grows(req, audit, spend, req2, audit2, spend2),
         RowSound(row, r, req, audit, spend)
  PROVE  RowSound(row, r, req2, audit2, spend2)
<1> SUFFICES ASSUME row # NoRequest PROVE RowSound(row, r, req2, audit2, spend2)
  BY DEF RowSound
<1>1. Backed(row.approvals, r, audit2, {})
  BY DEF RowSound, Grows, Backed, Approvers
<1>2. KeyUsed(audit, r) => KeyUsed(audit2, r)
  BY DEF KeyUsed, Grows
<1> QED
  BY <1>1, <1>2 DEF RowSound, Grows

\* So does an entry of the log.
LEMMA EntrySoundGrows ==
  ASSUME NEW e, NEW req, NEW audit, NEW spend, NEW req2, NEW audit2, NEW spend2,
         Grows(req, audit, spend, req2, audit2, spend2),
         EntrySound(e, req)
  PROVE  EntrySound(e, req2)
BY DEF Grows, EntrySound

\* Approvers are operators, so there are finitely many, and they only grow.
LEMMA ApproversGrow ==
  ASSUME NEW audit, NEW audit2, NEW r, audit \subseteq audit2
  PROVE  /\ Approvers(audit2, r) \subseteq Operators
         /\ IsFiniteSet(Approvers(audit, r)) /\ IsFiniteSet(Approvers(audit2, r))
         /\ Cardinality(Approvers(audit, r)) \in Nat /\ Cardinality(Approvers(audit2, r)) \in Nat
         /\ Cardinality(Approvers(audit, r)) <= Cardinality(Approvers(audit2, r))
<1>1. /\ Approvers(audit, r) \subseteq Approvers(audit2, r)
      /\ Approvers(audit2, r) \subseteq Operators
  BY DEF Approvers
<1>2. IsFiniteSet(Operators)
  BY SigningConstants DEF SigningConstants
<1>3. IsFiniteSet(Approvers(audit2, r))
  BY <1>1, <1>2, FS_Subset
<1>4. /\ IsFiniteSet(Approvers(audit, r))
      /\ Cardinality(Approvers(audit, r)) <= Cardinality(Approvers(audit2, r))
  BY <1>1, <1>3, FS_Subset
<1> QED
  BY <1>1, <1>3, <1>4, FS_CardinalityType

\* A list of different users, all of them in T, is not longer than T is large.
LEMMA DistinctBound ==
  ASSUME NEW s \in Seq(Operators), Distinct(s), NEW T, T \subseteq Operators,
         \A i \in 1..Len(s) : s[i] \in T
  PROVE  Len(s) \in Nat /\ Len(s) <= Cardinality(T) /\ Cardinality(T) \in Nat
<1>1. Len(s) \in Nat /\ DOMAIN s = 1..Len(s) /\ s \in [1..Len(s) -> Operators]
  OBVIOUS
<1>2. s \in [1..Len(s) -> T]
  BY <1>1
<1>3. s \in Injection(1..Len(s), T)
  BY <1>2 DEF Injection, IsInjective, Distinct
<1>4. IsFiniteSet(T)
  BY SigningConstants, FS_Subset DEF SigningConstants
<1>5. Cardinality(1..Len(s)) <= Cardinality(T)
  BY <1>3, <1>4, FS_Injection
<1>6. Cardinality(1..Len(s)) = Len(s)
  <2>1. ASSUME NEW n \in Nat PROVE Cardinality(1..n) = n
    <3>1. Cardinality(1..n) = IF 1 > n THEN 0 ELSE n - 1 + 1
      BY FS_Interval
    <3> QED
      BY <3>1
  <2> QED
    BY <1>1, <2>1
<1> QED
  BY <1>1, <1>4, <1>5, <1>6, FS_CardinalityType

\* What a step has to show: everything that is new in it is sound.
LEMMA StepSound ==
  ASSUME SigningInv, SigningTypes',
         Grows(signReq, signAudit, signSpend, signReq', signAudit', signSpend'),
         \A c \in SignCalls : \/ signCall'[c] = signCall[c]
                              \/ CallSound(signCall'[c], signReq', signAudit', signSpend'),
         \A r \in SignRequests : \/ signRow'[r] = signRow[r]
                                 \/ RowSound(signRow'[r], r, signReq', signAudit', signSpend'),
         \A e \in signAudit' : e \in signAudit \/ EntrySound(e, signReq'),
         \A r \in SignRequests : KeyUsed(signAudit', r) =>
            KeyUsed(signAudit, r) \/ QuorumSound(signAudit', r),
         \A r \in SignRequests : signAnswer' = <<r, "SIGNED">> =>
            \/ signAnswer' = signAnswer
            \/ signSpend'[r] > 0 /\ KeyUsed(signAudit', r)
  PROVE  SigningInv'
<1>1. \A c \in SignCalls : CallSound(signCall'[c], signReq', signAudit', signSpend')
  BY CallSoundGrows DEF SigningInv
<1>2. \A r \in SignRequests : RowSound(signRow'[r], r, signReq', signAudit', signSpend')
  BY RowSoundGrows DEF SigningInv
<1>3. \A e \in signAudit' : EntrySound(e, signReq')
  BY EntrySoundGrows DEF SigningInv
<1>4. \A r \in SignRequests : QuorumSound(signAudit', r)
  <2> SUFFICES ASSUME NEW r \in SignRequests, KeyUsed(signAudit', r), KeyUsed(signAudit, r)
               PROVE  QuorumSound(signAudit', r)
    BY DEF QuorumSound
  <2>1. QuorumSound(signAudit, r) /\ signAudit \subseteq signAudit'
    BY DEF SigningInv, Grows
  <2>2. requiredApprovals \in Nat
    BY SigningConstants DEF SigningConstants
  <2> QED
    BY <2>1, <2>2, ApproversGrow DEF QuorumSound
<1>5. \A r \in SignRequests :
        signAnswer' = <<r, "SIGNED">> => signSpend'[r] > 0 /\ KeyUsed(signAudit', r)
  BY DEF SigningInv, Grows, KeyUsed
<1> QED
  BY <1>1, <1>2, <1>3, <1>4, <1>5 DEF SigningInv

-----------------------------------------------------------------------------
(* The stores and the answers.                                             *)

\* Of the events the service records, the log keeps the approvals and the
\* uses of a key.
LEMMA AuditKeeps ==
  ASSUME NEW r, NEW type, NEW actor, AuditTrailRecord({SignEvent(r, type, actor)})
  PROVE  /\ type = "approved" => signAudit' = signAudit \cup {<<r, "approved", actor>>}
         /\ type = "key_used" => signAudit' = signAudit \cup {<<r, "key_used">>}
         /\ type \notin {"approved", "key_used"} => signAudit' = signAudit
BY DEF AuditTrailRecord, SignEvent

\* A call under way is sound and about a request that was made.
LEMMA CallUnderWay ==
  ASSUME SigningInv, NEW c \in SignCalls, signCall[c].pc # "idle"
  PROVE  /\ signCall[c] \in SignCallRecord
         /\ signCall[c].pc \in SignPc
         /\ signCall[c].req \in SignRequests /\ signCall[c].actor \in Operators
         /\ signCall[c].approvals \in Seq(Operators)
         /\ signReq[signCall[c].req] # NoRequest
         /\ Distinct(signCall[c].approvals)
         /\ signCall[c].pc # "audit" =>
              Backed(signCall[c].approvals, signCall[c].req, signAudit, {})
<1>1. CallSound(signCall[c], signReq, signAudit, signSpend) /\ signCall[c] # IdleSignCall
  BY DEF SigningInv, IdleSignCall
<1> QED
  BY <1>1 DEF CallSound, SignCallRecord

\* Going on with the next statement changes nothing but the program counter.
LEMMA GotoCall ==
  ASSUME SigningInv, NEW c \in SignCalls, signCall[c].pc # "idle", NEW pc \in SignPc, Goto(c, pc)
  PROVE  \E x \in SignCallRecord :
           /\ signCall' = [signCall EXCEPT ![c] = x]
           /\ x.pc = pc /\ x.op = signCall[c].op /\ x.req = signCall[c].req
           /\ x.actor = signCall[c].actor /\ x.approvals = signCall[c].approvals
           /\ signAnswer' = signAnswer
<1> DEFINE x == [signCall[c] EXCEPT !.pc = pc]
<1>1. signCall[c] \in SignCallRecord
  BY CallUnderWay
<1>2. /\ x \in SignCallRecord
      /\ x.pc = pc /\ x.op = signCall[c].op /\ x.req = signCall[c].req
      /\ x.actor = signCall[c].actor /\ x.approvals = signCall[c].approvals
  BY <1>1 DEF SignCallRecord
<1>3. signCall' = [signCall EXCEPT ![c] = x] /\ signAnswer' = signAnswer
  BY DEF Goto
<1> HIDE DEF x
<1> QED
  BY <1>2, <1>3

\* approve and reject go on from a row that is there and pending, and approve
\* only for somebody else than the requester.
LEMMA DecisionAllowed ==
  ASSUME NEW r, NEW u, NEW op, DecisionError(r, u, op) = "none"
  PROVE  /\ signRow[r] # NoRequest /\ signRow[r].status = "PENDING_APPROVAL"
         /\ op = "approve" => u # signReq[r].requestedBy
BY DEF DecisionError, ApprovalStoreGet

-----------------------------------------------------------------------------
(* The steps.                                                              *)

\* The state before any request.
LEMMA SigningInitInv == SigningInit => SigningInv
<1> SUFFICES ASSUME SigningInit PROVE SigningInv
  OBVIOUS
<1>1. SigningTypes
  BY DEF SigningInit, SigningTypes
<1>2. \A c \in SignCalls : CallSound(signCall[c], signReq, signAudit, signSpend)
  BY DEF SigningInit, CallSound
<1>3. \A r \in SignRequests : RowSound(signRow[r], r, signReq, signAudit, signSpend)
  BY DEF SigningInit, RowSound
<1>4. \A r \in SignRequests : QuorumSound(signAudit, r) /\ signAnswer # <<r, "SIGNED">>
  BY DEF SigningInit, QuorumSound, KeyUsed
<1> QED
  BY <1>1, <1>2, <1>3, <1>4 DEF SigningInv, SigningInit

\* submit: a new request starts without approvals, or, below two required
\* ones, with the submitter's own.
LEMMA SubmitInv ==
  ASSUME SigningInv, NEW c \in SignCalls, NEW r \in SignRequests, NEW u \in Requesters,
         NEW dto \in SubmitSigningRequestDto, NEW now \in TimesFrom, Submit(c, r, u, dto, now)
  PROVE  SigningInv'
<1> DEFINE q == [toAddress |-> dto.to_address, amount |-> dto.amount,
                 requestedBy |-> u, requestedAt |-> now]
           s == IF requiredApprovals <= 1 THEN <<u>> ELSE <<>>
           pc == IF dto.to_address \in SigningPolicy.allowedDestinations THEN "ceilings" ELSE "refuse"
           x == [pc |-> pc, op |-> "submit", req |-> r, actor |-> u, approvals |-> s]
<1>1. q \in SigningRequest /\ q # NoRequest
  BY NoRequestConstant DEF SigningRequest, SubmitSigningRequestDto, TimesFrom, NoRequestConstant
<1>2. u \in Operators
  BY SigningConstants DEF SigningConstants
<1>3. s \in Seq(Operators) /\ Distinct(s) /\ (requiredApprovals > 1 => s = <<>>)
  BY <1>2, SigningConstants DEF Distinct, SigningConstants
<1>4. pc \in {"ceilings", "refuse"}
  OBVIOUS
<1>5. signReq' = [signReq EXCEPT ![r] = q] /\ signReq[r] = NoRequest
  BY DEF Submit
<1>6. signCall' = [signCall EXCEPT ![c] = x] /\ signAnswer' = <<>>
  BY DEF Submit, SigningPolicy
<1>7. UNCHANGED <<signRow, signSpend, signKey, signMapped, signAudit>>
  <2>1. AuditTrailRecord({SignEvent(r, "submitted", u)})
    BY DEF Submit
  <2>2. signAudit' = signAudit
    BY <2>1, AuditKeeps
  <2> QED
    BY <2>2 DEF Submit
<1> HIDE DEF q, s, pc
<1>8. x \in SignCallRecord /\ x.pc = pc /\ x.req = r /\ x.approvals = s
  BY <1>2, <1>3, <1>4 DEF SignCallRecord, SignPc
<1> HIDE DEF x
<1>9. signReq' \in [SignRequests -> SigningRequest \cup {NoRequest}] /\ signReq'[r] = q
  BY <1>1, <1>5 DEF SigningInv, SigningTypes
<1>10. SigningTypes'
  BY <1>6, <1>7, <1>9 DEF SigningInv, SigningTypes
<1>11. Grows(signReq, signAudit, signSpend, signReq', signAudit', signSpend')
  BY <1>5, <1>7 DEF Grows, SigningInv, SigningTypes
<1>12. CallSound(x, signReq', signAudit', signSpend')
  <2>1. Backed(x.approvals, x.req, signAudit', IF x.pc = "audit" THEN {x.actor} ELSE {})
    BY <1>3, <1>8 DEF Backed
  <2> QED
    BY <1>1, <1>3, <1>4, <1>8, <1>9, <2>1 DEF CallSound
<1>13. \A d \in SignCalls : signCall'[d] = signCall[d] \/ signCall'[d] = x
  BY <1>6 DEF SigningInv, SigningTypes
<1>14. \A t \in SignRequests : signAnswer' # <<t, "SIGNED">>
  BY <1>6
<1> QED
  BY <1>7, <1>10, <1>11, <1>12, <1>13, <1>14, StepSound

\* approve: the list grows by a user who is neither in it nor the requester.
LEMMA ApproveInv ==
  ASSUME SigningInv, NEW c \in SignCalls, NEW r \in SignRequests, NEW u \in Operators,
         Approve(c, r, u)
  PROVE  SigningInv'
<1> DEFINE s == Append(signRow[r].approvals, u)
           x == [pc |-> "audit", op |-> "approve", req |-> r, actor |-> u, approvals |-> s]
<1>1. /\ signRow[r] # NoRequest /\ u # signReq[r].requestedBy
      /\ RowSound(signRow[r], r, signReq, signAudit, signSpend)
  BY DecisionAllowed DEF Approve, SigningInv
<1>2. /\ signRow[r].approvals \in Seq(Operators) /\ Distinct(signRow[r].approvals)
      /\ signReq[r] # NoRequest /\ Backed(signRow[r].approvals, r, signAudit, {})
  BY <1>1 DEF RowSound
<1>3. \A i \in 1..Len(signRow[r].approvals) : signRow[r].approvals[i] # u
  BY <1>2 DEF Approve, AlreadyApproved
<1>4. s \in Seq(Operators) /\ Distinct(s) /\ Backed(s, r, signAudit, {u})
  BY <1>2, <1>3 DEF Distinct, Backed
<1>5. /\ signCall' = [signCall EXCEPT ![c] = x] /\ signAnswer' = <<>>
      /\ UNCHANGED <<signReq, signRow, signSpend, signAudit, signKey, signMapped>>
  BY DEF Approve, RowsOnly
<1> HIDE DEF s
<1>6. /\ x \in SignCallRecord /\ x.pc = "audit" /\ x.req = r /\ x.approvals = s /\ x.actor = u
  BY <1>4 DEF SignCallRecord, SignPc
<1> HIDE DEF x
<1>7. SigningTypes' /\ Grows(signReq, signAudit, signSpend, signReq', signAudit', signSpend')
  BY <1>5 DEF SigningInv, SigningTypes, Grows
<1>8. CallSound(x, signReq', signAudit', signSpend')
  BY <1>1, <1>2, <1>4, <1>5, <1>6 DEF CallSound
<1>9. \A d \in SignCalls : signCall'[d] = signCall[d] \/ signCall'[d] = x
  BY <1>5 DEF SigningInv, SigningTypes
<1>10. \A t \in SignRequests : signAnswer' # <<t, "SIGNED">>
  BY <1>5
<1> QED
  BY <1>5, <1>7, <1>8, <1>9, <1>10, StepSound

\* reject keeps the list it read.
LEMMA RejectInv ==
  ASSUME SigningInv, NEW c \in SignCalls, NEW r \in SignRequests, NEW u \in Operators,
         Reject(c, r, u)
  PROVE  SigningInv'
<1> DEFINE s == signRow[r].approvals
           x == [pc |-> "saveRejected", op |-> "reject", req |-> r, actor |-> u, approvals |-> s]
<1>1. signRow[r] # NoRequest /\ RowSound(signRow[r], r, signReq, signAudit, signSpend)
  BY DecisionAllowed DEF Reject, SigningInv
<1>2. /\ s \in Seq(Operators) /\ Distinct(s) /\ signReq[r] # NoRequest
      /\ Backed(s, r, signAudit, {})
  BY <1>1 DEF RowSound
<1>3. /\ signCall' = [signCall EXCEPT ![c] = x] /\ signAnswer' = <<>>
      /\ UNCHANGED <<signReq, signRow, signSpend, signAudit, signKey, signMapped>>
  BY DEF Reject, RowsOnly
<1> HIDE DEF s
<1>4. x \in SignCallRecord /\ x.pc = "saveRejected" /\ x.req = r /\ x.approvals = s
  BY <1>2 DEF SignCallRecord, SignPc
<1> HIDE DEF x
<1>5. SigningTypes' /\ Grows(signReq, signAudit, signSpend, signReq', signAudit', signSpend')
  BY <1>3 DEF SigningInv, SigningTypes, Grows
<1>6. CallSound(x, signReq', signAudit', signSpend')
  BY <1>2, <1>3, <1>4 DEF CallSound
<1>7. \A d \in SignCalls : signCall'[d] = signCall[d] \/ signCall'[d] = x
  BY <1>3 DEF SigningInv, SigningTypes
<1>8. \A t \in SignRequests : signAnswer' # <<t, "SIGNED">>
  BY <1>3
<1> QED
  BY <1>3, <1>5, <1>6, <1>7, <1>8, StepSound

\* A decision refused at once changes only the answer, and not to SIGNED.
LEMMA RefusedInv ==
  ASSUME SigningInv, NEW r \in SignRequests, NEW u \in Operators,
         NEW op \in {"approve", "reject"}, Refused(r, u, op)
  PROVE  SigningInv'
<1> DEFINE error == DecisionError(r, u, op)
<1>1. error \in {"UnknownSigningRequest", "AlreadyDecided", "SelfApproval"}
  BY DEF Refused, DecisionError
<1>2. TranslatedError[error] \in {"not_found", "conflict", "forbidden"}
  BY <1>1 DEF TranslatedError, SigningError
<1>3. /\ signAnswer' = <<r, TranslatedError[error]>>
      /\ UNCHANGED <<signReq, signRow, signSpend, signAudit, signKey, signMapped, signCall>>
  BY DEF Refused, RowsOnly
<1> HIDE DEF error
<1>4. \A t \in SignRequests : signAnswer' # <<t, "SIGNED">>
  BY <1>2, <1>3
<1>5. SigningTypes' /\ Grows(signReq, signAudit, signSpend, signReq', signAudit', signSpend')
  BY <1>3 DEF SigningInv, SigningTypes, Grows
<1> QED
  BY <1>3, <1>4, <1>5, StepSound

\* The approval enters the log before anything is decided from the list.
LEMMA AuditApprovedInv ==
  ASSUME SigningInv, NEW c \in SignCalls, AuditApproved(c)
  PROVE  SigningInv'
<1> DEFINE r == signCall[c].req
           u == signCall[c].actor
           s == signCall[c].approvals
           pc == IF Len(s) >= SigningPolicy.requiredApprovals THEN "ceilings" ELSE "save"
<1>1. /\ signCall[c].pc = "audit" /\ r \in SignRequests /\ u \in Operators
      /\ s \in Seq(Operators) /\ signReq[r] # NoRequest /\ Distinct(s)
  BY CallUnderWay DEF AuditApproved
<1>2. Backed(s, r, signAudit, {u}) /\ u # signReq[r].requestedBy
  <2>1. CallSound(signCall[c], signReq, signAudit, signSpend) /\ signCall[c] # IdleSignCall
    BY <1>1 DEF SigningInv, IdleSignCall
  <2> QED
    BY <1>1, <2>1 DEF CallSound
<1>3. pc \in {"ceilings", "save"} /\ pc \in SignPc
  BY DEF SignPc
<1>4. PICK x \in SignCallRecord :
        /\ signCall' = [signCall EXCEPT ![c] = x]
        /\ x.pc = pc /\ x.req = r /\ x.actor = u /\ x.approvals = s
        /\ signAnswer' = signAnswer
  BY <1>1, <1>3, GotoCall DEF AuditApproved
<1>5. signAudit' = signAudit \cup {<<r, "approved", u>>}
  BY AuditKeeps DEF AuditApproved
<1>6. UNCHANGED <<signReq, signRow, signSpend, signKey, signMapped>>
  BY DEF AuditApproved, RowsOnly
<1> HIDE DEF r, u, s, pc
<1>7. SigningTypes' /\ Grows(signReq, signAudit, signSpend, signReq', signAudit', signSpend')
  BY <1>4, <1>5, <1>6 DEF SigningInv, SigningTypes, Grows
<1>8. Backed(s, r, signAudit', {})
  BY <1>1, <1>2, <1>5 DEF Backed, Approvers
<1>9. CallSound(x, signReq', signAudit', signSpend')
  BY <1>1, <1>3, <1>4, <1>6, <1>8 DEF CallSound
<1>10. \A d \in SignCalls : signCall'[d] = signCall[d] \/ signCall'[d] = x
  BY <1>4 DEF SigningInv, SigningTypes
<1>11. \A e \in signAudit' : e \in signAudit \/ EntrySound(e, signReq')
  BY <1>1, <1>2, <1>5, <1>6 DEF EntrySound
<1>12. \A t \in SignRequests : KeyUsed(signAudit', t) => KeyUsed(signAudit, t)
  BY <1>5 DEF KeyUsed
<1> QED
  BY <1>4, <1>6, <1>7, <1>9, <1>10, <1>11, <1>12, StepSound

\* The ceilings are checked, and the list decides between signing and saving.
LEMMA AssertWithinCeilingsInv ==
  ASSUME SigningInv, NEW c \in SignCalls, AssertWithinCeilings(c)
  PROVE  SigningInv'
<1> DEFINE s == signCall[c].approvals
           r == signCall[c].req
           pc == IF ~WithinCeilings(r) THEN "refuse"
                 ELSE IF Len(s) >= SigningPolicy.requiredApprovals THEN "sign" ELSE "save"
<1>1. /\ signCall[c].pc = "ceilings" /\ signCall[c] # IdleSignCall
      /\ CallSound(signCall[c], signReq, signAudit, signSpend)
  BY DEF AssertWithinCeilings, SigningInv, IdleSignCall
<1>2. pc \in {"refuse", "sign", "save"} /\ pc \in SignPc /\ (pc = "sign" => Len(s) >= requiredApprovals)
  BY DEF SignPc, SigningPolicy
<1>3. Goto(c, pc) /\ UNCHANGED <<signReq, signRow, signSpend, signAudit, signKey, signMapped>>
  BY DEF AssertWithinCeilings, RowsOnly
<1> HIDE DEF pc
<1>4. PICK x \in SignCallRecord :
        /\ signCall' = [signCall EXCEPT ![c] = x]
        /\ x.pc = pc /\ x.req = r /\ x.approvals = s
        /\ signAnswer' = signAnswer
  BY <1>1, <1>2, <1>3, GotoCall
<1>5. SigningTypes' /\ Grows(signReq, signAudit, signSpend, signReq', signAudit', signSpend')
  BY <1>3, <1>4 DEF SigningInv, SigningTypes, Grows
<1>6. CallSound(x, signReq', signAudit', signSpend')
  BY <1>1, <1>2, <1>3, <1>4 DEF CallSound
<1>7. \A d \in SignCalls : signCall'[d] = signCall[d] \/ signCall'[d] = x
  BY <1>4 DEF SigningInv, SigningTypes
<1> QED
  BY <1>3, <1>4, <1>5, <1>6, <1>7, StepSound

\* A call that ends, with an answer that is not SIGNED and no new entry.
LEMMA AnsweredInv ==
  ASSUME SigningInv, NEW c \in SignCalls, NEW answer, answer # "SIGNED", Answer(c, answer),
         signAudit' = signAudit, UNCHANGED <<signRow, signSpend>>, RowsOnly
  PROVE  SigningInv'
<1>1. /\ signCall' = [signCall EXCEPT ![c] = IdleSignCall]
      /\ UNCHANGED <<signReq, signRow, signSpend, signAudit, signKey, signMapped>>
      /\ \A t \in SignRequests : signAnswer' # <<t, "SIGNED">>
  BY DEF Answer, RowsOnly
<1>2. SigningTypes' /\ Grows(signReq, signAudit, signSpend, signReq', signAudit', signSpend')
  BY <1>1 DEF SigningInv, SigningTypes, Grows
<1>3. \A d \in SignCalls : \/ signCall'[d] = signCall[d]
                           \/ CallSound(signCall'[d], signReq', signAudit', signSpend')
  BY <1>1 DEF SigningInv, SigningTypes, CallSound
<1> QED
  BY <1>1, <1>2, <1>3, StepSound

\* The refusal, the rejection's audit row and the failure's: calls that end.
LEMMA EndingsInv ==
  ASSUME SigningInv, NEW c \in SignCalls,
         AuditValidationFailure(c) \/ AuditRejected(c) \/ AuditSignFailed(c)
  PROVE  SigningInv'
<1>1. CASE AuditValidationFailure(c)
  <2>1. TranslatedError.AmountCeilingExceeded # "SIGNED" /\ TranslatedError.DestinationNotAllowed # "SIGNED"
    BY DEF TranslatedError, SigningError
  <2>2. signAudit' = signAudit
    BY <1>1, AuditKeeps DEF AuditValidationFailure
  <2> QED
    BY <1>1, <2>1, <2>2, AnsweredInv DEF AuditValidationFailure
<1>2. CASE AuditRejected(c)
  <2>1. signAudit' = signAudit
    BY <1>2, AuditKeeps DEF AuditRejected
  <2> QED
    BY <1>2, <2>1, AnsweredInv DEF AuditRejected
<1>3. CASE AuditSignFailed(c)
  <2>1. signAudit' = signAudit
    BY <1>3, AuditKeeps DEF AuditSignFailed
  <2> QED
    BY <1>3, <2>1, AnsweredInv DEF AuditSignFailed
<1> QED
  BY <1>1, <1>2, <1>3

\* Below the quorum the row is written from the list the call holds.
LEMMA SavePendingInv ==
  ASSUME SigningInv, NEW c \in SignCalls, SavePending(c)
  PROVE  SigningInv'
<1> DEFINE r == signCall[c].req
           s == signCall[c].approvals
           row == [status |-> "PENDING_APPROVAL", approvals |-> s]
<1>1. /\ r \in SignRequests /\ s \in Seq(Operators) /\ signReq[r] # NoRequest /\ Distinct(s)
      /\ Backed(s, r, signAudit, {})
  BY CallUnderWay DEF SavePending
<1>2. /\ signRow' = [signRow EXCEPT ![r] = row]
      /\ signCall' = [signCall EXCEPT ![c] = IdleSignCall]
      /\ UNCHANGED <<signReq, signSpend, signAudit, signKey, signMapped>>
      /\ \A t \in SignRequests : signAnswer' # <<t, "SIGNED">>
  BY DEF SavePending, ApprovalStoreSave, Answer, RowsOnly
<1>3. SigningTypes' /\ Grows(signReq, signAudit, signSpend, signReq', signAudit', signSpend')
  BY <1>2 DEF SigningInv, SigningTypes, Grows
<1>4. RowSound(row, r, signReq', signAudit', signSpend')
  BY <1>1, <1>2 DEF RowSound
<1> HIDE DEF row, r
<1>5. \A t \in SignRequests : signRow'[t] = signRow[t] \/ (t = r /\ signRow'[t] = row)
  BY <1>2 DEF SigningInv, SigningTypes
<1>6. \A d \in SignCalls : \/ signCall'[d] = signCall[d]
                           \/ CallSound(signCall'[d], signReq', signAudit', signSpend')
  BY <1>2 DEF SigningInv, SigningTypes, CallSound
<1> QED
  BY <1>2, <1>3, <1>4, <1>5, <1>6, StepSound

\* A rejection's row, and a signature's, likewise; the call goes on.
LEMMA SaveDecidedInv ==
  ASSUME SigningInv, NEW c \in SignCalls, SaveRejected(c) \/ SaveSigned(c)
  PROVE  SigningInv'
<1> DEFINE r == signCall[c].req
           s == signCall[c].approvals
           status == IF signCall[c].pc = "saveSigned" THEN "SIGNED" ELSE "REJECTED"
           pc == IF signCall[c].pc = "saveSigned" THEN "auditSigned" ELSE "auditRejected"
           row == [status |-> status, approvals |-> s]
<1>1. /\ signCall[c].pc \in {"saveSigned", "saveRejected"}
      /\ r \in SignRequests /\ s \in Seq(Operators) /\ signReq[r] # NoRequest /\ Distinct(s)
      /\ Backed(s, r, signAudit, {})
  BY CallUnderWay DEF SaveRejected, SaveSigned
<1>2. signCall[c].pc = "saveSigned" =>
        signSpend[r] > 0 /\ KeyUsed(signAudit, r) /\ Len(s) >= requiredApprovals
  <2>1. CallSound(signCall[c], signReq, signAudit, signSpend) /\ signCall[c] # IdleSignCall
    BY <1>1 DEF SigningInv, IdleSignCall
  <2> QED
    BY <2>1 DEF CallSound
<1>3. /\ signRow' = [signRow EXCEPT ![r] = row] /\ Goto(c, pc)
      /\ UNCHANGED <<signReq, signSpend, signAudit, signKey, signMapped>>
  BY DEF SaveRejected, SaveSigned, ApprovalStoreSave, RowsOnly
<1>4. PICK x \in SignCallRecord :
        /\ signCall' = [signCall EXCEPT ![c] = x]
        /\ x.pc = pc /\ x.req = r /\ x.approvals = s
        /\ signAnswer' = signAnswer
  <2>1. pc \in SignPc
    BY DEF SignPc
  <2> QED
    BY <1>1, <1>3, <2>1, GotoCall
<1>5. SigningTypes' /\ Grows(signReq, signAudit, signSpend, signReq', signAudit', signSpend')
  BY <1>3, <1>4 DEF SigningInv, SigningTypes, Grows
<1>6. RowSound(row, r, signReq', signAudit', signSpend')
  BY <1>1, <1>2, <1>3 DEF RowSound
<1>7. CallSound(x, signReq', signAudit', signSpend')
  BY <1>1, <1>2, <1>3, <1>4 DEF CallSound
<1> HIDE DEF row, r
<1>8. \A t \in SignRequests : signRow'[t] = signRow[t] \/ (t = r /\ signRow'[t] = row)
  BY <1>3 DEF SigningInv, SigningTypes
<1>9. \A d \in SignCalls : signCall'[d] = signCall[d] \/ signCall'[d] = x
  BY <1>4 DEF SigningInv, SigningTypes
<1> QED
  BY <1>3, <1>4, <1>5, <1>6, <1>7, <1>8, <1>9, StepSound

\* The key is used: the list is long enough, its users differ, and the log
\* has each of them.
LEMMA BackendSignInv ==
  ASSUME SigningInv, NEW c \in SignCalls, BackendSign(c)
  PROVE  SigningInv'
<1> DEFINE r == signCall[c].req
           s == signCall[c].approvals
<1>1. /\ signCall[c].pc = "sign" /\ r \in SignRequests /\ s \in Seq(Operators)
      /\ signReq[r] # NoRequest /\ Distinct(s) /\ Backed(s, r, signAudit, {})
  BY CallUnderWay DEF BackendSign
<1>2. Len(s) >= requiredApprovals
  <2>1. CallSound(signCall[c], signReq, signAudit, signSpend) /\ signCall[c] # IdleSignCall
    BY <1>1 DEF SigningInv, IdleSignCall
  <2> QED
    BY <1>1, <2>1 DEF CallSound
<1>3. UNCHANGED <<signReq, signRow, signSpend, signKey, signMapped>>
  BY DEF BackendSign, RowsOnly
<1>4. \/ signAudit' = signAudit \cup {<<r, "key_used">>} /\ Goto(c, "record")
      \/ signAudit' = signAudit /\ Goto(c, "signFailed")
  BY AuditKeeps DEF BackendSign
<1>5. PICK pc \in {"record", "signFailed"} :
        /\ Goto(c, pc)
        /\ signAudit' = IF pc = "record" THEN signAudit \cup {<<r, "key_used">>} ELSE signAudit
  BY <1>4
<1>6. PICK x \in SignCallRecord :
        /\ signCall' = [signCall EXCEPT ![c] = x]
        /\ x.pc = pc /\ x.req = r /\ x.approvals = s
        /\ signAnswer' = signAnswer
  <2>1. pc \in SignPc
    BY DEF SignPc
  <2> QED
    BY <1>1, <1>5, <2>1, GotoCall
<1> HIDE DEF r, s
<1>7. SigningTypes' /\ Grows(signReq, signAudit, signSpend, signReq', signAudit', signSpend')
  BY <1>3, <1>5, <1>6 DEF SigningInv, SigningTypes, Grows
<1>8. Backed(s, r, signAudit', {})
  BY <1>1, <1>7 DEF Backed, Approvers, Grows
<1>9. QuorumSound(signAudit', r)
  <2> SUFFICES ASSUME requiredApprovals > 1
               PROVE  Cardinality(Approvers(signAudit', r)) >= requiredApprovals
    BY DEF QuorumSound
  <2>1. \A i \in 1..Len(s) : s[i] \in Approvers(signAudit', r)
    BY <1>8 DEF Backed
  <2>2. Approvers(signAudit', r) \subseteq Operators
    BY DEF Approvers
  <2>3. /\ Len(s) <= Cardinality(Approvers(signAudit', r)) /\ Len(s) \in Nat
        /\ Cardinality(Approvers(signAudit', r)) \in Nat
    BY <1>1, <2>1, <2>2, DistinctBound
  <2> QED
    BY <1>2, <2>3, SigningConstants DEF SigningConstants
<1>10. CallSound(x, signReq', signAudit', signSpend')
  <2>1. pc = "record" => KeyUsed(signAudit', r)
    BY <1>5 DEF KeyUsed
  <2> QED
    BY <1>1, <1>2, <1>3, <1>6, <1>8, <2>1 DEF CallSound
<1>11. \A d \in SignCalls : signCall'[d] = signCall[d] \/ signCall'[d] = x
  BY <1>6 DEF SigningInv, SigningTypes
<1>12. \A e \in signAudit' : e \in signAudit \/ EntrySound(e, signReq')
  BY <1>1, <1>3, <1>5 DEF EntrySound
<1>13. \A t \in SignRequests : KeyUsed(signAudit', t) => KeyUsed(signAudit, t) \/ t = r
  BY <1>5 DEF KeyUsed
<1> QED
  BY <1>3, <1>6, <1>7, <1>9, <1>10, <1>11, <1>12, <1>13, StepSound

\* The spend entry is written after the key was used and before the row.
LEMMA RecordSpendInv ==
  ASSUME SigningInv, NEW c \in SignCalls, RecordSpend(c)
  PROVE  SigningInv'
<1> DEFINE r == signCall[c].req
           s == signCall[c].approvals
<1>1. /\ signCall[c].pc = "record" /\ r \in SignRequests /\ s \in Seq(Operators)
      /\ signReq[r] # NoRequest /\ Distinct(s) /\ Backed(s, r, signAudit, {})
  BY CallUnderWay DEF RecordSpend
<1>2. Len(s) >= requiredApprovals /\ KeyUsed(signAudit, r)
  <2>1. CallSound(signCall[c], signReq, signAudit, signSpend) /\ signCall[c] # IdleSignCall
    BY <1>1 DEF SigningInv, IdleSignCall
  <2> QED
    BY <1>1, <2>1 DEF CallSound
<1>3. /\ UNCHANGED <<signReq, signRow, signAudit, signKey, signMapped>>
      /\ signSpend' = [signSpend EXCEPT ![r] = @ + 1] /\ Goto(c, "saveSigned")
  BY DEF RecordSpend, SpendTrackerRecord, RowsOnly
<1>4. PICK x \in SignCallRecord :
        /\ signCall' = [signCall EXCEPT ![c] = x]
        /\ x.pc = "saveSigned" /\ x.req = r /\ x.approvals = s
        /\ signAnswer' = signAnswer
  <2>1. "saveSigned" \in SignPc
    BY DEF SignPc
  <2> QED
    BY <1>1, <1>3, <2>1, GotoCall
<1> HIDE DEF r, s
<1>5. /\ signSpend' \in [SignRequests -> Nat] /\ signSpend'[r] > 0
      /\ \A t \in SignRequests : signSpend'[t] >= signSpend[t] /\ signSpend[t] \in Nat
  BY <1>1, <1>3 DEF SigningInv, SigningTypes
<1>6. SigningTypes' /\ Grows(signReq, signAudit, signSpend, signReq', signAudit', signSpend')
  BY <1>3, <1>4, <1>5 DEF SigningInv, SigningTypes, Grows
<1>7. CallSound(x, signReq', signAudit', signSpend')
  BY <1>1, <1>2, <1>3, <1>4, <1>5 DEF CallSound
<1>8. \A d \in SignCalls : signCall'[d] = signCall[d] \/ signCall'[d] = x
  BY <1>4 DEF SigningInv, SigningTypes
<1> QED
  BY <1>3, <1>4, <1>6, <1>7, <1>8, StepSound

\* SIGNED is answered when key, spend and row are all written.
LEMMA AuditSignedInv ==
  ASSUME SigningInv, NEW c \in SignCalls, AuditSigned(c)
  PROVE  SigningInv'
<1> DEFINE r == signCall[c].req
<1>1. signCall[c].pc = "auditSigned" /\ r \in SignRequests
  BY CallUnderWay DEF AuditSigned
<1>2. signSpend[r] > 0 /\ KeyUsed(signAudit, r)
  <2>1. CallSound(signCall[c], signReq, signAudit, signSpend) /\ signCall[c] # IdleSignCall
    BY <1>1 DEF SigningInv, IdleSignCall
  <2> QED
    BY <1>1, <2>1 DEF CallSound
<1>3. signAudit' = signAudit
  BY AuditKeeps DEF AuditSigned
<1>4. /\ signCall' = [signCall EXCEPT ![c] = IdleSignCall] /\ signAnswer' = <<r, "SIGNED">>
      /\ UNCHANGED <<signReq, signRow, signSpend, signKey, signMapped>>
  BY DEF AuditSigned, Answer, RowsOnly
<1> HIDE DEF r
<1>5. SigningTypes' /\ Grows(signReq, signAudit, signSpend, signReq', signAudit', signSpend')
  BY <1>3, <1>4 DEF SigningInv, SigningTypes, Grows
<1>6. \A d \in SignCalls : \/ signCall'[d] = signCall[d]
                           \/ CallSound(signCall'[d], signReq', signAudit', signSpend')
  BY <1>4 DEF SigningInv, SigningTypes, CallSound
<1>7. \A t \in SignRequests : signAnswer' = <<t, "SIGNED">> => t = r
  BY <1>4
<1> QED
  BY <1>2, <1>3, <1>4, <1>5, <1>6, <1>7, StepSound

\* A statement of finalizeAndSign fails: what was written stays written.
LEMMA SignStatementFailsInv ==
  ASSUME SigningInv, NEW c \in SignCalls, SignStatementFails(c)
  PROVE  SigningInv'
<1> DEFINE r == signCall[c].req
           s == signCall[c].approvals
<1>1. /\ r \in SignRequests /\ signReq[r] # NoRequest
      /\ Distinct(s) /\ Backed(s, r, signAudit, {}) /\ signCall[c].pc # "idle"
  BY CallUnderWay DEF SignStatementFails
<1>2. /\ UNCHANGED <<signReq, signRow, signSpend, signAudit, signKey, signMapped>>
      /\ Goto(c, "signFailed")
  BY DEF SignStatementFails, RowsOnly
<1>3. PICK x \in SignCallRecord :
        /\ signCall' = [signCall EXCEPT ![c] = x]
        /\ x.pc = "signFailed" /\ x.req = r /\ x.approvals = s
        /\ signAnswer' = signAnswer
  <2>1. "signFailed" \in SignPc
    BY DEF SignPc
  <2> QED
    BY <1>1, <1>2, <2>1, GotoCall
<1>4. SigningTypes' /\ Grows(signReq, signAudit, signSpend, signReq', signAudit', signSpend')
  BY <1>2, <1>3 DEF SigningInv, SigningTypes, Grows
<1>5. CallSound(x, signReq', signAudit', signSpend')
  BY <1>1, <1>2, <1>3 DEF CallSound
<1>6. \A d \in SignCalls : signCall'[d] = signCall[d] \/ signCall'[d] = x
  BY <1>3 DEF SigningInv, SigningTypes
<1> QED
  BY <1>2, <1>3, <1>4, <1>5, <1>6, StepSound

\* The key ceremony and a crash touch neither rows nor log.
LEMMA KeysAndCrashInv ==
  ASSUME SigningInv, KeyCeremony \/ SigningCrash
  PROVE  SigningInv'
<1>1. /\ UNCHANGED <<signReq, signRow, signSpend, signAudit, signAnswer>>
      /\ signMapped' \in KeyIds \cup {NoKey}
      /\ \/ UNCHANGED signCall
         \/ signCall' = [c \in SignCalls |-> IdleSignCall]
  BY DEF KeyCeremony, SigningCrash, GenerateKey, RotateKey, MapKey, KeysOnly,
         SigningInv, SigningTypes
<1>2. SigningTypes' /\ Grows(signReq, signAudit, signSpend, signReq', signAudit', signSpend')
  BY <1>1 DEF SigningInv, SigningTypes, Grows
<1>3. \A c \in SignCalls : \/ signCall'[c] = signCall[c]
                           \/ CallSound(signCall'[c], signReq', signAudit', signSpend')
  BY <1>1 DEF CallSound
<1> QED
  BY <1>1, <1>2, <1>3, StepSound

\* The invariant is inductive.
LEMMA SigningStepInv == SigningInv /\ [SigningNext]_signingVars => SigningInv'
<1> SUFFICES ASSUME SigningInv, [SigningNext]_signingVars PROVE SigningInv'
  OBVIOUS
<1>1. CASE UNCHANGED signingVars
  BY <1>1 DEF signingVars, SigningInv, SigningTypes
<1>2. ASSUME NEW c \in SignCalls, SigningRoutes(c) PROVE SigningInv'
  BY <1>2, SubmitInv, ApproveInv, RejectInv, RefusedInv DEF SigningRoutes, SubmitRoute
<1>3. ASSUME NEW c \in SignCalls, SigningStep(c) PROVE SigningInv'
  BY <1>3, AuditApprovedInv, AssertWithinCeilingsInv, EndingsInv, SavePendingInv, SaveDecidedInv,
     BackendSignInv, RecordSpendInv, AuditSignedInv, SignStatementFailsInv DEF SigningStep
<1> QED
  BY <1>1, <1>2, <1>3, KeysAndCrashInv DEF SigningNext

-----------------------------------------------------------------------------
(* The theorems.                                                           *)

\* The log, as the properties read it.
LEMMA LogOfRequest ==
  ASSUME SigningInv, NEW r \in SignRequests
  PROVE  /\ ApproversOf(r) = Approvers(signAudit, r)
         /\ KeyUsedFor(r) <=> KeyUsed(signAudit, r)
<1>1. \A e \in signAudit : EntrySound(e, signReq)
  BY DEF SigningInv
<1>2. \A e \in signAudit : e[1] = r /\ e[2] = "approved" =>
        e[3] \in Operators /\ e = <<r, "approved", e[3]>>
  BY <1>1 DEF EntrySound
<1>3. \A e \in signAudit : e[1] = r /\ e[2] = "key_used" => e = <<r, "key_used">>
  BY <1>1 DEF EntrySound
<1>4. ApproversOf(r) \subseteq Approvers(signAudit, r)
  BY <1>2 DEF ApproversOf, Approvers
<1>5. Approvers(signAudit, r) \subseteq ApproversOf(r)
  BY DEF ApproversOf, Approvers
<1> QED
  BY <1>3, <1>4, <1>5 DEF KeyUsedFor, KeyUsed

\* The quorum behind every use of a key.
LEMMA SigningInvQuorum == SigningInv => SignatureHasQuorum
<1> SUFFICES ASSUME SigningInv, NEW r \in SignRequests,
                    KeyUsedFor(r), SigningPolicy.requiredApprovals > 1
             PROVE  /\ Cardinality(ApproversOf(r)) >= SigningPolicy.requiredApprovals
                    /\ signReq[r].requestedBy \notin ApproversOf(r)
  BY DEF SignatureHasQuorum
<1>1. ApproversOf(r) = Approvers(signAudit, r) /\ KeyUsed(signAudit, r)
  BY LogOfRequest
<1>2. Cardinality(ApproversOf(r)) >= SigningPolicy.requiredApprovals
  BY <1>1 DEF SigningInv, QuorumSound, SigningPolicy
<1>3. \A u \in Approvers(signAudit, r) : u # signReq[r].requestedBy
  BY DEF SigningInv, Approvers, EntrySound
<1> QED
  BY <1>1, <1>2, <1>3

\* What SIGNED stands for.
LEMMA SigningInvAccounted == SigningInv => SignedIsAccounted
BY LogOfRequest DEF SignedIsAccounted, SigningInv, RowSound

\* The types.
LEMMA SigningInvTypes == SigningInv => SigningTypeOK
<1> SUFFICES ASSUME SigningInv PROVE SigningTypeOK
  OBVIOUS
<1>1. ASSUME NEW r \in SignRequests, signRow[r] # NoRequest
      PROVE  signRow[r] \in PendingSigningRequest
  <2> DEFINE s == signRow[r].approvals
             lists == UNION {[1..n -> Operators] : n \in 0..Cardinality(Operators)}
  <2>1. /\ signRow[r] \in [status : {"PENDING_APPROVAL", "SIGNED", "REJECTED"}, approvals : Seq(Operators)]
        /\ Distinct(s)
    BY <1>1 DEF SigningInv, RowSound
  <2>2. s \in Seq(Operators) /\ s \in [1..Len(s) -> Operators]
    BY <2>1
  <2>3. Len(s) \in Nat /\ Len(s) <= Cardinality(Operators) /\ Cardinality(Operators) \in Nat
    BY <2>1, <2>2, DistinctBound
  <2>4. s \in lists
    BY <2>2, <2>3
  <2> HIDE DEF lists
  <2>5. signRow[r] \in [status : {"PENDING_APPROVAL", "SIGNED", "REJECTED"}, approvals : lists]
    BY <2>1, <2>4
  <2> QED
    BY <2>5 DEF PendingSigningRequest, lists
<1>2. \A e \in signAudit : e[2] \in SigningAuditEventType
  BY DEF SigningInv, EntrySound, SigningAuditEventType
<1> QED
  BY <1>1, <1>2 DEF SigningTypeOK, SigningInv, SigningTypes

\* Whatever approvals, rejections and failures of any number of calls
\* interleave, and whatever updates are lost, a key is used only for a
\* request that enough different users other than the requester approved
\* (PolicyEnforcingSigningService.approve and finalizeAndSign).
THEOREM NoSignatureBelowQuorum ==
  SigningInit /\ [][SigningNext]_signingVars => []SignatureHasQuorum
BY SigningInitInv, SigningStepInv, SigningInvQuorum, PTL

\* SIGNED, in a row or an answer, means that the spend entry and the key's
\* audit row are there, wherever finalizeAndSign stopped.
THEOREM SignedMeansAccounted ==
  SigningInit /\ [][SigningNext]_signingVars => [](SigningTypeOK /\ SignedIsAccounted)
BY SigningInitInv, SigningStepInv, SigningInvAccounted, SigningInvTypes, PTL
=============================================================================
