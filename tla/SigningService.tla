--------------------------- MODULE SigningService ----------------------------
(***************************************************************************)
(* Custodial signing: PolicyEnforcingSigningService (packages/signing) on  *)
(* the Prisma stores of apps/api/src/signing, behind the operators' API.   *)
(*                                                                         *)
(* None of submit, approve and reject runs in a database transaction:      *)
(* every await is a step of its own, so a call keeps what it read (the     *)
(* `approvals` field of its record) while other calls run.  The ceilings   *)
(* are kept per merchant and network; the model has one such pair.         *)
(***************************************************************************)
EXTENDS Naturals, Sequences, FiniteSets, Functions

CONSTANTS
  SignRequests,    \* signing requests that may be submitted
  Operators,       \* platform users holding SIGNING_DECIDE
  Requesters,      \* those of them who submit requests
  SignCalls,       \* API calls in flight
  KeyIds,          \* handles of HSM keys
  NewKeyIds,       \* those of them that rotation makes up
  NoKey, NoRequest,
  HsmBackend,      \* config.signingBackend = 'emulated-hsm-staging'
  SignAmounts, maxAmountPerTx, maxAmountPerWindow,
  windowSeconds, requiredApprovals,
  MaxSignClock     \* bound on the times of requests

ASSUME SigningConstants ==
  /\ NoKey \notin KeyIds /\ NewKeyIds \subseteq KeyIds
  /\ IsFiniteSet(Operators) /\ Requesters \subseteq Operators
  /\ HsmBackend \in BOOLEAN
  /\ SignAmounts \subseteq Nat
  /\ maxAmountPerTx \in Nat /\ maxAmountPerWindow \in Nat
  /\ windowSeconds \in Nat \ {0}
  /\ requiredApprovals \in Nat
  /\ MaxSignClock \in Nat

VARIABLES
  signReq,     \* the SigningRequest object of each submitted request
  signRow,     \* signing_approval_requests
  signSpend,   \* signing_spend_entries: entries recorded for each request
  signAudit,   \* audit_logs: <<request, event type>>, with the actor of an approval
  signKey, signMapped,  \* the HSM's keys; the key the wallet is mapped to
  signCall,    \* API calls in flight
  signAnswer   \* the latest answer: <<request, answer>>, until the next request

signingVars == <<signReq, signRow, signSpend, signAudit, signKey,
                 signMapped, signCall, signAnswer>>

-----------------------------------------------------------------------------
(* The request, the policy and the errors.                                 *)

\* One destination on the allowlist and one that is not.
SignDestinations == {"allowed", "other"}

SigningPolicy ==
  [allowedDestinations |-> {"allowed"},
   maxAmountPerTx      |-> maxAmountPerTx,
   maxAmountPerWindow  |-> maxAmountPerWindow,
   windowSeconds       |-> windowSeconds,
   requiredApprovals   |-> requiredApprovals]

SigningRequest ==
  [toAddress : SignDestinations, amount : SignAmounts,
   requestedBy : Requesters, requestedAt : 0..MaxSignClock]

\* The mark of an absent row is no request.
ASSUME NoRequestConstant == NoRequest \notin SigningRequest

\* What the DTO lets through: any destination, any non-negative amount.
SubmitSigningRequestDto == [to_address : SignDestinations, amount : SignAmounts]

SigningError ==
  {"DestinationNotAllowed", "AmountCeilingExceeded", "SelfApproval", "UnknownSigningRequest",
   "AlreadyDecided", "SigningNotConfigured", "NoKeyMapped", "KeyNotFound"}

\* withTranslatedErrors: the answer each error of the package becomes.
TranslatedError ==
  [e \in SigningError |->
     CASE e = "DestinationNotAllowed" -> "validation"
       [] e = "AmountCeilingExceeded" -> "signing_ceiling_exceeded"
       [] e = "SelfApproval"          -> "forbidden"
       [] e = "UnknownSigningRequest" -> "not_found"
       [] e = "AlreadyDecided"        -> "conflict"
       [] OTHER                       -> "signing_not_configured"]

PendingSigningRequest ==
  [status : {"PENDING_APPROVAL", "SIGNED", "REJECTED"},
   approvals : UNION {[1..n -> Operators] : n \in 0..Cardinality(Operators)}]

IdleSignCall == [pc |-> "idle"]

SigningInit ==
  /\ signReq = [r \in SignRequests |-> NoRequest]
  /\ signRow = [r \in SignRequests |-> NoRequest]
  /\ signSpend = [r \in SignRequests |-> 0]
  /\ signAudit = {}
  \* new EmulatedHsmKeyStore(), new StaticKeyMapping(): no key, no mapping
  /\ signKey = [k \in KeyIds |-> "absent"]
  /\ signMapped = NoKey
  /\ signCall = [c \in SignCalls |-> IdleSignCall]
  /\ signAnswer = <<>>

-----------------------------------------------------------------------------
(* The stores.                                                             *)

\* PrismaApprovalStore.save: an upsert of the whole row, unconditionally.
ApprovalStoreSave(r, rowStatus, approvals) ==
  signRow' = [signRow EXCEPT ![r] = [status |-> rowStatus, approvals |-> approvals]]

\* PrismaApprovalStore.get and toDomain.
ApprovalStoreGet(r) == signRow[r]

\* PrismaSpendTracker.windowTotal: entries in the window that ends when the
\* request was made.
windowTotal(r) ==
  LET asOf == signReq[r].requestedAt
      seen == {q \in SignRequests :
                 /\ signSpend[q] > 0
                 /\ signReq[q].requestedAt + SigningPolicy.windowSeconds > asOf
                 /\ signReq[q].requestedAt <= asOf}
  IN SumFunctionOnSet([q \in SignRequests |->
                         IF q \in seen THEN signSpend[q] * signReq[q].amount ELSE 0], SignRequests)

\* (Mutant: the entry is never written.)
spendForgotten(r) == UNCHANGED signSpend
SpendTrackerRecord(r) == signSpend' = [signSpend EXCEPT ![r] = @ + 1]

SigningAuditEventType ==
  {"submitted", "approved", "rejected", "signed", "validation_failed", "sign_failed", "key_used"}

\* MetricsRecordingSigningAuditTrail over PrismaSigningAuditTrail; only the
\* approvals and the uses of a key are kept, nothing reads the other rows.
AuditTrailRecord(events) ==
  signAudit' = signAudit \cup {e \in events : e[2] \in {"approved", "key_used"}}

\* The events are told apart by actor only where a property needs it.
SignEvent(r, type, actor) == IF type = "approved" THEN <<r, type, actor>> ELSE <<r, type>>

\* toAdminSigningResponse, or the translated error.
Answer(c, answer) ==
  /\ signCall' = [signCall EXCEPT ![c] = IdleSignCall]
  /\ signAnswer' = <<signCall[c].req, answer>>

Goto(c, pc) == signCall' = [signCall EXCEPT ![c].pc = pc] /\ UNCHANGED signAnswer

-----------------------------------------------------------------------------
(* The HSM (EmulatedHsmKeyStore, StaticKeyMapping, HsmBackedSigningBackend)*)
(* Nothing in the application generates or maps a key: the key ceremony is *)
(* the package's own interface, and a process starts without any key.      *)

KeysOnly == UNCHANGED <<signReq, signRow, signSpend, signAudit, signCall, signAnswer>>

GenerateKey(k) ==
  /\ k \notin NewKeyIds
  /\ signKey' = [signKey EXCEPT ![k] = "active"]
  /\ UNCHANGED signMapped /\ KeysOnly

\* The new handle carries the time, so it is one never used before; the
\* mapping still names the old key.
RotateKey(old, new) ==
  /\ signKey[old] # "absent" /\ signKey[new] = "absent" /\ new \in NewKeyIds
  /\ signKey' = [signKey EXCEPT ![old] = "retired", ![new] = "active"]
  /\ UNCHANGED signMapped /\ KeysOnly

\* StaticKeyMapping.set; the handle of a key there is (any other is refused
\* when it is used, like a retired one).
MapKey(k) ==
  /\ signKey[k] # "absent"
  /\ signMapped' = k
  /\ UNCHANGED signKey /\ KeysOnly

resolveKeyId == signMapped

\* EmulatedHsmKeyStore.sign: an unknown or a retired key does not sign.
KeyError(k) == IF signKey[k] = "active" THEN "none" ELSE "KeyNotFound"

DisabledError == "SigningNotConfigured"

\* The error the configured backend's sign throws, or "none".
BackendError ==
  IF ~HsmBackend THEN DisabledError
  ELSE IF resolveKeyId = NoKey THEN "NoKeyMapped" ELSE KeyError(resolveKeyId)

-----------------------------------------------------------------------------
(* submit, approve, reject: the first steps.                               *)

RowsOnly == UNCHANGED <<signReq, signKey, signMapped>>

\* Times at which a request may come after the ones there are.
TimesFrom == {t \in 0..MaxSignClock :
                \A q \in SignRequests : signReq[q] # NoRequest => signReq[q].requestedAt <= t}

\* submit up to the first database read: the audit event, then the two
\* checks that read nothing.
Submit(c, r, u, dto, now) ==
  /\ signCall[c].pc = "idle" /\ signReq[r] = NoRequest
  /\ signReq' = [signReq EXCEPT ![r] =
        [toAddress |-> dto.to_address, amount |-> dto.amount,
         requestedBy |-> u, requestedAt |-> now]]
  /\ AuditTrailRecord({SignEvent(r, "submitted", u)})
  /\ signCall' = [signCall EXCEPT ![c] =
        [pc |-> IF dto.to_address \in SigningPolicy.allowedDestinations THEN "ceilings" ELSE "refuse",
         op |-> "submit", req |-> r, actor |-> u,
         approvals |-> IF SigningPolicy.requiredApprovals <= 1 THEN <<u>> ELSE <<>>]]
  /\ signAnswer' = <<>>
  /\ UNCHANGED <<signRow, signSpend, signKey, signMapped>>

\* What approve and reject answer at once, from the row they read.
DecisionError(r, u, op) ==
  LET row == ApprovalStoreGet(r) IN
  CASE row = NoRequest -> "UnknownSigningRequest"
    [] row # NoRequest /\ row.status # "PENDING_APPROVAL" -> "AlreadyDecided"
    [] row # NoRequest /\ row.status = "PENDING_APPROVAL"
       /\ op = "approve" /\ signReq[r].requestedBy = u -> "SelfApproval"
    [] OTHER -> "none"

Refused(r, u, op) ==
  /\ DecisionError(r, u, op) # "none"
  /\ signAnswer' = <<r, TranslatedError[DecisionError(r, u, op)]>>
  /\ UNCHANGED <<signRow, signSpend, signAudit, signCall>> /\ RowsOnly

\* (Mutant: whoever approved before is not looked for.)
approvalsIgnored(r, u) == FALSE
AlreadyApproved(r, u) ==
  \E i \in DOMAIN signRow[r].approvals : signRow[r].approvals[i] = u

\* approve: read the row; a second approval by the same user is a no-op.
Approve(c, r, u) ==
  /\ signCall[c].pc = "idle"
  /\ DecisionError(r, u, "approve") = "none"
  /\ ~AlreadyApproved(r, u)
  /\ signCall' = [signCall EXCEPT ![c] =
        [pc |-> "audit", op |-> "approve", req |-> r, actor |-> u,
         approvals |-> Append(signRow[r].approvals, u)]]
  /\ signAnswer' = <<>>
  /\ UNCHANGED <<signRow, signSpend, signAudit>> /\ RowsOnly

AuditApproved(c) ==
  /\ signCall[c].pc = "audit"
  /\ AuditTrailRecord({SignEvent(signCall[c].req, "approved", signCall[c].actor)})
  /\ Goto(c, IF Len(signCall[c].approvals) >= SigningPolicy.requiredApprovals
             THEN "ceilings" ELSE "save")
  /\ UNCHANGED <<signRow, signSpend>> /\ RowsOnly

\* reject: read the row, keep its approvals.
Reject(c, r, u) ==
  /\ signCall[c].pc = "idle"
  /\ DecisionError(r, u, "reject") = "none"
  /\ signCall' = [signCall EXCEPT ![c] =
        [pc |-> "saveRejected", op |-> "reject", req |-> r, actor |-> u,
         approvals |-> signRow[r].approvals]]
  /\ signAnswer' = <<>>
  /\ UNCHANGED <<signRow, signSpend, signAudit>> /\ RowsOnly

-----------------------------------------------------------------------------
(* The awaits that follow.                                                 *)

WithinCeilings(r) ==
  /\ signReq[r].amount <= SigningPolicy.maxAmountPerTx
  /\ windowTotal(r) + signReq[r].amount <= SigningPolicy.maxAmountPerWindow

\* assertWithinCeilings, then where the caller goes next.
AssertWithinCeilings(c) ==
  LET r == signCall[c].req IN
  /\ signCall[c].pc = "ceilings"
  /\ Goto(c, IF ~WithinCeilings(r) THEN "refuse"
             ELSE IF Len(signCall[c].approvals) >= SigningPolicy.requiredApprovals
             THEN "sign" ELSE "save")
  /\ UNCHANGED <<signRow, signSpend, signAudit>> /\ RowsOnly

\* auditValidationFailure and the rethrow.
AuditValidationFailure(c) ==
  LET r == signCall[c].req IN
  /\ signCall[c].pc = "refuse"
  /\ AuditTrailRecord({SignEvent(r, "validation_failed", signCall[c].actor)})
  /\ Answer(c, IF signReq[r].toAddress \in SigningPolicy.allowedDestinations
               THEN TranslatedError.AmountCeilingExceeded
               ELSE TranslatedError.DestinationNotAllowed)
  /\ UNCHANGED <<signRow, signSpend>> /\ RowsOnly

\* submit and approve below the quorum: the row is written from what was read.
SavePending(c) ==
  /\ signCall[c].pc = "save"
  /\ ApprovalStoreSave(signCall[c].req, "PENDING_APPROVAL", signCall[c].approvals)
  /\ Answer(c, "PENDING_APPROVAL")
  /\ UNCHANGED <<signSpend, signAudit>> /\ RowsOnly

SaveRejected(c) ==
  /\ signCall[c].pc = "saveRejected"
  /\ ApprovalStoreSave(signCall[c].req, "REJECTED", signCall[c].approvals)
  /\ Goto(c, "auditRejected")
  /\ UNCHANGED <<signSpend, signAudit>> /\ RowsOnly

AuditRejected(c) ==
  /\ signCall[c].pc = "auditRejected"
  /\ AuditTrailRecord({SignEvent(signCall[c].req, "rejected", signCall[c].actor)})
  /\ Answer(c, "REJECTED")
  /\ UNCHANGED <<signRow, signSpend>> /\ RowsOnly

\* finalizeAndSign: backend.sign with its own audit event ...
BackendSign(c) ==
  LET r == signCall[c].req IN
  /\ signCall[c].pc = "sign"
  /\ CASE BackendError = "none" ->
            AuditTrailRecord({SignEvent(r, "key_used", resolveKeyId)}) /\ Goto(c, "record")
       [] BackendError = "KeyNotFound" ->
            AuditTrailRecord({SignEvent(r, "sign_failed", resolveKeyId)}) /\ Goto(c, "signFailed")
       [] OTHER ->
            Goto(c, "signFailed") /\ UNCHANGED signAudit
  /\ UNCHANGED <<signRow, signSpend>> /\ RowsOnly

\* ... then the spend entry, the row and the `signed` event, in this order.
RecordSpend(c) ==
  /\ signCall[c].pc = "record"
  /\ SpendTrackerRecord(signCall[c].req)
  /\ Goto(c, "saveSigned")
  /\ UNCHANGED <<signRow, signAudit>> /\ RowsOnly

SaveSigned(c) ==
  /\ signCall[c].pc = "saveSigned"
  /\ ApprovalStoreSave(signCall[c].req, "SIGNED", signCall[c].approvals)
  /\ Goto(c, "auditSigned")
  /\ UNCHANGED <<signSpend, signAudit>> /\ RowsOnly

AuditSigned(c) ==
  LET r == signCall[c].req IN
  /\ signCall[c].pc = "auditSigned"
  /\ AuditTrailRecord({SignEvent(r, "signed", signReq[r].requestedBy)})
  /\ Answer(c, "SIGNED")
  /\ UNCHANGED <<signRow, signSpend>> /\ RowsOnly

\* A statement of finalizeAndSign's try block fails, the signature's own or
\* one after it.
SignStatementFails(c) ==
  /\ signCall[c].pc \in {"sign", "record", "saveSigned", "auditSigned"}
  /\ Goto(c, "signFailed")
  /\ UNCHANGED <<signRow, signSpend, signAudit>> /\ RowsOnly

\* The catch block of finalizeAndSign.
AuditSignFailed(c) ==
  LET r == signCall[c].req IN
  /\ signCall[c].pc = "signFailed"
  /\ AuditTrailRecord({SignEvent(r, "sign_failed", signReq[r].requestedBy)})
  /\ Answer(c, "error")
  /\ UNCHANGED <<signRow, signSpend>> /\ RowsOnly

\* The API process dies: calls vanish, and the emulated HSM's keys with them.
SigningCrash ==
  /\ \E c \in SignCalls : signCall[c].pc # "idle"
  /\ signCall' = [c \in SignCalls |-> IdleSignCall]
  /\ signKey' = [k \in KeyIds |-> "absent"]
  /\ signMapped' = NoKey
  /\ UNCHANGED <<signReq, signRow, signSpend, signAudit, signAnswer>>

\* AdminSigningService.submit: the request gets its id, requester and time.
SubmitRoute(c) ==
  \E r \in SignRequests, u \in Requesters, dto \in SubmitSigningRequestDto, now \in TimesFrom :
    Submit(c, r, u, dto, now)

\* The routes of AdminSigningController.
SigningRoutes(c) ==
  \/ SubmitRoute(c)
  \/ \E r \in SignRequests, u \in Operators :
    \/ Approve(c, r, u)
    \/ Reject(c, r, u)
    \/ \E op \in {"approve", "reject"} : signCall[c].pc = "idle" /\ Refused(r, u, op)

SigningStep(c) ==
  \/ AuditApproved(c) \/ AssertWithinCeilings(c) \/ AuditValidationFailure(c)
  \/ SavePending(c) \/ SaveRejected(c) \/ AuditRejected(c)
  \/ BackendSign(c) \/ RecordSpend(c) \/ SaveSigned(c) \/ AuditSigned(c)
  \/ SignStatementFails(c) \/ AuditSignFailed(c)

KeyCeremony ==
  \E k \in KeyIds : GenerateKey(k) \/ MapKey(k) \/ \E n \in KeyIds : RotateKey(k, n)

SigningNext ==
  \/ \E c \in SignCalls : SigningRoutes(c) \/ SigningStep(c)
  \/ KeyCeremony \/ SigningCrash

SigningSpec == SigningInit /\ [][SigningNext]_signingVars

-----------------------------------------------------------------------------

SigningTypeOK ==
  /\ signReq \in [SignRequests -> SigningRequest \cup {NoRequest}]
  /\ signSpend \in [SignRequests -> Nat]
  /\ \A r \in SignRequests : signRow[r] # NoRequest => signRow[r] \in PendingSigningRequest
  /\ signMapped \in KeyIds \cup {NoKey}
  /\ \A e \in signAudit : e[2] \in SigningAuditEventType

\* The users whose approval of a request is in the audit log.
ApproversOf(r) == {e[3] : e \in {x \in signAudit : x[1] = r /\ x[2] = "approved"}}

KeyUsedFor(r) == \E e \in signAudit : e[1] = r /\ e[2] = "key_used"

\* A key is used for a request only after the required number of different
\* users, none of them the requester, have approved it, however approvals
\* and rejections of the request interleave and whatever updates are lost
\* (policy-signing-service.ts approve, "distinct approvers").
SignatureHasQuorum ==
  \A r \in SignRequests :
    KeyUsedFor(r) /\ SigningPolicy.requiredApprovals > 1 =>
      /\ Cardinality(ApproversOf(r)) >= SigningPolicy.requiredApprovals
      /\ signReq[r].requestedBy \notin ApproversOf(r)

\* Whoever reads SIGNED, in the row or in an answer, can rely on the spend
\* being on the books and on the key's use being in the audit log, although
\* the four statements of finalizeAndSign can stop after any of them.
SignedIsAccounted ==
  \A r \in SignRequests :
    \/ signRow[r] # NoRequest /\ signRow[r].status = "SIGNED"
    \/ signAnswer = <<r, "SIGNED">>
    => signSpend[r] > 0 /\ KeyUsedFor(r)

\* The rolling ceiling: in no window of `windowSeconds` is more recorded as
\* spent than the policy allows.
CeilingRespected ==
  \A t \in 0..MaxSignClock :
    LET within == {q \in SignRequests : /\ signSpend[q] > 0
                                        /\ signReq[q].requestedAt <= t
                                        /\ signReq[q].requestedAt + windowSeconds > t}
    IN SumFunctionOnSet([q \in SignRequests |->
          IF q \in within THEN signSpend[q] * signReq[q].amount ELSE 0], SignRequests)
       <= SigningPolicy.maxAmountPerWindow
=============================================================================
