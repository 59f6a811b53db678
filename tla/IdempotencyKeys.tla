--------------------------- MODULE IdempotencyKeys ---------------------------
(***************************************************************************)
(* IdempotencyService.execute around POST /v1/payment-invoices: retries,   *)
(* concurrent requests with one key, handlers that fail, statements that   *)
(* fail and a process that dies.  Each await is a step.                    *)
(***************************************************************************)
EXTENDS Naturals, FiniteSets

CONSTANTS
  IdemKeys,    \* values of the Idempotency-Key header of one merchant
  IdemBodies,  \* request bodies, by their hash
  IdemCalls,   \* requests in flight
  MaxRuns      \* bound: handler runs started with one key

\* A hash is never the mark of an absent row.
ASSUME IdempotencyConstants == MaxRuns \in Nat \ {0} /\ "none" \notin IdemBodies

VARIABLES
  idemRow,     \* idempotency_keys: "none", or requestHash and the stored response
  idemCall,    \* requests in flight
  idemRuns,    \* handler runs started with each key
  idemEffects, \* invoices created by handlers run with each key
  idemTold,    \* successful answers given for each key: <<body, response>>
  idemFault    \* a process died or a statement of execute failed

idempotencyVars == <<idemRow, idemCall, idemRuns, idemEffects, idemTold, idemFault>>

IdleIdemCall == [pc |-> "idle"]
NoIdemRow == [hash |-> "none", response |-> 0]

IdempotencyInit ==
  /\ idemRow = [k \in IdemKeys |-> NoIdemRow]
  /\ idemCall = [c \in IdemCalls |-> IdleIdemCall]
  /\ idemRuns = [k \in IdemKeys |-> 0]
  /\ idemEffects = [k \in IdemKeys |-> 0]
  /\ idemTold = [k \in IdemKeys |-> {}]
  /\ idemFault = FALSE

IdemGoto(c, call) == idemCall' = [idemCall EXCEPT ![c] = call]

\* A row with response 0 has no completedAt.
Completed(k) == idemRow[k].response # 0
InProgress(k) == idemRow[k] # NoIdemRow /\ ~Completed(k)

-----------------------------------------------------------------------------

\* The lookup: replay, refuse (another body, or in flight) or go on to claim.
LookupKey(c, k, body) ==
  /\ idemCall[c].pc = "idle"
  /\ \/ /\ idemRow[k] = NoIdemRow /\ idemRuns[k] < MaxRuns
        /\ IdemGoto(c, [pc |-> "claim", key |-> k, body |-> body])
        /\ UNCHANGED idemTold
     \/ /\ idemRow[k].hash = body /\ Completed(k)
        /\ idemTold' = [idemTold EXCEPT ![k] = @ \cup {<<body, idemRow[k].response>>}]
        /\ UNCHANGED idemCall
     \/ /\ idemRow[k] # NoIdemRow
        /\ idemRow[k].hash # body \/ ~Completed(k)
        /\ UNCHANGED <<idemTold, idemCall>>
  /\ UNCHANGED <<idemRow, idemRuns, idemEffects, idemFault>>

\* (Mutant: there is no unique index.)
keyAlwaysFree(k) == TRUE
KeyFree(k) == idemRow[k] = NoIdemRow

\* The insert: the unique index lets one of several win.
ClaimKey(c) ==
  LET k == idemCall[c].key IN
  /\ idemCall[c].pc = "claim"
  /\ \/ /\ KeyFree(k) /\ idemRuns[k] < MaxRuns
        /\ idemRow' = [idemRow EXCEPT ![k] = [hash |-> idemCall[c].body, response |-> 0]]
        /\ idemRuns' = [idemRuns EXCEPT ![k] = @ + 1]
        /\ IdemGoto(c, [idemCall[c] EXCEPT !.pc = "handler"])
     \/ /\ ~KeyFree(k) \/ idemRuns[k] = MaxRuns
        /\ IdemGoto(c, IdleIdemCall)
        /\ UNCHANGED <<idemRow, idemRuns>>
  /\ UNCHANGED <<idemEffects, idemTold, idemFault>>

\* handler(): createInvoice commits an invoice, or throws and leaves none.
RunHandler(c) ==
  LET k == idemCall[c].key IN
  /\ idemCall[c].pc = "handler"
  /\ \/ /\ idemEffects' = [idemEffects EXCEPT ![k] = @ + 1]
        /\ IdemGoto(c, [pc |-> "store", key |-> k, body |-> idemCall[c].body,
                        response |-> idemEffects[k] + 1])
     \/ /\ IdemGoto(c, [idemCall[c] EXCEPT !.pc = "release"])
        /\ UNCHANGED idemEffects
  /\ UNCHANGED <<idemRow, idemRuns, idemTold, idemFault>>

\* (Mutant: the row stays.)
keptRow(k) == idemRow
DeletedRow(k) == [idemRow EXCEPT ![k] = NoIdemRow]

\* The handler threw: delete the row so that a retry may try again.
ReleaseKey(c) ==
  /\ idemCall[c].pc = "release"
  /\ idemRow' = DeletedRow(idemCall[c].key)
  /\ IdemGoto(c, IdleIdemCall)
  /\ UNCHANGED <<idemRuns, idemEffects, idemTold, idemFault>>

\* The handler returned: store the response and answer.
StoreResponse(c) ==
  LET k == idemCall[c].key IN
  /\ idemCall[c].pc = "store"
  /\ idemRow' = [idemRow EXCEPT ![k].response = idemCall[c].response]
  /\ idemTold' = [idemTold EXCEPT ![k] = @ \cup {<<idemCall[c].body, idemCall[c].response>>}]
  /\ IdemGoto(c, IdleIdemCall)
  /\ UNCHANGED <<idemRuns, idemEffects, idemFault>>

\* The delete (its failure is ignored) or the final update fails.
ExecuteStatementFails(c) ==
  /\ idemCall[c].pc \in {"release", "store"}
  /\ IdemGoto(c, IdleIdemCall)
  /\ idemFault' = TRUE
  /\ UNCHANGED <<idemRow, idemRuns, idemEffects, idemTold>>

IdempotencyCrash ==
  /\ \E c \in IdemCalls : idemCall[c].pc # "idle"
  /\ idemCall' = [c \in IdemCalls |-> IdleIdemCall]
  /\ idemFault' = TRUE
  /\ UNCHANGED <<idemRow, idemRuns, idemEffects, idemTold>>

IdempotencyStep(c) == ClaimKey(c) \/ RunHandler(c) \/ ReleaseKey(c) \/ StoreResponse(c)

IdempotencyNext ==
  \/ \E c \in IdemCalls :
       \/ \E k \in IdemKeys, body \in IdemBodies : LookupKey(c, k, body)
       \/ IdempotencyStep(c) \/ ExecuteStatementFails(c)
  \/ IdempotencyCrash

IdempotencyFairness == \A c \in IdemCalls : WF_idempotencyVars(IdempotencyStep(c))

IdempotencySpec == IdempotencyInit /\ [][IdempotencyNext]_idempotencyVars /\ IdempotencyFairness

-----------------------------------------------------------------------------

IdempotencyTypeOK ==
  /\ idemRow \in [IdemKeys -> [hash : IdemBodies \cup {"none"}, response : 0..MaxRuns]]
  /\ idemRuns \in [IdemKeys -> 0..MaxRuns]
  /\ idemFault \in BOOLEAN

\* "Never a second invoice" (idempotency.service.ts): whatever retries,
\* concurrent requests, failures and crashes, the requests that carry one
\* key create at most one invoice, and every success they are told of is
\* that invoice, for the body it was created from.
OneEffectPerKey ==
  \A k \in IdemKeys : /\ idemEffects[k] <= 1
                      /\ Cardinality(idemTold[k]) <= 1

\* Without a crash or a failed statement a key does not stay in progress: it
\* is completed, or released so that a retry can run ("rather than being told
\* 'in progress' forever").
KeyIsReleased ==
  \A k \in IdemKeys : []<>(~InProgress(k) \/ idemFault)
=============================================================================
