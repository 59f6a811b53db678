--------------------------- MODULE MerchantAccess ----------------------------
(***************************************************************************)
(* Who may act for a merchant: the role and scope guards in front of the   *)
(* dashboard and API routes, MerchantMembersService, ApiKeysService, and   *)
(* the operators' suspension of merchants (AdminMerchantsService).         *)
(*                                                                         *)
(* A guard reads the database before the handler runs, a handler reads     *)
(* before its transaction, and the transaction writes what was decided     *)
(* from those reads.  There is one merchant.  The audit row each change    *)
(* writes with it is left out here (BackOffice keeps those rows).          *)
(***************************************************************************)
EXTENDS Naturals, FiniteSets

CONSTANTS
  AccUsers,     \* users with an account
  FirstOwner,   \* the owner the merchant starts with
  ApiKeyIds,    \* API keys that may be created
  AccCalls      \* requests in flight

ASSUME AccessConstants == FirstOwner \in AccUsers

VARIABLES
  accRole,      \* merchant_members.role, "none" without a row
  accStatus,    \* merchants.status
  accKey,       \* api_keys: "none", or status and scopes
  accCall,      \* requests in flight
  accEverOwner, \* who has ever held OWNER
  accOverlap    \* two changes of members were under way at once

accessVars == <<accRole, accStatus, accKey, accCall, accEverOwner, accOverlap>>

-----------------------------------------------------------------------------
(* permissions.ts                                                          *)

MerchantRole == {"OWNER", "ADMIN", "DEVELOPER", "VIEWER"}

READ_ONLY_MERCHANT_PERMISSIONS ==
  {"invoices:read", "balance:read", "transactions:read", "settings:read",
   "api_keys:read", "webhooks:read", "members:read"}

MerchantPermission ==
  READ_ONLY_MERCHANT_PERMISSIONS \cup {"api_keys:manage", "webhooks:manage", "members:manage"}

\* (Mutant: administrators manage the members too.)
adminsManageMembers ==
  [VIEWER    |-> READ_ONLY_MERCHANT_PERMISSIONS,
   DEVELOPER |-> READ_ONLY_MERCHANT_PERMISSIONS \cup {"api_keys:manage", "webhooks:manage"},
   ADMIN     |-> MerchantPermission,
   OWNER     |-> MerchantPermission]
MERCHANT_ROLE_PERMISSIONS ==
  [VIEWER    |-> READ_ONLY_MERCHANT_PERMISSIONS,
   DEVELOPER |-> READ_ONLY_MERCHANT_PERMISSIONS \cup {"api_keys:manage", "webhooks:manage"},
   ADMIN     |-> READ_ONLY_MERCHANT_PERMISSIONS \cup {"api_keys:manage", "webhooks:manage"},
   OWNER     |-> MerchantPermission]

merchantRolesWith(permission) ==
  {role \in MerchantRole : permission \in MERCHANT_ROLE_PERMISSIONS[role]}

READ_ONLY_PLATFORM_PERMISSIONS ==
  {"merchants:read", "compliance:read", "reconciliation:read", "refunds:read",
   "settlements:read", "signing:read"}

PlatformPermission ==
  READ_ONLY_PLATFORM_PERMISSIONS
    \cup {"merchants:manage", "compliance:review", "reconciliation:resolve",
          "refunds:decide", "audit_logs:read", "signing:decide"}

PLATFORM_ROLE_PERMISSIONS ==
  [USER               |-> {},
   SUPPORT            |-> READ_ONLY_PLATFORM_PERMISSIONS,
   COMPLIANCE_OFFICER |-> READ_ONLY_PLATFORM_PERMISSIONS \cup {"compliance:review", "audit_logs:read"},
   ADMIN              |-> PlatformPermission]

platformRolesWith(permission) ==
  {role \in DOMAIN PLATFORM_ROLE_PERMISSIONS : permission \in PLATFORM_ROLE_PERMISSIONS[role]}

\* Two of the seven scopes stand for all of them.
ALL_API_KEY_SCOPES == {"invoices:read", "invoices:write"}

-----------------------------------------------------------------------------
(* The guards.                                                             *)

\* MerchantRoleGuard: membership, merchant status and role, read together.
MerchantRoleGuard(u, permission) ==
  /\ accRole[u] # "none"
  /\ accStatus = "ACTIVE"
  /\ accRole[u] \in merchantRolesWith(permission)

\* PlatformRoleGuard: the role comes from the access token.
PlatformRoleGuard(role, permission) == role \in platformRolesWith(permission)

\* ApiKeyGuard, first read: the key's row.  The create route sets no expiry
\* and nothing starts a rotation, so status is the only thing that ends a key.
\* (Mutant: the status is not looked at.)
apiKeyKnown(k) == accKey[k].status # "none"
ApiKeyUsable(k) == accKey[k].status # "none" /\ accKey[k].status # "REVOKED"

\* ApiKeyScopeGuard.
ScopeGranted(scopes, scope) == scope \in scopes

IdleAccCall == [pc |-> "idle"]

AccessInit ==
  /\ accRole = [u \in AccUsers |-> IF u = FirstOwner THEN "OWNER" ELSE "none"]
  /\ accStatus = "ACTIVE"
  /\ accKey = [k \in ApiKeyIds |-> [status |-> "none", scopes |-> {}]]
  /\ accCall = [c \in AccCalls |-> IdleAccCall]
  /\ accEverOwner = {FirstOwner}
  /\ accOverlap = FALSE

AccGoto(c, call) == accCall' = [accCall EXCEPT ![c] = call]

-----------------------------------------------------------------------------
(* MerchantMembersService.                                                 *)

CurrentOwners == {u \in AccUsers : accRole[u] = "OWNER"}

\* (Mutant: the member about to go is counted.)
assertSomeOwner(m) == CurrentOwners # {}
assertNotLastOwner(m) == CurrentOwners \ {m} # {}

requireMember(m) == accRole[m] # "none"

AddAllowed(m) == accRole[m] = "none"

\* The reads of add, updateRole and remove that let the change go on.
MemberChangeAllowed(op, m, role) ==
  CASE op = "add"    -> AddAllowed(m)
    [] op = "role"   -> /\ requireMember(m)
                        /\ accRole[m] = "OWNER" /\ role # "OWNER" => assertNotLastOwner(m)
    [] op = "remove" -> /\ requireMember(m)
                        /\ accRole[m] = "OWNER" => assertNotLastOwner(m)

MemberCallsInFlight == {c \in AccCalls : accCall[c].pc \in {"add", "role", "remove"}}

\* The routes of MerchantMembersController, up to the transaction; the reads
\* of the guard and of the handler are one step, the write is another.
MemberRequest(c, u, op, m, role) ==
  /\ accCall[c].pc = "idle"
  /\ MerchantRoleGuard(u, "members:manage")
  /\ MemberChangeAllowed(op, m, role)
  /\ AccGoto(c, [pc |-> op, actor |-> u, member |-> m, role |-> role])
  /\ accOverlap' = (accOverlap \/ MemberCallsInFlight # {})
  /\ UNCHANGED <<accRole, accStatus, accKey, accEverOwner>>

\* The row a change ends with.
MemberRow(call) == IF call.pc = "remove" THEN "none" ELSE call.role

\* add fails on the unique index when the row has appeared meanwhile,
\* update and delete when it has gone.
MemberCommit(c) ==
  LET call == accCall[c]
      applies == (accRole[call.member] = "none") <=> (call.pc = "add")
      role == MemberRow(call)
  IN
  /\ call.pc \in {"add", "role", "remove"}
  /\ \/ /\ applies
        /\ accRole' = [accRole EXCEPT ![call.member] = role]
        /\ accEverOwner' = accEverOwner \cup (IF role = "OWNER" THEN {call.member} ELSE {})
     \/ ~applies /\ UNCHANGED <<accRole, accEverOwner>>
  /\ AccGoto(c, IdleAccCall)
  /\ UNCHANGED <<accStatus, accKey, accOverlap>>

-----------------------------------------------------------------------------
(* ApiKeysService.                                                         *)

\* create: a request that names no scopes gets every scope; one that names
\* an empty list gets none.
CreateApiKey(u, k, scopes) ==
  /\ accKey[k].status = "none"
  /\ MerchantRoleGuard(u, "api_keys:manage")
  /\ accKey' = [accKey EXCEPT ![k] =
        [status |-> "ACTIVE", scopes |-> scopes]]
  /\ UNCHANGED <<accRole, accStatus, accCall, accEverOwner, accOverlap>>

\* revoke: reads the row, which never goes away, then updates it.
RevokeApiKey(u, k) ==
  /\ accKey[k].status # "none"
  /\ MerchantRoleGuard(u, "api_keys:manage")
  /\ accKey' = [accKey EXCEPT ![k].status = "REVOKED"]
  /\ UNCHANGED <<accRole, accStatus, accCall, accEverOwner, accOverlap>>

-----------------------------------------------------------------------------
(* A request authenticated by an API key: ApiKeyGuard, ApiKeyScopeGuard.   *)

\* The key a presented credential names, if it is well formed.
parseApiKey(credential) == ApiKeyIds \cap {credential}

KeyRequest(c, credential, scope) ==
  /\ accCall[c].pc = "idle"
  /\ \E k \in parseApiKey(credential) : ApiKeyUsable(k) /\ AccGoto(c, [pc |-> "merchant", key |-> k, scope |-> scope, scopes |-> accKey[k].scopes])
  /\ UNCHANGED <<accRole, accStatus, accKey, accEverOwner, accOverlap>>

\* The merchant is read after the secret was verified; then the scopes.
KeyRequestMerchant(c) ==
  /\ accCall[c].pc = "merchant"
  /\ AccGoto(c, IF accStatus = "ACTIVE" /\ ScopeGranted(accCall[c].scopes, accCall[c].scope)
                THEN [pc |-> "handler", key |-> accCall[c].key, scope |-> accCall[c].scope]
                ELSE IdleAccCall)
  /\ UNCHANGED <<accRole, accStatus, accKey, accEverOwner, accOverlap>>

KeyRequestServed(c) ==
  /\ accCall[c].pc = "handler"
  /\ AccGoto(c, IdleAccCall)
  /\ UNCHANGED <<accRole, accStatus, accKey, accEverOwner, accOverlap>>

-----------------------------------------------------------------------------

\* AdminMerchantsService.transition: suspend or reactivate.
MerchantTransition(status) ==
  /\ PlatformRoleGuard("ADMIN", "merchants:manage")
  /\ accStatus # status
  /\ accStatus' = status
  /\ UNCHANGED <<accRole, accKey, accCall, accEverOwner, accOverlap>>

AccessStep(c) == MemberCommit(c) \/ KeyRequestMerchant(c) \/ KeyRequestServed(c)

\* The routes of ApiKeysController that change something.
ApiKeyRequests ==
  \E u \in AccUsers, k \in ApiKeyIds :
    \/ \E scopes \in SUBSET ALL_API_KEY_SCOPES : CreateApiKey(u, k, scopes)
    \/ RevokeApiKey(u, k)

AccessNext ==
  \/ \E c \in AccCalls :
       \/ \E u, m \in AccUsers, op \in {"add", "role", "remove"}, role \in {"OWNER", "ADMIN"} :
            MemberRequest(c, u, op, m, role)
       \/ \E credential \in ApiKeyIds \cup {"malformed"}, scope \in ALL_API_KEY_SCOPES :
            KeyRequest(c, credential, scope)
       \/ AccessStep(c)
  \/ ApiKeyRequests
  \/ \E status \in {"ACTIVE", "SUSPENDED"} : MerchantTransition(status)

\* Requests that have started end.
AccessFairness == \A c \in AccCalls : WF_accessVars(AccessStep(c))

AccessSpec == AccessInit /\ [][AccessNext]_accessVars /\ AccessFairness

-----------------------------------------------------------------------------

AccessTypeOK ==
  /\ accRole \in [AccUsers -> MerchantRole \cup {"none"}]
  /\ accStatus \in {"ACTIVE", "SUSPENDED"}
  /\ \A k \in ApiKeyIds : /\ accKey[k].status \in {"none", "ACTIVE", "REVOKED"}
                          /\ accKey[k].scopes \subseteq ALL_API_KEY_SCOPES
  /\ accEverOwner \subseteq AccUsers

\* A merchant is never left without an owner by changes that follow one
\* another; only changes that overlap can do it (members.service.ts
\* assertNotLastOwner reads outside the transaction that writes).
OwnerRemains == ~accOverlap => CurrentOwners # {}

\* Nobody reaches OWNER except by the hand of somebody who held it: an ADMIN
\* "can never engineer their own promotion" (permissions.ts 103), whatever
\* requests of stale standing are still under way.
PromotedByOwner ==
  [][accEverOwner' # accEverOwner =>
       \E c \in AccCalls : /\ accCall[c].pc \in {"add", "role"} /\ accCall'[c].pc = "idle"
                          /\ accCall[c].actor \in accEverOwner]_accessVars

\* A revoked key stops working: the requests that passed the guard before
\* end, and no new one gets in (ApiKeyGuard).
RevocationBites ==
  \A k \in ApiKeyIds :
    <>[](accKey[k].status = "REVOKED" =>
           \A c \in AccCalls : accCall[c].pc \in {"merchant", "handler"} => accCall[c].key # k)
=============================================================================
