--------------------------- MODULE GatewayServices ---------------------------
(***************************************************************************)
(* The services around the payment pipeline, each with its own state:      *)
(* signing, sessions, members and API keys, idempotency keys, rate         *)
(* limiting, chain adapters, exchange rates, the ledger's reconciliation,  *)
(* the back office and the processes themselves.  They share no table and  *)
(* no variable, so a behaviour follows one of them, `service`, and the     *)
(* others stay as they were: interleaving independent services would add   *)
(* states and nothing to see.                                              *)
(***************************************************************************)
EXTENDS SigningService, Sessions, MerchantAccess, IdempotencyKeys,
        RateLimiter, ChainAdapters, ExchangeRates, LedgerReconciliation,
        BackOffice, ProcessLifecycle

VARIABLE service

Services ==
  {"signing", "sessions", "access", "idempotency", "rate_limit", "adapters",
   "polling", "exchange_rates", "ledger", "back_office", "lifecycle"}

\* All state but that of signing, sessions, and so on.
restOfAccess == <<idempotencyVars, rateVars, adapterVars, fxVars, ledgerVars,
                  boVars, lifecycleVars>>
restOfSigning == <<sessionVars, accessVars, restOfAccess>>
servicesVars == <<service, signingVars, restOfSigning>>

accountVars == <<signingVars, sessionVars, accessVars>>
guardVars == <<idempotencyVars, rateVars>>
moneyVars == <<fxVars, ledgerVars>>

\* The services that do not move start in one of their initial states.
Resting ==
  /\ service \notin {"adapters", "polling"} => rpcCall.family = "evm"
  /\ service # "adapters" => PollInit
  /\ service # "exchange_rates" => fxCurrency = "USD"
  /\ service # "ledger" => ledgerEntries = {}
  /\ service # "back_office" => boTable = "refund"
  /\ service # "lifecycle" => app = "worker"

ServicesInit ==
  /\ service \in Services
  /\ SigningInit /\ SessionsInit /\ AccessInit
  /\ IdempotencyInit /\ RateInit /\ AdapterInit /\ FxInit
  /\ LedgerInit /\ BackOfficeInit /\ LifecycleInit
  /\ Resting

ServicesNext ==
  /\ UNCHANGED service
  /\ \/ /\ service = "signing" /\ SigningNext
        /\ UNCHANGED restOfSigning
     \/ /\ service = "sessions" /\ SessionsNext
        /\ UNCHANGED <<signingVars, accessVars, restOfAccess>>
     \/ /\ service = "access" /\ AccessNext
        /\ UNCHANGED <<signingVars, sessionVars, restOfAccess>>
     \/ /\ service = "idempotency" /\ IdempotencyNext
        /\ UNCHANGED <<accountVars, rateVars, adapterVars, moneyVars, boVars,
                       lifecycleVars>>
     \/ /\ service = "rate_limit" /\ RateNext
        /\ UNCHANGED <<accountVars, idempotencyVars, adapterVars, moneyVars,
                       boVars, lifecycleVars>>
     \/ /\ service = "adapters" /\ AdapterCallNext
        /\ UNCHANGED <<accountVars, guardVars, moneyVars, boVars,
                       lifecycleVars>>
     \/ /\ service = "polling" /\ PollNext
        /\ UNCHANGED <<accountVars, guardVars, moneyVars, boVars,
                       lifecycleVars>>
     \/ /\ service = "exchange_rates" /\ FxNext
        /\ UNCHANGED <<accountVars, guardVars, adapterVars, ledgerVars,
                       boVars, lifecycleVars>>
     \/ /\ service = "ledger" /\ LedgerNext
        /\ UNCHANGED <<accountVars, guardVars, adapterVars, fxVars, boVars,
                       lifecycleVars>>
     \/ /\ service = "back_office" /\ BackOfficeNext
        /\ UNCHANGED <<accountVars, guardVars, adapterVars, moneyVars,
                       lifecycleVars>>
     \/ /\ service = "lifecycle" /\ LifecycleNext
        /\ UNCHANGED <<accountVars, guardVars, adapterVars, moneyVars,
                       boVars>>

\* The fairness of each component, for the service that moves.
ServicesFairness ==
  /\ \A c \in AuthCalls : WF_sessionVars(service = "sessions" /\ AuthStep(c))
  /\ WF_sessionVars(service = "sessions" /\ AccessLapses)
  /\ \A c \in AccCalls : WF_accessVars(service = "access" /\ AccessStep(c))
  /\ \A c \in IdemCalls :
       WF_idempotencyVars(service = "idempotency" /\ IdempotencyStep(c))
  /\ \A p \in Polls : WF_adapterVars(service = "polling" /\ PollStep(p))
  /\ WF_lifecycleVars(service = "lifecycle" /\ ProcessStep)
  /\ \A l \in WorkerLoops \cup WatchedNetworks :
       WF_lifecycleVars(service = "lifecycle" /\ LoopStep(l))

ServicesSpec == ServicesInit /\ [][ServicesNext]_servicesVars /\ ServicesFairness

-----------------------------------------------------------------------------

\* Every service's state stays in its types.
ServicesTypeOK ==
  /\ service \in Services
  /\ SigningTypeOK /\ SessionsTypeOK /\ AccessTypeOK /\ IdempotencyTypeOK
  /\ RateTypeOK /\ AdapterTypeOK /\ FxTypeOK /\ LedgerTypeOK
  /\ BackOfficeTypeOK /\ LifecycleTypeOK

\* However the ticks of monitorTransactions overlap and their answers arrive
\* out of order, and whichever request fails, once the chain is quiet the
\* block an adapter saw last is the chain's tip (unless it was stopped).
PollingCatchesUp == <>[](service = "polling" => pollStopped \/ AtTip)
=============================================================================
