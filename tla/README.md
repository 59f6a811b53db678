# Verification of the crypto-payment gateway

TLA+ modules, TLC runs and TLAPS proofs for the payment pipeline of this
repository: the API that creates and cancels invoices, the worker that expires
them, and the blockchain monitor that finds payments, counts confirmations,
settles invoices and posts to the ledger; the worker that delivers webhooks
about it to merchants; and the services around the pipeline: signing, sessions,
members and API keys, idempotency, rate limiting, chain adapters, exchange
rates, reconciliation, the back office, and the life of the processes.

## 1. The system

| Component | Code | State it keeps | Operations | Status |
|---|---|---|---|---|
| Invoice state machine | `packages/payments/src/state-machine.ts` | none (a table) | `canTransition`, `isActorAllowed`, `assertTransition`, `webhookEventForStatus` | modelled |
| Payment rules | `packages/payments/src/{matcher,confirmations,payment-evaluation}.ts` | none | `evaluateTransferMatch`, `countConfirmations`, `evaluatePayment`, `evaluateExpiry` | modelled as used |
| Database | `packages/database` | all rows | `runInTransaction` (Serializable, retried) | the columns the pipeline decides on |
| Blockchain monitor | `apps/blockchain-monitor/src/monitor.service.ts` | `blockchain_transactions`, `token_transfers`, invoice status, ledger postings, discrepancies | `processTransaction`, `updateConfirmations`/`finalizeInvoice`, `handleReorg` | modelled |
| Chain scanner | `apps/blockchain-monitor/src/scanner.ts` | `chain_cursors` | `tick`, `scanRange*`, `checkForReorg`, `rewindCursor` | modelled |
| Invoice API | `apps/api/src/invoices/invoices.service.ts` | invoices, address pool, webhook events | `createInvoice`, `loadAndMaybeExpire`, `cancelInvoice` | modelled |
| Expiry sweep | `apps/worker/src/expiry-sweep.ts` | none of its own | `expireOne` | modelled |
| Ledger posting | `packages/ledger/src/posting.ts` | `ledger_transactions` | `postPaymentCredit` | modelled |
| Webhook dispatcher | `packages/webhooks/src/dispatcher.ts` | `webhook_deliveries` | enqueue, attempt, retry, recover | modelled |
| Webhook endpoints | `apps/api/src/merchant/webhook-endpoints.service.ts` | `webhook_endpoints` | create, update, rotate secret | modelled, without secrets |
| Signing service | `packages/signing`, `apps/api/src/signing` | approval requests, spend entries, HSM keys | `submit`, `approve`, `reject`, `finalizeAndSign`, key rotation | modelled |
| Sessions | `apps/api/src/auth/auth.service.ts`, the JWT guard, the cookies | sessions, lockout counters | login, refresh, logout | modelled |
| Members, API keys, guards | `apps/api/src/auth/*.guard.ts`, `apps/api/src/merchant/{members,api-keys}.service.ts` | members, keys, merchant status | add, change role, remove, create, revoke, suspend | modelled |
| Idempotency keys | `apps/api/src/common/idempotency.service.ts` | `idempotency_keys` | `execute` | modelled |
| Rate limiter | `packages/security/src/rate-limiter.ts`, its guard | a counter in Redis | `consume` | modelled |
| Chain adapters | `packages/blockchain` | the last block seen | the read methods, `monitorTransactions` | modelled without decoding |
| Exchange rates, money | `packages/exchange-rate`, `packages/shared/src/money` | cached rate, request under way | `getRate`, pricing | modelled as used |
| Ledger reconciliation | `packages/ledger/src/{balances,reconciliation}.ts` | cached balances, runs, discrepancies | `runLedgerReconciliation` | modelled |
| Back office | `apps/api/src/admin`, the merchants' lists | refunds, checks, discrepancies, audit log | paged lists, decisions | modelled |
| Processes | the four `main` entry points, `packages/observability` | connections, loops, requests in flight | start, serve, shut down | start-up and shutdown |
| Cryptography, DTOs and response mapping, metrics, web dashboard | see `PROJECT.json` | - | - | not modelled |

How the parts interact. The services share nothing but the database. The API
hands an address to an invoice; the monitor reads the addresses handed out,
reads blocks, and writes transfers and invoice statuses; the worker and any API
read expire overdue invoices; every announced status adds a `webhook_events`
row that the dispatcher delivers later. The chain is outside: it grows, and it
replaces blocks that have been read already.

What is hard here:

- *Interleaving.* Three processes move the same invoice row. Most transactions
  are Serializable; address reservation is Read Committed with a row lock, and
  a cancellation is decided on a status read before its transaction.
- *Crash and retry.* A tick is many transactions. It may die between any two of
  them and the next tick repeats the range.
- *Reorganisation.* A block that was scanned, and a transfer that was credited,
  may disappear or move. Only the hash of the last processed block is kept.
- *Ordering.* Several transfers pay one invoice and reach their depth at
  different times; a settlement re-reads one of them and trusts the stored
  confirmations of the others.
- *Numbers.* Fee and tolerance are rounded down; an amount may lie on either
  edge of the accepted band; a posting must have a positive net leg; a fiat
  amount is scaled, divided and printed with the asset's decimals.
- *Stale reads.* Outside the pipeline most handlers read, decide and write in
  separate statements: approvals, rejections, refresh tokens, owners, refunds,
  idempotency keys. What several of them do at once is the question each
  service module asks.
- *Answers from different moments.* One adapter method makes several requests,
  and the chain, or the node that answers, changes between them.

`PROJECT.json` lists each such hazard at its line, with the properties that
would catch it.

## 2. Modules

    InvoiceStateMachine   the transition table (no state)
      PaymentRules        matching, confirmations, amount bands, expiry (no state)
        GatewayStore      the tables, the services' local state, chain and clock
          MonitorService    monitor.service.ts and postPaymentCredit
            ChainScanner    scanner.ts
          InvoicesService   invoices.service.ts and expiry-sweep.ts
            PaymentPipeline   the composition: Init, Next, Spec, the properties
              MCPaymentPipeline      symmetry sets for TLC
              PaymentPipelineProofs  theorems about invoices, credits, addresses
                ChainViewProofs      theorems about depth and the cursor

    WebhookDelivery       what delivery promises: chains opened and closed once
    WebhookDispatcher     dispatcher.ts and the endpoint settings; implements it
      MCWebhookDispatcher   symmetry set for TLC
      WebhookDispatcherProofs  theorems for any number of workers
        WebhookPromiseProofs   one worker implements WebhookDelivery

    SigningService          custodial signing (MCSigningService for TLC)
    Sessions                login, refresh, logout, the browser's cookies
    MerchantAccess          guards, members, API keys, merchant status
    IdempotencyKeys         IdempotencyService.execute
    RateLimiter             the fixed window
    ChainAdapters           both adapters, request by request
    MoneyMath               decimals and rounding (no state)
      ExchangeRates         rates, providers, pricing an invoice
    LedgerReconciliation    postings beside the reconciliation job
    BackOffice              paged lists and operators' decisions
    ProcessLifecycle        start-up and shutdown
      GatewayServices       the services above in one specification
        MCGatewayServices   values for TLC
        SigningServiceProofs, AccountProofs (Sessions, MerchantAccess,
        IdempotencyKeys), ServicesProofs (RateLimiter, MoneyMath, ExchangeRates,
        ChainAdapters, BackOffice)   theorems about one service each
          GatewayServicesProofs   theorems about LedgerReconciliation,
                                  ProcessLifecycle and GatewayServices

Each service module EXTENDS `GatewayStore` and contributes one action per
transaction, or per part of an operation between two points where another
process can act. `PaymentPipeline` joins them: `Tick` (the monitor), `Serve`
(API requests and the sweep) and `World` (clock, blocks, reorganisations).

### State and code

| Variable | Code |
|---|---|
| `status`, `webhooks` | `invoices.status`; `webhook_events` as pairs (status announced, invoice), which is the idempotency key |
| `addressStatus`, `addressInvoice` | `payment_addresses.status`, `.invoice_id` |
| `txStatus`, `blockNumber` | `blockchain_transactions` |
| `matchStatus`, `invoiceId`, `confirmations`, `creditedAt` | `token_transfers` |
| `ledger` | the postings under each transfer's idempotency key, a sequence so that a second posting would show |
| `discrepancies` | `reconciliation_discrepancies` opened by `flagOrphanedCredit` |
| `cursor` | `chain_cursors`: last block and the hash it had |
| `creating` | the address row an open `createInvoice` transaction holds `FOR UPDATE` |
| `cancelling` | the invoice a cancel request found cancellable before its transaction |
| `monitor` | the local variables of the running tick |
| `phase`, `payment`, `minedAt`, `chainTip`, `blockHash`, `reorgs`, `faults` | the clock and the chain |

| Action | Code |
|---|---|
| `reserveAddress`, `createInvoice`, `createFails` | the creation transaction: first statement, the rest, rollback |
| `readForCancel`, `cancelInvoice`, `cancelFails` | `cancelInvoice`: the read and check, the transaction, its failure |
| `expireOne`, `loadAndMaybeExpire` | the sweep (webhook upsert) and the API read (webhook create) |
| `beginTick`, `scanBlock`, `saveCursor`, `endTick` | `tick` and `scanRangeFast`/`scanRangeGeneric`, block by block |
| `processTransaction` | `recordChainTransaction`, `recordTransfer` and the invoice move it causes |
| `confirmTransfer`, `confirmFails` | one iteration of `updateConfirmations`, with `finalizeInvoice` and the postings; the iteration that throws |
| `orphanTransaction`, `rewindCursor` | one iteration of `handleReorg`; the rewind |
| `tickFails` | the process dies or an RPC/database error ends the tick |

The dispatcher (`WebhookDispatcher`) shares only the `webhook_events` rows with
the pipeline: `emitWebhook` stands for every service that writes one. No
transaction spans two of its statements, so each statement is an action:

| Action | Code |
|---|---|
| `runOnce` | the query that starts the next of the four loops: recover, enqueue, promote, send |
| `recoverStaleInFlight` | a stale row goes to `finalizeFailure` |
| `loadEndpoints`, `enqueueDelivery` | fan-out: read the endpoints of an event, upsert one row each |
| `loadRetry`, `retireRetry`, `insertRetry` | `promoteDueRetries` |
| `loadDelivery`, `abandonDelivery`, `claimDelivery`, `postDelivery` | `attemptDelivery` up to the answer |
| `finalizeSuccess`, `resetFailures`, `successFails` | `finalizeSuccess` and the catch its errors land in |
| `countFailure`, `disableEndpoint`, `abandonQueued`, `closeFailed` | `finalizeFailure` |
| `emitWebhook`, `update`, `crash`, `retryFallsDue`, `inFlightGrowsStale` | other services, the merchant, failures, time |

`delivery` is the status column of each (event, endpoint, attempt); `created`
and `dueRetries` are the orders `createdAt` and `nextRetryAt` give the rows,
which decide what `take: batchSize` returns (`oldest`); `worker` holds the
local variables of each poll; `receipts` counts what endpoints really received.

The service modules, each with variables of its own:

| Module | Steps | State |
|---|---|---|
| `SigningService` | every await of `submit`, `approve`, `reject`, `finalizeAndSign`; a failing statement; the key ceremony; a crash | `signRow` and `signSpend` are the two tables, `signCall` what each call has read |
| `Sessions` | the read, the check and the transaction of login and refresh; the answer arriving, out of order or never | `authUser`, `authSession`, the browser's `authCookie` |
| `MerchantAccess` | a guard with the handler's reads, then the transaction; the two reads of `ApiKeyGuard` | `accRole`, `accStatus`, `accKey` |
| `IdempotencyKeys` | lookup, claim, handler, release or store; failures; a crash | `idemRow`, with `idemEffects` counting invoices |
| `RateLimiter` | one hit of the script; a second passing | the Redis key |
| `ChainAdapters` | each request of a method, answered from the chain of that moment; blocks mined and replaced; overlapping poll ticks | `rpcChain`, `rpcCall`, `pollLast` |
| `ExchangeRates` | a caller, each provider's answer or failure, time | `fxCache`, `fxFetch` (`inFlight`), `fxCall` |
| `LedgerReconciliation` | statements and commits of postings and of each account's transaction; serialization failures; retries | entries with sequence numbers, cached balances, runs |
| `BackOffice` | a page read, a row inserted, a decision read and written | one table, the clients' cursors |
| `ProcessLifecycle` | the phases of the four `main` functions, loops, requests, signals | one process |

`GatewayServices` EXTENDS them all. They share no table, so a behaviour follows
one service (`service`, chosen in `Init`) and the others rest: a property of one
service holds in every interleaving with the others if it holds alone. Where two
parts do interact they are in one module: guards, members and merchant
suspension; pricing and rates; postings and reconciliation.

### Abstractions

- A Serializable transaction is one step. `runInTransaction` retries on a
  conflict, so its retries are not visible; a rollback that ends an operation
  is an action.
- `beginTick` joins the tip read, the cursor read, the hash check and the load
  of tracked addresses. The cursor has no other writer; an address handed out
  between the tip read and the load can be paid only in a block above that tip,
  which the tick does not read; and a reorganisation between the tip read and
  the hash check has the same effect as one before or after both, up to the tip
  the tick stops at. `saveCursor` likewise joins the cursor write with the
  query for pending transfers, which no other process changes.
- Reading `getConfirmations` from the chain and committing the iteration are
  one step. What happens on the chain between the two does not touch the
  database and may as well happen after the commit; what another service
  commits between the two does not touch the chain and may as well happen
  before the read.
- One transfer per transaction; the payment fields of a transfer are chosen in
  `Init` and never change.
- Any AVAILABLE address may be reserved; the code takes the oldest.
- Payers pay only addresses that have been handed out (`MineBlock`).
- One monitor per network, as deployed (`replicas: 1`, Recreate).
- `Init` is the state after `loadCursor` has created its first row.
- One merchant, network and payment asset; all invoices ask for one amount.
- `payment_events`, metrics and logs are written and never read back by the
  pipeline; they are left out. `finalizeInvoice` sums units whatever the asset,
  so an allowlisted asset other than the invoice's behaves as `PAYMENT` does.
- Dispatcher: one merchant; each event has a type of its own; within a batch the
  rows are handled in any order. Delays are abstracted to "falls due at some
  time"; a row in flight grows stale only when its worker is gone, since
  `staleInFlightMs` (5 minutes) is far above the 10 s timeout no API can raise.
- A reorganisation may leave a shorter chain for a while, so that the provider
  returns null for a height the cursor has passed.
- Signing: one merchant and network, which is what ceilings are kept per; of the
  audit rows only approvals and uses of a key are kept.
- Sessions: one user and one browser; a lock, a session row and an access token
  lapse at some moment; a dead row nobody holds may be used again as a new one.
- Members and keys: one merchant; two of the seven scopes; no expiry, rotation or
  IP allowlist of keys, which no route sets.
- Adapters: one transaction of interest and one call at a time (a call keeps
  nothing for the next); what decoding does to a log is a class of logs.
- Rates: one pair at a time; prices and amounts are decimal strings given as
  digits and a number of decimals, parsed and printed by `MoneyMath`.
- Ledger: PostgreSQL's Serializable isolation is modelled by its rule: of a
  posting and a reconciliation that read and wrote across each other one rolls
  back.
- Back office: a behaviour is about one table; rows appear, with ids in any order.
- Processes: a request's work is a state, a loop alternates tick and sleep.

## 3. What the runs check

| Run | Instance | Shows |
|---|---|---|
| `settlement` | 1 invoice, 2 transfers of 2 or 3 for an invoice of 4 +/- 25 %, 2 confirmations, 4 blocks, 1 reorganisation of up to 2 blocks | the eight settlement properties below |
| `allocation` | 2 invoices, 2 addresses, 1 cancel request, 1 failing tick | `AddressUsedOnce`, `AddressNeverReassigned` |
| `scanner` | 1 transfer, 2 reorganisations of one block, fair scan loop | `CursorIsAccurate`, `DeepPaymentSettles`, `NotStranded` |
| `cancel_race` (violation) | as `settlement`, 1 transfer and 1 cancel request | `StatusFollowsTable` fails |
| `deep_reorg` (violation) | 1 transfer, 1 reorganisation of 2 blocks | `NotStranded` fails |
| `unaccounted` (violation) | 2 transfers, no reorganisation | `NoMoneyUnaccounted` fails |
| `poisoned_tick` (violation) | as `settlement` | `NoPoisonedTick` fails |
| `webhooks` | 2 events, 2 endpoints, `batchSize` 1, 1 fair worker, 2 attempts, 1 crash, disabling after 2 failures | `KeepsPromise`, `SettledRowsStay`, `ChainSettlesUnlessOvertaken`, `EventReachesEndpoint` |
| `webhook_workers` | 1 event, 1 endpoint, 2 workers, 1 crash, 1 change of settings, 1 database error | `TypeOK`, `AttemptSentOnce`, `ChainInOrder` |
| `webhook_starvation` (violation) | 2 events, `batchSize` 1 | `ChainSettles` fails |
| `services` | each service with 2 or 3 calls at once (below) | the twenty service properties below |
| `signing_ceiling` (violation) | 2 requests made at times 0 and 1, 3 operators, one call at a time | `CeilingRespected` fails |

Settlement properties:

- `TypeOK`: types.
- `CreditedOnce`: a transfer is marked credited exactly when one ledger posting
  exists for it, to the invoice that owns the address, with legs that add up.
- `PaidIsFunded`: PAID means credited with an amount the merchant's policy
  accepts; an open invoice has no credit.
- `PaidIsAnnounced`: `payment.paid` exists exactly for credited invoices.
- `OrphanedCreditFreezesInvoice`: an orphaned credit never stays on PAID.
- `CreditIsForever`: rescans and reorganisations leave a credit alone.
- `CreditIsConfirmed`: without reorganisation, nothing is credited before its
  depth. (With one, the stored confirmations of the other transfers may be too
  high; the code accepts that and relies on `handleReorg`.)
- `InternalMovesFollowTable`: whoever moves an invoice, other than a
  cancellation, moves it along the table with an actor the table allows.

Webhook properties:

- `KeepsPromise`: the dispatcher implements `WebhookDelivery`, with a chain's
  state read off its newest attempt: a chain is opened once and closed once, and
  is delivered only if the endpoint received the event.
- `SettledRowsStay`: settled attempts are history.
- `ChainSettles`: no chain stays open. The code does not keep this
  (`webhook_starvation`); what it keeps is `ChainSettlesUnlessOvertaken`: a
  chain stays open only while a batch full of rows that were promoted before
  stands in front of its due retry, never because a worker died, an answer was
  lost or an endpoint was disabled half-way.
- `EventReachesEndpoint`: an event gets to every enabled, subscribed endpoint,
  with two exceptions the code makes: a fan-out that was interrupted after it had
  served another endpoint (`passedOver`), and a batch filled by older events
  that no endpoint subscribes to (`crowdedOut`). A fan-out that begins after the
  last interruption has the second exception only. Without either exception TLC
  finds a counterexample.
- `AttemptSentOnce`: two workers never send one attempt twice.
- `ChainInOrder`: an attempt with a successor is failed or abandoned.

The first two hold for one worker without database errors in
`finalizeSuccess`. Outside that they fail, and `findings` says how: an
unconditional ABANDONED write with two workers, and a catch that takes a
database error for a failed delivery. The exceptions of `EventReachesEndpoint`
are findings too.

Service properties:

- `ServicesTypeOK`: types; the failure counter stays below the lockout limit.
- `SignatureHasQuorum`: a key is used only after the required number of
  different users other than the requester approved, whatever calls overlap.
- `SignedIsAccounted`: SIGNED, in the row or in an answer, means that the spend
  entry and the key's audit row exist.
- `CookieIsLive`: concurrent refreshes do not leave the browser with a revoked
  token, unless an answer was lost.
- `SuspensionBites`: a suspended user's access ends.
- `OwnerRemains`: changes that do not overlap leave an owner.
- `PromotedByOwner`: only somebody who held OWNER makes an owner.
- `RevocationBites`: requests under a revoked key end and no new one gets in.
- `OneEffectPerKey`: one invoice and one answer per idempotency key.
- `KeyIsReleased`: without a fault no key stays in progress.
- `BurstBounded`, `RetryAfterKept`: at most twice the limit in any stretch as
  long as the window; the window is over when Retry-After says so.
- `AnswersAreTrue`: the depth and the events an adapter reports are real.
- `DiscoveryComplete`: a payment in the block a scan records was found.
- `PollingCatchesUp`: on a quiet chain `lastSeen` becomes the tip.
- `PriceIsFresh`, `PricedInFull`: no price from a stale rate; the printed amount
  covers what was asked, and one unit less would not.
- `AlarmsAreExact`: reconciliation reports the accounts that were altered, and
  only those.
- `PagesComplete`: following the cursors shows every row that matched all the
  while, once, in order.
- `DrainsCleanly`: no tick runs without a database, no request loses its
  database, Redis or process unless the drain timed out, and a process that was
  told to stop stops although no request need ever end. One exception
  (`HeldUp`): after a drain that timed out the API's `app.close()` closes the HTTP
  adapter again and waits for the request the drain gave up on.

Several of these carry a condition because the code does not give more, and
`findings` says what happens without it: an approval saved over a rejection,
a refresh token rotated twice, two owners who remove each other, a key in
progress for ever after a crash, a refund decided twice, a drain that timed out
and a close that waits behind it.

The six violations are disagreements between the code and its own text; the
quoted lines are in `PROJECT.json` under `findings`.

1. `cancel_race`: `state-machine.ts:13` says every status change goes through
   `assertTransition`; a cancellation checks a status read before its
   transaction and overwrites whatever the status has become, PAID included.
2. `deep_reorg`: `scanner.ts:34` says a deeper reorganisation resolves over
   several ticks; the rewound cursor takes the new branch's hash, so the next
   tick finds no difference.
3. `unaccounted`: the README says money is never unaccounted for; a second
   transfer still confirming when the first settles the invoice stays
   PENDING_CONFIRMATION for ever.
4. `poisoned_tick`: `monitor.service.ts:275` calls a settlement of an
   ineligible invoice a no-op; for an invoice in review it throws and ends the
   tick for every transfer behind it.
5. `webhook_starvation`: `dispatcher.ts:19` says a failed attempt that falls due
   gets a new row; rows already promoted still match the query, oldest first,
   and once they fill a batch nothing else is promoted.
6. `signing_ceiling`: `policy-signing-service.ts:75` says the ceilings are
   re-checked at approval because another request may have used the budget; the
   re-check counts spending up to the time the request was made, so a request
   made later and approved earlier is not counted.

### Bounds

- Amounts {2, 3} against 4 with 25 % tolerance (accepted 3 to 5) give an
  underpayment (2), an exact payment (3, or 2 + 3) and an overpayment (3 + 3).
  With `feeBps = 5000` the fee of 3 is rounded.
- `minDepositUnits = 2` lets every amount through; `BELOW_MINIMUM` and
  `UNSUPPORTED_ASSET` transfers touch no invoice and are covered by the proofs.
- `requiredConfirmations = 2` and `MaxTip = 4` are the least that let two
  transfers in different blocks reach their depth one after the other and a
  reorganisation replace a credited block.
- `blockBatchSize = 2` makes a catch-up take more than one tick.
- `MaxReorgs`, `MaxReorgDepth` and `MaxFaults` bound the environment only.
- Symmetry is used for transfers, for the pool and for workers, only in runs
  without liveness properties; their action properties treat the permuted
  values alike.
- In `webhooks` a batch of one makes events and retries stand in each other's way;
  two endpoints let a fan-out be interrupted between them. `MaxSubscriptions = 2`
  keeps the instance small: of the four pairs of an event and an endpoint at most
  two are subscribed, in every combination (one event to both endpoints, both
  events to one, an event to nobody). The safety properties are proved for
  every batch size; a larger batch only makes the two exceptions rarer.
- Two attempts and two events are the least with which one chain's failures
  disable an endpoint under the other, and with which a promoted row can stand
  in another's way; a second worker needs only one row to race for.
- `MaxUpdates`, `MaxCrashes` and `MaxErrors` bound the environment of the
  dispatcher.
- Signing: one request, three operators, quorum 2 and two calls at once are the
  least with which two approvals, or an approval and a rejection, overlap and
  the quorum can be met in more than one way; amount 4 exceeds the ceiling.
- Sessions: three rows let both tabs hold a rotated row beside the old one.
- Access: two users, one key and two requests let each change overlap another.
- Idempotency: three requests with two bodies, two handler runs per key (the
  second follows a failed first).
- Rate limiter: limit 2, window 2, clock to 4: two windows meet.
- Adapters: four blocks let the transaction be mined, replaced and buried, and
  the chain become shorter, during one call; two ticks overlap; one request fails, with a fallback.
- Rates: maximum age 1 below a cache lifetime of 3, so that a cached rate can be
  too old; prices and amounts whose quotient has a remainder.
- Ledger: two postings of amount 1, six sequence numbers, two runs, one
  alteration. The fee of 1 rounds to 0, so a posting has two legs; three legs
  are covered by the pipeline runs.
- Back office: three rows, pages of one and two.
- Processes: two networks, two requests.
- The services may all come to rest (every call made, every bound reached), so
  deadlock is not checked in these two runs.

### Fairness

In the pipeline only the scan loop is fair: `WF_vars(Tick)`. `runScanLoop` is an endless loop
that catches the error of a tick and starts the next, so a tick that can go on
does. Nothing is assumed of payers, the clock, the sweep, cancellations or
the growth of the chain: `DeepPaymentSettles` speaks of payments that are
already deep enough. The fair runs have `MaxFaults = 0`: a tick that died
for ever would settle nothing. (Nor would `CursorIsAccurate` hold: a tick that
dies after it recorded a transaction and before it saved the cursor leaves a
row that a reorganisation of one block then makes wrong, unnoticed.) In the dispatcher each worker is fair
(`runWebhookLoop` is the same kind of loop) and time passes: a retry falls due
and an orphaned row grows old. Endpoints may fail for ever.
In the services a call that has begun goes on (`AuthStep`, `AccessStep`,
`IdempotencyStep`, `PollStep`: an await resolves, or rejects by a timeout), an
access token expires, ticks end because their requests have timeouts, and a
process runs its own `main` and `shutdown`. No new call, no operator, no answer
over the network and no HTTP request is assumed to come or to finish.

## 4. What is proved

TLAPS checks every theorem for all values of the constants that satisfy the
named assumptions of the modules: any number of invoices, addresses, transfers,
requests, workers, calls and users, any amount, tolerance, fee, policy,
threshold and batch size, any number of faults.

| Module | Theorem | States |
|---|---|---|
| `PaymentPipelineProofs` | `PipelineInvariant` | `Spec => []PipelineInv`, the inductive invariant |
| | `TypeCorrect` | `TypeOK` |
| | `TransfersCreditedOnce` | `CreditedOnce` |
| | `PaidInvoicesFunded` | `PaidIsFunded` |
| | `PaidInvoicesAnnounced` | `PaidIsAnnounced` |
| | `OrphanedCreditsFrozen` | `OrphanedCreditFreezesInvoice` |
| | `AddressesUsedOnce` | `AddressUsedOnce` |
| | `AddressesNeverReassigned` | `AddressNeverReassigned` |
| | `CreditsAreForever` | `CreditIsForever` |
| | `InternalMovesLegal` | `InternalMovesFollowTable` |
| `ChainViewProofs` | `CreditsAreConfirmed` | `CreditIsConfirmed` |
| | `CursorStaysAccurate` | `CursorIsAccurate`, for reorganisations of one block and ticks that finish |
| `WebhookDispatcherProofs` | `DispatcherTypeCorrect` | `TypeOK` |
| | `AttemptsAreClaimed` | `AttemptSentOnce` |
| | `ChainsStayInOrder` | `ChainInOrder` |
| `WebhookPromiseProofs` | `HistoryStays` | `SettledRowsStay`, for one worker without database errors |
| | `PromiseKept` | `KeepsPromise` (the refinement), for the same |
| `SigningServiceProofs` | `NoSignatureBelowQuorum` | `SignatureHasQuorum` |
| | `SignedMeansAccounted` | `SignedIsAccounted` |
| `AccountProofs` | `TabsDoNotLogOut` | `CookieIsLive` |
| | `OwnerStays` | `OwnerRemains` |
| | `OwnersMakeOwners` | `PromotedByOwner` |
| | `OneInvoicePerKey` | `IdempotencyTypeOK`, `OneEffectPerKey` |
| `ServicesProofs` | `ComeBackWhenTold` | `RetryAfterKept` |
| | `BurstsAreBounded` | `BurstBounded` |
| | `PricesAreFresh` | `PriceIsFresh` |
| | `PricesAreFull` | `PricedInFull` |
| | `AdapterTellsTheTruth` | `AnswersAreTrue` |
| | `DiscoveryMissesNothing` | `DiscoveryComplete` |
| | `ListsAreComplete` | `PagesComplete` |
| `GatewayServicesProofs` | `ReconciliationIsExact` | `AlarmsAreExact` |
| | `ShutdownCutsNothingOff` | `TicksConnected` and `TornByTimeout`, the safety half of `DrainsCleanly` |
| | `ServicesKeepTypes` | `ServicesTypeOK` |
| | `ServicesKeepPromises` | every safety property of the services, of `ServicesSpec` |

The theorems about a service are about its module alone. `GatewayServices` runs
one service at a time, with the same actions; `ServicesKeepPromises` carries the
theorems over to it, so that they speak of the specification TLC checks.

### Assumptions and hypotheses

The assumptions are the ranges the schema and the configuration give their
columns, and that the values which stand for "nothing" (`NoRequest`, the hash
`"none"`) are not values of the thing. The operators of the signing service are
a finite set, because a quorum counts them, and so are the HTTP requests, which
the in-flight gauge counts; prices and amounts are decimals; the chain of the
adapters has room for a block and the ledger for the three legs of a posting;
there is a merchant to own the rows of a list.

Three theorems have hypotheses of their own, and each is needed:

- `HistoryStays` and `PromiseKept` assume one worker and no database error in
  `finalizeSuccess`. With two workers an unconditional ABANDONED write can hit a
  delivered row, and an error there is taken for a failed delivery; both are
  `findings`.
- `CursorStaysAccurate` assumes `MaxReorgDepth <= 1` (deeper reorganisations
  are the violation of `deep_reorg`) and `MaxFaults = 0` (section 3, Fairness).

### Induction

The library's induction rules take a predicate as a parameter, which the
provers cannot instantiate. The proofs use sets instead. `SmallestNumber`
(a set of numbers that is not empty has a smallest one) follows from the
library's theorem on well-founded relations; `NumbersByInduction` says that a
set with 0 and with the successor of each of its members has every number, and
`SubsetsByInduction` that a set of subsets of a finite set, with the empty one
and closed under adding an element, has all of them. What is to be shown is
written as membership, `{n \in Nat : ...}`. In this way powers of ten are defined
and positive (`powersOf10` is a recursive function), and the sum of a set of
ledger entries, a fold, is defined and grows by the amount of the entry added.

### The invariants

None of the properties is inductive as it stands. TLC has checked every invariant
below on instances like those of the runs.

*Pipeline.* `PipelineInv` adds to the properties:

- `RequestsHold`: an open creation holds an AVAILABLE row no other creation
  holds, for an invoice that does not exist. Without it two creations could
  assign one row, and `AddressUsedOnce` would fail.
- `MatchesAreOwned`: a matched transfer belongs to the owner of its address,
  and a candidate for credit is not orphaned. `CreditedOnce` and
  `OrphanedCreditFreezesInvoice` rest on it: a settlement credits candidates,
  and none of them is orphaned at that moment.
- `TickIsCurrent`: the rows an `updateConfirmations` loop has read are still
  matched (settlements of earlier rows may have credited them, nothing else
  changes them), and a rewind starts above block 0.

The argument for settlement: an invoice with a credit is in `Settled`, from
which the table gives the monitor no way to a second settlement, so a
settlement starts from an invoice without credits; it credits exactly the
confirmed transfers, whose total is in the band or accepted by policy; the same
step writes PAID and its webhook row. `Total` is treated as an unknown function
of a set: that the sum is taken over the same set on both sides is all the
argument needs. `InternalMovesLegal` adds `StatusesReached`, the statuses an
invoice of this pipeline can be in, and compares every move with the table.

*Chain view.* `DepthInv`: until a block is replaced the confirmations column is
at most the depth on the chain, since it is written with the adapter's answer
and blocks only come on top. `ScanInv` follows the scanner through a tick: when
its block still stands, everything up to it that was recorded is where the
chain has it (`SeenTo`); when it does not, only that last block can be wrong,
because a reorganisation replaces one block and a block that is gone never
returns, and the rewind orphans exactly what it holds (`RewindSound`).

*Dispatcher.* `DispatcherInv`: a worker that has claimed a row holds it alone,
neither another sender's nor a promoter's (`Exclusive`); what it sends is the
last row of its chain and has not been received; rows to recover are stale, and
a stale row has no sender. For one worker, `LoneInv` adds that what it read is
still so when it writes. The refinement maps a chain to its newest row
(`TopsInv`: there is one), and each statement of the dispatcher is opening or
closing a chain, recording a receipt, or a stutter.

*Idempotency keys.* `IdempotencyInv`: the row is a lock. Who runs the handler
holds the row alone; only a handler that created nothing deletes it; once an
invoice exists the row stays, completed or in progress for ever.

*Signing.* `SigningInv`: approvals are lost (two calls save over each other)
but never invented. Every list of approvals a row or a call holds names
different users, each of them in the audit log except the caller about to be
written there; the log only grows, so a list long enough when its call decides
is backed by as many entries when the key is used.

*Sessions.* `SessionsInv`: an answer under way names a live session that no
other call or cookie knows, so only its own arrival can make it the browser's;
if the cookie's session is revoked, such an answer is still on its way.

*Members.* `AccessInv`: who passed the guard of a member change has been an
owner; while no two changes have overlapped there is one change at a time, and
what it read of the other owners is still so.

*Rate limiter.* `RateInv`: a promise still to come is for the moment the key
expires, because a hit never prolongs it. `LogSound`: of the requests let
through, those before the window that runs came before its start, and all but
the last `limit` of them more than a window before its start. So a request let
through `2 * limit` after another is more than a window later.

*Rates.* `FreshInv`, `PriceInv`: each call is waiting, ended, or priced by a
rate that passed `assertFresh`, with an accepted amount and the formula of
`PriceInvoice`; that the formula covers the amount, and one unit less does not,
is a lemma about division with rounding up by a positive power of ten.

*Adapters.* `AdapterInv`: no block is twice on the chain; what a call has read
of the transaction was so at a moment of the call (`Witnessed`); unless a block
was replaced meanwhile the heights read still bound the depth (`DepthRead`); and
while the block discovery read still holds the transaction, what was read of it
says so (`BlockRead`), because a new block has a hash that was never used.

*Lists.* `BackOfficeInv`: while a client reads (`Reading`), the rows seen are in
order and each of them matched at some moment; the cursor is the last of them;
every row that matched all the while is seen or comes after the cursor. A page
takes the next rows after the cursor and skips none (`NextPage`).

*Ledger.* `LedgerInv`: the cached balance of an account is the sum of its
committed entries up to `cachedThroughSeq`, plus what was added from outside
(`CacheSound`). A posting that may still commit has only sequence numbers after
the caches of its accounts (`CreditSound`): its numbers were new when it began,
and a reconciler that moves the cache past them makes it fail to serialize. So
no entry slips in below a cache. A check that may still write has counted every
entry of its account, because a posting that commits meanwhile makes the check
fail (`Recounted`), and what was altered before a run is reported or still to be
checked (`RunCovered`). A posting with a leg of zero is refused by the table's
CHECK (`AmountPositive`): with a fee of 100 %, which `posting.ts` accepts, the
merchant's leg is zero and every posting rolls back.

*Processes.* `LifecycleInv`: the gauge is at least the number of requests without
an answer and at most the number that arrived (`GaugeSound`); a loop runs only in
a worker that serves, whose database is connected (`LoopsSound`); after the drain
a request is without an answer only if the timer won the race, and only after
that is one stranded (its database or Redis gone) or torn (its process gone)
(`RequestsSound`). The drain ends in one of two ways, all requests answered or
the timer, whatever the requests do meanwhile.

*Composition.* The services share no variable. A step of `ServicesNext` is a
step of one of them and leaves the others alone (`ServicesMove`), so the
conjunction of their invariants is inductive.

### Only model-checked

- Liveness under fairness (`DeepPaymentSettles`, `NotStranded`,
  `ChainSettlesUnlessOvertaken`, `EventReachesEndpoint`, `SuspensionBites`, `RevocationBites`,
  `KeyIsReleased`, `PollingCatchesUp`, and the half of `DrainsCleanly` that says
  a process stops): out of the prover's reach. What the formulas say about
  safety is proved where it can be separated (`ShutdownCutsNothingOff`).
- What a sum over a set of transfers computes in the pipeline (`Total`): the
  proofs need only that the same set is summed on both sides.

Every invariant and every safety property that a passing run checks is a
theorem.

## 5. Not modelled

- In the pipeline the two adapter calls of `processTransaction` see one chain. (A
  transaction that goes back to the mempool and is mined again between them
  would be recorded as MEMPOOL until its block is scanned again.) What happens
  between the requests of one adapter call is the subject of `ChainAdapters`.
- The reads of a membership request, the guard's and the handler's, are one step;
  its transaction is another.
- Cryptography (`packages/security`: hashing, encryption, HMAC, JWT bytes) and
  the SSRF guard: functions over bytes and DNS, without protocol state.
- Decoding of JSON-RPC payloads, address formats and checksums: data only.
- DTO validation, response mapping, logging and metrics: nothing reads them back.
- The web dashboard: a client; the API enforces every rule again.
- The registration of merchant addresses: it adds rows to the pool, which the
  pipeline takes as a constant set.
- Branches of the payment rules that no service takes, and the confirmation
  progress shown to payers.
- Seed data, demo, load and smoke tests, and deployment files.
