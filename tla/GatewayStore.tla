---------------------------- MODULE GatewayStore -----------------------------
(***************************************************************************)
(* The database the services share (packages/database/prisma/schema.prisma)*)
(* reduced to the tables and columns the payment pipeline decides on, the  *)
(* state the services keep between two database transactions, the chain    *)
(* the monitor observes and the clock.  Every service module EXTENDS this  *)
(* one and adds its operations.                                            *)
(*                                                                         *)
(* A database transaction is one step: runInTransaction is Serializable    *)
(* and retried (packages/database/src/client.ts), so its reads and writes  *)
(* take effect together.  What a service reads OUTSIDE its transaction and *)
(* uses inside is kept in a variable between two steps.                    *)
(***************************************************************************)
EXTENDS PaymentRules, Sequences, FiniteSets

CONSTANTS
  Invoices,    \* one per (merchant, order_id)
  Addresses,   \* the merchant's registered deposit-address pool
  Transfers,   \* on-chain transfers, one per transaction
  Requests,    \* concurrent POST /v1/invoices/:id/cancel requests
  NoInvoice,   \* a null invoice_id
  NoAddress,   \* no address
  cryptoAmount, underpaymentToleranceBps, overpaymentToleranceBps,
  requiredConfirmations,
  AcceptPartial,     \* merchant.underpaymentPolicy = 'ACCEPT_PARTIAL'
  AcceptFull,        \* merchant.overpaymentPolicy = 'ACCEPT_FULL'
  feeBps,            \* merchant.feeBps
  minDepositUnits,   \* the asset's dust threshold
  MaxTip             \* bound: height of the longest chain considered

ASSUME StoreConstants ==
  /\ NoInvoice \notin Invoices
  /\ NoAddress \notin Addresses
  /\ cryptoAmount \in Nat \ {0}
  /\ underpaymentToleranceBps \in 0..10000
  /\ overpaymentToleranceBps \in 0..10000
  /\ requiredConfirmations \in Nat \ {0}
  /\ AcceptPartial \in BOOLEAN
  /\ AcceptFull \in BOOLEAN
  /\ feeBps \in 0..10000
  /\ minDepositUnits \in Nat \ {0}
  /\ MaxTip \in Nat \ {0}

Heights == 1..MaxTip

VARIABLES
  \* invoices, webhook_events, payment_addresses
  status,      \* invoices.status; "none" while the row does not exist
  webhooks,    \* webhook_events: <<status announced, invoice>>
  addressStatus, addressInvoice,
  \* blockchain_transactions
  txStatus, blockNumber,
  \* token_transfers
  matchStatus, invoiceId, confirmations, creditedAt,
  \* ledger_transactions, reconciliation_discrepancies
  ledger,      \* the postings under each transfer's idempotency key
  discrepancies,
  \* chain_cursors
  cursor,      \* last block processed and the hash it had
  \* kept between two transactions
  creating,    \* address row locked by an invoice creation in progress
  cancelling,  \* invoice each cancel request found cancellable when it read it
  monitor,     \* what the monitor's tick is in the middle of
  \* environment
  phase,       \* the clock against each invoice's deadline
  payment,     \* destination, amount and asset each transfer has once sent
  minedAt,     \* block holding each transfer on the canonical chain, 0 if none
  chainTip,
  blockHash,   \* the fork each height of the canonical chain belongs to: two
               \* blocks of one height have the same hash iff they are of one fork
  reorgs,      \* reorganisations so far; names the fork new blocks belong to
  faults       \* ticks that have died half-way so far

invoiceVars  == <<status, webhooks>>
addressVars  == <<addressStatus, addressInvoice>>
txVars       == <<txStatus, blockNumber>>
transferVars == <<matchStatus, invoiceId, confirmations, creditedAt>>
ledgerVars   == <<ledger, discrepancies>>
requestVars  == <<creating, cancelling>>
chainVars    == <<payment, minedAt, chainTip, blockHash, reorgs>>
storeVars    == <<invoiceVars, addressVars, txVars, transferVars, ledgerVars>>
worldVars    == <<chainVars, phase, faults>>

-----------------------------------------------------------------------------

(***************************************************************************)
(* Moving an invoice to status `to` through the statuses `entered`: the    *)
(* status column, and one webhook_events row per announced status, where   *)
(* an upsert on the idempotency key `<type>:<invoice>` makes a repeated    *)
(* announcement a no-op (emitWebhook).  The payment_events row of each     *)
(* edge (recordEvent) is written in the same transaction; nothing in the   *)
(* pipeline reads it back, so it is left out.                              *)
(***************************************************************************)
MoveInvoice(i, to, entered) ==
  /\ status' = [status EXCEPT ![i] = to]
  /\ webhooks' = webhooks \cup {<<e, i>> : e \in UNION {webhookEventForStatus(s) : s \in entered}}

\* Operations that insert the webhook row with create, not upsert, fail on
\* the unique idempotency key when the event was announced before.
WebhookConflict(i, s) == \E e \in webhookEventForStatus(s) : <<e, i>> \in webhooks
=============================================================================
