--------------------------- MODULE PaymentPipeline ---------------------------
(***************************************************************************)
(* The payment pipeline: the API, the expiry worker and one blockchain     *)
(* monitor over one database, a chain that grows and reorganises, payers   *)
(* and the clock.  All invoices are of one merchant, on one network, in    *)
(* one payment asset, and each is asked for the same amount.               *)
(***************************************************************************)
EXTENDS ChainScanner, InvoicesService

CONSTANTS
  Amounts,       \* amounts a payer may send
  Assets,        \* "PAYMENT", another allowlisted asset, or "UNKNOWN"
  MaxReorgDepth, \* bound: blocks one reorganisation may replace
  MaxReorgs      \* bound: reorganisations

ASSUME PipelineConstants ==
  /\ Amounts \subseteq Nat \ {0}
  /\ Assets \subseteq {"PAYMENT", "OTHER", "UNKNOWN"}
  /\ MaxReorgDepth \in Nat
  /\ MaxReorgs \in Nat

vars == <<storeVars, requestVars, monitor, cursor, worldVars>>

Payment == [to : Addresses, amount : Amounts, asset : Assets]

-----------------------------------------------------------------------------
(* The world outside the gateway.                                          *)

\* The clock passes an invoice's deadline, then the end of its grace period.
AdvanceClock(i) ==
  /\ status[i] # "none"
  /\ phase[i] # "late"
  /\ phase' = [phase EXCEPT ![i] = IF @ = "open" THEN "due" ELSE "late"]
  /\ UNCHANGED <<storeVars, requestVars, monitor, cursor, chainVars, faults>>

\* A block is added to the chain; it holds the transfers B, sent by payers
\* who have been given the address, for the first time or again after a
\* reorganisation dropped them.
MineBlock(B) ==
  /\ chainTip < MaxTip
  /\ \A t \in B : minedAt[t] = 0 /\ addressStatus[payment[t].to] # "AVAILABLE"
  /\ chainTip' = chainTip + 1
  /\ minedAt' = [t \in Transfers |-> IF t \in B THEN chainTip + 1 ELSE minedAt[t]]
  /\ UNCHANGED <<storeVars, requestVars, monitor, cursor, phase, payment,
                 blockHash, reorgs, faults>>

\* The blocks from height f up are replaced by a branch that ends at `tip`;
\* each transfer they held is in a block of that branch or in none.
Reorg(f, tip) ==
  LET replaced == {t \in Transfers : minedAt[t] >= f}
  IN /\ reorgs < MaxReorgs
     /\ chainTip < f + MaxReorgDepth
     /\ tip <= chainTip + 1
     /\ \E place \in [replaced -> {0} \cup f..tip] :
          minedAt' = [t \in Transfers |->
                        IF t \in replaced THEN place[t] ELSE minedAt[t]]
     /\ chainTip' = tip
     /\ blockHash' = [h \in Heights |-> IF h < f THEN blockHash[h] ELSE reorgs + 1]
     /\ reorgs' = reorgs + 1
     /\ UNCHANGED <<storeVars, requestVars, monitor, cursor, phase, payment, faults>>

-----------------------------------------------------------------------------

\* The monitor has been started on this network (loadCursor has created the
\* cursor one block below the tip) and no invoice exists yet.
Init ==
  /\ status = [i \in Invoices |-> "none"]
  /\ webhooks = {}
  /\ addressStatus = [a \in Addresses |-> "AVAILABLE"]
  /\ addressInvoice = [a \in Addresses |-> NoInvoice]
  /\ txStatus = [t \in Transfers |-> "none"]
  /\ blockNumber = [t \in Transfers |-> 0]
  /\ matchStatus = [t \in Transfers |-> "none"]
  /\ invoiceId = [t \in Transfers |-> NoInvoice]
  /\ confirmations = [t \in Transfers |-> 0]
  /\ creditedAt = [t \in Transfers |-> FALSE]
  /\ ledger = [t \in Transfers |-> <<>>]
  /\ discrepancies = {}
  /\ cursor = [block |-> 0, hash |-> NoHash]
  /\ creating = [i \in Invoices |-> NoAddress]
  /\ cancelling = [r \in Requests |-> NoInvoice]
  /\ monitor = Idle
  /\ phase = [i \in Invoices |-> "open"]
  /\ payment \in [Transfers -> Payment]
  /\ minedAt = [t \in Transfers |-> 0]
  /\ chainTip = 1
  /\ blockHash = [h \in Heights |-> 0]
  /\ reorgs = 0
  /\ faults = 0

\* One step of the monitor's scan loop.
Tick ==
  \/ beginTick \/ rewindCursor \/ scanBlock \/ saveCursor \/ endTick
  \/ \E t \in Transfers : \/ processTransaction(t) \/ confirmTransfer(t)
                          \/ confirmFails(t) \/ orphanTransaction(t)

\* One step of an API request or of the worker's sweep.
Serve ==
  \/ \E i \in Invoices : \/ \E a \in Addresses : reserveAddress(i, a)
                         \/ createInvoice(i) \/ createFails(i)
                         \/ expireOne(i) \/ loadAndMaybeExpire(i)
  \/ \E r \in Requests : \/ \E i \in Invoices : readForCancel(r, i)
                         \/ cancelInvoice(r) \/ cancelFails(r)

World ==
  \/ \E i \in Invoices : AdvanceClock(i)
  \/ \E B \in SUBSET Transfers : MineBlock(B)
  \/ \E f \in 2..MaxTip : \E tip \in f..MaxTip : Reorg(f, tip)

Next == Tick \/ tickFails \/ Serve \/ World

Spec == Init /\ [][Next]_vars

\* The scan loop runs for ever (runScanLoop): a tick that has begun goes on,
\* and a new one begins after it.  Nothing is assumed of payers, merchants,
\* the sweep, the clock or the chain.
FairSpec == Spec /\ WF_vars(Tick)

-----------------------------------------------------------------------------
(* Types                                                                   *)

Posting == [invoice : Invoices, fee : Nat, net : Nat]

StoreTypeOK ==
  /\ status \in [Invoices -> InvoiceStatus \cup {"none"}]
  /\ webhooks \subseteq WebhookStatuses \X Invoices
  /\ addressStatus \in [Addresses -> {"AVAILABLE", "ASSIGNED", "RETIRED"}]
  /\ addressInvoice \in [Addresses -> Invoices \cup {NoInvoice}]
  /\ txStatus \in [Transfers -> {"none", "MINED", "ORPHANED"}]
  /\ blockNumber \in [Transfers -> 0..MaxTip]
  /\ matchStatus \in [Transfers -> TransferMatchStatus \cup {"none"}]
  /\ invoiceId \in [Transfers -> Invoices \cup {NoInvoice}]
  /\ confirmations \in [Transfers -> Nat]
  /\ creditedAt \in [Transfers -> BOOLEAN]
  /\ ledger \in [Transfers -> Seq(Posting)]
  /\ discrepancies \subseteq Transfers

ServiceTypeOK ==
  /\ creating \in [Invoices -> Addresses \cup {NoAddress}]
  /\ cancelling \in [Requests -> Invoices \cup {NoInvoice}]
  /\ cursor \in [block : 0..MaxTip, hash : Int]
  /\ monitor \in [job : {"idle", "scan", "confirm", "reorg"}, tip : 0..MaxTip,
                  at : 0..MaxTip, hash : Int,
                  tracked : SUBSET Addresses, work : SUBSET Transfers]

WorldTypeOK ==
  /\ phase \in [Invoices -> DeadlinePhase]
  /\ payment \in [Transfers -> Payment]
  /\ minedAt \in [Transfers -> 0..MaxTip]
  /\ chainTip \in Heights
  /\ blockHash \in [Heights -> Nat]
  /\ reorgs \in Nat
  /\ faults \in Nat

\* The type invariant: every column holds a value its enum or key allows, and
\* the cursor never runs past the longest chain.
TypeOK == StoreTypeOK /\ ServiceTypeOK /\ WorldTypeOK

-----------------------------------------------------------------------------
(* Safety                                                                  *)

\* Where an invoice can be once money has been credited for it.
Settled == {"PAID", "RECONCILIATION_REQUIRED", "CANCELLED", "LATE_PAYMENT_REVIEW"}

\* The transfers credited for invoice i.
creditedTo(i) == {t \in Transfers : creditedAt[t] /\ invoiceId[t] = i}

\* One credit per transfer, for ever: a transfer is marked credited exactly
\* when the ledger holds a posting for it, never two, for the invoice that
\* owns the address it paid, and the posting splits what was received.
CreditedOnce ==
  \A t \in Transfers :
    /\ creditedAt[t] <=> matchStatus[t] = "CREDITED"
    /\ IF creditedAt[t]
       THEN LET p == ledger[t][1]
            IN /\ Len(ledger[t]) = 1
               /\ p.invoice = invoiceId[t]
               /\ p.invoice = addressInvoice[payment[t].to]
               /\ p.net + p.fee = payment[t].amount
               /\ p.net > 0
       ELSE ledger[t] = <<>>

\* An amount the merchant has agreed to: inside the accepted band, below it
\* under ACCEPT_PARTIAL, or above it under ACCEPT_FULL.
Acceptable(received) ==
  LET short  == received < minimumAccepted(cryptoAmount, underpaymentToleranceBps)
      excess == received > maximumAccepted(cryptoAmount, overpaymentToleranceBps)
  IN \/ ~short /\ ~excess
     \/ short /\ AcceptPartial
     \/ excess /\ AcceptFull

\* finalizeInvoice credits only what lands on PAID: a PAID invoice has been
\* credited an amount inside the accepted band, or outside it on the side
\* the merchant's policy accepts, and nothing is credited to an invoice that
\* is still open, so a second settlement can never add to the first.
PaidIsFunded ==
  \A i \in Invoices :
    /\ status[i] = "PAID" => creditedTo(i) # {} /\ Acceptable(Total(creditedTo(i)))
    /\ creditedTo(i) # {} => status[i] \in Settled

\* The merchant is told payment.paid exactly when the ledger has been
\* credited: no reorganisation, rescan or failed tick announces a payment
\* that was not posted or posts one without announcing it.
PaidIsAnnounced ==
  \A i \in Invoices : <<"PAID", i>> \in webhooks <=> creditedTo(i) # {}

\* A credit whose transaction was orphaned never stays on a PAID invoice: the
\* step that orphans it freezes the invoice for an operator.
OrphanedCreditFreezesInvoice ==
  \A t \in Transfers :
    creditedAt[t] /\ txStatus[t] = "ORPHANED" => status[invoiceId[t]] # "PAID"

\* Once credited, a transfer keeps its posting, its invoice and its
\* classification whatever is rescanned or reorganised later.
CreditIsForever ==
  [][\A t \in Transfers : creditedAt[t] =>
       /\ creditedAt'[t]
       /\ ledger'[t] = ledger[t]
       /\ invoiceId'[t] = invoiceId[t]
       /\ matchStatus'[t] = matchStatus[t]]_vars

\* As long as the chain has not been reorganised, a transfer is credited only
\* once the chain holds it at the required depth, although a settlement looks
\* up one transfer and trusts the confirmations column of the others.
CreditIsConfirmed ==
  [][\A t \in Transfers : creditedAt'[t] /\ ~creditedAt[t] /\ reorgs = 0 =>
       getConfirmations(t) >= requiredConfirmations]_vars

\* A walk along edges of the transition table the actor may take, at most
\* three in one transaction.
Edge(s, to, actor) == s \in InvoiceStatus /\ assertTransition(s, to, actor)
Walk(s, to, actor) ==
  \/ Edge(s, to, actor)
  \/ \E u \in InvoiceStatus : Edge(s, u, actor) /\ Edge(u, to, actor)
  \/ \E u, v \in InvoiceStatus : Edge(s, u, actor) /\ Edge(u, v, actor) /\ Edge(v, to, actor)

\* "Every status change in the system goes through assertTransition": an
\* invoice starts PENDING and afterwards moves only along the table, by an
\* actor the table allows.
StatusFollowsTable ==
  [][\A i \in Invoices : status'[i] # status[i] =>
       \/ status[i] = "none" /\ status'[i] = "PENDING"
       \/ Walk(status[i], status'[i], "monitor")
       \/ Edge(status[i], status'[i], "system")
       \/ Edge(status[i], status'[i], "merchant")]_vars

\* The same for every actor but the cancelling merchant.
InternalMovesFollowTable ==
  [][\A i \in Invoices : status'[i] # status[i] =>
       \/ status[i] = "none" /\ status'[i] = "PENDING"
       \/ Walk(status[i], status'[i], "monitor")
       \/ Edge(status[i], status'[i], "system")
       \/ \E r \in Requests : cancelling[r] = i /\ status'[i] = "CANCELLED"]_vars

\* An address belongs to one invoice for life and an invoice to one address:
\* two creations racing for the pool never share a row, and neither expiry
\* nor cancellation returns an address to it.
AddressUsedOnce ==
  /\ \A a \in Addresses : addressStatus[a] = "AVAILABLE" <=> addressInvoice[a] = NoInvoice
  /\ \A a, b \in Addresses :
       addressInvoice[a] = addressInvoice[b] => a = b \/ addressInvoice[a] = NoInvoice
  /\ \A i \in Invoices :
       status[i] # "none" <=> \E a \in Addresses : addressInvoice[a] = i

\* The invoice an address was handed to is never replaced or forgotten: money
\* that arrives after expiry or cancellation still finds its invoice.
AddressNeverReassigned ==
  [][\A a \in Addresses : addressInvoice[a] # NoInvoice =>
       addressInvoice'[a] = addressInvoice[a]]_vars

-----------------------------------------------------------------------------
(* The inductive invariant behind the safety properties.                   *)

\* A creation in progress holds an AVAILABLE row nobody else holds, for an
\* invoice that does not exist yet; a cancellation is of one that does.
RequestsHold ==
  /\ \A i \in Invoices : creating[i] # NoAddress =>
       /\ status[i] = "none"
       /\ addressStatus[creating[i]] = "AVAILABLE"
       /\ \A j \in Invoices : creating[j] = creating[i] => j = i
  /\ \A r \in Requests : cancelling[r] # NoInvoice => status[cancelling[r]] # "none"

\* A recorded transfer belongs to the invoice that owns its destination, and
\* is off the list of candidates for credit once its transaction is orphaned.
MatchesAreOwned ==
  \A t \in Transfers :
    /\ invoiceId[t] # NoInvoice => invoiceId[t] = addressInvoice[payment[t].to]
    /\ matchStatus[t] \in {"PENDING_CONFIRMATION", "CREDITED"} => invoiceId[t] # NoInvoice
    /\ matchStatus[t] = "PENDING_CONFIRMATION" => txStatus[t] = "MINED"

\* The rows updateConfirmations read stay matched while its loop runs, and a
\* rewind starts above block 0.
TickIsCurrent ==
  /\ monitor.job = "confirm" =>
       \A t \in monitor.work : matchStatus[t] \in {"PENDING_CONFIRMATION", "CREDITED"}
  /\ monitor.job = "reorg" => monitor.at >= 1

PipelineInv ==
  /\ TypeOK /\ AddressUsedOnce /\ RequestsHold /\ MatchesAreOwned /\ TickIsCurrent
  /\ CreditedOnce /\ PaidIsFunded /\ PaidIsAnnounced /\ OrphanedCreditFreezesInvoice

-----------------------------------------------------------------------------
(* Scanner                                                                 *)

\* The payment t is one the pipeline should settle: a known asset, enough of
\* it, to the address of invoice i.
pays(t, i) == addressInvoice[payment[t].to] = i /\ meetsMinimum(t)

deep(t) == getConfirmations(t) >= requiredConfirmations

\* Between ticks, when the cursor's block is still on the chain, the recorded
\* transactions up to the cursor are where the chain has them.
CursorIsAccurate ==
  monitor = Idle /\ ~checkForReorg =>
    \A t \in Transfers :
      txStatus[t] = "MINED" /\ blockNumber[t] <= cursor.block => minedAt[t] = blockNumber[t]

-----------------------------------------------------------------------------
(* Liveness                                                                *)

\* A payment that is deep enough on the chain does not leave its invoice
\* waiting: the scanner finds it and the confirmation engine settles it, or
\* it is classified as late.
DeepPaymentSettles ==
  \A t \in Transfers, i \in Invoices :
    deep(t) /\ pays(t, i)
      ~> \/ ~deep(t)
         \/ matchStatus[t] = "LATE_PAYMENT_REVIEW"
         \/ status[i] \notin {"PENDING", "DETECTED", "CONFIRMING"}

\* An invoice does not wait for ever for a payment the chain has dropped.
NotStranded ==
  \A i \in Invoices :
    status[i] \in {"DETECTED", "CONFIRMING"}
      ~> \/ status[i] \notin {"DETECTED", "CONFIRMING"}
         \/ \E t \in Transfers : pays(t, i) /\ minedAt[t] # 0

\* "Money is never unaccounted for": a payment that is deep on the chain is
\* eventually credited or in front of a person, by its own classification or
\* by its invoice's status.
NoMoneyUnaccounted ==
  \A t \in Transfers, i \in Invoices :
    deep(t) /\ pays(t, i)
      ~> \/ ~deep(t)
         \/ creditedAt[t]
         \/ matchStatus[t] = "LATE_PAYMENT_REVIEW"
         \/ status[i] \in REVIEW_STATUSES

\* finalizeInvoice is a no-op for an invoice that is not eligible: no
\* transfer awaiting confirmations makes updateConfirmations throw.
NoPoisonedTick ==
  monitor.job = "confirm" =>
    \A t \in monitor.work :
      ~confirmThrows(status[invoiceId[t]], getConfirmations(t),
                     settling(t, getConfirmations(t)))

=============================================================================
