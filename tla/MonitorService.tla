--------------------------- MODULE MonitorService ----------------------------
(***************************************************************************)
(* apps/blockchain-monitor/src/monitor.service.ts: recording the transfers *)
(* of a transaction, the confirmation engine, settlement and reorg         *)
(* handling.  A tick of the scanner (module ChainScanner) calls these one  *)
(* after another, in one process per network.  `monitor` is the tick's     *)
(* local state:                                                            *)
(*   job      the loop it is in ("idle" between ticks)                     *)
(*   tip      the chain tip read when it began                             *)
(*   at, hash the last block read and its hash; in "reorg", the block      *)
(*            found replaced                                               *)
(*   tracked  the deposit addresses loaded                                 *)
(*   work     the rows the current loop has left                           *)
(***************************************************************************)
EXTENDS GatewayStore, FiniteSetsExt

NoHash == -1

Idle == [job |-> "idle", tip |-> 0, at |-> 0, hash |-> NoHash,
         tracked |-> {}, work |-> {}]

\* The loop has handled t.
Done(t) == [monitor EXCEPT !.work = @ \ {t}]

-----------------------------------------------------------------------------
(* The chain as the adapter reports it.                                    *)

\* adapter.getConfirmations: 0 for a transaction no longer on the chain.
getConfirmations(t) ==
  IF minedAt[t] = 0 THEN 0 ELSE countConfirmations(minedAt[t], chainTip)

\* resolveTransferAsset finds an allowlisted asset for the token contract.
assetRecognized(t) == payment[t].asset # "UNKNOWN"

meetsMinimum(t) == assetRecognized(t) /\ payment[t].amount >= minDepositUnits

-----------------------------------------------------------------------------
(* Detection and matching                                                  *)

\* advanceOnFirstSighting and moveToLatePaymentReview: each is skipped when
\* the table has no edge from the invoice's current status.
advanceOnFirstSighting(i) ==
  IF canTransition(status[i], "DETECTED")
  THEN MoveInvoice(i, "DETECTED", {"DETECTED"})
  ELSE UNCHANGED invoiceVars

\* (Mutant: the guard is missing.)
moveUnguarded(i) == MoveInvoice(i, "LATE_PAYMENT_REVIEW", {})
moveToLatePaymentReview(i) ==
  IF canTransition(status[i], "LATE_PAYMENT_REVIEW")
  THEN MoveInvoice(i, "LATE_PAYMENT_REVIEW", {})
  ELSE UNCHANGED invoiceVars

\* getTransaction and getTransfers answer from one view of the chain here, so
\* a transaction with transfers is in a block and was not reverted.
recordChainTransaction(t) ==
  /\ txStatus' = [txStatus EXCEPT ![t] = "MINED"]
  /\ blockNumber' = [blockNumber EXCEPT ![t] = minedAt[t]]

\* A credited transfer keeps its classification however often its block is
\* scanned again.  (Mutant: the replay check is missing.)
noReplayCheck(t) == FALSE
alreadyCredited(t) == creditedAt[t]

\* Any other row is judged afresh against the invoice that owns the
\* destination.
recordTransfer(t) ==
  LET i        == addressInvoice[payment[t].to]
      decision == evaluateTransferMatch(
                    assetRecognized(t), meetsMinimum(t),
                    IF i = NoInvoice THEN "none" ELSE status[i],
                    i # NoInvoice /\ ~isWithinGrace(phase[i]))
  IN IF alreadyCredited(t)
     THEN UNCHANGED <<transferVars, invoiceVars>>
     ELSE /\ matchStatus' = [matchStatus EXCEPT ![t] = decision]
          /\ invoiceId' = [invoiceId EXCEPT ![t] = i]
          /\ confirmations' = [confirmations EXCEPT ![t] = getConfirmations(t)]
          /\ UNCHANGED creditedAt
          /\ CASE decision = "PENDING_CONFIRMATION" -> advanceOnFirstSighting(i)
               [] decision = "LATE_PAYMENT_REVIEW"  -> moveToLatePaymentReview(i)
               [] OTHER                             -> UNCHANGED invoiceVars

\* processTransaction for a candidate of the running scan.  The transaction
\* is fetched anew: if a reorganisation has dropped it meanwhile, there is
\* nothing to record.
processTransaction(t) ==
  /\ monitor.job = "scan"
  /\ t \in monitor.work
  /\ IF minedAt[t] = 0
     THEN UNCHANGED <<txVars, transferVars, invoiceVars>>
     ELSE recordChainTransaction(t) /\ recordTransfer(t)
  /\ monitor' = Done(t)
  /\ UNCHANGED <<addressVars, ledgerVars, requestVars, cursor, worldVars>>

-----------------------------------------------------------------------------
(* Confirmation engine                                                     *)

\* updateConfirmations: the rows still awaiting confirmations.
pendingTransfers ==
  {t \in Transfers : matchStatus[t] = "PENDING_CONFIRMATION" /\ ~creditedAt[t]}

\* advanceConfirming: where an invoice in status s is with n confirmations.
advanceConfirming(s, n) ==
  IF n >= 1 /\ canTransition(s, "CONFIRMING") THEN "CONFIRMING" ELSE s

\* finalizeInvoice's confirmedTransfers that reached the threshold, given the
\* confirmations column `conf`.  (Mutant: the filter is missing.)
matchedTransfers(i, conf) ==
  {t \in Transfers : /\ invoiceId[t] = i
                     /\ matchStatus[t] \in {"CREDITED", "PENDING_CONFIRMATION"}}
confirmedTransfers(i, conf) ==
  {t \in Transfers : /\ invoiceId[t] = i
                     /\ matchStatus[t] \in {"CREDITED", "PENDING_CONFIRMATION"}
                     /\ conf[t] >= requiredConfirmations}

SumOver(f, S) == MapThenSumSet(LAMBDA t : f[t], S)

\* What the transfers S bring in.
Total(S) == SumOver([t \in Transfers |-> payment[t].amount], S)

\* The status evaluatePayment asks for once the transfers S are confirmed.
settlementTarget(S) ==
  statusForOutcome(evaluatePayment(cryptoAmount, Total(S),
                     underpaymentToleranceBps, overpaymentToleranceBps))

\* The merchant's policy takes this target all the way to PAID.
autoAccept(target) ==
  \/ target = "PAID"
  \/ target = "OVERPAID" /\ AcceptFull
  \/ target = "UNDERPAID" /\ AcceptPartial

\* finalizeInvoice is called, with the confirmed transfers S, and gets past
\* its early returns for an invoice in status s: the guards ask canTransition,
\* which does not look at the actor.
settles(s, S) ==
  /\ S # {}
  /\ \E to \in {"PAID", "UNDERPAID", "OVERPAID"} : canTransition(s, to)
  /\ Total(S) # 0
  /\ canTransition(s, settlementTarget(S))

\* Where finalizeInvoice leaves an invoice in status s.
settledStatus(s, S) ==
  IF ~settles(s, S) THEN s
  ELSE IF autoAccept(settlementTarget(S)) THEN "PAID"
  ELSE settlementTarget(S)

\* The transfers finalizeInvoice posts to the ledger.  (Mutants: every outcome
\* is credited; an outcome accepted by policy is not.)
creditedWithoutPolicy(s, S) == IF settles(s, S) THEN S ELSE {}
creditedWhenExact(s, S) ==
  IF settles(s, S) /\ settlementTarget(S) = "PAID" THEN S ELSE {}
creditedBy(s, S) ==
  IF settles(s, S) /\ autoAccept(settlementTarget(S)) THEN S ELSE {}

\* postPaymentCredit: nothing is posted when the idempotency key exists.  The
\* fee is rounded down and the remainder is the merchant's.  (Mutant: the
\* merchant is credited the gross amount.)
postGrossCredit(i, t) ==
  IF ledger[t] # <<>> THEN ledger[t]
  ELSE <<[invoice |-> i, fee |-> percentageBps(payment[t].amount, feeBps),
          net |-> payment[t].amount]>>
postPaymentCredit(i, t) ==
  LET gross == payment[t].amount
      fee   == percentageBps(gross, feeBps)
  IN IF ledger[t] # <<>> THEN ledger[t]
     ELSE Append(ledger[t], [invoice |-> i, fee |-> fee, net |-> gross - fee])

\* CHECK (amount > 0) on ledger_entries rejects a posting with no net leg.
postable(t) ==
  ledger[t] # <<>> \/ payment[t].amount > percentageBps(payment[t].amount, feeBps)

\* The transaction for an invoice in status s throws, for a transfer with n
\* confirmations: assertTransition refuses the monitor a move canTransition
\* let through, or a posting is rejected.
confirmThrows(s, n, S) ==
  LET t == advanceConfirming(s, n)
  IN \/ t # s /\ ~assertTransition(s, t, "monitor")
     \/ /\ settles(t, S)
        /\ \/ ~assertTransition(t, settlementTarget(S), "monitor")
           \/ \E u \in creditedBy(t, S) : ~postable(u)

\* What finalizeInvoice sums for transfer t's invoice when t has n
\* confirmations; below the threshold it is not called.
settling(t, n) ==
  IF isConfirmed(n, requiredConfirmations)
  THEN confirmedTransfers(invoiceId[t], [confirmations EXCEPT ![t] = n])
  ELSE {}

\* One iteration of updateConfirmations: the transaction for transfer t,
\* which moves the invoice to CONFIRMING and, when t has reached the
\* threshold, settles the invoice with every transfer that has.
confirmTransfer(t) ==
  LET i    == invoiceId[t]
      n    == getConfirmations(t)
      s    == advanceConfirming(status[i], n)
      S    == settling(t, n)
      entered == ({s} \ {status[i]})
                 \cup (IF settles(s, S) THEN {settlementTarget(S), settledStatus(s, S)}
                       ELSE {})
      credited == creditedBy(s, S)
      fresh    == {u \in credited : ledger[u] = <<>>}
  IN /\ monitor.job = "confirm"
     /\ t \in monitor.work
     /\ ~confirmThrows(status[i], n, S)
     /\ confirmations' = [confirmations EXCEPT ![t] = n]
     /\ MoveInvoice(i, settledStatus(s, S), entered)
     /\ ledger' = [u \in Transfers |->
                     IF u \in credited THEN postPaymentCredit(i, u) ELSE ledger[u]]
     /\ matchStatus' = [u \in Transfers |->
                          IF u \in fresh THEN "CREDITED" ELSE matchStatus[u]]
     /\ creditedAt' = [u \in Transfers |-> creditedAt[u] \/ u \in fresh]
     /\ monitor' = Done(t)
     /\ UNCHANGED <<addressVars, txVars, invoiceId, discrepancies, requestVars,
                    cursor, worldVars>>

\* The transaction for transfer t throws and rolls back, and the exception
\* ends updateConfirmations and the tick: the rows left are not looked at.
confirmFails(t) ==
  LET n == getConfirmations(t)
  IN /\ monitor.job = "confirm"
     /\ t \in monitor.work
     /\ confirmThrows(status[invoiceId[t]], n, settling(t, n))
     /\ monitor' = Idle
     /\ UNCHANGED <<storeVars, requestVars, cursor, worldVars>>

-----------------------------------------------------------------------------
(* Reorg handling                                                          *)

\* handleReorg(fromBlock): the recorded transactions it will orphan.  (Mutant:
\* the replaced block itself is left out.)
orphanedTxsAbove(fromBlock) ==
  {t \in Transfers : txStatus[t] = "MINED" /\ blockNumber[t] > fromBlock}
orphanedTxs(fromBlock) ==
  {t \in Transfers : txStatus[t] = "MINED" /\ blockNumber[t] >= fromBlock}

\* revertInvoiceAfterOrphan, once transfer t itself is ORPHANED.  (Mutant: t
\* is still counted as a transfer that remains.)
revertCountingOrphan(i, t) ==
  IF canTransition(status[i], "DETECTED") THEN MoveInvoice(i, "DETECTED", {})
  ELSE UNCHANGED invoiceVars
revertInvoiceAfterOrphan(i, t) ==
  LET remaining == {u \in Transfers \ {t} : /\ invoiceId[u] = i
                                            /\ matchStatus[u] = "PENDING_CONFIRMATION"}
      target == IF remaining # {} THEN "DETECTED" ELSE "PENDING"
  IN IF canTransition(status[i], target)
     THEN MoveInvoice(i, target, {})
     ELSE UNCHANGED invoiceVars

\* flagOrphanedCredit: freeze the invoice and open a discrepancy, unless the
\* table has no edge to RECONCILIATION_REQUIRED from where the invoice is.
\* (Mutant: the invoice is not frozen.)
flagWithoutFreezing(i, t) ==
  /\ discrepancies' = discrepancies \cup {t}
  /\ UNCHANGED invoiceVars
flagOrphanedCredit(i, t) ==
  IF canTransition(status[i], "RECONCILIATION_REQUIRED")
  THEN /\ MoveInvoice(i, "RECONCILIATION_REQUIRED", {})
       /\ discrepancies' = discrepancies \cup {t}
  ELSE UNCHANGED <<invoiceVars, discrepancies>>

\* One iteration of handleReorg: the transaction that orphans t.
orphanTransaction(t) ==
  /\ monitor.job = "reorg"
  /\ t \in monitor.work
  /\ txStatus' = [txStatus EXCEPT ![t] = "ORPHANED"]
  /\ IF creditedAt[t]
     THEN /\ flagOrphanedCredit(invoiceId[t], t)
          /\ UNCHANGED matchStatus
     ELSE /\ matchStatus' = [matchStatus EXCEPT ![t] = "ORPHANED"]
          /\ UNCHANGED discrepancies
          /\ IF invoiceId[t] = NoInvoice
             THEN UNCHANGED invoiceVars
             ELSE revertInvoiceAfterOrphan(invoiceId[t], t)
  /\ monitor' = Done(t)
  /\ UNCHANGED <<addressVars, blockNumber, invoiceId, confirmations, creditedAt,
                 ledger, requestVars, cursor, worldVars>>
=============================================================================
