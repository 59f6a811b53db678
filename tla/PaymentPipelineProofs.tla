------------------------ MODULE PaymentPipelineProofs ------------------------
(***************************************************************************)
(* Proofs, for every value of the constants, of the safety properties of   *)
(* PaymentPipeline.  PipelineInv is inductive; each property is one of its *)
(* conjuncts or follows from one of its steps.                             *)
(***************************************************************************)
EXTENDS PaymentPipeline, TLAPS

-----------------------------------------------------------------------------
(* The transition table                                                    *)

\* Money has been credited for an invoice in a settled status: no edge leads
\* the monitor or the sweep from there to a status in which money can still
\* be credited, and only an operator may take the edges to the outcomes.
LEMMA SettledIsFinal ==
  ASSUME NEW s \in Settled
  PROVE  /\ ~canTransition(s, "DETECTED")
         /\ ~canTransition(s, "PENDING")
         /\ ~canTransition(s, "CONFIRMING")
         /\ ~isActorAllowed(s, "EXPIRED", "system")
         /\ \A to \in {"PAID", "UNDERPAID", "OVERPAID"} :
              ~isActorAllowed(s, to, "monitor")
<1> USE DEF canTransition, isActorAllowed, findRule, TRANSITIONS, Rule,
            ANY_INTERNAL, HUMAN_REVIEW
<1>1. CASE s = "PAID"
  BY <1>1 DEF FromPaid
<1>2. CASE s = "CANCELLED"
  BY <1>2 DEF FromCancelled
<1>3. CASE s = "LATE_PAYMENT_REVIEW"
  BY <1>3 DEF FromLatePaymentReview
<1>4. CASE s = "RECONCILIATION_REQUIRED"
  BY <1>4 DEF FromReconciliationRequired
<1> QED
  BY <1>1, <1>2, <1>3, <1>4 DEF Settled

\* A PAID invoice can always be frozen.
LEMMA PaidCanBeFrozen == canTransition("PAID", "RECONCILIATION_REQUIRED")
<1> DEFINE r == Rule("RECONCILIATION_REQUIRED", ANY_INTERNAL)
<1>1. r \in TRANSITIONS["PAID"]
  BY DEF TRANSITIONS, FromPaid
<1>2. r.to = "RECONCILIATION_REQUIRED"
  BY DEF Rule
<1> QED
  BY <1>1, <1>2 DEF canTransition, findRule

-----------------------------------------------------------------------------
(* Operators                                                               *)

\* The fee is a part of what was received.
LEMMA FeeIsPart ==
  ASSUME TypeOK, NEW u \in Transfers
  PROVE  /\ payment[u].amount \in Nat
         /\ percentageBps(payment[u].amount, feeBps) \in Nat
         /\ percentageBps(payment[u].amount, feeBps) <= payment[u].amount
<1> DEFINE a == payment[u].amount
           product == a * feeBps
<1>1. a \in Nat
  BY PipelineConstants DEF TypeOK, WorldTypeOK, Payment, PipelineConstants
<1>2. feeBps \in 0..10000
  BY StoreConstants DEF StoreConstants
<1> HIDE DEF a
<1>3. product \in Nat /\ product <= a * 10000
  <2>1. \A c \in Nat : a * c >= 0
    BY <1>1
  <2>2. a * (10000 - feeBps) = a * 10000 - a * feeBps
    BY <1>1, <1>2
  <2> QED
    BY <1>1, <1>2, <2>1, <2>2
<1> HIDE DEF product
<1>4. product \div 10000 \in Nat /\ product \div 10000 <= a
  BY <1>1, <1>3
<1> QED
  BY <1>1, <1>4 DEF percentageBps, product, a

\* finalizeInvoice has exactly three targets.
LEMMA SettlementTargets ==
  ASSUME NEW s, NEW S, settles(s, S)
  PROVE  settlementTarget(S) \in {"PAID", "UNDERPAID", "OVERPAID"}
BY DEF settles, settlementTarget, statusForOutcome, evaluatePayment

\* What finalizeInvoice accepts, the merchant has agreed to.
LEMMA AcceptedIsAcceptable ==
  ASSUME NEW s, NEW S, settles(s, S), autoAccept(settlementTarget(S))
  PROVE  Acceptable(Total(S))
<1> DEFINE short  == Total(S) < minimumAccepted(cryptoAmount, underpaymentToleranceBps)
           excess == Total(S) > maximumAccepted(cryptoAmount, overpaymentToleranceBps)
<1>1. Total(S) # 0
  BY DEF settles
<1>2. CASE short
  <2>1. settlementTarget(S) = "UNDERPAID"
    BY <1>1, <1>2 DEF settlementTarget, statusForOutcome, evaluatePayment
  <2> QED
    BY <1>2, <2>1 DEF autoAccept, Acceptable
<1>3. CASE ~short /\ excess
  <2>1. settlementTarget(S) = "OVERPAID"
    BY <1>1, <1>3 DEF settlementTarget, statusForOutcome, evaluatePayment
  <2> QED
    BY <1>3, <2>1 DEF autoAccept, Acceptable
<1> QED
  BY <1>2, <1>3 DEF Acceptable

\* An adapter never reports a negative number of confirmations.
LEMMA ConfirmationsNat ==
  ASSUME TypeOK, NEW t \in Transfers
  PROVE  getConfirmations(t) \in Nat
<1>1. minedAt[t] \in 0..MaxTip /\ chainTip \in 1..MaxTip
  BY DEF TypeOK, WorldTypeOK, Heights
<1> QED
  BY <1>1, StoreConstants DEF getConfirmations, countConfirmations, StoreConstants

-----------------------------------------------------------------------------
(* One iteration of updateConfirmations                                    *)

\* The posting postPaymentCredit writes for transfer u of invoice i.
credit(i, u) ==
  [invoice |-> i, fee |-> percentageBps(payment[u].amount, feeBps),
   net |-> payment[u].amount - percentageBps(payment[u].amount, feeBps)]

\* confirmTransfer on invoice i: the status it ends in, the statuses it
\* enters, and the transfers it credits.
ConfirmStep(i, to, entered, C) ==
  /\ status' = [status EXCEPT ![i] = to]
  /\ webhooks' = webhooks \cup {<<e, i>> : e \in entered}
  /\ creditedAt' = [u \in Transfers |-> creditedAt[u] \/ u \in C]
  /\ matchStatus' = [u \in Transfers |-> IF u \in C THEN "CREDITED" ELSE matchStatus[u]]
  /\ ledger' = [u \in Transfers |-> IF u \in C THEN <<credit(i, u)>> ELSE ledger[u]]

\* Its effect: it credits nothing and leaves PAID alone, or it takes an
\* invoice nothing was credited for to PAID with pending transfers of an
\* acceptable total.
LEMMA ConfirmEffect ==
  ASSUME PipelineInv, NEW t \in Transfers, confirmTransfer(t)
  PROVE  /\ invoiceId[t] \in Invoices
         /\ status[invoiceId[t]] # "none"
         /\ \E to \in InvoiceStatus, entered \in SUBSET WebhookStatuses,
              C \in SUBSET Transfers :
              /\ ConfirmStep(invoiceId[t], to, entered, C)
              /\ "PAID" \in entered <=> C # {}
              /\ C = {} => to = status[invoiceId[t]] \/ to # "PAID"
              /\ status[invoiceId[t]] \in Settled => C = {} /\ to = status[invoiceId[t]]
              /\ C # {} => to = "PAID" /\ Acceptable(Total(C))
              /\ \A u \in C : /\ invoiceId[u] = invoiceId[t]
                              /\ matchStatus[u] = "PENDING_CONFIRMATION"
                              /\ payment[u].amount > percentageBps(payment[u].amount, feeBps)
<1> DEFINE i == invoiceId[t]
           n == getConfirmations(t)
           s == advanceConfirming(status[i], n)
           S == settling(t, n)
           goes == settles(s, S)
           target == settlementTarget(S)
           to == settledStatus(s, S)
           entered == ({s} \ {status[i]})
                      \cup (IF goes THEN {target, to} ELSE {})
           C == creditedBy(s, S)
           fresh == {u \in C : ledger[u] = <<>>}
<1>0. TypeOK /\ MatchesAreOwned /\ TickIsCurrent /\ AddressUsedOnce /\ CreditedOnce /\ PaidIsFunded
  BY DEF PipelineInv
<1>1. i \in Invoices /\ i = addressInvoice[payment[t].to]
  BY <1>0 DEF confirmTransfer, TickIsCurrent, MatchesAreOwned, TypeOK, StoreTypeOK
<1>2. payment[t].to \in Addresses
  BY <1>0 DEF TypeOK, WorldTypeOK, Payment
<1>3. status[i] # "none" /\ status[i] \in InvoiceStatus
  BY <1>0, <1>1, <1>2 DEF TypeOK, StoreTypeOK, AddressUsedOnce
<1>4. S \subseteq Transfers /\ \A u \in S : /\ invoiceId[u] = i
                                            /\ matchStatus[u] \in {"CREDITED", "PENDING_CONFIRMATION"}
  BY DEF settling, confirmedTransfers
<1>5. ~confirmThrows(status[i], n, S)
  BY DEF confirmTransfer
<1>6. goes => assertTransition(s, target, "monitor")
  BY <1>5 DEF confirmThrows
<1>7. goes => target \in {"PAID", "UNDERPAID", "OVERPAID"}
  BY SettlementTargets
<1>8. status[i] \in Settled => s = status[i] /\ ~goes
  <2>1. status[i] \in Settled => s = status[i]
    BY SettledIsFinal DEF advanceConfirming
  <2> QED
    BY <2>1, <1>6, <1>7, SettledIsFinal DEF assertTransition
<1>9. s \in {status[i], "CONFIRMING"}
  BY DEF advanceConfirming
<1>10. to \in {s, "PAID", "UNDERPAID", "OVERPAID"} /\ (goes => to \in {target, "PAID"})
       /\ (~goes => to = s)
  BY <1>7 DEF settledStatus
<1>11. C \subseteq S /\ (C # {} => goes /\ C = S /\ autoAccept(target) /\ to = "PAID")
  BY DEF creditedBy, settledStatus
<1>12. goes /\ to = "PAID" => autoAccept(target)
  BY DEF settledStatus, autoAccept
<1>13. goes => S # {}
  BY DEF settles
<1>14. goes /\ autoAccept(target) => C = S
  BY DEF creditedBy
<1>15. \A u \in C : ~creditedAt[u]
  <2>1. SUFFICES ASSUME NEW u \in C, creditedAt[u] PROVE FALSE
    OBVIOUS
  <2>2. u \in creditedTo(i)
    BY <2>1, <1>4, <1>11 DEF creditedTo
  <2>3. status[i] \in Settled
    BY <2>2, <1>0, <1>1 DEF PaidIsFunded
  <2> QED
    BY <2>1, <2>3, <1>8, <1>11
<1>16. \A u \in C : matchStatus[u] = "PENDING_CONFIRMATION" /\ ledger[u] = <<>>
  BY <1>4, <1>11, <1>15, <1>0 DEF CreditedOnce
<1>17. \A u \in C : payment[u].amount > percentageBps(payment[u].amount, feeBps)
  BY <1>5, <1>11, <1>16 DEF confirmThrows, postable
<1>18. fresh = C
  BY <1>16
<1>19. \A u \in C : postPaymentCredit(i, u) = <<credit(i, u)>>
  <2>1. \A x : Append(<<>>, x) = <<x>>
    OBVIOUS
  <2>2. \A u \in C : postPaymentCredit(i, u) = Append(<<>>, credit(i, u))
    BY <1>16 DEF postPaymentCredit, credit
  <2> QED
    BY <2>1, <2>2
<1>20. entered \subseteq InvoiceStatus /\ to \in InvoiceStatus
  BY <1>3, <1>7, <1>9, <1>10 DEF InvoiceStatus
<1>21. webhooks' = webhooks \cup {<<e, i>> : e \in entered \cap WebhookStatuses}
  <2>1. UNION {webhookEventForStatus(x) : x \in entered} = entered \cap WebhookStatuses
    BY DEF webhookEventForStatus
  <2> QED
    BY <2>1 DEF confirmTransfer, MoveInvoice
<1>22. ConfirmStep(i, to, entered \cap WebhookStatuses, C)
  <2>1. status' = [status EXCEPT ![i] = to]
    BY DEF confirmTransfer, MoveInvoice
  <2>2. creditedAt' = [u \in Transfers |-> creditedAt[u] \/ u \in C]
    BY <1>18 DEF confirmTransfer
  <2>3. matchStatus' = [u \in Transfers |-> IF u \in C THEN "CREDITED" ELSE matchStatus[u]]
    BY <1>18 DEF confirmTransfer
  <2>4. ledger' = [u \in Transfers |-> IF u \in C THEN <<credit(i, u)>> ELSE ledger[u]]
    BY <1>19 DEF confirmTransfer
  <2> QED
    BY <1>21, <2>1, <2>2, <2>3, <2>4 DEF ConfirmStep
<1>23. "PAID" \in entered \cap WebhookStatuses <=> C # {}
  <2>1. "PAID" \in WebhookStatuses
    BY DEF WebhookStatuses
  <2>2. ASSUME C # {} PROVE "PAID" \in entered
    BY <2>2, <1>11
  <2>3. ASSUME "PAID" \in entered PROVE C # {}
    <3>1. goes
      BY <2>3, <1>9
    <3>2. to = "PAID"
      BY <2>3, <3>1, <1>9 DEF settledStatus, autoAccept
    <3> QED
      BY <3>1, <3>2, <1>12, <1>13, <1>14
  <2> QED
    BY <2>1, <2>2, <2>3
<1>24. C = {} => to = status[i] \/ to # "PAID"
  BY <1>9, <1>10, <1>12, <1>13, <1>14
<1>25. C # {} => to = "PAID" /\ Acceptable(Total(C))
  BY <1>11, AcceptedIsAcceptable
<1>26. status[i] \in Settled => C = {} /\ to = status[i]
  BY <1>8, <1>10, <1>11
<1>27. C \in SUBSET Transfers /\ \A u \in C : invoiceId[u] = i
  BY <1>4, <1>11
<1> QED
  <2> HIDE DEF i, to, entered, C
  <2>1. /\ to \in InvoiceStatus
        /\ entered \cap WebhookStatuses \in SUBSET WebhookStatuses
        /\ C \in SUBSET Transfers
        /\ ConfirmStep(i, to, entered \cap WebhookStatuses, C)
        /\ "PAID" \in entered \cap WebhookStatuses <=> C # {}
        /\ C = {} => to = status[i] \/ to # "PAID"
        /\ status[i] \in Settled => C = {} /\ to = status[i]
        /\ C # {} => to = "PAID" /\ Acceptable(Total(C))
        /\ \A u \in C : /\ invoiceId[u] = i
                        /\ matchStatus[u] = "PENDING_CONFIRMATION"
                        /\ payment[u].amount > percentageBps(payment[u].amount, feeBps)
    BY <1>16, <1>17, <1>20, <1>22, <1>23, <1>24, <1>25, <1>26, <1>27
  <2> QED
    BY <1>1, <1>3, <2>1 DEF i

-----------------------------------------------------------------------------
(* The other steps that write the store                                    *)

\* Steps of the scan loop, of requests and of the world that leave the store
\* and what each transfer pays as they are.
Quiet == UNCHANGED <<storeVars, payment>>

\* The steps that write the store are these six.
LEMMA StepCases ==
  ASSUME [Next]_vars
  PROVE  \/ Quiet
         \/ \E t \in Transfers : \/ processTransaction(t)
                                 \/ confirmTransfer(t)
                                 \/ orphanTransaction(t)
         \/ \E i \in Invoices : createInvoice(i) \/ expireOne(i)
         \/ \E r \in Requests : cancelInvoice(r)
<1> USE DEF Quiet, worldVars, chainVars
<1>1. CASE Tick
  BY <1>1 DEF Tick, beginTick, rewindCursor, scanBlock, saveCursor, endTick, confirmFails
<1>2. CASE Serve
  BY <1>2 DEF Serve, reserveAddress, createFails, readForCancel, cancelFails,
              loadAndMaybeExpire
<1>3. CASE tickFails
  BY <1>3 DEF tickFails
<1>4. CASE World
  BY <1>4 DEF World, AdvanceClock, MineBlock, Reorg
<1>5. CASE UNCHANGED vars
  BY <1>5 DEF vars
<1> QED
  BY <1>1, <1>2, <1>3, <1>4, <1>5 DEF Next

\* A status change that neither enters nor announces PAID and does not take
\* an invoice out of the settled statuses.
HarmlessMove ==
  \E i \in Invoices, to \in InvoiceStatus \ {"PAID"},
     entered \in SUBSET (WebhookStatuses \ {"PAID"}) :
    /\ status[i] \in Settled => to \in Settled
    /\ status' = [status EXCEPT ![i] = to]
    /\ webhooks' = webhooks \cup {<<e, i>> : e \in entered}

SafeMove == UNCHANGED invoiceVars \/ HarmlessMove

\* No invoice row is created or deleted.
SameRows == \A i \in Invoices : status'[i] = "none" <=> status[i] = "none"

\* MoveInvoice to any status but PAID is such a change.
LEMMA MoveIsHarmless ==
  ASSUME TypeOK,
         NEW i \in Invoices, NEW to \in InvoiceStatus \ {"PAID"}, NEW entered,
         entered \subseteq {to}, MoveInvoice(i, to, entered),
         status[i] \in Settled => to \in Settled
  PROVE  HarmlessMove /\ (status[i] # "none" => SameRows)
<1> DEFINE E == entered \cap WebhookStatuses
<1>1. UNION {webhookEventForStatus(x) : x \in entered} = E
  BY DEF webhookEventForStatus
<1>2. webhooks' = webhooks \cup {<<e, i>> : e \in E}
  BY <1>1 DEF MoveInvoice
<1>3. E \in SUBSET (WebhookStatuses \ {"PAID"})
  OBVIOUS
<1>4. status' = [status EXCEPT ![i] = to]
  BY DEF MoveInvoice
<1>5. status[i] # "none" => SameRows
  BY <1>4 DEF SameRows, TypeOK, StoreTypeOK, InvoiceStatus
<1> HIDE DEF E
<1> QED
  BY <1>2, <1>3, <1>4, <1>5 DEF HarmlessMove

\* The invoice a transfer was recorded for exists.
LEMMA OwnerExists ==
  ASSUME PipelineInv, NEW t \in Transfers, invoiceId[t] # NoInvoice
  PROVE  invoiceId[t] \in Invoices /\ status[invoiceId[t]] # "none"
<1>1. TypeOK /\ MatchesAreOwned /\ AddressUsedOnce
  BY DEF PipelineInv
<1>2. payment[t].to \in Addresses
  BY <1>1 DEF TypeOK, WorldTypeOK, Payment
<1> QED
  BY <1>1, <1>2 DEF TypeOK, StoreTypeOK, MatchesAreOwned, AddressUsedOnce

\* processTransaction moves at most one invoice, never to PAID, and writes at
\* most the row of a transfer that is not credited.
LEMMA ProcessEffect ==
  ASSUME PipelineInv, NEW t \in Transfers, processTransaction(t)
  PROVE  /\ SafeMove /\ SameRows
         /\ UNCHANGED <<addressVars, creditedAt, ledgerVars, payment>>
         /\ \A u \in Transfers : txStatus'[u] \in {txStatus[u], "MINED"}
         /\ \/ UNCHANGED <<matchStatus, invoiceId>>
            \/ \E m \in TransferMatchStatus \ {"CREDITED"} :
                 /\ ~creditedAt[t]
                 /\ txStatus'[t] = "MINED"
                 /\ m = "PENDING_CONFIRMATION" => addressInvoice[payment[t].to] # NoInvoice
                 /\ matchStatus' = [matchStatus EXCEPT ![t] = m]
                 /\ invoiceId' = [invoiceId EXCEPT ![t] = addressInvoice[payment[t].to]]
<1> DEFINE i == addressInvoice[payment[t].to]
           m == evaluateTransferMatch(
                  assetRecognized(t), meetsMinimum(t),
                  IF i = NoInvoice THEN "none" ELSE status[i],
                  i # NoInvoice /\ ~isWithinGrace(phase[i]))
<1>1. TypeOK /\ AddressUsedOnce
  BY DEF PipelineInv
<1>2. payment[t].to \in Addresses /\ i \in Invoices \cup {NoInvoice}
  BY <1>1 DEF TypeOK, StoreTypeOK, WorldTypeOK, Payment
<1>3. i # NoInvoice => status[i] # "none"
  BY <1>1, <1>2 DEF AddressUsedOnce
<1>4. UNCHANGED <<addressVars, creditedAt, ledgerVars, payment>>
  BY DEF processTransaction, recordTransfer, transferVars, worldVars, chainVars
<1>5. \A u \in Transfers : txStatus'[u] \in {txStatus[u], "MINED"}
  BY <1>1 DEF processTransaction, recordChainTransaction, txVars, TypeOK, StoreTypeOK
<1>6. CASE minedAt[t] = 0 \/ alreadyCredited(t)
  <2>1. UNCHANGED <<invoiceVars, matchStatus, invoiceId>>
    BY <1>6 DEF processTransaction, recordTransfer, transferVars
  <2> QED
    BY <1>4, <1>5, <2>1 DEF SafeMove, SameRows, invoiceVars
<1>7. CASE minedAt[t] # 0 /\ ~alreadyCredited(t)
  <2>1. recordTransfer(t) /\ txStatus' = [txStatus EXCEPT ![t] = "MINED"]
    BY <1>7 DEF processTransaction, recordChainTransaction
  <2>2. /\ matchStatus' = [matchStatus EXCEPT ![t] = m]
        /\ invoiceId' = [invoiceId EXCEPT ![t] = i]
        /\ ~creditedAt[t]
        /\ m = "PENDING_CONFIRMATION" => advanceOnFirstSighting(i)
        /\ m = "LATE_PAYMENT_REVIEW" => moveToLatePaymentReview(i)
        /\ m \notin {"PENDING_CONFIRMATION", "LATE_PAYMENT_REVIEW"} => UNCHANGED invoiceVars
    BY <1>7, <2>1 DEF recordTransfer, alreadyCredited
  <2>3. m \in TransferMatchStatus \ {"CREDITED"}
    BY DEF evaluateTransferMatch, TransferMatchStatus
  <2>4. m \in {"PENDING_CONFIRMATION", "LATE_PAYMENT_REVIEW"} => i # NoInvoice
    BY <1>3 DEF evaluateTransferMatch
  <2>5. txStatus'[t] = "MINED"
    BY <2>1, <1>1 DEF TypeOK, StoreTypeOK
  <2>6. SafeMove /\ SameRows
    <3> HIDE DEF i, m
    <3>1. CASE UNCHANGED invoiceVars
      BY <3>1 DEF SafeMove, SameRows, invoiceVars
    <3>2. CASE m = "PENDING_CONFIRMATION" /\ ~UNCHANGED invoiceVars
      <4>1. i \in Invoices /\ status[i] # "none"
        BY <1>2, <1>3, <2>4, <3>2
      <4>2. canTransition(status[i], "DETECTED") /\ MoveInvoice(i, "DETECTED", {"DETECTED"})
        BY <2>2, <3>2 DEF advanceOnFirstSighting
      <4>3. status[i] \notin Settled
        BY <4>2, SettledIsFinal
      <4>4. "DETECTED" \in InvoiceStatus \ {"PAID"}
        BY DEF InvoiceStatus
      <4> QED
        BY <1>1, <4>1, <4>2, <4>3, <4>4, MoveIsHarmless DEF SafeMove
    <3>3. CASE m = "LATE_PAYMENT_REVIEW" /\ ~UNCHANGED invoiceVars
      <4>1. i \in Invoices /\ status[i] # "none"
        BY <1>2, <1>3, <2>4, <3>3
      <4>2. MoveInvoice(i, "LATE_PAYMENT_REVIEW", {})
        BY <2>2, <3>3 DEF moveToLatePaymentReview
      <4>3. "LATE_PAYMENT_REVIEW" \in (InvoiceStatus \ {"PAID"}) \cap Settled
        BY DEF InvoiceStatus, Settled
      <4> QED
        BY <1>1, <4>1, <4>2, <4>3, MoveIsHarmless DEF SafeMove
    <3> QED
      BY <2>2, <3>1, <3>2, <3>3
  <2> QED
    <3> HIDE DEF i, m
    <3>1. m = "PENDING_CONFIRMATION" => i # NoInvoice
      BY <2>4
    <3> QED
      BY <1>4, <1>5, <2>2, <2>3, <2>5, <2>6, <3>1 DEF i
<1> QED
  BY <1>6, <1>7

\* orphanTransaction freezes the invoice of an orphaned credit or sends the
\* invoice of an uncredited transfer back, never to PAID.
LEMMA OrphanEffect ==
  ASSUME PipelineInv, NEW t \in Transfers, orphanTransaction(t)
  PROVE  /\ SafeMove /\ SameRows
         /\ UNCHANGED <<addressVars, invoiceId, creditedAt, ledger, payment>>
         /\ txStatus' = [txStatus EXCEPT ![t] = "ORPHANED"]
         /\ creditedAt[t] => UNCHANGED matchStatus /\ status'[invoiceId[t]] # "PAID"
         /\ ~creditedAt[t] => matchStatus' = [matchStatus EXCEPT ![t] = "ORPHANED"]
<1> DEFINE i == invoiceId[t]
<1>1. TypeOK /\ CreditedOnce /\ MatchesAreOwned
  BY DEF PipelineInv
<1>2. /\ UNCHANGED <<addressVars, invoiceId, creditedAt, ledger, payment>>
      /\ txStatus' = [txStatus EXCEPT ![t] = "ORPHANED"]
      /\ ~creditedAt[t] => matchStatus' = [matchStatus EXCEPT ![t] = "ORPHANED"]
      /\ creditedAt[t] => UNCHANGED matchStatus
  BY DEF orphanTransaction, worldVars, chainVars
<1>3. i # NoInvoice => i \in Invoices /\ status[i] # "none"
  BY OwnerExists
<1>4. CASE creditedAt[t]
  <2>1. i \in Invoices /\ status[i] # "none"
    BY <1>1, <1>3, <1>4 DEF CreditedOnce, MatchesAreOwned
  <2>2. flagOrphanedCredit(i, t)
    BY <1>4 DEF orphanTransaction
  <2>3. CASE canTransition(status[i], "RECONCILIATION_REQUIRED")
    <3>1. MoveInvoice(i, "RECONCILIATION_REQUIRED", {})
      BY <2>2, <2>3 DEF flagOrphanedCredit
    <3>2. "RECONCILIATION_REQUIRED" \in (InvoiceStatus \ {"PAID"}) \cap Settled
      BY DEF InvoiceStatus, Settled
    <3>3. SafeMove /\ SameRows
      BY <1>1, <2>1, <3>1, <3>2, MoveIsHarmless DEF SafeMove
    <3>4. status'[i] = "RECONCILIATION_REQUIRED"
      BY <1>1, <2>1, <3>1 DEF MoveInvoice, TypeOK, StoreTypeOK
    <3> QED
      BY <1>2, <1>4, <3>3, <3>4
  <2>4. CASE ~canTransition(status[i], "RECONCILIATION_REQUIRED")
    <3>1. UNCHANGED invoiceVars
      BY <2>2, <2>4 DEF flagOrphanedCredit
    <3>2. status[i] # "PAID"
      BY <2>4, PaidCanBeFrozen
    <3> QED
      BY <1>2, <1>4, <3>1, <3>2 DEF SafeMove, SameRows, invoiceVars
  <2> QED
    BY <2>3, <2>4
<1>5. CASE ~creditedAt[t]
  <2>1. CASE UNCHANGED invoiceVars
    BY <1>2, <1>5, <2>1 DEF SafeMove, SameRows, invoiceVars
  <2>2. CASE ~UNCHANGED invoiceVars
    <3>1. i \in Invoices /\ status[i] # "none"
      BY <1>3, <1>5, <2>2 DEF orphanTransaction
    <3>2. revertInvoiceAfterOrphan(i, t)
      BY <1>5, <2>2, <3>1 DEF orphanTransaction
    <3>3. PICK to \in {"DETECTED", "PENDING"} :
            canTransition(status[i], to) /\ MoveInvoice(i, to, {})
      BY <2>2, <3>2 DEF revertInvoiceAfterOrphan
    <3>4. status[i] \notin Settled
      BY <3>3, SettledIsFinal
    <3>5. to \in InvoiceStatus \ {"PAID"}
      BY <3>3 DEF InvoiceStatus
    <3>6. SafeMove /\ SameRows
      BY <1>1, <3>1, <3>3, <3>4, <3>5, MoveIsHarmless DEF SafeMove
    <3> QED
      BY <1>2, <1>5, <3>6
  <2> QED
    BY <2>1, <2>2
<1> QED
  BY <1>4, <1>5

\* expireOne closes an invoice nothing has been credited for.
LEMMA ExpireEffect ==
  ASSUME PipelineInv, NEW i \in Invoices, expireOne(i)
  PROVE  /\ SafeMove /\ SameRows
         /\ UNCHANGED <<addressVars, txVars, transferVars, ledgerVars, payment>>
<1>1. TypeOK
  BY DEF PipelineInv
<1>2. status[i] # "none" /\ status[i] \notin Settled
  BY SettledIsFinal DEF expireOne, expirable
<1>3. MoveInvoice(i, "EXPIRED", {"EXPIRED"})
  BY DEF expireOne
<1>4. "EXPIRED" \in InvoiceStatus \ {"PAID"}
  BY DEF InvoiceStatus
<1>5. UNCHANGED <<addressVars, txVars, transferVars, ledgerVars, payment>>
  BY DEF expireOne, worldVars, chainVars
<1> QED
  BY <1>1, <1>2, <1>3, <1>4, <1>5, MoveIsHarmless DEF SafeMove

\* cancelInvoice closes an existing invoice, whatever has become of it since
\* the request read it, and retires its address.
LEMMA CancelEffect ==
  ASSUME PipelineInv, NEW r \in Requests, cancelInvoice(r)
  PROVE  /\ SafeMove /\ SameRows
         /\ UNCHANGED <<addressInvoice, txVars, transferVars, ledgerVars, payment>>
<1> DEFINE i == cancelling[r]
<1>1. TypeOK /\ RequestsHold
  BY DEF PipelineInv
<1>2. i \in Invoices /\ status[i] # "none"
  BY <1>1 DEF TypeOK, ServiceTypeOK, RequestsHold, cancelInvoice
<1>3. MoveInvoice(i, "CANCELLED", {"CANCELLED"})
  BY DEF cancelInvoice
<1>4. "CANCELLED" \in (InvoiceStatus \ {"PAID"}) \cap Settled
  BY DEF InvoiceStatus, Settled
<1>5. UNCHANGED <<addressInvoice, txVars, transferVars, ledgerVars, payment>>
  BY DEF cancelInvoice, worldVars, chainVars
<1> QED
  BY <1>1, <1>2, <1>3, <1>4, <1>5, MoveIsHarmless DEF SafeMove

\* createInvoice gives a new invoice an address no invoice has had.
LEMMA CreateEffect ==
  ASSUME PipelineInv, NEW i \in Invoices, createInvoice(i)
  PROVE  /\ SafeMove
         /\ creating[i] \in Addresses
         /\ addressInvoice[creating[i]] = NoInvoice
         /\ status[i] = "none"
         /\ status' = [status EXCEPT ![i] = "PENDING"]
         /\ addressInvoice' = [addressInvoice EXCEPT ![creating[i]] = i]
         /\ UNCHANGED <<txVars, transferVars, ledgerVars, payment>>
<1>1. TypeOK /\ RequestsHold /\ AddressUsedOnce
  BY DEF PipelineInv
<1>2. creating[i] \in Addresses
  BY <1>1 DEF TypeOK, ServiceTypeOK, createInvoice
<1>3. status[i] = "none" /\ addressInvoice[creating[i]] = NoInvoice
  BY <1>1, <1>2 DEF RequestsHold, AddressUsedOnce, createInvoice
<1>4. MoveInvoice(i, "PENDING", {"PENDING"})
  BY DEF createInvoice
<1>5. "PENDING" \in InvoiceStatus \ {"PAID"} /\ "none" \notin Settled
  BY DEF InvoiceStatus, Settled
<1>6. SafeMove
  BY <1>1, <1>3, <1>4, <1>5, MoveIsHarmless DEF SafeMove
<1>7. /\ status' = [status EXCEPT ![i] = "PENDING"]
      /\ addressInvoice' = [addressInvoice EXCEPT ![creating[i]] = i]
      /\ UNCHANGED <<txVars, transferVars, ledgerVars, payment>>
  BY <1>4 DEF createInvoice, MoveInvoice, worldVars, chainVars
<1> QED
  BY <1>2, <1>3, <1>6, <1>7

-----------------------------------------------------------------------------
(* Credits                                                                 *)

\* A step that credits nothing and undoes no credit.
KeepsCredits ==
  /\ SafeMove
  /\ UNCHANGED <<creditedAt, ledger, payment>>
  /\ \A a \in Addresses : addressInvoice[a] # NoInvoice =>
       addressInvoice'[a] = addressInvoice[a]
  /\ \A u \in Transfers :
       IF creditedAt[u]
       THEN /\ invoiceId'[u] = invoiceId[u]
            /\ matchStatus'[u] = matchStatus[u]
            /\ txStatus'[u] = "ORPHANED" /\ txStatus[u] # "ORPHANED" =>
                 status'[invoiceId[u]] # "PAID"
       ELSE matchStatus'[u] # "CREDITED"

\* Every step but confirmTransfer is one.
LEMMA CreditCases ==
  ASSUME PipelineInv, [Next]_vars
  PROVE  KeepsCredits \/ \E t \in Transfers : confirmTransfer(t)
<1>1. TypeOK /\ CreditedOnce
  BY DEF PipelineInv
<1>2. \A u \in Transfers : ~creditedAt[u] => matchStatus[u] # "CREDITED"
  BY <1>1 DEF CreditedOnce
<1>3. CASE Quiet
  BY <1>2, <1>3 DEF Quiet, storeVars, addressVars, txVars, transferVars, ledgerVars,
                    SafeMove, KeepsCredits
<1>4. ASSUME NEW t \in Transfers, processTransaction(t) PROVE KeepsCredits
  <2>1. SafeMove /\ UNCHANGED <<creditedAt, ledger, payment, addressInvoice>>
    BY <1>4, ProcessEffect DEF addressVars, ledgerVars
  <2>2. \A u \in Transfers : txStatus'[u] = "ORPHANED" => txStatus[u] = "ORPHANED"
    BY <1>4, ProcessEffect
  <2>3. \A u \in Transfers :
          /\ creditedAt[u] => invoiceId'[u] = invoiceId[u] /\ matchStatus'[u] = matchStatus[u]
          /\ ~creditedAt[u] => matchStatus'[u] # "CREDITED"
    BY <1>1, <1>2, <1>4, ProcessEffect DEF TypeOK, StoreTypeOK
  <2> QED
    BY <2>1, <2>2, <2>3 DEF KeepsCredits
<1>5. ASSUME NEW t \in Transfers, orphanTransaction(t) PROVE KeepsCredits
  <2>1. SafeMove /\ UNCHANGED <<creditedAt, ledger, payment, addressInvoice, invoiceId>>
    BY <1>5, OrphanEffect DEF addressVars
  <2>2. \A u \in Transfers : creditedAt[u] /\ txStatus'[u] = "ORPHANED"
          /\ txStatus[u] # "ORPHANED" => status'[invoiceId[u]] # "PAID"
    BY <1>1, <1>5, OrphanEffect DEF TypeOK, StoreTypeOK
  <2>3. \A u \in Transfers :
          /\ creditedAt[u] => matchStatus'[u] = matchStatus[u]
          /\ ~creditedAt[u] => matchStatus'[u] # "CREDITED"
    <3>1. CASE creditedAt[t]
      BY <1>2, <1>5, <3>1, OrphanEffect
    <3>2. CASE ~creditedAt[t]
      <4>1. matchStatus' = [matchStatus EXCEPT ![t] = "ORPHANED"]
        BY <1>5, <3>2, OrphanEffect
      <4>2. matchStatus \in [Transfers -> TransferMatchStatus \cup {"none"}]
        BY <1>1 DEF TypeOK, StoreTypeOK
      <4> QED
        BY <1>2, <3>2, <4>1, <4>2
    <3> QED
      BY <3>1, <3>2
  <2> QED
    BY <2>1, <2>2, <2>3 DEF KeepsCredits
<1>6. ASSUME NEW i \in Invoices, createInvoice(i) PROVE KeepsCredits
  <2>1. \A a \in Addresses : addressInvoice[a] # NoInvoice =>
          addressInvoice'[a] = addressInvoice[a]
    BY <1>1, <1>6, CreateEffect DEF TypeOK, StoreTypeOK
  <2> QED
    BY <1>2, <1>6, <2>1, CreateEffect DEF KeepsCredits, txVars, transferVars, ledgerVars
<1>7. ASSUME NEW i \in Invoices, expireOne(i) PROVE KeepsCredits
  BY <1>2, <1>7, ExpireEffect
     DEF KeepsCredits, addressVars, txVars, transferVars, ledgerVars
<1>8. ASSUME NEW r \in Requests, cancelInvoice(r) PROVE KeepsCredits
  BY <1>2, <1>8, CancelEffect DEF KeepsCredits, txVars, transferVars, ledgerVars
<1> QED
  BY <1>3, <1>4, <1>5, <1>6, <1>7, <1>8, StepCases

\* What was credited to an invoice, and its total, survive such a step.
LEMMA KeptTotals ==
  ASSUME TypeOK, KeepsCredits, NEW i \in Invoices
  PROVE  creditedTo(i)' = creditedTo(i) /\ Total(creditedTo(i))' = Total(creditedTo(i))
<1>1. creditedAt' = creditedAt /\ payment' = payment
  BY DEF KeepsCredits
<1>2. \A u \in Transfers : creditedAt[u] => invoiceId'[u] = invoiceId[u]
  BY DEF KeepsCredits
<1>3. creditedTo(i)' = creditedTo(i)
  BY <1>1, <1>2 DEF creditedTo
<1> QED
  BY <1>1, <1>3 DEF Total

\* A safe move never makes an invoice PAID, never announces PAID and keeps
\* settled invoices settled.
LEMMA SafeMoveFacts ==
  ASSUME TypeOK, SafeMove, NEW i \in Invoices
  PROVE  /\ status'[i] = "PAID" => status[i] = "PAID"
         /\ status[i] \in Settled => status'[i] \in Settled
         /\ <<"PAID", i>> \in webhooks' <=> <<"PAID", i>> \in webhooks
<1>1. CASE UNCHANGED invoiceVars
  BY <1>1 DEF invoiceVars
<1>2. CASE HarmlessMove
  <2>1. PICK j \in Invoices, to \in InvoiceStatus \ {"PAID"},
             entered \in SUBSET (WebhookStatuses \ {"PAID"}) :
          /\ status[j] \in Settled => to \in Settled
          /\ status' = [status EXCEPT ![j] = to]
          /\ webhooks' = webhooks \cup {<<e, j>> : e \in entered}
    BY <1>2 DEF HarmlessMove
  <2>2. status'[i] = IF i = j THEN to ELSE status[i]
    BY <2>1 DEF TypeOK, StoreTypeOK
  <2>3. <<"PAID", i>> \notin {<<e, j>> : e \in entered}
    BY <2>1
  <2> QED
    BY <2>1, <2>2, <2>3
<1> QED
  BY <1>1, <1>2 DEF SafeMove

\* The credit invariants survive a step that keeps the credits.
LEMMA KeptCredits ==
  ASSUME PipelineInv, KeepsCredits
  PROVE  CreditedOnce' /\ PaidIsFunded' /\ PaidIsAnnounced' /\ OrphanedCreditFreezesInvoice'
<1>1. /\ TypeOK /\ CreditedOnce /\ PaidIsFunded /\ PaidIsAnnounced
      /\ OrphanedCreditFreezesInvoice /\ MatchesAreOwned
  BY DEF PipelineInv
<1>2. UNCHANGED <<creditedAt, ledger, payment>> /\ SafeMove
  BY DEF KeepsCredits
<1>3. \A u \in Transfers : creditedAt[u] => invoiceId'[u] = invoiceId[u]
                                           /\ matchStatus'[u] = matchStatus[u]
  BY DEF KeepsCredits
<1>4. \A u \in Transfers : creditedAt[u] => /\ matchStatus[u] = "CREDITED"
                                            /\ invoiceId[u] \in Invoices
                                            /\ invoiceId[u] = addressInvoice[payment[u].to]
  BY <1>1 DEF CreditedOnce, MatchesAreOwned, TypeOK, StoreTypeOK
<1>5. \A u \in Transfers : creditedAt[u] =>
        addressInvoice'[payment[u].to] = addressInvoice[payment[u].to]
  <2>1. \A u \in Transfers : payment[u].to \in Addresses
    BY <1>1 DEF TypeOK, WorldTypeOK, Payment
  <2>2. NoInvoice \notin Invoices
    BY StoreConstants DEF StoreConstants
  <2> QED
    BY <1>4, <2>1, <2>2 DEF KeepsCredits
<1>6. CreditedOnce'
  <2>1. SUFFICES ASSUME NEW u \in Transfers
                 PROVE  /\ creditedAt'[u] <=> matchStatus'[u] = "CREDITED"
                        /\ IF creditedAt'[u]
                           THEN /\ Len(ledger'[u]) = 1
                                /\ ledger'[u][1].invoice = invoiceId'[u]
                                /\ ledger'[u][1].invoice = addressInvoice'[payment'[u].to]
                                /\ ledger'[u][1].net + ledger'[u][1].fee = payment'[u].amount
                                /\ ledger'[u][1].net > 0
                           ELSE ledger'[u] = <<>>
    BY DEF CreditedOnce
  <2>2. CASE creditedAt[u]
    <3>1. creditedAt'[u] /\ matchStatus'[u] = "CREDITED"
      BY <1>2, <1>3, <1>4, <2>2
    <3>2. ledger'[u] = ledger[u] /\ payment'[u] = payment[u] /\ invoiceId'[u] = invoiceId[u]
          /\ addressInvoice'[payment'[u].to] = addressInvoice[payment[u].to]
      BY <1>2, <1>3, <1>5, <2>2
    <3>3. /\ Len(ledger[u]) = 1
          /\ ledger[u][1].invoice = invoiceId[u]
          /\ ledger[u][1].invoice = addressInvoice[payment[u].to]
          /\ ledger[u][1].net + ledger[u][1].fee = payment[u].amount
          /\ ledger[u][1].net > 0
      BY <1>1, <2>2 DEF CreditedOnce
    <3> QED
      BY <3>1, <3>2, <3>3
  <2>3. CASE ~creditedAt[u]
    BY <1>1, <1>2, <2>3 DEF CreditedOnce, KeepsCredits
  <2> QED
    BY <2>2, <2>3
<1>7. PaidIsFunded'
  <2>1. SUFFICES ASSUME NEW i \in Invoices
                 PROVE /\ status'[i] = "PAID" => /\ creditedTo(i)' # {}
                                                 /\ Acceptable(Total(creditedTo(i))')
                       /\ creditedTo(i)' # {} => status'[i] \in Settled
    BY DEF PaidIsFunded, Acceptable
  <2> QED
    BY <1>1, <1>2, <2>1, KeptTotals, SafeMoveFacts DEF PaidIsFunded
<1>8. PaidIsAnnounced'
  BY <1>1, <1>2, KeptTotals, SafeMoveFacts DEF PaidIsAnnounced
<1>9. OrphanedCreditFreezesInvoice'
  <2>1. SUFFICES ASSUME NEW u \in Transfers, creditedAt'[u], txStatus'[u] = "ORPHANED"
                 PROVE  status'[invoiceId'[u]] # "PAID"
    BY DEF OrphanedCreditFreezesInvoice
  <2>2. creditedAt[u] /\ invoiceId'[u] = invoiceId[u] /\ invoiceId[u] \in Invoices
    BY <1>2, <1>3, <1>4, <2>1
  <2>3. CASE txStatus[u] = "ORPHANED"
    <3>1. status[invoiceId[u]] # "PAID"
      BY <1>1, <2>2, <2>3 DEF OrphanedCreditFreezesInvoice
    <3> QED
      BY <1>1, <1>2, <2>2, <3>1, SafeMoveFacts
  <2>4. CASE txStatus[u] # "ORPHANED"
    BY <2>1, <2>2, <2>4 DEF KeepsCredits
  <2> QED
    BY <2>3, <2>4
<1> QED
  BY <1>6, <1>7, <1>8, <1>9

\* The credit invariants survive confirmTransfer.
LEMMA ConfirmCredits ==
  ASSUME PipelineInv, NEW t \in Transfers, confirmTransfer(t)
  PROVE  CreditedOnce' /\ PaidIsFunded' /\ PaidIsAnnounced' /\ OrphanedCreditFreezesInvoice'
<1>1. /\ TypeOK /\ CreditedOnce /\ PaidIsFunded /\ PaidIsAnnounced
      /\ OrphanedCreditFreezesInvoice /\ MatchesAreOwned
  BY DEF PipelineInv
<1>2. PICK i \in Invoices, to \in InvoiceStatus,
           entered \in SUBSET WebhookStatuses, C \in SUBSET Transfers :
        /\ ConfirmStep(i, to, entered, C)
        /\ "PAID" \in entered <=> C # {}
        /\ C = {} => to = status[i] \/ to # "PAID"
        /\ status[i] \in Settled => C = {} /\ to = status[i]
        /\ C # {} => to = "PAID" /\ Acceptable(Total(C))
        /\ \A u \in C : /\ invoiceId[u] = i
                        /\ matchStatus[u] = "PENDING_CONFIRMATION"
                        /\ payment[u].amount > percentageBps(payment[u].amount, feeBps)
  BY ConfirmEffect
<1>4. UNCHANGED <<payment, invoiceId, addressInvoice, txStatus>>
  BY DEF confirmTransfer, worldVars, chainVars, addressVars, txVars
<1>5. \A u \in C : ~creditedAt[u]
  BY <1>1, <1>2 DEF CreditedOnce
<1>6. CreditedOnce'
  <2>1. SUFFICES ASSUME NEW u \in Transfers
                 PROVE  /\ creditedAt'[u] <=> matchStatus'[u] = "CREDITED"
                        /\ IF creditedAt'[u]
                           THEN /\ Len(ledger'[u]) = 1
                                /\ ledger'[u][1].invoice = invoiceId'[u]
                                /\ ledger'[u][1].invoice = addressInvoice'[payment'[u].to]
                                /\ ledger'[u][1].net + ledger'[u][1].fee = payment'[u].amount
                                /\ ledger'[u][1].net > 0
                           ELSE ledger'[u] = <<>>
    BY DEF CreditedOnce
  <2>2. CASE u \in C
    <3>1. creditedAt'[u] /\ matchStatus'[u] = "CREDITED" /\ ledger'[u] = <<credit(i, u)>>
      BY <1>2, <2>2 DEF ConfirmStep
    <3>2. Len(ledger'[u]) = 1 /\ ledger'[u][1] = credit(i, u)
      BY <3>1
    <3>3. invoiceId'[u] = i /\ addressInvoice'[payment'[u].to] = i
      <4>1. invoiceId[u] = i /\ invoiceId[u] # NoInvoice
        BY <1>1, <1>2, <2>2 DEF MatchesAreOwned
      <4> QED
        BY <1>1, <1>4, <4>1 DEF MatchesAreOwned
    <3> DEFINE fee == percentageBps(payment[u].amount, feeBps)
    <3>4. payment[u].amount \in Nat /\ fee \in Nat
      BY <1>1, FeeIsPart
    <3>6. fee < payment[u].amount
      BY <1>2, <2>2
    <3>7. credit(i, u).invoice = i /\ credit(i, u).fee = fee
          /\ credit(i, u).net = payment[u].amount - fee
      BY DEF credit
    <3> HIDE DEF fee
    <3>8. credit(i, u).net + credit(i, u).fee = payment[u].amount /\ credit(i, u).net > 0
      BY <3>4, <3>6, <3>7
    <3> QED
      BY <1>4, <3>1, <3>2, <3>3, <3>7, <3>8
  <2>3. CASE u \notin C
    <3>1. creditedAt'[u] = creditedAt[u] /\ matchStatus'[u] = matchStatus[u]
          /\ ledger'[u] = ledger[u]
      BY <1>1, <1>2, <2>3 DEF ConfirmStep, TypeOK, StoreTypeOK
    <3> QED
      BY <1>1, <1>4, <3>1 DEF CreditedOnce
  <2> QED
    BY <2>2, <2>3
<1>7. \A j \in Invoices :
        creditedTo(j)' = IF j = i THEN creditedTo(j) \cup C ELSE creditedTo(j)
  <2>1. \A u \in Transfers : creditedAt'[u] <=> creditedAt[u] \/ u \in C
    BY <1>2 DEF ConfirmStep
  <2>2. \A u \in C : u \in Transfers /\ invoiceId[u] = i
    BY <1>2
  <2> QED
    BY <1>4, <2>1, <2>2 DEF creditedTo
<1>9. C # {} => creditedTo(i) = {}
  BY <1>1, <1>2 DEF PaidIsFunded
<1>10. \A j \in Invoices : status'[j] = IF j = i THEN to ELSE status[j]
  BY <1>1, <1>2 DEF ConfirmStep, TypeOK, StoreTypeOK
<1>11. PaidIsFunded'
  <2>1. SUFFICES ASSUME NEW j \in Invoices
                 PROVE /\ status'[j] = "PAID" => /\ creditedTo(j)' # {}
                                                 /\ Acceptable(Total(creditedTo(j))')
                       /\ creditedTo(j)' # {} => status'[j] \in Settled
    BY DEF PaidIsFunded, Acceptable
  <2>2. CASE j # i \/ C = {}
    <3>1. creditedTo(j)' = creditedTo(j)
      BY <1>7, <2>2
    <3>2. Total(creditedTo(j))' = Total(creditedTo(j))
      BY <3>1, <1>4 DEF Total
    <3>3. status'[j] = "PAID" => status[j] = "PAID"
      BY <1>2, <1>10, <2>2
    <3>4. status[j] \in Settled => status'[j] \in Settled
      BY <1>2, <1>10, <2>2
    <3> QED
      BY <1>1, <3>1, <3>2, <3>3, <3>4 DEF PaidIsFunded
  <2>3. CASE j = i /\ C # {}
    <3>1. creditedTo(j)' = C
      BY <1>7, <1>9, <2>3
    <3>2. Total(creditedTo(j))' = Total(C)
      BY <3>1, <1>4 DEF Total
    <3>3. "PAID" \in Settled
      BY DEF Settled
    <3> QED
      BY <1>2, <1>10, <2>3, <3>1, <3>2, <3>3
  <2> QED
    BY <2>2, <2>3
<1>12. PaidIsAnnounced'
  <2>1. SUFFICES ASSUME NEW j \in Invoices
                 PROVE  <<"PAID", j>> \in webhooks' <=> creditedTo(j)' # {}
    BY DEF PaidIsAnnounced
  <2>2. webhooks' = webhooks \cup {<<e, i>> : e \in entered}
    BY <1>2 DEF ConfirmStep
  <2>3. <<"PAID", j>> \in webhooks' <=> <<"PAID", j>> \in webhooks \/ (j = i /\ C # {})
    BY <1>2, <2>2
  <2> QED
    BY <1>1, <1>7, <2>3 DEF PaidIsAnnounced
<1>13. OrphanedCreditFreezesInvoice'
  <2>1. SUFFICES ASSUME NEW u \in Transfers, creditedAt'[u], txStatus'[u] = "ORPHANED"
                 PROVE  status'[invoiceId'[u]] # "PAID"
    BY DEF OrphanedCreditFreezesInvoice
  <2>2. u \notin C
    BY <1>1, <1>2, <1>4, <2>1 DEF MatchesAreOwned
  <2>3. creditedAt[u]
    BY <1>2, <2>1, <2>2 DEF ConfirmStep
  <2>4. invoiceId[u] \in Invoices /\ status[invoiceId[u]] # "PAID"
    BY <1>1, <1>4, <2>1, <2>3
       DEF OrphanedCreditFreezesInvoice, CreditedOnce, MatchesAreOwned, TypeOK, StoreTypeOK
  <2>5. invoiceId[u] = i => C = {}
    <3>1. invoiceId[u] = i => creditedTo(i) # {}
      BY <2>3 DEF creditedTo
    <3> QED
      BY <1>9, <3>1
  <2> QED
    BY <1>2, <1>4, <1>10, <2>4, <2>5
<1> QED
  BY <1>6, <1>11, <1>12, <1>13

-----------------------------------------------------------------------------
(* Types                                                                   *)

\* A step of the scan loop that leaves the store alone keeps the types.
LEMMA TypesOfTick ==
  ASSUME TypeOK, TickIsCurrent,
         \/ beginTick \/ rewindCursor \/ scanBlock \/ saveCursor \/ endTick
         \/ tickFails \/ \E t \in Transfers : confirmFails(t)
  PROVE  TypeOK'
<1>1. StoreTypeOK /\ ServiceTypeOK /\ WorldTypeOK
  BY DEF TypeOK
<1>2. StoreTypeOK'
  <2>1. UNCHANGED storeVars
    BY DEF beginTick, rewindCursor, scanBlock, saveCursor, endTick, tickFails, confirmFails
  <2> QED
    BY <1>1, <2>1 DEF StoreTypeOK, storeVars, invoiceVars, addressVars, txVars,
                      transferVars, ledgerVars
<1>3. WorldTypeOK'
  <2>1. UNCHANGED <<chainVars, phase>> /\ faults' \in {faults, faults + 1}
    BY DEF beginTick, rewindCursor, scanBlock, saveCursor, endTick, tickFails, confirmFails,
           worldVars
  <2>2. faults' \in Nat
    BY <1>1, <2>1 DEF WorldTypeOK
  <2> QED
    BY <1>1, <2>1, <2>2 DEF WorldTypeOK, chainVars
<1>4. UNCHANGED <<creating, cancelling>>
  BY DEF beginTick, rewindCursor, scanBlock, saveCursor, endTick, tickFails, confirmFails,
         requestVars
<1>5. blockHash \in [1..MaxTip -> Nat]
  BY <1>1 DEF WorldTypeOK, Heights
<1>6. chainTip \in 1..MaxTip /\ MaxTip \in Nat
  BY <1>1, StoreConstants DEF WorldTypeOK, Heights, StoreConstants
<1> DEFINE Cursors  == [block : 0..MaxTip, hash : Int]
           Monitors == [job : {"idle", "scan", "confirm", "reorg"}, tip : 0..MaxTip,
                        at : 0..MaxTip, hash : Int,
                        tracked : SUBSET Addresses, work : SUBSET Transfers]
<1>7. cursor \in Cursors /\ monitor \in Monitors
  BY <1>1 DEF ServiceTypeOK
<1>8. Idle \in Monitors
  BY <1>6 DEF Idle, NoHash
<1>9. ASSUME NEW c \in Cursors, NEW tip \in 0..MaxTip PROVE Scan(c, tip) \in Monitors
  BY <1>9 DEF Scan, loadTrackedAddresses
<1>10. cursor' \in Cursors /\ monitor' \in Monitors
  <2>1. CASE beginTick
    <3>1. cursor' = cursor
      BY <2>1 DEF beginTick
    <3>2. CASE checkForReorg
      <4>1. monitor' = [job |-> "reorg", tip |-> chainTip, at |-> cursor.block,
                        hash |-> -1, tracked |-> {}, work |-> orphanedTxs(cursor.block)]
        BY <2>1, <3>2 DEF beginTick, Idle, NoHash
      <4>2. orphanedTxs(cursor.block) \subseteq Transfers
        BY DEF orphanedTxs
      <4>3. chainTip \in 0..MaxTip /\ cursor.block \in 0..MaxTip
        BY <1>6, <1>7
      <4> QED
        BY <1>7, <3>1, <4>1, <4>2, <4>3
    <3>3. CASE ~checkForReorg
      <4>1. monitor' = Scan(cursor, chainTip)
        BY <2>1, <3>3 DEF beginTick
      <4>2. chainTip \in 0..MaxTip
        BY <1>6
      <4> QED
        BY <1>7, <1>9, <3>1, <4>1, <4>2
    <3> QED
      BY <3>2, <3>3
  <2>2. CASE rewindCursor
    <3> DEFINE rewound == [block |-> monitor.at - 1, hash |-> getBlockHash(monitor.at - 1)]
    <3>1. monitor.at - 1 \in 0..MaxTip
      <4>1. monitor.at >= 1
        BY <2>2 DEF rewindCursor, TickIsCurrent
      <4>2. monitor.at \in 0..MaxTip
        BY <1>7
      <4> QED
        BY <1>6, <4>1, <4>2
    <3>2. rewound \in Cursors
      <4>1. getBlockHash(monitor.at - 1) \in Int
        BY <1>5, <1>6, <3>1 DEF getBlockHash, NoHash
      <4> QED
        BY <3>1, <4>1
    <3>3. cursor' = rewound /\ monitor' = Scan(rewound, monitor.tip)
      BY <2>2 DEF rewindCursor
    <3> HIDE DEF rewound
    <3> QED
      BY <1>7, <1>9, <3>2, <3>3
  <2>3. CASE scanBlock
    <3>1. monitor.at + 1 \in 1..chainTip
      BY <1>6, <1>7, <2>3 DEF scanBlock
    <3>2. monitor.at + 1 \in 0..MaxTip /\ blockHash[monitor.at + 1] \in Int
      BY <1>1, <1>6, <3>1 DEF WorldTypeOK, Heights
    <3>3. cursor' = cursor
      BY <2>3 DEF scanBlock
    <3> QED
      BY <1>7, <2>3, <3>2, <3>3 DEF scanBlock
  <2>4. CASE saveCursor
    <3>1. cursor' = [block |-> monitor.at, hash |-> monitor.hash]
      BY <2>4 DEF saveCursor
    <3>2. monitor' = [job |-> "confirm", tip |-> 0, at |-> 0, hash |-> -1,
                      tracked |-> {}, work |-> pendingTransfers]
      BY <2>4 DEF saveCursor, Idle, NoHash
    <3>3. pendingTransfers \subseteq Transfers
      BY DEF pendingTransfers
    <3> QED
      BY <1>6, <1>7, <3>1, <3>2, <3>3
  <2>5. CASE endTick \/ tickFails \/ \E t \in Transfers : confirmFails(t)
    BY <1>7, <1>8, <2>5 DEF endTick, tickFails, confirmFails
  <2> QED
    BY <2>1, <2>2, <2>3, <2>4, <2>5
<1>11. ServiceTypeOK'
  BY <1>1, <1>4, <1>10 DEF ServiceTypeOK
<1> QED
  BY <1>2, <1>3, <1>11 DEF TypeOK

\* A safe move keeps the types of the invoice columns.
LEMMA SafeMoveTypes ==
  ASSUME TypeOK, SafeMove
  PROVE  /\ status' \in [Invoices -> InvoiceStatus \cup {"none"}]
         /\ webhooks' \subseteq WebhookStatuses \X Invoices
<1>1. /\ status \in [Invoices -> InvoiceStatus \cup {"none"}]
      /\ webhooks \subseteq WebhookStatuses \X Invoices
  BY DEF TypeOK, StoreTypeOK
<1>2. CASE UNCHANGED invoiceVars
  BY <1>1, <1>2 DEF invoiceVars
<1>3. CASE HarmlessMove
  BY <1>1, <1>3 DEF HarmlessMove
<1> QED
  BY <1>2, <1>3 DEF SafeMove

\* Handling one row of the work list keeps the types of the services.
LEMMA TypesOfDone ==
  ASSUME TypeOK, NEW t \in Transfers, monitor' = Done(t),
         UNCHANGED <<requestVars, cursor, worldVars>>
  PROVE  ServiceTypeOK' /\ WorldTypeOK'
<1>1. ServiceTypeOK /\ WorldTypeOK
  BY DEF TypeOK
<1>2. WorldTypeOK'
  BY <1>1 DEF WorldTypeOK, worldVars, chainVars
<1> QED
  BY <1>1, <1>2 DEF ServiceTypeOK, Done, requestVars

\* Recording a transaction keeps the types.
LEMMA TypesOfProcess ==
  ASSUME PipelineInv, NEW t \in Transfers, processTransaction(t)
  PROVE  TypeOK'
<1>1. TypeOK /\ StoreTypeOK
  BY DEF PipelineInv, TypeOK
<1>2. SafeMove /\ UNCHANGED <<addressVars, creditedAt, ledgerVars>>
  BY ProcessEffect
<1>3. /\ txStatus' \in [Transfers -> {"none", "MINED", "ORPHANED"}]
      /\ blockNumber' \in [Transfers -> 0..MaxTip]
  <2>1. \/ UNCHANGED <<txStatus, blockNumber>>
        \/ /\ txStatus' = [txStatus EXCEPT ![t] = "MINED"]
           /\ blockNumber' = [blockNumber EXCEPT ![t] = minedAt[t]]
    BY DEF processTransaction, recordChainTransaction, txVars
  <2>2. minedAt[t] \in 0..MaxTip
    BY <1>1 DEF TypeOK, WorldTypeOK
  <2> QED
    BY <1>1, <2>1, <2>2 DEF StoreTypeOK
<1>4. /\ matchStatus' \in [Transfers -> TransferMatchStatus \cup {"none"}]
      /\ invoiceId' \in [Transfers -> Invoices \cup {NoInvoice}]
  <2>1. addressInvoice[payment[t].to] \in Invoices \cup {NoInvoice}
    BY <1>1 DEF TypeOK, StoreTypeOK, WorldTypeOK, Payment
  <2>2. CASE UNCHANGED <<matchStatus, invoiceId>>
    BY <1>1, <2>2 DEF StoreTypeOK
  <2>3. CASE \E m \in TransferMatchStatus :
               /\ matchStatus' = [matchStatus EXCEPT ![t] = m]
               /\ invoiceId' = [invoiceId EXCEPT ![t] = addressInvoice[payment[t].to]]
    BY <1>1, <2>1, <2>3 DEF StoreTypeOK
  <2> QED
    BY <2>2, <2>3, ProcessEffect
<1>5. confirmations' \in [Transfers -> Nat]
  <2>1. getConfirmations(t) \in Nat
    BY <1>1, ConfirmationsNat
  <2>2. confirmations' \in {confirmations, [confirmations EXCEPT ![t] = getConfirmations(t)]}
    BY DEF processTransaction, recordTransfer, transferVars
  <2> QED
    BY <1>1, <2>1, <2>2 DEF StoreTypeOK
<1>6. StoreTypeOK'
  BY <1>1, <1>2, <1>3, <1>4, <1>5, SafeMoveTypes DEF StoreTypeOK, addressVars, ledgerVars
<1>7. monitor' = Done(t) /\ UNCHANGED <<requestVars, cursor, worldVars>>
  BY DEF processTransaction
<1> QED
  BY <1>1, <1>6, <1>7, TypesOfDone DEF TypeOK

\* Orphaning a transaction keeps the types.
LEMMA TypesOfOrphan ==
  ASSUME PipelineInv, NEW t \in Transfers, orphanTransaction(t)
  PROVE  TypeOK'
<1>1. TypeOK /\ StoreTypeOK
  BY DEF PipelineInv, TypeOK
<1>2. /\ SafeMove
      /\ UNCHANGED <<addressVars, blockNumber, invoiceId, confirmations, creditedAt, ledger>>
  BY OrphanEffect DEF orphanTransaction
<1>3. txStatus' \in [Transfers -> {"none", "MINED", "ORPHANED"}]
  BY <1>1, OrphanEffect DEF StoreTypeOK
<1>4. matchStatus' \in [Transfers -> TransferMatchStatus \cup {"none"}]
  <2>1. "ORPHANED" \in TransferMatchStatus
    BY DEF TransferMatchStatus
  <2> QED
    BY <1>1, <2>1, OrphanEffect DEF StoreTypeOK
<1>5. discrepancies' \subseteq Transfers
  BY <1>1 DEF orphanTransaction, flagOrphanedCredit, StoreTypeOK
<1>6. StoreTypeOK'
  BY <1>1, <1>2, <1>3, <1>4, <1>5, SafeMoveTypes DEF StoreTypeOK, addressVars
<1>7. monitor' = Done(t) /\ UNCHANGED <<requestVars, cursor, worldVars>>
  BY DEF orphanTransaction
<1> QED
  BY <1>1, <1>6, <1>7, TypesOfDone DEF TypeOK

\* Confirming and settling keeps the types: what is posted is a posting, and
\* its net leg is not negative.
LEMMA TypesOfConfirm ==
  ASSUME PipelineInv, NEW t \in Transfers, confirmTransfer(t)
  PROVE  TypeOK'
<1>1. TypeOK /\ StoreTypeOK
  BY DEF PipelineInv, TypeOK
<1>2. PICK i \in Invoices, to \in InvoiceStatus,
           entered \in SUBSET WebhookStatuses, C \in SUBSET Transfers :
        ConfirmStep(i, to, entered, C)
  BY ConfirmEffect
<1>3. UNCHANGED <<addressVars, txVars, invoiceId, discrepancies>>
  BY DEF confirmTransfer
<1>4. /\ status' \in [Invoices -> InvoiceStatus \cup {"none"}]
      /\ webhooks' \subseteq WebhookStatuses \X Invoices
      /\ creditedAt' \in [Transfers -> BOOLEAN]
  BY <1>1, <1>2 DEF StoreTypeOK, ConfirmStep
<1>5. matchStatus' \in [Transfers -> TransferMatchStatus \cup {"none"}]
  <2>1. "CREDITED" \in TransferMatchStatus
    BY DEF TransferMatchStatus
  <2> QED
    BY <1>1, <1>2, <2>1 DEF StoreTypeOK, ConfirmStep
<1>6. confirmations' \in [Transfers -> Nat]
  <2>1. getConfirmations(t) \in Nat
    BY <1>1, ConfirmationsNat
  <2> QED
    BY <1>1, <2>1 DEF confirmTransfer, StoreTypeOK
<1>7. ledger' \in [Transfers -> Seq(Posting)]
  <2>1. \A u \in Transfers : credit(i, u) \in Posting
    <3>1. SUFFICES ASSUME NEW u \in Transfers PROVE credit(i, u) \in Posting
      OBVIOUS
    <3> DEFINE gross == payment[u].amount
               fee == percentageBps(gross, feeBps)
    <3>2. gross \in Nat /\ fee \in Nat /\ fee <= gross
      BY <1>1, FeeIsPart
    <3>3. credit(i, u) = [invoice |-> i, fee |-> fee, net |-> gross - fee]
      BY DEF credit
    <3> HIDE DEF gross, fee
    <3>4. gross - fee \in Nat
      BY <3>2
    <3> QED
      BY <3>2, <3>3, <3>4 DEF Posting
  <2>2. \A u \in Transfers : <<credit(i, u)>> \in Seq(Posting)
    BY <2>1
  <2>3. ledger' = [u \in Transfers |-> IF u \in C THEN <<credit(i, u)>> ELSE ledger[u]]
    BY <1>2 DEF ConfirmStep
  <2>4. \A u \in Transfers : ledger[u] \in Seq(Posting)
    BY <1>1 DEF StoreTypeOK
  <2> QED
    BY <2>2, <2>3, <2>4
<1>8. StoreTypeOK'
  BY <1>1, <1>3, <1>4, <1>5, <1>6, <1>7 DEF StoreTypeOK, addressVars, txVars
<1>9. monitor' = Done(t) /\ UNCHANGED <<requestVars, cursor, worldVars>>
  BY DEF confirmTransfer
<1> QED
  BY <1>1, <1>8, <1>9, TypesOfDone DEF TypeOK

\* A step of an API request or of the sweep keeps the types.
LEMMA TypesOfServe ==
  ASSUME PipelineInv, Serve
  PROVE  TypeOK'
<1>1. TypeOK /\ StoreTypeOK /\ ServiceTypeOK /\ WorldTypeOK
  BY DEF PipelineInv, TypeOK
<1>2. WorldTypeOK'
  BY <1>1 DEF Serve, reserveAddress, createInvoice, createFails, expireOne,
              loadAndMaybeExpire, readForCancel, cancelInvoice, cancelFails,
              WorldTypeOK, worldVars, chainVars
<1>3. ServiceTypeOK'
  <2>1. creating' \in [Invoices -> Addresses \cup {NoAddress}]
        /\ cancelling' \in [Requests -> Invoices \cup {NoInvoice}]
    BY <1>1 DEF Serve, reserveAddress, createInvoice, createFails, expireOne,
                loadAndMaybeExpire, readForCancel, cancelInvoice, cancelFails,
                ServiceTypeOK, requestVars
  <2>2. UNCHANGED <<monitor, cursor>>
    BY DEF Serve, reserveAddress, createInvoice, createFails, expireOne,
           loadAndMaybeExpire, readForCancel, cancelInvoice, cancelFails
  <2> QED
    BY <1>1, <2>1, <2>2 DEF ServiceTypeOK
<1>4. StoreTypeOK'
  <2> USE DEF StoreTypeOK, addressVars, txVars, transferVars, ledgerVars
  <2>1. CASE UNCHANGED storeVars
    BY <1>1, <2>1 DEF storeVars, invoiceVars
  <2>2. ASSUME NEW i \in Invoices, createInvoice(i) PROVE StoreTypeOK'
    <3>1. /\ addressStatus' \in [Addresses -> {"AVAILABLE", "ASSIGNED", "RETIRED"}]
          /\ addressInvoice' \in [Addresses -> Invoices \cup {NoInvoice}]
      BY <1>1, <2>2 DEF createInvoice
    <3> QED
      BY <1>1, <2>2, <3>1, CreateEffect, SafeMoveTypes
  <2>3. ASSUME NEW i \in Invoices, expireOne(i) PROVE StoreTypeOK'
    BY <1>1, <2>3, ExpireEffect, SafeMoveTypes
  <2>4. ASSUME NEW r \in Requests, cancelInvoice(r) PROVE StoreTypeOK'
    <3>1. addressStatus' \in [Addresses -> {"AVAILABLE", "ASSIGNED", "RETIRED"}]
      BY <1>1, <2>4 DEF cancelInvoice
    <3> QED
      BY <1>1, <2>4, <3>1, CancelEffect, SafeMoveTypes
  <2> QED
    BY <2>1, <2>2, <2>3, <2>4 DEF Serve, reserveAddress, createFails, readForCancel,
                                  cancelFails, loadAndMaybeExpire
<1> QED
  BY <1>2, <1>3, <1>4 DEF TypeOK

\* The world keeps the types: the clock, new blocks and reorganisations.
LEMMA TypesOfWorld ==
  ASSUME TypeOK, World
  PROVE  TypeOK'
<1>1. StoreTypeOK /\ ServiceTypeOK /\ WorldTypeOK
  BY DEF TypeOK
<1>2. UNCHANGED <<storeVars, requestVars, monitor, cursor>>
  BY DEF World, AdvanceClock, MineBlock, Reorg
<1>3. StoreTypeOK' /\ ServiceTypeOK'
  BY <1>1, <1>2 DEF StoreTypeOK, ServiceTypeOK, storeVars, invoiceVars, addressVars, txVars,
                    transferVars, ledgerVars, requestVars
<1>4. MaxTip \in Nat /\ chainTip \in 1..MaxTip
  BY <1>1, StoreConstants DEF WorldTypeOK, Heights, StoreConstants
<1>5. ASSUME NEW i \in Invoices, AdvanceClock(i) PROVE WorldTypeOK'
  BY <1>1, <1>5 DEF AdvanceClock, WorldTypeOK, chainVars, DeadlinePhase
<1>6. ASSUME NEW B \in SUBSET Transfers, MineBlock(B) PROVE WorldTypeOK'
  <2>1. chainTip + 1 \in 1..MaxTip
    BY <1>4, <1>6 DEF MineBlock
  <2>2. chainTip + 1 \in 0..MaxTip
    BY <2>1
  <2>3. minedAt' \in [Transfers -> 0..MaxTip]
    BY <1>1, <1>6, <2>2 DEF MineBlock, WorldTypeOK
  <2> QED
    BY <1>1, <1>6, <2>1, <2>3 DEF MineBlock, WorldTypeOK, Heights
<1>7. ASSUME NEW f \in 2..MaxTip, NEW tip \in f..MaxTip, Reorg(f, tip) PROVE WorldTypeOK'
  <2> DEFINE replaced == {t \in Transfers : minedAt[t] >= f}
  <2>1. PICK place \in [replaced -> {0} \cup f..tip] :
          minedAt' = [t \in Transfers |-> IF t \in replaced THEN place[t] ELSE minedAt[t]]
    BY <1>7 DEF Reorg
  <2>2. {0} \cup f..tip \subseteq 0..MaxTip
    BY <1>4, <1>7
  <2>3. \A t \in replaced : place[t] \in 0..MaxTip
    BY <2>1, <2>2
  <2>4. minedAt' \in [Transfers -> 0..MaxTip]
    <3> HIDE DEF replaced
    <3> QED
      BY <1>1, <2>1, <2>3 DEF WorldTypeOK
  <2>5. chainTip' \in Heights
    BY <1>4, <1>7 DEF Reorg, Heights
  <2>6. reorgs' \in Nat /\ blockHash' \in [Heights -> Nat]
    BY <1>1, <1>7 DEF Reorg, WorldTypeOK
  <2>7. UNCHANGED <<phase, payment, faults>>
    BY <1>7 DEF Reorg
  <2> QED
    BY <1>1, <2>4, <2>5, <2>6, <2>7 DEF WorldTypeOK
<1> QED
  BY <1>3, <1>5, <1>6, <1>7 DEF TypeOK, World

-----------------------------------------------------------------------------
(* Addresses and requests                                                  *)

\* Every step but createInvoice keeps the invoice rows and the address
\* assignments, and only cancelInvoice touches an address's status, that of
\* an address in use.
LEMMA AddressCases ==
  ASSUME PipelineInv, [Next]_vars
  PROVE  \/ \E i \in Invoices : createInvoice(i)
         \/ /\ SameRows
            /\ addressInvoice' = addressInvoice
            /\ addressStatus' \in [Addresses -> {"AVAILABLE", "ASSIGNED", "RETIRED"}]
            /\ \A a \in Addresses : addressStatus'[a] = "AVAILABLE" <=> addressStatus[a] = "AVAILABLE"
<1>1. TypeOK /\ StoreTypeOK /\ AddressUsedOnce
  BY DEF PipelineInv, TypeOK
<1> DEFINE Kept == /\ SameRows
                   /\ addressInvoice' = addressInvoice
                   /\ addressStatus' \in [Addresses -> {"AVAILABLE", "ASSIGNED", "RETIRED"}]
                   /\ \A a \in Addresses :
                        addressStatus'[a] = "AVAILABLE" <=> addressStatus[a] = "AVAILABLE"
<1>2. UNCHANGED addressVars /\ SameRows => Kept
  BY <1>1 DEF addressVars, StoreTypeOK
<1>3. ASSUME Quiet PROVE Kept
  BY <1>2, <1>3 DEF Quiet, storeVars, invoiceVars, SameRows
<1>4. ASSUME NEW t \in Transfers, processTransaction(t) PROVE Kept
  BY <1>2, <1>4, ProcessEffect
<1>5. ASSUME NEW t \in Transfers, orphanTransaction(t) PROVE Kept
  BY <1>2, <1>5, OrphanEffect
<1>6. ASSUME NEW t \in Transfers, confirmTransfer(t) PROVE Kept
  <2>1. UNCHANGED addressVars
    BY <1>6 DEF confirmTransfer
  <2>2. PICK i \in Invoices, to \in InvoiceStatus :
          status[i] # "none" /\ status' = [status EXCEPT ![i] = to]
    BY <1>6, ConfirmEffect DEF ConfirmStep
  <2>3. SameRows
    BY <1>1, <2>2 DEF SameRows, StoreTypeOK, InvoiceStatus
  <2> QED
    BY <1>2, <2>1, <2>3
<1>7. ASSUME NEW i \in Invoices, expireOne(i) PROVE Kept
  BY <1>2, <1>7, ExpireEffect
<1>8. ASSUME NEW r \in Requests, cancelInvoice(r) PROVE Kept
  <2>1. SameRows /\ addressInvoice' = addressInvoice
    BY <1>8, CancelEffect
  <2>2. cancelling[r] # NoInvoice
        /\ addressStatus' = [a \in Addresses |-> IF addressInvoice[a] = cancelling[r] THEN "RETIRED"
                                                 ELSE addressStatus[a]]
    BY <1>8 DEF cancelInvoice
  <2>3. \A a \in Addresses : addressInvoice[a] = cancelling[r] => addressStatus[a] # "AVAILABLE"
    BY <1>1, <2>2 DEF AddressUsedOnce
  <2> QED
    BY <1>1, <2>1, <2>2, <2>3 DEF StoreTypeOK
<1> HIDE DEF Kept
<1>9. Kept \/ \E i \in Invoices : createInvoice(i)
  BY <1>3, <1>4, <1>5, <1>6, <1>7, <1>8, StepCases
<1> QED
  BY <1>9 DEF Kept

\* No step gives an address to two invoices, or an invoice two addresses.
LEMMA AddressStep ==
  ASSUME PipelineInv, [Next]_vars
  PROVE  AddressUsedOnce'
<1>1. TypeOK /\ StoreTypeOK /\ AddressUsedOnce /\ RequestsHold
  BY DEF PipelineInv, TypeOK
<1>2. CASE /\ SameRows
           /\ addressInvoice' = addressInvoice
           /\ \A a \in Addresses : addressStatus'[a] = "AVAILABLE" <=> addressStatus[a] = "AVAILABLE"
  BY <1>1, <1>2 DEF AddressUsedOnce, SameRows
<1>3. ASSUME NEW i \in Invoices, createInvoice(i) PROVE AddressUsedOnce'
  <2> DEFINE b == creating[i]
  <2>1. /\ b \in Addresses
        /\ addressInvoice[b] = NoInvoice
        /\ status[i] = "none"
        /\ status' = [status EXCEPT ![i] = "PENDING"]
        /\ addressInvoice' = [addressInvoice EXCEPT ![b] = i]
    BY <1>3, CreateEffect
  <2>2. addressStatus' = [addressStatus EXCEPT ![b] = "ASSIGNED"]
    BY <1>3 DEF createInvoice
  <2>3. NoInvoice \notin Invoices
    BY StoreConstants DEF StoreConstants
  <2> HIDE DEF b
  <2>4. \A a \in Addresses : addressInvoice[a] # i
    BY <1>1, <2>1 DEF AddressUsedOnce
  <2>5. \A a \in Addresses : /\ addressInvoice'[a] = IF a = b THEN i ELSE addressInvoice[a]
                             /\ addressStatus'[a] = IF a = b THEN "ASSIGNED" ELSE addressStatus[a]
    BY <1>1, <2>1, <2>2 DEF StoreTypeOK
  <2>6. \A j \in Invoices : status'[j] = IF j = i THEN "PENDING" ELSE status[j]
    BY <1>1, <2>1 DEF StoreTypeOK
  <2>7. \A a \in Addresses : addressStatus'[a] = "AVAILABLE" <=> addressInvoice'[a] = NoInvoice
    BY <1>1, <2>3, <2>5 DEF AddressUsedOnce
  <2>8. \A a, c \in Addresses :
          addressInvoice'[a] = addressInvoice'[c] => a = c \/ addressInvoice'[a] = NoInvoice
    BY <1>1, <2>4, <2>5 DEF AddressUsedOnce
  <2>9. \A j \in Invoices : status'[j] # "none" <=> \E a \in Addresses : addressInvoice'[a] = j
    <3>1. SUFFICES ASSUME NEW j \in Invoices
                   PROVE  status'[j] # "none" <=> \E a \in Addresses : addressInvoice'[a] = j
      OBVIOUS
    <3>2. CASE j = i
      BY <2>1, <2>5, <2>6, <3>2
    <3>3. CASE j # i
      <4>1. status'[j] = status[j]
        BY <2>6, <3>3
      <4>2. \A a \in Addresses : addressInvoice'[a] = j <=> addressInvoice[a] = j
        BY <2>1, <2>3, <2>5, <3>3
      <4> QED
        BY <1>1, <4>1, <4>2 DEF AddressUsedOnce
    <3> QED
      BY <3>2, <3>3
  <2> QED
    BY <2>7, <2>8, <2>9 DEF AddressUsedOnce
<1> QED
  BY <1>2, <1>3, AddressCases

\* The row locks of creations in progress stay exclusive, and the invoices of
\* cancellations in progress stay in existence.
LEMMA RequestStep ==
  ASSUME PipelineInv, [Next]_vars
  PROVE  RequestsHold'
<1>1. TypeOK /\ StoreTypeOK /\ ServiceTypeOK /\ AddressUsedOnce /\ RequestsHold
  BY DEF PipelineInv, TypeOK
<1> DEFINE Kept == /\ SameRows
                   /\ \A a \in Addresses :
                        addressStatus'[a] = "AVAILABLE" <=> addressStatus[a] = "AVAILABLE"
<1>2. ASSUME Kept, UNCHANGED requestVars PROVE RequestsHold'
  BY <1>1, <1>2 DEF RequestsHold, SameRows, requestVars, ServiceTypeOK
<1>3. UNCHANGED storeVars => Kept
  BY DEF storeVars, invoiceVars, addressVars, SameRows
<1>4. ASSUME NEW i \in Invoices, NEW a \in Addresses, reserveAddress(i, a) PROVE RequestsHold'
  <2>1. \A j \in Invoices : creating'[j] = IF j = i THEN a ELSE creating[j]
    BY <1>1, <1>4 DEF reserveAddress, ServiceTypeOK
  <2>2. \A j \in Invoices : creating[j] # a
    BY <1>4, StoreConstants DEF reserveAddress, lockedAddresses, StoreConstants
  <2>3. UNCHANGED <<status, addressStatus, cancelling>>
    BY <1>4 DEF reserveAddress, storeVars, invoiceVars, addressVars
  <2>4. status[i] = "none" /\ addressStatus[a] = "AVAILABLE"
    BY <1>4 DEF reserveAddress
  <2> QED
    BY <1>1, <2>1, <2>2, <2>3, <2>4 DEF RequestsHold
<1>5. ASSUME NEW i \in Invoices, createFails(i) PROVE RequestsHold'
  <2>1. \A j \in Invoices : creating'[j] = IF j = i THEN NoAddress ELSE creating[j]
    BY <1>1, <1>5 DEF createFails, ServiceTypeOK
  <2>2. UNCHANGED <<status, addressStatus, cancelling>>
    BY <1>5 DEF createFails, storeVars, invoiceVars, addressVars
  <2> QED
    BY <1>1, <2>1, <2>2 DEF RequestsHold
<1>6. ASSUME NEW i \in Invoices, createInvoice(i) PROVE RequestsHold'
  <2>1. \A j \in Invoices : creating'[j] = IF j = i THEN NoAddress ELSE creating[j]
    BY <1>1, <1>6 DEF createInvoice, ServiceTypeOK
  <2>2. \A a \in Addresses : a # creating[i] => addressStatus'[a] = addressStatus[a]
    BY <1>1, <1>6 DEF createInvoice, StoreTypeOK
  <2>3. status[i] = "none" /\ \A j \in Invoices : status'[j] = IF j = i THEN "PENDING" ELSE status[j]
    BY <1>1, <1>6, CreateEffect DEF StoreTypeOK
  <2>4. cancelling' = cancelling
    BY <1>6 DEF createInvoice
  <2>5. \A j \in Invoices : creating'[j] # NoAddress =>
          /\ status'[j] = "none"
          /\ addressStatus'[creating'[j]] = "AVAILABLE"
          /\ \A k \in Invoices : creating'[k] = creating'[j] => k = j
    <3>1. SUFFICES ASSUME NEW j \in Invoices, creating'[j] # NoAddress
                   PROVE  /\ status'[j] = "none"
                          /\ addressStatus'[creating'[j]] = "AVAILABLE"
                          /\ \A k \in Invoices : creating'[k] = creating'[j] => k = j
      OBVIOUS
    <3>2. j # i /\ creating'[j] = creating[j] /\ creating[j] \in Addresses
      BY <1>1, <2>1, <3>1 DEF ServiceTypeOK
    <3>3. creating[j] # creating[i]
      BY <1>1, <3>1, <3>2 DEF RequestsHold
    <3> QED
      BY <1>1, <2>1, <2>2, <2>3, <3>1, <3>2, <3>3 DEF RequestsHold
  <2>6. \A r \in Requests : cancelling'[r] # NoInvoice => status'[cancelling'[r]] # "none"
    BY <1>1, <2>3, <2>4 DEF RequestsHold, ServiceTypeOK
  <2> QED
    BY <2>5, <2>6 DEF RequestsHold
<1>7. ASSUME NEW r \in Requests, NEW i \in Invoices, readForCancel(r, i) PROVE RequestsHold'
  <2>1. \A q \in Requests : cancelling'[q] = IF q = r THEN i ELSE cancelling[q]
    BY <1>1, <1>7 DEF readForCancel, ServiceTypeOK
  <2>2. UNCHANGED <<status, addressStatus, creating>> /\ status[i] # "none"
    BY <1>7 DEF readForCancel, storeVars, invoiceVars, addressVars
  <2> QED
    BY <1>1, <2>1, <2>2 DEF RequestsHold
<1>8. ASSUME NEW r \in Requests, cancelInvoice(r) \/ cancelFails(r), Kept PROVE RequestsHold'
  <2>1. \A q \in Requests : cancelling'[q] = IF q = r THEN NoInvoice ELSE cancelling[q]
    BY <1>1, <1>8 DEF cancelInvoice, cancelFails, ServiceTypeOK
  <2>2. creating' = creating
    BY <1>8 DEF cancelInvoice, cancelFails
  <2> QED
    BY <1>1, <1>8, <2>1, <2>2 DEF RequestsHold, SameRows, ServiceTypeOK
<1>9. CASE Kept
  <2>1. CASE Tick \/ tickFails \/ World \/ UNCHANGED vars
    <3>1. UNCHANGED requestVars
      BY <2>1 DEF Tick, beginTick, rewindCursor, scanBlock, saveCursor, endTick,
                  processTransaction, confirmTransfer, confirmFails, orphanTransaction,
                  tickFails, World, AdvanceClock, MineBlock, Reorg, vars
    <3> QED
      BY <1>2, <1>9, <3>1
  <2>2. CASE Serve
    <3>1. ASSUME NEW i \in Invoices, expireOne(i) PROVE RequestsHold'
      BY <1>2, <1>9, <3>1 DEF expireOne
    <3> QED
      BY <1>4, <1>5, <1>6, <1>7, <1>8, <1>9, <2>2, <3>1 DEF Serve, loadAndMaybeExpire
  <2> QED
    BY <2>1, <2>2 DEF Next
<1> HIDE DEF Kept
<1>10. Kept \/ \E i \in Invoices : createInvoice(i)
  BY AddressCases DEF Kept
<1> QED
  BY <1>6, <1>9, <1>10

-----------------------------------------------------------------------------
(* Matches and the tick                                                    *)

\* A recorded transfer stays with the invoice that owns its destination.
LEMMA MatchStep ==
  ASSUME PipelineInv, [Next]_vars
  PROVE  MatchesAreOwned'
<1>1. TypeOK /\ StoreTypeOK /\ MatchesAreOwned /\ CreditedOnce
  BY DEF PipelineInv, TypeOK
<1>2. CASE UNCHANGED <<addressInvoice, txStatus, matchStatus, invoiceId, payment>>
  BY <1>1, <1>2 DEF MatchesAreOwned
<1>3. ASSUME NEW t \in Transfers, processTransaction(t) PROVE MatchesAreOwned'
  <2>1. UNCHANGED <<addressInvoice, payment>>
    BY <1>3, ProcessEffect DEF addressVars
  <2>2. \A u \in Transfers : txStatus'[u] \in {txStatus[u], "MINED"}
    BY <1>3, ProcessEffect
  <2>3. CASE UNCHANGED <<matchStatus, invoiceId>>
    BY <1>1, <2>1, <2>2, <2>3 DEF MatchesAreOwned
  <2>4. CASE \E m \in TransferMatchStatus \ {"CREDITED"} :
               /\ txStatus'[t] = "MINED"
               /\ m = "PENDING_CONFIRMATION" => addressInvoice[payment[t].to] # NoInvoice
               /\ matchStatus' = [matchStatus EXCEPT ![t] = m]
               /\ invoiceId' = [invoiceId EXCEPT ![t] = addressInvoice[payment[t].to]]
    <3>1. PICK m \in TransferMatchStatus \ {"CREDITED"} :
            /\ txStatus'[t] = "MINED"
            /\ m = "PENDING_CONFIRMATION" => addressInvoice[payment[t].to] # NoInvoice
            /\ matchStatus' = [matchStatus EXCEPT ![t] = m]
            /\ invoiceId' = [invoiceId EXCEPT ![t] = addressInvoice[payment[t].to]]
      BY <2>4
    <3>2. \A u \in Transfers :
            /\ matchStatus'[u] = IF u = t THEN m ELSE matchStatus[u]
            /\ invoiceId'[u] = IF u = t THEN addressInvoice[payment[t].to] ELSE invoiceId[u]
      BY <1>1, <3>1 DEF StoreTypeOK
    <3> QED
      BY <1>1, <2>1, <2>2, <3>1, <3>2 DEF MatchesAreOwned
  <2> QED
    BY <1>3, <2>3, <2>4, ProcessEffect
<1>4. ASSUME NEW t \in Transfers, orphanTransaction(t) PROVE MatchesAreOwned'
  <2>1. UNCHANGED <<addressInvoice, payment, invoiceId>>
    BY <1>4, OrphanEffect DEF addressVars
  <2>2. \A u \in Transfers : u # t => txStatus'[u] = txStatus[u] /\ matchStatus'[u] = matchStatus[u]
    <3>1. txStatus' = [txStatus EXCEPT ![t] = "ORPHANED"]
      BY <1>4, OrphanEffect
    <3>2. matchStatus' = matchStatus \/ matchStatus' = [matchStatus EXCEPT ![t] = "ORPHANED"]
      BY <1>4, OrphanEffect
    <3> QED
      BY <1>1, <3>1, <3>2 DEF StoreTypeOK
  <2>3. matchStatus'[t] # "PENDING_CONFIRMATION"
        /\ (matchStatus'[t] = "CREDITED" => matchStatus[t] = "CREDITED")
    BY <1>1, <1>4, OrphanEffect DEF StoreTypeOK, CreditedOnce
  <2> QED
    BY <1>1, <2>1, <2>2, <2>3 DEF MatchesAreOwned
<1>5. ASSUME NEW t \in Transfers, confirmTransfer(t) PROVE MatchesAreOwned'
  <2>1. UNCHANGED <<addressInvoice, payment, invoiceId, txStatus>>
    BY <1>5 DEF confirmTransfer, addressVars, txVars, worldVars, chainVars
  <2>2. PICK C \in SUBSET Transfers :
          /\ matchStatus' = [u \in Transfers |-> IF u \in C THEN "CREDITED" ELSE matchStatus[u]]
          /\ \A u \in C : matchStatus[u] = "PENDING_CONFIRMATION"
    BY <1>5, ConfirmEffect DEF ConfirmStep
  <2> QED
    BY <1>1, <2>1, <2>2 DEF MatchesAreOwned
<1>6. ASSUME NEW i \in Invoices, createInvoice(i) PROVE MatchesAreOwned'
  <2>1. UNCHANGED <<txStatus, matchStatus, invoiceId, payment>>
    BY <1>6, CreateEffect DEF txVars, transferVars
  <2>2. \A a \in Addresses : addressInvoice[a] # NoInvoice => addressInvoice'[a] = addressInvoice[a]
    BY <1>1, <1>6, CreateEffect DEF StoreTypeOK
  <2>3. \A t \in Transfers : payment[t].to \in Addresses
    BY <1>1 DEF TypeOK, WorldTypeOK, Payment
  <2> QED
    BY <1>1, <2>1, <2>2, <2>3 DEF MatchesAreOwned
<1>7. ASSUME NEW i \in Invoices, expireOne(i) PROVE MatchesAreOwned'
  BY <1>2, <1>7, ExpireEffect DEF addressVars, txVars, transferVars
<1>8. ASSUME NEW r \in Requests, cancelInvoice(r) PROVE MatchesAreOwned'
  BY <1>2, <1>8, CancelEffect DEF txVars, transferVars
<1>9. CASE Quiet
  BY <1>2, <1>9 DEF Quiet, storeVars, addressVars, txVars, transferVars
<1> QED
  BY <1>3, <1>4, <1>5, <1>6, <1>7, <1>8, <1>9, StepCases

\* The rows a confirmation loop has yet to look at stay matched.
LEMMA TickStep ==
  ASSUME PipelineInv, [Next]_vars
  PROVE  TickIsCurrent'
<1>1. TypeOK /\ ServiceTypeOK /\ TickIsCurrent
  BY DEF PipelineInv, TypeOK
<1>2. CASE UNCHANGED <<monitor, matchStatus>>
  BY <1>1, <1>2 DEF TickIsCurrent
<1>3. CASE monitor' = Idle
  BY <1>3 DEF TickIsCurrent, Idle
<1>4. CASE beginTick
  <2>1. cursor.block \in Nat
    BY <1>1 DEF ServiceTypeOK
  <2>2. CASE checkForReorg
    <3>1. monitor'.job = "reorg" /\ monitor'.at = cursor.block
      BY <1>4, <2>2 DEF beginTick, Idle
    <3> QED
      BY <2>1, <2>2, <3>1 DEF checkForReorg, TickIsCurrent
  <2>3. CASE ~checkForReorg
    BY <1>4, <2>3 DEF beginTick, Scan, TickIsCurrent
  <2> QED
    BY <2>2, <2>3
<1>5. CASE rewindCursor
  BY <1>5 DEF rewindCursor, Scan, TickIsCurrent
<1>6. CASE scanBlock
  BY <1>1, <1>6 DEF scanBlock, ServiceTypeOK, TickIsCurrent
<1>7. CASE saveCursor
  <2>1. monitor'.job = "confirm" /\ monitor'.work = pendingTransfers /\ matchStatus' = matchStatus
    BY <1>7 DEF saveCursor, Idle, storeVars, transferVars
  <2> QED
    BY <2>1 DEF TickIsCurrent, pendingTransfers
<1>8. ASSUME NEW t \in Transfers, processTransaction(t) \/ orphanTransaction(t)
      PROVE  TickIsCurrent'
  BY <1>1, <1>8 DEF processTransaction, orphanTransaction, Done, ServiceTypeOK, TickIsCurrent
<1>9. ASSUME NEW t \in Transfers, confirmTransfer(t) PROVE TickIsCurrent'
  <2>1. monitor'.job = "confirm" /\ monitor.job = "confirm" /\ monitor'.work \subseteq monitor.work
        /\ monitor.work \subseteq Transfers
    BY <1>1, <1>9 DEF confirmTransfer, Done, ServiceTypeOK
  <2>2. \A u \in Transfers : matchStatus'[u] \in {matchStatus[u], "CREDITED"}
    BY <1>9 DEF confirmTransfer
  <2> QED
    BY <1>1, <2>1, <2>2 DEF TickIsCurrent
<1>10. CASE Tick
  BY <1>3, <1>4, <1>5, <1>6, <1>7, <1>8, <1>9, <1>10 DEF Tick, endTick, confirmFails
<1>11. CASE Serve \/ World \/ UNCHANGED vars
  BY <1>2, <1>11 DEF Serve, reserveAddress, createInvoice, createFails, expireOne,
       loadAndMaybeExpire, readForCancel, cancelInvoice, cancelFails, World, AdvanceClock,
       MineBlock, Reorg, vars, storeVars, transferVars
<1> QED
  BY <1>3, <1>10, <1>11 DEF Next, tickFails

-----------------------------------------------------------------------------
(* The invariant                                                           *)

\* Every step keeps the types.
LEMMA TypeStep ==
  ASSUME PipelineInv, [Next]_vars
  PROVE  TypeOK'
<1>1. TypeOK /\ TickIsCurrent
  BY DEF PipelineInv
<1>2. CASE UNCHANGED vars
  <2>1. UNCHANGED <<storeVars, requestVars, monitor, cursor, worldVars>>
    BY <1>2 DEF vars
  <2>2. StoreTypeOK'
    BY <1>1, <2>1 DEF TypeOK, StoreTypeOK, storeVars, invoiceVars, addressVars, txVars,
                      transferVars, ledgerVars
  <2>3. ServiceTypeOK' /\ WorldTypeOK'
    BY <1>1, <2>1 DEF TypeOK, ServiceTypeOK, WorldTypeOK, requestVars, worldVars, chainVars
  <2> QED
    BY <2>2, <2>3 DEF TypeOK
<1>3. CASE Tick \/ tickFails
  BY <1>1, <1>3, TypesOfTick, TypesOfProcess, TypesOfConfirm, TypesOfOrphan DEF Tick
<1>4. CASE Serve \/ World
  BY <1>1, <1>4, TypesOfServe, TypesOfWorld
<1> QED
  BY <1>2, <1>3, <1>4 DEF Next

\* The invariant holds when the monitor has just been started.
LEMMA InitInv == Init => PipelineInv
<1>1. SUFFICES ASSUME Init PROVE PipelineInv
  OBVIOUS
<1> USE DEF Init
<1>2. StoreTypeOK
  <2>1. <<>> \in Seq(Posting)
    OBVIOUS
  <2> QED
    BY <1>1, <2>1, StoreConstants DEF StoreTypeOK, StoreConstants
<1>3. MaxTip \in Nat \ {0}
  BY StoreConstants DEF StoreConstants
<1>4. ServiceTypeOK
  BY <1>1, <1>3 DEF ServiceTypeOK, Idle, NoHash
<1>5. WorldTypeOK
  BY <1>1, <1>3 DEF WorldTypeOK, Heights, DeadlinePhase
<1>6. \A i \in Invoices : creditedTo(i) = {}
  BY <1>1 DEF creditedTo
<1>7. NoInvoice \notin Invoices
  BY StoreConstants DEF StoreConstants
<1>8. AddressUsedOnce
  BY <1>1, <1>7 DEF AddressUsedOnce
<1>9. RequestsHold /\ MatchesAreOwned /\ TickIsCurrent
  BY <1>1 DEF RequestsHold, MatchesAreOwned, TickIsCurrent, Idle
<1>10. CreditedOnce
  BY <1>1 DEF CreditedOnce
<1>11. PaidIsFunded /\ PaidIsAnnounced /\ OrphanedCreditFreezesInvoice
  BY <1>1, <1>6 DEF PaidIsFunded, PaidIsAnnounced, OrphanedCreditFreezesInvoice
<1> QED
  BY <1>2, <1>4, <1>5, <1>8, <1>9, <1>10, <1>11 DEF PipelineInv, TypeOK

\* Every step keeps the invariant.
LEMMA StepInv ==
  ASSUME PipelineInv, [Next]_vars
  PROVE  PipelineInv'
<1>1. CreditedOnce' /\ PaidIsFunded' /\ PaidIsAnnounced' /\ OrphanedCreditFreezesInvoice'
  BY CreditCases, KeptCredits, ConfirmCredits
<1> QED
  BY <1>1, TypeStep, AddressStep, RequestStep, MatchStep, TickStep DEF PipelineInv

\* PipelineInv is an invariant of the pipeline, for any pool of addresses, any
\* number of invoices, transfers and requests, any amounts, tolerances,
\* policies and fees, and any chain of bounded height: whatever the monitor,
\* the API, the sweep and the chain interleave.
THEOREM PipelineInvariant == Spec => []PipelineInv
<1>1. Init => PipelineInv
  BY InitInv
<1>2. PipelineInv /\ [Next]_vars => PipelineInv'
  BY StepInv
<1> QED
  BY <1>1, <1>2, PTL DEF Spec

\* Every column of the store keeps the type its schema declares.
THEOREM TypeCorrect == Spec => []TypeOK
<1>1. PipelineInv => TypeOK
  BY DEF PipelineInv
<1> QED
  BY <1>1, PipelineInvariant, PTL

\* finalizeInvoice, postPaymentCredit and the replay check of recordTransfer
\* credit each transfer at most once, in full, to the invoice it paid.
THEOREM TransfersCreditedOnce == Spec => []CreditedOnce
<1>1. PipelineInv => CreditedOnce
  BY DEF PipelineInv
<1> QED
  BY <1>1, PipelineInvariant, PTL

\* finalizeInvoice makes an invoice PAID only with an acceptable amount
\* credited, and credits no open invoice.
THEOREM PaidInvoicesFunded == Spec => []PaidIsFunded
<1>1. PipelineInv => PaidIsFunded
  BY DEF PipelineInv
<1> QED
  BY <1>1, PipelineInvariant, PTL

\* emitWebhook announces payment.paid exactly for the invoices credited.
THEOREM PaidInvoicesAnnounced == Spec => []PaidIsAnnounced
<1>1. PipelineInv => PaidIsAnnounced
  BY DEF PipelineInv
<1> QED
  BY <1>1, PipelineInvariant, PTL

\* handleReorg leaves no PAID invoice resting on an orphaned credit.
THEOREM OrphanedCreditsFrozen == Spec => []OrphanedCreditFreezesInvoice
<1>1. PipelineInv => OrphanedCreditFreezesInvoice
  BY DEF PipelineInv
<1> QED
  BY <1>1, PipelineInvariant, PTL

\* createInvoice, the sweep and cancelInvoice never share or recycle a
\* deposit address.
THEOREM AddressesUsedOnce == Spec => []AddressUsedOnce
<1>1. PipelineInv => AddressUsedOnce
  BY DEF PipelineInv
<1> QED
  BY <1>1, PipelineInvariant, PTL

\* No step takes a deposit address away from the invoice it was handed to.
THEOREM AddressesNeverReassigned == Spec => AddressNeverReassigned
<1>1. ASSUME PipelineInv, [Next]_vars
      PROVE  \A a \in Addresses : addressInvoice[a] # NoInvoice =>
               addressInvoice'[a] = addressInvoice[a]
  BY <1>1, AddressCases, CreateEffect DEF PipelineInv, TypeOK, StoreTypeOK
<1> QED
  BY <1>1, PipelineInvariant, PTL DEF Spec, AddressNeverReassigned

\* No step undoes or repeats a credit: a rescan, a second settlement and a
\* reorganisation all leave a credited transfer's posting, invoice and
\* classification alone.
THEOREM CreditsAreForever == Spec => CreditIsForever
<1>1. ASSUME PipelineInv, [Next]_vars
      PROVE  \A t \in Transfers : creditedAt[t] =>
               /\ creditedAt'[t]
               /\ ledger'[t] = ledger[t]
               /\ invoiceId'[t] = invoiceId[t]
               /\ matchStatus'[t] = matchStatus[t]
  <2>1. CASE KeepsCredits
    BY <2>1 DEF KeepsCredits
  <2>2. ASSUME NEW t \in Transfers, confirmTransfer(t),
               NEW u \in Transfers, creditedAt[u]
        PROVE  /\ creditedAt'[u]
               /\ ledger'[u] = ledger[u]
               /\ invoiceId'[u] = invoiceId[u]
               /\ matchStatus'[u] = matchStatus[u]
    <3>1. PICK i \in Invoices, to \in InvoiceStatus,
               entered \in SUBSET WebhookStatuses, C \in SUBSET Transfers :
            /\ ConfirmStep(i, to, entered, C)
            /\ \A v \in C : matchStatus[v] = "PENDING_CONFIRMATION"
      BY <1>1, <2>2, ConfirmEffect
    <3>2. u \notin C
      BY <1>1, <2>2, <3>1 DEF PipelineInv, CreditedOnce
    <3>3. invoiceId' = invoiceId
      BY <2>2 DEF confirmTransfer
    <3> QED
      BY <2>2, <3>1, <3>2, <3>3 DEF ConfirmStep
  <2> QED
    BY <1>1, <2>1, <2>2, CreditCases
<1> QED
  BY <1>1, PipelineInvariant, PTL DEF Spec, CreditIsForever

-----------------------------------------------------------------------------
(* Moves along the table                                                   *)

\* The statuses the pipeline takes an invoice through; the others need an
\* operator.
PipelineStatus ==
  {"PENDING", "DETECTED", "CONFIRMING", "PAID", "UNDERPAID", "OVERPAID", "EXPIRED",
   "CANCELLED", "LATE_PAYMENT_REVIEW", "RECONCILIATION_REQUIRED"}

StatusesReached == \A i \in Invoices : status[i] \in PipelineStatus \cup {"none"}

\* canTransition does not ask for the actor: from the statuses the pipeline
\* reaches, an edge to one the monitor moves to is an edge of the monitor's.
LEMMA MonitorEdges ==
  ASSUME NEW s \in PipelineStatus,
         NEW to \in {"PENDING", "DETECTED", "LATE_PAYMENT_REVIEW", "RECONCILIATION_REQUIRED"},
         canTransition(s, to)
  PROVE  Edge(s, to, "monitor")
<1> USE DEF canTransition, isActorAllowed, findRule, TRANSITIONS, Rule, ANY_INTERNAL,
            HUMAN_REVIEW, Edge, assertTransition, InvoiceStatus
<1>1. CASE s = "PENDING"
  BY <1>1 DEF FromPending
<1>2. CASE s = "DETECTED"
  BY <1>2 DEF FromDetected
<1>3. CASE s = "CONFIRMING"
  BY <1>3 DEF FromConfirming
<1>4. CASE s = "PAID"
  BY <1>4 DEF FromPaid
<1>5. CASE s = "UNDERPAID"
  BY <1>5 DEF FromUnderpaid
<1>6. CASE s = "OVERPAID"
  BY <1>6 DEF FromOverpaid
<1>7. CASE s = "EXPIRED"
  BY <1>7 DEF FromExpired
<1>8. CASE s = "CANCELLED"
  BY <1>8 DEF FromCancelled
<1>9. CASE s = "LATE_PAYMENT_REVIEW"
  BY <1>9 DEF FromLatePaymentReview
<1>10. CASE s = "RECONCILIATION_REQUIRED"
  BY <1>10 DEF FromReconciliationRequired
<1> QED
  BY <1>1, <1>2, <1>3, <1>4, <1>5, <1>6, <1>7, <1>8, <1>9, <1>10 DEF PipelineStatus

\* The monitor may accept an outcome the merchant's policy covers.
LEMMA AcceptEdges ==
  Edge("OVERPAID", "PAID", "monitor") /\ Edge("UNDERPAID", "PAID", "monitor")
<1> USE DEF Edge, assertTransition, isActorAllowed, findRule, TRANSITIONS, Rule, InvoiceStatus
<1>1. Edge("OVERPAID", "PAID", "monitor")
  <2> DEFINE r == Rule("PAID", {"monitor", "system", "admin"})
  <2>1. r \in TRANSITIONS["OVERPAID"]
    BY DEF FromOverpaid
  <2>2. r.to = "PAID" /\ "monitor" \in r.actors
    OBVIOUS
  <2> QED BY <2>1, <2>2
<1>2. Edge("UNDERPAID", "PAID", "monitor")
  <2> DEFINE r == Rule("PAID", {"monitor", "admin"})
  <2>1. r \in TRANSITIONS["UNDERPAID"]
    BY DEF FromUnderpaid
  <2>2. r.to = "PAID" /\ "monitor" \in r.actors
    OBVIOUS
  <2> QED BY <2>1, <2>2
<1> QED BY <1>1, <1>2

\* One step of invoice i that the table allows, or a cancellation that was
\* let through.
LegalMove(i) ==
  /\ status'[i] \in PipelineStatus
  /\ \/ status[i] = "none" /\ status'[i] = "PENDING"
     \/ Walk(status[i], status'[i], "monitor")
     \/ Edge(status[i], status'[i], "system")
     \/ \E r \in Requests : cancelling[r] = i /\ status'[i] = "CANCELLED"

\* A single edge the monitor takes, if there is one.
LEMMA MonitorMove ==
  ASSUME TypeOK, StatusesReached, NEW i \in Invoices, status[i] # "none",
         NEW to \in {"PENDING", "DETECTED", "LATE_PAYMENT_REVIEW", "RECONCILIATION_REQUIRED"},
         NEW entered, canTransition(status[i], to), MoveInvoice(i, to, entered)
  PROVE  \A j \in Invoices : status'[j] # status[j] => LegalMove(j)
<1>1. Edge(status[i], to, "monitor")
  BY MonitorEdges DEF StatusesReached
<1>2. status \in [Invoices -> InvoiceStatus \cup {"none"}] /\ status' = [status EXCEPT ![i] = to]
  BY DEF TypeOK, StoreTypeOK, MoveInvoice
<1> QED
  BY <1>1, <1>2 DEF LegalMove, Walk, PipelineStatus

\* updateConfirmations walks to CONFIRMING, to the outcome and to PAID.
LEMMA ConfirmMove ==
  ASSUME PipelineInv, StatusesReached, NEW t \in Transfers, confirmTransfer(t)
  PROVE  \A j \in Invoices : status'[j] # status[j] => LegalMove(j)
<1> DEFINE i == invoiceId[t]
           n == getConfirmations(t)
           s == advanceConfirming(status[i], n)
           S == settling(t, n)
           target == settlementTarget(S)
           to == settledStatus(s, S)
<1>1. i \in Invoices /\ status[i] # "none"
  BY ConfirmEffect
<1>2. status' = [status EXCEPT ![i] = to] /\ ~confirmThrows(status[i], n, S)
  BY DEF confirmTransfer, MoveInvoice
<1>3. status \in [Invoices -> InvoiceStatus \cup {"none"}] /\ status[i] \in PipelineStatus
  BY <1>1 DEF PipelineInv, TypeOK, StoreTypeOK, StatusesReached
<1>4. s \in {status[i], "CONFIRMING"} /\ s \in PipelineStatus /\ s \in InvoiceStatus
  BY <1>3 DEF advanceConfirming, PipelineStatus, InvoiceStatus
<1>5. s # status[i] => Edge(status[i], s, "monitor")
  BY <1>2, <1>3, <1>4 DEF confirmThrows, Edge, PipelineStatus, InvoiceStatus
<1>6. CASE ~settles(s, S)
  <2>1. to = s
    BY <1>6 DEF settledStatus
  <2> QED
    BY <1>1, <1>2, <1>3, <1>4, <1>5, <2>1 DEF LegalMove, Walk
<1>7. CASE settles(s, S)
  <2>1. target \in {"PAID", "UNDERPAID", "OVERPAID"}
    BY <1>7, SettlementTargets
  <2>2. Edge(s, target, "monitor") /\ target \in InvoiceStatus
    BY <1>2, <1>4, <1>7, <2>1 DEF confirmThrows, Edge, InvoiceStatus
  <2>3. to = target \/ (to = "PAID" /\ Edge(target, to, "monitor"))
    BY <1>7, <2>1, AcceptEdges DEF settledStatus, autoAccept
  <2> HIDE DEF target, to, s
  <2>4. status[i] \in InvoiceStatus /\ Walk(status[i], to, "monitor")
    BY <1>3, <1>4, <1>5, <2>2, <2>3 DEF Walk, PipelineStatus, InvoiceStatus
  <2>5. to \in PipelineStatus
    BY <2>1, <2>3 DEF PipelineStatus
  <2> QED
    BY <1>1, <1>2, <1>3, <2>4, <2>5 DEF LegalMove
<1> QED
  BY <1>6, <1>7

\* Every status change is such a step.
LEMMA MovesAreLegal ==
  ASSUME PipelineInv, StatusesReached, [Next]_vars
  PROVE  \A i \in Invoices : status'[i] # status[i] => LegalMove(i)
<1>0. TypeOK /\ status \in [Invoices -> InvoiceStatus \cup {"none"}]
  BY DEF PipelineInv, TypeOK, StoreTypeOK
<1>1. CASE Quiet
  BY <1>1 DEF Quiet, storeVars, invoiceVars
<1>2. ASSUME NEW t \in Transfers, processTransaction(t), NEW j \in Invoices, status'[j] # status[j]
      PROVE  LegalMove(j)
  <2> DEFINE i == addressInvoice[payment[t].to]
  <2>1. payment[t].to \in Addresses /\ i \in Invoices \cup {NoInvoice}
    BY <1>0 DEF TypeOK, StoreTypeOK, WorldTypeOK, Payment
  <2>2. i \in Invoices => status[i] # "none"
    BY <2>1 DEF PipelineInv, AddressUsedOnce
  <2>3. \/ i # NoInvoice /\ (advanceOnFirstSighting(i) \/ moveToLatePaymentReview(i))
        \/ UNCHANGED status
    BY <1>2 DEF processTransaction, recordTransfer, evaluateTransferMatch, invoiceVars
  <2>4. CASE i # NoInvoice /\ (advanceOnFirstSighting(i) \/ moveToLatePaymentReview(i))
    <3>1. \E to \in {"DETECTED", "LATE_PAYMENT_REVIEW"}, entered \in {{"DETECTED"}, {}} :
            canTransition(status[i], to) /\ MoveInvoice(i, to, entered)
      BY <1>2, <2>4 DEF advanceOnFirstSighting, moveToLatePaymentReview, invoiceVars
    <3> QED
      BY <1>0, <1>2, <2>1, <2>2, <2>4, <3>1, MonitorMove
  <2> QED
    BY <1>2, <2>3, <2>4
<1>3. ASSUME NEW t \in Transfers, orphanTransaction(t), NEW j \in Invoices, status'[j] # status[j]
      PROVE  LegalMove(j)
  <2> DEFINE i == invoiceId[t]
  <2>1. i # NoInvoice
    <3>1. CASE creditedAt[t]
      <4>1. matchStatus[t] = "CREDITED"
        BY <3>1 DEF PipelineInv, CreditedOnce
      <4> QED
        BY <4>1 DEF PipelineInv, MatchesAreOwned
    <3>2. CASE ~creditedAt[t]
      BY <1>3, <3>2 DEF orphanTransaction, invoiceVars
    <3> QED BY <3>1, <3>2
  <2>2. i \in Invoices /\ status[i] # "none"
    BY <2>1, OwnerExists
  <2>3. flagOrphanedCredit(i, t) \/ revertInvoiceAfterOrphan(i, t)
    BY <1>3, <2>1 DEF orphanTransaction
  <2>4. \E to \in {"PENDING", "DETECTED", "RECONCILIATION_REQUIRED"} :
          canTransition(status[i], to) /\ MoveInvoice(i, to, {})
    BY <1>3, <2>3 DEF flagOrphanedCredit, revertInvoiceAfterOrphan, invoiceVars
  <2> QED
    BY <1>0, <1>3, <2>2, <2>4, MonitorMove
<1>4. ASSUME NEW i \in Invoices, createInvoice(i), NEW j \in Invoices, status'[j] # status[j]
      PROVE  LegalMove(j)
  BY <1>0, <1>4, CreateEffect DEF LegalMove, PipelineStatus
<1>5. ASSUME NEW i \in Invoices, expireOne(i), NEW j \in Invoices, status'[j] # status[j]
      PROVE  LegalMove(j)
  <2>1. /\ status[i] # "none" /\ isActorAllowed(status[i], "EXPIRED", "system")
        /\ status' = [status EXCEPT ![i] = "EXPIRED"]
    BY <1>5 DEF expireOne, expirable, MoveInvoice
  <2>2. j = i /\ status'[i] = "EXPIRED" /\ status[i] \in InvoiceStatus
    BY <1>0, <1>5, <2>1
  <2> QED
    BY <1>5, <2>1, <2>2 DEF LegalMove, Edge, assertTransition, PipelineStatus
<1>6. ASSUME NEW r \in Requests, cancelInvoice(r), NEW j \in Invoices, status'[j] # status[j]
      PROVE  LegalMove(j)
  <2>1. status' = [status EXCEPT ![cancelling[r]] = "CANCELLED"]
    BY <1>6 DEF cancelInvoice, MoveInvoice
  <2>2. j = cancelling[r] /\ status'[j] = "CANCELLED"
    BY <1>0, <1>6, <2>1
  <2> QED
    BY <2>2 DEF LegalMove, PipelineStatus
<1> QED
  BY <1>1, <1>2, <1>3, <1>4, <1>5, <1>6, ConfirmMove, StepCases

\* Whatever the monitor, the sweep and invoice creation interleave, none of
\* them moves an invoice off the transition table or along an edge that is
\* another actor's: the checks that ask only canTransition are enough.
THEOREM InternalMovesLegal == Spec => InternalMovesFollowTable
<1>1. Init => StatusesReached
  BY DEF Init, StatusesReached
<1>2. ASSUME PipelineInv, StatusesReached, [Next]_vars PROVE StatusesReached'
  BY <1>2, MovesAreLegal DEF LegalMove, StatusesReached
<1>3. ASSUME PipelineInv, StatusesReached, [Next]_vars
      PROVE  \A i \in Invoices : status'[i] # status[i] =>
               \/ status[i] = "none" /\ status'[i] = "PENDING"
               \/ Walk(status[i], status'[i], "monitor")
               \/ Edge(status[i], status'[i], "system")
               \/ \E r \in Requests : cancelling[r] = i /\ status'[i] = "CANCELLED"
  BY <1>3, MovesAreLegal DEF LegalMove
<1> QED
  BY <1>1, <1>2, <1>3, PipelineInvariant, PTL DEF Spec, InternalMovesFollowTable
=============================================================================
