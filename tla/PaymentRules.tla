---------------------------- MODULE PaymentRules -----------------------------
(***************************************************************************)
(* The pure decision functions of packages/payments: matching a transfer   *)
(* to an invoice, counting confirmations, judging an amount against the    *)
(* invoice, and expiry.  Amounts are naturals in the asset's smallest unit *)
(* (the code uses bigint, so there is no width to overflow).               *)
(***************************************************************************)
EXTENDS Integers, InvoiceStateMachine

TransferMatchStatus ==
  {"CREDITED", "PENDING_CONFIRMATION", "LATE_PAYMENT_REVIEW",
   "UNSUPPORTED_ASSET", "BELOW_MINIMUM", "UNMATCHED", "COMPLIANCE_HOLD",
   "ORPHANED"}

\* evaluateTransferMatch for a mined, successful transaction that is not yet
\* credited (recordTransfer passes alreadyCredited and complianceHold as
\* false, and the adapters report no transfer of a reverted transaction).
\* `invoiceStatus` is "none" when no invoice claims the destination.
evaluateTransferMatch(assetRecognized, meetsMinimum, invoiceStatus, invoiceExpired) ==
  IF ~assetRecognized            THEN "UNSUPPORTED_ASSET"
  ELSE IF ~meetsMinimum          THEN "BELOW_MINIMUM"
  ELSE IF invoiceStatus = "none" THEN "UNMATCHED"
  ELSE IF invoiceExpired \/ ~isPayableStatus(invoiceStatus)
                                 THEN "LATE_PAYMENT_REVIEW"
  ELSE "PENDING_CONFIRMATION"

-----------------------------------------------------------------------------

\* countConfirmations: the containing block is the first confirmation.
countConfirmations(blockNumber, chainTip) ==
  IF chainTip < blockNumber THEN 0 ELSE chainTip - blockNumber + 1

isConfirmed(n, required) == n >= required

-----------------------------------------------------------------------------

\* Money.percentageBps(bps, 'floor').
percentageBps(amount, bps) == (amount * bps) \div 10000

minimumAccepted(required, underBps) == required - percentageBps(required, underBps)
maximumAccepted(required, overBps)  == required + percentageBps(required, overBps)

\* evaluatePayment(...).outcome
evaluatePayment(required, received, underBps, overBps) ==
  IF received = 0                                       THEN "NONE"
  ELSE IF received < minimumAccepted(required, underBps) THEN "UNDERPAID"
  ELSE IF received > maximumAccepted(required, overBps)  THEN "OVERPAID"
  ELSE "EXACT"

\* statusForOutcome: the status an outcome asks for ("none" for NONE).
statusForOutcome(outcome) ==
  CASE outcome = "EXACT" -> "PAID"
    [] outcome = "NONE"  -> "none"
    [] OTHER             -> outcome

-----------------------------------------------------------------------------

(***************************************************************************)
(* Where the clock stands relative to an invoice's deadline: before        *)
(* expiresAt, at or past it but within the late-arrival grace period, or   *)
(* past the grace period.                                                  *)
(***************************************************************************)
DeadlinePhase == {"open", "due", "late"}

\* evaluateExpiry(expiresAt, now).expired
evaluateExpiry(phase) == phase # "open"

isWithinGrace(phase) == phase # "late"
=============================================================================
