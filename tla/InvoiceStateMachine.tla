------------------------- MODULE InvoiceStateMachine -------------------------
(***************************************************************************)
(* The invoice state machine of packages/payments/src/state-machine.ts:    *)
(* the complete transition table, who may drive each edge, and the         *)
(* predicates every service asks before it moves an invoice.  The module   *)
(* has no state; the services that own invoices EXTEND it.                 *)
(***************************************************************************)

InvoiceStatus ==
  {"CREATED", "PENDING", "DETECTED", "CONFIRMING", "PAID", "UNDERPAID",
   "OVERPAID", "EXPIRED", "CANCELLED", "FAILED", "REFUNDED",
   "COMPLIANCE_REVIEW_REQUIRED", "LATE_PAYMENT_REVIEW",
   "RECONCILIATION_REQUIRED"}

TERMINAL_STATUSES == {"PAID", "EXPIRED", "CANCELLED", "FAILED", "REFUNDED"}

REVIEW_STATUSES ==
  {"UNDERPAID", "OVERPAID", "COMPLIANCE_REVIEW_REQUIRED",
   "LATE_PAYMENT_REVIEW", "RECONCILIATION_REQUIRED"}

PAYABLE_STATUSES == {"PENDING", "DETECTED", "CONFIRMING", "UNDERPAID"}

isPayableStatus(s) == s \in PAYABLE_STATUSES

-----------------------------------------------------------------------------

TransitionActor == {"system", "monitor", "merchant", "admin", "compliance"}

ANY_INTERNAL == {"system", "monitor"}
HUMAN_REVIEW == {"admin", "compliance"}

\* One edge of the table: the target and the actors allowed to take it.
Rule(to, actors) == [to |-> to, actors |-> actors]

\* The edges out of each status, in the order of the table.
FromCreated ==
  {Rule("PENDING", {"system"}), Rule("CANCELLED", {"merchant", "admin"}),
   Rule("FAILED", {"system"}),
   Rule("COMPLIANCE_REVIEW_REQUIRED", HUMAN_REVIEW \cup {"system"})}

FromPending ==
  {Rule("DETECTED", {"monitor"}), Rule("EXPIRED", {"system"}),
   Rule("CANCELLED", {"merchant", "admin"}), Rule("FAILED", {"system"}),
   Rule("COMPLIANCE_REVIEW_REQUIRED", HUMAN_REVIEW \cup {"system"})}

FromDetected ==
  {Rule("CONFIRMING", {"monitor"}), Rule("PENDING", {"monitor"}),
   Rule("FAILED", {"system"}),
   Rule("COMPLIANCE_REVIEW_REQUIRED", HUMAN_REVIEW \cup {"monitor"})}

FromConfirming ==
  {Rule("PAID", {"monitor"}), Rule("UNDERPAID", {"monitor"}),
   Rule("OVERPAID", {"monitor"}), Rule("DETECTED", {"monitor"}),
   Rule("PENDING", {"monitor"}), Rule("FAILED", {"system"}),
   Rule("COMPLIANCE_REVIEW_REQUIRED", HUMAN_REVIEW \cup {"monitor"}),
   Rule("RECONCILIATION_REQUIRED", ANY_INTERNAL)}

FromPaid ==
  {Rule("REFUNDED", {"system"}),
   Rule("RECONCILIATION_REQUIRED", ANY_INTERNAL),
   Rule("COMPLIANCE_REVIEW_REQUIRED", HUMAN_REVIEW)}

FromUnderpaid ==
  {Rule("CONFIRMING", {"monitor"}), Rule("PAID", {"monitor", "admin"}),
   Rule("EXPIRED", {"system"}), Rule("CANCELLED", {"merchant", "admin"}),
   Rule("REFUNDED", {"system"}), Rule("FAILED", {"system"}),
   Rule("RECONCILIATION_REQUIRED", ANY_INTERNAL)}

FromOverpaid ==
  {Rule("PAID", {"monitor", "system", "admin"}),
   Rule("REFUNDED", {"system"}),
   Rule("RECONCILIATION_REQUIRED", ANY_INTERNAL),
   Rule("FAILED", {"system"})}

FromExpired == {Rule("LATE_PAYMENT_REVIEW", {"monitor"})}

FromCancelled == {Rule("LATE_PAYMENT_REVIEW", {"monitor"})}

FromFailed ==
  {Rule("RECONCILIATION_REQUIRED", ANY_INTERNAL),
   Rule("PENDING", {"admin"})}

FromRefunded == {Rule("RECONCILIATION_REQUIRED", ANY_INTERNAL)}

FromComplianceReviewRequired ==
  {Rule("PENDING", {"compliance"}), Rule("CONFIRMING", {"compliance"}),
   Rule("PAID", {"compliance"}), Rule("CANCELLED", HUMAN_REVIEW),
   Rule("REFUNDED", {"system"}), Rule("FAILED", HUMAN_REVIEW)}

FromLatePaymentReview ==
  {Rule("PAID", {"admin"}), Rule("REFUNDED", {"system"}),
   Rule("RECONCILIATION_REQUIRED", ANY_INTERNAL),
   Rule("COMPLIANCE_REVIEW_REQUIRED", HUMAN_REVIEW)}

FromReconciliationRequired ==
  {Rule(to, {"admin"}) :
     to \in {"PAID", "UNDERPAID", "OVERPAID", "EXPIRED", "REFUNDED", "FAILED"}}

\* The complete transition table: an edge not listed here cannot happen.
TRANSITIONS ==
  [CREATED |-> FromCreated,
   PENDING |-> FromPending,
   DETECTED |-> FromDetected,
   CONFIRMING |-> FromConfirming,
   PAID |-> FromPaid,
   UNDERPAID |-> FromUnderpaid,
   OVERPAID |-> FromOverpaid,
   EXPIRED |-> FromExpired,
   CANCELLED |-> FromCancelled,
   FAILED |-> FromFailed,
   REFUNDED |-> FromRefunded,
   COMPLIANCE_REVIEW_REQUIRED |-> FromComplianceReviewRequired,
   LATE_PAYMENT_REVIEW |-> FromLatePaymentReview,
   RECONCILIATION_REQUIRED |-> FromReconciliationRequired]

\* findRule: the edge from -> to, if the table has one.
findRule(from, to) == {r \in TRANSITIONS[from] : r.to = to}

canTransition(from, to) == findRule(from, to) # {}

isActorAllowed(from, to, actor) ==
  \E r \in findRule(from, to) : actor \in r.actors

\* assertTransition returns normally exactly when this holds; otherwise it
\* throws InvalidTransitionError and the caller's transaction rolls back.
assertTransition(from, to, actor) ==
  from # to /\ isActorAllowed(from, to, actor)

\* STATUS_EVENTS: the statuses whose entry is announced by a webhook event.
\* The event type is named by the status that emits it.
WebhookStatuses ==
  {"PENDING", "DETECTED", "CONFIRMING", "PAID", "UNDERPAID", "OVERPAID",
   "EXPIRED", "CANCELLED", "REFUNDED"}

webhookEventForStatus(s) == {s} \cap WebhookStatuses
=============================================================================
