----------------------------- MODULE BackOffice -----------------------------
(***************************************************************************)
(* The back office's lists, read page by page with a cursor, and the       *)
(* decisions operators take on what they find there: refunds, compliance   *)
(* checks, reconciliation discrepancies.                                   *)
(*                                                                         *)
(* Every list works on a table of its own, so a behaviour is about one of  *)
(* the tables.  A row id is a ULID drawn by the process that creates the   *)
(* row, before its transaction commits: rows need not appear in the order  *)
(* of their ids.  Nothing in the repository creates a refund, a check or   *)
(* a settlement; rows appear.                                              *)
(***************************************************************************)
EXTENDS Integers, Sequences, SequencesExt

CONSTANTS
  Merchants, Pagers, DecisionCalls, Admins,
  DEFAULT_PAGE_LIMIT, MAX_PAGE_LIMIT,  \* 20 and 100
  NoLimit, NoFilter,                   \* a query without limit or filter
  MaxRows                              \* bound on the rows of the table

ASSUME BackOfficeConstants ==
  /\ DEFAULT_PAGE_LIMIT \in 1..MAX_PAGE_LIMIT /\ MAX_PAGE_LIMIT \in Nat /\ MaxRows \in Nat
  /\ NoLimit \notin Int /\ Merchants # {}

VARIABLES
  boTable,   \* the table this behaviour is about
  boRows,    \* its committed rows, by id
  boPager,   \* the clients that read a list to its end
  boCall,    \* the decisions in progress
  boAudit    \* the audit rows the decisions wrote

boVars == <<boTable, boRows, boPager, boCall, boAudit>>

-----------------------------------------------------------------------------
\* The tables: the states their rows are created in, and what a decision
\* makes of them.

APPROVABLE_STATUSES == {"REQUESTED", "COMPLIANCE_REVIEW"}

CreatedIn ==
  [refund |-> {"REQUESTED"}, compliance_check |-> {"PENDING"}, reconciliation_discrepancy |-> {"UNRESOLVED"},
   audit_log |-> {"merchant.suspended", "refund.approved"}, settlement |-> {"SCHEDULED", "COMPLETED"},
   merchant |-> {"ACTIVE", "SUSPENDED"}, invoice |-> {"PENDING", "PAID"}, token_transfer |-> {"ETHEREUM", "BITCOIN"}]

Tables == DOMAIN CreatedIn

RefundDecisions     == {"APPROVED", "REJECTED"}
ReviewDecisions     == {"PASSED", "FLAGGED"}
DiscrepancyDecision == {"RESOLVED"}

Decisions(table) ==
  CASE table = "refund"                     -> RefundDecisions
    [] table = "compliance_check"           -> ReviewDecisions
    [] table = "reconciliation_discrepancy" -> DiscrepancyDecision
    [] OTHER                                -> {}

IdlePager == [pc |-> "idle"]
IdleDecision == [pc |-> "idle"]

BackOfficeInit ==
  /\ boTable \in Tables
  /\ boRows = <<>>
  /\ boPager = [p \in Pagers |-> IdlePager]
  /\ boCall = [c \in DecisionCalls |-> IdleDecision]
  /\ boAudit = <<>>

-----------------------------------------------------------------------------
\* Lists.

ValidLimit(raw) == raw = NoLimit \/ raw \in 1..MAX_PAGE_LIMIT

parseLimit(raw) == IF raw = NoLimit THEN DEFAULT_PAGE_LIMIT ELSE raw

\* Of limit + 1 rows asked for, one page and the cursor after it; 0 without
\* a further page.
\* (Mutant: the cursor is the row after the page.)
paginatePastEnd(ids, limit) ==
  LET items == SubSeq(ids, 1, IF Len(ids) < limit THEN Len(ids) ELSE limit)
  IN  [items |-> items, nextCursor |-> IF Len(ids) > limit THEN Last(ids) ELSE 0]
paginate(ids, limit) ==
  LET items == SubSeq(ids, 1, IF Len(ids) < limit THEN Len(ids) ELSE limit)
  IN  [items |-> items, nextCursor |-> IF Len(ids) > limit THEN Last(items) ELSE 0]

\* The administrators' lists have an optional filter; a merchant's own also
\* restrict to the merchant.
Filtered(row, query) == query.filter = NoFilter \/ row.state = query.filter
Owned(row, query) == Filtered(row, query) /\ row.merchant = query.merchant

ListRefunds(row, query) == Filtered(row, query)
ListComplianceChecks(row, query) == Filtered(row, query)
ListDiscrepancies(row, query) == query.filter = NoFilter \/ query.filter = "CRITICAL"
ListAuditLogs(row, query) == Filtered(row, query)
ListSettlements(row, query) == Filtered(row, query) /\ query.merchant \in {NoFilter, row.merchant}
ListMerchants(row, query) == Filtered(row, query)
ListInvoices(row, query) == Owned(row, query)
ListTransactions(row, query) == Owned(row, query)

Where(row, query) ==
  CASE boTable = "refund" -> ListRefunds(row, query)
    [] boTable = "compliance_check" -> ListComplianceChecks(row, query)
    [] boTable = "reconciliation_discrepancy" -> ListDiscrepancies(row, query)
    [] boTable = "audit_log" -> ListAuditLogs(row, query)
    [] boTable = "settlement" -> ListSettlements(row, query)
    [] boTable = "merchant" -> ListMerchants(row, query)
    [] boTable = "invoice" -> ListInvoices(row, query)
    [] boTable = "token_transfer" -> ListTransactions(row, query)

\* A transfer list refuses a network that does not exist.
ValidFilter(query) == boTable = "token_transfer" => query.filter \in {NoFilter, "ETHEREUM", "BITCOIN"}

\* Oldest first, except the audit log, which is read backwards in time.
Before(a, b) == IF boTable = "audit_log" THEN a > b ELSE a < b

Matching(query) == {id \in DOMAIN boRows : Where(boRows[id], query)}

\* findMany: the ids past the cursor in order, at most limit + 1 of them; only
\* ids after the last of a full answer are left out.
FindMany(query, cursor, limit) ==
  LET past == {id \in Matching(query) : cursor = 0 \/ Before(cursor, id)}
  IN  {ids \in BoundedSeq(past, limit + 1) :
         /\ \A i, j \in DOMAIN ids : i < j => Before(ids[i], ids[j])
         /\ \A id \in past \ ToSet(ids) : Len(ids) = limit + 1 /\ Before(Last(ids), id)}

\* What clients ask for: every state a row can be in, a network there is no
\* adapter for, the smallest, the largest and a refused limit.
OwnLists == {"invoice", "token_transfer"}

FiltersOf(table) ==
  {NoFilter} \cup (CASE table = "token_transfer"             -> CreatedIn[table] \cup {"SOLANA"}
                     [] table = "reconciliation_discrepancy" -> {"CRITICAL", "LOW"}
                     [] OTHER                                -> CreatedIn[table] \cup Decisions(table))

Queries ==
  [filter : FiltersOf(boTable), limit : {NoLimit, 0, MAX_PAGE_LIMIT},
   merchant : IF boTable \in OwnLists THEN Merchants ELSE {NoFilter}]
   \cup (IF boTable = "settlement" THEN [filter : {NoFilter}, limit : {NoLimit}, merchant : Merchants] ELSE {})

\* Whose rows there are; only some lists look at it.
RowOwners == IF boTable \in OwnLists \cup {"settlement"} THEN Merchants ELSE {CHOOSE m \in Merchants : TRUE}

\* A client starts to read a list.  stable: the rows that match from now on;
\* matched: the rows that did at some moment.
StartList(p, query) ==
  /\ boPager[p].pc = "idle"
  /\ boPager' = [boPager EXCEPT ![p] =
       IF ValidLimit(query.limit) /\ ValidFilter(query)
       THEN [pc |-> "reading", query |-> query, cursor |-> 0, seen |-> <<>>,
             stable |-> Matching(query), matched |-> Matching(query)]
       ELSE [pc |-> "refused"]]
  /\ UNCHANGED <<boTable, boRows, boCall, boAudit>>

ReadPage(p) ==
  LET r    == boPager[p]
      size == parseLimit(r.query.limit)
  IN  /\ r.pc = "reading"
      /\ \E ids \in FindMany(r.query, r.cursor, size) :
           LET page == paginate(ids, size)
           IN  boPager' = [boPager EXCEPT ![p].seen = @ \o page.items, ![p].cursor = page.nextCursor,
                                          ![p].pc = IF page.nextCursor = 0 THEN "read" ELSE "reading"]
      /\ UNCHANGED <<boTable, boRows, boCall, boAudit>>

\* What a change of the rows means for the lists being read.
Watched(rows) ==
  [p \in Pagers |->
     IF boPager[p].pc # "reading" THEN boPager[p]
     ELSE LET now == {id \in DOMAIN rows : Where(rows[id], boPager[p].query)}
          IN  [boPager[p] EXCEPT !.stable = @ \cap now, !.matched = @ \cup now]]

InsertRow(id, row) ==
  /\ id \notin DOMAIN boRows
  /\ boRows' = [i \in DOMAIN boRows \cup {id} |-> IF i = id THEN row ELSE boRows[i]]
  /\ boPager' = Watched(boRows')
  /\ UNCHANGED <<boTable, boCall, boAudit>>

-----------------------------------------------------------------------------
\* Decisions: the row is read and checked first, and updated in a transaction
\* of its own that does not look at it again.

Decidable(state) ==
  CASE boTable = "refund"                     -> state \in APPROVABLE_STATUSES
    [] boTable = "compliance_check"           -> state = "PENDING"
    [] boTable = "reconciliation_discrepancy" -> state # "RESOLVED"

ReadDecided(c, admin, id, decision) ==
  /\ boCall[c].pc = "idle"
  /\ id \in DOMAIN boRows              \* else 404
  /\ Decidable(boRows[id].state)       \* else 409
  /\ boCall' = [boCall EXCEPT ![c] =
       [pc |-> "decide", admin |-> admin, id |-> id, decision |-> decision, before |-> boRows[id].state]]
  /\ UNCHANGED <<boTable, boRows, boPager, boAudit>>

\* AuditLogService.record, in the transaction of the change.
AuditLogRecord(d) ==
  boAudit' = Append(boAudit, [actor |-> d.admin, id |-> d.id, before |-> d.before, after |-> d.decision])

\* The update and its audit row commit together.
WriteDecision(c, table) ==
  LET d == boCall[c]
  IN  /\ boTable = table /\ d.pc = "decide"
      /\ boRows' = [boRows EXCEPT ![d.id].state = d.decision]
      /\ boPager' = Watched(boRows')
      /\ AuditLogRecord(d)
      /\ boCall' = [boCall EXCEPT ![c] = [pc |-> "answered"]]
      /\ UNCHANGED boTable

DecideRefund(c) == WriteDecision(c, "refund")
ReviewComplianceCheck(c) == WriteDecision(c, "compliance_check")
ResolveDiscrepancy(c) == WriteDecision(c, "reconciliation_discrepancy")

BackOfficeNext ==
  \/ \E p \in Pagers :
       \/ \E query \in Queries : StartList(p, query)
       \/ ReadPage(p)
  \/ \E id \in 1..MaxRows, m \in RowOwners, s \in CreatedIn[boTable] :
       InsertRow(id, [merchant |-> m, state |-> s])
  \/ \E c \in DecisionCalls :
       \/ \E admin \in Admins, id \in 1..MaxRows, d \in Decisions(boTable) : ReadDecided(c, admin, id, d)
       \/ DecideRefund(c)
       \/ ReviewComplianceCheck(c)
       \/ ResolveDiscrepancy(c)

BackOfficeSpec == BackOfficeInit /\ [][BackOfficeNext]_boVars

-----------------------------------------------------------------------------

BackOfficeTypeOK ==
  /\ boTable \in Tables
  /\ DOMAIN boRows \subseteq 1..MaxRows
  /\ \A id \in DOMAIN boRows :
       boRows[id] \in [merchant : Merchants, state : CreatedIn[boTable] \cup Decisions(boTable)]
  /\ \A p \in Pagers : boPager[p].pc \in {"idle", "reading", "read", "refused"}
  /\ \A c \in DecisionCalls : boCall[c].pc \in {"idle", "decide", "answered"}
  /\ \A i \in DOMAIN boAudit : boAudit[i].after \in Decisions(boTable)

\* pagination.ts chose cursors because an offset "can skip or duplicate rows
\* under concurrent inserts".  A client that followed the cursors to the end
\* has seen every row that matched its query all the while, no row twice, in
\* order, and no row that never matched, whatever was inserted and decided in
\* the meantime.
PagesComplete ==
  \A p \in Pagers : boPager[p].pc = "read" =>
    LET seen == boPager[p].seen
    IN  /\ \A i, j \in DOMAIN seen : i < j => Before(seen[i], seen[j])
        /\ boPager[p].stable \subseteq ToSet(seen)
        /\ ToSet(seen) \subseteq boPager[p].matched
=============================================================================
