------------------------ MODULE LedgerReconciliation ------------------------
(***************************************************************************)
(* The ledger's cached balances and the worker's reconciliation of them.   *)
(*                                                                         *)
(* Payments are posted by one serializable transaction each; a             *)
(* reconciliation run checks one account after another, each in a          *)
(* serializable transaction of its own, while payments go on being posted. *)
(* A transaction is two steps here: the first takes its snapshot (and, for *)
(* a posting, draws its sequence numbers, which PostgreSQL never gives     *)
(* back), the second commits it.  Of two transactions that overlap on an   *)
(* account the second to commit is rolled back and tried again.            *)
(***************************************************************************)
EXTENDS MoneyMath, Sequences, FiniteSetsExt

CONSTANTS
  Credits,         \* payments to be credited, by idempotency key
  Grosses,         \* amounts received, in smallest units
  feeBps,
  LedgerWorkers,   \* processes that run the reconciliation loop
  maxRetries,      \* runInTransaction's
  MaxSequence,     \* bound on the sequence numbers drawn
  MaxAlterations,  \* bound on the caches altered from outside
  MaxLedgerRuns    \* bound on the reconciliation runs

ASSUME LedgerConstants ==
  /\ feeBps \in 0..10000 /\ Grosses \subseteq Nat \ {0}
  /\ maxRetries \in Nat /\ MaxSequence \in Nat \ 0..2 /\ MaxAlterations \in Nat /\ MaxLedgerRuns \in Nat

VARIABLES
  ledgerAccounts, \* the accounts there are, each with its cached balance
  ledgerEntries,  \* the committed entries
  nextSequence,
  credit,         \* the posting transaction of each payment
  reconciler,     \* what each worker's loop is doing
  ledgerRuns,     \* the ReconciliationRun rows with their discrepancies
  tampered        \* accounts whose cache was altered by something else

ledgerVars == <<ledgerAccounts, ledgerEntries, nextSequence, credit, reconciler, ledgerRuns, tampered>>

-----------------------------------------------------------------------------

LedgerAccountKind == {"gateway_holdings", "merchant_holdings", "merchant_payable", "customer_inflow",
                      "customer_refund", "fee_revenue", "network_fee_expense", "suspense"}

ACCOUNT_TYPES ==
  [kind \in LedgerAccountKind |->
     CASE kind \in {"gateway_holdings", "merchant_holdings"} -> "ASSET"
       [] kind \in {"merchant_payable", "suspense"}          -> "LIABILITY"
       [] kind \in {"customer_inflow", "customer_refund"}    -> "EQUITY"
       [] kind = "fee_revenue"                               -> "REVENUE"
       [] kind = "network_fee_expense"                       -> "EXPENSE"]

debitIncreases(type) == type \in {"ASSET", "EXPENSE"}

\* What an entry adds to the balance of its account.
Signed(entry) ==
  IF (entry.direction = "DEBIT") = debitIncreases(ACCOUNT_TYPES[entry.account])
  THEN entry.amount ELSE -entry.amount

EntriesOf(account) == {e \in ledgerEntries : e.account = account}

computeAccountBalance(account) == MapThenSumSet(Signed, EntriesOf(account))

computeBalanceDelta(account, since) ==
  LET later == {e \in EntriesOf(account) : e.sequence > since}
  IN  [delta |-> MapThenSumSet(Signed, later),
       throughSequence |-> Max({since} \cup {e.sequence : e \in later})]

\* The balanced legs of one payment; a fee of zero has no leg.
Legs(gross) ==
  LET fee == percentageBps(gross, feeBps, "floor")
      leg(account, direction, amount) == [account |-> account, direction |-> direction, amount |-> amount]
      split == <<leg("merchant_holdings", "DEBIT", gross), leg("merchant_payable", "CREDIT", gross - fee)>>
  IN  IF fee > 0 THEN Append(split, leg("fee_revenue", "CREDIT", fee)) ELSE split

\* The table's CHECK constraint, ledger_entries_amount_positive.
AmountPositive(legs) == \A i \in DOMAIN legs : legs[i].amount > 0

\* createMany: the legs with the sequence numbers drawn for them.
Numbered(legs, from) ==
  {[account |-> legs[i].account, direction |-> legs[i].direction, amount |-> legs[i].amount,
    sequence |-> from + i - 1] : i \in DOMAIN legs}

AccountsOf(entries) == {e.account : e \in entries}

NewAccount == [cachedBalance |-> 0, cachedThroughSeq |-> 0]
IdleReconciler == [pc |-> "idle"]

\* Either nothing was posted yet, or one payment was and is not reconciled.
LedgerInit ==
  /\ \E legs \in {<<>>} \cup {Legs(gross) : gross \in Grosses} :
       /\ AmountPositive(legs)
       /\ ledgerEntries = Numbered(legs, 1)
       /\ ledgerAccounts = [a \in AccountsOf(ledgerEntries) |-> NewAccount]
       /\ nextSequence = Len(legs) + 1
  /\ credit = [k \in Credits |-> [pc |-> "idle"]]
  /\ reconciler = [w \in LedgerWorkers |-> IdleReconciler]
  /\ ledgerRuns = <<>>
  /\ tampered = {}

-----------------------------------------------------------------------------
\* Serialization conflicts.

Touched(k) == AccountsOf(credit[k].entries)

\* Open transactions that lose to a commit that wrote the cache of `account`.
\* (Mutant: the transaction does not ask for SERIALIZABLE.)
noConflict(account) == credit
DoomCredits(account) ==
  [k \in Credits |-> IF credit[k].pc = "open" /\ account \in Touched(k)
                     THEN [credit[k] EXCEPT !.doomed = TRUE] ELSE credit[k]]

DoomReconcilers(accounts, others) ==
  [w \in LedgerWorkers |->
     IF w \in others /\ reconciler[w].pc = "open" /\ reconciler[w].account \in accounts /\ reconciler[w].matched
     THEN [reconciler[w] EXCEPT !.doomed = TRUE] ELSE reconciler[w]]

-----------------------------------------------------------------------------
\* Posting.  A posting with a leg the table refuses cannot commit.

PostPaymentCredit(k, gross) ==
  LET legs    == Legs(gross)
      entries == Numbered(legs, nextSequence)
  IN  /\ credit[k].pc = "idle" /\ nextSequence + Len(legs) - 1 <= MaxSequence
      /\ credit' = [credit EXCEPT ![k] =
           [pc |-> "open", entries |-> entries, doomed |-> ~AmountPositive(legs),
            creates |-> AccountsOf(entries) \ DOMAIN ledgerAccounts]]
      /\ nextSequence' = nextSequence + Len(legs)
      /\ UNCHANGED <<ledgerAccounts, ledgerEntries, reconciler, ledgerRuns, tampered>>

CommitCredit(k) ==
  LET made == credit[k].creates
  IN  /\ credit[k].pc = "open" /\ ~credit[k].doomed
      /\ ledgerEntries' = ledgerEntries \cup credit[k].entries
      /\ ledgerAccounts' = [a \in DOMAIN ledgerAccounts \cup made |->
                              IF a \in made THEN NewAccount ELSE ledgerAccounts[a]]
      /\ credit' = [j \in Credits |->
           IF j = k THEN [pc |-> "posted"]
           ELSE IF credit[j].pc = "open" /\ credit[j].creates \cap made # {}
                THEN [credit[j] EXCEPT !.doomed = TRUE] ELSE credit[j]]
      /\ reconciler' = DoomReconcilers(Touched(k), LedgerWorkers)
      /\ UNCHANGED <<nextSequence, ledgerRuns, tampered>>

\* A serialization failure, a timeout or a crash: runInTransaction or a later
\* tick of the monitor posts the payment again, with new sequence numbers.
RollBackCredit(k) ==
  /\ credit[k].pc = "open"
  /\ credit' = [credit EXCEPT ![k] = [pc |-> "idle"]]
  /\ UNCHANGED <<ledgerAccounts, ledgerEntries, nextSequence, reconciler, ledgerRuns, tampered>>

-----------------------------------------------------------------------------
\* Reconciliation.

StartRun(w) ==
  /\ reconciler[w].pc = "idle" /\ Len(ledgerRuns) < MaxLedgerRuns
  /\ ledgerRuns' = Append(ledgerRuns, [status |-> "RUNNING", discrepancies |-> {}, alteredBefore |-> tampered])
  /\ reconciler' = [reconciler EXCEPT ![w] =
       [pc |-> "next", run |-> Len(ledgerRuns) + 1, accounts |-> DOMAIN ledgerAccounts, retries |-> 0]]
  /\ UNCHANGED <<ledgerAccounts, ledgerEntries, nextSequence, credit, tampered>>

\* reconcileAccount, in one transaction: cache plus what came after it,
\* against a recount of everything.
ReconcileAccount(w, account) ==
  LET r         == reconciler[w]
      cached    == ledgerAccounts[account]
      since     == computeBalanceDelta(account, cached.cachedThroughSeq)
      refreshed == cached.cachedBalance + since.delta
  IN  /\ r.pc = "next" /\ account \in r.accounts
      /\ reconciler' = [reconciler EXCEPT ![w] =
           [pc |-> "open", run |-> r.run, accounts |-> r.accounts, retries |-> r.retries, account |-> account,
            matched |-> refreshed = computeAccountBalance(account), doomed |-> FALSE,
            refresh |-> [cachedBalance |-> refreshed, cachedThroughSeq |-> since.throughSequence]]]
      /\ UNCHANGED <<ledgerAccounts, ledgerEntries, nextSequence, credit, ledgerRuns, tampered>>

NextAccount(r) == [pc |-> "next", run |-> r.run, accounts |-> r.accounts \ {r.account}, retries |-> 0]

CommitReconcile(w) ==
  LET r == reconciler[w]
  IN  /\ r.pc = "open" /\ ~r.doomed
      /\ IF r.matched
         THEN /\ ledgerAccounts' = [ledgerAccounts EXCEPT ![r.account] = r.refresh]
              /\ credit' = DoomCredits(r.account)
              /\ reconciler' = [DoomReconcilers({r.account}, LedgerWorkers \ {w}) EXCEPT ![w] = NextAccount(r)]
         ELSE /\ reconciler' = [reconciler EXCEPT ![w].pc = "mismatch"]
              /\ UNCHANGED <<ledgerAccounts, credit>>
      /\ UNCHANGED <<ledgerEntries, nextSequence, ledgerRuns, tampered>>

RecordDiscrepancy(w) ==
  LET r == reconciler[w]
  IN  /\ r.pc = "mismatch"
      /\ ledgerRuns' = [ledgerRuns EXCEPT ![r.run].discrepancies = @ \cup {r.account}]
      /\ reconciler' = [reconciler EXCEPT ![w] = NextAccount(r)]
      /\ UNCHANGED <<ledgerAccounts, ledgerEntries, nextSequence, credit, tampered>>

\* Rolled back: tried again, or given up after maxRetries, which ends the run
\* and leaves its row RUNNING.
RollBackReconcile(w) ==
  LET r == reconciler[w]
  IN  /\ r.pc = "open"
      /\ reconciler' = [reconciler EXCEPT ![w] =
           IF r.retries = maxRetries THEN IdleReconciler
           ELSE [pc |-> "next", run |-> r.run, accounts |-> r.accounts, retries |-> r.retries + 1]]
      /\ UNCHANGED <<ledgerAccounts, ledgerEntries, nextSequence, credit, ledgerRuns, tampered>>

FinishRun(w) ==
  LET r == reconciler[w]
  IN  /\ r.pc = "next" /\ r.accounts = {}
      /\ ledgerRuns' = [ledgerRuns EXCEPT ![r.run].status =
           IF ledgerRuns[r.run].discrepancies = {} THEN "CLEAN" ELSE "DISCREPANCIES_FOUND"]
      /\ reconciler' = [reconciler EXCEPT ![w] = IdleReconciler]
      /\ UNCHANGED <<ledgerAccounts, ledgerEntries, nextSequence, credit, tampered>>

\* The process dies, or any other statement of the run fails.
LedgerWorkerCrash(w) ==
  /\ reconciler[w].pc # "idle"
  /\ reconciler' = [reconciler EXCEPT ![w] = IdleReconciler]
  /\ UNCHANGED <<ledgerAccounts, ledgerEntries, nextSequence, credit, ledgerRuns, tampered>>

\* Something other than the gateway writes a cached balance.
AlterCache(account) ==
  /\ account \in DOMAIN ledgerAccounts \ tampered /\ Cardinality(tampered) < MaxAlterations
  /\ ledgerAccounts' = [ledgerAccounts EXCEPT ![account].cachedBalance = @ + 1]
  /\ tampered' = tampered \cup {account}
  /\ reconciler' = DoomReconcilers({account}, LedgerWorkers)
  /\ UNCHANGED <<ledgerEntries, nextSequence, credit, ledgerRuns>>

LedgerNext ==
  \/ \E k \in Credits :
       \/ \E gross \in Grosses : PostPaymentCredit(k, gross)
       \/ CommitCredit(k)
       \/ RollBackCredit(k)
  \/ \E w \in LedgerWorkers :
       \/ StartRun(w)
       \/ \E account \in DOMAIN ledgerAccounts : ReconcileAccount(w, account)
       \/ CommitReconcile(w)
       \/ RecordDiscrepancy(w)
       \/ RollBackReconcile(w)
       \/ FinishRun(w)
       \/ LedgerWorkerCrash(w)
  \/ \E account \in DOMAIN ledgerAccounts : AlterCache(account)

LedgerSpec == LedgerInit /\ [][LedgerNext]_ledgerVars

-----------------------------------------------------------------------------

LedgerTypeOK ==
  /\ DOMAIN ledgerAccounts \subseteq LedgerAccountKind
  /\ \A a \in DOMAIN ledgerAccounts : ledgerAccounts[a] \in [cachedBalance : Int, cachedThroughSeq : Nat]
  /\ ledgerEntries \subseteq [account : DOMAIN ledgerAccounts, direction : {"DEBIT", "CREDIT"},
                              amount : Nat \ {0}, sequence : 1..MaxSequence]
  /\ nextSequence \in 1..MaxSequence + 1
  /\ \A k \in Credits : credit[k].pc \in {"idle", "open", "posted"}
  /\ \A w \in LedgerWorkers : reconciler[w].pc \in {"idle", "next", "open", "mismatch"}
  /\ \A i \in DOMAIN ledgerRuns : ledgerRuns[i].status \in {"RUNNING", "CLEAN", "DISCREPANCIES_FOUND"}
  /\ tampered \subseteq DOMAIN ledgerAccounts

\* reconciliation.ts promises that the two sums "are mathematically guaranteed
\* to agree unless something outside normal posting altered the cache": a run
\* reports only accounts that were altered, though postings commit out of the
\* order of their sequence numbers beside it, and a run that completes reports
\* every account altered before it began.
AlarmsAreExact ==
  \A i \in DOMAIN ledgerRuns :
    LET run == ledgerRuns[i]
    IN  /\ run.discrepancies \subseteq tampered
        /\ run.status # "RUNNING" => run.alteredBefore \subseteq run.discrepancies
        /\ run.status = "CLEAN" => run.discrepancies = {}
=============================================================================
