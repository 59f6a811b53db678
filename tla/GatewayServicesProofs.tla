------------------------ MODULE GatewayServicesProofs ------------------------
(***************************************************************************)
(* The ledger's reconciliation, for any number of postings, workers and    *)
(* entries; the start and the end of a process, for any networks and       *)
(* requests; and the services together.                                    *)
(***************************************************************************)
EXTENDS GatewayServices, SigningServiceProofs, AccountProofs, ServicesProofs

-----------------------------------------------------------------------------
(* Parts of a finite set.                                                  *)

Pick(s) == CHOOSE x \in s : TRUE

\* A part of the set is finite, and smaller without one of its elements.
LEMMA OneElementLess ==
  ASSUME NEW S, IsFiniteSet(S), NEW s \in SUBSET S, NEW x \in s
  PROVE  /\ s \ {x} \in SUBSET S /\ IsFiniteSet(s) /\ Cardinality(s) \in Nat \ {0}
         /\ Cardinality(s \ {x}) = Cardinality(s) - 1
<1>1. IsFiniteSet(s)
  BY FS_Subset
<1>2. Cardinality(s) \in Nat /\ Cardinality(s) # 0
  BY <1>1, FS_CardinalityType, FS_EmptySet
<1>3. Cardinality(s \ {x}) = Cardinality(s) - 1
  BY <1>1, FS_RemoveElement
<1> QED BY <1>1, <1>2, <1>3

-----------------------------------------------------------------------------
(* Sums of ledger entries.                                                 *)

Sum(S) == MapThenSumSet(Signed, S)

\* What the fold computes from the sums g of smaller sets.
SumFrom(g, s) == IF s = {} THEN 0 ELSE Signed(Pick(s)) + g[s \ {Pick(s)}]

Sums(S) == CHOOSE g : g = [s \in SUBSET S |-> SumFrom(g, s)]

\* MapThenSumSet is defined by a function on the subsets.
LEMMA SumIsFold == ASSUME NEW S PROVE Sum(S) = Sums(S)[S]
BY Zenon DEF Sum, Sums, SumFrom, Pick, MapThenSumSet, MapThenFoldSet

\* That function exists.
LEMMA SumsExist ==
  ASSUME NEW S, IsFiniteSet(S)
  PROVE  Sums(S) = [s \in SUBSET S |-> SumFrom(Sums(S), s)]
<1> DEFINE Upto(n) == {s \in SUBSET S : Cardinality(s) <= n}
           T == {n \in Nat : \E g : g = [s \in Upto(n) |-> SumFrom(g, s)]}
<1>1. \A s \in SUBSET S : Cardinality(s) \in Nat
  BY FS_Subset, FS_CardinalityType
<1>2. ASSUME NEW n \in Nat, \A m \in Nat : m < n => m \in T
      PROVE  n \in T
  <2>1. CASE n = 0
    <3>1. \A s \in Upto(0) : s = {}
      BY FS_Subset, FS_EmptySet, <1>1
    <3> DEFINE h == [s \in Upto(0) |-> 0]
    <3>2. h = [s \in Upto(0) |-> SumFrom(h, s)]
      BY <3>1 DEF SumFrom
    <3> HIDE DEF h
    <3> QED BY <2>1, <3>2
  <2>2. CASE n # 0
    <3>1. n - 1 \in T
      <4>1. n - 1 \in Nat /\ n - 1 < n
        BY <2>2
      <4> HIDE DEF T
      <4> QED BY <1>2, <4>1
    <3>2. PICK g : g = [s \in Upto(n-1) |-> SumFrom(g, s)]
      BY <3>1
    <3> DEFINE h == [s \in Upto(n) |-> SumFrom(g, s)]
    <3>3. ASSUME NEW s \in Upto(n) PROVE SumFrom(h, s) = SumFrom(g, s)
      <4>1. CASE s = {}
        BY <4>1 DEF SumFrom
      <4>2. CASE s # {}
        <5>1. Pick(s) \in s
          BY <4>2 DEF Pick
        <5> DEFINE t == s \ {Pick(s)}
        <5>2. t \in SUBSET S /\ Cardinality(t) = Cardinality(s) - 1
          BY <5>1, OneElementLess
        <5>3. t \in Upto(n-1) /\ t \in Upto(n)
          BY <1>1, <5>2
        <5>4. h[t] = SumFrom(g, t) /\ g[t] = SumFrom(g, t)
          BY <3>2, <5>3
        <5> HIDE DEF h, Upto
        <5> QED BY <5>4 DEF SumFrom
      <4> QED BY <4>1, <4>2
    <3>4. h = [s \in Upto(n) |-> SumFrom(h, s)]
      BY <3>3
    <3> HIDE DEF h
    <3> QED BY <3>4
  <2> QED BY <2>1, <2>2
<1>3. T \in SUBSET Nat
  OBVIOUS
<1>4. Cardinality(S) \in T
  <2> HIDE DEF T
  <2> QED BY <1>1, <1>2, <1>3, NumbersByInduction
<1>5. Upto(Cardinality(S)) = SUBSET S
  BY FS_Subset
<1>6. \E g : g = [s \in SUBSET S |-> SumFrom(g, s)]
  BY <1>4, <1>5
<1> QED BY <1>6, Zenon DEF Sums

\* A part of the set has the same sum in it as on its own.
LEMMA SumsAgree ==
  ASSUME NEW S, IsFiniteSet(S), NEW T \in SUBSET S
  PROVE  Sums(S)[T] = Sum(T)
<1>1. IsFiniteSet(T)
  BY FS_Subset
<1> DEFINE F == {s \in SUBSET T : Sums(S)[s] = Sums(T)[s]}
<1>2. ASSUME NEW s \in SUBSET T, \A t \in SUBSET T : Cardinality(t) < Cardinality(s) => t \in F
      PROVE  s \in F
  <2>1. Sums(S)[s] = SumFrom(Sums(S), s) /\ Sums(T)[s] = SumFrom(Sums(T), s)
    BY <1>1, SumsExist
  <2>2. CASE s = {}
    BY <2>1, <2>2 DEF SumFrom
  <2>3. CASE s # {}
    <3>1. Pick(s) \in s
      BY <2>3 DEF Pick
    <3>2. /\ s \ {Pick(s)} \in SUBSET T /\ Cardinality(s) \in Nat
          /\ Cardinality(s \ {Pick(s)}) = Cardinality(s) - 1
      BY <1>1, <3>1, OneElementLess
    <3>3. s \ {Pick(s)} \in F
      BY <1>2, <3>2
    <3> QED BY <2>1, <3>3 DEF SumFrom
  <2> QED BY <2>2, <2>3
<1>3. F \in SUBSET SUBSET T
  OBVIOUS
<1>4. F = SUBSET T
  <2> HIDE DEF F
  <2> QED BY <1>1, <1>2, <1>3, SubsetsByInduction
<1> QED BY <1>4, SumIsFold

\* The sum of no entries, and of entries of which one is picked.
LEMMA SumUnfolds ==
  ASSUME NEW S, IsFiniteSet(S)
  PROVE  /\ Sum({}) = 0
         /\ S # {} => Pick(S) \in S /\ Sum(S) = Signed(Pick(S)) + Sum(S \ {Pick(S)})
<1>1. IsFiniteSet({}) /\ {} \in SUBSET S
  BY FS_EmptySet
<1>2. Sum({}) = 0
  <2>1. Sums({})[{}] = SumFrom(Sums({}), {})
    BY <1>1, SumsExist
  <2> QED BY <2>1, SumIsFold DEF SumFrom
<1>3. ASSUME S # {} PROVE Pick(S) \in S /\ Sum(S) = Signed(Pick(S)) + Sum(S \ {Pick(S)})
  <2>1. Pick(S) \in S
    BY <1>3 DEF Pick
  <2>2. Sums(S)[S] = SumFrom(Sums(S), S)
    BY SumsExist
  <2>3. Sums(S)[S \ {Pick(S)}] = Sum(S \ {Pick(S)})
    BY SumsAgree
  <2> QED BY <1>3, <2>1, <2>2, <2>3, SumIsFold DEF SumFrom
<1> QED BY <1>2, <1>3

\* A sum of integers is an integer.
LEMMA SumIsInt ==
  ASSUME NEW S, IsFiniteSet(S), \A e \in S : Signed(e) \in Int
  PROVE  \A s \in SUBSET S : Sum(s) \in Int
<1> DEFINE F == {s \in SUBSET S : Sum(s) \in Int}
<1>1. ASSUME NEW s \in SUBSET S, \A t \in SUBSET S : Cardinality(t) < Cardinality(s) => t \in F
      PROVE  s \in F
  <2>1. IsFiniteSet(s)
    BY FS_Subset
  <2>2. CASE s = {}
    <3>1. Sum(s) = 0
      BY <2>1, <2>2, SumUnfolds
    <3> QED BY <3>1
  <2>3. CASE s # {}
    <3>1. Pick(s) \in s /\ Sum(s) = Signed(Pick(s)) + Sum(s \ {Pick(s)})
      BY <2>1, <2>3, SumUnfolds
    <3>2. /\ s \ {Pick(s)} \in SUBSET S /\ Cardinality(s) \in Nat
          /\ Cardinality(s \ {Pick(s)}) = Cardinality(s) - 1
      BY <3>1, OneElementLess
    <3>3. s \ {Pick(s)} \in F /\ Signed(Pick(s)) \in Int
      BY <1>1, <3>1, <3>2
    <3> QED BY <3>1, <3>3
  <2> QED BY <2>2, <2>3
<1>2. F \in SUBSET SUBSET S
  OBVIOUS
<1>3. F = SUBSET S
  <2> HIDE DEF F
  <2> QED BY <1>1, <1>2, SubsetsByInduction
<1> QED BY <1>3

\* The sum does not depend on the order in which entries are picked.
LEMMA SumTakesOut ==
  ASSUME NEW S, IsFiniteSet(S), \A e \in S : Signed(e) \in Int
  PROVE  \A s \in SUBSET S : \A x \in s : Sum(s) = Signed(x) + Sum(s \ {x})
<1> DEFINE F == {s \in SUBSET S : \A x \in s : Sum(s) = Signed(x) + Sum(s \ {x})}
<1>1. ASSUME NEW s \in SUBSET S, \A t \in SUBSET S : Cardinality(t) < Cardinality(s) => t \in F
      PROVE  s \in F
  <2> SUFFICES ASSUME NEW x \in s PROVE Sum(s) = Signed(x) + Sum(s \ {x})
    OBVIOUS
  <2> DEFINE y == Pick(s)
  <2>1. IsFiniteSet(s)
    BY FS_Subset
  <2>2. y \in s /\ Sum(s) = Signed(y) + Sum(s \ {y})
    BY <2>1, SumUnfolds
  <2>3. CASE x = y
    BY <2>2, <2>3
  <2>4. CASE x # y
    <3>1. /\ s \ {x} \in F /\ s \ {y} \in F
      BY <1>1, <2>2, OneElementLess
    <3>2. x \in s \ {y} /\ y \in s \ {x}
      BY <2>2, <2>4
    <3> HIDE DEF y
    <3> DEFINE z == (s \ {x}) \ {y}
    <3>3. (s \ {y}) \ {x} = z /\ z \in SUBSET S
      OBVIOUS
    <3>4. Sum(s \ {y}) = Signed(x) + Sum(z) /\ Sum(s \ {x}) = Signed(y) + Sum(z)
      BY <3>1, <3>2, <3>3
    <3>5. Signed(x) \in Int /\ Signed(y) \in Int /\ Sum(z) \in Int
      BY <2>2, <3>3, SumIsInt
    <3>6. Sum(s) = Signed(y) + (Signed(x) + Sum(z))
      BY <2>2, <3>4
    <3>7. \A a, b, c \in Int : a + (b + c) = b + (a + c)
      OBVIOUS
    <3> HIDE DEF z
    <3>8. Signed(y) + (Signed(x) + Sum(z)) = Signed(x) + (Signed(y) + Sum(z))
      BY <3>5, <3>7, Zenon
    <3> QED BY <3>4, <3>6, <3>8, Zenon
  <2> QED BY <2>3, <2>4
<1>2. F \in SUBSET SUBSET S
  OBVIOUS
<1>3. F = SUBSET S
  <2> HIDE DEF F
  <2> QED BY <1>1, <1>2, SubsetsByInduction
<1> QED BY <1>3

\* The sum of two disjoint parts is the sum of their sums.
LEMMA SumAdds ==
  ASSUME NEW A, NEW B, IsFiniteSet(A), IsFiniteSet(B), A \cap B = {},
         \A e \in A \cup B : Signed(e) \in Int
  PROVE  Sum(A \cup B) = Sum(A) + Sum(B)
<1> DEFINE S == A \cup B
           F == {s \in SUBSET B : Sum(A \cup s) = Sum(A) + Sum(s)}
<1>1. IsFiniteSet(S)
  BY FS_Union
<1>2. ASSUME NEW s \in SUBSET B, \A t \in SUBSET B : Cardinality(t) < Cardinality(s) => t \in F
      PROVE  s \in F
  <2>1. IsFiniteSet(s) /\ Sum(A) \in Int /\ Sum({}) = 0
    BY <1>1, FS_Subset, SumIsInt, SumUnfolds
  <2>2. CASE s = {}
    <3>1. A \cup {} = A
      OBVIOUS
    <3> QED BY <2>1, <2>2, <3>1
  <2>3. CASE s # {}
    <3>1. PICK x \in s : TRUE
      BY <2>3
    <3>2. /\ s \ {x} \in SUBSET B /\ Cardinality(s) \in Nat
          /\ Cardinality(s \ {x}) = Cardinality(s) - 1
      BY OneElementLess
    <3>3. s \ {x} \in F
      BY <1>2, <3>2
    <3>4. Sum(s) = Signed(x) + Sum(s \ {x}) /\ Sum(s \ {x}) \in Int
      BY SumTakesOut, SumIsInt
    <3>5. Sum(A \cup s) = Signed(x) + Sum((A \cup s) \ {x})
      <4>1. A \cup s \in SUBSET S /\ x \in A \cup s
        OBVIOUS
      <4> HIDE DEF S
      <4> QED BY <1>1, <4>1, SumTakesOut DEF S
    <3>6. (A \cup s) \ {x} = A \cup (s \ {x}) /\ Signed(x) \in Int
      OBVIOUS
    <3>7. Sum(A \cup s) = Signed(x) + (Sum(A) + Sum(s \ {x}))
      BY <3>3, <3>5, <3>6
    <3>8. \A a, b, c \in Int : a + (b + c) = b + (a + c)
      OBVIOUS
    <3>9. Signed(x) + (Sum(A) + Sum(s \ {x})) = Sum(A) + (Signed(x) + Sum(s \ {x}))
      BY <2>1, <3>4, <3>6, <3>8, Zenon
    <3>10. Sum(A \cup s) = Sum(A) + Sum(s)
      BY <3>4, <3>7, <3>9, Zenon
    <3> QED BY <3>10
  <2> QED BY <2>2, <2>3
<1>3. F \in SUBSET SUBSET B
  OBVIOUS
<1>4. B \in F
  <2> HIDE DEF F
  <2> QED BY <1>2, <1>3, SubsetsByInduction
<1> QED BY <1>4

-----------------------------------------------------------------------------
(* The ledger's invariant.                                                 *)

LedgerEntry ==
  [account : LedgerAccountKind, direction : {"DEBIT", "CREDIT"}, amount : Int, sequence : 1..MaxSequence]

Of(entries, account) == {e \in entries : e.account = account}
Upto(entries, account, sequence) == {e \in Of(entries, account) : e.sequence <= sequence}

EntriesSound(entries, next) ==
  /\ IsFiniteSet(entries) /\ entries \subseteq LedgerEntry
  /\ \A e \in entries : e.sequence < next

\* A cache is the sum of the entries up to its sequence number; altered once,
\* it stays off by what it was altered by.
CacheSound(cache, account, entries, next, altered) ==
  /\ cache \in [cachedBalance : Int, cachedThroughSeq : Nat] /\ cache.cachedThroughSeq < next
  /\ cache.cachedBalance =
       Sum(Upto(entries, account, cache.cachedThroughSeq)) + (IF account \in altered THEN 1 ELSE 0)

\* A posting that may still commit comes after the caches of its accounts.
CreditSound(c, accounts, entries, next) ==
  \/ c = [pc |-> "idle"] \/ c = [pc |-> "posted"]
  \/ /\ c = [pc |-> "open", entries |-> c.entries, doomed |-> c.doomed, creates |-> c.creates]
     /\ EntriesSound(c.entries, next) /\ c.entries \cap entries = {} /\ c.doomed \in BOOLEAN
     /\ ~c.doomed =>
          /\ c.creates = AccountsOf(c.entries) \ DOMAIN accounts
          /\ \A e \in c.entries :
               /\ e.amount > 0
               /\ e.account \in DOMAIN accounts => e.sequence > accounts[e.account].cachedThroughSeq

\* The run of a worker is its own, and what was altered before it and is not
\* reported yet is still to be checked.
RunCovered(r, runs) ==
  /\ runs[r.run].status = "RUNNING"
  /\ runs[r.run].alteredBefore \subseteq runs[r.run].discrepancies \cup r.accounts

\* A check that may still write found the recount of an unaltered account.
Recounted(r, entries, next, altered) ==
  /\ r.account \notin altered /\ r.refresh.cachedThroughSeq < next
  /\ r.refresh.cachedBalance = Sum(Of(entries, r.account))
  /\ \A e \in Of(entries, r.account) : e.sequence <= r.refresh.cachedThroughSeq

Checking(domain, runs) ==
  [pc : {"open", "mismatch"}, run : runs, accounts : SUBSET domain, retries : Nat, account : domain,
   matched : BOOLEAN, doomed : BOOLEAN, refresh : [cachedBalance : Int, cachedThroughSeq : Nat]]

ReconcilerSound(r, domain, entries, next, runs, altered) ==
  \/ r = IdleReconciler
  \/ /\ r \in [pc : {"next"}, run : DOMAIN runs, accounts : SUBSET domain, retries : Nat]
     /\ RunCovered(r, runs)
  \/ /\ r \in Checking(domain, DOMAIN runs)
     /\ RunCovered(r, runs)
     /\ ~r.matched => r.account \in altered
     /\ r.pc = "mismatch" => ~r.matched
     /\ r.pc = "open" /\ r.matched /\ ~r.doomed => Recounted(r, entries, next, altered)

RunRecord(altered) ==
  [status : {"RUNNING", "CLEAN", "DISCREPANCIES_FOUND"}, discrepancies : SUBSET altered,
   alteredBefore : SUBSET altered]

RunSound(run, altered) ==
  /\ run \in RunRecord(altered)
  /\ run.status # "RUNNING" => run.alteredBefore \subseteq run.discrepancies
  /\ run.status = "CLEAN" => run.discrepancies = {}

CreditsApart(credits) ==
  \A j, k \in Credits :
    j # k /\ credits[j].pc = "open" /\ credits[k].pc = "open"
    => credits[j].entries \cap credits[k].entries = {}

RunsApart(reconcilers) ==
  \A v, w \in LedgerWorkers :
    v # w /\ reconcilers[v].pc # "idle" /\ reconcilers[w].pc # "idle"
    => reconcilers[v].run # reconcilers[w].run

StoreInv(accounts, entries, next, altered) ==
  /\ DOMAIN accounts \subseteq LedgerAccountKind /\ accounts = [a \in DOMAIN accounts |-> accounts[a]]
  /\ next \in 1..MaxSequence + 1 /\ altered \subseteq DOMAIN accounts
  /\ EntriesSound(entries, next)
  /\ \A e \in entries : e.amount > 0 /\ e.account \in DOMAIN accounts
  /\ \A a \in DOMAIN accounts : CacheSound(accounts[a], a, entries, next, altered)

CreditsInv(credits, accounts, entries, next) ==
  /\ credits = [k \in Credits |-> credits[k]]
  /\ \A k \in Credits : CreditSound(credits[k], accounts, entries, next)
  /\ CreditsApart(credits)

ReconcilersInv(reconcilers, domain, entries, next, runs, altered) ==
  /\ reconcilers = [w \in LedgerWorkers |-> reconcilers[w]]
  /\ \A w \in LedgerWorkers : ReconcilerSound(reconcilers[w], domain, entries, next, runs, altered)
  /\ RunsApart(reconcilers)

RunsInv(runs, altered) ==
  /\ runs \in Seq(RunRecord(altered))
  /\ \A i \in DOMAIN runs : RunSound(runs[i], altered)

LedgerInv ==
  /\ StoreInv(ledgerAccounts, ledgerEntries, nextSequence, tampered)
  /\ CreditsInv(credit, ledgerAccounts, ledgerEntries, nextSequence)
  /\ ReconcilersInv(reconciler, DOMAIN ledgerAccounts, ledgerEntries, nextSequence, ledgerRuns, tampered)
  /\ RunsInv(ledgerRuns, tampered)

-----------------------------------------------------------------------------
(* What the ledger is made of.                                             *)

\* The largest of some numbers that have a bound.
LEMMA LargestNumber ==
  ASSUME NEW S, S \subseteq Nat, S # {}, NEW N \in Nat, \A x \in S : x <= N
  PROVE  Max(S) \in S /\ \A x \in S : x <= Max(S)
<1> DEFINE U == {N - x : x \in S}
<1>0. \A x \in S : x \in Nat /\ N - x \in Nat /\ N - x \in U
  OBVIOUS
<1>1. U \subseteq Nat /\ U # {}
  BY <1>0
<1>2. PICK u \in U : \A m \in U : ~(m < u)
  <2> HIDE DEF U
  <2> QED BY <1>1, SmallestNumber
<1>3. PICK x \in S : u = N - x
  OBVIOUS
<1>4. \A y \in S : x >= y
  <2> HIDE DEF U
  <2> SUFFICES ASSUME NEW y \in S PROVE x >= y
    OBVIOUS
  <2>1. ~(N - y < N - x) /\ x \in Nat /\ y \in Nat
    BY <1>0, <1>2, <1>3
  <2> QED BY <2>1
<1>5. \E z \in S : \A y \in S : z >= y
  BY <1>4
<1>6. Max(S) \in S /\ \A y \in S : Max(S) >= y
  BY <1>5, Zenon DEF Max
<1> QED BY <1>6

\* An entry adds an integer to its account.
LEMMA SignedIsInt == \A e \in LedgerEntry : Signed(e) \in Int
<1> SUFFICES ASSUME NEW e \in LedgerEntry PROVE Signed(e) \in Int
  OBVIOUS
<1>1. e.amount \in Int /\ -e.amount \in Int
  BY DEF LedgerEntry
<1> QED BY <1>1 DEF Signed

Leg == [account : LedgerAccountKind, direction : {"DEBIT", "CREDIT"}, amount : Int]

\* A payment has two legs or three.
LEMMA LegsShape ==
  ASSUME NEW gross \in Grosses
  PROVE  Legs(gross) \in Seq(Leg) /\ Len(Legs(gross)) \in {2, 3}
<1> DEFINE fee == percentageBps(gross, feeBps, "floor")
<1>1. gross \in Nat /\ feeBps \in Nat
  BY LedgerConstants DEF LedgerConstants
<1>2. gross * feeBps \in Nat
  BY <1>1
<1>3. fee = (gross * feeBps) \div 10000
  <2>1. fee = divFloor(gross * feeBps, 10000)
    BY DEF percentageBps, multiplyRatio, divide
  <2> DEFINE p == gross * feeBps
  <2> HIDE DEF p
  <2>2. p \in Nat /\ divFloor(p, 10000) = p \div 10000
    BY <1>2 DEF p, divFloor, Quotient
  <2> QED BY <2>1, <2>2 DEF p
<1>4. fee \in Int
  <2> DEFINE p == gross * feeBps
  <2> HIDE DEF p, fee
  <2>1. p \in Nat
    BY <1>2 DEF p
  <2>2. p \div 10000 \in Int
    BY <2>1
  <2> QED BY <1>3, <2>2 DEF p
<1> HIDE DEF fee
<1> DEFINE leg(account, direction, amount) == [account |-> account, direction |-> direction, amount |-> amount]
           split == <<leg("merchant_holdings", "DEBIT", gross), leg("merchant_payable", "CREDIT", gross - fee)>>
<1>5. Legs(gross) = IF fee > 0 THEN Append(split, leg("fee_revenue", "CREDIT", fee)) ELSE split
  BY DEF Legs, fee
<1>6. /\ leg("merchant_holdings", "DEBIT", gross) \in Leg
      /\ leg("merchant_payable", "CREDIT", gross - fee) \in Leg
      /\ leg("fee_revenue", "CREDIT", fee) \in Leg
  BY <1>1, <1>4 DEF Leg, LedgerAccountKind
<1> HIDE DEF leg
<1>7. split \in Seq(Leg) /\ Len(split) = 2
  BY <1>6
<1> HIDE DEF split
<1> QED BY <1>5, <1>6, <1>7

\* Numbered legs are entries from the first number drawn on.
LEMMA NumberedShape ==
  ASSUME NEW legs \in Seq(Leg), Len(legs) \in {2, 3}, NEW from \in Nat \ {0},
         from + Len(legs) - 1 <= MaxSequence
  PROVE  /\ EntriesSound(Numbered(legs, from), from + Len(legs))
         /\ \A e \in Numbered(legs, from) : e.sequence >= from
         /\ AmountPositive(legs) => \A e \in Numbered(legs, from) : e.amount > 0
<1> DEFINE E(i) == [account |-> legs[i].account, direction |-> legs[i].direction,
                    amount |-> legs[i].amount, sequence |-> from + i - 1]
           n == Len(legs)
           all == Numbered(legs, from)
<1>1. DOMAIN legs = 1..n /\ n \in Nat /\ n <= 3 /\ \A i \in 1..n : legs[i] \in Leg
  <2>1. n = 2 \/ n = 3
    OBVIOUS
  <2>2. DOMAIN legs = 1..n /\ \A i \in 1..n : legs[i] \in Leg
    OBVIOUS
  <2> HIDE DEF n
  <2> QED BY <2>1, <2>2
<1>2. \A e \in all : \E i \in 1..n : e = E(i)
  BY <1>1 DEF Numbered
<1>3. IsFiniteSet(all)
  <2> DEFINE three == (({} \cup {E(1)}) \cup {E(2)}) \cup {E(3)}
  <2>1. IsFiniteSet(three)
    <3> HIDE DEF E
    <3> QED BY FS_EmptySet, FS_AddElement
  <2>2. all \subseteq three
    <3>1. \A i \in 1..n : i \in {1, 2, 3}
      BY <1>1
    <3> HIDE DEF E, all
    <3> QED BY <1>2, <3>1
  <2> HIDE DEF three, all
  <2> QED BY <2>1, <2>2, FS_Subset
<1>4. ASSUME NEW i \in 1..n
      PROVE  E(i) \in LedgerEntry /\ E(i).sequence < from + n /\ E(i).sequence >= from /\ E(i).amount = legs[i].amount
  <2>1. from + i - 1 \in 1..MaxSequence /\ from + i - 1 < from + n /\ from + i - 1 >= from
    BY <1>1, LedgerConstants DEF LedgerConstants
  <2>2. legs[i].account \in LedgerAccountKind /\ legs[i].direction \in {"DEBIT", "CREDIT"} /\ legs[i].amount \in Int
    BY <1>1 DEF Leg
  <2> QED BY <2>1, <2>2 DEF LedgerEntry
<1> HIDE DEF E, all
<1>5. EntriesSound(all, from + n)
  BY <1>2, <1>3, <1>4 DEF EntriesSound
<1>6. \A e \in all : e.sequence >= from
  BY <1>2, <1>4
<1>7. AmountPositive(legs) => \A e \in all : e.amount > 0
  BY <1>1, <1>2, <1>4 DEF AmountPositive
<1> QED BY <1>5, <1>6, <1>7 DEF all

\* A new account's cache is right: no entry has a number up to zero.
LEMMA NewCache ==
  ASSUME NEW account, NEW entries, NEW next, EntriesSound(entries, next), next \in Nat \ {0},
         NEW altered, account \notin altered
  PROVE  CacheSound(NewAccount, account, entries, next, altered)
<1>1. Upto(entries, account, 0) = {}
  <2> SUFFICES ASSUME NEW e \in entries, e.sequence <= 0 PROVE FALSE
    BY DEF Upto, Of
  <2>1. e.sequence \in 1..MaxSequence
    BY DEF EntriesSound, LedgerEntry
  <2> QED BY <2>1, LedgerConstants DEF LedgerConstants
<1>2. Sum({}) = 0
  BY FS_EmptySet, SumUnfolds
<1> QED BY <1>1, <1>2 DEF CacheSound, NewAccount

\* The invariant holds with an empty ledger, and with one payment posted.
LEMMA LedgerInitInv == LedgerInit => LedgerInv
<1> SUFFICES ASSUME LedgerInit PROVE LedgerInv
  OBVIOUS
<1>1. PICK legs \in {<<>>} \cup {Legs(gross) : gross \in Grosses} :
        /\ AmountPositive(legs)
        /\ ledgerEntries = Numbered(legs, 1)
        /\ ledgerAccounts = [a \in AccountsOf(ledgerEntries) |-> NewAccount]
        /\ nextSequence = Len(legs) + 1
  BY DEF LedgerInit
<1>2. /\ EntriesSound(ledgerEntries, nextSequence) /\ nextSequence \in 1..MaxSequence + 1
      /\ \A e \in ledgerEntries : e.amount > 0
  <2>1. CASE legs = <<>>
    <3>1. ledgerEntries = {} /\ nextSequence = 1
      BY <1>1, <2>1 DEF Numbered
    <3> QED BY <3>1, FS_EmptySet, LedgerConstants DEF EntriesSound, LedgerConstants
  <2>2. CASE legs # <<>>
    <3>1. legs \in Seq(Leg) /\ Len(legs) \in {2, 3}
      BY <2>2, LegsShape
    <3>2. Len(legs) \in Nat /\ Len(legs) <= 3 /\ MaxSequence \in Nat /\ MaxSequence >= 3
      <4>1. Len(legs) = 2 \/ Len(legs) = 3
        BY <3>1
      <4>2. MaxSequence \in Nat /\ MaxSequence >= 3
        BY LedgerConstants DEF LedgerConstants
      <4>3. \A n : n = 2 \/ n = 3 => n \in Nat /\ n <= 3
        OBVIOUS
      <4> QED BY <4>1, <4>2, <4>3, Zenon
    <3>3. 1 + Len(legs) - 1 <= MaxSequence /\ 1 + Len(legs) = nextSequence
      BY <1>1, <3>2
    <3>4. /\ EntriesSound(Numbered(legs, 1), 1 + Len(legs))
          /\ AmountPositive(legs) => \A e \in Numbered(legs, 1) : e.amount > 0
      BY <3>1, <3>3, NumberedShape
    <3> QED BY <1>1, <3>2, <3>3, <3>4
  <2> QED BY <2>1, <2>2
<1>3. StoreInv(ledgerAccounts, ledgerEntries, nextSequence, tampered)
  <2>1. tampered = {}
    BY DEF LedgerInit
  <2>2. AccountsOf(ledgerEntries) \subseteq LedgerAccountKind
    BY <1>2 DEF AccountsOf, EntriesSound, LedgerEntry
  <2>3. \A a \in AccountsOf(ledgerEntries) : CacheSound(NewAccount, a, ledgerEntries, nextSequence, tampered)
    BY <1>2, <2>1, NewCache, LedgerConstants DEF LedgerConstants
  <2>4. \A e \in ledgerEntries : e.account \in AccountsOf(ledgerEntries)
    BY DEF AccountsOf
  <2> QED BY <1>1, <1>2, <2>1, <2>2, <2>3, <2>4 DEF StoreInv
<1>4. CreditsInv(credit, ledgerAccounts, ledgerEntries, nextSequence)
  BY DEF LedgerInit, CreditsInv, CreditSound, CreditsApart
<1>5. ReconcilersInv(reconciler, DOMAIN ledgerAccounts, ledgerEntries, nextSequence, ledgerRuns, tampered)
  BY DEF LedgerInit, ReconcilersInv, ReconcilerSound, RunsApart, IdleReconciler
<1>6. RunsInv(ledgerRuns, tampered)
  BY DEF LedgerInit, RunsInv
<1> QED BY <1>3, <1>4, <1>5, <1>6 DEF LedgerInv

-----------------------------------------------------------------------------
(* Posting keeps the invariant.                                            *)

\* Drawing sequence numbers disturbs nothing that is there.
LEMMA DrawingKeeps ==
  ASSUME LedgerInv, NEW next, next \in 1..MaxSequence + 1, nextSequence <= next
  PROVE  /\ StoreInv(ledgerAccounts, ledgerEntries, next, tampered)
         /\ \A k \in Credits : CreditSound(credit[k], ledgerAccounts, ledgerEntries, next)
         /\ ReconcilersInv(reconciler, DOMAIN ledgerAccounts, ledgerEntries, next, ledgerRuns, tampered)
<1>1. nextSequence \in Int /\ next \in Int
  BY LedgerConstants DEF LedgerConstants, LedgerInv, StoreInv
<1>2. ASSUME NEW entries, EntriesSound(entries, nextSequence) PROVE EntriesSound(entries, next)
  <2>1. \A e \in entries : e.sequence \in Int
    BY <1>2, LedgerConstants DEF EntriesSound, LedgerEntry, LedgerConstants
  <2> QED BY <1>1, <1>2, <2>1 DEF EntriesSound
<1>3. ASSUME NEW a \in DOMAIN ledgerAccounts
      PROVE  CacheSound(ledgerAccounts[a], a, ledgerEntries, next, tampered)
  <2>1. CacheSound(ledgerAccounts[a], a, ledgerEntries, nextSequence, tampered)
    BY DEF LedgerInv, StoreInv
  <2>2. ledgerAccounts[a].cachedThroughSeq < next
    BY <1>1, <2>1 DEF CacheSound
  <2> QED BY <2>1, <2>2 DEF CacheSound
<1>4. StoreInv(ledgerAccounts, ledgerEntries, next, tampered)
  BY <1>2, <1>3 DEF LedgerInv, StoreInv
<1>5. ASSUME NEW k \in Credits PROVE CreditSound(credit[k], ledgerAccounts, ledgerEntries, next)
  <2>1. CreditSound(credit[k], ledgerAccounts, ledgerEntries, nextSequence)
    BY DEF LedgerInv, CreditsInv
  <2> QED BY <1>2, <2>1 DEF CreditSound
<1>6. ASSUME NEW w \in LedgerWorkers
      PROVE  ReconcilerSound(reconciler[w], DOMAIN ledgerAccounts, ledgerEntries, next, ledgerRuns, tampered)
  <2> DEFINE r == reconciler[w]
  <2>1. ReconcilerSound(r, DOMAIN ledgerAccounts, ledgerEntries, nextSequence, ledgerRuns, tampered)
    BY DEF LedgerInv, ReconcilersInv
  <2>2. ASSUME r \in Checking(DOMAIN ledgerAccounts, DOMAIN ledgerRuns),
               Recounted(r, ledgerEntries, nextSequence, tampered)
        PROVE  Recounted(r, ledgerEntries, next, tampered)
    <3>1. r.refresh.cachedThroughSeq \in Nat
      BY <2>2 DEF Checking
    <3>2. r.refresh.cachedThroughSeq < next
      BY <1>1, <2>2, <3>1 DEF Recounted
    <3> QED BY <2>2, <3>2 DEF Recounted
  <2> HIDE DEF r
  <2>3. ReconcilerSound(r, DOMAIN ledgerAccounts, ledgerEntries, next, ledgerRuns, tampered)
    BY <2>1, <2>2 DEF ReconcilerSound
  <2> QED BY <2>3 DEF r
<1>7. ReconcilersInv(reconciler, DOMAIN ledgerAccounts, ledgerEntries, next, ledgerRuns, tampered)
  BY <1>6 DEF LedgerInv, ReconcilersInv
<1> QED BY <1>4, <1>5, <1>7

\* A posting takes its snapshot and draws its numbers.
LEMMA PostKeepsLedger ==
  ASSUME LedgerInv, NEW k \in Credits, NEW gross \in Grosses, PostPaymentCredit(k, gross)
  PROVE  LedgerInv'
<1> DEFINE legs == Legs(gross)
           entries == Numbered(legs, nextSequence)
           c == [pc |-> "open", entries |-> entries, doomed |-> ~AmountPositive(legs),
                 creates |-> AccountsOf(entries) \ DOMAIN ledgerAccounts]
<1>1. /\ nextSequence + Len(legs) - 1 <= MaxSequence /\ nextSequence' = nextSequence + Len(legs)
      /\ credit' = [credit EXCEPT ![k] = c]
      /\ UNCHANGED <<ledgerAccounts, ledgerEntries, reconciler, ledgerRuns, tampered>>
  BY DEF PostPaymentCredit
<1>2. legs \in Seq(Leg) /\ Len(legs) \in {2, 3}
  BY LegsShape
<1>3. nextSequence \in Nat \ {0} /\ MaxSequence \in Nat /\ Len(legs) \in Nat
  BY <1>2, LedgerConstants DEF LedgerConstants, LedgerInv, StoreInv
<1>4. nextSequence' \in 1..MaxSequence + 1 /\ nextSequence <= nextSequence'
  BY <1>1, <1>3
<1>5. /\ EntriesSound(entries, nextSequence') /\ \A e \in entries : e.sequence >= nextSequence
      /\ AmountPositive(legs) => \A e \in entries : e.amount > 0
  BY <1>1, <1>2, <1>3, NumberedShape
<1>6. /\ StoreInv(ledgerAccounts, ledgerEntries, nextSequence', tampered)
      /\ \A j \in Credits : CreditSound(credit[j], ledgerAccounts, ledgerEntries, nextSequence')
      /\ ReconcilersInv(reconciler, DOMAIN ledgerAccounts, ledgerEntries, nextSequence', ledgerRuns, tampered)
  BY <1>4, DrawingKeeps
<1> HIDE DEF legs, entries
<1>7. ASSUME NEW others, EntriesSound(others, nextSequence) PROVE entries \cap others = {}
  <2> SUFFICES ASSUME NEW e \in entries, e \in others PROVE FALSE
    OBVIOUS
  <2>1. e.sequence \in Nat
    BY <1>5, LedgerConstants DEF EntriesSound, LedgerEntry, LedgerConstants
  <2> QED BY <1>3, <1>5, <1>7, <2>1 DEF EntriesSound
<1>8. ASSUME NEW e \in entries, e.account \in DOMAIN ledgerAccounts
      PROVE  e.sequence > ledgerAccounts[e.account].cachedThroughSeq
  <2>1. CacheSound(ledgerAccounts[e.account], e.account, ledgerEntries, nextSequence, tampered)
    BY <1>8 DEF LedgerInv, StoreInv
  <2>2. /\ ledgerAccounts[e.account].cachedThroughSeq \in Nat
        /\ ledgerAccounts[e.account].cachedThroughSeq < nextSequence
    BY <2>1 DEF CacheSound
  <2>3. e.sequence \in Nat /\ e.sequence >= nextSequence
    BY <1>5, LedgerConstants DEF EntriesSound, LedgerEntry, LedgerConstants
  <2> QED BY <1>3, <2>2, <2>3
<1>9. CreditSound(c, ledgerAccounts, ledgerEntries, nextSequence')
  <2>1. /\ c.entries = entries /\ c.doomed = ~AmountPositive(legs)
        /\ c.creates = AccountsOf(entries) \ DOMAIN ledgerAccounts
        /\ c = [pc |-> "open", entries |-> c.entries, doomed |-> c.doomed, creates |-> c.creates]
    OBVIOUS
  <2>2. entries \cap ledgerEntries = {}
    BY <1>7 DEF LedgerInv, StoreInv
  <2>3. c.doomed \in BOOLEAN
    OBVIOUS
  <2>4. ~c.doomed => AmountPositive(legs)
    OBVIOUS
  <2> HIDE DEF c
  <2> QED BY <1>5, <1>8, <2>1, <2>2, <2>3, <2>4 DEF CreditSound
<1>10. CreditsInv(credit', ledgerAccounts, ledgerEntries, nextSequence')
  <2>1. /\ credit' = [j \in Credits |-> credit'[j]] /\ credit'[k] = c
        /\ \A j \in Credits : j # k => credit'[j] = credit[j]
    BY <1>1 DEF LedgerInv, CreditsInv
  <2>2. \A j \in Credits : CreditSound(credit'[j], ledgerAccounts, ledgerEntries, nextSequence')
    BY <1>6, <1>9, <2>1
  <2>3. ASSUME NEW j \in Credits, credit[j].pc = "open" PROVE entries \cap credit[j].entries = {}
    <3>1. CreditSound(credit[j], ledgerAccounts, ledgerEntries, nextSequence)
      BY DEF LedgerInv, CreditsInv
    <3>2. EntriesSound(credit[j].entries, nextSequence)
      BY <2>3, <3>1 DEF CreditSound
    <3> QED BY <1>7, <3>2
  <2>4. CreditsApart(credit) /\ c.entries = entries
    BY DEF LedgerInv, CreditsInv
  <2>5. CreditsApart(credit')
    <3> HIDE DEF c
    <3> QED BY <2>1, <2>3, <2>4 DEF CreditsApart
  <2> QED BY <2>1, <2>2, <2>5 DEF CreditsInv
<1> QED BY <1>1, <1>6, <1>10 DEF LedgerInv

\* A posting is rolled back.
LEMMA RollBackKeepsLedger ==
  ASSUME LedgerInv, NEW k \in Credits, RollBackCredit(k)
  PROVE  LedgerInv'
<1>1. /\ credit' = [credit EXCEPT ![k] = [pc |-> "idle"]]
      /\ UNCHANGED <<ledgerAccounts, ledgerEntries, nextSequence, reconciler, ledgerRuns, tampered>>
  BY DEF RollBackCredit
<1>2. CreditsInv(credit, ledgerAccounts, ledgerEntries, nextSequence)
  BY DEF LedgerInv
<1>3. /\ credit' = [j \in Credits |-> credit'[j]] /\ credit'[k] = [pc |-> "idle"]
      /\ \A j \in Credits : j # k => credit'[j] = credit[j]
  BY <1>1, <1>2 DEF CreditsInv
<1>4. CreditSound(credit'[k], ledgerAccounts, ledgerEntries, nextSequence) /\ credit'[k].pc # "open"
  BY <1>3 DEF CreditSound
<1>5. \A j \in Credits : CreditSound(credit'[j], ledgerAccounts, ledgerEntries, nextSequence)
  BY <1>2, <1>3, <1>4 DEF CreditsInv
<1>6. CreditsApart(credit')
  BY <1>2, <1>3, <1>4 DEF CreditsInv, CreditsApart
<1>7. CreditsInv(credit', ledgerAccounts, ledgerEntries, nextSequence)
  BY <1>3, <1>5, <1>6 DEF CreditsInv
<1> QED BY <1>1, <1>7 DEF LedgerInv

\* Marking an open posting changes nothing else in it.
LEMMA MarkCredit ==
  ASSUME NEW entries, NEW doomed, NEW creates, NEW mark
  PROVE  [[pc |-> "open", entries |-> entries, doomed |-> doomed, creates |-> creates] EXCEPT !.doomed = mark]
         = [pc |-> "open", entries |-> entries, doomed |-> mark, creates |-> creates]
OBVIOUS

\* A posting commits: its entries come after the caches of their accounts, and
\* the checks that counted without them are rolled back.
LEMMA CommitKeepsLedger ==
  ASSUME LedgerInv, NEW k \in Credits, CommitCredit(k)
  PROVE  LedgerInv'
<1> DEFINE c == credit[k]
           made == c.creates
           D == DOMAIN ledgerAccounts
           E == ledgerEntries \cup c.entries
           A == [a \in D \cup made |-> IF a \in made THEN NewAccount ELSE ledgerAccounts[a]]
<1>1. /\ c.pc = "open" /\ ~c.doomed /\ ledgerEntries' = E /\ ledgerAccounts' = A
      /\ credit' = [j \in Credits |->
           IF j = k THEN [pc |-> "posted"]
           ELSE IF credit[j].pc = "open" /\ credit[j].creates \cap made # {}
                THEN [credit[j] EXCEPT !.doomed = TRUE] ELSE credit[j]]
      /\ reconciler' = DoomReconcilers(Touched(k), LedgerWorkers)
      /\ nextSequence' = nextSequence /\ ledgerRuns' = ledgerRuns /\ tampered' = tampered
  BY DEF CommitCredit
<1>2. /\ StoreInv(ledgerAccounts, ledgerEntries, nextSequence, tampered)
      /\ CreditsInv(credit, ledgerAccounts, ledgerEntries, nextSequence)
      /\ ReconcilersInv(reconciler, D, ledgerEntries, nextSequence, ledgerRuns, tampered)
  BY DEF LedgerInv
<1>3. /\ EntriesSound(c.entries, nextSequence) /\ c.entries \cap ledgerEntries = {}
      /\ made = AccountsOf(c.entries) \ D
      /\ \A e \in c.entries : /\ e.amount > 0
                              /\ e.account \in D => e.sequence > ledgerAccounts[e.account].cachedThroughSeq
  <2>1. CreditSound(c, ledgerAccounts, ledgerEntries, nextSequence)
    BY <1>2 DEF CreditsInv
  <2> HIDE DEF c
  <2> QED BY <1>1, <2>1 DEF CreditSound
<1>4. /\ DOMAIN A = D \cup made /\ made \cap D = {} /\ made \subseteq LedgerAccountKind
      /\ \A a \in D : A[a] = ledgerAccounts[a]
      /\ \A a \in made : A[a] = NewAccount /\ a \notin tampered
  <2>1. AccountsOf(c.entries) \subseteq LedgerAccountKind
    BY <1>3 DEF AccountsOf, EntriesSound, LedgerEntry
  <2>2. tampered \subseteq D
    BY <1>2 DEF StoreInv
  <2> HIDE DEF c, D
  <2> QED BY <1>3, <2>1, <2>2
<1>5. EntriesSound(E, nextSequence)
  <2>1. EntriesSound(ledgerEntries, nextSequence)
    BY <1>2 DEF StoreInv
  <2>2. IsFiniteSet(E)
    BY <1>3, <2>1, FS_Union DEF EntriesSound
  <2> QED BY <1>3, <2>1, <2>2 DEF EntriesSound
<1>6. \A e \in E : e.amount > 0 /\ e.account \in D \cup made
  <2>1. \A e \in c.entries : e.account \in AccountsOf(c.entries)
    BY DEF AccountsOf
  <2> QED BY <1>2, <1>3, <2>1 DEF StoreInv
<1> HIDE DEF A
<1>7. StoreInv(A, E, nextSequence, tampered)
  <2>1. ASSUME NEW a \in D PROVE CacheSound(A[a], a, E, nextSequence, tampered)
    <3> DEFINE through == ledgerAccounts[a].cachedThroughSeq
    <3>1. CacheSound(ledgerAccounts[a], a, ledgerEntries, nextSequence, tampered)
      BY <1>2 DEF StoreInv
    <3>2. through \in Nat
      BY <3>1 DEF CacheSound
    <3>3. ASSUME NEW e \in c.entries, e.account = a PROVE ~(e.sequence <= through)
      <4>1. e.sequence \in Nat
        BY <1>3, LedgerConstants DEF EntriesSound, LedgerEntry, LedgerConstants
      <4>2. e.sequence > through
        BY <1>3, <3>3
      <4> QED BY <3>2, <4>1, <4>2
    <3>4. Upto(E, a, through) = Upto(ledgerEntries, a, through)
      BY <3>3 DEF Upto, Of
    <3> QED BY <1>4, <3>1, <3>4 DEF CacheSound
  <2>2. \A a \in made : CacheSound(A[a], a, E, nextSequence, tampered)
    BY <1>2, <1>4, <1>5, NewCache, LedgerConstants DEF StoreInv, LedgerConstants
  <2>3. A = [a \in DOMAIN A |-> A[a]]
    BY DEF A
  <2>4. D \subseteq LedgerAccountKind /\ nextSequence \in 1..MaxSequence + 1 /\ tampered \subseteq D
    BY <1>2 DEF StoreInv
  <2> HIDE DEF D, E
  <2> QED BY <1>4, <1>5, <1>6, <2>1, <2>2, <2>3, <2>4 DEF StoreInv
<1>8. ASSUME NEW j \in Credits PROVE CreditSound(credit'[j], A, E, nextSequence)
  <2>1. CASE j = k
    BY <1>1, <2>1 DEF CreditSound
  <2>2. CASE j # k
    <3> DEFINE d == credit[j]
    <3>1. CreditSound(d, ledgerAccounts, ledgerEntries, nextSequence)
      BY <1>2 DEF CreditsInv
    <3>2. CASE d.pc # "open"
      <4>1. credit'[j] = d
        BY <1>1, <2>2, <3>2
      <4>2. d = [pc |-> "idle"] \/ d = [pc |-> "posted"]
        BY <3>1, <3>2 DEF CreditSound
      <4> QED BY <4>1, <4>2 DEF CreditSound
    <3>3. CASE d.pc = "open"
      <4>1. /\ d = [pc |-> "open", entries |-> d.entries, doomed |-> d.doomed, creates |-> d.creates]
            /\ EntriesSound(d.entries, nextSequence) /\ d.entries \cap ledgerEntries = {} /\ d.doomed \in BOOLEAN
            /\ ~d.doomed =>
                 /\ d.creates = AccountsOf(d.entries) \ D
                 /\ \A e \in d.entries :
                      /\ e.amount > 0
                      /\ e.account \in D => e.sequence > ledgerAccounts[e.account].cachedThroughSeq
        <5> HIDE DEF d
        <5> QED BY <3>1, <3>3 DEF CreditSound
      <4>2. d.entries \cap E = {}
        <5>1. d.entries \cap c.entries = {}
          BY <1>1, <1>2, <2>2, <3>3 DEF CreditsInv, CreditsApart
        <5> QED BY <4>1, <5>1
      <4>3. CASE d.creates \cap made # {}
        <5> DEFINE x == [d EXCEPT !.doomed = TRUE]
        <5>1. credit'[j] = x
          BY <1>1, <2>2, <3>3, <4>3
        <5>2. /\ x = [pc |-> "open", entries |-> x.entries, doomed |-> x.doomed, creates |-> x.creates]
              /\ x.entries = d.entries /\ x.doomed = TRUE
          <6> DEFINE y == [pc |-> "open", entries |-> d.entries, doomed |-> d.doomed, creates |-> d.creates]
                     z == [pc |-> "open", entries |-> d.entries, doomed |-> TRUE, creates |-> d.creates]
          <6> HIDE DEF d
          <6>1. [y EXCEPT !.doomed = TRUE] = z
            BY MarkCredit, Zenon
          <6>2. x = z
            <7>1. d = y
              BY <4>1
            <7> HIDE DEF y, z
            <7> QED BY <6>1, <7>1
          <6>3. z.entries = d.entries /\ z.doomed = TRUE /\ z.creates = d.creates
            OBVIOUS
          <6> QED BY <6>2, <6>3
        <5> HIDE DEF x, d, E
        <5>3. CreditSound(x, A, E, nextSequence)
          BY <4>1, <4>2, <5>2 DEF CreditSound
        <5> QED BY <5>1, <5>3
      <4>4. CASE d.creates \cap made = {}
        <5>1. credit'[j] = d
          BY <1>1, <2>2, <4>4
        <5>2. ASSUME ~d.doomed
              PROVE  /\ d.creates = AccountsOf(d.entries) \ DOMAIN A
                     /\ \A e \in d.entries :
                          /\ e.amount > 0
                          /\ e.account \in DOMAIN A => e.sequence > A[e.account].cachedThroughSeq
          <6>1. d.creates = AccountsOf(d.entries) \ D
            BY <4>1, <5>2
          <6>2. d.creates = AccountsOf(d.entries) \ DOMAIN A
            BY <1>4, <4>4, <6>1
          <6>3. ASSUME NEW e \in d.entries, e.account \in DOMAIN A PROVE e.account \in D
            <7>1. e.account \in AccountsOf(d.entries)
              BY DEF AccountsOf
            <7> HIDE DEF d, D
            <7> QED BY <6>1, <6>2, <6>3, <7>1
          <6> HIDE DEF d, D
          <6> QED BY <1>4, <4>1, <5>2, <6>2, <6>3
        <5> HIDE DEF d, E
        <5>3. CreditSound(d, A, E, nextSequence)
          BY <4>1, <4>2, <5>2 DEF CreditSound
        <5> QED BY <5>1, <5>3
      <4> QED BY <4>3, <4>4
    <3> QED BY <3>2, <3>3
  <2> QED BY <2>1, <2>2
<1>9. CreditsInv(credit', A, E, nextSequence)
  <2>1. credit' = [j \in Credits |-> credit'[j]]
    BY <1>1
  <2>2. ASSUME NEW j \in Credits, credit'[j].pc = "open"
        PROVE  j # k /\ credit[j].pc = "open" /\ credit'[j].entries = credit[j].entries
    <3>1. j # k
      BY <1>1, <2>2
    <3>2. CreditSound(credit[j], ledgerAccounts, ledgerEntries, nextSequence)
      BY <1>2 DEF CreditsInv
    <3>3. credit'[j] = credit[j] \/ (credit[j].pc = "open" /\ credit'[j] = [credit[j] EXCEPT !.doomed = TRUE])
      BY <1>1, <3>1
    <3>4. CASE credit'[j] = credit[j]
      BY <2>2, <3>1, <3>4
    <3>5. CASE credit[j].pc = "open" /\ credit'[j] = [credit[j] EXCEPT !.doomed = TRUE]
      <4> DEFINE d == credit[j]
      <4>1. d = [pc |-> "open", entries |-> d.entries, doomed |-> d.doomed, creates |-> d.creates]
        <5> HIDE DEF d
        <5>1. CreditSound(d, ledgerAccounts, ledgerEntries, nextSequence) /\ d.pc = "open"
          BY <3>2, <3>5 DEF d
        <5> QED BY <5>1 DEF CreditSound
      <4>2. [d EXCEPT !.doomed = TRUE].entries = d.entries
        <5> HIDE DEF d
        <5> QED BY <4>1
      <4> QED BY <3>1, <3>5, <4>2
    <3> QED BY <3>3, <3>4, <3>5
  <2>3. CreditsApart(credit')
    BY <1>2, <2>2 DEF CreditsInv, CreditsApart
  <2> QED BY <1>8, <2>1, <2>3 DEF CreditsInv
<1>10. ASSUME NEW w \in LedgerWorkers
       PROVE  /\ ReconcilerSound(reconciler'[w], DOMAIN A, E, nextSequence, ledgerRuns, tampered)
              /\ reconciler'[w].pc = reconciler[w].pc
              /\ reconciler[w].pc # "idle" => reconciler'[w].run = reconciler[w].run
  <2> DEFINE r == reconciler[w]
             hit == r.pc = "open" /\ r.account \in Touched(k) /\ r.matched
  <2>1. ReconcilerSound(r, D, ledgerEntries, nextSequence, ledgerRuns, tampered)
    BY <1>2 DEF ReconcilersInv
  <2>2. reconciler'[w] = IF hit THEN [r EXCEPT !.doomed = TRUE] ELSE r
    BY <1>1 DEF DoomReconcilers
  <2>3. D \subseteq DOMAIN A
    BY <1>4
  <2>4. CASE r.pc \notin {"open", "mismatch"}
    <3>1. reconciler'[w] = r
      BY <2>2, <2>4
    <3> HIDE DEF r, E, D
    <3>2. ReconcilerSound(r, DOMAIN A, E, nextSequence, ledgerRuns, tampered)
      BY <2>1, <2>3, <2>4 DEF ReconcilerSound, Checking
    <3> QED BY <3>1, <3>2 DEF r
  <2>5. CASE r.pc \in {"open", "mismatch"}
    <3>1. /\ r \in Checking(D, DOMAIN ledgerRuns) /\ RunCovered(r, ledgerRuns)
          /\ ~r.matched => r.account \in tampered
          /\ r.pc = "mismatch" => ~r.matched
          /\ r.pc = "open" /\ r.matched /\ ~r.doomed => Recounted(r, ledgerEntries, nextSequence, tampered)
      <4> HIDE DEF r
      <4> QED BY <2>1, <2>5 DEF ReconcilerSound, IdleReconciler
    <3>2. CASE hit
      <4> DEFINE x == [r EXCEPT !.doomed = TRUE]
      <4>1. /\ x \in Checking(DOMAIN A, DOMAIN ledgerRuns) /\ x.doomed = TRUE /\ x.matched = r.matched
            /\ x.run = r.run /\ x.accounts = r.accounts /\ x.pc = r.pc /\ x.account = r.account
        <5> HIDE DEF r, D
        <5> QED BY <2>3, <3>1 DEF Checking
      <4> HIDE DEF r, x, E, D
      <4>2. ReconcilerSound(x, DOMAIN A, E, nextSequence, ledgerRuns, tampered)
        BY <3>1, <4>1 DEF ReconcilerSound, RunCovered
      <4>3. reconciler'[w] = x
        BY <2>2, <3>2 DEF x
      <4> QED BY <4>1, <4>2, <4>3 DEF r
    <3>3. CASE ~hit
      <4>1. reconciler'[w] = r
        BY <2>2, <3>3
      <4>2. ASSUME r.pc = "open", r.matched, ~r.doomed
            PROVE  Recounted(r, E, nextSequence, tampered)
        <5>1. r.account \notin AccountsOf(c.entries)
          BY <3>3, <4>2 DEF Touched
        <5>2. Of(E, r.account) = Of(ledgerEntries, r.account)
          BY <5>1 DEF Of, AccountsOf
        <5>3. Recounted(r, ledgerEntries, nextSequence, tampered)
          BY <3>1, <4>2
        <5> HIDE DEF r, E
        <5> QED BY <5>2, <5>3 DEF Recounted
      <4> HIDE DEF r, E, D
      <4>3. r \in Checking(DOMAIN A, DOMAIN ledgerRuns)
        BY <2>3, <3>1 DEF Checking
      <4>4. ReconcilerSound(r, DOMAIN A, E, nextSequence, ledgerRuns, tampered)
        BY <3>1, <4>2, <4>3 DEF ReconcilerSound
      <4> QED BY <4>1, <4>4 DEF r
    <3> QED BY <3>2, <3>3
  <2> QED BY <2>4, <2>5
<1>11. ReconcilersInv(reconciler', DOMAIN A, E, nextSequence, ledgerRuns, tampered)
  <2>1. reconciler' = [w \in LedgerWorkers |-> reconciler'[w]]
    BY <1>1 DEF DoomReconcilers
  <2>2. RunsApart(reconciler')
    BY <1>2, <1>10 DEF ReconcilersInv, RunsApart
  <2> QED BY <1>10, <2>1, <2>2 DEF ReconcilersInv
<1> HIDE DEF E, D, c
<1> QED BY <1>1, <1>7, <1>9, <1>11 DEF LedgerInv

-----------------------------------------------------------------------------
(* Reconciliation keeps the invariant.                                     *)

\* A worker goes on, and nobody else notices.
LEMMA ReconcilerMoves ==
  ASSUME LedgerInv, NEW w \in LedgerWorkers, NEW r,
         reconciler' = [reconciler EXCEPT ![w] = r],
         UNCHANGED <<ledgerAccounts, ledgerEntries, nextSequence, credit, ledgerRuns, tampered>>,
         ReconcilerSound(r, DOMAIN ledgerAccounts, ledgerEntries, nextSequence, ledgerRuns, tampered),
         r.pc # "idle" => reconciler[w].pc # "idle" /\ r.run = reconciler[w].run
  PROVE  LedgerInv'
<1>1. ReconcilersInv(reconciler, DOMAIN ledgerAccounts, ledgerEntries, nextSequence, ledgerRuns, tampered)
  BY DEF LedgerInv
<1>2. /\ reconciler' = [v \in LedgerWorkers |-> reconciler'[v]] /\ reconciler'[w] = r
      /\ \A v \in LedgerWorkers : v # w => reconciler'[v] = reconciler[v]
  BY <1>1 DEF ReconcilersInv
<1>3. \A v \in LedgerWorkers :
        ReconcilerSound(reconciler'[v], DOMAIN ledgerAccounts, ledgerEntries, nextSequence, ledgerRuns, tampered)
  BY <1>1, <1>2 DEF ReconcilersInv
<1>4. RunsApart(reconciler')
  BY <1>1, <1>2 DEF ReconcilersInv, RunsApart
<1>5. ReconcilersInv(reconciler', DOMAIN ledgerAccounts, ledgerEntries, nextSequence, ledgerRuns, tampered)
  BY <1>2, <1>3, <1>4 DEF ReconcilersInv
<1> QED BY <1>5 DEF LedgerInv

\* What a worker between two checks, and one in a check, knows.
LEMMA AtNext ==
  ASSUME LedgerInv, NEW w \in LedgerWorkers, reconciler[w].pc = "next"
  PROVE  /\ reconciler[w] \in [pc : {"next"}, run : DOMAIN ledgerRuns, accounts : SUBSET DOMAIN ledgerAccounts, retries : Nat]
         /\ RunCovered(reconciler[w], ledgerRuns)
<1> DEFINE r == reconciler[w]
<1>1. ReconcilerSound(r, DOMAIN ledgerAccounts, ledgerEntries, nextSequence, ledgerRuns, tampered) /\ r.pc = "next"
  BY DEF LedgerInv, ReconcilersInv
<1> HIDE DEF r
<1>2. /\ r \in [pc : {"next"}, run : DOMAIN ledgerRuns, accounts : SUBSET DOMAIN ledgerAccounts, retries : Nat]
      /\ RunCovered(r, ledgerRuns)
  BY <1>1 DEF ReconcilerSound, IdleReconciler, Checking
<1> QED BY <1>2 DEF r

LEMMA AtCheck ==
  ASSUME LedgerInv, NEW w \in LedgerWorkers, reconciler[w].pc \in {"open", "mismatch"}
  PROVE  /\ reconciler[w] \in Checking(DOMAIN ledgerAccounts, DOMAIN ledgerRuns)
         /\ RunCovered(reconciler[w], ledgerRuns)
         /\ ~reconciler[w].matched => reconciler[w].account \in tampered
         /\ reconciler[w].pc = "mismatch" => ~reconciler[w].matched
         /\ reconciler[w].pc = "open" /\ reconciler[w].matched /\ ~reconciler[w].doomed
            => Recounted(reconciler[w], ledgerEntries, nextSequence, tampered)
<1> DEFINE r == reconciler[w]
<1>1. /\ ReconcilerSound(r, DOMAIN ledgerAccounts, ledgerEntries, nextSequence, ledgerRuns, tampered)
      /\ r.pc \in {"open", "mismatch"}
  BY DEF LedgerInv, ReconcilersInv
<1> HIDE DEF r
<1>2. /\ r \in Checking(DOMAIN ledgerAccounts, DOMAIN ledgerRuns)
      /\ RunCovered(r, ledgerRuns)
      /\ ~r.matched => r.account \in tampered
      /\ r.pc = "mismatch" => ~r.matched
      /\ r.pc = "open" /\ r.matched /\ ~r.doomed => Recounted(r, ledgerEntries, nextSequence, tampered)
  BY <1>1 DEF ReconcilerSound, IdleReconciler
<1> QED BY <1>2 DEF r

\* The cache plus what came after it is a recount of everything exactly when
\* nobody altered the cache, and the new number is the last one drawn for the
\* account.
LEMMA RefreshIsRecount ==
  ASSUME LedgerInv, NEW account \in DOMAIN ledgerAccounts
  PROVE  LET cached    == ledgerAccounts[account]
             since     == computeBalanceDelta(account, cached.cachedThroughSeq)
             refreshed == cached.cachedBalance + since.delta
         IN  /\ refreshed \in Int /\ since.throughSequence \in Nat /\ since.throughSequence < nextSequence
             /\ refreshed = computeAccountBalance(account) <=> account \notin tampered
             /\ computeAccountBalance(account) = Sum(Of(ledgerEntries, account))
             /\ \A e \in Of(ledgerEntries, account) : e.sequence <= since.throughSequence
<1> DEFINE cached == ledgerAccounts[account]
           through == cached.cachedThroughSeq
           all == Of(ledgerEntries, account)
           later == {e \in all : e.sequence > through}
           before == Upto(ledgerEntries, account, through)
           numbers == {through} \cup {e.sequence : e \in later}
           off == IF account \in tampered THEN 1 ELSE 0
<1>1. StoreInv(ledgerAccounts, ledgerEntries, nextSequence, tampered)
  BY DEF LedgerInv
<1>2. CacheSound(cached, account, ledgerEntries, nextSequence, tampered) /\ EntriesSound(ledgerEntries, nextSequence)
  BY <1>1 DEF StoreInv
<1>3. /\ cached.cachedBalance \in Int /\ through \in Nat /\ through < nextSequence
      /\ cached.cachedBalance = Sum(before) + off
  BY <1>2 DEF CacheSound
<1>4. nextSequence \in Nat
  BY <1>1, LedgerConstants DEF StoreInv, LedgerConstants
<1>5. IsFiniteSet(all) /\ \A e \in all : e \in LedgerEntry /\ e.sequence \in Nat /\ e.sequence < nextSequence
  <2>1. all \subseteq ledgerEntries
    BY DEF Of
  <2>2. IsFiniteSet(all)
    BY <1>2, <2>1, FS_Subset DEF EntriesSound
  <2>3. \A e \in LedgerEntry : e.sequence \in Nat
    BY LedgerConstants DEF LedgerEntry, LedgerConstants
  <2> QED BY <1>2, <2>1, <2>2, <2>3 DEF EntriesSound
<1>6. before \cup later = all /\ before \cap later = {}
  <2>1. \A e \in all : e.sequence <= through <=> ~(e.sequence > through)
    BY <1>3, <1>5
  <2> QED BY <2>1 DEF Upto
<1>7. \A e \in all : Signed(e) \in Int
  BY <1>5, SignedIsInt
<1>8. IsFiniteSet(before) /\ IsFiniteSet(later) /\ before \in SUBSET all /\ later \in SUBSET all
  BY <1>5, <1>6, FS_Subset
<1>9. Sum(before) \in Int /\ Sum(later) \in Int
  BY <1>5, <1>7, <1>8, SumIsInt
<1>10. Sum(all) = Sum(before) + Sum(later)
  <2> HIDE DEF before, later, all
  <2> QED BY <1>6, <1>7, <1>8, SumAdds
<1>11. /\ Max(numbers) \in Nat /\ Max(numbers) < nextSequence
       /\ \A e \in all : e.sequence <= Max(numbers)
  <2>1. numbers \subseteq Nat /\ numbers # {} /\ \A x \in numbers : x <= nextSequence /\ x < nextSequence
    BY <1>3, <1>4, <1>5
  <2>2. Max(numbers) \in numbers /\ \A x \in numbers : x <= Max(numbers)
    <3> HIDE DEF numbers
    <3> QED BY <1>4, <2>1, LargestNumber
  <2>3. through \in numbers /\ \A e \in later : e.sequence \in numbers
    OBVIOUS
  <2>4. ASSUME NEW e \in all PROVE e.sequence <= Max(numbers)
    <3>1. CASE e \in later
      BY <2>2, <2>3, <3>1
    <3>2. CASE e \notin later
      <4>1. e.sequence <= through /\ e.sequence \in Nat
        BY <1>3, <1>5, <3>2
      <4>2. through <= Max(numbers) /\ Max(numbers) \in Nat
        BY <2>1, <2>2, <2>3
      <4> HIDE DEF numbers, through
      <4> QED BY <1>3, <4>1, <4>2
    <3> QED BY <3>1, <3>2
  <2> QED BY <2>1, <2>2, <2>4
<1>12. /\ computeAccountBalance(account) = Sum(all)
       /\ computeBalanceDelta(account, through) = [delta |-> Sum(later), throughSequence |-> Max(numbers)]
  BY DEF computeAccountBalance, computeBalanceDelta, EntriesOf, Of, Sum
<1>13. cached.cachedBalance + Sum(later) = Sum(all) + off /\ Sum(all) \in Int /\ off \in {0, 1}
  <2>1. off \in {0, 1}
    OBVIOUS
  <2> HIDE DEF off, before, later, all
  <2>2. cached.cachedBalance + Sum(later) = Sum(all) + off /\ Sum(all) \in Int
    BY <1>3, <1>9, <1>10, <2>1
  <2> QED BY <2>1, <2>2
<1>14. cached.cachedBalance + Sum(later) = Sum(all) <=> account \notin tampered
  <2>1. off = 0 <=> account \notin tampered
    OBVIOUS
  <2> HIDE DEF off, later, all, cached
  <2> QED BY <1>13, <2>1
<1>15. cached.cachedBalance + Sum(later) \in Int
  BY <1>3, <1>9
<1> HIDE DEF numbers, later, all, through
<1>16. computeBalanceDelta(account, through).delta = Sum(later)
       /\ computeBalanceDelta(account, through).throughSequence = Max(numbers)
  BY <1>12
<1> QED BY <1>11, <1>12, <1>14, <1>15, <1>16 DEF through, all

\* A worker checks an account.
LEMMA CheckKeepsLedger ==
  ASSUME LedgerInv, NEW w \in LedgerWorkers, NEW account \in DOMAIN ledgerAccounts, ReconcileAccount(w, account)
  PROVE  LedgerInv'
<1> DEFINE r == reconciler[w]
           cached == ledgerAccounts[account]
           since == computeBalanceDelta(account, cached.cachedThroughSeq)
           refreshed == cached.cachedBalance + since.delta
           matches == refreshed = computeAccountBalance(account)
           refresh == [cachedBalance |-> refreshed, cachedThroughSeq |-> since.throughSequence]
           x == [pc |-> "open", run |-> r.run, accounts |-> r.accounts, retries |-> r.retries, account |-> account,
                 matched |-> matches, doomed |-> FALSE, refresh |-> refresh]
<1>1. /\ r.pc = "next" /\ account \in r.accounts
      /\ reconciler' = [reconciler EXCEPT ![w] = x]
      /\ UNCHANGED <<ledgerAccounts, ledgerEntries, nextSequence, credit, ledgerRuns, tampered>>
  BY DEF ReconcileAccount
<1>2. /\ r \in [pc : {"next"}, run : DOMAIN ledgerRuns, accounts : SUBSET DOMAIN ledgerAccounts, retries : Nat]
      /\ RunCovered(r, ledgerRuns)
  BY <1>1, AtNext
<1>3. /\ refreshed \in Int /\ since.throughSequence \in Nat /\ since.throughSequence < nextSequence
      /\ matches <=> account \notin tampered
      /\ computeAccountBalance(account) = Sum(Of(ledgerEntries, account))
      /\ \A e \in Of(ledgerEntries, account) : e.sequence <= since.throughSequence
  BY RefreshIsRecount
<1> HIDE DEF r, since, refreshed
<1>4. matches \in BOOLEAN
  OBVIOUS
<1>5. matches => refreshed = Sum(Of(ledgerEntries, account))
  BY <1>3
<1> HIDE DEF matches
<1>6. refresh \in [cachedBalance : Int, cachedThroughSeq : Nat]
  BY <1>3
<1>7. /\ refresh.cachedBalance = refreshed /\ refresh.cachedThroughSeq = since.throughSequence
  OBVIOUS
<1> HIDE DEF refresh
<1>8. /\ x \in Checking(DOMAIN ledgerAccounts, DOMAIN ledgerRuns)
      /\ x.run = r.run /\ x.accounts = r.accounts /\ x.account = account /\ x.refresh = refresh
      /\ x.pc = "open" /\ x.matched = matches
  BY <1>2, <1>4, <1>6 DEF Checking
<1> HIDE DEF x
<1>9. RunCovered(x, ledgerRuns)
  BY <1>2, <1>8 DEF RunCovered
<1>10. x.matched => Recounted(x, ledgerEntries, nextSequence, tampered)
  BY <1>3, <1>5, <1>7, <1>8 DEF Recounted
<1>11. ~x.matched => x.account \in tampered
  BY <1>3, <1>8
<1>12. ReconcilerSound(x, DOMAIN ledgerAccounts, ledgerEntries, nextSequence, ledgerRuns, tampered)
  BY <1>8, <1>9, <1>10, <1>11 DEF ReconcilerSound
<1>13. reconciler[w].pc # "idle" /\ x.run = reconciler[w].run
  BY <1>1, <1>8 DEF r
<1> QED BY <1>1, <1>12, <1>13, ReconcilerMoves

\* A check found a difference.
LEMMA MismatchKeepsLedger ==
  ASSUME LedgerInv, NEW w \in LedgerWorkers, CommitReconcile(w), ~reconciler[w].matched
  PROVE  LedgerInv'
<1> DEFINE r == reconciler[w]
           x == [r EXCEPT !.pc = "mismatch"]
<1>1. /\ r.pc = "open" /\ reconciler' = [reconciler EXCEPT ![w] = x]
      /\ UNCHANGED <<ledgerAccounts, ledgerEntries, nextSequence, credit, ledgerRuns, tampered>>
  BY DEF CommitReconcile
<1>2. /\ r \in Checking(DOMAIN ledgerAccounts, DOMAIN ledgerRuns) /\ RunCovered(r, ledgerRuns)
      /\ ~r.matched => r.account \in tampered
  BY <1>1, AtCheck
<1>3. ~r.matched
  OBVIOUS
<1> HIDE DEF r
<1>4. /\ x \in Checking(DOMAIN ledgerAccounts, DOMAIN ledgerRuns)
      /\ x.run = r.run /\ x.accounts = r.accounts /\ x.account = r.account /\ x.matched = r.matched
      /\ x.pc = "mismatch"
  BY <1>2 DEF Checking
<1> HIDE DEF x
<1>5. ReconcilerSound(x, DOMAIN ledgerAccounts, ledgerEntries, nextSequence, ledgerRuns, tampered)
  BY <1>2, <1>3, <1>4 DEF ReconcilerSound, RunCovered
<1>6. reconciler[w].pc # "idle" /\ x.run = reconciler[w].run
  BY <1>1, <1>4 DEF r
<1> QED BY <1>1, <1>5, <1>6, ReconcilerMoves

\* A check is rolled back; tried again or given up.
LEMMA RollBackCheckKeepsLedger ==
  ASSUME LedgerInv, NEW w \in LedgerWorkers, RollBackReconcile(w)
  PROVE  LedgerInv'
<1> DEFINE r == reconciler[w]
           x == IF r.retries = maxRetries THEN IdleReconciler
                ELSE [pc |-> "next", run |-> r.run, accounts |-> r.accounts, retries |-> r.retries + 1]
<1>1. /\ r.pc = "open" /\ reconciler' = [reconciler EXCEPT ![w] = x]
      /\ UNCHANGED <<ledgerAccounts, ledgerEntries, nextSequence, credit, ledgerRuns, tampered>>
  BY DEF RollBackReconcile
<1>2. /\ r \in Checking(DOMAIN ledgerAccounts, DOMAIN ledgerRuns) /\ RunCovered(r, ledgerRuns)
  BY <1>1, AtCheck
<1> HIDE DEF r
<1>3. r.run \in DOMAIN ledgerRuns /\ r.accounts \in SUBSET DOMAIN ledgerAccounts /\ r.retries + 1 \in Nat
  BY <1>2 DEF Checking
<1>4. ReconcilerSound(x, DOMAIN ledgerAccounts, ledgerEntries, nextSequence, ledgerRuns, tampered)
  BY <1>2, <1>3 DEF ReconcilerSound, RunCovered
<1>5. x.pc # "idle" => reconciler[w].pc # "idle" /\ x.run = reconciler[w].run
  BY <1>1 DEF r, IdleReconciler
<1> HIDE DEF x
<1> QED BY <1>1, <1>4, <1>5, ReconcilerMoves

\* A worker dies.
LEMMA CrashKeepsLedger ==
  ASSUME LedgerInv, NEW w \in LedgerWorkers, LedgerWorkerCrash(w)
  PROVE  LedgerInv'
<1>1. /\ reconciler' = [reconciler EXCEPT ![w] = IdleReconciler]
      /\ UNCHANGED <<ledgerAccounts, ledgerEntries, nextSequence, credit, ledgerRuns, tampered>>
  BY DEF LedgerWorkerCrash
<1>2. /\ ReconcilerSound(IdleReconciler, DOMAIN ledgerAccounts, ledgerEntries, nextSequence, ledgerRuns, tampered)
      /\ IdleReconciler.pc = "idle"
  BY DEF ReconcilerSound, IdleReconciler
<1> QED BY <1>1, <1>2, ReconcilerMoves

\* Marking the checks of some accounts as lost to a commit keeps them sound
\* for everything but the recount of those accounts.
LEMMA DoomedStaysSound ==
  ASSUME NEW r, NEW domain, NEW entries, NEW next, NEW runs, NEW altered, NEW after, NEW account, NEW hit \in BOOLEAN,
         ReconcilerSound(r, domain, entries, next, runs, altered), altered \subseteq after,
         hit <=> r.pc = "open" /\ r.account = account /\ r.matched,
         after = altered \/ after = altered \cup {account}
  PROVE  LET x == IF hit THEN [r EXCEPT !.doomed = TRUE] ELSE r
         IN  /\ ReconcilerSound(x, domain, entries, next, runs, after)
             /\ x.pc = r.pc
             /\ r.pc # "idle" => x.run = r.run
<1> DEFINE x == IF hit THEN [r EXCEPT !.doomed = TRUE] ELSE r
<1>1. CASE r.pc \notin {"open", "mismatch"}
  <2>1. x = r
    BY <1>1
  <2> HIDE DEF x
  <2>2. ReconcilerSound(r, domain, entries, next, runs, after)
    BY <1>1 DEF ReconcilerSound, Checking
  <2> QED BY <2>1, <2>2 DEF x
<1>2. CASE r.pc \in {"open", "mismatch"}
  <2>1. /\ r \in Checking(domain, DOMAIN runs) /\ RunCovered(r, runs)
        /\ ~r.matched => r.account \in altered
        /\ r.pc = "mismatch" => ~r.matched
        /\ r.pc = "open" /\ r.matched /\ ~r.doomed => Recounted(r, entries, next, altered)
    BY <1>2 DEF ReconcilerSound, IdleReconciler
  <2>2. CASE hit
    <3>1. x = [r EXCEPT !.doomed = TRUE]
      BY <2>2
    <3> HIDE DEF x
    <3>2. /\ x \in Checking(domain, DOMAIN runs) /\ x.doomed = TRUE /\ x.matched = r.matched
          /\ x.run = r.run /\ x.accounts = r.accounts /\ x.pc = r.pc /\ x.account = r.account
      BY <2>1, <3>1 DEF Checking
    <3>3. ReconcilerSound(x, domain, entries, next, runs, after)
      BY <2>1, <3>2 DEF ReconcilerSound, RunCovered
    <3> QED BY <3>2, <3>3 DEF x
  <2>3. CASE ~hit
    <3>1. x = r
      BY <2>3
    <3>2. ASSUME r.pc = "open", r.matched, ~r.doomed PROVE Recounted(r, entries, next, after)
      <4>1. r.account # account
        BY <2>3, <3>2
      <4> QED BY <2>1, <3>2, <4>1 DEF Recounted
    <3> HIDE DEF x
    <3>3. ReconcilerSound(r, domain, entries, next, runs, after)
      BY <2>1, <3>2 DEF ReconcilerSound
    <3> QED BY <3>1, <3>3 DEF x
  <2> QED BY <2>2, <2>3
<1> QED BY <1>1, <1>2

\* Taking an account off the list of a worker's run.
LEMMA NextSound ==
  ASSUME NEW r, NEW domain, NEW entries, NEW next, NEW runs, NEW altered,
         r \in Checking(domain, DOMAIN runs), runs[r.run].status = "RUNNING",
         runs[r.run].alteredBefore \subseteq runs[r.run].discrepancies \cup (r.accounts \ {r.account})
  PROVE  /\ ReconcilerSound(NextAccount(r), domain, entries, next, runs, altered)
         /\ NextAccount(r).run = r.run /\ NextAccount(r).pc = "next"
<1> DEFINE x == NextAccount(r)
<1>1. x = [pc |-> "next", run |-> r.run, accounts |-> r.accounts \ {r.account}, retries |-> 0]
  BY DEF NextAccount
<1>2. r.run \in DOMAIN runs /\ r.accounts \ {r.account} \in SUBSET domain
  BY DEF Checking
<1> HIDE DEF x
<1>3. /\ x \in [pc : {"next"}, run : DOMAIN runs, accounts : SUBSET domain, retries : Nat]
      /\ x.run = r.run /\ x.accounts = r.accounts \ {r.account} /\ x.pc = "next"
  BY <1>1, <1>2
<1>4. RunCovered(x, runs)
  BY <1>3 DEF RunCovered
<1> QED BY <1>3, <1>4 DEF ReconcilerSound, x

\* A check commits: the cache is the recount, and every posting that would
\* come before it is rolled back.
LEMMA RefreshKeepsLedger ==
  ASSUME LedgerInv, NEW w \in LedgerWorkers, CommitReconcile(w), reconciler[w].matched
  PROVE  LedgerInv'
<1> DEFINE r == reconciler[w]
           a == r.account
           A == [ledgerAccounts EXCEPT ![a] = r.refresh]
           D == DOMAIN ledgerAccounts
<1>1. /\ r.pc = "open" /\ ~r.doomed /\ r.matched /\ ledgerAccounts' = A /\ credit' = DoomCredits(a)
      /\ reconciler' = [DoomReconcilers({a}, LedgerWorkers \ {w}) EXCEPT ![w] = NextAccount(r)]
      /\ ledgerEntries' = ledgerEntries /\ nextSequence' = nextSequence
      /\ ledgerRuns' = ledgerRuns /\ tampered' = tampered
  BY DEF CommitReconcile
<1>2. /\ StoreInv(ledgerAccounts, ledgerEntries, nextSequence, tampered)
      /\ CreditsInv(credit, ledgerAccounts, ledgerEntries, nextSequence)
      /\ ReconcilersInv(reconciler, D, ledgerEntries, nextSequence, ledgerRuns, tampered)
      /\ RunsInv(ledgerRuns, tampered)
  BY DEF LedgerInv
<1>3. /\ r \in Checking(D, DOMAIN ledgerRuns) /\ RunCovered(r, ledgerRuns)
      /\ Recounted(r, ledgerEntries, nextSequence, tampered)
  BY <1>1, AtCheck
<1> HIDE DEF r
<1>4. a \in D /\ r.refresh \in [cachedBalance : Int, cachedThroughSeq : Nat]
  BY <1>3 DEF Checking
<1>5. /\ DOMAIN A = D /\ A[a] = r.refresh /\ \A b \in D : b # a => A[b] = ledgerAccounts[b]
      /\ A = [b \in DOMAIN A |-> A[b]]
  BY <1>2, <1>4 DEF StoreInv
<1> HIDE DEF A
<1>6. CacheSound(A[a], a, ledgerEntries, nextSequence, tampered)
  <2>1. Upto(ledgerEntries, a, r.refresh.cachedThroughSeq) = Of(ledgerEntries, a)
    BY <1>3 DEF Recounted, Upto
  <2>2. /\ r.refresh.cachedBalance = Sum(Of(ledgerEntries, a)) /\ a \notin tampered
        /\ r.refresh.cachedThroughSeq < nextSequence
    BY <1>3 DEF Recounted
  <2>3. r.refresh.cachedBalance \in Int
    BY <1>4
  <2> DEFINE total == Sum(Of(ledgerEntries, a))
  <2>4. total \in Int /\ total = total + 0
    BY <2>2, <2>3
  <2> HIDE DEF total
  <2>5. r.refresh.cachedBalance = Sum(Upto(ledgerEntries, a, r.refresh.cachedThroughSeq))
                                  + (IF a \in tampered THEN 1 ELSE 0)
    BY <2>1, <2>2, <2>4 DEF total
  <2> HIDE DEF a
  <2> QED BY <1>4, <1>5, <2>2, <2>5 DEF CacheSound
<1>7. StoreInv(A, ledgerEntries, nextSequence, tampered)
  <2>1. \A b \in D : CacheSound(A[b], b, ledgerEntries, nextSequence, tampered)
    BY <1>2, <1>5, <1>6 DEF StoreInv
  <2> HIDE DEF D
  <2> QED BY <1>2, <1>5, <2>1 DEF StoreInv, D
<1>8. ASSUME NEW j \in Credits
      PROVE  /\ CreditSound(credit'[j], A, ledgerEntries, nextSequence)
             /\ credit'[j].pc = "open" => credit[j].pc = "open" /\ credit'[j].entries = credit[j].entries
  <2> DEFINE d == credit[j]
             hit == d.pc = "open" /\ a \in AccountsOf(d.entries)
  <2>1. CreditSound(d, ledgerAccounts, ledgerEntries, nextSequence)
    BY <1>2 DEF CreditsInv
  <2>2. credit'[j] = IF hit THEN [d EXCEPT !.doomed = TRUE] ELSE d
    BY <1>1 DEF DoomCredits, Touched
  <2> HIDE DEF d
  <2>3. CASE hit
    <3> DEFINE y == [pc |-> "open", entries |-> d.entries, doomed |-> d.doomed, creates |-> d.creates]
               z == [pc |-> "open", entries |-> d.entries, doomed |-> TRUE, creates |-> d.creates]
    <3>1. [y EXCEPT !.doomed = TRUE] = z
      BY ONLY MarkCredit, Zenon
    <3>2. d = y /\ EntriesSound(d.entries, nextSequence) /\ d.entries \cap ledgerEntries = {}
      BY <2>1, <2>3 DEF CreditSound
    <3>3. credit'[j] = z
      <4> HIDE DEF y, z
      <4> QED BY <2>2, <2>3, <3>1, <3>2
    <3>4. z.entries = d.entries /\ z.doomed = TRUE /\ z.creates = d.creates /\ z.pc = "open"
      OBVIOUS
    <3>5. z = [pc |-> "open", entries |-> z.entries, doomed |-> z.doomed, creates |-> z.creates]
      BY <3>4
    <3> HIDE DEF z
    <3>6. CreditSound(z, A, ledgerEntries, nextSequence)
      BY <3>2, <3>4, <3>5 DEF CreditSound
    <3> QED BY <2>3, <3>3, <3>4, <3>6 DEF d
  <2>4. CASE ~hit
    <3>1. credit'[j] = d
      BY <2>2, <2>4
    <3>2. CASE d.pc # "open"
      <4>1. d = [pc |-> "idle"] \/ d = [pc |-> "posted"]
        BY <2>1, <3>2 DEF CreditSound
      <4> QED BY <3>1, <3>2, <4>1 DEF CreditSound
    <3>3. CASE d.pc = "open"
      <4>1. \A e \in d.entries : e.account # a
        BY <2>4, <3>3 DEF AccountsOf
      <4>2. CreditSound(d, A, ledgerEntries, nextSequence)
        <5> HIDE DEF D, a
        <5> QED BY <1>5, <2>1, <3>3, <4>1 DEF CreditSound, D
      <4> QED BY <3>1, <4>2 DEF d
    <3> QED BY <3>2, <3>3
  <2> QED BY <2>3, <2>4
<1>9. CreditsInv(credit', A, ledgerEntries, nextSequence)
  <2>1. credit' = [j \in Credits |-> credit'[j]]
    BY <1>1 DEF DoomCredits
  <2>2. CreditsApart(credit')
    BY <1>2, <1>8 DEF CreditsInv, CreditsApart
  <2> QED BY <1>8, <2>1, <2>2 DEF CreditsInv
<1>10. /\ ReconcilerSound(NextAccount(r), D, ledgerEntries, nextSequence, ledgerRuns, tampered)
       /\ NextAccount(r).run = r.run /\ NextAccount(r).pc = "next"
  <2>1. r.run \in DOMAIN ledgerRuns
    BY <1>3 DEF Checking
  <2>2. ledgerRuns[r.run].alteredBefore \subseteq tampered
    BY <1>2, <2>1 DEF RunsInv, RunSound, RunRecord
  <2>3. a \notin tampered
    BY <1>3 DEF Recounted
  <2>4. ledgerRuns[r.run].alteredBefore \subseteq ledgerRuns[r.run].discrepancies \cup (r.accounts \ {r.account})
    BY <1>3, <2>2, <2>3 DEF RunCovered
  <2> QED BY <1>3, <2>4, NextSound DEF RunCovered
<1>11. ASSUME NEW v \in LedgerWorkers
       PROVE  /\ ReconcilerSound(reconciler'[v], D, ledgerEntries, nextSequence, ledgerRuns, tampered)
              /\ reconciler'[v].pc # "idle" => reconciler[v].pc # "idle" /\ reconciler'[v].run = reconciler[v].run
  <2>1. CASE v = w
    <3>1. reconciler'[w] = NextAccount(r)
      BY <1>1 DEF DoomReconcilers
    <3> QED BY <1>1, <1>10, <2>1, <3>1 DEF r
  <2>2. CASE v # w
    <3> DEFINE q == reconciler[v]
               hit == q.pc = "open" /\ q.account = a /\ q.matched
               x == IF hit THEN [q EXCEPT !.doomed = TRUE] ELSE q
    <3>1. reconciler'[v] = x
      BY <1>1, <2>2 DEF DoomReconcilers
    <3>2. ReconcilerSound(q, D, ledgerEntries, nextSequence, ledgerRuns, tampered)
      BY <1>2 DEF ReconcilersInv
    <3>3. hit \in BOOLEAN
      <4>1. q.pc = "open" => q.matched \in BOOLEAN
        BY <3>2 DEF ReconcilerSound, IdleReconciler, Checking
      <4> QED BY <4>1
    <3> HIDE DEF q, hit
    <3>4. hit <=> q.pc = "open" /\ q.account = a /\ q.matched
      BY DEF hit
    <3>5. /\ ReconcilerSound(x, D, ledgerEntries, nextSequence, ledgerRuns, tampered)
          /\ x.pc = q.pc /\ (q.pc # "idle" => x.run = q.run)
      BY <3>2, <3>3, <3>4, DoomedStaysSound
    <3> QED BY <3>1, <3>5 DEF q
  <2> QED BY <2>1, <2>2
<1>12. ReconcilersInv(reconciler', D, ledgerEntries, nextSequence, ledgerRuns, tampered)
  <2>1. reconciler' = [v \in LedgerWorkers |-> reconciler'[v]]
    BY <1>1 DEF DoomReconcilers
  <2>2. RunsApart(reconciler')
    BY <1>2, <1>11 DEF ReconcilersInv, RunsApart
  <2> QED BY <1>11, <2>1, <2>2 DEF ReconcilersInv
<1> HIDE DEF D
<1> QED BY <1>1, <1>2, <1>5, <1>7, <1>9, <1>12 DEF LedgerInv

\* A worker writes into the row of its own run.
LEMMA RunMoves ==
  ASSUME LedgerInv, NEW w \in LedgerWorkers, reconciler[w].pc # "idle", NEW run, NEW r,
         reconciler' = [reconciler EXCEPT ![w] = r],
         ledgerRuns' = [ledgerRuns EXCEPT ![reconciler[w].run] = run],
         UNCHANGED <<ledgerAccounts, ledgerEntries, nextSequence, credit, tampered>>,
         RunSound(run, tampered), reconciler[w].run \in DOMAIN ledgerRuns,
         ReconcilerSound(r, DOMAIN ledgerAccounts, ledgerEntries, nextSequence, ledgerRuns', tampered),
         r.pc # "idle" => r.run = reconciler[w].run
  PROVE  LedgerInv'
<1> DEFINE D == DOMAIN ledgerAccounts
           i == reconciler[w].run
<1>1. /\ ReconcilersInv(reconciler, D, ledgerEntries, nextSequence, ledgerRuns, tampered)
      /\ RunsInv(ledgerRuns, tampered)
  BY DEF LedgerInv
<1>2. /\ reconciler' = [v \in LedgerWorkers |-> reconciler'[v]] /\ reconciler'[w] = r
      /\ \A v \in LedgerWorkers : v # w => reconciler'[v] = reconciler[v]
  BY <1>1 DEF ReconcilersInv
<1>3. /\ ledgerRuns' \in Seq(RunRecord(tampered)) /\ DOMAIN ledgerRuns' = DOMAIN ledgerRuns
      /\ ledgerRuns'[i] = run /\ \A j \in DOMAIN ledgerRuns : j # i => ledgerRuns'[j] = ledgerRuns[j]
  <2>1. run \in RunRecord(tampered) /\ ledgerRuns \in Seq(RunRecord(tampered))
    BY <1>1 DEF RunSound, RunsInv
  <2> QED BY <2>1
<1>4. RunsInv(ledgerRuns', tampered)
  BY <1>1, <1>3 DEF RunsInv
<1>5. ASSUME NEW v \in LedgerWorkers, v # w
      PROVE  ReconcilerSound(reconciler[v], D, ledgerEntries, nextSequence, ledgerRuns', tampered)
  <2> DEFINE q == reconciler[v]
  <2>1. ReconcilerSound(q, D, ledgerEntries, nextSequence, ledgerRuns, tampered)
    BY <1>1 DEF ReconcilersInv
  <2>2. q.pc # "idle" => q.run # i
    BY <1>1, <1>5 DEF ReconcilersInv, RunsApart
  <2> HIDE DEF q, i, D
  <2>3. CASE q = IdleReconciler
    BY <2>3 DEF ReconcilerSound, q
  <2>4. CASE q # IdleReconciler
    <3>1. q.pc # "idle" /\ q.run \in DOMAIN ledgerRuns /\ RunCovered(q, ledgerRuns)
      BY <2>1, <2>4 DEF ReconcilerSound, Checking
    <3>2. RunCovered(q, ledgerRuns')
      BY <1>3, <2>2, <3>1 DEF RunCovered
    <3>3. ReconcilerSound(q, D, ledgerEntries, nextSequence, ledgerRuns', tampered)
      BY <1>3, <2>1, <2>4, <3>2 DEF ReconcilerSound
    <3> QED BY <3>3 DEF q
  <2> QED BY <2>3, <2>4
<1>6. ReconcilersInv(reconciler', D, ledgerEntries, nextSequence, ledgerRuns', tampered)
  <2>1. RunsApart(reconciler')
    BY <1>1, <1>2 DEF ReconcilersInv, RunsApart
  <2> QED BY <1>2, <1>5, <2>1 DEF ReconcilersInv
<1> QED BY <1>4, <1>6 DEF LedgerInv

\* A difference is recorded; only altered accounts have one.
LEMMA RecordKeepsLedger ==
  ASSUME LedgerInv, NEW w \in LedgerWorkers, RecordDiscrepancy(w)
  PROVE  LedgerInv'
<1> DEFINE r == reconciler[w]
           i == r.run
           old == ledgerRuns[i]
           run == [old EXCEPT !.discrepancies = @ \cup {r.account}]
<1>1. /\ r.pc = "mismatch" /\ ledgerRuns' = [ledgerRuns EXCEPT ![i] = run]
      /\ reconciler' = [reconciler EXCEPT ![w] = NextAccount(r)]
      /\ UNCHANGED <<ledgerAccounts, ledgerEntries, nextSequence, credit, tampered>>
  BY DEF RecordDiscrepancy
<1>2. /\ r \in Checking(DOMAIN ledgerAccounts, DOMAIN ledgerRuns) /\ RunCovered(r, ledgerRuns)
      /\ r.account \in tampered
  BY <1>1, AtCheck
<1> HIDE DEF r
<1>3. i \in DOMAIN ledgerRuns /\ ledgerRuns \in Seq(RunRecord(tampered)) /\ RunSound(old, tampered)
  BY <1>2 DEF Checking, LedgerInv, RunsInv
<1>4. /\ run \in RunRecord(tampered) /\ run.status = old.status /\ run.alteredBefore = old.alteredBefore
      /\ run.discrepancies = old.discrepancies \cup {r.account}
  <2> HIDE DEF old
  <2>1. old \in RunRecord(tampered)
    BY <1>3 DEF RunSound
  <2> QED BY <1>2, <2>1 DEF RunRecord
<1>5. old.status = "RUNNING" /\ old.alteredBefore \subseteq old.discrepancies \cup r.accounts
  BY <1>2 DEF RunCovered
<1> HIDE DEF run, old
<1>6. RunSound(run, tampered)
  BY <1>4, <1>5 DEF RunSound
<1>7. ledgerRuns'[i] = run /\ DOMAIN ledgerRuns' = DOMAIN ledgerRuns
  BY <1>1, <1>3
<1>8. /\ ReconcilerSound(NextAccount(r), DOMAIN ledgerAccounts, ledgerEntries, nextSequence, ledgerRuns', tampered)
      /\ NextAccount(r).run = r.run
  <2>1. r \in Checking(DOMAIN ledgerAccounts, DOMAIN ledgerRuns')
    BY <1>2, <1>7
  <2>2. ledgerRuns'[r.run].status = "RUNNING"
    BY <1>4, <1>5, <1>7
  <2>3. ledgerRuns'[r.run].alteredBefore
        \subseteq ledgerRuns'[r.run].discrepancies \cup (r.accounts \ {r.account})
    BY <1>4, <1>5, <1>7
  <2> QED BY <2>1, <2>2, <2>3, NextSound
<1> QED BY <1>1, <1>3, <1>6, <1>8, RunMoves DEF r

\* A run ends when every account was checked.
LEMMA FinishKeepsLedger ==
  ASSUME LedgerInv, NEW w \in LedgerWorkers, FinishRun(w)
  PROVE  LedgerInv'
<1> DEFINE r == reconciler[w]
           i == r.run
           old == ledgerRuns[i]
           status == IF old.discrepancies = {} THEN "CLEAN" ELSE "DISCREPANCIES_FOUND"
           run == [old EXCEPT !.status = status]
<1>1. /\ r.pc = "next" /\ r.accounts = {} /\ ledgerRuns' = [ledgerRuns EXCEPT ![i] = run]
      /\ reconciler' = [reconciler EXCEPT ![w] = IdleReconciler]
      /\ UNCHANGED <<ledgerAccounts, ledgerEntries, nextSequence, credit, tampered>>
  BY DEF FinishRun
<1>2. /\ r \in [pc : {"next"}, run : DOMAIN ledgerRuns, accounts : SUBSET DOMAIN ledgerAccounts, retries : Nat]
      /\ RunCovered(r, ledgerRuns)
  BY <1>1, AtNext
<1> HIDE DEF r
<1>3. i \in DOMAIN ledgerRuns /\ RunSound(old, tampered)
  BY <1>2 DEF LedgerInv, RunsInv
<1>4. old.alteredBefore \subseteq old.discrepancies
  BY <1>1, <1>2 DEF RunCovered
<1> HIDE DEF old
<1>5. /\ run \in RunRecord(tampered) /\ run.status = status /\ run.alteredBefore = old.alteredBefore
      /\ run.discrepancies = old.discrepancies
  BY <1>3 DEF RunRecord, RunSound
<1> HIDE DEF run
<1>6. RunSound(run, tampered)
  BY <1>4, <1>5 DEF RunSound
<1>7. /\ ReconcilerSound(IdleReconciler, DOMAIN ledgerAccounts, ledgerEntries, nextSequence, ledgerRuns', tampered)
      /\ IdleReconciler.pc = "idle"
  BY DEF ReconcilerSound, IdleReconciler
<1> QED BY <1>1, <1>3, <1>6, <1>7, RunMoves DEF r

\* A run begins: every account there is, is on its list.
LEMMA StartKeepsLedger ==
  ASSUME LedgerInv, NEW w \in LedgerWorkers, StartRun(w)
  PROVE  LedgerInv'
<1> DEFINE D == DOMAIN ledgerAccounts
           n == Len(ledgerRuns)
           run == [status |-> "RUNNING", discrepancies |-> {}, alteredBefore |-> tampered]
           r == [pc |-> "next", run |-> n + 1, accounts |-> D, retries |-> 0]
<1>1. /\ ledgerRuns' = Append(ledgerRuns, run) /\ reconciler' = [reconciler EXCEPT ![w] = r]
      /\ UNCHANGED <<ledgerAccounts, ledgerEntries, nextSequence, credit, tampered>>
  BY DEF StartRun
<1>2. /\ ReconcilersInv(reconciler, D, ledgerEntries, nextSequence, ledgerRuns, tampered)
      /\ RunsInv(ledgerRuns, tampered) /\ tampered \subseteq D
  BY DEF LedgerInv, StoreInv
<1>3. run \in RunRecord(tampered) /\ RunSound(run, tampered)
  BY DEF RunRecord, RunSound
<1>4. /\ n \in Nat /\ DOMAIN ledgerRuns = 1..n /\ DOMAIN ledgerRuns' = 1..n + 1
      /\ ledgerRuns' \in Seq(RunRecord(tampered)) /\ ledgerRuns'[n + 1] = run
      /\ \A j \in 1..n : ledgerRuns'[j] = ledgerRuns[j]
  <2>1. ledgerRuns \in Seq(RunRecord(tampered))
    BY <1>2 DEF RunsInv
  <2> HIDE DEF run
  <2> QED BY <1>1, <1>3, <2>1
<1>5. RunsInv(ledgerRuns', tampered)
  <2> HIDE DEF run, n
  <2>1. ASSUME NEW j \in 1..n + 1 PROVE RunSound(ledgerRuns'[j], tampered)
    <3>1. j \in 1..n \/ j = n + 1
      BY <1>4
    <3> QED BY <1>2, <1>3, <1>4, <3>1 DEF RunsInv
  <2> QED BY <1>4, <2>1 DEF RunsInv
<1>6. /\ ReconcilerSound(r, D, ledgerEntries, nextSequence, ledgerRuns', tampered) /\ r.run = n + 1
  <2>1. n + 1 \in DOMAIN ledgerRuns'
    BY <1>4
  <2>2. run.status = "RUNNING" /\ run.alteredBefore = tampered
    OBVIOUS
  <2> HIDE DEF run, n, D
  <2>3. r.run = n + 1 /\ r.accounts = D
    OBVIOUS
  <2>4. r \in [pc : {"next"}, run : DOMAIN ledgerRuns', accounts : SUBSET D, retries : Nat]
    BY <2>1
  <2> HIDE DEF r
  <2>5. RunCovered(r, ledgerRuns')
    BY <1>2, <1>4, <2>2, <2>3 DEF RunCovered
  <2> QED BY <2>3, <2>4, <2>5 DEF ReconcilerSound
<1>7. ASSUME NEW v \in LedgerWorkers
      PROVE  /\ ReconcilerSound(reconciler[v], D, ledgerEntries, nextSequence, ledgerRuns', tampered)
             /\ reconciler[v].pc # "idle" => reconciler[v].run # n + 1
  <2> DEFINE q == reconciler[v]
  <2>1. ReconcilerSound(q, D, ledgerEntries, nextSequence, ledgerRuns, tampered)
    BY <1>2 DEF ReconcilersInv
  <2> HIDE DEF q, D, n, run
  <2>2. CASE q = IdleReconciler
    BY <2>2 DEF ReconcilerSound, IdleReconciler, q
  <2>3. CASE q # IdleReconciler
    <3>1. q.run \in DOMAIN ledgerRuns /\ RunCovered(q, ledgerRuns)
      BY <2>1, <2>3 DEF ReconcilerSound, Checking
    <3>2. q.run \in 1..n /\ q.run # n + 1 /\ q.run \in DOMAIN ledgerRuns'
      BY <1>4, <3>1
    <3>3. RunCovered(q, ledgerRuns')
      BY <1>4, <3>1, <3>2 DEF RunCovered
    <3>4. DOMAIN ledgerRuns \subseteq DOMAIN ledgerRuns'
      BY <1>4
    <3>5. ReconcilerSound(q, D, ledgerEntries, nextSequence, ledgerRuns', tampered)
      BY <2>1, <2>3, <3>3, <3>4 DEF ReconcilerSound, Checking
    <3> QED BY <3>2, <3>5 DEF q
  <2> QED BY <2>2, <2>3
<1>8. ReconcilersInv(reconciler', D, ledgerEntries, nextSequence, ledgerRuns', tampered)
  <2>1. /\ reconciler' = [v \in LedgerWorkers |-> reconciler'[v]] /\ reconciler'[w] = r
        /\ \A v \in LedgerWorkers : v # w => reconciler'[v] = reconciler[v]
    BY <1>1, <1>2 DEF ReconcilersInv
  <2> HIDE DEF r, n, D
  <2>2. RunsApart(reconciler')
    BY <1>2, <1>6, <1>7, <2>1 DEF ReconcilersInv, RunsApart
  <2> QED BY <1>6, <1>7, <2>1, <2>2 DEF ReconcilersInv
<1> QED BY <1>1, <1>5, <1>8 DEF LedgerInv

\* A sequence over a set is one over any larger set.
LEMMA SeqWidens ==
  ASSUME NEW S, NEW T, S \subseteq T, NEW s \in Seq(S)
  PROVE  s \in Seq(T)
OBVIOUS

\* Something else alters a cache: checks that counted on it are rolled back.
LEMMA AlterKeepsLedger ==
  ASSUME LedgerInv, NEW account \in DOMAIN ledgerAccounts, AlterCache(account)
  PROVE  LedgerInv'
<1> DEFINE D == DOMAIN ledgerAccounts
           old == ledgerAccounts[account]
           new == [old EXCEPT !.cachedBalance = @ + 1]
           A == [ledgerAccounts EXCEPT ![account] = new]
           T == tampered \cup {account}
<1>1. /\ account \notin tampered /\ ledgerAccounts' = A /\ tampered' = T
      /\ reconciler' = DoomReconcilers({account}, LedgerWorkers)
      /\ ledgerEntries' = ledgerEntries /\ nextSequence' = nextSequence /\ credit' = credit
      /\ ledgerRuns' = ledgerRuns
  BY DEF AlterCache
<1>2. /\ StoreInv(ledgerAccounts, ledgerEntries, nextSequence, tampered)
      /\ CreditsInv(credit, ledgerAccounts, ledgerEntries, nextSequence)
      /\ ReconcilersInv(reconciler, D, ledgerEntries, nextSequence, ledgerRuns, tampered)
      /\ RunsInv(ledgerRuns, tampered)
  BY DEF LedgerInv
<1>3. /\ DOMAIN A = D /\ A[account] = new /\ \A b \in D : b # account => A[b] = ledgerAccounts[b]
      /\ A = [b \in DOMAIN A |-> A[b]]
  <2> HIDE DEF new
  <2> QED BY <1>2 DEF StoreInv
<1>4. /\ new \in [cachedBalance : Int, cachedThroughSeq : Nat] /\ new.cachedThroughSeq = old.cachedThroughSeq
      /\ CacheSound(new, account, ledgerEntries, nextSequence, T)
  <2>1. CacheSound(old, account, ledgerEntries, nextSequence, tampered)
    BY <1>2 DEF StoreInv
  <2> DEFINE total == Sum(Upto(ledgerEntries, account, old.cachedThroughSeq))
  <2>2. /\ old \in [cachedBalance : Int, cachedThroughSeq : Nat] /\ old.cachedThroughSeq < nextSequence
        /\ old.cachedBalance = total + 0
    BY <1>1, <2>1 DEF CacheSound
  <2>3. total \in Int
    <3> DEFINE before == Upto(ledgerEntries, account, old.cachedThroughSeq)
    <3>1. before \subseteq ledgerEntries /\ EntriesSound(ledgerEntries, nextSequence)
      BY <1>2 DEF Upto, Of, StoreInv
    <3>2. IsFiniteSet(ledgerEntries) /\ \A e \in ledgerEntries : Signed(e) \in Int
      BY <3>1, SignedIsInt DEF EntriesSound
    <3>3. before \in SUBSET ledgerEntries
      BY <3>1
    <3> HIDE DEF before
    <3>4. Sum(before) \in Int
      BY <3>2, <3>3, SumIsInt
    <3> QED BY <3>4 DEF before
  <2> HIDE DEF total, old
  <2>4. /\ new \in [cachedBalance : Int, cachedThroughSeq : Nat] /\ new.cachedThroughSeq = old.cachedThroughSeq
        /\ new.cachedBalance = old.cachedBalance + 1
    BY <2>2
  <2>5. new.cachedBalance = total + 1
    BY <2>2, <2>3, <2>4
  <2>6. account \in T
    OBVIOUS
  <2> HIDE DEF new, T
  <2> QED BY <2>2, <2>4, <2>5, <2>6 DEF CacheSound, total
<1> HIDE DEF A, new
<1>5. StoreInv(A, ledgerEntries, nextSequence, T)
  <2>1. ASSUME NEW b \in D PROVE CacheSound(A[b], b, ledgerEntries, nextSequence, T)
    <3>1. CASE b = account
      BY <1>3, <1>4, <3>1
    <3>2. CASE b # account
      <4>1. CacheSound(ledgerAccounts[b], b, ledgerEntries, nextSequence, tampered)
        BY <1>2 DEF StoreInv
      <4>2. A[b] = ledgerAccounts[b] /\ (b \in T <=> b \in tampered)
        BY <1>3, <3>2
      <4> HIDE DEF T
      <4> QED BY <4>1, <4>2 DEF CacheSound
    <3> QED BY <3>1, <3>2
  <2>2. T \subseteq D
    BY <1>2 DEF StoreInv
  <2> HIDE DEF T
  <2> QED BY <1>2, <1>3, <2>1, <2>2 DEF StoreInv
<1>6. CreditsInv(credit, A, ledgerEntries, nextSequence)
  <2>1. \A b \in D : A[b].cachedThroughSeq = ledgerAccounts[b].cachedThroughSeq
    BY <1>3, <1>4
  <2>2. ASSUME NEW j \in Credits PROVE CreditSound(credit[j], A, ledgerEntries, nextSequence)
    <3>1. CreditSound(credit[j], ledgerAccounts, ledgerEntries, nextSequence)
      BY <1>2 DEF CreditsInv
    <3> QED BY <1>3, <2>1, <3>1 DEF CreditSound
  <2> QED BY <1>2, <2>2 DEF CreditsInv
<1>7. ASSUME NEW v \in LedgerWorkers
      PROVE  /\ ReconcilerSound(reconciler'[v], D, ledgerEntries, nextSequence, ledgerRuns, T)
             /\ reconciler'[v].pc = reconciler[v].pc
             /\ reconciler[v].pc # "idle" => reconciler'[v].run = reconciler[v].run
  <2> DEFINE q == reconciler[v]
             hit == q.pc = "open" /\ q.account = account /\ q.matched
             x == IF hit THEN [q EXCEPT !.doomed = TRUE] ELSE q
  <2>1. reconciler'[v] = x
    BY <1>1 DEF DoomReconcilers
  <2>2. ReconcilerSound(q, D, ledgerEntries, nextSequence, ledgerRuns, tampered)
    BY <1>2 DEF ReconcilersInv
  <2>3. hit \in BOOLEAN
    <3>1. q.pc = "open" => q.matched \in BOOLEAN
      BY <2>2 DEF ReconcilerSound, IdleReconciler, Checking
    <3> QED BY <3>1
  <2> HIDE DEF q, hit, D
  <2>4. hit <=> q.pc = "open" /\ q.account = account /\ q.matched
    BY DEF hit
  <2>5. tampered \subseteq T /\ (T = tampered \/ T = tampered \cup {account})
    OBVIOUS
  <2> HIDE DEF T
  <2>6. /\ ReconcilerSound(x, D, ledgerEntries, nextSequence, ledgerRuns, T)
        /\ x.pc = q.pc /\ (q.pc # "idle" => x.run = q.run)
    BY <2>2, <2>3, <2>4, <2>5, DoomedStaysSound
  <2> QED BY <2>1, <2>6 DEF q
<1>8. ReconcilersInv(reconciler', D, ledgerEntries, nextSequence, ledgerRuns, T)
  <2>1. reconciler' = [v \in LedgerWorkers |-> reconciler'[v]]
    BY <1>1 DEF DoomReconcilers
  <2>2. RunsApart(reconciler')
    BY <1>2, <1>7 DEF ReconcilersInv, RunsApart
  <2> QED BY <1>7, <2>1, <2>2 DEF ReconcilersInv
<1>9. RunsInv(ledgerRuns, T)
  <2>1. RunRecord(tampered) \subseteq RunRecord(T)
    BY DEF RunRecord
  <2>2. ledgerRuns \in Seq(RunRecord(T))
    <3>1. ledgerRuns \in Seq(RunRecord(tampered))
      BY <1>2 DEF RunsInv
    <3> QED BY ONLY <2>1, <3>1, SeqWidens, Zenon
  <2>3. \A i \in DOMAIN ledgerRuns : RunSound(ledgerRuns[i], T)
    BY <1>2, <2>1 DEF RunsInv, RunSound
  <2> QED BY <2>2, <2>3 DEF RunsInv
<1> HIDE DEF D, T
<1> QED BY <1>1, <1>3, <1>5, <1>6, <1>8, <1>9 DEF LedgerInv

\* Every step keeps the invariant.
LEMMA LedgerStepInv == LedgerInv /\ [LedgerNext]_ledgerVars => LedgerInv'
<1> SUFFICES ASSUME LedgerInv, [LedgerNext]_ledgerVars PROVE LedgerInv'
  OBVIOUS
<1>1. CASE UNCHANGED ledgerVars
  BY <1>1 DEF ledgerVars, LedgerInv
<1>2. ASSUME NEW k \in Credits,
             \/ \E gross \in Grosses : PostPaymentCredit(k, gross)
             \/ CommitCredit(k)
             \/ RollBackCredit(k)
      PROVE  LedgerInv'
  BY <1>2, PostKeepsLedger, CommitKeepsLedger, RollBackKeepsLedger
<1>3. ASSUME NEW w \in LedgerWorkers, CommitReconcile(w) PROVE LedgerInv'
  BY <1>3, RefreshKeepsLedger, MismatchKeepsLedger
<1>4. ASSUME NEW w \in LedgerWorkers,
             \/ StartRun(w)
             \/ \E account \in DOMAIN ledgerAccounts : ReconcileAccount(w, account)
             \/ CommitReconcile(w)
             \/ RecordDiscrepancy(w)
             \/ RollBackReconcile(w)
             \/ FinishRun(w)
             \/ LedgerWorkerCrash(w)
      PROVE  LedgerInv'
  BY <1>3, <1>4, StartKeepsLedger, CheckKeepsLedger, RecordKeepsLedger, RollBackCheckKeepsLedger,
     FinishKeepsLedger, CrashKeepsLedger
<1>5. ASSUME NEW account \in DOMAIN ledgerAccounts, AlterCache(account) PROVE LedgerInv'
  BY <1>5, AlterKeepsLedger
<1> QED BY <1>1, <1>2, <1>4, <1>5 DEF LedgerNext

\* The invariant gives the types.
LEMMA LedgerTyped == LedgerInv => LedgerTypeOK
<1> SUFFICES ASSUME LedgerInv PROVE LedgerTypeOK
  OBVIOUS
<1>1. /\ DOMAIN ledgerAccounts \subseteq LedgerAccountKind /\ nextSequence \in 1..MaxSequence + 1
      /\ tampered \subseteq DOMAIN ledgerAccounts
      /\ \A a \in DOMAIN ledgerAccounts : ledgerAccounts[a] \in [cachedBalance : Int, cachedThroughSeq : Nat]
  BY DEF LedgerInv, StoreInv, CacheSound
<1>2. ledgerEntries \subseteq [account : DOMAIN ledgerAccounts, direction : {"DEBIT", "CREDIT"},
                              amount : Nat \ {0}, sequence : 1..MaxSequence]
  <2> SUFFICES ASSUME NEW e \in ledgerEntries
               PROVE  e \in [account : DOMAIN ledgerAccounts, direction : {"DEBIT", "CREDIT"},
                             amount : Nat \ {0}, sequence : 1..MaxSequence]
    OBVIOUS
  <2>1. e \in LedgerEntry /\ e.amount > 0 /\ e.account \in DOMAIN ledgerAccounts
    BY DEF LedgerInv, StoreInv, EntriesSound
  <2>2. e.amount \in Nat \ {0}
    BY <2>1 DEF LedgerEntry
  <2> QED BY <2>1, <2>2 DEF LedgerEntry
<1>3. \A k \in Credits : credit[k].pc \in {"idle", "open", "posted"}
  <2> SUFFICES ASSUME NEW k \in Credits PROVE credit[k].pc \in {"idle", "open", "posted"}
    OBVIOUS
  <2> DEFINE c == credit[k]
  <2>1. CreditSound(c, ledgerAccounts, ledgerEntries, nextSequence)
    BY DEF LedgerInv, CreditsInv
  <2> HIDE DEF c
  <2>2. c.pc \in {"idle", "open", "posted"}
    BY <2>1 DEF CreditSound
  <2> QED BY <2>2 DEF c
<1>4. \A w \in LedgerWorkers : reconciler[w].pc \in {"idle", "next", "open", "mismatch"}
  <2> SUFFICES ASSUME NEW w \in LedgerWorkers PROVE reconciler[w].pc \in {"idle", "next", "open", "mismatch"}
    OBVIOUS
  <2> DEFINE r == reconciler[w]
  <2>1. ReconcilerSound(r, DOMAIN ledgerAccounts, ledgerEntries, nextSequence, ledgerRuns, tampered)
    BY DEF LedgerInv, ReconcilersInv
  <2> HIDE DEF r
  <2>2. r.pc \in {"idle", "next", "open", "mismatch"}
    BY <2>1 DEF ReconcilerSound, IdleReconciler, Checking
  <2> QED BY <2>2 DEF r
<1>5. \A i \in DOMAIN ledgerRuns : ledgerRuns[i].status \in {"RUNNING", "CLEAN", "DISCREPANCIES_FOUND"}
  BY DEF LedgerInv, RunsInv, RunSound, RunRecord
<1> QED BY <1>1, <1>2, <1>3, <1>4, <1>5 DEF LedgerTypeOK

\* However postings and reconciliation runs of any number of workers overlap,
\* are rolled back and crash, and whatever alters caches from outside: a run
\* reports an account only when its cache was altered, and a run that
\* completes reports every account altered before it began.
THEOREM ReconciliationIsExact == LedgerSpec => []AlarmsAreExact
<1>1. LedgerInv => AlarmsAreExact
  BY DEF LedgerInv, RunsInv, RunSound, RunRecord, AlarmsAreExact
<1> QED BY <1>1, LedgerInitInv, LedgerStepInv, PTL DEF LedgerSpec

-----------------------------------------------------------------------------
(* The processes.                                                          *)

\* The requests without an answer, and the ones that ever arrived.
RunningOf(req) == {r \in HttpRequests : req[r] \in {"running", "stranded"}}
BegunOf(req) == {r \in HttpRequests : req[r] # "none"}

\* The gauge counts at least the running requests and at most those that ever
\* arrived.
GaugeSound(req, gauge) ==
  /\ req \in [HttpRequests -> {"none", "running", "stranded", "torn", "done"}]
  /\ gauge \in Nat /\ Cardinality(RunningOf(req)) <= gauge /\ gauge <= Cardinality(BegunOf(req))

\* Only the loops of the application run, and only while it serves; the
\* database is there meanwhile.
LoopsSound(a, ph, lp, connected) ==
  /\ \A l \in WorkerLoops \cup WatchedNetworks :
       /\ l \notin AppLoops(a) \/ a \notin Pollers \/ ph = "starting" => lp[l] = "off"
       /\ ph # "serving" => lp[l] \in {"off", "done"}
  /\ a \in Pollers => ph \in {"starting", "serving", "disconnecting", "exited"}
  /\ a \in Pollers /\ ph = "serving" => connected

\* Requests lose what they need only after a drain that timed out, and only
\* such a drain leaves one without an answer.
RequestsSound(a, ph, req, timedOut) ==
  /\ a \in Pollers => BegunOf(req) = {}
  /\ ph \in {"starting", "created", "initialising"} => BegunOf(req) = {}
  /\ \A r \in HttpRequests :
       /\ req[r] \in {"stranded", "torn"} => ph \in {"disposing", "exiting", "exited"} /\ timedOut
       /\ r \in RunningOf(req) /\ ph \in {"closing", "disposing", "exiting", "exited"} => timedOut

LifecycleInv ==
  /\ LifecycleTypeOK
  /\ GaugeSound(request, inFlight)
  /\ LoopsSound(app, phase, loop, db)
  /\ RequestsSound(app, phase, request, drainTimedOut)

\* A gauge in range of the requests.
LEMMA GaugeBounds ==
  ASSUME NEW req, NEW gauge, GaugeSound(req, gauge)
  PROVE  gauge \in 0..Cardinality(HttpRequests)
<1>1. IsFiniteSet(HttpRequests) /\ BegunOf(req) \subseteq HttpRequests
  BY LifecycleConstants DEF LifecycleConstants, BegunOf
<1>2. Cardinality(BegunOf(req)) \in Nat /\ Cardinality(HttpRequests) \in Nat
  BY <1>1, FS_Subset, FS_CardinalityType
<1>3. Cardinality(BegunOf(req)) <= Cardinality(HttpRequests)
  BY <1>1, FS_Subset
<1> QED BY <1>2, <1>3 DEF GaugeSound

\* A request arrives and is counted.
LEMMA ArrivalCounts ==
  ASSUME NEW req, NEW gauge, GaugeSound(req, gauge), NEW r \in HttpRequests, req[r] = "none"
  PROVE  GaugeSound([req EXCEPT ![r] = "running"], gauge + 1)
<1> DEFINE new == [req EXCEPT ![r] = "running"]
<1>1. /\ RunningOf(new) = RunningOf(req) \cup {r} /\ r \notin RunningOf(req)
      /\ BegunOf(new) = BegunOf(req) \cup {r} /\ r \notin BegunOf(req)
  BY DEF GaugeSound, RunningOf, BegunOf
<1>2. IsFiniteSet(RunningOf(req)) /\ IsFiniteSet(BegunOf(req))
  BY FS_Subset, LifecycleConstants DEF LifecycleConstants, RunningOf, BegunOf
<1>3. /\ Cardinality(RunningOf(req)) \in Nat /\ Cardinality(RunningOf(new)) = Cardinality(RunningOf(req)) + 1
      /\ Cardinality(BegunOf(req)) \in Nat /\ Cardinality(BegunOf(new)) = Cardinality(BegunOf(req)) + 1
  BY <1>1, <1>2, FS_CardinalityType, FS_AddElement
<1>4. new \in [HttpRequests -> {"none", "running", "stranded", "torn", "done"}]
  BY DEF GaugeSound
<1> HIDE DEF new
<1>5. GaugeSound(new, gauge + 1)
  BY <1>3, <1>4 DEF GaugeSound
<1> QED BY <1>5 DEF new

\* A request that ends was counted, whether or not it is discounted.
LEMMA EndDiscounts ==
  ASSUME NEW req, NEW gauge, GaugeSound(req, gauge), NEW r \in RunningOf(req)
  PROVE  /\ GaugeSound([req EXCEPT ![r] = "done"], gauge - 1)
         /\ GaugeSound([req EXCEPT ![r] = "done"], gauge)
<1> DEFINE new == [req EXCEPT ![r] = "done"]
<1>1. /\ RunningOf(new) = RunningOf(req) \ {r} /\ r \in RunningOf(req) /\ BegunOf(new) = BegunOf(req)
  BY DEF GaugeSound, RunningOf, BegunOf
<1>2. IsFiniteSet(RunningOf(req)) /\ IsFiniteSet(BegunOf(req))
  BY FS_Subset, LifecycleConstants DEF LifecycleConstants, RunningOf, BegunOf
<1>3. /\ Cardinality(RunningOf(req)) \in Nat /\ Cardinality(RunningOf(new)) = Cardinality(RunningOf(req)) - 1
      /\ Cardinality(RunningOf(req)) # 0 /\ Cardinality(BegunOf(req)) \in Nat
  BY <1>1, <1>2, FS_CardinalityType, FS_RemoveElement, FS_EmptySet
<1>4. new \in [HttpRequests -> {"none", "running", "stranded", "torn", "done"}]
  BY DEF GaugeSound
<1> HIDE DEF new
<1>5. GaugeSound(new, gauge - 1) /\ GaugeSound(new, gauge)
  BY <1>1, <1>3, <1>4 DEF GaugeSound
<1> QED BY <1>5 DEF new

\* Requests that are stranded or cut off stay counted.
LEMMA TearingCounts ==
  ASSUME NEW req, NEW gauge, GaugeSound(req, gauge), NEW T \in SUBSET RunningOf(req),
         NEW fate \in {"stranded", "torn"}
  PROVE  GaugeSound([r \in HttpRequests |-> IF r \in T THEN fate ELSE req[r]], gauge)
<1> DEFINE new == [r \in HttpRequests |-> IF r \in T THEN fate ELSE req[r]]
<1>1. RunningOf(new) \subseteq RunningOf(req) /\ BegunOf(new) = BegunOf(req)
  BY DEF GaugeSound, RunningOf, BegunOf
<1>2. IsFiniteSet(RunningOf(req))
  BY FS_Subset, LifecycleConstants DEF LifecycleConstants, RunningOf
<1>3. Cardinality(RunningOf(new)) <= Cardinality(RunningOf(req)) /\ Cardinality(RunningOf(new)) \in Nat
      /\ Cardinality(RunningOf(req)) \in Nat
  BY <1>1, <1>2, FS_Subset, FS_CardinalityType
<1>4. IsFiniteSet(BegunOf(req)) /\ Cardinality(BegunOf(req)) \in Nat
  BY FS_Subset, FS_CardinalityType, LifecycleConstants DEF LifecycleConstants, BegunOf
<1>5. new \in [HttpRequests -> {"none", "running", "stranded", "torn", "done"}]
  BY DEF GaugeSound
<1> HIDE DEF new
<1>6. GaugeSound(new, gauge)
  BY <1>1, <1>3, <1>4, <1>5 DEF GaugeSound
<1> QED BY <1>6 DEF new

\* Steps that touch neither requests nor loops.
LEMMA QuietKeeps ==
  ASSUME LifecycleInv, UNCHANGED <<app, loop, request, inFlight>>, LifecycleTypeOK',
         LoopsSound(app, phase', loop, db'), RequestsSound(app, phase', request, drainTimedOut')
  PROVE  LifecycleInv'
BY DEF LifecycleInv

\* The worker and the monitor: the loops begin, end and are waited for.
LEMMA PollerKeeps ==
  ASSUME LifecycleInv, PollerStarts \/ PollerClosesOps \/ PollerDisconnects
  PROVE  LifecycleInv'
<1> USE DEF LifecycleInv
<1>1. CASE PollerStarts
  <2>1. LifecycleTypeOK'
    BY <1>1 DEF PollerStarts, LifecycleTypeOK
  <2>2. LoopsSound(app', phase', loop', db')
    BY <1>1 DEF PollerStarts, LoopsSound, LifecycleTypeOK
  <2>3. RequestsSound(app', phase', request', drainTimedOut')
    BY <1>1 DEF PollerStarts, RequestsSound, BegunOf
  <2> QED BY <1>1, <2>1, <2>2, <2>3 DEF PollerStarts
<1>2. CASE PollerClosesOps
  <2>1. LifecycleTypeOK'
    BY <1>2 DEF PollerClosesOps, LifecycleTypeOK
  <2>2. \A l \in WorkerLoops \cup WatchedNetworks : loop[l] \in {"off", "done"}
    BY <1>2 DEF PollerClosesOps, LoopsEnded, LoopsSound
  <2>3. LoopsSound(app', phase', loop', db')
    BY <1>2, <2>2 DEF PollerClosesOps, LoopsSound
  <2>4. RequestsSound(app', phase', request', drainTimedOut')
    BY <1>2 DEF PollerClosesOps, RequestsSound, BegunOf
  <2> QED BY <1>2, <2>1, <2>3, <2>4 DEF PollerClosesOps
<1>3. CASE PollerDisconnects
  <2>1. LifecycleTypeOK'
    BY <1>3 DEF PollerDisconnects, LifecycleTypeOK
  <2>2. LoopsSound(app', phase', loop', db')
    BY <1>3 DEF PollerDisconnects, LoopsSound
  <2>3. RequestsSound(app', phase', request', drainTimedOut')
    BY <1>3 DEF PollerDisconnects, RequestsSound, BegunOf, RunningOf
  <2> QED BY <1>3, <2>1, <2>2, <2>3 DEF PollerDisconnects
<1> QED BY <1>1, <1>2, <1>3

\* The loops tick and sleep.
LEMMA LoopKeeps ==
  ASSUME LifecycleInv, NEW l \in DOMAIN loop, LoopStep(l)
  PROVE  LifecycleInv'
<1> USE DEF LifecycleInv
<1>1. /\ UNCHANGED <<app, phase, request, inFlight, db, drainTimedOut>>
      /\ loop[l] \in {"tick", "sleep"} /\ l \in WorkerLoops \cup WatchedNetworks
      /\ \E y \in {"tick", "sleep", "done"} : loop' = [loop EXCEPT ![l] = y]
  BY DEF LoopStep, EndTick, WakeUp, LifecycleTypeOK
<1>2. LifecycleTypeOK'
  BY <1>1 DEF LoopStep, EndTick, WakeUp, LifecycleTypeOK
<1>3. phase = "serving" /\ l \in AppLoops(app) /\ app \in Pollers
  BY <1>1 DEF LoopsSound
<1>4. LoopsSound(app, phase, loop', db)
  BY <1>1, <1>3 DEF LoopsSound, LifecycleTypeOK
<1> QED BY <1>1, <1>2, <1>4

\* The API and the web server start.
LEMMA StartsKeep ==
  ASSUME LifecycleInv,
         ApiStartsOps \/ RedisOnModuleInit \/ PrismaOnModuleInit \/ ApiListens \/ WebListens
  PROVE  LifecycleInv'
<1> USE DEF LifecycleInv
<1>1. /\ UNCHANGED <<app, loop, request, inFlight, drainTimedOut>>
      /\ app \in {"api", "web"} /\ phase \in {"starting", "created", "initialising"}
      /\ phase' \in {"created", "initialising", "serving"}
  BY DEF ApiStartsOps, RedisOnModuleInit, PrismaOnModuleInit, ApiListens, WebListens
<1>2. LifecycleTypeOK'
  BY DEF ApiStartsOps, RedisOnModuleInit, PrismaOnModuleInit, ApiListens, WebListens, LifecycleTypeOK
<1>3. LoopsSound(app, phase', loop, db')
  BY <1>1 DEF LoopsSound, Pollers
<1>4. RequestsSound(app, phase', request, drainTimedOut')
  BY <1>1 DEF RequestsSound, BegunOf, Pollers
<1> QED BY <1>1, <1>2, <1>3, <1>4, QuietKeeps

\* They drain and exit.
LEMMA DrainsKeep ==
  ASSUME LifecycleInv,
         ApiDrains \/ ApiDestroysProviders \/ ApiDisposes \/ ApiExits \/ WebExits
  PROVE  LifecycleInv'
<1> USE DEF LifecycleInv
<1>1. /\ Unanswered = RunningOf(request) /\ GaugeSound(request, inFlight)
      /\ request \in [HttpRequests -> {"none", "running", "stranded", "torn", "done"}]
  BY DEF Unanswered, RunningOf, LifecycleTypeOK
<1>2. CASE ApiDrains \/ ApiDisposes
  <2>1. LifecycleTypeOK'
    BY <1>2 DEF ApiDrains, ApiDisposes, LifecycleTypeOK
  <2>2. LoopsSound(app, phase', loop, db')
    BY <1>2 DEF ApiDrains, ApiDisposes, LoopsSound, Pollers
  <2>3. RequestsSound(app, phase', request, drainTimedOut')
    BY <1>1, <1>2 DEF ApiDrains, ApiDisposes, RequestsSound, Pollers
  <2>4. UNCHANGED <<app, loop, request, inFlight>>
    BY <1>2 DEF ApiDrains, ApiDisposes
  <2> QED BY <2>1, <2>2, <2>3, <2>4, QuietKeeps
<1>3. ASSUME NEW T \in SUBSET RunningOf(request), NEW fate \in {"stranded", "torn"},
             request' = [r \in HttpRequests |-> IF r \in T THEN fate ELSE request[r]],
             app \in {"api", "web"}, phase \in {"draining", "closing", "exiting"},
             phase' \in {"disposing", "exiting", "exited"},
             UNCHANGED <<app, shuttingDown, loop, inFlight, gaugeTimer, probe>>,
             db' \in BOOLEAN, redis' \in {"wait", "connecting", "ready", "end"}, drainTimedOut' \in BOOLEAN,
             drainTimedOut => drainTimedOut',
             RunningOf(request) # {} => drainTimedOut'
      PROVE  LifecycleInv'
  <2>1. GaugeSound(request', inFlight')
    BY <1>1, <1>3, TearingCounts
  <2>2. inFlight' \in 0..Cardinality(HttpRequests)
    BY <2>1, GaugeBounds
  <2>3. LifecycleTypeOK'
    BY <1>3, <2>1, <2>2 DEF LifecycleTypeOK, GaugeSound
  <2>4. LoopsSound(app', phase', loop', db')
    BY <1>3 DEF LoopsSound, Pollers
  <2>5. RequestsSound(app', phase', request', drainTimedOut')
    BY <1>3 DEF RequestsSound, RunningOf, Pollers
  <2> QED BY <2>1, <2>3, <2>4, <2>5
<1>4. CASE ApiDestroysProviders
  <2> DEFINE T == {r \in RunningOf(request) : ~db' \/ redis' = "end"}
  <2>1. request' = [r \in HttpRequests |-> IF r \in T THEN "stranded" ELSE request[r]]
    BY <1>1, <1>4 DEF ApiDestroysProviders
  <2>2. T \in SUBSET RunningOf(request) /\ (RunningOf(request) # {} => drainTimedOut)
    BY <1>4 DEF ApiDestroysProviders, RequestsSound, RunningOf
  <2>3. /\ app \in {"api", "web"} /\ phase' \in {"disposing", "exiting"} /\ phase = "closing"
        /\ UNCHANGED <<app, shuttingDown, loop, inFlight, gaugeTimer, probe, drainTimedOut>>
        /\ db' \in BOOLEAN /\ redis' \in {"wait", "connecting", "ready", "end"} /\ drainTimedOut \in BOOLEAN
    BY <1>4 DEF ApiDestroysProviders, LifecycleTypeOK
  <2> HIDE DEF T, LifecycleInv
  <2> QED BY <1>3, <2>1, <2>2, <2>3
<1>5. CASE ApiExits \/ WebExits
  <2>1. request' = [r \in HttpRequests |-> IF r \in RunningOf(request) THEN "torn" ELSE request[r]]
    BY <1>1, <1>5 DEF ApiExits, WebExits, Cut
  <2>2. /\ RunningOf(request) # {} => drainTimedOut'
        /\ drainTimedOut => drainTimedOut'
    BY <1>1, <1>5 DEF ApiExits, WebExits, RequestsSound, RunningOf
  <2>3. /\ app \in {"api", "web"} /\ phase' = "exited" /\ phase \in {"exiting", "draining"}
        /\ UNCHANGED <<app, shuttingDown, loop, inFlight, gaugeTimer, probe>>
        /\ db' \in BOOLEAN /\ redis' \in {"wait", "connecting", "ready", "end"} /\ drainTimedOut' \in BOOLEAN
    BY <1>5 DEF ApiExits, WebExits, LifecycleTypeOK
  <2> HIDE DEF LifecycleInv
  <2> QED BY <1>3, <2>1, <2>2, <2>3
<1> QED BY <1>2, <1>4, <1>5

\* A request arrives or ends.
LEMMA RequestsKeep ==
  ASSUME LifecycleInv, NEW r \in HttpRequests, RequestArrives(r) \/ RequestEnds(r)
  PROVE  LifecycleInv'
<1> USE DEF LifecycleInv
<1>1. /\ UNCHANGED <<app, phase, shuttingDown, loop, db, redis, gaugeTimer, probe, drainTimedOut>>
      /\ \/ request[r] = "none" /\ phase = "serving" /\ app \notin Pollers
            /\ request' = [request EXCEPT ![r] = "running"]
         \/ r \in RunningOf(request) /\ request' = [request EXCEPT ![r] = "done"]
  BY DEF RequestArrives, RequestEnds, Pollers, Unanswered, RunningOf
<1>2. GaugeSound(request', inFlight')
  <2>1. CASE RequestArrives(r)
    BY <2>1, ArrivalCounts DEF RequestArrives
  <2>2. CASE RequestEnds(r)
    <3>1. r \in RunningOf(request)
      BY <2>2 DEF RequestEnds, Unanswered, RunningOf
    <3> QED BY <2>2, <3>1, EndDiscounts DEF RequestEnds
  <2> QED BY <2>1, <2>2
<1>3. inFlight' \in 0..Cardinality(HttpRequests)
  BY <1>2, GaugeBounds
<1>4. LifecycleTypeOK'
  BY <1>1, <1>2, <1>3 DEF LifecycleTypeOK, GaugeSound
<1>5. LoopsSound(app', phase', loop', db')
  BY <1>1
<1>6. request \in [HttpRequests -> {"none", "running", "stranded", "torn", "done"}]
  BY DEF LifecycleTypeOK
<1>7. RequestsSound(app', phase', request', drainTimedOut')
  <2>1. CASE request[r] = "none" /\ phase = "serving" /\ app \notin Pollers
             /\ request' = [request EXCEPT ![r] = "running"]
    BY <1>1, <1>6, <2>1 DEF RequestsSound, BegunOf, RunningOf
  <2>2. CASE r \in RunningOf(request) /\ request' = [request EXCEPT ![r] = "done"]
    <3>1. BegunOf(request') = BegunOf(request)
      BY <1>6, <2>2 DEF BegunOf, RunningOf
    <3> QED BY <1>1, <1>6, <2>2, <3>1 DEF RequestsSound, RunningOf
  <2> QED BY <1>1, <2>1, <2>2
<1> QED BY <1>2, <1>4, <1>5, <1>7

\* Redis, the probes, and signals.
LEMMA AroundKeeps ==
  ASSUME LifecycleInv,
         \/ RedisConnects \/ RedisRefuses \/ RedisDrops
         \/ OpsReadyAsked \/ OpsReadyAnswers \/ ApiReady \/ Shutdown \/ StartupFails
  PROVE  LifecycleInv'
<1> USE DEF LifecycleInv
<1>1. CASE RedisConnects \/ RedisDrops \/ OpsReadyAsked \/ OpsReadyAnswers \/ ApiReady
  <2>1. UNCHANGED <<app, phase, loop, request, inFlight, db, drainTimedOut>>
    BY <1>1 DEF RedisConnects, RedisDrops, OpsReadyAsked, OpsReadyAnswers, ApiReady
  <2>2. LifecycleTypeOK'
    BY <1>1 DEF RedisConnects, RedisDrops, OpsReadyAsked, OpsReadyAnswers, ApiReady, LifecycleTypeOK
  <2> QED BY <2>1, <2>2
<1>2. CASE RedisRefuses \/ StartupFails
  <2>1. /\ UNCHANGED <<app, loop, request, inFlight, db, drainTimedOut>> /\ phase' = "exited"
        /\ phase \in {"starting", "created", "initialising"}
    BY <1>2 DEF RedisRefuses, StartupFails
  <2>2. LifecycleTypeOK'
    BY <1>2 DEF RedisRefuses, StartupFails, LifecycleTypeOK
  <2>3. LoopsSound(app, phase', loop, db')
    BY <2>1 DEF LoopsSound
  <2>4. RequestsSound(app, phase', request, drainTimedOut')
    BY <2>1 DEF RequestsSound, BegunOf, RunningOf
  <2> QED BY <2>1, <2>2, <2>3, <2>4
<1>3. CASE Shutdown
  <2>1. /\ UNCHANGED <<app, loop, request, inFlight, db, drainTimedOut>>
        /\ phase' = IF app \in Pollers THEN phase ELSE "draining"
        /\ phase \in {"initialising", "serving"}
    BY <1>3 DEF Shutdown
  <2>2. LifecycleTypeOK'
    <3>1. gaugeTimer' \in BOOLEAN
      BY <1>3 DEF Shutdown
    <3> QED BY <1>3, <3>1 DEF Shutdown, LifecycleTypeOK
  <2>3. LoopsSound(app, phase', loop, db')
    BY <2>1 DEF LoopsSound
  <2>4. RequestsSound(app, phase', request, drainTimedOut')
    BY <2>1 DEF RequestsSound
  <2> QED BY <2>1, <2>2, <2>3, <2>4
<1> QED BY <1>1, <1>2, <1>3

\* The invariant holds of a process that has not started.
LEMMA LifecycleInitInv == LifecycleInit => LifecycleInv
<1> SUFFICES ASSUME LifecycleInit PROVE LifecycleInv
  OBVIOUS
<1>1. RunningOf(request) = {} /\ BegunOf(request) = {} /\ Cardinality({}) = 0
  BY FS_EmptySet DEF LifecycleInit, RunningOf, BegunOf
<1>2. GaugeSound(request, inFlight)
  BY <1>1 DEF LifecycleInit, GaugeSound
<1>3. inFlight \in 0..Cardinality(HttpRequests)
  BY <1>2, GaugeBounds
<1>4. LifecycleTypeOK
  BY <1>3 DEF LifecycleInit, LifecycleTypeOK
<1> QED BY <1>1, <1>2, <1>4 DEF LifecycleInit, LifecycleInv, LoopsSound, RequestsSound

\* Every step keeps it.
LEMMA LifecycleStepInv == LifecycleInv /\ [LifecycleNext]_lifecycleVars => LifecycleInv'
<1> SUFFICES ASSUME LifecycleInv, [LifecycleNext]_lifecycleVars PROVE LifecycleInv'
  OBVIOUS
<1>1. CASE UNCHANGED lifecycleVars
  BY <1>1 DEF lifecycleVars, LifecycleInv, LifecycleTypeOK
<1>2. CASE LifecycleNext
  BY <1>2, PollerKeeps, LoopKeeps, StartsKeep, DrainsKeep, RequestsKeep, AroundKeeps
     DEF LifecycleNext, ProcessStep
<1> QED BY <1>1, <1>2

\* The safety half of DrainsCleanly; the invariant implies it.
NothingCutOff == TicksConnected /\ TornByTimeout

\* The invariant says that nothing is cut off.
LEMMA CutOffFromInv == LifecycleInv => NothingCutOff
<1> SUFFICES ASSUME LifecycleInv PROVE NothingCutOff
  OBVIOUS
<1>1. \A l \in DOMAIN loop : loop[l] = "tick" => db
  BY DEF LifecycleInv, LifecycleTypeOK, LoopsSound
<1>2. \A r \in HttpRequests : request[r] \in {"stranded", "torn"} => drainTimedOut
  BY DEF LifecycleInv, RequestsSound
<1> QED BY <1>1, <1>2 DEF NothingCutOff, TicksConnected, TornByTimeout

\* For any networks and any number of requests: no tick runs on a database
\* that is gone, and no request is cut off unless the drain timed out.
THEOREM ShutdownCutsNothingOff == LifecycleSpec => []NothingCutOff
BY CutOffFromInv, LifecycleInitInv, LifecycleStepInv, PTL DEF LifecycleSpec

-----------------------------------------------------------------------------
(* The services together.  They share no state, so a step of all of them   *)
(* is a step of each or leaves it alone, and what was proved of each holds *)
(* of them together.                                                       *)

\* Calls and polling keep the node's invariant, one or the other.
LEMMA NodeStepInv == NodeInv /\ [AdapterCallNext \/ PollNext]_adapterVars => NodeInv'
BY NodeCallStep, NodePollStep

\* Every service begins in one of its own initial states.
LEMMA ServicesBegin ==
  ServicesInit => /\ service \in Services
                  /\ SigningInit /\ SessionsInit /\ AccessInit /\ IdempotencyInit /\ RateInit /\ AdapterInit
                  /\ FxInit /\ LedgerInit /\ BackOfficeInit /\ LifecycleInit
BY DEF ServicesInit

\* A step of the services is, for each of them, its own step or none.
LEMMA ServicesMove ==
  ASSUME [ServicesNext]_servicesVars
  PROVE  /\ UNCHANGED service
         /\ [SigningNext]_signingVars /\ [SessionsNext]_sessionVars /\ [AccessNext]_accessVars
         /\ [IdempotencyNext]_idempotencyVars /\ [RateNext]_rateVars
         /\ [AdapterCallNext \/ PollNext]_adapterVars /\ [FxNext]_fxVars
         /\ [LedgerNext]_ledgerVars /\ [BackOfficeNext]_boVars /\ [LifecycleNext]_lifecycleVars
<1> USE DEF restOfSigning, restOfAccess, accountVars, guardVars, moneyVars
<1>1. CASE UNCHANGED servicesVars
  BY <1>1 DEF servicesVars
<1>2. CASE ServicesNext
  BY <1>2 DEF ServicesNext
<1> QED BY <1>1, <1>2

\* Every service's state stays in its types, in any of them and whichever of
\* them moves, for any constants.
THEOREM ServicesKeepTypes == ServicesSpec => []ServicesTypeOK
<1> DEFINE Inv == /\ service \in Services
                  /\ SigningInv /\ SessionsInv /\ AccessInv /\ IdempotencyInv /\ RateInv
                  /\ NodeInv /\ FxTypeInv /\ LedgerInv /\ BackOfficeInv /\ LifecycleInv
<1>1. ServicesInit => Inv
  BY ServicesBegin, SigningInitInv, SessionsInitInv, AccessInitInv, IdempotencyInitInv, RateInitInv,
     NodeInitInv, FxTypeInit, LedgerInitInv, BackOfficeInitInv, LifecycleInitInv
<1>2. Inv /\ [ServicesNext]_servicesVars => Inv'
  BY ServicesMove, SigningStepInv, SessionsStepInv, AccessStepInv, IdempotencyStepInv, RateStepInv,
     NodeStepInv, FxTypeStep, LedgerStepInv, BackOfficeStepInv, LifecycleStepInv
<1>3. Inv => ServicesTypeOK
  <2>1. SessionsInv => SessionsTypeOK
    BY DEF SessionsInv, SessionsTypes
  <2>2. AccessInv => AccessTypeOK
    BY DEF AccessInv, AccessTypes
  <2>3. IdempotencyInv => IdempotencyTypeOK
    BY DEF IdempotencyInv, IdemTypes
  <2>4. RateInv => RateTypeOK
    BY DEF RateInv
  <2>5. FxTypeInv => FxTypeOK
    BY DEF FxTypeInv
  <2>6. LifecycleInv => LifecycleTypeOK
    BY DEF LifecycleInv
  <2> QED BY <2>1, <2>2, <2>3, <2>4, <2>5, <2>6, SigningInvTypes, NodeTyped, LedgerTyped, BackOfficeTyped
          DEF ServicesTypeOK
<1> HIDE DEF Inv
<1> QED BY <1>1, <1>2, <1>3, PTL DEF ServicesSpec

\* What each service promises, it promises beside the others: every safety
\* property proved of a component holds of the services together.
THEOREM ServicesKeepPromises ==
  ServicesSpec =>
    /\ [](SignatureHasQuorum /\ SignedIsAccounted /\ CookieIsLive /\ OwnerRemains /\ OneEffectPerKey)
    /\ [](BurstBounded /\ AnswersAreTrue /\ DiscoveryComplete /\ PriceIsFresh /\ PricedInFull)
    /\ [](AlarmsAreExact /\ PagesComplete /\ NothingCutOff)
    /\ PromotedByOwner /\ RetryAfterKept
<1>1. [ServicesNext]_servicesVars =>
        /\ [SigningNext]_signingVars /\ [SessionsNext]_sessionVars /\ [AccessNext]_accessVars
        /\ [IdempotencyNext]_idempotencyVars /\ [RateNext]_rateVars
        /\ [AdapterCallNext \/ PollNext]_adapterVars /\ [FxNext]_fxVars
        /\ [LedgerNext]_ledgerVars /\ [BackOfficeNext]_boVars /\ [LifecycleNext]_lifecycleVars
  BY ServicesMove
<1>2. NodeInv => AnswersAreTrue /\ DiscoveryComplete
  BY AnswersFromInv, DiscoveryFromInv DEF NodeInv
<1>3. LifecycleInv => NothingCutOff
  BY CutOffFromInv
<1>4. ServicesSpec => [](SignatureHasQuorum /\ SignedIsAccounted)
  BY <1>1, ServicesBegin, NoSignatureBelowQuorum, SignedMeansAccounted, PTL DEF ServicesSpec
<1>5. ServicesSpec => [](CookieIsLive /\ OwnerRemains /\ OneEffectPerKey) /\ PromotedByOwner
  BY <1>1, ServicesBegin, TabsDoNotLogOut, OwnerStays, OneInvoicePerKey, OwnersMakeOwners, PTL DEF ServicesSpec
<1>6. ServicesSpec => []BurstBounded /\ RetryAfterKept
  BY <1>1, ServicesBegin, BurstsAreBounded, ComeBackWhenTold, PTL DEF ServicesSpec
<1>7. ServicesSpec => [](PriceIsFresh /\ PricedInFull)
  BY <1>1, ServicesBegin, PricesAreFresh, PricesAreFull, PTL DEF ServicesSpec
<1>8. ServicesSpec => [](AnswersAreTrue /\ DiscoveryComplete)
  BY <1>1, <1>2, ServicesBegin, NodeInitInv, NodeStepInv, PTL DEF ServicesSpec
<1>9. ServicesSpec => [](AlarmsAreExact /\ PagesComplete)
  BY <1>1, ServicesBegin, ReconciliationIsExact, ListsAreComplete, PTL DEF ServicesSpec, LedgerSpec, BackOfficeSpec
<1>10. ServicesSpec => []NothingCutOff
  BY <1>1, <1>3, ServicesBegin, LifecycleInitInv, LifecycleStepInv, PTL DEF ServicesSpec
<1> QED BY <1>4, <1>5, <1>6, <1>7, <1>8, <1>9, <1>10, PTL
=============================================================================
