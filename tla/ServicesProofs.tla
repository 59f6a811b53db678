---------------------------- MODULE ServicesProofs ---------------------------
(***************************************************************************)
(* Proofs about four services at the gateway's edges: the rate limiter,    *)
(* the pricing of invoices, the chain adapters and the back office's       *)
(* lists.  Each is proved of its component alone; the services share no    *)
(* state.  The induction rules the proofs need come first.                 *)
(***************************************************************************)
EXTENDS RateLimiter, ExchangeRates, ChainAdapters, BackOffice, FiniteSetTheorems, SequenceTheorems,
        WellFoundedInduction, TLAPS

-----------------------------------------------------------------------------
(* Induction over numbers and finite sets.  The library's induction rules  *)
(* take a predicate; here a set takes its place.                           *)

\* < is well founded on the natural numbers.
LEMMA LessIsWellFounded ==
  \E R : IsWellFoundedOn(R, Nat) /\ \A a, b \in Nat : a < b => <<a, b>> \in R
<1>1. \A a, b \in Nat : a < b => <<a, b>> \in OpToRel(<, Nat)
  BY DEF OpToRel
<1> QED BY <1>1, NatLessThanWellFounded, Zenon

\* A set of numbers that is not empty has a smallest one.
LEMMA SmallestNumber ==
  ASSUME NEW U, U \subseteq Nat, U # {}
  PROVE  \E n \in U : \A m \in U : ~(m < n)
<1>1. PICK R : IsWellFoundedOn(R, Nat) /\ \A a, b \in Nat : a < b => <<a, b>> \in R
  BY LessIsWellFounded, Zenon
<1>2. IsWellFoundedOn(R, Nat)
  BY <1>1
<1>3. PICK n \in U : \A m \in U : ~(<<m, n>> \in R)
  BY <1>2, WFMin, Zenon
<1> QED BY <1>1, <1>3

\* A set of numbers that a number is in when all smaller ones are, is Nat.
LEMMA NumbersByInduction ==
  ASSUME NEW T \in SUBSET Nat, \A n \in Nat : (\A m \in Nat : m < n => m \in T) => n \in T
  PROVE  T = Nat
<1> SUFFICES ASSUME Nat \ T # {} PROVE FALSE
  OBVIOUS
<1>1. PICK n \in Nat \ T : \A m \in Nat \ T : ~(m < n)
  BY SmallestNumber
<1> QED BY <1>1

\* A set of subsets of a finite set that a subset is in when all smaller ones
\* are, holds all of them.
LEMMA SubsetsByInduction ==
  ASSUME NEW S, IsFiniteSet(S), NEW F \in SUBSET SUBSET S,
         \A s \in SUBSET S :
           (\A t \in SUBSET S : Cardinality(t) < Cardinality(s) => t \in F) => s \in F
  PROVE  F = SUBSET S
<1> DEFINE T == {n \in Nat : \A s \in SUBSET S : Cardinality(s) = n => s \in F}
<1>1. \A s \in SUBSET S : Cardinality(s) \in Nat
  BY FS_Subset, FS_CardinalityType
<1>2. ASSUME NEW n \in Nat, \A m \in Nat : m < n => m \in T
      PROVE  n \in T
  BY <1>1, <1>2
<1>3. T \in SUBSET Nat
  OBVIOUS
<1> HIDE DEF T
<1>4. T = Nat
  BY <1>2, <1>3, NumbersByInduction
<1> QED BY <1>1, <1>4 DEF T

-----------------------------------------------------------------------------
(* Rate limiter                                                            *)

\* When the window that runs began (now, without one), and how many of its
\* requests were let through.
WindowStart(clock, count, ttl) == IF count = 0 THEN clock ELSE clock + ttl - windowTicks
InWindow(count) == IF count < rateLimit THEN count ELSE rateLimit

\* What was let through before the window that runs came before its start, and
\* all but the last `rateLimit` of that more than a window before.
LogSound(log, clock, count, ttl) ==
  /\ log \in Seq(0..MaxRateClock)
  /\ \A j \in DOMAIN log :
       /\ log[j] <= clock
       /\ j <= Len(log) - InWindow(count) => log[j] < WindowStart(clock, count, ttl)
       /\ j <= Len(log) - InWindow(count) - rateLimit
          => log[j] + windowTicks < WindowStart(clock, count, ttl)

\* The key lives as long as it counts, a promise that is still to come is for
\* the end of the window that runs, and the requests let through are spread
\* over the windows.
RateInv ==
  /\ RateTypeOK /\ ratePromises \subseteq Nat
  /\ rateTtl = 0 <=> rateCount = 0
  /\ \A p \in ratePromises : p > rateClock => p = rateClock + rateTtl
  /\ LogSound(rateAllowed, rateClock, rateCount, rateTtl)
  /\ BurstBounded

\* The invariant holds without a key.
LEMMA RateInitInv == RateInit => RateInv
BY RateLimitConstants DEF RateInit, RateInv, RateTypeOK, RateLimitConstants, LogSound, BurstBounded

\* A request is counted, and let through or refused.
LEMMA ConsumeKeeps ==
  ASSUME RateInv, Consume
  PROVE  RateInv'
<1> USE RateLimitConstants DEF RateLimitConstants
<1>1. /\ rateClock \in 0..MaxRateClock /\ rateCount \in 0..MaxHits /\ rateTtl \in 0..windowTicks
      /\ rateAllowed \in Seq(0..MaxRateClock) /\ ratePromises \subseteq Nat
      /\ LogSound(rateAllowed, rateClock, rateCount, rateTtl) /\ BurstBounded
  BY DEF RateInv, RateTypeOK
<1>2. /\ rateCount' = rateCount + 1 /\ rateCount < MaxHits /\ rateClock' = rateClock
      /\ rateTtl' = IF rateCount = 0 THEN windowTicks ELSE rateTtl
  BY DEF Consume, FixedWindowCount, FixedWindowTtl
<1>3. rateTtl' \in 1..windowTicks
  BY <1>1, <1>2 DEF RateInv
<1>4. \A p \in ratePromises : p > rateClock => p = rateClock + rateTtl'
  BY <1>1, <1>2 DEF RateInv
<1>5. \/ /\ rateCount < rateLimit
         /\ rateAllowed' = Append(rateAllowed, rateClock) /\ ratePromises' = ratePromises
      \/ /\ rateCount >= rateLimit
         /\ rateAllowed' = rateAllowed /\ ratePromises' = ratePromises \cup {rateClock + rateTtl'}
  BY <1>1, <1>2, <1>3 DEF Consume, RetryAfter, FixedWindowTtl, WithinLimit, FixedWindowCount
<1>6. /\ ratePromises' \subseteq Nat
      /\ \A p \in ratePromises' : p > rateClock => p = rateClock + rateTtl'
  <2>0. rateClock \in Nat /\ rateTtl' \in Nat
    BY <1>1, <1>3
  <2>1. rateClock + rateTtl' \in Nat
    <3>1. \A a, b \in Nat : a + b \in Nat
      OBVIOUS
    <3> QED
      BY <2>0, <3>1
  <2>2. \A p \in ratePromises' : p \in ratePromises \/ p = rateClock + rateTtl'
    BY <1>5
  <2> QED
    BY <1>1, <1>4, <2>1, <2>2
<1>7. LogSound(rateAllowed', rateClock', rateCount', rateTtl') /\ BurstBounded'
  <2>1. WindowStart(rateClock', rateCount', rateTtl') = WindowStart(rateClock, rateCount, rateTtl)
    BY <1>1, <1>2 DEF WindowStart
  <2>2. WindowStart(rateClock, rateCount, rateTtl) \in Int
    BY <1>1 DEF WindowStart
  <2>3. WindowStart(rateClock, rateCount, rateTtl) <= rateClock
    BY <1>1 DEF WindowStart
  <2>4. CASE rateCount >= rateLimit
    <3>1. InWindow(rateCount') = InWindow(rateCount) /\ rateAllowed' = rateAllowed
      BY <1>1, <1>2, <1>5, <2>4 DEF InWindow
    <3> QED
      BY <1>1, <1>2, <2>1, <3>1 DEF LogSound, BurstBounded
  <2>5. CASE rateCount < rateLimit
    <3> DEFINE n == Len(rateAllowed)
    <3>1. /\ InWindow(rateCount) = rateCount /\ InWindow(rateCount') = rateCount + 1
          /\ rateAllowed' = Append(rateAllowed, rateClock)
      BY <1>1, <1>2, <1>5, <2>5 DEF InWindow
    <3>2. /\ rateAllowed' \in Seq(0..MaxRateClock) /\ Len(rateAllowed') = n + 1 /\ n \in Nat
          /\ DOMAIN rateAllowed = 1..n /\ DOMAIN rateAllowed' = 1..n + 1
          /\ \A j \in 1..n : rateAllowed'[j] = rateAllowed[j] /\ rateAllowed[j] \in Nat
          /\ rateAllowed'[n + 1] = rateClock
      BY <1>1, <3>1
    <3> HIDE DEF n
    <3>3. ASSUME NEW j \in 1..n + 1
          PROVE  /\ rateAllowed'[j] <= rateClock
                 /\ j <= n + 1 - (rateCount + 1) => rateAllowed'[j] < WindowStart(rateClock, rateCount, rateTtl)
                 /\ j <= n + 1 - (rateCount + 1) - rateLimit
                    => rateAllowed'[j] + windowTicks < WindowStart(rateClock, rateCount, rateTtl)
      <4>1. CASE j = n + 1
        BY <1>1, <3>2, <4>1
      <4>2. CASE j \in 1..n
        <5>1. /\ rateAllowed[j] <= rateClock
              /\ j <= n - rateCount => rateAllowed[j] < WindowStart(rateClock, rateCount, rateTtl)
              /\ j <= n - rateCount - rateLimit
                 => rateAllowed[j] + windowTicks < WindowStart(rateClock, rateCount, rateTtl)
          BY <1>1, <3>1, <3>2, <4>2 DEF LogSound, n
        <5> QED BY <1>1, <3>2, <4>2, <5>1
      <4> QED BY <3>2, <4>1, <4>2
    <3>4. LogSound(rateAllowed', rateClock', rateCount', rateTtl')
      <4> DEFINE log == rateAllowed'
                 k == InWindow(rateCount')
                 s == WindowStart(rateClock', rateCount', rateTtl')
      <4>1. /\ log \in Seq(0..MaxRateClock) /\ Len(log) = n + 1 /\ DOMAIN log = 1..n + 1
            /\ k = rateCount + 1 /\ s = WindowStart(rateClock, rateCount, rateTtl)
        BY <2>1, <3>1, <3>2
      <4>2. \A j \in 1..n + 1 :
              /\ log[j] <= rateClock'
              /\ j <= Len(log) - k => log[j] < s
              /\ j <= Len(log) - k - rateLimit => log[j] + windowTicks < s
        <5>1. /\ Len(log) - k = n + 1 - (rateCount + 1)
              /\ Len(log) - k - rateLimit = n + 1 - (rateCount + 1) - rateLimit
          BY <1>1, <3>2, <4>1
        <5>2. \A j \in 1..n + 1 :
                /\ log[j] <= rateClock
                /\ j <= n + 1 - (rateCount + 1) => log[j] < s
                /\ j <= n + 1 - (rateCount + 1) - rateLimit => log[j] + windowTicks < s
          BY <3>3, <4>1
        <5> QED BY <1>2, <5>1, <5>2
      <4> HIDE DEF log, k, s
      <4>3. log \in Seq(0..MaxRateClock) /\ \A j \in DOMAIN log :
              /\ log[j] <= rateClock'
              /\ j <= Len(log) - k => log[j] < s
              /\ j <= Len(log) - k - rateLimit => log[j] + windowTicks < s
        BY <4>1, <4>2
      <4> QED BY <4>3 DEF LogSound, log, k, s
    <3>5. ASSUME NEW i \in 1..n + 1, NEW j \in 1..n + 1, j = i + 2 * rateLimit
          PROVE  rateAllowed'[j] - rateAllowed'[i] > windowTicks
      <4>1. CASE j \in 1..n
        <5>1. i \in 1..n
          BY <3>2, <3>5, <4>1
        <5> QED BY <1>1, <3>2, <3>5, <4>1, <5>1 DEF BurstBounded
      <4>2. CASE j = n + 1
        <5>1. i <= n + 1 - (rateCount + 1) - rateLimit /\ i \in 1..n
          BY <1>1, <2>5, <3>2, <3>5, <4>2
        <5>2. rateAllowed'[i] + windowTicks < WindowStart(rateClock, rateCount, rateTtl)
          BY <3>3, <5>1
        <5>3. rateAllowed'[i] \in Nat /\ rateClock \in Nat
          BY <1>1, <3>2, <5>1
        <5> QED BY <2>2, <2>3, <3>2, <4>2, <5>2, <5>3
      <4> QED BY <3>2, <4>1, <4>2
    <3> QED
      BY <3>2, <3>4, <3>5 DEF BurstBounded
  <2> QED
    BY <1>1, <2>4, <2>5
<1> QED
  BY <1>1, <1>2, <1>3, <1>6, <1>7 DEF RateInv, RateTypeOK, LogSound

\* A second passes.
LEMMA RateTickKeeps ==
  ASSUME RateInv, RateTick
  PROVE  RateInv'
<1> USE RateLimitConstants DEF RateLimitConstants
<1>1. /\ rateClock \in 0..MaxRateClock /\ rateCount \in 0..MaxHits /\ rateTtl \in 0..windowTicks
      /\ rateAllowed \in Seq(0..MaxRateClock) /\ ratePromises \subseteq Nat
      /\ rateTtl = 0 <=> rateCount = 0
      /\ \A p \in ratePromises : p > rateClock => p = rateClock + rateTtl
      /\ LogSound(rateAllowed, rateClock, rateCount, rateTtl) /\ BurstBounded
  BY DEF RateInv, RateTypeOK
<1>2. /\ rateClock < MaxRateClock /\ rateClock' = rateClock + 1
      /\ rateTtl' = IF rateTtl > 0 THEN rateTtl - 1 ELSE 0
      /\ rateCount' = IF rateTtl <= 1 THEN 0 ELSE rateCount
      /\ rateAllowed' = rateAllowed /\ ratePromises' = ratePromises
  BY DEF RateTick
<1>3. RateTypeOK' /\ (rateTtl' = 0 <=> rateCount' = 0)
  BY <1>1, <1>2 DEF RateTypeOK
<1>4. \A p \in ratePromises' : p > rateClock' => p = rateClock' + rateTtl'
  BY <1>1, <1>2
<1>5. LogSound(rateAllowed', rateClock', rateCount', rateTtl')
  <2> DEFINE n == Len(rateAllowed)
             s == WindowStart(rateClock, rateCount, rateTtl)
             t == WindowStart(rateClock', rateCount', rateTtl')
  <2>1. n \in Nat /\ DOMAIN rateAllowed = 1..n /\ \A j \in 1..n : rateAllowed[j] \in Nat
    BY <1>1
  <2>2. s \in Int /\ t \in Int
    BY <1>1, <1>2 DEF WindowStart
  <2> SUFFICES ASSUME NEW j \in 1..n
               PROVE  /\ rateAllowed[j] <= rateClock'
                      /\ j <= n - InWindow(rateCount') => rateAllowed[j] < t
                      /\ j <= n - InWindow(rateCount') - rateLimit => rateAllowed[j] + windowTicks < t
    BY <1>1, <1>2, <2>1 DEF LogSound
  <2>3. /\ rateAllowed[j] <= rateClock /\ rateAllowed[j] \in Nat
        /\ j <= n - InWindow(rateCount) => rateAllowed[j] < s
        /\ j <= n - InWindow(rateCount) - rateLimit => rateAllowed[j] + windowTicks < s
    BY <1>1, <2>1 DEF LogSound
  <2>4. InWindow(rateCount) \in 0..rateLimit
    BY <1>1 DEF InWindow
  <2>5. CASE rateCount = 0
    <3>1. t = s + 1 /\ rateCount' = 0
      BY <1>1, <1>2, <2>5 DEF WindowStart
    <3> HIDE DEF n, s, t
    <3> QED BY <1>1, <1>2, <2>1, <2>2, <2>3, <2>4, <2>5, <3>1
  <2>6. CASE rateCount > 0 /\ rateTtl <= 1
    <3>1. t = rateClock + 1 /\ t = s + windowTicks /\ InWindow(rateCount') = 0
      BY <1>1, <1>2, <2>6 DEF WindowStart, InWindow
    <3>2. rateClock \in Nat /\ rateLimit \in Nat /\ windowTicks \in Nat /\ rateClock' = rateClock + 1
      BY <1>1, <1>2
    <3> HIDE DEF n, s, t
    <3>3. rateAllowed[j] <= rateClock' /\ rateAllowed[j] < t
      BY <2>3, <3>1, <3>2
    <3>4. ASSUME j <= n - InWindow(rateCount') - rateLimit PROVE rateAllowed[j] + windowTicks < t
      <4>1. j <= n - InWindow(rateCount)
        BY <2>1, <2>4, <3>1, <3>2, <3>4
      <4> QED BY <2>2, <2>3, <3>1, <3>2, <4>1
    <3> QED BY <3>3, <3>4
  <2>7. CASE rateCount > 0 /\ rateTtl > 1
    <3>1. t = s /\ rateCount' = rateCount
      BY <1>1, <1>2, <2>7 DEF WindowStart
    <3> HIDE DEF n, s, t
    <3> QED BY <1>1, <1>2, <2>1, <2>2, <2>3, <2>4, <3>1
  <2> QED BY <1>1, <2>5, <2>6, <2>7
<1>6. BurstBounded'
  BY <1>1, <1>2 DEF BurstBounded
<1> QED
  BY <1>1, <1>2, <1>3, <1>4, <1>5, <1>6 DEF RateInv

\* Every step keeps the invariant.
LEMMA RateStepInv == RateInv /\ [RateNext]_rateVars => RateInv'
<1>1. ASSUME RateInv, UNCHANGED rateVars PROVE RateInv'
  BY <1>1 DEF RateInv, RateTypeOK, rateVars, BurstBounded, LogSound
<1> QED
  BY <1>1, ConsumeKeeps, RateTickKeeps DEF RateNext

\* For any limit and window: a refused caller who comes back when the
\* Retry-After header says finds the window over, whatever hits came since.
THEOREM ComeBackWhenTold == RateInit /\ [][RateNext]_rateVars => RetryAfterKept
<1>1. ASSUME RateInv, [RateNext]_rateVars
      PROVE  rateClock' # rateClock /\ rateClock' \in ratePromises => rateCount' = 0
  <2> SUFFICES ASSUME rateClock' # rateClock, rateClock' \in ratePromises PROVE rateCount' = 0
    OBVIOUS
  <2>1. RateTick
    BY <1>1 DEF RateNext, Consume, rateVars
  <2>2. /\ rateClock' = rateClock + 1
        /\ rateCount' = IF rateTtl <= 1 THEN 0 ELSE rateCount
    BY <2>1 DEF RateTick
  <2>3. rateClock \in Nat /\ rateTtl \in Nat
    BY <1>1, RateLimitConstants DEF RateInv, RateTypeOK, RateLimitConstants
  <2>4. rateClock + 1 = rateClock + rateTtl
    BY <1>1, <2>2, <2>3 DEF RateInv
  <2> QED
    BY <2>2, <2>3, <2>4
<1> QED
  BY <1>1, RateInitInv, RateStepInv, PTL DEF RetryAfterKept

\* For any limit and window: no stretch of time as long as the window lets
\* more than twice the limit through, wherever the windows begin.
THEOREM BurstsAreBounded == RateInit /\ [][RateNext]_rateVars => []BurstBounded
<1>1. RateInv => BurstBounded
  BY DEF RateInv
<1> QED
  BY <1>1, RateInitInv, RateStepInv, PTL

-----------------------------------------------------------------------------
(* Exchange rates and pricing                                              *)

CallsHaveShape == fxCall = [c \in FxCalls |-> fxCall[c]]

FreshInv == CallsHaveShape /\ PriceIsFresh

\* What each step makes of the call c: it stays, it is answered, it waits, or
\* it is priced from a rate that assertFresh let through, the one cached or
\* the one that has just come in.
FxStays(c) == fxCall'[c] = fxCall[c]
FxEnds(c) == fxCall'[c].pc \in {"idle", "refused"}
FxWaits(c) ==
  \E amount \in Amounts : AmountAccepted(amount) /\ fxCall'[c] = [pc |-> "waiting", amount |-> amount]
FxPrices(c, amount, rate) == assertFresh(rate) /\ fxCall'[c] = PriceInvoice(amount, rate)
FxPricesCached(c) ==
  \E amount \in Amounts :
    AmountAccepted(amount) /\ fxCache # NoRate /\ FxPrices(c, amount, fxCache)
FxPricesFetched(c, rate) == fxCall[c].pc = "waiting" /\ FxPrices(c, fxCall[c].amount, rate)

FetchedRate(price) ==
  [numerator |-> parseUnits(price, RATE_SCALE), observedAt |-> fxNow, cachedAt |-> fxNow]

\* Every step is of that kind for every call.
LEMMA FxCases ==
  ASSUME CallsHaveShape, [FxNext]_fxVars
  PROVE  /\ CallsHaveShape'
         /\ \/ /\ UNCHANGED fxCache
               /\ \A c \in FxCalls : FxStays(c) \/ FxEnds(c) \/ FxWaits(c) \/ FxPricesCached(c)
            \/ \E price \in Prices :
                 /\ UsablePrice(price) /\ fxCache' = FetchedRate(price)
                 /\ \A c \in FxCalls : FxStays(c) \/ FxPricesFetched(c, FetchedRate(price))
<1> USE DEF CallsHaveShape
<1>1. CASE UNCHANGED fxVars
  BY <1>1 DEF fxVars, FxStays
<1>2. ASSUME NEW d \in FxCalls, FxAnswered(d)
      PROVE  /\ CallsHaveShape' /\ UNCHANGED fxCache
             /\ \A c \in FxCalls : FxStays(c) \/ FxEnds(c)
  <2>1. fxCall' = [fxCall EXCEPT ![d] = IdleFxCall] /\ UNCHANGED fxCache
    BY <1>2 DEF FxAnswered
  <2> QED
    BY <2>1 DEF FxStays, FxEnds, IdleFxCall
<1>3. ASSUME NEW d \in FxCalls, NEW amount \in Amounts, GetRate(d, amount)
      PROVE  /\ CallsHaveShape' /\ UNCHANGED fxCache
             /\ \A c \in FxCalls : FxStays(c) \/ FxEnds(c) \/ FxWaits(c) \/ FxPricesCached(c)
  <2>0. AmountAccepted(amount) /\ UNCHANGED fxCache
    BY <1>3 DEF GetRate
  <2>1. CASE Cached /\ assertFresh(fxCache)
    <3>1. fxCall' = [fxCall EXCEPT ![d] = PriceInvoice(amount, fxCache)]
      BY <1>3, <2>1 DEF GetRate
    <3>2. FxPricesCached(d)
      BY <2>0, <2>1, <3>1 DEF FxPricesCached, FxPrices, Cached
    <3> QED
      BY <2>0, <3>1, <3>2 DEF FxStays
  <2>2. CASE Cached /\ ~assertFresh(fxCache)
    <3>1. fxCall' = [fxCall EXCEPT ![d] = RefusedCall("RATE_STALE")]
      BY <1>3, <2>2 DEF GetRate
    <3> QED
      BY <2>0, <3>1 DEF FxStays, FxEnds, RefusedCall
  <2>3. CASE ~Cached
    <3>1. fxCall' = [fxCall EXCEPT ![d] = [pc |-> "waiting", amount |-> amount]]
      BY <1>3, <2>3 DEF GetRate
    <3>2. FxWaits(d)
      BY <2>0, <3>1 DEF FxWaits
    <3> QED
      BY <2>0, <3>1, <3>2 DEF FxStays
  <2> QED
    BY <2>1, <2>2, <2>3
<1>4. ASSUME NEW price \in Prices, ProviderAnswers(price)
      PROVE  /\ CallsHaveShape' /\ UsablePrice(price) /\ fxCache' = FetchedRate(price)
             /\ \A c \in FxCalls : FxStays(c) \/ FxPricesFetched(c, FetchedRate(price))
  BY <1>4 DEF ProviderAnswers, FetchedRate, FxStays, FxPricesFetched, FxPrices, Waiting
<1>5. ASSUME NextProvider
      PROVE  /\ CallsHaveShape' /\ UNCHANGED fxCache
             /\ \A c \in FxCalls : FxStays(c) \/ FxEnds(c)
  BY <1>5 DEF NextProvider, FxStays, FxEnds, RefusedCall
<1>6. CASE FxTick
  BY <1>6 DEF FxTick, FxStays
<1> QED
  BY <1>1, <1>2, <1>3, <1>4, <1>5, <1>6 DEF FxNext, PriceUnusable, PairUnknown, UpstreamFails

\* "A cached-but-stale price is never used to price an invoice" (service.ts
\* 10), for any providers, cache lifetime and age limit, and any number of
\* invoices sharing requests.
THEOREM PricesAreFresh == FxInit /\ [][FxNext]_fxVars => []PriceIsFresh
<1>1. FxInit => FreshInv
  BY DEF FxInit, FreshInv, CallsHaveShape, PriceIsFresh, IdleFxCall
<1>2. ASSUME FreshInv, [FxNext]_fxVars PROVE FreshInv'
  <2>1. CallsHaveShape'
    BY <1>2, FxCases DEF FreshInv
  <2>2. ASSUME NEW c \in FxCalls, fxCall'[c].pc = "priced" PROVE fxCall'[c].age <= rateMaxAge
    <3>1. \/ FxStays(c) \/ FxEnds(c) \/ FxWaits(c)
          \/ \E amount, rate : FxPrices(c, amount, rate)
      BY <1>2, FxCases DEF FreshInv, FxPricesCached, FxPricesFetched
    <3>2. CASE FxStays(c)
      BY <1>2, <2>2, <3>2 DEF FxStays, FreshInv, PriceIsFresh
    <3>3. CASE \E amount, rate : FxPrices(c, amount, rate)
      BY <3>3 DEF FxPrices, PriceInvoice, assertFresh
    <3>4. ~FxEnds(c)
      BY <2>2 DEF FxEnds
    <3>5. ASSUME FxWaits(c) PROVE FALSE
      <4>1. PICK amount : fxCall'[c] = [pc |-> "waiting", amount |-> amount]
        BY <3>5 DEF FxWaits
      <4>2. fxCall'[c].pc = "waiting"
        BY <4>1
      <4> QED
        BY <2>2, <4>2
    <3> QED
      BY <3>1, <3>2, <3>3, <3>4, <3>5
  <2> QED
    BY <2>1, <2>2 DEF FreshInv, PriceIsFresh
<1>3. FreshInv => PriceIsFresh
  BY DEF FreshInv
<1> QED
  BY <1>1, <1>2, <1>3, PTL

\* An amount createInvoice has accepted, and a call priced in full from it.
Accepted(amount) == amount \in Decimals /\ AmountAccepted(amount)

PricedRight(call) ==
  /\ Accepted(call.amount) /\ call.rate \in Nat \ {0}
  /\ call.shown = formatUnits(convertQuoteToBase(parseUnits(call.amount, currencyDecimals),
                                currencyDecimals, call.rate, assetDecimals, "ceil"), assetDecimals)

PriceInv ==
  /\ CallsHaveShape
  /\ fxCache # NoRate => fxCache.numerator \in Nat \ {0}
  /\ \A c \in FxCalls : /\ fxCall[c].pc = "waiting" => Accepted(fxCall[c].amount)
                        /\ fxCall[c].pc = "priced" => PricedRight(fxCall[c])

\* The powers of ten up to 10^n, as pow10 computes them.
Tens(g, n) == g = [k \in 0..n |-> IF k = 0 THEN 1 ELSE 10 * g[k-1]]

TensUpTo(n) == CHOOSE g : Tens(g, n)

\* They can be computed up to any power.
LEMMA TensExist == ASSUME NEW n \in Nat PROVE Tens(TensUpTo(n), n)
<1> DEFINE T == {m \in Nat : \E g : Tens(g, m)}
<1>1. ASSUME NEW m \in Nat, \A l \in Nat : l < m => l \in T
      PROVE  m \in T
  <2>1. CASE m = 0
    <3> DEFINE h == [k \in 0..0 |-> 1]
    <3>1. Tens(h, 0)
      BY DEF Tens
    <3> QED BY <2>1, <3>1
  <2>2. CASE m # 0
    <3>1. m - 1 \in T
      <4>1. m - 1 \in Nat /\ m - 1 < m
        BY <2>2
      <4> HIDE DEF T
      <4> QED BY <1>1, <4>1
    <3>2. PICK g : Tens(g, m - 1)
      BY <3>1
    <3> DEFINE h == [k \in 0..m |-> IF k = 0 THEN 1 ELSE 10 * g[k-1]]
    <3>3. \A k \in 0..m-1 : h[k] = g[k]
      BY <3>2, <2>2 DEF Tens
    <3>4. \A k \in 0..m : k # 0 => k - 1 \in 0..m-1
      BY <2>2
    <3>5. \A k \in 0..m : h[k] = IF k = 0 THEN 1 ELSE 10 * h[k-1]
      BY <3>3, <3>4
    <3>6. h = [k \in 0..m |-> h[k]]
      OBVIOUS
    <3> HIDE DEF h
    <3>7. Tens(h, m)
      BY <3>5, <3>6 DEF Tens
    <3> QED BY <3>7
  <2> QED BY <2>1, <2>2
<1>2. T \in SUBSET Nat
  OBVIOUS
<1> HIDE DEF T
<1>3. T = Nat
  BY <1>1, <1>2, NumbersByInduction
<1>4. \E g : Tens(g, n)
  BY <1>3 DEF T
<1> QED BY <1>4, Zenon DEF TensUpTo

\* However far they are computed, they are the same.
LEMMA TensAgree ==
  ASSUME NEW n \in Nat, NEW m \in Nat, n <= m, NEW g, NEW h, Tens(g, n), Tens(h, m)
  PROVE  g[n] = h[n]
<1> DEFINE T == {k \in Nat : k <= n => g[k] = h[k]}
<1>1. ASSUME NEW k \in Nat, \A l \in Nat : l < k => l \in T
      PROVE  k \in T
  <2> SUFFICES ASSUME k <= n PROVE g[k] = h[k]
    OBVIOUS
  <2>1. CASE k = 0
    BY <2>1 DEF Tens
  <2>2. CASE k # 0
    <3>1. k - 1 \in Nat /\ k - 1 < k /\ k - 1 <= n
      BY <2>2
    <3>2. g[k-1] = h[k-1]
      BY <1>1, <3>1
    <3> QED BY <2>2, <3>1, <3>2 DEF Tens
  <2> QED BY <2>1, <2>2
<1>2. T \in SUBSET Nat
  OBVIOUS
<1> HIDE DEF T
<1>3. T = Nat
  BY <1>1, <1>2, NumbersByInduction
<1> QED BY <1>3 DEF T

\* pow10 is what its recursion says.
LEMMA TensUnfold ==
  /\ pow10(0) = 1
  /\ \A k \in Nat \ {0} : pow10(k) = 10 * pow10(k - 1)
<1> DEFINE f == [n \in Nat |-> TensUpTo(n)[n]]
<1>1. TensUpTo(0)[0] = 1
  BY TensExist DEF Tens
<1>2. ASSUME NEW k \in Nat \ {0}
      PROVE  k - 1 \in Nat /\ TensUpTo(k)[k] = 10 * TensUpTo(k - 1)[k - 1]
  <2>1. k - 1 \in Nat /\ k - 1 <= k
    OBVIOUS
  <2>2. Tens(TensUpTo(k), k) /\ Tens(TensUpTo(k - 1), k - 1)
    BY <2>1, TensExist
  <2>3. TensUpTo(k - 1)[k - 1] = TensUpTo(k)[k - 1]
    BY <2>1, <2>2, TensAgree
  <2>4. TensUpTo(k)[k] = 10 * TensUpTo(k)[k - 1]
    BY <2>2 DEF Tens
  <2> QED BY <2>1, <2>3, <2>4
<1>3. \A n \in Nat : f[n] = IF n = 0 THEN 1 ELSE 10 * f[n - 1]
  BY <1>1, <1>2
<1>4. f = [n \in Nat |-> f[n]]
  OBVIOUS
<1> HIDE DEF f
<1>5. f = [n \in Nat |-> IF n = 0 THEN 1 ELSE 10 * f[n - 1]]
  BY <1>3, <1>4
<1>6. powersOf10 = [n \in Nat |-> IF n = 0 THEN 1 ELSE 10 * powersOf10[n - 1]]
  BY <1>5, Zenon DEF powersOf10
<1>7. \A n \in Nat : powersOf10[n] = IF n = 0 THEN 1 ELSE 10 * powersOf10[n - 1]
  BY <1>6
<1> QED BY <1>7 DEF pow10

\* Powers of ten are positive numbers.
LEMMA TensArePositive == \A k \in Nat : pow10(k) \in Nat \ {0}
<1> DEFINE T == {k \in Nat : pow10(k) \in Nat \ {0}}
<1>1. ASSUME NEW k \in Nat, \A l \in Nat : l < k => l \in T
      PROVE  k \in T
  <2>1. CASE k = 0
    BY <2>1, TensUnfold
  <2>2. CASE k # 0
    <3>1. k - 1 \in Nat /\ k - 1 < k
      BY <2>2
    <3>2. pow10(k - 1) \in Nat \ {0} /\ pow10(k) = 10 * pow10(k - 1)
      BY <1>1, <2>2, <3>1, TensUnfold
    <3> QED BY <3>2
  <2> QED BY <2>1, <2>2
<1>2. T \in SUBSET Nat
  OBVIOUS
<1> HIDE DEF T
<1>3. T = Nat
  BY <1>1, <1>2, NumbersByInduction
<1> QED BY <1>3 DEF T

\* Rounding up: the least quotient that covers the dividend.
LEMMA CeilCovers ==
  ASSUME NEW n \in Nat, NEW d \in Nat \ {0}
  PROVE  /\ divCeil(n, d) \in Nat
         /\ divCeil(n, d) * d >= n
         /\ (divCeil(n, d) - 1) * d < n \/ n = 0
<1> DEFINE q == n \div d
<1>1. q \in Nat /\ q * d <= n /\ n < q * d + d
  OBVIOUS
<1>2. divCeil(n, d) = q + (IF q * d # n THEN 1 ELSE 0)
  BY DEF divCeil, Quotient, HasRemainder
<1> HIDE DEF q
<1>3. CASE q * d = n
  <2>1. (q - 1) * d = q * d - d
    BY <1>1
  <2> QED
    BY <1>1, <1>2, <1>3, <2>1
<1>4. CASE q * d # n
  <2>1. (q + 1) * d = q * d + d /\ (q + 1 - 1) * d = q * d
    BY <1>1
  <2> QED
    BY <1>1, <1>2, <1>4, <2>1
<1> QED
  BY <1>3, <1>4

\* What formatUnits shows, parseUnits reads back.
LEMMA ShownIsRead ==
  ASSUME NEW q \in Nat, NEW decimals \in Nat
  PROVE  parseUnits(formatUnits(q, decimals), decimals) = q
<1> DEFINE p == pow10(decimals)
<1>1. p \in Nat \ {0}
  BY TensArePositive
<1>2. pow10(decimals - decimals) = 1
  BY TensUnfold
<1>3. parseUnits(formatUnits(q, decimals), decimals) = (q \div p) * p + (q % p) * 1
  BY <1>2 DEF parseUnits, formatUnits, Decimal
<1> HIDE DEF p
<1>4. (q \div p) * p + (q % p) = q
  BY <1>1
<1>5. q % p \in Nat
  BY <1>1
<1> QED
  BY <1>3, <1>4, <1>5

\* A decimal that parses is a natural number of units, positive if it is.
LEMMA ParsedUnits ==
  ASSUME NEW value \in Decimals, NEW decimals \in Nat, Parses(value, decimals)
  PROVE  /\ parseUnits(value, decimals) \in Nat
         /\ value.whole > 0 \/ value.fraction > 0 => parseUnits(value, decimals) > 0
<1> DEFINE a == pow10(decimals)
           b == pow10(decimals - value.places)
           w == value.whole
           f == value.fraction
<1>1. w \in Nat /\ f \in Nat /\ decimals - value.places \in Nat
  BY DEF Decimals, Parses
<1>2. a \in Nat \ {0} /\ b \in Nat \ {0}
  BY <1>1, TensArePositive
<1>3. parseUnits(value, decimals) = w * a + f * b
  BY DEF parseUnits
<1> HIDE DEF a, b, w, f
<1>4. w * a \in Nat /\ f * b \in Nat /\ (w > 0 => w * a > 0) /\ (f > 0 => f * b > 0)
  BY <1>1, <1>2
<1> QED
  BY <1>1, <1>3, <1>4 DEF w, f

\* A call priced right shows an amount that covers what was asked for.
LEMMA RightIsFull ==
  ASSUME NEW call, PricedRight(call)
  PROVE  LET paid  == parseUnits(call.shown, assetDecimals)
             worth(units) == units * call.rate * pow10(currencyDecimals)
             asked == parseUnits(call.amount, currencyDecimals) * pow10(assetDecimals) * pow10(RATE_SCALE)
         IN  worth(paid) >= asked /\ worth(paid - 1) < asked
<1> DEFINE units == parseUnits(call.amount, currencyDecimals)
           A == pow10(assetDecimals)
           R == pow10(RATE_SCALE)
           P == pow10(currencyDecimals)
           r == call.rate
           n == units * A * R
           d == P * r
           q == divCeil(n, d)
<1>1. units \in Nat \ {0} /\ r \in Nat \ {0}
  <2>1. Parses(call.amount, currencyDecimals) /\ units > 0 /\ call.amount \in Decimals /\ r \in Nat \ {0}
    BY DEF PricedRight, Accepted, AmountAccepted
  <2>2. units \in Nat
    BY <2>1, ParsedUnits, FxConstants DEF FxConstants
  <2> QED
    BY <2>1, <2>2
<1>2. A \in Nat \ {0} /\ R \in Nat \ {0} /\ P \in Nat \ {0}
  BY FxConstants, RateScaleAssumption, TensArePositive DEF FxConstants
<1>3. call.shown = formatUnits(q, assetDecimals)
  BY DEF PricedRight, convertQuoteToBase, divide
<1> HIDE DEF units, A, R, P, r
<1>4. n \in Nat /\ n # 0 /\ d \in Nat \ {0}
  <2>1. units * A \in Nat \ {0}
    BY <1>1, <1>2
  <2>2. (units * A) * R \in Nat \ {0}
    BY <1>2, <2>1
  <2> QED
    BY <1>1, <1>2, <2>2
<1> HIDE DEF n, d
<1>5. q \in Nat /\ q * d >= n /\ (q - 1) * d < n
  BY <1>4, CeilCovers
<1>6. parseUnits(call.shown, assetDecimals) = q
  BY <1>3, <1>5, ShownIsRead, FxConstants DEF FxConstants
<1> HIDE DEF q
<1>7. q * r * P = q * d /\ (q - 1) * r * P = (q - 1) * d
  <2>1. \A x \in Int : x * r * P = x * (P * r)
    BY <1>1, <1>2
  <2> QED
    BY <1>5, <2>1 DEF d
<1> QED
  BY <1>5, <1>6, <1>7 DEF n, units, A, R, P, r

\* The invariant holds before any rate is known.
LEMMA PriceInitInv == FxInit => PriceInv
BY DEF FxInit, PriceInv, CallsHaveShape, IdleFxCall

\* Every step keeps it.
LEMMA PriceStepInv ==
  ASSUME PriceInv, [FxNext]_fxVars
  PROVE  PriceInv'
<1>1. CallsHaveShape /\ CallsHaveShape'
  BY FxCases DEF PriceInv
<1>2. ASSUME NEW c \in FxCalls, FxStays(c) \/ FxEnds(c) \/ FxWaits(c)
      PROVE  /\ fxCall'[c].pc = "waiting" => Accepted(fxCall'[c].amount)
             /\ fxCall'[c].pc = "priced" => PricedRight(fxCall'[c])
  <2>1. CASE FxStays(c)
    BY <2>1 DEF FxStays, PriceInv
  <2>2. CASE FxEnds(c)
    BY <2>2 DEF FxEnds
  <2>3. CASE FxWaits(c)
    BY <2>3, FxConstants DEF FxWaits, Accepted, FxConstants
  <2> QED
    BY <1>2, <2>1, <2>2, <2>3
<1>3. ASSUME NEW c \in FxCalls, NEW amount, NEW rate, Accepted(amount),
             rate.numerator \in Nat \ {0}, FxPrices(c, amount, rate)
      PROVE  fxCall'[c].pc = "priced" /\ PricedRight(fxCall'[c])
  <2>1. /\ fxCall'[c].pc = "priced" /\ fxCall'[c].amount = amount /\ fxCall'[c].rate = rate.numerator
        /\ fxCall'[c].shown = formatUnits(convertQuoteToBase(parseUnits(amount, currencyDecimals),
                 currencyDecimals, rate.numerator, assetDecimals, "ceil"), assetDecimals)
    BY <1>3 DEF FxPrices, PriceInvoice
  <2> QED
    BY <1>3, <2>1 DEF PricedRight
<1>4. CASE /\ UNCHANGED fxCache
           /\ \A c \in FxCalls : FxStays(c) \/ FxEnds(c) \/ FxWaits(c) \/ FxPricesCached(c)
  <2>1. ASSUME NEW c \in FxCalls, FxPricesCached(c)
        PROVE  fxCall'[c].pc = "priced" /\ PricedRight(fxCall'[c])
    BY <1>3, <2>1, FxConstants DEF FxPricesCached, PriceInv, Accepted, FxConstants
  <2> QED
    BY <1>1, <1>2, <1>4, <2>1 DEF PriceInv
<1>5. ASSUME NEW price \in Prices, UsablePrice(price), fxCache' = FetchedRate(price),
             \A c \in FxCalls : FxStays(c) \/ FxPricesFetched(c, FetchedRate(price))
      PROVE  PriceInv'
  <2>1. FetchedRate(price).numerator \in Nat \ {0}
    <3>1. price \in Decimals /\ Parses(price, RATE_SCALE) /\ (price.whole > 0 \/ price.fraction > 0)
      BY <1>5, FxConstants DEF FxConstants, UsablePrice, extractPrice
    <3>2. parseUnits(price, RATE_SCALE) \in Nat /\ parseUnits(price, RATE_SCALE) > 0
      BY <3>1, ParsedUnits, RateScaleAssumption
    <3> QED
      BY <3>2 DEF FetchedRate
  <2>2. ASSUME NEW c \in FxCalls, FxPricesFetched(c, FetchedRate(price))
        PROVE  fxCall'[c].pc = "priced" /\ PricedRight(fxCall'[c])
    BY <1>3, <2>1, <2>2 DEF FxPricesFetched, PriceInv
  <2> QED
    BY <1>1, <1>2, <1>5, <2>1, <2>2 DEF PriceInv
<1> QED
  BY <1>1, <1>4, <1>5, FxCases

\* For every price a provider can answer, every amount, every number of
\* decimals and every scale of the rate: paying what the page shows covers the
\* amount asked for, and one smallest unit less does not.
THEOREM PricesAreFull == FxInit /\ [][FxNext]_fxVars => []PricedInFull
<1>1. PriceInv => PricedInFull
  BY RightIsFull DEF PriceInv, PricedInFull
<1>2. PriceInv /\ [FxNext]_fxVars => PriceInv'
  BY PriceStepInv
<1> QED
  BY <1>1, <1>2, PriceInitInv, PTL

\* The rest of the types: the clock, the request in flight and the cache's age.
FxTypeInv ==
  /\ PriceInv /\ FxTypeOK

\* The invariant holds before any rate is known.
LEMMA FxTypeInit == FxInit => FxTypeInv
<1> SUFFICES ASSUME FxInit PROVE FxTypeInv
  OBVIOUS
<1>1. Len(exchangeRateProviders) \in Nat /\ MaxFxClock \in Nat
  BY FxConstants DEF FxConstants
<1>2. FxTypeOK
  BY <1>1 DEF FxInit, FxTypeOK, NoRate, IdleFxCall
<1> QED BY <1>2, PriceInitInv DEF FxTypeInv

\* Every step keeps it.
LEMMA FxTypeStep == FxTypeInv /\ [FxNext]_fxVars => FxTypeInv'
<1> SUFFICES ASSUME FxTypeInv, [FxNext]_fxVars PROVE FxTypeInv'
  OBVIOUS
<1>1. PriceInv' /\ PriceInv
  BY PriceStepInv DEF FxTypeInv
<1>2. /\ Len(exchangeRateProviders) \in Nat /\ MaxFxClock \in Nat /\ exchangeRateProviders # <<>>
      /\ Len(exchangeRateProviders) # 0
  BY FxConstants DEF FxConstants
<1>3. FxTypeOK
  BY DEF FxTypeInv
<1> DEFINE Kept == /\ fxNow' \in 0..MaxFxClock /\ fxNow' >= fxNow
                   /\ fxFetch' \in 0..Len(exchangeRateProviders)
                   /\ UNCHANGED fxCache \/ fxCache'.cachedAt = fxNow
<1>4. Kept
  <2>0. fxNow \in 0..MaxFxClock /\ fxFetch \in 0..Len(exchangeRateProviders)
    BY <1>3 DEF FxTypeOK
  <2>1. CASE UNCHANGED fxVars
    BY <2>0, <2>1 DEF fxVars
  <2>2. ASSUME NEW c \in FxCalls, FxAnswered(c) PROVE Kept
    BY <2>0, <2>2 DEF FxAnswered
  <2>3. ASSUME NEW c \in FxCalls, NEW amount \in Amounts, GetRate(c, amount) PROVE Kept
    <3>1. UNCHANGED <<fxNow, fxCache>> /\ (UNCHANGED fxFetch \/ fxFetch' = IF fxFetch = 0 THEN 1 ELSE fxFetch)
      BY <2>3, Zenon DEF GetRate
    <3> QED BY <1>2, <2>0, <3>1
  <2>4. ASSUME NEW price \in Prices, ProviderAnswers(price) PROVE Kept
    <3>1. fxNow' = fxNow /\ fxFetch' = 0 /\ fxCache' = FetchedRate(price)
      BY <2>4 DEF ProviderAnswers, FetchedRate
    <3> QED BY <1>2, <2>0, <3>1 DEF FetchedRate
  <2>5. ASSUME NextProvider PROVE Kept
    <3>1. /\ UNCHANGED <<fxNow, fxCache>>
          /\ \/ fxFetch < Len(exchangeRateProviders) /\ fxFetch' = fxFetch + 1
             \/ fxFetch' = 0
      BY <2>5 DEF NextProvider
    <3> QED BY <1>2, <2>0, <3>1
  <2>6. CASE FxTick
    BY <1>2, <2>0, <2>6 DEF FxTick
  <2> HIDE DEF Kept
  <2> QED BY <2>1, <2>2, <2>3, <2>4, <2>5, <2>6 DEF FxNext, PriceUnusable, PairUnknown, UpstreamFails
<1>5. fxCache.cachedAt \in 0..fxNow
  BY <1>3 DEF FxTypeOK
<1>6. fxCache'.cachedAt \in 0..fxNow'
  BY <1>2, <1>3, <1>4, <1>5 DEF FxTypeOK
<1>7. fxCache'.numerator \in Nat
  BY <1>1 DEF PriceInv, NoRate
<1>8. ASSUME NEW c \in FxCalls PROVE fxCall'[c].pc \in {"idle", "waiting", "priced", "refused"}
  <2>1. FxPricesCached(c) => fxCall'[c].pc = "priced"
    BY DEF FxPricesCached, FxPrices, PriceInvoice
  <2>2. \A rate : FxPricesFetched(c, rate) => fxCall'[c].pc = "priced"
    BY DEF FxPricesFetched, FxPrices, PriceInvoice
  <2>3. FxStays(c) \/ FxEnds(c) => fxCall'[c].pc \in {"idle", "waiting", "priced", "refused"}
    BY <1>3 DEF FxStays, FxEnds, FxTypeOK
  <2>4. FxWaits(c) => fxCall'[c].pc = "waiting"
    BY DEF FxWaits
  <2>5. CallsHaveShape
    BY <1>1 DEF PriceInv
  <2> QED BY <2>1, <2>2, <2>3, <2>4, <2>5, FxCases
<1> QED BY <1>1, <1>4, <1>6, <1>7, <1>8 DEF FxTypeInv, FxTypeOK
-----------------------------------------------------------------------------
(* Chain adapters                                                          *)

\* The height of a block on a chain, the transaction's height and its depth,
\* for any chain and any transaction.
HeightOn(chain, block) ==
  IF \E h \in DOMAIN chain : chain[h] = block
  THEN CHOOSE h \in DOMAIN chain : chain[h] = block ELSE 0
DepthOn(chain, block) ==
  IF HeightOn(chain, block) > 0 THEN Len(chain) - HeightOn(chain, block) + 1 ELSE 0

RpcTxs == [kind : {"native", "token"}, block : 0..UnknownTx, status : {"0x1", "0x0"}]

\* No block is twice on the chain, and the transaction is in the mempool,
\* unknown, or in a block of the chain.
ChainSound(chain, minted, tx) ==
  /\ minted \in 1..MaxBlocks
  /\ chain \in Seq(1..minted) /\ Len(chain) \in 1..minted
  /\ \A g, h \in 1..Len(chain) : chain[g] = chain[h] => g = h
  /\ tx \in RpcTxs
  /\ \/ tx.block \in {Mempool, UnknownTx}
     \/ \E h \in 1..Len(chain) : chain[h] = tx.block

\* The operators of the model are those of the chain as it is.
LEMMA HeightIsOn ==
  /\ \A block : Height(block) = HeightOn(rpcChain, block)
  /\ TxHeight = HeightOn(rpcChain, rpcTx.block) /\ TxDepth = DepthOn(rpcChain, rpcTx.block)
BY DEF Height, HeightOn, DepthOn, TxHeight, TxDepth

\* The height is where the block is, or 0.
LEMMA HeightFacts ==
  ASSUME NEW chain, NEW minted, NEW tx, ChainSound(chain, minted, tx), NEW block
  PROVE  /\ HeightOn(chain, block) \in 0..Len(chain)
         /\ \A h \in 1..Len(chain) : chain[h] = block <=> HeightOn(chain, block) = h
         /\ HeightOn(chain, block) > 0 => block \in 1..minted
         /\ DepthOn(chain, block) \in 0..Len(chain)
<1>1. DOMAIN chain = 1..Len(chain) /\ Len(chain) \in Nat
  BY DEF ChainSound
<1>2. \A h \in 1..Len(chain) : chain[h] = block <=> HeightOn(chain, block) = h
  BY <1>1 DEF HeightOn, ChainSound
<1>3. HeightOn(chain, block) \in 0..Len(chain)
  BY <1>1 DEF HeightOn
<1>4. ASSUME HeightOn(chain, block) > 0 PROVE block \in 1..minted
  <2>1. chain[HeightOn(chain, block)] = block
    BY <1>1, <1>2, <1>3, <1>4
  <2> QED
    BY <1>1, <1>3, <1>4, <2>1 DEF ChainSound
<1> QED
  BY <1>1, <1>2, <1>3, <1>4 DEF DepthOn

\* A mined transaction is in a block that has a number, one that is not has
\* height 0.
LEMMA MinedFacts ==
  ASSUME NEW chain, NEW minted, NEW tx, ChainSound(chain, minted, tx)
  PROVE  /\ HeightOn(chain, tx.block) > 0 <=> tx.block \in 1..MaxBlocks
         /\ tx.block = UnknownTx => HeightOn(chain, tx.block) = 0
<1>1. minted \in 1..MaxBlocks /\ tx.block \in 0..UnknownTx /\ MaxBlocks \in Nat
  BY AdapterConstants DEF ChainSound, RpcTxs, AdapterConstants
<1>2. HeightOn(chain, tx.block) > 0 => tx.block \in 1..MaxBlocks
  BY <1>1, HeightFacts
<1>3. ASSUME tx.block \in 1..MaxBlocks PROVE HeightOn(chain, tx.block) > 0
  <2>1. PICK h \in 1..Len(chain) : chain[h] = tx.block
    BY <1>1, <1>3 DEF ChainSound, Mempool, UnknownTx
  <2>2. HeightOn(chain, tx.block) = h
    BY <2>1, HeightFacts
  <2> QED
    BY <2>2 DEF ChainSound
<1>4. HeightOn(chain, tx.block) \in Nat
  BY HeightFacts DEF ChainSound
<1> QED
  BY <1>1, <1>2, <1>3, <1>4 DEF UnknownTx

\* What a new block makes of the transaction: it stays where it is, it loses
\* its block, or it is mined in the new one.
TxStays == rpcTx' = rpcTx /\ TxHeight' = TxHeight
TxLoses == TxHeight > 0 /\ TxHeight' = 0 /\ rpcTx' \in RpcTxs

\* A block keeps the chain sound; a transaction loses its block only in a
\* reorganisation.
LEMMA NewBlockEffect ==
  ASSUME NEW d \in Nat, ChainSound(rpcChain, rpcMinted, rpcTx), NewBlock(d)
  PROVE  /\ ChainSound(rpcChain', rpcMinted', rpcTx')
         /\ rpcMinted' = rpcMinted + 1
         /\ TxStays \/ (d > 0 /\ TxLoses) \/ (rpcTx'.block = rpcMinted + 1 /\ (d = 0 => TxHeight = 0))
         /\ d = 0 => Len(rpcChain') > Len(rpcChain)
<1> DEFINE n == Len(rpcChain) - d
           h == HeightOn(rpcChain, rpcTx.block)
<1>1. /\ n \in 1..Len(rpcChain) /\ rpcMinted \in 1..MaxBlocks /\ rpcMinted < MaxBlocks
      /\ MaxBlocks \in Nat \ {0} /\ Len(rpcChain) \in 1..rpcMinted
      /\ rpcMinted' = rpcMinted + 1 /\ rpcChain \in Seq(1..rpcMinted)
  BY AdapterConstants DEF ChainSound, NewBlock, AdapterConstants
<1>2. /\ rpcChain' \in Seq(1..rpcMinted') /\ Len(rpcChain') = n + 1
      /\ \A g \in 1..n : rpcChain'[g] = rpcChain[g]
      /\ rpcChain'[n + 1] = rpcMinted + 1
  <2>1. rpcChain \in Seq(1..(rpcMinted + 1))
    BY <1>1
  <2>2. /\ SubSeq(rpcChain, 1, n) \in Seq(1..(rpcMinted + 1)) /\ Len(SubSeq(rpcChain, 1, n)) = n
        /\ \A g \in 1..n : SubSeq(rpcChain, 1, n)[g] = rpcChain[g]
    BY <1>1, <2>1
  <2>3. rpcChain' = Append(SubSeq(rpcChain, 1, n), rpcMinted + 1)
    BY DEF NewBlock
  <2> HIDE DEF n
  <2> QED
    BY <1>1, <2>2, <2>3
<1>3. \A g \in 1..Len(rpcChain) : rpcChain[g] \in 1..rpcMinted
  BY <1>1
<1> HIDE DEF n, h
<1>4. \A f, g \in 1..Len(rpcChain') : rpcChain'[f] = rpcChain'[g] => f = g
  <2>1. \A f, g \in 1..Len(rpcChain) : rpcChain[f] = rpcChain[g] => f = g
    BY DEF ChainSound
  <2>2. \A f \in 1..Len(rpcChain') : f \in 1..n \/ f = n + 1
    BY <1>1, <1>2
  <2>3. \A f \in 1..n : rpcChain'[f] \in 1..rpcMinted /\ f \in 1..Len(rpcChain)
    BY <1>1, <1>2, <1>3
  <2> TAKE f, g \in 1..Len(rpcChain')
  <2>4. CASE f \in 1..n /\ g \in 1..n
    BY <1>2, <2>1, <2>3, <2>4
  <2>5. CASE f = n + 1 \/ g = n + 1
    BY <1>1, <1>2, <2>2, <2>3, <2>5
  <2> QED
    BY <2>2, <2>4, <2>5
<1>5. /\ rpcTx \in RpcTxs /\ h \in 0..Len(rpcChain) /\ TxHeight = h
      /\ rpcTx.block \in {Mempool, UnknownTx} \/ rpcTx.block \in 1..rpcMinted
      /\ h > 0 => rpcChain[h] = rpcTx.block
      /\ rpcTx.block \in 1..rpcMinted => h > 0
  <2>1. h \in 0..Len(rpcChain) /\ TxHeight = h
    BY HeightFacts, HeightIsOn DEF h
  <2>2. \A g \in 1..Len(rpcChain) : rpcChain[g] = rpcTx.block <=> h = g
    BY HeightFacts DEF h
  <2>3. h > 0 => rpcChain[h] = rpcTx.block
    BY <1>1, <2>1, <2>2
  <2>4. rpcTx.block \in {Mempool, UnknownTx} \/ rpcTx.block \in 1..rpcMinted
    BY <1>3 DEF ChainSound
  <2>5. rpcTx.block \in 1..rpcMinted => h > 0
    BY <1>1, MinedFacts DEF h
  <2> QED
    BY <2>1, <2>3, <2>4, <2>5 DEF ChainSound
<1>6. TxHeight' = HeightOn(rpcChain', rpcTx'.block)
  BY DEF TxHeight, Height, HeightOn
<1>7. rpcMinted' \in 1..MaxBlocks /\ Len(rpcChain') \in 1..rpcMinted'
  BY <1>1, <1>2 DEF n
<1>8. ASSUME rpcTx' \in RpcTxs,
             \/ rpcTx'.block \in {Mempool, UnknownTx}
             \/ \E g \in 1..Len(rpcChain') : rpcChain'[g] = rpcTx'.block
      PROVE  /\ ChainSound(rpcChain', rpcMinted', rpcTx')
             /\ TxHeight' = 0 <=> rpcTx'.block \in {Mempool, UnknownTx}
             /\ \A g \in 1..Len(rpcChain') : rpcChain'[g] = rpcTx'.block <=> TxHeight' = g
  <2>1. ChainSound(rpcChain', rpcMinted', rpcTx')
    BY <1>2, <1>4, <1>7, <1>8 DEF ChainSound
  <2>2. /\ TxHeight' \in 0..Len(rpcChain')
        /\ TxHeight' > 0 <=> rpcTx'.block \in 1..MaxBlocks
        /\ \A g \in 1..Len(rpcChain') : rpcChain'[g] = rpcTx'.block <=> TxHeight' = g
    BY <1>6, <2>1, HeightFacts, MinedFacts
  <2>3. rpcTx'.block \in {Mempool, UnknownTx} <=> rpcTx'.block \notin 1..MaxBlocks
    BY <1>1, <1>8 DEF RpcTxs, Mempool, UnknownTx
  <2>4. TxHeight' = 0 <=> ~(TxHeight' > 0)
    BY <1>7, <2>2
  <2> QED
    BY <2>1, <2>2, <2>3, <2>4
<1>9. CASE h <= n /\ rpcTx' = rpcTx
  <2>1. CASE rpcTx.block \in {Mempool, UnknownTx}
    <3>1. h = 0
      BY <1>1, <1>5, <2>1, MinedFacts DEF h, Mempool, UnknownTx
    <3> QED
      BY <1>1, <1>2, <1>5, <1>8, <1>9, <2>1, <3>1 DEF TxStays, n
  <2>2. CASE rpcTx.block \in 1..rpcMinted
    <3>1. h \in 1..n /\ h \in 1..Len(rpcChain') /\ rpcChain'[h] = rpcTx'.block
      BY <1>1, <1>2, <1>5, <1>9, <2>2
    <3>2. rpcTx' \in RpcTxs /\ \E g \in 1..Len(rpcChain') : rpcChain'[g] = rpcTx'.block
      BY <1>5, <1>9, <3>1
    <3>3. ChainSound(rpcChain', rpcMinted', rpcTx') /\ TxHeight' = h
      BY <1>8, <3>1, <3>2
    <3>4. d = 0 => Len(rpcChain') > Len(rpcChain)
      BY <1>1, <1>2 DEF n
    <3> QED
      BY <1>1, <1>5, <1>9, <3>3, <3>4 DEF TxStays
  <2> QED
    BY <1>5, <2>1, <2>2
<1>10. CASE h > n /\ rpcTx' \in RpcTxs /\ rpcTx'.block \in {Mempool, UnknownTx}
  BY <1>1, <1>2, <1>5, <1>8, <1>10 DEF TxLoses, n
<1>11. CASE /\ rpcTx' \in RpcTxs /\ rpcTx'.block = rpcMinted + 1
            /\ h > n \/ rpcTx.block = Mempool
  <2>1. n + 1 \in 1..Len(rpcChain') /\ rpcChain'[n + 1] = rpcTx'.block
    BY <1>1, <1>2, <1>11
  <2>2. d = 0 => h = 0
    BY <1>1, <1>5, <1>11, MinedFacts DEF h, n, Mempool
  <2>3. d = 0 => Len(rpcChain') > Len(rpcChain)
    BY <1>1, <1>2 DEF n
  <2> QED
    BY <1>1, <1>5, <1>8, <1>11, <2>1, <2>2, <2>3
<1>12. h <= n \/ h > n
  BY <1>1, <1>5
<1> QED
  <2>1. UnknownTx \in Nat /\ 0 \in 0..UnknownTx /\ UnknownTx \in 0..UnknownTx
        /\ rpcMinted + 1 \in 0..UnknownTx
    BY <1>1 DEF UnknownTx
  <2>2. h > n <=> TxHeight > Len(rpcChain) - d
    BY <1>5 DEF n
  <2>3. rpcTx = [rpcTx EXCEPT !.block = rpcTx.block]
    BY <1>5 DEF RpcTxs
  <2>5. CASE h <= n
    <3>1. ~(TxHeight > Len(rpcChain) - d)
      BY <1>1, <1>5, <2>2, <2>5
    <3>2. \/ rpcTx' = [rpcTx EXCEPT !.block = rpcTx.block]
          \/ /\ rpcTx.block = Mempool
             /\ \E s \in {"0x1", "0x0"} : rpcTx' = [rpcTx EXCEPT !.block = rpcMinted + 1, !.status = s]
      BY <3>1 DEF NewBlock
    <3>3. CASE rpcTx' = [rpcTx EXCEPT !.block = rpcTx.block]
      <4>1. rpcTx' = rpcTx
        BY <2>3, <3>3
      <4> QED
        BY <1>9, <2>5, <4>1
    <3>4. CASE /\ rpcTx.block = Mempool
               /\ \E s \in {"0x1", "0x0"} : rpcTx' = [rpcTx EXCEPT !.block = rpcMinted + 1, !.status = s]
      <4>1. rpcTx' \in RpcTxs /\ rpcTx'.block = rpcMinted + 1
        BY <1>5, <2>1, <3>4 DEF RpcTxs
      <4> QED
        BY <1>11, <3>4, <4>1
    <3> QED
      BY <3>2, <3>3, <3>4
  <2>6. CASE h > n
    <3>1. \/ rpcTx' = [rpcTx EXCEPT !.block = Mempool]
          \/ rpcTx' = [rpcTx EXCEPT !.block = UnknownTx]
          \/ \E s \in {"0x1", "0x0"} : rpcTx' = [rpcTx EXCEPT !.block = rpcMinted + 1, !.status = s]
      BY <2>2, <2>6 DEF NewBlock
    <3>2. \/ rpcTx' \in RpcTxs /\ rpcTx'.block \in {Mempool, UnknownTx}
          \/ rpcTx' \in RpcTxs /\ rpcTx'.block = rpcMinted + 1
      BY <1>5, <2>1, <3>1 DEF RpcTxs, Mempool
    <3> QED
      BY <1>10, <1>11, <2>6, <3>2
  <2> QED
    BY <1>12, <2>5, <2>6

-----------------------------------------------------------------------------

Methods == {"getTransaction", "getTransfers", "getConfirmations", "discover"}

Readings ==
  [tx : 0..UnknownTx, receipt : {"none", "0x1", "0x0"}, tip : Nat, conf : Nat, block : Nat,
   inBlock : BOOLEAN, logged : BOOLEAN]

RpcCalls ==
  [op : Methods \cup {"none"}, family : {"evm", "bitcoin"},
   state : {"idle", "reading", "done", "null", "thrown"}, next : Nat \ {0},
   url : {"primary", "fallback"}, got : Readings, height : Nat \ {0}, reorged : BOOLEAN,
   was : SUBSET RpcTxs]

Requests(family, op) == AdapterRequests[family][op]

\* A call that reads has a request to make.
HasRequest(call) ==
  call.op \in Methods /\ call.next <= Len(Requests(call.family, call.op))

\* What was read of the transaction was so at some moment of the call.
Witnessed(got, was) ==
  /\ got.tx = UnknownTx => \E tx \in was : tx.block = UnknownTx
  /\ got.receipt = "0x1" => \E tx \in was : tx.block \in 1..MaxBlocks /\ tx.status = "0x1"
  /\ got.tx \in 1..MaxBlocks => \E tx \in was : tx.block \in 1..MaxBlocks

\* Without a reorganisation during the call what was read of heights still
\* bounds what is.
DepthRead(chain, tx, got) ==
  /\ got.tx \in 1..MaxBlocks => HeightOn(chain, tx.block) = got.tx
  /\ got.tip <= Len(chain)
  /\ got.conf <= DepthOn(chain, tx.block)

\* While the block that was read holds the transaction, what was read of it
\* says so.
BlockRead(chain, minted, tx, call) ==
  /\ call.got.block <= minted
  /\ /\ call.op = "discover"
     /\ tx.block = call.got.block /\ HeightOn(chain, tx.block) > 0
     => /\ call.got.inBlock /\ HeightOn(chain, tx.block) = call.height
        /\ call.state = "done" /\ call.family = "evm" /\ tx.status = "0x1" => call.got.logged
        /\ call.state = "done" /\ call.family = "bitcoin"
             => call.got.tx \in 1..MaxBlocks

AdapterCallSound(chain, minted, tx, call) ==
  /\ call \in RpcCalls
  /\ call.state = "idle" => call.got = NothingRead
  /\ call.state = "null" => call.got.tx = UnknownTx
  /\ call.state = "reading" => HasRequest(call) /\ tx \in call.was
  /\ Witnessed(call.got, call.was)
  /\ ~call.reorged => DepthRead(chain, tx, call.got)
  /\ BlockRead(chain, minted, tx, call)

AdapterInv ==
  /\ ChainSound(rpcChain, rpcMinted, rpcTx)
  /\ AdapterCallSound(rpcChain, rpcMinted, rpcTx, rpcCall)

\* Two lists of one request each, one after the other.
LEMMA OneThenOne ==
  ASSUME NEW a, NEW b
  PROVE  Len(<<a>> \o <<b>>) = 2 /\ (<<a>> \o <<b>>)[1] = a /\ (<<a>> \o <<b>>)[2] = b
<1>1. ASSUME NEW S, NEW s \in Seq(S), NEW t \in Seq(S), Len(s) = 1, Len(t) = 1
      PROVE  Len(s \o t) = 2 /\ (s \o t)[1] = s[1] /\ (s \o t)[2] = t[1]
  BY <1>1, ConcatProperties
<1>2. <<a>> \in Seq({a, b}) /\ <<b>> \in Seq({a, b})
  OBVIOUS
<1>3. Len(<<a>>) = 1 /\ Len(<<b>>) = 1 /\ <<a>>[1] = a /\ <<b>>[1] = b
  OBVIOUS
<1> QED
  BY <1>1, <1>2, <1>3, Zenon

\* The requests of each method.
LEMMA RequestLists ==
  /\ Len(Requests("evm", "getTransaction")) = 3
     /\ Requests("evm", "getTransaction")[1] = "tx"
     /\ Requests("evm", "getTransaction")[2] = "receipt"
     /\ Requests("evm", "getTransaction")[3] = "tip"
  /\ Len(Requests("evm", "getTransfers")) = 2
     /\ Requests("evm", "getTransfers")[1] = "tx"
     /\ Requests("evm", "getTransfers")[2] = "receipt"
  /\ Len(Requests("evm", "getConfirmations")) = 2
     /\ Requests("evm", "getConfirmations")[1] = "tx"
     /\ Requests("evm", "getConfirmations")[2] = "tip"
  /\ Len(Requests("evm", "discover")) = 2
     /\ Requests("evm", "discover")[1] = "block"
     /\ Requests("evm", "discover")[2] = "logs"
  /\ Len(Requests("bitcoin", "getTransaction")) = 2
     /\ Requests("bitcoin", "getTransaction")[1] = "raw"
     /\ Requests("bitcoin", "getTransaction")[2] = "tip"
  /\ Len(Requests("bitcoin", "getTransfers")) = 1
     /\ Requests("bitcoin", "getTransfers")[1] = "raw"
  /\ Len(Requests("bitcoin", "getConfirmations")) = 2
     /\ Requests("bitcoin", "getConfirmations")[1] = "tip"
     /\ Requests("bitcoin", "getConfirmations")[2] = "raw"
  /\ Len(Requests("bitcoin", "discover")) = 2
     /\ Requests("bitcoin", "discover")[1] = "block"
     /\ Requests("bitcoin", "discover")[2] = "raw"
<1>1. Requests("evm", "discover") = <<"block">> \o <<"logs">>
  BY DEF Requests, AdapterRequests, EvmRequests, EvmGetLightBlock, EvmGetTransferLogsTo
<1>2. Requests("bitcoin", "discover") = <<"block">> \o <<"raw">>
  BY DEF Requests, AdapterRequests, BitcoinRequests, BitcoinGetBlock, BitcoinGetRawTransaction
<1>3. /\ Requests("evm", "getTransaction") = <<"tx", "receipt", "tip">>
      /\ Requests("evm", "getTransfers") = <<"tx", "receipt">>
      /\ Requests("evm", "getConfirmations") = <<"tx", "tip">>
      /\ Requests("bitcoin", "getTransaction") = <<"raw", "tip">>
      /\ Requests("bitcoin", "getTransfers") = <<"raw">>
      /\ Requests("bitcoin", "getConfirmations") = <<"tip", "raw">>
  BY DEF Requests, AdapterRequests, EvmRequests, BitcoinRequests, EvmGetTransaction, EvmGetConfirmations,
    BitcoinGetTransaction, BitcoinGetConfirmations, BitcoinGetRawTransaction
<1>4. Len(<<"block">> \o <<"logs">>) = 2 /\ (<<"block">> \o <<"logs">>)[1] = "block"
      /\ (<<"block">> \o <<"logs">>)[2] = "logs"
  BY OneThenOne, Zenon
<1>5. Len(<<"block">> \o <<"raw">>) = 2 /\ (<<"block">> \o <<"raw">>)[1] = "block"
      /\ (<<"block">> \o <<"raw">>)[2] = "raw"
  BY OneThenOne, Zenon
<1>6. Len(Requests("evm", "discover")) = 2 /\ Requests("evm", "discover")[1] = "block"
      /\ Requests("evm", "discover")[2] = "logs"
  BY <1>1, <1>4, Zenon
<1>7. Len(Requests("bitcoin", "discover")) = 2 /\ Requests("bitcoin", "discover")[1] = "block"
      /\ Requests("bitcoin", "discover")[2] = "raw"
  BY <1>2, <1>5, Zenon
<1> QED
  BY <1>3, <1>6, <1>7

\* What each request adds.
BlockAt(h) == IF h <= Len(rpcChain) THEN rpcChain[h] ELSE 0
ReadsTx(got) == [got EXCEPT !.tx = KnownHeight]
ReadsReceipt(got) == [got EXCEPT !.receipt = IF TxHeight > 0 THEN rpcTx.status ELSE "none"]
ReadsTip(got) == [got EXCEPT !.tip = Len(rpcChain)]
ReadsBlock(got, h) == [got EXCEPT !.block = BlockAt(h), !.inBlock = TxHeight = h]
ReadsLogs(got, h) == [got EXCEPT !.logged = TxHeight = h /\ rpcTx.status = "0x1"]
ReadsRaw(got) == [got EXCEPT !.tx = KnownHeight, !.conf = TxDepth]

\* The call goes on with the readings `got`.
Continues(got, state) ==
  /\ \E url \in {"primary", "fallback"} :
       rpcCall' = [rpcCall EXCEPT !.got = got, !.next = rpcCall.next + 1, !.url = url, !.state = state]
  /\ state \in {"reading", "done", "null"}
  /\ state = "null" => got.tx = UnknownTx
  /\ state = "reading" => rpcCall.next + 1 <= Len(Requests(rpcCall.family, rpcCall.op))

\* Discovery is done only after its second request.
LEMMA AnswerEffect ==
  ASSUME rpcCall \in RpcCalls, HasRequest(rpcCall), RequestAnswered
  PROVE  \E state :
           \/ rpcCall.op # "discover" /\ Continues(ReadsTx(rpcCall.got), state)
           \/ rpcCall.op # "discover" /\ Continues(ReadsReceipt(rpcCall.got), state)
           \/ rpcCall.op # "discover" /\ Continues(ReadsTip(rpcCall.got), state)
           \/ state = "reading" /\ Continues(ReadsBlock(rpcCall.got, rpcCall.height), state)
           \/ rpcCall.family = "evm" /\ Continues(ReadsLogs(rpcCall.got, rpcCall.height), state)
           \/ rpcCall.family = "bitcoin" /\ Continues(ReadsRaw(rpcCall.got), state)
<1> DEFINE reads == Requests(rpcCall.family, rpcCall.op)
           read == reads[rpcCall.next]
           got == IF rpcCall.family = "evm" THEN EvmAnswers(rpcCall.height, rpcCall.got)[read]
                  ELSE BitcoinAnswers(rpcCall.height, rpcCall.got)[read]
           state == IF /\ rpcCall.op = "getTransaction" /\ got.tx = UnknownTx
                       /\ rpcCall.next = Len(reads) \/ rpcCall.family = "bitcoin"
                    THEN "null" ELSE IF rpcCall.next = Len(reads) THEN "done" ELSE "reading"
<1>1. /\ rpcCall.next \in 1..Len(reads) /\ rpcCall.op \in Methods /\ Len(reads) \in 1..3
      /\ rpcCall.family \in {"evm", "bitcoin"}
  <2>1. rpcCall.op \in Methods /\ rpcCall.family \in {"evm", "bitcoin"} /\ rpcCall.next \in Nat \ {0}
        /\ rpcCall.next <= Len(reads)
    BY DEF RpcCalls, HasRequest
  <2>2. Len(reads) \in 1..3
    BY <2>1, RequestLists DEF Methods
  <2> QED
    BY <2>1, <2>2
<1>2. Continues(got, state)
  <2>1. rpcCall' = [rpcCall EXCEPT !.got = got, !.next = rpcCall.next + 1,
                      !.url = IF Batched(rpcCall) THEN rpcCall.url ELSE "primary", !.state = state]
    BY DEF RequestAnswered, Requests
  <2> HIDE DEF got
  <2>2. (IF Batched(rpcCall) THEN rpcCall.url ELSE "primary") \in {"primary", "fallback"}
    BY DEF RpcCalls
  <2>3. /\ state \in {"reading", "done", "null"} /\ (state = "null" => got.tx = UnknownTx)
        /\ state = "reading" => rpcCall.next # Len(reads)
    OBVIOUS
  <2> HIDE DEF state, reads
  <2>4. state = "reading" => rpcCall.next + 1 <= Len(reads)
    BY <1>1, <2>3
  <2>5. \E url \in {"primary", "fallback"} :
          rpcCall' = [rpcCall EXCEPT !.got = got, !.next = rpcCall.next + 1, !.url = url, !.state = state]
    BY <2>1, <2>2, Zenon
  <2> QED
    BY <2>3, <2>4, <2>5 DEF Continues, reads
<1>3. /\ rpcCall.op = "discover" /\ rpcCall.next = 1 => state = "reading"
      /\ rpcCall.op = "discover" => Len(reads) = 2
  BY <1>1, RequestLists
<1>4. CASE rpcCall.family = "evm"
  <2>1. \/ rpcCall.op # "discover" /\ read \in {"tx", "receipt", "tip"}
        \/ rpcCall.op = "discover" /\ rpcCall.next = 1 /\ read = "block"
        \/ rpcCall.op = "discover" /\ rpcCall.next = 2 /\ read = "logs"
    BY <1>1, <1>4, RequestLists DEF Methods
  <2>2. /\ read = "tx" => got = ReadsTx(rpcCall.got)
        /\ read = "receipt" => got = ReadsReceipt(rpcCall.got)
        /\ read = "tip" => got = ReadsTip(rpcCall.got)
        /\ read = "block" => got = ReadsBlock(rpcCall.got, rpcCall.height)
        /\ read = "logs" => got = ReadsLogs(rpcCall.got, rpcCall.height)
    BY <1>4 DEF EvmAnswers, ReadsTx, ReadsReceipt, ReadsTip, ReadsBlock, ReadsLogs, BlockAt
  <2> HIDE DEF reads, read, got, state
  <2> QED
    BY <1>2, <1>3, <1>4, <2>1, <2>2
<1>5. CASE rpcCall.family = "bitcoin"
  <2>1. \/ rpcCall.op # "discover" /\ read = "tip"
        \/ rpcCall.op = "discover" /\ rpcCall.next = 1 /\ read = "block"
        \/ read = "raw"
    BY <1>1, <1>5, RequestLists DEF Methods
  <2>2. /\ read = "tip" => got = ReadsTip(rpcCall.got)
        /\ read = "block" => got = ReadsBlock(rpcCall.got, rpcCall.height)
        /\ read = "raw" => got = ReadsRaw(rpcCall.got)
    BY <1>5 DEF BitcoinAnswers, ReadsTip, ReadsBlock, ReadsRaw, BlockAt
  <2> HIDE DEF reads, read, got, state
  <2> QED
    BY <1>2, <1>3, <1>5, <2>1, <2>2
<1> QED
  BY <1>1, <1>4, <1>5

\* What can be read of a sound chain.
LEMMA ReadingFacts ==
  ASSUME AdapterInv
  PROVE  /\ KnownHeight \in 0..UnknownTx
         /\ KnownHeight = UnknownTx <=> rpcTx.block = UnknownTx
         /\ KnownHeight \in 1..MaxBlocks => TxHeight = KnownHeight
         /\ TxHeight \in 0..Len(rpcChain) /\ TxDepth \in 0..Len(rpcChain) /\ Len(rpcChain) \in Nat \ {0}
         /\ TxHeight > 0 <=> rpcTx.block \in 1..MaxBlocks
         /\ TxDepth > 0 <=> TxHeight > 0
         /\ \A h \in Nat \ {0} : /\ BlockAt(h) \in 0..rpcMinted
                                 /\ BlockAt(h) = rpcTx.block /\ TxHeight > 0 => TxHeight = h
         /\ rpcTx.status \in {"0x1", "0x0"} /\ UnknownTx = MaxBlocks + 1 /\ MaxBlocks \in Nat \ {0}
<1>1. /\ ChainSound(rpcChain, rpcMinted, rpcTx) /\ MaxBlocks \in Nat \ {0} /\ UnknownTx = MaxBlocks + 1
      /\ rpcMinted \in 1..MaxBlocks /\ Len(rpcChain) \in 1..rpcMinted /\ rpcChain \in Seq(1..rpcMinted)
  BY AdapterConstants DEF AdapterInv, AdapterConstants, UnknownTx, ChainSound
<1>2. /\ TxHeight \in 0..Len(rpcChain) /\ TxDepth \in 0..Len(rpcChain)
      /\ \A h \in 1..Len(rpcChain) : rpcChain[h] = rpcTx.block <=> TxHeight = h
      /\ TxHeight > 0 => rpcTx.block \in 1..rpcMinted
  BY <1>1, HeightIsOn, HeightFacts
<1>3. /\ TxHeight > 0 <=> rpcTx.block \in 1..MaxBlocks
      /\ rpcTx.block = UnknownTx => TxHeight = 0
  BY <1>1, HeightIsOn, MinedFacts
<1>4. TxDepth > 0 <=> TxHeight > 0
  BY <1>1, <1>2 DEF TxDepth
<1>5. /\ KnownHeight \in 0..UnknownTx
      /\ KnownHeight = UnknownTx <=> rpcTx.block = UnknownTx
      /\ KnownHeight \in 1..MaxBlocks => TxHeight = KnownHeight
  BY <1>1, <1>2, <1>3 DEF KnownHeight
<1>6. ASSUME NEW h \in Nat \ {0}
      PROVE  /\ BlockAt(h) \in 0..rpcMinted
             /\ BlockAt(h) = rpcTx.block /\ TxHeight > 0 => TxHeight = h
  BY <1>1, <1>2 DEF BlockAt
<1>7. rpcTx.status \in {"0x1", "0x0"}
  BY <1>1 DEF ChainSound, RpcTxs
<1> QED
  BY <1>1, <1>2, <1>3, <1>4, <1>5, <1>6, <1>7

\* The invariant holds of a chain of one block before any call.
LEMMA AdapterInitInv == AdapterInit => AdapterInv
<1> SUFFICES ASSUME AdapterInit PROVE AdapterInv
  OBVIOUS
<1>1. rpcChain = <<1>> /\ rpcMinted = 1 /\ MaxBlocks \in Nat \ {0} /\ UnknownTx = MaxBlocks + 1
  BY AdapterConstants DEF AdapterInit, AdapterConstants, UnknownTx
<1>2. rpcTx \in RpcTxs /\ rpcTx.block \in {Mempool, UnknownTx}
  BY <1>1 DEF AdapterInit, RpcTxs, Mempool
<1>3. ChainSound(rpcChain, rpcMinted, rpcTx)
  BY <1>1, <1>2 DEF ChainSound
<1>4. \E family \in {"evm", "bitcoin"} : rpcCall = NewRpcCall("none", family, "idle")
  BY DEF AdapterInit, AdapterRequests
<1>5. /\ rpcCall \in RpcCalls /\ rpcCall.got = NothingRead /\ rpcCall.state = "idle"
      /\ rpcCall.op = "none"
  BY <1>1, <1>2, <1>4 DEF NewRpcCall, RpcCalls, Methods, NothingRead, Readings
<1>6. DepthOn(rpcChain, rpcTx.block) \in Nat
  BY <1>1, <1>3, HeightFacts
<1> QED
  BY <1>1, <1>3, <1>5, <1>6 DEF AdapterInv, AdapterCallSound, NothingRead, Witnessed, DepthRead, BlockRead

\* Nothing that was read is wrong when nothing was read.
LEMMA NothingIsSound ==
  ASSUME NEW chain, NEW minted, NEW tx, NEW call, ChainSound(chain, minted, tx),
         call.got = NothingRead
  PROVE  /\ Witnessed(call.got, call.was) /\ DepthRead(chain, tx, call.got)
         /\ BlockRead(chain, minted, tx, call)
<1>1. MaxBlocks \in Nat \ {0} /\ UnknownTx = MaxBlocks + 1 /\ minted \in 1..MaxBlocks
  BY AdapterConstants DEF AdapterConstants, UnknownTx, ChainSound
<1>2. DepthOn(chain, tx.block) \in Nat /\ Len(chain) \in Nat
  BY HeightFacts DEF ChainSound
<1>3. HeightOn(chain, tx.block) > 0 => tx.block # 0
  BY <1>1, MinedFacts
<1>4. Witnessed(call.got, call.was)
  BY <1>1 DEF Witnessed, NothingRead
<1>5. DepthRead(chain, tx, call.got)
  BY <1>1, <1>2 DEF DepthRead, NothingRead
<1> QED
  BY <1>1, <1>3, <1>4, <1>5 DEF BlockRead, NothingRead

\* A call begins with nothing read.
LEMMA BeginKeeps ==
  ASSUME AdapterInv, NEW op \in Methods, BeginCall(op)
  PROVE  AdapterInv'
<1>1. UNCHANGED <<rpcChain, rpcMinted, rpcTx>> /\ rpcCall' = NewRpcCall(op, rpcCall.family, "reading")
  BY DEF BeginCall, chainRpcVars
<1>2. /\ rpcCall'.op = op /\ rpcCall'.family = rpcCall.family /\ rpcCall'.state = "reading"
      /\ rpcCall'.next = 1 /\ rpcCall'.got = NothingRead /\ rpcTx \in rpcCall'.was
  BY <1>1 DEF NewRpcCall
<1>3. rpcCall' \in RpcCalls
  BY <1>1, ReadingFacts DEF NewRpcCall, RpcCalls, NothingRead, Readings, AdapterInv, AdapterCallSound, ChainSound
<1>4. HasRequest(rpcCall')
  <2>1. rpcCall.family \in {"evm", "bitcoin"}
    BY DEF AdapterInv, AdapterCallSound, RpcCalls
  <2>2. 1 <= Len(Requests(rpcCall.family, op))
    BY <2>1, RequestLists DEF Methods
  <2> QED
    BY <1>2, <2>2 DEF HasRequest
<1>5. AdapterCallSound(rpcChain, rpcMinted, rpcTx, rpcCall')
  BY <1>2, <1>3, <1>4, NothingIsSound DEF AdapterCallSound, AdapterInv
<1> QED
  BY <1>1, <1>5 DEF AdapterInv

\* The call after an answer, field by field.
LEMMA ContinuesFields ==
  ASSUME rpcCall \in RpcCalls, NEW got, NEW state, Continues(got, state)
  PROVE  /\ rpcCall'.op = rpcCall.op /\ rpcCall'.family = rpcCall.family
         /\ rpcCall'.height = rpcCall.height /\ rpcCall'.reorged = rpcCall.reorged
         /\ rpcCall'.was = rpcCall.was /\ rpcCall'.got = got
         /\ rpcCall'.state = state /\ rpcCall'.next = rpcCall.next + 1
         /\ got \in Readings => rpcCall' \in RpcCalls
<1>1. PICK url \in {"primary", "fallback"} :
        rpcCall' = [rpcCall EXCEPT !.got = got, !.next = rpcCall.next + 1, !.url = url, !.state = state]
  BY DEF Continues
<1>2. state \in {"reading", "done", "null"}
  BY DEF Continues
<1>3. ASSUME got \in Readings PROVE rpcCall' \in RpcCalls
  <2>1. rpcCall.next + 1 \in Nat \ {0}
    BY DEF RpcCalls
  <2>2. state \in {"idle", "reading", "done", "null", "thrown"}
    BY <1>2
  <2> QED
    BY <1>1, <1>3, <2>1, <2>2 DEF RpcCalls
<1> QED
  BY <1>1, <1>3 DEF RpcCalls

\* An answer adds what is so at this moment.
LEMMA RequestAnswerKeeps ==
  ASSUME AdapterInv, RequestAnswered
  PROVE  AdapterInv'
<1>1. /\ UNCHANGED <<rpcChain, rpcMinted, rpcTx>> /\ rpcCall.state = "reading"
      /\ rpcCall \in RpcCalls /\ HasRequest(rpcCall) /\ rpcTx \in rpcCall.was
  BY DEF RequestAnswered, chainRpcVars, AdapterInv, AdapterCallSound
<1>2. /\ rpcCall.got \in Readings /\ Witnessed(rpcCall.got, rpcCall.was)
      /\ ~rpcCall.reorged => DepthRead(rpcChain, rpcTx, rpcCall.got)
      /\ BlockRead(rpcChain, rpcMinted, rpcTx, rpcCall)
  BY <1>1 DEF AdapterInv, AdapterCallSound, RpcCalls
<1>3. /\ TxHeight = HeightOn(rpcChain, rpcTx.block) /\ TxDepth = DepthOn(rpcChain, rpcTx.block)
      /\ rpcMinted \in Nat /\ rpcCall.height \in Nat \ {0}
  BY <1>1, HeightIsOn DEF AdapterInv, ChainSound, RpcCalls
<1>4. ASSUME NEW got \in Readings, NEW state, Continues(got, state),
             Witnessed(got, rpcCall.was), ~rpcCall.reorged => DepthRead(rpcChain, rpcTx, got),
             BlockRead(rpcChain, rpcMinted, rpcTx, rpcCall')
      PROVE  AdapterInv'
  <2>1. AdapterCallSound(rpcChain, rpcMinted, rpcTx, rpcCall')
    <3>1. /\ rpcCall' \in RpcCalls /\ rpcCall'.got = got /\ rpcCall'.was = rpcCall.was
          /\ rpcCall'.reorged = rpcCall.reorged /\ rpcCall'.state = state
          /\ rpcCall'.op = rpcCall.op /\ rpcCall'.family = rpcCall.family
          /\ rpcCall'.next = rpcCall.next + 1
      BY <1>1, <1>4, ContinuesFields
    <3>2. /\ state \in {"reading", "done", "null"}
          /\ state = "reading" => rpcCall.next + 1 <= Len(Requests(rpcCall.family, rpcCall.op))
          /\ state = "null" => got.tx = UnknownTx
      BY <1>4 DEF Continues
    <3>3. rpcCall'.state = "reading" => HasRequest(rpcCall') /\ rpcTx \in rpcCall'.was
      BY <1>1, <3>1, <3>2 DEF HasRequest
    <3> QED
      BY <1>4, <3>1, <3>2, <3>3 DEF AdapterCallSound
  <2> QED
    BY <1>1, <2>1 DEF AdapterInv
<1>5. ASSUME NEW got \in Readings, NEW state, rpcCall.op # "discover", Continues(got, state),
             got.block = rpcCall.got.block
      PROVE  BlockRead(rpcChain, rpcMinted, rpcTx, rpcCall')
  BY <1>1, <1>2, <1>5, ContinuesFields DEF BlockRead
<1>6. ASSUME NEW state, rpcCall.op # "discover", Continues(ReadsTx(rpcCall.got), state)
      PROVE  AdapterInv'
  <2>1. ReadsTx(rpcCall.got) \in Readings /\ ReadsTx(rpcCall.got).block = rpcCall.got.block
    BY <1>2, ReadingFacts DEF ReadsTx, Readings
  <2>2. Witnessed(ReadsTx(rpcCall.got), rpcCall.was)
    BY <1>1, <1>2, ReadingFacts DEF ReadsTx, Readings, Witnessed
  <2>3. ~rpcCall.reorged => DepthRead(rpcChain, rpcTx, ReadsTx(rpcCall.got))
    BY <1>2, <1>3, ReadingFacts DEF ReadsTx, Readings, DepthRead
  <2> QED
    BY <1>4, <1>5, <1>6, <2>1, <2>2, <2>3
<1>7. ASSUME NEW state, rpcCall.op # "discover", Continues(ReadsReceipt(rpcCall.got), state)
      PROVE  AdapterInv'
  <2>1. ReadsReceipt(rpcCall.got) \in Readings /\ ReadsReceipt(rpcCall.got).block = rpcCall.got.block
    BY <1>2, ReadingFacts DEF ReadsReceipt, Readings
  <2>2. Witnessed(ReadsReceipt(rpcCall.got), rpcCall.was)
    BY <1>1, <1>2, ReadingFacts DEF ReadsReceipt, Readings, Witnessed
  <2>3. ~rpcCall.reorged => DepthRead(rpcChain, rpcTx, ReadsReceipt(rpcCall.got))
    BY <1>2, <1>3, ReadingFacts DEF ReadsReceipt, Readings, DepthRead
  <2> QED
    BY <1>4, <1>5, <1>7, <2>1, <2>2, <2>3
<1>8. ASSUME NEW state, rpcCall.op # "discover", Continues(ReadsTip(rpcCall.got), state)
      PROVE  AdapterInv'
  <2>1. ReadsTip(rpcCall.got) \in Readings /\ ReadsTip(rpcCall.got).block = rpcCall.got.block
    BY <1>2, ReadingFacts DEF ReadsTip, Readings
  <2>2. Witnessed(ReadsTip(rpcCall.got), rpcCall.was)
    BY <1>2 DEF ReadsTip, Readings, Witnessed
  <2>3. ~rpcCall.reorged => DepthRead(rpcChain, rpcTx, ReadsTip(rpcCall.got))
    BY <1>2, <1>3, ReadingFacts DEF ReadsTip, Readings, DepthRead
  <2> QED
    BY <1>4, <1>5, <1>8, <2>1, <2>2, <2>3
<1>9. ASSUME Continues(ReadsBlock(rpcCall.got, rpcCall.height), "reading")
      PROVE  AdapterInv'
  <2> DEFINE got == ReadsBlock(rpcCall.got, rpcCall.height)
  <2>0. BlockAt(rpcCall.height) \in Nat /\ BlockAt(rpcCall.height) \in 0..rpcMinted
    BY <1>3, ReadingFacts
  <2>1. got \in Readings /\ got.block = BlockAt(rpcCall.height) /\ got.inBlock = (TxHeight = rpcCall.height)
    BY <1>2, <2>0 DEF ReadsBlock, Readings
  <2>2. Witnessed(got, rpcCall.was)
    BY <1>2 DEF ReadsBlock, Readings, Witnessed
  <2>3. ~rpcCall.reorged => DepthRead(rpcChain, rpcTx, got)
    BY <1>2 DEF ReadsBlock, Readings, DepthRead
  <2> HIDE DEF got
  <2>4. /\ rpcCall'.got = got /\ rpcCall'.height = rpcCall.height /\ rpcCall'.state = "reading"
    BY <1>1, <1>9, ContinuesFields DEF got
  <2>5. BlockAt(rpcCall.height) = rpcTx.block /\ TxHeight > 0 => TxHeight = rpcCall.height
    BY <1>3, ReadingFacts
  <2>6. BlockRead(rpcChain, rpcMinted, rpcTx, rpcCall')
    <3>1. rpcCall'.got.block <= rpcMinted /\ rpcCall'.got.block = BlockAt(rpcCall.height)
      BY <1>3, <2>0, <2>1, <2>4
    <3>2. TxHeight = rpcCall.height => rpcCall'.got.inBlock
      BY <2>1, <2>4
    <3> QED
      BY <1>3, <2>4, <2>5, <3>1, <3>2 DEF BlockRead
  <2> QED
    BY <1>4, <1>9, <2>1, <2>2, <2>3, <2>6 DEF got
<1>10. ASSUME NEW state, rpcCall.family = "evm", Continues(ReadsLogs(rpcCall.got, rpcCall.height), state)
       PROVE  AdapterInv'
  <2> DEFINE got == ReadsLogs(rpcCall.got, rpcCall.height)
  <2>1. /\ got \in Readings /\ got.block = rpcCall.got.block /\ got.inBlock = rpcCall.got.inBlock
        /\ got.logged = (TxHeight = rpcCall.height /\ rpcTx.status = "0x1")
    BY <1>2 DEF ReadsLogs, Readings
  <2>2. Witnessed(got, rpcCall.was)
    BY <1>2 DEF ReadsLogs, Readings, Witnessed
  <2>3. ~rpcCall.reorged => DepthRead(rpcChain, rpcTx, got)
    BY <1>2 DEF ReadsLogs, Readings, DepthRead
  <2> HIDE DEF got
  <2>4. BlockRead(rpcChain, rpcMinted, rpcTx, rpcCall')
    BY <1>1, <1>2, <1>3, <1>10, <2>1, ContinuesFields DEF BlockRead, got
  <2> QED
    BY <1>4, <1>10, <2>1, <2>2, <2>3, <2>4 DEF got
<1>11. ASSUME NEW state, rpcCall.family = "bitcoin", Continues(ReadsRaw(rpcCall.got), state)
       PROVE  AdapterInv'
  <2> DEFINE got == ReadsRaw(rpcCall.got)
  <2>0. TxDepth \in Nat /\ KnownHeight \in 0..UnknownTx
    BY ReadingFacts
  <2>1. /\ got \in Readings /\ got.block = rpcCall.got.block /\ got.inBlock = rpcCall.got.inBlock
        /\ got.tx = KnownHeight /\ got.conf = TxDepth
    BY <1>2, <2>0 DEF ReadsRaw, Readings
  <2>2. Witnessed(got, rpcCall.was)
    BY <1>1, <1>2, ReadingFacts DEF ReadsRaw, Readings, Witnessed
  <2>3. ~rpcCall.reorged => DepthRead(rpcChain, rpcTx, got)
    BY <1>2, <1>3, ReadingFacts DEF ReadsRaw, Readings, DepthRead
  <2> HIDE DEF got
  <2>4. /\ rpcCall'.got = got /\ rpcCall'.height = rpcCall.height /\ rpcCall'.op = rpcCall.op
        /\ rpcCall'.family = "bitcoin"
    BY <1>1, <1>11, ContinuesFields DEF got
  <2>5. TxHeight > 0 => KnownHeight \in 1..MaxBlocks
    <3>1. TxHeight > 0 => rpcTx.block # UnknownTx
      BY ReadingFacts
    <3>2. TxHeight > 0 => KnownHeight = TxHeight
      BY <3>1 DEF KnownHeight
    <3> QED BY <3>1, <3>2, ReadingFacts
  <2>6. BlockRead(rpcChain, rpcMinted, rpcTx, rpcCall')
    BY <1>2, <1>3, <2>1, <2>4, <2>5 DEF BlockRead
  <2> QED
    BY <1>4, <1>11, <2>1, <2>2, <2>3, <2>6 DEF got
<1> QED
  BY <1>1, <1>6, <1>7, <1>8, <1>9, <1>10, <1>11, AnswerEffect

\* A request that fails ends the call, goes to the fallback node, or starts
\* the batch again there with nothing read.
LEMMA FailureKeeps ==
  ASSUME AdapterInv, TransportFails \/ NodeReportsError \/ HeightOutOfRange
  PROVE  AdapterInv'
<1>1. /\ UNCHANGED <<rpcChain, rpcMinted, rpcTx>> /\ rpcCall.state = "reading" /\ rpcCall \in RpcCalls
      /\ AdapterCallSound(rpcChain, rpcMinted, rpcTx, rpcCall) /\ ChainSound(rpcChain, rpcMinted, rpcTx)
  BY DEF TransportFails, NodeReportsError, HeightOutOfRange, chainRpcVars, AdapterInv, AdapterCallSound
<1>2. \/ rpcCall' = [rpcCall EXCEPT !.state = "thrown"]
      \/ rpcCall' = [rpcCall EXCEPT !.url = "fallback"]
      \/ rpcCall' = [rpcCall EXCEPT !.url = "fallback", !.next = 1, !.got = NothingRead]
  <2>1. [rpcCall EXCEPT !.url = "fallback", !.next = rpcCall.next, !.got = rpcCall.got]
          = [rpcCall EXCEPT !.url = "fallback"]
    BY <1>1 DEF RpcCalls
  <2> QED
    BY <2>1 DEF TransportFails, NodeReportsError, HeightOutOfRange
<1>3. NothingRead \in Readings /\ 1 \in Nat \ {0}
  BY AdapterConstants DEF NothingRead, Readings, AdapterConstants, UnknownTx
<1>4. CASE rpcCall' = [rpcCall EXCEPT !.state = "thrown"]
  <2>1. /\ rpcCall' \in RpcCalls /\ rpcCall'.got = rpcCall.got /\ rpcCall'.was = rpcCall.was
        /\ rpcCall'.state = "thrown" /\ rpcCall'.reorged = rpcCall.reorged
        /\ rpcCall'.op = rpcCall.op /\ rpcCall'.height = rpcCall.height
    BY <1>1, <1>4 DEF RpcCalls
  <2> QED
    BY <1>1, <2>1 DEF AdapterInv, AdapterCallSound, BlockRead
<1>5. CASE rpcCall' = [rpcCall EXCEPT !.url = "fallback"]
  <2>1. /\ rpcCall' \in RpcCalls /\ rpcCall'.got = rpcCall.got /\ rpcCall'.was = rpcCall.was
        /\ rpcCall'.state = "reading" /\ rpcCall'.reorged = rpcCall.reorged
        /\ rpcCall'.op = rpcCall.op /\ rpcCall'.height = rpcCall.height
        /\ rpcCall'.family = rpcCall.family /\ rpcCall'.next = rpcCall.next
    BY <1>1, <1>5 DEF RpcCalls
  <2> QED
    BY <1>1, <2>1 DEF AdapterInv, AdapterCallSound, BlockRead, HasRequest
<1>6. CASE rpcCall' = [rpcCall EXCEPT !.url = "fallback", !.next = 1, !.got = NothingRead]
  <2>1. /\ rpcCall' \in RpcCalls /\ rpcCall'.got = NothingRead /\ rpcCall'.was = rpcCall.was
        /\ rpcCall'.state = "reading" /\ rpcCall'.op = rpcCall.op
        /\ rpcCall'.family = rpcCall.family /\ rpcCall'.next = 1
    BY <1>1, <1>3, <1>6 DEF RpcCalls
  <2>2. HasRequest(rpcCall')
    <3>1. rpcCall.op \in Methods /\ rpcCall.family \in {"evm", "bitcoin"}
      BY <1>1 DEF AdapterCallSound, HasRequest, RpcCalls
    <3>2. 1 <= Len(Requests(rpcCall.family, rpcCall.op))
      BY <3>1, RequestLists DEF Methods
    <3> QED
      BY <2>1, <3>1, <3>2 DEF HasRequest
  <2>3. AdapterCallSound(rpcChain, rpcMinted, rpcTx, rpcCall')
    BY <1>1, <2>1, <2>2, NothingIsSound DEF AdapterCallSound
  <2> QED
    BY <1>1, <2>3 DEF AdapterInv
<1> QED
  BY <1>2, <1>4, <1>5, <1>6

\* Blocks come and go between two requests.
LEMMA MovesKeep ==
  ASSUME AdapterInv, NEW d \in Nat, NewBlock(d)
  PROVE  AdapterInv'
<1>1. /\ ChainSound(rpcChain, rpcMinted, rpcTx) /\ AdapterCallSound(rpcChain, rpcMinted, rpcTx, rpcCall)
      /\ rpcCall \in RpcCalls
  BY DEF AdapterInv, AdapterCallSound
<1>2. /\ ChainSound(rpcChain', rpcMinted', rpcTx') /\ rpcMinted' = rpcMinted + 1
      /\ TxStays \/ (d > 0 /\ TxLoses) \/ (rpcTx'.block = rpcMinted + 1 /\ (d = 0 => TxHeight = 0))
      /\ d = 0 => Len(rpcChain') > Len(rpcChain)
  BY <1>1, NewBlockEffect
<1>3. CASE rpcCall.state = "idle"
  <2>1. rpcCall' = rpcCall /\ rpcCall.got = NothingRead
    BY <1>1, <1>3 DEF NewBlock, AdapterCallSound
  <2>2. AdapterCallSound(rpcChain', rpcMinted', rpcTx', rpcCall)
    BY <1>1, <1>2, <1>3, <2>1, NothingIsSound DEF AdapterCallSound
  <2> QED
    BY <1>2, <2>1, <2>2 DEF AdapterInv
<1>4. CASE rpcCall.state # "idle"
  <2>1. rpcCall' = [rpcCall EXCEPT !.reorged = rpcCall.reorged \/ d > 0,
                      !.was = IF rpcCall.state = "reading" THEN rpcCall.was \cup {rpcTx'} ELSE rpcCall.was]
    BY <1>4 DEF NewBlock
  <2>2. /\ rpcCall'.got = rpcCall.got /\ rpcCall'.state = rpcCall.state /\ rpcCall'.op = rpcCall.op
        /\ rpcCall'.height = rpcCall.height /\ rpcCall'.family = rpcCall.family
        /\ rpcCall'.next = rpcCall.next
        /\ rpcCall'.was = IF rpcCall.state = "reading" THEN rpcCall.was \cup {rpcTx'} ELSE rpcCall.was
    BY <1>1, <2>1 DEF RpcCalls
  <2>3. ~rpcCall'.reorged => ~rpcCall.reorged /\ d = 0
    <3>1. rpcCall'.reorged = (rpcCall.reorged \/ d > 0)
      BY <1>1, <2>1 DEF RpcCalls
    <3>2. ~(d > 0) => d = 0
      OBVIOUS
    <3> QED
      BY <3>1, <3>2
  <2>4. rpcCall' \in RpcCalls
    <3>1. rpcTx' \in RpcTxs
      BY <1>2 DEF ChainSound
    <3>2. (IF rpcCall.state = "reading" THEN rpcCall.was \cup {rpcTx'} ELSE rpcCall.was) \in SUBSET RpcTxs
      BY <1>1, <3>1 DEF RpcCalls
    <3>3. (rpcCall.reorged \/ d > 0) \in BOOLEAN
      OBVIOUS
    <3> QED
      BY <1>1, <2>1, <3>2, <3>3 DEF RpcCalls
  <2>5. Witnessed(rpcCall'.got, rpcCall'.was)
    BY <1>1, <2>2 DEF AdapterCallSound, Witnessed
  <2>6. /\ TxHeight = HeightOn(rpcChain, rpcTx.block) /\ TxHeight' = HeightOn(rpcChain', rpcTx'.block)
        /\ TxDepth = DepthOn(rpcChain, rpcTx.block) /\ TxDepth' = DepthOn(rpcChain', rpcTx'.block)
        /\ TxHeight \in Nat /\ TxHeight' \in Nat /\ TxDepth \in Nat /\ TxDepth' \in Nat
        /\ Len(rpcChain) \in Nat /\ Len(rpcChain') \in Nat /\ MaxBlocks \in Nat /\ rpcMinted \in Nat
        /\ rpcCall.got \in Readings
    <3>1. /\ TxHeight = HeightOn(rpcChain, rpcTx.block) /\ TxHeight' = HeightOn(rpcChain', rpcTx'.block)
          /\ TxDepth = DepthOn(rpcChain, rpcTx.block) /\ TxDepth' = DepthOn(rpcChain', rpcTx'.block)
      BY DEF TxHeight, TxDepth, Height, HeightOn, DepthOn
    <3>2. /\ Len(rpcChain) \in Nat /\ Len(rpcChain') \in Nat /\ MaxBlocks \in Nat /\ rpcMinted \in Nat
          /\ rpcCall.got \in Readings
      BY <1>1, <1>2, AdapterConstants DEF ChainSound, AdapterConstants, RpcCalls
    <3>3. TxHeight \in 0..Len(rpcChain) /\ TxDepth \in 0..Len(rpcChain)
      BY <1>1, <3>1, HeightFacts
    <3>4. TxHeight' \in 0..Len(rpcChain') /\ TxDepth' \in 0..Len(rpcChain')
      BY <1>2, <3>1, HeightFacts
    <3> QED
      BY <3>1, <3>2, <3>3, <3>4
  <2>7. ASSUME ~rpcCall'.reorged PROVE DepthRead(rpcChain', rpcTx', rpcCall'.got)
    <3>1. DepthRead(rpcChain, rpcTx, rpcCall.got) /\ d = 0
      BY <1>1, <2>3, <2>7 DEF AdapterCallSound
    <3>2. rpcCall.got.tx \in 1..MaxBlocks => TxHeight = rpcCall.got.tx /\ TxHeight > 0
      BY <2>6, <3>1 DEF DepthRead
    <3>3. TxHeight > 0 => TxStays
      BY <1>2, <3>1
    <3>4. rpcCall.got.tip <= Len(rpcChain')
      BY <1>2, <2>6, <3>1 DEF DepthRead, Readings
    <3>5. TxHeight > 0 => TxDepth <= TxDepth'
      <4>1. TxStays => TxHeight' = TxHeight
        BY DEF TxStays
      <4>2. /\ TxDepth = IF TxHeight > 0 THEN Len(rpcChain) - TxHeight + 1 ELSE 0
            /\ TxDepth' = IF TxHeight' > 0 THEN Len(rpcChain') - TxHeight' + 1 ELSE 0
        BY DEF TxDepth
      <4> QED
        BY <1>2, <2>6, <3>1, <3>3, <4>1, <4>2
    <3>6. ~(TxHeight > 0) => TxDepth = 0
      BY DEF TxDepth
    <3>7. rpcCall.got.conf <= TxDepth'
      <4>1. rpcCall.got.conf <= TxDepth /\ rpcCall.got.conf \in Nat
        BY <2>6, <3>1 DEF DepthRead, Readings
      <4> QED
        BY <2>6, <3>5, <3>6, <4>1
    <3> QED
      BY <2>2, <2>6, <3>2, <3>3, <3>4, <3>7 DEF DepthRead, TxStays
  <2>8. BlockRead(rpcChain', rpcMinted', rpcTx', rpcCall')
    <3>1. BlockRead(rpcChain, rpcMinted, rpcTx, rpcCall)
      BY <1>1 DEF AdapterCallSound
    <3>2. rpcCall.got.block <= rpcMinted /\ rpcCall.got.block \in Nat
      BY <2>6, <3>1 DEF BlockRead, Readings
    <3>3. ASSUME rpcTx'.block = rpcCall.got.block, TxHeight' > 0 PROVE TxStays
      BY <1>2, <2>6, <3>2, <3>3 DEF TxLoses
    <3> QED
      BY <1>2, <2>2, <2>6, <3>1, <3>2, <3>3 DEF BlockRead, TxStays
  <2>9. rpcCall'.state = "reading" => HasRequest(rpcCall') /\ rpcTx' \in rpcCall'.was
    BY <1>1, <2>2 DEF AdapterCallSound, HasRequest
  <2> QED
    BY <1>1, <1>2, <1>4, <2>2, <2>4, <2>5, <2>7, <2>8, <2>9 DEF AdapterInv, AdapterCallSound
<1> QED
  BY <1>3, <1>4

\* The invariant is kept by every step of a call and of the chain.
LEMMA AdapterStepInv ==
  ASSUME AdapterInv, [AdapterCallNext]_adapterVars
  PROVE  AdapterInv'
<1>1. CASE UNCHANGED adapterVars
  BY <1>1 DEF adapterVars, chainRpcVars, callVars, AdapterInv
<1>2. DOMAIN EvmRequests = Methods
  BY DEF EvmRequests, Methods
<1>3. CASE \E op \in Methods : BeginCall(op)
  BY <1>3, BeginKeeps
<1>4. CASE RequestAnswered
  BY <1>4, RequestAnswerKeeps
<1>5. CASE TransportFails \/ NodeReportsError \/ HeightOutOfRange
  BY <1>5, FailureKeeps
<1>6. CASE ChainMoves
  <2>1. PICK d \in Nat : NewBlock(d)
    BY <1>6 DEF ChainMoves
  <2> QED
    BY <2>1, MovesKeep
<1> QED
  BY <1>1, <1>2, <1>3, <1>4, <1>5, <1>6 DEF AdapterCallNext

\* What polling keeps: the block seen last and the answers under way are
\* blocks that were mined.
PollSound(minted, last, flight) ==
  /\ last \in [height : 0..MaxBlocks, block : 0..minted]
  /\ flight = [p \in Polls |-> flight[p]]
  /\ \A p \in Polls :
       \/ flight[p] = [pc |-> "idle"]
       \/ flight[p] \in [pc : {"header", "seen"}, height : 1..MaxBlocks, block : 0..minted]

NodeInv == AdapterInv /\ PollSound(rpcMinted, pollLast, pollFlight)

\* The chain can go on under them.
LEMMA PollSoundGrows ==
  ASSUME NEW m \in Nat, NEW n \in Nat, m <= n, NEW last, NEW flight, PollSound(m, last, flight)
  PROVE  PollSound(n, last, flight)
<1>1. 0..m \subseteq 0..n
  OBVIOUS
<1> QED BY <1>1 DEF PollSound

\* It holds before the first call and the first tick.
LEMMA NodeInitInv == AdapterInit => NodeInv
<1> SUFFICES ASSUME AdapterInit PROVE NodeInv
  OBVIOUS
<1>1. MaxBlocks \in Nat /\ rpcMinted = 1
  BY AdapterConstants DEF AdapterConstants, AdapterInit
<1>2. PollSound(rpcMinted, pollLast, pollFlight)
  BY <1>1 DEF AdapterInit, PollSound
<1> QED BY <1>2, AdapterInitInv DEF NodeInv

\* Calls leave polling alone, except that the chain goes on.
LEMMA NodeCallStep == NodeInv /\ [AdapterCallNext]_adapterVars => NodeInv'
<1> SUFFICES ASSUME NodeInv, [AdapterCallNext]_adapterVars PROVE NodeInv'
  OBVIOUS
<1>1. AdapterInv'
  BY AdapterStepInv DEF NodeInv
<1>2. rpcMinted \in Nat /\ UNCHANGED <<pollLast, pollFlight>> /\ (rpcMinted' = rpcMinted \/ rpcMinted' = rpcMinted + 1)
  <2>1. rpcMinted \in Nat
    BY AdapterConstants DEF NodeInv, AdapterInv, ChainSound, AdapterConstants
  <2> QED BY <2>1 DEF AdapterCallNext, adapterVars, pollVars, chainRpcVars, BeginCall, RequestAnswered,
                      TransportFails, NodeReportsError, HeightOutOfRange, ChainMoves, NewBlock
<1>3. PollSound(rpcMinted', pollLast, pollFlight)
  BY <1>2, PollSoundGrows DEF NodeInv
<1> QED BY <1>1, <1>2, <1>3 DEF NodeInv

\* The ticks of a poll keep it.
LEMMA NodePollStep == NodeInv /\ [PollNext]_adapterVars => NodeInv'
<1> SUFFICES ASSUME NodeInv, [PollNext]_adapterVars PROVE NodeInv'
  OBVIOUS
<1>1. /\ MaxBlocks \in Nat /\ rpcMinted \in 1..MaxBlocks /\ Len(rpcChain) \in 1..rpcMinted
      /\ rpcChain \in Seq(1..rpcMinted) /\ PollSound(rpcMinted, pollLast, pollFlight) /\ AdapterInv
  BY AdapterConstants DEF NodeInv, AdapterInv, ChainSound, AdapterConstants
<1>2. CASE ChainMoves
  <2>1. PICK d \in Nat : NewBlock(d)
    BY <1>2 DEF ChainMoves
  <2>2. AdapterInv' /\ rpcMinted' = rpcMinted + 1 /\ UNCHANGED <<pollLast, pollFlight>>
    BY <1>1, <2>1, MovesKeep DEF NewBlock, pollVars
  <2>3. PollSound(rpcMinted', pollLast, pollFlight)
    BY <1>1, <2>2, PollSoundGrows
  <2> QED BY <2>2, <2>3 DEF NodeInv
<1>3. ASSUME UNCHANGED <<rpcChain, rpcMinted, rpcTx, rpcCall>> PROVE AdapterInv' /\ rpcMinted' = rpcMinted
  BY <1>1, <1>3 DEF AdapterInv
<1>4. CASE UNCHANGED adapterVars
  <2>1. UNCHANGED <<rpcChain, rpcMinted, rpcTx, rpcCall, pollLast, pollFlight>>
    BY <1>4 DEF adapterVars, chainRpcVars, callVars, pollVars
  <2> QED BY <1>1, <1>3, <2>1 DEF NodeInv
<1>5. ASSUME NEW p \in Polls, PollStep(p) \/ PollFails(p)
      PROVE  NodeInv'
  <2> DEFINE x == pollFlight[p]
  <2>1. UNCHANGED <<rpcChain, rpcMinted, rpcTx, rpcCall>>
    BY <1>5 DEF PollStep, PollTip, PollHeader, PollSeen, PollFails, chainRpcVars, callVars
  <2>2. ASSUME NEW y, pollFlight' = [pollFlight EXCEPT ![p] = y], pollLast' = pollLast,
               y = [pc |-> "idle"] \/ y \in [pc : {"header", "seen"}, height : 1..MaxBlocks, block : 0..rpcMinted]
        PROVE  NodeInv'
    BY <1>1, <1>3, <2>1, <2>2 DEF NodeInv, PollSound
  <2>3. CASE PollTip(p)
    <3> DEFINE y == [pc |-> "header", height |-> Len(rpcChain), block |-> rpcChain[Len(rpcChain)]]
    <3>1. rpcChain[Len(rpcChain)] \in 0..rpcMinted /\ Len(rpcChain) \in 1..MaxBlocks
      BY <1>1
    <3>2. y \in [pc : {"header", "seen"}, height : 1..MaxBlocks, block : 0..rpcMinted]
      BY <3>1
    <3>3. pollFlight' = [pollFlight EXCEPT ![p] = y] /\ pollLast' = pollLast
      BY <2>3 DEF PollTip, PollGoto
    <3> HIDE DEF y
    <3> QED BY <2>2, <3>2, <3>3
  <2>4. CASE PollHeader(p)
    <3> DEFINE header == IF rpcCall.family = "evm" THEN EvmHeader(x) ELSE BitcoinHeader(x)
               y == IF header # 0 THEN [x EXCEPT !.pc = "seen", !.block = header] ELSE [pc |-> "idle"]
    <3>1. x \in [pc : {"header", "seen"}, height : 1..MaxBlocks, block : 0..rpcMinted]
      BY <1>1, <2>4 DEF PollHeader, PollSound
    <3>2. header \in 0..rpcMinted
      BY <1>1, <3>1 DEF EvmHeader, BitcoinHeader
    <3> HIDE DEF header
    <3>3. y = [pc |-> "idle"] \/ y \in [pc : {"header", "seen"}, height : 1..MaxBlocks, block : 0..rpcMinted]
      BY <3>1, <3>2
    <3>4. pollFlight' = [pollFlight EXCEPT ![p] = y] /\ pollLast' = pollLast
      BY <2>4 DEF PollHeader, PollGoto, header
    <3> HIDE DEF y
    <3> QED BY <2>2, <3>3, <3>4
  <2>5. CASE PollSeen(p)
    <3>1. x \in [pc : {"header", "seen"}, height : 1..MaxBlocks, block : 0..rpcMinted]
      BY <1>1, <2>5 DEF PollSeen, PollSound
    <3>2. pollLast' \in [height : 0..MaxBlocks, block : 0..rpcMinted]
      BY <1>1, <2>5, <3>1 DEF PollSeen, LastSeen
    <3>3. pollFlight' = [pollFlight EXCEPT ![p] = [pc |-> "idle"]]
      BY <2>5 DEF PollSeen, PollGoto
    <3> QED BY <1>1, <1>3, <2>1, <3>2, <3>3 DEF NodeInv, PollSound
  <2>6. CASE PollFails(p)
    BY <2>2, <2>6 DEF PollFails, PollGoto
  <2> QED BY <1>5, <2>3, <2>4, <2>5, <2>6 DEF PollStep
<1>6. CASE PollStop
  <2>1. UNCHANGED <<rpcChain, rpcMinted, rpcTx, rpcCall, pollLast, pollFlight>>
    BY <1>6 DEF PollStop, chainRpcVars, callVars
  <2> QED BY <1>1, <1>3, <2>1 DEF NodeInv
<1> QED BY <1>2, <1>4, <1>5, <1>6 DEF PollNext

\* It gives the types.
LEMMA NodeTyped == NodeInv => AdapterTypeOK
<1> SUFFICES ASSUME NodeInv PROVE AdapterTypeOK
  OBVIOUS
<1>1. \A h \in DOMAIN rpcChain : rpcChain[h] \in 1..rpcMinted
  BY DEF NodeInv, AdapterInv, ChainSound
<1>2. rpcTx.block \in 0..UnknownTx
  BY DEF NodeInv, AdapterInv, ChainSound, RpcTxs
<1>3. rpcCall.state \in {"idle", "reading", "done", "null", "thrown"}
  BY DEF NodeInv, AdapterInv, AdapterCallSound, RpcCalls
<1> QED BY <1>1, <1>2, <1>3 DEF NodeInv, PollSound, AdapterTypeOK

\* The invariant says that a complete answer is true.
LEMMA AnswersFromInv == AdapterInv => AnswersAreTrue
<1> SUFFICES ASSUME AdapterInv PROVE AnswersAreTrue
  OBVIOUS
<1>1. /\ rpcCall.got \in Readings /\ rpcCall.family \in {"evm", "bitcoin"}
      /\ Witnessed(rpcCall.got, rpcCall.was)
      /\ ~rpcCall.reorged => DepthRead(rpcChain, rpcTx, rpcCall.got)
  BY DEF AdapterInv, AdapterCallSound, RpcCalls
<1>2. DepthIsReal
  <2> SUFFICES ASSUME ~rpcCall.reorged PROVE Confirmations(rpcCall) <= TxDepth
    BY DEF DepthIsReal
  <2>1. /\ rpcCall.got.tx \in 1..MaxBlocks => TxHeight = rpcCall.got.tx
        /\ rpcCall.got.tip <= Len(rpcChain) /\ rpcCall.got.conf <= TxDepth
    BY <1>1, HeightIsOn DEF DepthRead
  <2>2. EvmConfirmations(rpcCall.got) <= TxDepth
    <3>1. CASE /\ rpcCall.got.tx > 0 /\ rpcCall.got.tx # UnknownTx
               /\ rpcCall.got.tip >= rpcCall.got.tx
      <4>1. rpcCall.got.tx \in 1..MaxBlocks /\ rpcCall.got.tip \in Nat
        BY <1>1, <3>1, ReadingFacts DEF Readings
      <4>2. TxHeight = rpcCall.got.tx /\ TxDepth = Len(rpcChain) - TxHeight + 1
        BY <2>1, <3>1, <4>1 DEF TxDepth
      <4>3. EvmConfirmations(rpcCall.got) = rpcCall.got.tip - rpcCall.got.tx + 1
        BY <3>1 DEF EvmConfirmations
      <4>4. Len(rpcChain) \in Nat
        BY ReadingFacts
      <4> QED
        BY <2>1, <4>1, <4>2, <4>3, <4>4
    <3>2. CASE ~(/\ rpcCall.got.tx > 0 /\ rpcCall.got.tx # UnknownTx
                 /\ rpcCall.got.tip >= rpcCall.got.tx)
      BY <3>2, ReadingFacts DEF EvmConfirmations
    <3> QED
      BY <3>1, <3>2
  <2> QED
    BY <2>1, <2>2 DEF Confirmations, BitcoinConfirmations
<1>3. ASSUME rpcCall.state = "null" PROVE \E tx \in rpcCall.was : tx.block = UnknownTx
  BY <1>1, <1>3 DEF AdapterInv, AdapterCallSound, Witnessed
<1>4. ASSUME Transfers(rpcCall) # {}
      PROVE  \E tx \in rpcCall.was : /\ tx.block \in 1..MaxBlocks
                                     /\ rpcCall.family = "evm" => tx.status = "0x1"
  <2>1. CASE rpcCall.family = "evm"
    <3>1. rpcCall.got.receipt = "0x1"
      BY <1>4, <2>1 DEF Transfers, EvmTransfers
    <3> QED
      BY <1>1, <3>1 DEF Witnessed
  <2>2. CASE rpcCall.family = "bitcoin"
    <3>1. rpcCall.got.tx \in 1..MaxBlocks
      BY <1>1, <1>4, <2>2, ReadingFacts DEF Transfers, BitcoinTransfers, Readings, Mempool, UnknownTx
    <3> QED
      BY <1>1, <2>2, <3>1 DEF Witnessed
  <2> QED
    BY <1>1, <2>1, <2>2
<1> QED
  BY <1>2, <1>3, <1>4 DEF AnswersAreTrue, AnswersHappened

\* And that discovery found what the block holds.
LEMMA DiscoveryFromInv == AdapterInv => DiscoveryComplete
<1> SUFFICES ASSUME AdapterInv, rpcCall.state = "done", rpcCall.op = "discover",
                    rpcTx.block = rpcCall.got.block, TxHeight > 0,
                    rpcCall.family = "evm" => rpcTx.status = "0x1"
             PROVE  Found(rpcCall)
  BY DEF DiscoveryComplete
<1>1. /\ rpcCall.got.inBlock /\ (rpcCall.family = "evm" => rpcCall.got.logged)
      /\ rpcCall.family = "bitcoin" => rpcCall.got.tx \in 1..MaxBlocks
  BY HeightIsOn DEF AdapterInv, AdapterCallSound, BlockRead
<1>2. rpcCall.family \in {"evm", "bitcoin"} /\ rpcTx.kind \in {"native", "token"}
  BY DEF AdapterInv, AdapterCallSound, RpcCalls, ChainSound, RpcTxs
<1>3. rpcCall.family = "bitcoin" => BitcoinTransfers(rpcCall.got) # {}
  BY <1>1, AdapterConstants DEF BitcoinTransfers, Outputs, Mempool, UnknownTx, AdapterConstants
<1> QED
  BY <1>1, <1>2, <1>3 DEF Found

\* Whatever is mined, replaced or fails between the requests of a method, on
\* either chain and with or without a fallback node: the depth an adapter
\* reports is real unless blocks were replaced meanwhile, null means unknown,
\* and transfers mean mined and not reverted.
THEOREM AdapterTellsTheTruth == AdapterCallSpec => []AnswersAreTrue
<1>1. AdapterInv /\ [AdapterCallNext]_adapterVars => AdapterInv'
  BY AdapterStepInv
<1> QED
  BY <1>1, AdapterInitInv, AnswersFromInv, PTL DEF AdapterCallSpec

\* A payment in a block that discovery read is found as long as the block
\* stays, although its logs are asked for later and by height.
THEOREM DiscoveryMissesNothing == AdapterCallSpec => []DiscoveryComplete
<1>1. AdapterInv /\ [AdapterCallNext]_adapterVars => AdapterInv'
  BY AdapterStepInv
<1> QED
  BY <1>1, AdapterInitInv, DiscoveryFromInv, PTL DEF AdapterCallSpec

-----------------------------------------------------------------------------
(* The back office's lists.  A client that reads has seen, in order, every *)
(* row up to its cursor that matched all the while; what still matches     *)
(* comes after the cursor.  So the next page carries on exactly where the  *)
(* one before stopped, whatever was inserted or decided in between.        *)

\* The order of a table's list, and a sequence in that order.
InOrder(table, a, b) == IF table = "audit_log" THEN a > b ELSE a < b
Sorted(table, s) == \A i, j \in DOMAIN s : i < j => InOrder(table, s[i], s[j])

RowIds == 1..MaxRows
RowStates(table) == CreatedIn[table] \cup Decisions(table)

\* A client that reads: its query was not refused.
Filters == UNION {FiltersOf(table) : table \in Tables}

PagerStates ==
  [pc : {"reading", "read"}, query : [filter : Filters, limit : {NoLimit} \cup 1..MAX_PAGE_LIMIT,
                                      merchant : {NoFilter} \cup Merchants],
   cursor : {0} \cup RowIds, seen : Seq(RowIds), stable : SUBSET RowIds, matched : SUBSET RowIds]

\* Where a client that reads is, now being the rows that match its query.
Reading(table, now, x) ==
  /\ x.stable \subseteq now /\ now \subseteq x.matched
  /\ Sorted(table, x.seen) /\ ToSet(x.seen) \subseteq x.matched
  /\ x.cursor = 0 => x.seen = <<>>
  /\ x.cursor # 0 => Len(x.seen) > 0 /\ x.cursor = x.seen[Len(x.seen)]
  /\ \A id \in x.stable : id \in ToSet(x.seen) \/ x.cursor = 0 \/ InOrder(table, x.cursor, id)

\* What a client that has read to the end has.
ReadAll(table, x) ==
  Sorted(table, x.seen) /\ x.stable \subseteq ToSet(x.seen) /\ ToSet(x.seen) \subseteq x.matched

PagerSound(table, now, x) ==
  \/ x = IdlePager \/ x = [pc |-> "refused"]
  \/ /\ x \in PagerStates
     /\ x.pc = "reading" => Reading(table, now, x)
     /\ x.pc = "read" => ReadAll(table, x)

DecisionSound(table, rows, x) ==
  \/ x = IdleDecision \/ x = [pc |-> "answered"]
  \/ x \in [pc : {"decide"}, admin : Admins, id : DOMAIN rows, decision : Decisions(table), before : RowStates(table)]

AuditRows(table) == [actor : Admins, id : RowIds, before : RowStates(table), after : Decisions(table)]

RowsSound(table, rows) ==
  /\ DOMAIN rows \subseteq RowIds
  /\ rows \in [DOMAIN rows -> [merchant : Merchants, state : RowStates(table)]]

BackOfficeInv ==
  /\ boTable \in Tables
  /\ RowsSound(boTable, boRows)
  /\ boPager = [p \in Pagers |-> boPager[p]]
  /\ \A p \in Pagers : PagerSound(boTable, Matching(boPager[p].query), boPager[p])
  /\ boCall = [c \in DecisionCalls |-> boCall[c]]
  /\ \A c \in DecisionCalls : DecisionSound(boTable, boRows, boCall[c])
  /\ boAudit \in Seq(AuditRows(boTable))

\* The list's order is a strict order.
LEMMA OrderFacts ==
  ASSUME NEW table
  PROVE  /\ \A a, b, c \in RowIds : InOrder(table, a, b) /\ InOrder(table, b, c) => InOrder(table, a, c)
         /\ \A a \in RowIds : ~InOrder(table, a, a)
BY BackOfficeConstants DEF InOrder, RowIds, BackOfficeConstants

\* The elements of two sequences one after the other.
LEMMA ConcatFacts ==
  ASSUME NEW S, NEW s \in Seq(S), NEW t \in Seq(S), NEW r, r = s \o t
  PROVE  /\ r \in Seq(S) /\ Len(r) = Len(s) + Len(t) /\ DOMAIN r = 1..Len(s) + Len(t)
         /\ \A i \in 1..Len(s) : r[i] = s[i]
         /\ \A i \in 1..Len(t) : r[Len(s) + i] = t[i]
OBVIOUS

\* An answer of findMany to a client, and what it has seen after a page.
Answers(table, now, x, size, ids) ==
  LET past == {id \in now : x.cursor = 0 \/ InOrder(table, x.cursor, id)}
  IN  /\ ids \in Seq(past) /\ Len(ids) <= size + 1 /\ Sorted(table, ids)
      /\ \A id \in past \ ToSet(ids) : Len(ids) = size + 1 /\ InOrder(table, Last(ids), id)

PageAfter(table, x, seen, cursor) ==
  /\ seen \in Seq(RowIds) /\ cursor \in {0} \cup RowIds
  /\ Sorted(table, seen) /\ ToSet(seen) \subseteq x.matched
  /\ cursor = 0 => x.stable \subseteq ToSet(seen)
  /\ cursor # 0 => Len(seen) > 0 /\ cursor = seen[Len(seen)]
  /\ \A id \in x.stable : id \in ToSet(seen) \/ cursor = 0 \/ InOrder(table, cursor, id)

\* Nothing is left out between two pages, and nothing is repeated.
LEMMA NextPage ==
  ASSUME NEW table, NEW now \in SUBSET RowIds, NEW x \in PagerStates, Reading(table, now, x),
         NEW size \in Nat \ {0}, NEW ids, Answers(table, now, x, size, ids)
  PROVE  PageAfter(table, x, x.seen \o paginate(ids, size).items, paginate(ids, size).nextCursor)
<1> SUFFICES ASSUME NEW past, past = {id \in now : x.cursor = 0 \/ InOrder(table, x.cursor, id)},
                    ids \in Seq(past), Len(ids) <= size + 1, Sorted(table, ids),
                    \A id \in past \ ToSet(ids) : Len(ids) = size + 1 /\ InOrder(table, Last(ids), id),
                    NEW seen, seen = x.seen \o paginate(ids, size).items,
                    NEW cursor, cursor = paginate(ids, size).nextCursor
             PROVE  /\ seen \in Seq(RowIds) /\ cursor \in {0} \cup RowIds
                    /\ Sorted(table, seen) /\ ToSet(seen) \subseteq x.matched
                    /\ cursor = 0 => x.stable \subseteq ToSet(seen)
                    /\ cursor # 0 => Len(seen) > 0 /\ cursor = seen[Len(seen)]
                    /\ \A id \in x.stable : id \in ToSet(seen) \/ cursor = 0 \/ InOrder(table, cursor, id)
  BY Zenon DEF Answers, PageAfter
<1> DEFINE n == IF Len(ids) < size THEN Len(ids) ELSE size
           items == SubSeq(ids, 1, n)
<1>1. /\ Len(ids) \in Nat /\ n \in Nat /\ n <= Len(ids) /\ n <= size
      /\ \A i \in 1..Len(ids) : ids[i] \in past /\ ids[i] \in RowIds
      /\ past \subseteq now /\ past \subseteq RowIds
  OBVIOUS
<1>2. /\ x.seen \in Seq(RowIds) /\ Len(x.seen) \in Nat /\ DOMAIN x.seen = 1..Len(x.seen)
      /\ x.cursor \in {0} \cup RowIds /\ 0 \notin RowIds /\ x.stable \subseteq now /\ now \subseteq x.matched
      /\ \A i \in 1..Len(x.seen) : x.seen[i] \in RowIds
  <2>1. /\ x.seen \in Seq(RowIds) /\ x.cursor \in {0} \cup RowIds
        /\ x.stable \subseteq now /\ now \subseteq x.matched
    BY DEF PagerStates, Reading
  <2>2. 0 \notin RowIds
    BY DEF RowIds
  <2> QED BY <2>1, <2>2
<1>3. /\ paginate(ids, size).items = items
      /\ paginate(ids, size).nextCursor = IF Len(ids) > size THEN Last(items) ELSE 0
  BY DEF paginate
<1>4. /\ items \in Seq(RowIds) /\ Len(items) = n /\ \A i \in 1..n : items[i] = ids[i]
  <2>1. ids \in Seq(RowIds)
    BY <1>1
  <2> HIDE DEF n
  <2> QED BY <1>1, <2>1
<1> HIDE DEF items
<1>5. /\ seen \in Seq(RowIds) /\ Len(seen) = Len(x.seen) + n /\ DOMAIN seen = 1..Len(x.seen) + n
      /\ \A i \in 1..Len(x.seen) : seen[i] = x.seen[i]
      /\ \A i \in 1..n : seen[Len(x.seen) + i] = ids[i]
  <2>1. seen = x.seen \o items
    BY <1>3
  <2> HIDE DEF n
  <2>2. x.seen \in Seq(RowIds) /\ items \in Seq(RowIds) /\ Len(items) = n
    BY <1>2, <1>4
  <2>3. /\ seen \in Seq(RowIds) /\ Len(seen) = Len(x.seen) + Len(items) /\ DOMAIN seen = 1..Len(x.seen) + Len(items)
        /\ \A i \in 1..Len(x.seen) : seen[i] = x.seen[i]
        /\ \A i \in 1..Len(items) : seen[Len(x.seen) + i] = items[i]
    <3> DEFINE Joined(s, t, r) == /\ r \in Seq(RowIds) /\ Len(r) = Len(s) + Len(t) /\ DOMAIN r = 1..Len(s) + Len(t)
                                  /\ \A i \in 1..Len(s) : r[i] = s[i]
                                  /\ \A i \in 1..Len(t) : r[Len(s) + i] = t[i]
    <3>1. \A s, t \in Seq(RowIds) : \A r : r = s \o t => Joined(s, t, r)
      BY ConcatFacts
    <3> HIDE DEF Joined
    <3>2. Joined(x.seen, items, seen)
      BY ONLY <2>1, <2>2, <3>1, Zenon
    <3> QED BY <3>2, Zenon DEF Joined
  <2>4. \A i \in 1..n : items[i] = ids[i]
    BY <1>4
  <2> QED BY <2>2, <2>3, <2>4
<1>6. /\ \A i \in 1..Len(x.seen) : x.seen[i] \in ToSet(seen)
      /\ \A i \in 1..n : ids[i] \in ToSet(seen)
      /\ \A id : id \in ToSet(x.seen) => id \in ToSet(seen)
  <2> HIDE DEF n
  <2>0. \A a, b \in Nat : /\ \A i \in 1..b : a + i \in 1..a + b
                         /\ \A i \in 1..a : i \in 1..a + b
    OBVIOUS
  <2>1. \A i \in 1..n : Len(x.seen) + i \in 1..Len(x.seen) + n
    BY <1>1, <1>2, <2>0
  <2>2. \A i \in 1..Len(x.seen) : i \in 1..Len(x.seen) + n
    BY <1>1, <1>2, <2>0
  <2> QED BY <1>2, <1>5, <2>1, <2>2 DEF ToSet
<1>7. ASSUME NEW k \in DOMAIN seen
      PROVE  \/ k \in 1..Len(x.seen)
             \/ \E i \in 1..n : k = Len(x.seen) + i
  <2> HIDE DEF n
  <2>0. \A a, b \in Nat : \A i \in 1..a + b : i \in 1..a \/ (i - a \in 1..b /\ i = a + (i - a))
    OBVIOUS
  <2>1. k \in 1..Len(x.seen) \/ (k - Len(x.seen) \in 1..n /\ k = Len(x.seen) + (k - Len(x.seen)))
    BY <1>1, <1>2, <1>5, <2>0
  <2> QED BY <2>1
<1>8. ToSet(seen) \subseteq x.matched
  <2>1. \A i \in 1..Len(x.seen) : x.seen[i] \in x.matched
    BY <1>2 DEF Reading, ToSet
  <2>2. \A i \in 1..n : ids[i] \in x.matched
    BY <1>1, <1>2
  <2>3. \A k \in DOMAIN seen : seen[k] \in x.matched
    BY <1>5, <1>7, <2>1, <2>2
  <2> QED BY <2>3 DEF ToSet
<1>9. Sorted(table, seen)
  <2> SUFFICES ASSUME NEW i \in DOMAIN seen, NEW j \in DOMAIN seen, i < j
               PROVE  InOrder(table, seen[i], seen[j])
    BY DEF Sorted
  <2>1. CASE i \in 1..Len(x.seen) /\ j \in 1..Len(x.seen)
    BY <1>2, <1>5, <2>1 DEF Reading, Sorted
  <2>2. ASSUME NEW l \in 1..n, i \in 1..Len(x.seen), j = Len(x.seen) + l PROVE InOrder(table, seen[i], seen[j])
    <3>1. x.cursor # 0 /\ x.cursor = x.seen[Len(x.seen)] /\ x.cursor \in RowIds
      BY <1>2, <2>2 DEF Reading
    <3>2. InOrder(table, x.cursor, ids[l]) /\ ids[l] \in RowIds
      BY <1>1, <3>1
    <3>3. x.seen[i] = x.cursor \/ InOrder(table, x.seen[i], x.cursor)
      <4>1. CASE i = Len(x.seen)
        BY <3>1, <4>1
      <4>2. CASE i # Len(x.seen)
        <5>1. i < Len(x.seen) /\ Len(x.seen) \in 1..Len(x.seen)
          BY <1>2, <2>2, <4>2
        <5> QED BY <1>2, <2>2, <3>1, <5>1 DEF Reading, Sorted
      <4> QED BY <4>1, <4>2
    <3>4. seen[i] = x.seen[i] /\ seen[j] = ids[l] /\ x.seen[i] \in RowIds
      BY <1>2, <1>5, <2>2
    <3> HIDE DEF n
    <3> QED BY <3>1, <3>2, <3>3, <3>4, OrderFacts
  <2>3. ASSUME NEW k \in 1..n, NEW l \in 1..n, i = Len(x.seen) + k, j = Len(x.seen) + l
        PROVE  InOrder(table, seen[i], seen[j])
    <3>1. k < l /\ k \in DOMAIN ids /\ l \in DOMAIN ids
      BY <1>1, <1>2, <2>3
    <3> QED BY <1>5, <2>3, <3>1 DEF Sorted
  <2>4. ASSUME NEW k \in 1..n, i = Len(x.seen) + k, j \in 1..Len(x.seen) PROVE FALSE
    BY <1>1, <1>2, <2>4
  <2> QED BY <1>7, <2>1, <2>2, <2>3, <2>4
<1>10. CASE Len(ids) <= size
  <2>1. n = Len(ids) /\ cursor = 0
    BY <1>1, <1>3, <1>10
  <2>2. \A id \in past : id \in ToSet(ids)
    BY <1>1, <1>10
  <2>3. \A id \in past : id \in ToSet(seen)
    <3>1. DOMAIN ids = 1..n
      BY <1>1, <2>1
    <3>2. \A i \in 1..n : ids[i] \in ToSet(seen)
      BY <1>6
    <3>3. \A id \in past : \E i \in DOMAIN ids : ids[i] = id
      BY <2>2 DEF ToSet
    <3> HIDE DEF n
    <3> QED BY <3>1, <3>2, <3>3
  <2>4. \A id \in x.stable : id \in ToSet(seen)
    BY <1>2, <1>6, <2>3 DEF Reading
  <2> QED BY <1>5, <1>8, <1>9, <2>1, <2>4
<1>11. CASE Len(ids) > size
  <2>1. Len(ids) = size + 1 /\ n = size /\ cursor = Last(items) /\ size \in 1..n /\ size + 1 \in DOMAIN ids /\ size \in DOMAIN ids
    BY <1>1, <1>3, <1>11
  <2>2. cursor = ids[size] /\ cursor \in RowIds /\ cursor # 0 /\ Last(ids) = ids[size + 1] /\ Last(ids) \in RowIds
    BY <1>1, <1>2, <1>4, <2>1 DEF Last
  <2>3. Len(seen) > 0 /\ cursor = seen[Len(seen)]
    <3>1. Len(seen) = Len(x.seen) + size /\ seen[Len(x.seen) + size] = ids[size]
      BY <1>5, <2>1
    <3>2. Len(x.seen) + size > 0
      BY <1>2
    <3> QED BY <2>2, <3>1, <3>2
  <2>4. InOrder(table, cursor, Last(ids))
    BY <2>1, <2>2 DEF Sorted
  <2>5. ASSUME NEW id \in past PROVE id \in ToSet(seen) \/ InOrder(table, cursor, id)
    <3>1. CASE id \in ToSet(ids)
      <4>1. PICK i \in 1..Len(ids) : id = ids[i]
        BY <3>1 DEF ToSet
      <4>2. CASE i = size + 1
        BY <2>2, <2>4, <4>1, <4>2
      <4>3. CASE i # size + 1
        <5>1. i \in 1..n
          BY <2>1, <4>3
        <5> QED BY <1>6, <4>1, <5>1
      <4> QED BY <4>2, <4>3
    <3>2. CASE id \notin ToSet(ids)
      BY <1>1, <2>2, <2>4, <3>2, OrderFacts
    <3> QED BY <3>1, <3>2
  <2>6. \A id \in x.stable : id \in ToSet(seen) \/ InOrder(table, cursor, id)
    BY <1>2, <1>6, <2>5 DEF Reading
  <2> QED BY <1>5, <1>8, <1>9, <2>2, <2>3, <2>6
<1>12. Len(ids) <= size \/ Len(ids) > size
  BY <1>1
<1> HIDE DEF n
<1> QED BY <1>10, <1>11, <1>12, Zenon

\* The lists and their order depend on the table alone, which stays.
LEMMA SameTable ==
  ASSUME boTable' = boTable
  PROVE  /\ \A row, query : Where(row, query)' = Where(row, query)
         /\ \A table, a, b : Before(a, b) = InOrder(boTable, a, b)
BY DEF Where, ListRefunds, ListComplianceChecks, ListDiscrepancies, ListAuditLogs, ListSettlements, ListMerchants,
       ListInvoices, ListTransactions, Owned, Filtered, Before, InOrder

\* A client whose query is accepted begins soundly.
LEMMA StartListKeeps ==
  ASSUME BackOfficeInv, NEW p \in Pagers, NEW query \in Queries, StartList(p, query)
  PROVE  BackOfficeInv'
<1>1. /\ boTable' = boTable /\ boRows' = boRows /\ boCall' = boCall /\ boAudit' = boAudit
  BY DEF StartList
<1>2. \A q : Matching(q)' = Matching(q)
  BY <1>1, SameTable DEF Matching
<1> DEFINE x == [pc |-> "reading", query |-> query, cursor |-> 0, seen |-> <<>>,
                 stable |-> Matching(query), matched |-> Matching(query)]
           y == IF ValidLimit(query.limit) /\ ValidFilter(query) THEN x ELSE [pc |-> "refused"]
<1>3. boPager' = [boPager EXCEPT ![p] = y]
  BY DEF StartList
<1>4. PagerSound(boTable, Matching(y.query), y)
  <2>1. CASE ValidLimit(query.limit) /\ ValidFilter(query)
    <3>1. query \in [filter : Filters, limit : {NoLimit} \cup 1..MAX_PAGE_LIMIT,
                     merchant : {NoFilter} \cup Merchants]
      <4>1. query.limit \in {NoLimit} \cup 1..MAX_PAGE_LIMIT
        BY <2>1 DEF ValidLimit
      <4>2. FiltersOf(boTable) \subseteq Filters /\ NoFilter \in FiltersOf(boTable)
        BY DEF BackOfficeInv, Filters, FiltersOf
      <4>3. \E fs, ls, ms : query \in [filter : fs, limit : ls, merchant : ms]
                            /\ fs \subseteq Filters /\ ms \subseteq {NoFilter} \cup Merchants
        <5>1. CASE query \in [filter : FiltersOf(boTable), limit : {NoLimit, 0, MAX_PAGE_LIMIT},
                              merchant : IF boTable \in OwnLists THEN Merchants ELSE {NoFilter}]
          BY <4>2, <5>1
        <5>2. CASE query \in [filter : {NoFilter}, limit : {NoLimit}, merchant : Merchants]
          BY <4>2, <5>2
        <5> QED BY <5>1, <5>2 DEF Queries
      <4> QED BY <4>1, <4>3
    <3>2. Matching(query) \subseteq RowIds
      BY DEF Matching, BackOfficeInv, RowsSound
    <3> DEFINE now == Matching(query)
    <3> HIDE DEF now
    <3>3. x \in PagerStates
      <4>1. now \in SUBSET RowIds /\ <<>> \in Seq(RowIds)
        BY <3>2 DEF now
      <4>2. [pc |-> "reading", query |-> query, cursor |-> 0, seen |-> <<>>, stable |-> now, matched |-> now]
              \in PagerStates
        BY <3>1, <4>1 DEF PagerStates
      <4> QED BY <4>2 DEF now
    <3>4. Reading(boTable, now, x)
      BY DEF Reading, Sorted, ToSet, now
    <3>5. x.query = query /\ x.pc = "reading"
      OBVIOUS
    <3> QED BY <2>1, <3>3, <3>4, <3>5 DEF PagerSound, now
  <2>2. CASE ~(ValidLimit(query.limit) /\ ValidFilter(query))
    BY <2>2 DEF PagerSound
  <2> QED BY <2>1, <2>2
<1> HIDE DEF x, y
<1>5. \A r \in Pagers : PagerSound(boTable, Matching(boPager'[r].query), boPager'[r])
  BY <1>3, <1>4 DEF BackOfficeInv
<1>6. boPager' = [r \in Pagers |-> boPager'[r]]
  BY <1>3 DEF BackOfficeInv
<1> QED BY <1>1, <1>2, <1>5, <1>6 DEF BackOfficeInv

\* A page carries on where the one before stopped.
LEMMA ReadPageKeeps ==
  ASSUME BackOfficeInv, NEW p \in Pagers, ReadPage(p)
  PROVE  BackOfficeInv'
<1>1. /\ boTable' = boTable /\ boRows' = boRows /\ boCall' = boCall /\ boAudit' = boAudit
  BY DEF ReadPage
<1>2. \A q : Matching(q)' = Matching(q)
  BY <1>1, SameTable DEF Matching
<1> DEFINE x == boPager[p]
           size == parseLimit(x.query.limit)
           now == Matching(x.query)
           past == {id \in now : x.cursor = 0 \/ InOrder(boTable, x.cursor, id)}
<1>3. x.pc = "reading" /\ x \in PagerStates /\ Reading(boTable, now, x)
  BY DEF ReadPage, BackOfficeInv, PagerSound, IdlePager
<1>4. now \in SUBSET RowIds
  BY DEF Matching, BackOfficeInv, RowsSound
<1>5. size \in Nat \ {0}
  BY <1>3, BackOfficeConstants DEF PagerStates, parseLimit, BackOfficeConstants
<1>6. PICK ids \in FindMany(x.query, x.cursor, size) :
        boPager' = [boPager EXCEPT ![p].seen = @ \o paginate(ids, size).items,
                                   ![p].cursor = paginate(ids, size).nextCursor,
                                   ![p].pc = IF paginate(ids, size).nextCursor = 0 THEN "read" ELSE "reading"]
  BY DEF ReadPage
<1>7. /\ ids \in Seq(past) /\ Len(ids) <= size + 1 /\ Sorted(boTable, ids)
      /\ \A id \in past \ ToSet(ids) : Len(ids) = size + 1 /\ InOrder(boTable, Last(ids), id)
  <2>1. past = {id \in Matching(x.query) : x.cursor = 0 \/ Before(x.cursor, id)}
    BY <1>1, SameTable
  <2> HIDE DEF past, now, x, size
  <2>2. ids \in BoundedSeq(past, size + 1)
    BY <1>6, <2>1 DEF FindMany
  <2>3. ids \in Seq(past) /\ Len(ids) <= size + 1
    BY <1>5, <2>2 DEF BoundedSeq, SeqOf
  <2>4. /\ \A i, j \in DOMAIN ids : i < j => Before(ids[i], ids[j])
        /\ \A id \in past \ ToSet(ids) : Len(ids) = size + 1 /\ Before(Last(ids), id)
    BY <1>6, <2>1 DEF FindMany
  <2> QED BY <1>1, <2>3, <2>4, SameTable DEF Sorted
<1> DEFINE seen == x.seen \o paginate(ids, size).items
           cursor == paginate(ids, size).nextCursor
           y == [x EXCEPT !.seen = seen, !.cursor = cursor, !.pc = IF cursor = 0 THEN "read" ELSE "reading"]
<1>8. boPager' = [boPager EXCEPT ![p] = y]
  BY <1>6 DEF BackOfficeInv
<1>9. PageAfter(boTable, x, seen, cursor)
  <2>1. Answers(boTable, now, x, size, ids)
    BY <1>7 DEF Answers
  <2> HIDE DEF x, size, now
  <2> QED BY <1>3, <1>4, <1>5, <2>1, NextPage
<1>10. PagerSound(boTable, Matching(y.query), y)
  <2> HIDE DEF seen, cursor, x
  <2>1. /\ y.query = x.query /\ y.seen = seen /\ y.cursor = cursor /\ y.stable = x.stable /\ y.matched = x.matched
        /\ y.pc = IF cursor = 0 THEN "read" ELSE "reading"
        /\ y \in PagerStates
    BY <1>3, <1>9 DEF PagerStates, PageAfter
  <2> HIDE DEF y
  <2> QED BY <1>3, <1>9, <2>1 DEF PagerSound, Reading, ReadAll, PageAfter
<1> HIDE DEF y
<1>11. \A r \in Pagers : PagerSound(boTable, Matching(boPager'[r].query), boPager'[r])
  BY <1>8, <1>10 DEF BackOfficeInv
<1>12. boPager' = [r \in Pagers |-> boPager'[r]]
  BY <1>8 DEF BackOfficeInv
<1> QED BY <1>1, <1>2, <1>11, <1>12 DEF BackOfficeInv

\* A change of the rows leaves every reading sound.
LEMMA WatchedKeeps ==
  ASSUME BackOfficeInv, boTable' = boTable, RowsSound(boTable, boRows'), boPager' = Watched(boRows')
  PROVE  /\ boPager' = [p \in Pagers |-> boPager'[p]]
         /\ \A p \in Pagers : PagerSound(boTable', Matching(boPager[p].query)', boPager'[p])
<1>1. boPager' = [p \in Pagers |-> boPager'[p]]
  BY DEF Watched
<1>2. ASSUME NEW p \in Pagers PROVE PagerSound(boTable', Matching(boPager[p].query)', boPager'[p])
  <2> DEFINE x == boPager[p]
             now == {id \in DOMAIN boRows' : Where(boRows'[id], x.query)}
             y == [x EXCEPT !.stable = x.stable \cap now, !.matched = x.matched \cup now]
  <2>1. PagerSound(boTable, Matching(x.query), x)
    BY DEF BackOfficeInv
  <2>2. CASE x.pc # "reading"
    <3>1. boPager'[p] = x
      BY <2>2 DEF Watched
    <3> HIDE DEF x
    <3> QED BY <2>1, <2>2, <3>1 DEF PagerSound
  <2>3. CASE x.pc = "reading"
    <3>1. boPager'[p] = y
      BY <2>3 DEF Watched
    <3>2. x \in PagerStates /\ Reading(boTable, Matching(x.query), x)
      BY <2>1, <2>3 DEF PagerSound, IdlePager
    <3>3. now \in SUBSET RowIds
      BY DEF RowsSound
    <3> HIDE DEF x
    <3> SUFFICES ASSUME TRUE PROVE PagerSound(boTable', Matching(boPager[p].query)', y)
      BY <3>1
    <3> HIDE DEF now
    <3>4. /\ y.query = x.query /\ y.seen = x.seen /\ y.cursor = x.cursor /\ y.pc = "reading"
          /\ y.stable = x.stable \cap now /\ y.matched = x.matched \cup now /\ y \in PagerStates
      BY <2>3, <3>2, <3>3 DEF PagerStates
    <3> HIDE DEF y
    <3>5. Matching(boPager[p].query)' = now
      <4>1. boPager'[p].query = x.query
        BY <3>1, <3>4
      <4> QED BY <4>1, SameTable DEF Matching, now
    <3>6. Reading(boTable, now, y)
      BY <3>2, <3>4 DEF Reading
    <3> QED BY <3>4, <3>5, <3>6 DEF PagerSound
  <2> QED BY <2>2, <2>3
<1> QED BY <1>1, <1>2

\* A row appears.
LEMMA InsertRowKeeps ==
  ASSUME BackOfficeInv, NEW id \in 1..MaxRows, NEW m \in RowOwners, NEW s \in CreatedIn[boTable],
         InsertRow(id, [merchant |-> m, state |-> s])
  PROVE  BackOfficeInv'
<1> DEFINE row == [merchant |-> m, state |-> s]
<1>1. /\ boRows' = [i \in DOMAIN boRows \cup {id} |-> IF i = id THEN row ELSE boRows[i]]
      /\ boTable' = boTable /\ boCall' = boCall /\ boAudit' = boAudit /\ boPager' = Watched(boRows')
  BY DEF InsertRow
<1>2. m \in Merchants
  BY BackOfficeConstants DEF RowOwners, BackOfficeConstants
<1>3. RowsSound(boTable, boRows')
  <2>1. row \in [merchant : Merchants, state : RowStates(boTable)]
    BY <1>2 DEF RowStates
  <2> HIDE DEF row
  <2> QED BY <1>1, <2>1 DEF RowsSound, BackOfficeInv, RowIds
<1>4. \A c \in DecisionCalls : DecisionSound(boTable, boRows', boCall[c])
  <2>1. DOMAIN boRows \subseteq DOMAIN boRows'
    BY <1>1
  <2> QED BY <2>1 DEF BackOfficeInv, DecisionSound
<1> QED BY <1>1, <1>3, <1>4, WatchedKeeps DEF BackOfficeInv

\* A row is read and found decidable.
LEMMA ReadDecidedKeeps ==
  ASSUME BackOfficeInv, NEW c \in DecisionCalls, NEW admin \in Admins, NEW id \in 1..MaxRows,
         NEW decision \in Decisions(boTable), ReadDecided(c, admin, id, decision)
  PROVE  BackOfficeInv'
<1> DEFINE x == [pc |-> "decide", admin |-> admin, id |-> id, decision |-> decision, before |-> boRows[id].state]
<1>1. /\ boCall' = [boCall EXCEPT ![c] = x] /\ id \in DOMAIN boRows
      /\ UNCHANGED <<boTable, boRows, boPager, boAudit>>
  BY DEF ReadDecided
<1>2. boRows[id].state \in RowStates(boTable)
  BY <1>1 DEF BackOfficeInv, RowsSound
<1>3. DecisionSound(boTable, boRows, x)
  BY <1>1, <1>2 DEF DecisionSound
<1> HIDE DEF x
<1>4. /\ boCall' = [d \in DecisionCalls |-> boCall'[d]]
      /\ \A d \in DecisionCalls : DecisionSound(boTable, boRows, boCall'[d])
  BY <1>1, <1>3 DEF BackOfficeInv
<1>5. \A q : Matching(q)' = Matching(q)
  BY <1>1, SameTable DEF Matching
<1> QED BY <1>1, <1>4, <1>5 DEF BackOfficeInv

\* A decision is written, with its audit row.
LEMMA WriteDecisionKeeps ==
  ASSUME BackOfficeInv, NEW c \in DecisionCalls, NEW table, WriteDecision(c, table)
  PROVE  BackOfficeInv'
<1> DEFINE d == boCall[c]
           entry == [actor |-> d.admin, id |-> d.id, before |-> d.before, after |-> d.decision]
<1>1. /\ boTable' = boTable /\ d.pc = "decide"
      /\ boRows' = [boRows EXCEPT ![d.id].state = d.decision]
      /\ boPager' = Watched(boRows') /\ boAudit' = Append(boAudit, entry)
      /\ boCall' = [boCall EXCEPT ![c] = [pc |-> "answered"]]
  BY DEF WriteDecision, AuditLogRecord
<1>2. d \in [pc : {"decide"}, admin : Admins, id : DOMAIN boRows, decision : Decisions(boTable),
             before : RowStates(boTable)]
  BY <1>1 DEF BackOfficeInv, DecisionSound, IdleDecision
<1>3. DOMAIN boRows \subseteq RowIds
  BY DEF BackOfficeInv, RowsSound
<1>4. /\ d.id \in RowIds /\ d.id \in DOMAIN boRows /\ d.decision \in RowStates(boTable)
      /\ entry \in AuditRows(boTable)
  BY <1>2, <1>3 DEF AuditRows, RowStates
<1> HIDE DEF d, entry
<1>5. RowsSound(boTable, boRows') /\ DOMAIN boRows' = DOMAIN boRows
  BY <1>1, <1>4 DEF RowsSound, BackOfficeInv
<1>6. /\ boCall' = [e \in DecisionCalls |-> boCall'[e]]
      /\ \A e \in DecisionCalls : DecisionSound(boTable, boRows', boCall'[e])
  <2>1. boCall' = [e \in DecisionCalls |-> boCall'[e]]
    BY <1>1 DEF BackOfficeInv
  <2>2. ASSUME NEW e \in DecisionCalls PROVE DecisionSound(boTable, boRows', boCall'[e])
    <3>1. CASE e = c
      BY <1>1, <3>1 DEF BackOfficeInv, DecisionSound
    <3>2. CASE e # c
      <4>1. boCall'[e] = boCall[e]
        BY <1>1, <3>2 DEF BackOfficeInv
      <4> QED BY <1>5, <4>1 DEF BackOfficeInv, DecisionSound
    <3> QED BY <3>1, <3>2
  <2> QED BY <2>1, <2>2
<1>7. boAudit' \in Seq(AuditRows(boTable))
  BY <1>1, <1>4 DEF BackOfficeInv
<1> QED BY <1>1, <1>5, <1>6, <1>7, WatchedKeeps DEF BackOfficeInv

\* The invariant holds of an empty table.
LEMMA BackOfficeInitInv == BackOfficeInit => BackOfficeInv
<1> SUFFICES ASSUME BackOfficeInit PROVE BackOfficeInv
  OBVIOUS
<1>1. RowsSound(boTable, boRows)
  BY DEF BackOfficeInit, RowsSound
<1> QED BY <1>1 DEF BackOfficeInit, BackOfficeInv, PagerSound, DecisionSound

\* Every step keeps it.
LEMMA BackOfficeStepInv == BackOfficeInv /\ [BackOfficeNext]_boVars => BackOfficeInv'
<1> SUFFICES ASSUME BackOfficeInv, [BackOfficeNext]_boVars PROVE BackOfficeInv'
  OBVIOUS
<1>1. CASE UNCHANGED boVars
  <2>1. UNCHANGED <<boTable, boRows, boPager, boCall, boAudit>>
    BY <1>1 DEF boVars
  <2>2. \A q : Matching(q)' = Matching(q)
    BY <2>1, SameTable DEF Matching
  <2> QED BY <2>1, <2>2 DEF BackOfficeInv
<1>2. CASE BackOfficeNext
  BY <1>2, StartListKeeps, ReadPageKeeps, InsertRowKeeps, ReadDecidedKeeps, WriteDecisionKeeps
     DEF BackOfficeNext, DecideRefund, ReviewComplianceCheck, ResolveDiscrepancy
<1> QED BY <1>1, <1>2

\* The invariant gives the types.
LEMMA BackOfficeTyped == BackOfficeInv => BackOfficeTypeOK
<1> SUFFICES ASSUME BackOfficeInv PROVE BackOfficeTypeOK
  OBVIOUS
<1>1. /\ DOMAIN boRows \subseteq 1..MaxRows
      /\ \A id \in DOMAIN boRows : boRows[id] \in [merchant : Merchants, state : CreatedIn[boTable] \cup Decisions(boTable)]
  BY DEF BackOfficeInv, RowsSound, RowIds, RowStates
<1>2. \A p \in Pagers : boPager[p].pc \in {"idle", "reading", "read", "refused"}
  BY DEF BackOfficeInv, PagerSound, PagerStates, IdlePager
<1>3. \A c \in DecisionCalls : boCall[c].pc \in {"idle", "decide", "answered"}
  BY DEF BackOfficeInv, DecisionSound, IdleDecision
<1>4. \A i \in DOMAIN boAudit : boAudit[i].after \in Decisions(boTable)
  <2>1. \A i \in DOMAIN boAudit : boAudit[i] \in AuditRows(boTable)
    BY DEF BackOfficeInv
  <2> QED BY <2>1 DEF AuditRows
<1> QED BY <1>1, <1>2, <1>3, <1>4 DEF BackOfficeInv, BackOfficeTypeOK

\* For any table, any number of clients, rows and decisions, and any limits
\* on a page: whoever followed the cursors to the end saw what matched all
\* the while, nothing twice, in order, and nothing that never matched.
THEOREM ListsAreComplete == BackOfficeSpec => []PagesComplete
<1>1. ASSUME BackOfficeInv PROVE PagesComplete
  <2> SUFFICES ASSUME NEW p \in Pagers, boPager[p].pc = "read"
               PROVE  /\ \A i, j \in DOMAIN boPager[p].seen : i < j => Before(boPager[p].seen[i], boPager[p].seen[j])
                      /\ boPager[p].stable \subseteq ToSet(boPager[p].seen)
                      /\ ToSet(boPager[p].seen) \subseteq boPager[p].matched
    BY DEF PagesComplete
  <2>1. ReadAll(boTable, boPager[p])
    BY <1>1 DEF BackOfficeInv, PagerSound, IdlePager
  <2>2. \A a, b : Before(a, b) = InOrder(boTable, a, b)
    BY DEF Before, InOrder
  <2> QED BY <2>1, <2>2 DEF ReadAll, Sorted
<1> QED BY <1>1, BackOfficeInitInv, BackOfficeStepInv, PTL DEF BackOfficeSpec
=============================================================================
