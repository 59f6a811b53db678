---------------------------- MODULE RateLimiter ------------------------------
(***************************************************************************)
(* RateLimitGuard over the fixed-window counter in Redis.  The script      *)
(* (INCR, PEXPIRE on the first, PTTL) is atomic, so any number of API      *)
(* replicas share one counter per bucket; the model has one bucket.        *)
(***************************************************************************)
EXTENDS Integers, Sequences

CONSTANTS
  rateLimit,      \* the profile's RATE_LIMIT_*_PER_MINUTE
  windowTicks,    \* WINDOW_SECONDS
  MaxRateClock,   \* bound on the clock
  MaxHits         \* bound on the counter

ASSUME RateLimitConstants ==
  /\ rateLimit \in Nat \ {0} /\ windowTicks \in Nat \ {0}
  /\ MaxRateClock \in Nat /\ MaxHits \in Nat

VARIABLES
  rateClock,
  rateCount, rateTtl,  \* the Redis key; count 0 without a key
  rateAllowed,         \* when the requests let through came, in order
  ratePromises         \* when refused callers were told to come back

rateVars == <<rateClock, rateCount, rateTtl, rateAllowed, ratePromises>>

RateInit ==
  /\ rateClock = 0 /\ rateCount = 0 /\ rateTtl = 0
  /\ rateAllowed = <<>>
  /\ ratePromises = {}

\* FIXED_WINDOW_SCRIPT: the counter and the time to live it leaves behind.
FixedWindowCount == rateCount + 1
\* (Mutant: every hit starts the window again.)
slidingTtl == windowTicks
FixedWindowTtl == IF rateCount = 0 THEN windowTicks ELSE rateTtl

\* retryAfterSeconds: at least 1.
RetryAfter == IF FixedWindowTtl > 0 THEN FixedWindowTtl ELSE windowTicks

\* (Mutant: one too many.)
withinLimitAndOne(count) == count <= rateLimit + 1
WithinLimit(count) == count <= rateLimit

\* RateLimiter.consume and RateLimitGuard.canActivate.
Consume ==
  /\ rateCount < MaxHits
  /\ rateCount' = FixedWindowCount
  /\ rateTtl' = FixedWindowTtl
  /\ \/ /\ WithinLimit(FixedWindowCount)
        /\ rateAllowed' = Append(rateAllowed, rateClock)
        /\ UNCHANGED ratePromises
     \/ /\ ~WithinLimit(FixedWindowCount)
        /\ ratePromises' = ratePromises \cup {rateClock + RetryAfter}
        /\ UNCHANGED rateAllowed
  /\ UNCHANGED rateClock

\* A second passes; Redis drops the key when its time to live is over.
RateTick ==
  /\ rateClock < MaxRateClock
  /\ rateClock' = rateClock + 1
  /\ rateTtl' = IF rateTtl > 0 THEN rateTtl - 1 ELSE 0
  /\ rateCount' = IF rateTtl <= 1 THEN 0 ELSE rateCount
  /\ UNCHANGED <<rateAllowed, ratePromises>>

RateNext == Consume \/ RateTick

RateSpec == RateInit /\ [][RateNext]_rateVars

-----------------------------------------------------------------------------

RateTypeOK ==
  /\ rateClock \in 0..MaxRateClock
  /\ rateCount \in 0..MaxHits /\ rateTtl \in 0..windowTicks
  /\ rateAllowed \in Seq(0..MaxRateClock)

\* In any stretch of time as long as the window at most twice the limit gets
\* through ("up to 2x limit requests across a window boundary"): the request
\* let through 2 * limit after another comes more than a window later.
BurstBounded ==
  \A i, j \in DOMAIN rateAllowed :
    j = i + 2 * rateLimit => rateAllowed[j] - rateAllowed[i] > windowTicks

\* Retry-After is kept: at the moment a refused caller was told to come back
\* the window that refused it is over, however many requests, allowed or
\* refused, came in between (RateLimiter.consume answers with the key's own
\* time to live, and a hit never prolongs it).
RetryAfterKept ==
  [][rateClock' # rateClock /\ rateClock' \in ratePromises => rateCount' = 0]_rateVars
=============================================================================
