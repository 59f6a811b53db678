------------------------------ MODULE MoneyMath ------------------------------
(***************************************************************************)
(* Amounts of money (packages/shared/src/money): integers of an asset's    *)
(* smallest unit, decimal strings at the edge of the system, and division  *)
(* with an explicit rounding mode.  A decimal string is its whole part,    *)
(* its digits after the point, and how many of them there are.             *)
(***************************************************************************)
EXTENDS Integers

CONSTANT RATE_SCALE   \* decimals of a rate; 18 in the code

ASSUME RateScaleAssumption == RATE_SCALE \in Nat

powersOf10[exponent \in Nat] == IF exponent = 0 THEN 1 ELSE 10 * powersOf10[exponent - 1]
pow10(exponent) == powersOf10[exponent]

Decimals == [whole : Nat, fraction : Nat, places : Nat]
Decimal(whole, fraction, places) == [whole |-> whole, fraction |-> fraction, places |-> places]

\* parseUnits refuses more decimals than the asset has instead of rounding.
Parses(value, decimals) == value.places <= decimals

parseUnits(value, decimals) ==
  value.whole * pow10(decimals) + value.fraction * pow10(decimals - value.places)

\* formatUnits shows every decimal place the asset has.
formatUnits(units, decimals) ==
  Decimal(units \div pow10(decimals), units % pow10(decimals), decimals)

\* Division of bigints cuts off towards zero; divisors are positive.
Quotient(n, d) == IF n < 0 THEN -((-n) \div d) ELSE n \div d
HasRemainder(n, d) == Quotient(n, d) * d # n

divFloor(n, d) == Quotient(n, d) - (IF HasRemainder(n, d) /\ n < 0 THEN 1 ELSE 0)

\* (Mutant: the remainder is dropped.)
divTruncate(n, d) == Quotient(n, d)
divCeil(n, d) == Quotient(n, d) + (IF HasRemainder(n, d) /\ n >= 0 THEN 1 ELSE 0)

divHalfUp(n, d) ==
  LET abs     == IF n < 0 THEN -n ELSE n
      rounded == (abs \div d) + (IF (abs % d) * 2 >= d THEN 1 ELSE 0)
  IN IF n < 0 THEN -rounded ELSE rounded

divide(n, d, mode) ==
  CASE mode = "floor" -> divFloor(n, d)
    [] mode = "ceil" -> divCeil(n, d)
    [] mode = "half-up" -> divHalfUp(n, d)

multiplyRatio(units, numerator, denominator, mode) == divide(units * numerator, denominator, mode)

\* Money.percentageBps: a share in hundredths of a percent.
percentageBps(units, bps, mode) == multiplyRatio(units, bps, 10000, mode)

\* ExchangeRate.convertQuoteToBase: what to collect for an amount asked for.
convertQuoteToBase(units, decimals, rate, baseDecimals, mode) ==
  divide(units * pow10(baseDecimals) * pow10(RATE_SCALE), pow10(decimals) * rate, mode)
=============================================================================
