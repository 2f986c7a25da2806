----------------------------- MODULE Conversion -----------------------------
(***************************************************************************)
(* The fx service's arithmetic: an amount in minor units of one currency,  *)
(* converted with two rates to minor units of another.                     *)
(*                                                                         *)
(* The rates of a snapshot are decimals of one precision, here the integer *)
(* without its point; a missing one is 0.                                  *)
(***************************************************************************)
EXTENDS Integers

CONSTANTS Currencies,   \* the supported ones
          MinorUnits,   \* minor units of a major unit: 10^MinorUnitDigits
          MaxAmount     \* the largest int64

\* A fraction, as the code's rational numbers are.
Ratio(numerator, denominator) == [num |-> numerator, den |-> denominator]

\* minorToMajor, the exchange rate, and the scale of the target.
Exact(amount, source, target, rates) ==
  Ratio(amount * rates[target] * MinorUnits[target], rates[source] * MinorUnits[source])

\* Mutated rounding: halves are cut off.
RoundHalfTowardsZero(r) ==
  LET quotient == r.num \div r.den
      rounded == IF 2 * (r.num % r.den) > r.den THEN quotient + 1 ELSE quotient
  IN IF rounded > MaxAmount THEN MaxAmount ELSE rounded

\* Amounts are positive.
RoundHalfAwayFromZero(r) ==
  LET quotient == r.num \div r.den
      rounded == IF 2 * (r.num % r.den) >= r.den THEN quotient + 1 ELSE quotient
  IN IF rounded > MaxAmount THEN MaxAmount ELSE rounded

Converted(amount, source, target, rates) ==
  IF source = target THEN amount
  ELSE RoundHalfAwayFromZero(Exact(amount, source, target, rates))

HasRate(rates, currency) == currency \in Currencies /\ rates[currency] > 0

\* What a request is refused for before any rate is looked at, and after.
Invalid(amount, source, target) ==
  CASE amount = 0 -> "INVALID_AMOUNT"
    [] amount # 0 /\ {source, target} \subseteq Currencies -> "none"
    [] OTHER -> "UNSUPPORTED_CURRENCY"

RateError(rates, source, target) ==
  IF HasRate(rates, source) /\ HasRate(rates, target) THEN "none" ELSE "RATE_MISSING"
-----------------------------------------------------------------------------
\* convertFromRates, roundHalfAwayFromZero: the result is the amount of minor
\* units nearest to the exact value, the larger of two equally near ones, cut off
\* at the largest amount; so a larger amount never converts to a smaller one.
NearestTo(converted, exact) ==
  \/ /\ converted <= MaxAmount
     /\ 2 * exact.num < (2 * converted + 1) * exact.den
     /\ 2 * exact.num + exact.den >= 2 * converted * exact.den
  \/ converted = MaxAmount /\ exact.num >= MaxAmount * exact.den

IsNearest(amount, source, target, rates) ==
  LET converted == Converted(amount, source, target, rates)
  IN /\ source = target => converted = amount
     /\ source # target => NearestTo(converted, Exact(amount, source, target, rates))
     /\ converted <= Converted(amount + 1, source, target, rates)
=============================================================================
