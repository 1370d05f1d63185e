------------------------------ MODULE Decimals ------------------------------
(***************************************************************************)
(* math.LegacyDec of the Cosmos SDK, as x/dynamicfee and x/photon use it: a *)
(* decimal is an integer number of units, of which One make 1.0 (10^18 in   *)
(* the SDK).  Products and quotients are rounded to a unit, a half to the   *)
(* even neighbour, and away from the sign.                                  *)
(***************************************************************************)
EXTENDS Integers

CONSTANT One

ASSUME OneAssumption == One \in Nat /\ One > 1

Abs(x) == IF x < 0 THEN -x ELSE x

\* chopPrecisionAndRound of a natural number: x / One, a half to even.
ChopNat(x) ==
    LET q == x \div One
        r == x % One
    IN  IF 2 * r > One \/ (2 * r = One /\ q % 2 = 1) THEN q + 1 ELSE q

ChopRound(x) == IF x < 0 THEN -ChopNat(-x) ELSE ChopNat(x)

ToDec(n) == n * One

Mul(a, b) == ChopRound(a * b)

\* Quo for a positive divisor: truncated at twice the precision, then rounded.
Quo(a, b) ==
    IF a < 0 THEN -ChopNat((-a * One * One) \div b)
             ELSE ChopNat((a * One * One) \div b)

RoundInt(d) == ChopRound(d)

TruncateInt(d) == d \div One

\* Ceil, as an integer.
CeilInt(d) == -((-d) \div One)
=============================================================================
