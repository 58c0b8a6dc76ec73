------------------------------- MODULE Float --------------------------------
(***************************************************************************)
(* Binary floating point with MANT_BITS bits of mantissa (53 for the      *)
(* doubles of CPython), as the generators' float arithmetic uses it.  A    *)
(* float is <<m, e>> with value m * 2^e and 2^(MANT_BITS-1) <= |m| <      *)
(* 2^MANT_BITS, or <<0, 0>>.  Every operation rounds its exact result to   *)
(* nearest, ties to even (IEEE 754 round-to-nearest).  The exponent range  *)
(* is unbounded: no value the generators form comes near it.               *)
(***************************************************************************)
EXTENDS Integers

CONSTANT MANT_BITS

Abs(y) == IF y < 0 THEN -y ELSE y

(* floor(log2 a) for 0 < a < 2^31. *)
Log2Floor(a) == CHOOSE k \in 0 .. 30 : a \div 2^k = 1

(* n / d rounded to the nearest integer, a tie going to the even one. *)
RoundHalfEven(n, d) ==
    LET q == n \div d
        r == n % d
    IN  IF 2 * r > d \/ (2 * r = d /\ q % 2 = 1) THEN q + 1 ELSE q

(* a / (d * 2^ex) as FNum(a, ex) / FDen(d, ex), without a fractional     *)
(* power.                                                                  *)
FNum(a, ex) == IF ex >= 0 THEN a ELSE a * 2^(-ex)
FDen(d, ex) == IF ex >= 0 THEN d * 2^ex ELSE d

(* The exponent ex that puts a / (d * 2^ex) in [2^(MANT_BITS-1),           *)
(* 2^MANT_BITS).                                                           *)
FExponent(a, d) ==
    LET ex0 == Log2Floor(a) - Log2Floor(d) - (MANT_BITS - 1)
    IN  IF FNum(a, ex0) \div FDen(d, ex0) >= 2^(MANT_BITS - 1) THEN ex0 ELSE ex0 - 1

(* The float nearest to n / d, for d > 0. *)
FRound(n, d) ==
    IF n = 0 THEN <<0, 0>>
    ELSE LET a == Abs(n)
             s == IF n < 0 THEN -1 ELSE 1
             ex == FExponent(a, d)
             q == RoundHalfEven(FNum(a, ex), FDen(d, ex))
         IN  IF q = 2^MANT_BITS THEN <<s * 2^(MANT_BITS - 1), ex + 1>>
             ELSE <<s * q, ex>>

(* float(i) for an int i. *)
FromInt(z) == FRound(z, 1)

(* The value of f in units 2^-u, for u >= -f[2]. *)
InUnits(f, u) == f[1] * 2^(f[2] + u)

(* f * g, and f * 2^k (exact: no over- or underflow is reached). *)
FMul(f, g) ==
    LET e == f[2] + g[2]
    IN  IF e >= 0 THEN FRound(f[1] * g[1] * 2^e, 1) ELSE FRound(f[1] * g[1], 2^(-e))
FScale2(f, k) == IF f[1] = 0 THEN f ELSE <<f[1], f[2] + k>>

(* f + k/2 for an integer k, as moved_sin + 0.5 and value + 0.5 form it. *)
FAddHalves(f, k) ==
    LET u == IF -f[2] > 1 THEN -f[2] ELSE 1
    IN  FRound(InUnits(f, u) + k * 2^(u - 1), 2^u)

(* int(f): truncation toward zero. *)
FTrunc(f) ==
    IF f[2] >= 0 THEN f[1] * 2^f[2]
    ELSE IF f[1] >= 0 THEN f[1] \div 2^(-f[2]) ELSE -((-f[1]) \div 2^(-f[2]))
=============================================================================
