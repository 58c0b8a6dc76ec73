----------------------------- MODULE Quantizer -----------------------------
(***************************************************************************)
(* The fixed-point quantizers of the LUT generators.  A real value is      *)
(* given as the rational n/d with d > 0: every value the generators round  *)
(* (a Decimal, or a float, times the fixed-point scale) is such a ratio.   *)
(***************************************************************************)
EXTENDS Integers

(* Python's int() on a real: truncation toward zero. *)
Trunc(n, d) == IF n >= 0 THEN n \div d ELSE -((-n) \div d)

(* The sine quantizer:                                                     *)
(*   int(moved_sin + 0.5) if moved_sin > 0 else int(moved_sin - 0.5)       *)
(* with moved_sin = n/d, so moved_sin +- 0.5 = (2n +- d)/(2d).           *)
RoundSin(n, d) == IF n > 0 THEN Trunc(2 * n + d, 2 * d)
                           ELSE Trunc(2 * n - d, 2 * d)

(* The exponential quantizer: int(value * divisor + 0.5), no sign branch.  *)
RoundExp(n, d) == Trunc(2 * n + d, 2 * d)

(* Reference: the integer nearest to n/d, a tie going away from zero.      *)
AbsVal(x) == IF x < 0 THEN -x ELSE x
NearestAwayFromZero(n, d) ==
    LET near == {k \in (n \div d) - 1 .. (n \div d) + 2 :
                    AbsVal(2 * (k * d - n)) <= d}
    IN  CHOOSE k \in near : \A j \in near : AbsVal(j) <= AbsVal(k)
=============================================================================
