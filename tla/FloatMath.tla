----------------------------- MODULE FloatMath ------------------------------
(***************************************************************************)
(* The floats that CPython's math module and float ** return, at the       *)
(* mantissa width MANT_BITS of module Float.  libm's sin and pow are       *)
(* taken to be correctly rounded: the result is the rounding of the true   *)
(* value, which lies within the certified bounds of RealBounds, so it is   *)
(* the rounding of one of the two bounds.  A result is therefore a set of  *)
(* at most two floats; it has two members only for a value within a bound *)
(* width (2^-20 relative or less) of a rounding boundary.                  *)
(***************************************************************************)
EXTENDS Float, RealBounds

(* The set of roundings of a real known to lie in [b[1], b[2]] / scale. *)
FloatsIn(b, scale) == {FRound(b[1], scale), FRound(b[2], scale)}

(* math.pi: the float nearest pi. *)
PI_F == FRound(PI_LO, SIN_SCALE)

(* math.sin(a) for a float angle 0 <= a < 2 pi. *)
FSin(a) == FloatsIn(SinOfRadians(InUnits(a, 24)), SIN_SCALE)

(* math.e: the float nearest e. *)
E_BOUNDS == ExpXBounds(1, 1)
E_F == FRound(E_BOUNDS[1], EXP_SCALE)

ASSUME /\ FRound(PI_HI, SIN_SCALE) = PI_F
       /\ FRound(E_BOUNDS[2], EXP_SCALE) = E_F

(***************************************************************************)
(* e_f ** x for a float x = n / den > 0, as e^x * (e_f/e)^x.  With         *)
(* delta = e_f/e - 1, ln(e_f/e) lies in [delta - delta^2, delta], and for  *)
(* w = x * ln(e_f/e) the factor e^w lies in [1 + w, 1 + w + w^2].  All    *)
(* quantities are in units 2^-20, rounded outwards.  The operators take    *)
(* the bounds they need as arguments, bound once by their callers.         *)
(***************************************************************************)

(* floor and ceiling of a * 2^20 / e, for |a| small and eb the bounds of e. *)
OverELo(a, eb) == IF a >= 0 THEN (a * EXP_SCALE) \div eb[2]
                            ELSE (a * EXP_SCALE) \div eb[1]
OverEHi(a, eb) == -OverELo(-a, eb)

(* Bounds of ln(e_f / e) in units 2^-20, from the bounds eb of e and e_f  *)
(* in units 2^-20.                                                         *)
LnRatio(eb, ef) ==
    LET dlo == OverELo(ef - eb[2], eb)
        dhi == OverEHi(ef - eb[1], eb)
        mag == IF -dlo > dhi THEN -dlo ELSE dhi
    IN  <<dlo - CeilDiv(mag * mag, EXP_SCALE), dhi>>

LN_RATIO == CHOOSE r \in {LnRatio(eb, InUnits(E_F, 20)) : eb \in {E_BOUNDS}} : TRUE

ASSUME -2^10 < LN_RATIO[1] /\ LN_RATIO[2] < 2^10

(* floor(y * h / 2^20) for 0 <= y < 2^31 and |h| < 2^11. *)
MulDiv20(y, h) == ((y \div 2^14) * h + ((y % 2^14) * h) \div 2^14) \div 2^6

(* Bounds of e_f^(n/den) from the bounds y of e^(n/den) and r of ln(e_f/e). *)
PowEF(y, r, n, den) ==
    LET wl == (r[1] * n) \div den
        wh == -((-r[2] * n) \div den)
        wm == IF -wl > wh THEN -wl ELSE wh
        hh == wh + CeilDiv(wm, 2^10) * CeilDiv(wm, 2^10)
    IN  <<y[1] + MulDiv20(y[1], wl), y[2] - MulDiv20(y[2], -hh)>>

(* Bounds of e_f^(n/den) in units 2^-20, for n < EXP_X_MAX * den. *)
PowEFBounds(n, den) ==
    CHOOSE b \in {PowEF(y, r, n, den) : y \in {ExpXBounds(n, den)}, r \in {LN_RATIO}} : TRUE

(* base ** x for the float x > 0 and the exp bases modelled: e_f ** x, or  *)
(* 1.0 ** x = 1.0.  A power of x >= EXP_X_MAX (above 2^10 for e_f) is     *)
(* represented by the float TOO_LARGE: every caller only tests whether it  *)
(* exceeds a bound far below.                                              *)
TOO_LARGE == FromInt(2^10)
FPow(base, x) ==
    IF base = "1" THEN {FromInt(1)}
    ELSE LET den == IF x[2] < 0 THEN 2^(-x[2]) ELSE 1
             n == IF x[2] < 0 THEN x[1] ELSE x[1] * 2^x[2]
         IN  IF n >= EXP_X_MAX * den THEN {TOO_LARGE}
             ELSE FloatsIn(PowEFBounds(n, den), EXP_SCALE)
=============================================================================
