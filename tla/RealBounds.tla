----------------------------- MODULE RealBounds -----------------------------
(***************************************************************************)
(* The real values the generators evaluate (sine, and powers of the       *)
(* exponential base) as certified integer bounds: a pair <<lo, hi>> of     *)
(* integers in units of 1/SCALE with lo <= SCALE * value <= hi.  TLC has   *)
(* 32-bit integers only, so products are formed from limbs (MulQR).       *)
(* and no intermediate exceeds 2^31.                                       *)
(***************************************************************************)
EXTENDS Integers

LIMB == 2^12        \* the limb of the sine bounds in units 2^-24
FINE_LIMB == 2^14   \* the limb of the finer sine bounds, units 2^-28

(* <<q, r>> with a * b = q * L^2 + r and 0 <= r < L^2, for                *)
(* 0 <= a, b < 2 * L^2: the product is formed from limbs L so that no      *)
(* intermediate exceeds 4 * L^2 (2^30 for L = 2^14).                       *)
MulQR(a, b, L) ==
    LET ah == a \div L   al == a % L
        bh == b \div L   bl == b % L
        mid == ah * bl + al * bh
        low == (mid % L) * L + al * bl
    IN  <<ah * bh + mid \div L + low \div (L * L), low % (L * L)>>

(* floor and ceiling of a * b / L^2. *)
MulDivL(a, b, L) == MulQR(a, b, L)[1]
MulDivLUp(a, b, L) == LET qr == MulQR(a, b, L) IN qr[1] + (IF qr[2] > 0 THEN 1 ELSE 0)

(* floor(a * b / m) as (a \div m) * b + ((a % m) * b) \div m, for a small  *)
(* m * b.                                                                  *)
MulDivSmall(a, b, m) == (a \div m) * b + ((a % m) * b) \div m

CeilDiv(a, n) == (a + n - 1) \div n

(***************************************************************************)
(* Sine.  SIN_SCALE = 2^24 leaves 16 bits below the finest fixed-point     *)
(* grid of the scaled generators (2^-8), so a sample is ambiguous only     *)
(* within about 2^-20 of a rounding tie.  The series is generic in its      *)
(* limb L, in units 1/L^2: FINE_SCALE = 2^28 serves the 16-bit tables of   *)
(* the 512-entry script.                                                    *)
(***************************************************************************)
SIN_SCALE == 2^24
PI_LO == 52707178        \* floor(pi * 2^24)
PI_HI == 52707179        \* ceiling(pi * 2^24)
FINE_SCALE == 2^28
FINE_PI_LO == 843314856  \* floor(pi * 2^28)
FINE_PI_HI == 843314857  \* ceiling(pi * 2^28)
SIN_TERMS == 8           \* x^17/17! < 2^-32 for x <= pi/2

(* <<tl, tu, sl, su>> for the Taylor series of sin at x in [xl, xh]:      *)
(* tl <= L^2 * x^(2k+1)/(2k+1)! <= tu and sl, su bound the partial sum     *)
(* of terms 0..k; a lower bound takes floors, an upper bound ceilings.     *)
(* One level of SinSeries from the bounds prev of the level below. *)
SinStep(prev, k, xl, xh, L) ==
    LET n == (2 * k) * (2 * k + 1)
        tl == MulDivL(MulDivL(prev[1], xl, L), xl, L) \div n
        tu == CeilDiv(MulDivLUp(MulDivLUp(prev[2], xh, L), xh, L), n)
    IN  IF k % 2 = 0 THEN <<tl, tu, prev[3] + tl, prev[4] + tu>>
                     ELSE <<tl, tu, prev[3] - tu, prev[4] - tl>>

(* The level below is bound once, as the element of a singleton set, so   *)
(* that each level is evaluated once however often SinStep reads it.       *)
RECURSIVE SinSeries(_, _, _, _)
SinSeries(k, xl, xh, L) ==
    IF k = 0 THEN <<xl, xh, xl, xh>>
    ELSE CHOOSE s \in {SinStep(prev, k, xl, xh, L) : prev \in {SinSeries(k - 1, xl, xh, L)}} : TRUE

(* Bounds of sin(pi/2 * hn/hd) for 0 <= hn <= hd in units 1/L^2, from    *)
(* bounds pl, ph of pi in those units, widened by one unit for the series  *)
(* tail and clipped to [0, 1].                                             *)
SinHalfPiBoundsIn(hn, hd, L, pl, ph) ==
    LET xl == MulDivSmall(pl, hn, 2 * hd)
        xh == MulDivSmall(ph, hn, 2 * hd) + 1
        s == SinSeries(SIN_TERMS, xl, xh, L)
        lo == s[3] - 1
        hi == s[4] + 1
    IN  <<IF lo < 0 THEN 0 ELSE lo, IF hi > L * L THEN L * L ELSE hi>>

SinHalfPiBounds(hn, hd) == SinHalfPiBoundsIn(hn, hd, LIMB, PI_LO, PI_HI)
FineSinHalfPiBounds(hn, hd) == SinHalfPiBoundsIn(hn, hd, FINE_LIMB, FINE_PI_LO, FINE_PI_HI)

(* Bounds of sin(A / 2^24) for an angle 0 <= A < 2^27 given in units      *)
(* 2^-24, as float sin receives it: A is reduced to y = A - q * pi/2 in    *)
(* [0, pi/2] with q = A \div ceiling(pi/2), an interval because pi is      *)
(* known to within one unit, and sin(A) is +-sin(y) or +-cos(y) =          *)
(* +-sin(pi/2 - y) by quadrant.  A reduced interval may reach slightly     *)
(* below 0, where sin(z) lies in [z, 0].  sin(0) is exactly 0.            *)
SinOfRadians(A) ==
    LET hl == PI_LO \div 2
        hh == CeilDiv(PI_HI, 2)
        q == A \div hh
        yl == A - q * hh
        yh == A - q * hl
        Pos(z) == IF z < 0 THEN 0 ELSE z
        SinIn(zl, zh) ==
            LET s == SinSeries(SIN_TERMS, Pos(zl), Pos(zh), LIMB)
            IN  <<IF zl < 0 THEN zl ELSE s[3] - 1, IF zh <= 0 THEN 0 ELSE s[4] + 1>>
        Neg(b) == <<-b[2], -b[1]>>
        sinY == SinIn(yl, yh)
        cosY == SinIn(hl - yh, hh - yl)
    IN  CASE A = 0 -> <<0, 0>>
          [] q % 4 = 0 -> sinY
          [] q % 4 = 1 -> cosY
          [] q % 4 = 2 -> Neg(sinY)
          [] q % 4 = 3 -> Neg(cosY)

(***************************************************************************)
(* Exponential.  D * e^(n/D) in units EXP_SCALE = 2^-20, for n, D > 0,    *)
(* saturated at cap: a bound of cap * EXP_SCALE stands for "at least cap". *)
(* The series sum x^j/j! is taken to EXP_TERMS terms for x = n/D < 7; a    *)
(* larger x gives e^x > 2^10, above every cap modelled.                    *)
(***************************************************************************)
EXP_SCALE == 2^20
EXP_TERMS == 30          \* a multiple of 3; 7^31/31! * 2^20 < 1
EXP_X_MAX == 7

(* ceiling(a * b / m) as MulDivSmall, for a small m * b. *)
MulDivSmallUp(a, b, m) == (a \div m) * b + CeilDiv((a % m) * b, m)

(* <<tl, tu, sl, su>>: tl <= EXP_SCALE * x^(3g)/(3g)! <= tu for x = n/D,  *)
(* and sl, su bound the partial sum of terms 0..3g; a level adds three     *)
(* terms, which keeps the recursion shallow.                               *)
(* One level of ExpSeries from the bounds prev of the level below. *)
ExpStep(prev, g, n, D) ==
    LET j == 3 * g - 2
        l1 == MulDivSmall(prev[1], n, D * j)
        l2 == MulDivSmall(l1, n, D * (j + 1))
        l3 == MulDivSmall(l2, n, D * (j + 2))
        u1 == MulDivSmallUp(prev[2], n, D * j)
        u2 == MulDivSmallUp(u1, n, D * (j + 1))
        u3 == MulDivSmallUp(u2, n, D * (j + 2))
    IN  <<l3, u3, prev[3] + l1 + l2 + l3, prev[4] + u1 + u2 + u3>>

(* The level below is bound once, as in SinSeries. *)
RECURSIVE ExpSeries(_, _, _)
ExpSeries(g, n, D) ==
    IF g = 0 THEN <<EXP_SCALE, EXP_SCALE, EXP_SCALE, EXP_SCALE>>
    ELSE CHOOSE s \in {ExpStep(prev, g, n, D) : prev \in {ExpSeries(g - 1, n, D)}} : TRUE

(* Bounds of e^(n/D) in units 2^-20, for n < EXP_X_MAX * D; the upper     *)
(* bound is widened by one unit for the series tail.                       *)
ExpXBounds(n, D) ==
    LET s == ExpSeries(EXP_TERMS \div 3, n, D) IN <<s[3], s[4] + 1>>

(* Bounds of D * e^(n/D) in units 2^-20, each saturated at cap. *)
ScaledExpBounds(n, D, cap) ==
    LET top == cap * EXP_SCALE
        b == ExpXBounds(n, D)
        Scale(y) == IF y >= CeilDiv(top, D) THEN top ELSE D * y
    IN  IF D >= cap \/ n >= EXP_X_MAX * D THEN <<top, top>>
        ELSE <<Scale(b[1]), Scale(b[2])>>

(* Bounds of D * 1^x = D, saturated at cap. *)
ScaledOneBounds(D, cap) ==
    IF D >= cap THEN <<cap * EXP_SCALE, cap * EXP_SCALE>>
    ELSE <<D * EXP_SCALE, D * EXP_SCALE>>
=============================================================================
