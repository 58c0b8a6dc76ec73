---------------------------- MODULE DecimalArith ----------------------------
(***************************************************************************)
(* The arithmetic of Python's decimal module as sin_lut_generator.py uses *)
(* it: every operation on Decimals, and on a Decimal and an int, computes  *)
(* the exact result and rounds it to the context precision with            *)
(* ROUND_HALF_EVEN (the default context).  An int operand is converted    *)
(* exactly, however large: fact in decimal_sin is an int that outgrows     *)
(* TLC's 32-bit integers, so exact intermediates are natural numbers held  *)
(* as little-endian sequences of base-10^4 limbs without leading zeros    *)
(* (zero is <<>>).                                                         *)
(*                                                                         *)
(* A Decimal is a record [sgn, c, e] with value sgn * c * 10^e, sgn in     *)
(* {1, -1} and the coefficient c < 10^prec a TLC integer; precisions up  *)
(* to 8 digits keep every product below 2^31.                              *)
(***************************************************************************)
EXTENDS Integers, Sequences

LB == 10^4                  \* the limb base

(* Natural numbers as limb sequences. *)
RECURSIVE BFromInt(_)
BFromInt(n) == IF n = 0 THEN <<>> ELSE <<n % LB>> \o BFromInt(n \div LB)

(* a without its leading zero limbs. *)
RECURSIVE BNorm(_)
BNorm(a) ==
    IF a # <<>> /\ a[Len(a)] = 0
    THEN CHOOSE r \in {BNorm(a1) : a1 \in {SubSeq(a, 1, Len(a) - 1)}} : TRUE
    ELSE a

(* a * k + c for a small k >= 0 (k * LB < 2^31), limbs from i on.  Each   *)
(* limb's value v is bound once, as the element of a singleton set, so     *)
(* that the carry chain is evaluated once where TLC does not cache          *)
(* arguments (under ENABLED and -coverage); the same holds below.          *)
RECURSIVE BMulFrom(_, _, _, _)
BMulFrom(a, k, i, c) ==
    IF i > Len(a) THEN BFromInt(c)
    ELSE CHOOSE r \in {<<v % LB>> \o BMulFrom(a, k, i + 1, v \div LB) : v \in {a[i] * k + c}} : TRUE

BMulSmall(a, k) == IF k = 0 THEN <<>> ELSE CHOOSE r \in {BMulFrom(av, k, 1, 0) : av \in {a}} : TRUE

(* a * 10^k for k >= 0. *)
BMulPow10(a, k) ==
    IF a = <<>> THEN <<>>
    ELSE CHOOSE r \in {[j \in 1 .. k \div 4 |-> 0] \o m : m \in {BMulSmall(a, 10^(k % 4))}} : TRUE

(* a + b and a - b (for a >= b), limbs from i on with carry or borrow c. *)
RECURSIVE BAddFrom(_, _, _, _)
BAddFrom(a, b, i, c) ==
    IF i > Len(a) /\ i > Len(b) THEN BFromInt(c)
    ELSE CHOOSE r \in {<<v % LB>> \o BAddFrom(a, b, i + 1, v \div LB) :
                        v \in {(IF i <= Len(a) THEN a[i] ELSE 0) + (IF i <= Len(b) THEN b[i] ELSE 0) + c}} : TRUE

RECURSIVE BSubFrom(_, _, _, _)
BSubFrom(a, b, i, c) ==
    IF i > Len(a) THEN <<>>
    ELSE CHOOSE r \in {<<v % LB>> \o BSubFrom(a, b, i + 1, IF v < 0 THEN 1 ELSE 0) :
                        v \in {a[i] - (IF i <= Len(b) THEN b[i] ELSE 0) - c}} : TRUE

BAdd(a, b) == CHOOSE r \in {BAddFrom(av, bv, 1, 0) : av \in {a}, bv \in {b}} : TRUE
BSub(a, b) == CHOOSE r \in {BNorm(BSubFrom(av, bv, 1, 0)) : av \in {a}, bv \in {b}} : TRUE

(* -1, 0 or 1 as a < b, a = b or a > b, comparing limbs from i down. *)
RECURSIVE BCmpFrom(_, _, _)
BCmpFrom(a, b, i) ==
    CASE i = 0         -> 0
      [] a[i] < b[i]   -> -1
      [] a[i] > b[i]   -> 1
      [] OTHER         -> BCmpFrom(a, b, i - 1)

CmpLimbs(a, b) ==
    CASE Len(a) < Len(b) -> -1
      [] Len(a) > Len(b) -> 1
      [] OTHER           -> BCmpFrom(a, b, Len(a))
BCmp(a, b) == CHOOSE r \in {CmpLimbs(av, bv) : av \in {a}, bv \in {b}} : TRUE

(* The number of decimal digits of a > 0. *)
IntDigits(n) == CHOOSE k \in 1 .. 10 : 10^(k - 1) <= n /\ n < 10^k
BDigits(a) == 4 * (Len(a) - 1) + IntDigits(a[Len(a)])

(* <<q, r>> with a = q * b + r, 0 <= r < b, for a quotient below         *)
(* 10^(j + 1): schoolbook division by decimal digits, from digit j down.  *)
RECURSIVE DivDigit(_, _, _)
DivDigit(r, bj, d) ==
    IF BCmp(r, bj) < 0 THEN <<d, r>>
    ELSE CHOOSE x \in {DivDigit(r1, bj, d + 1) : r1 \in {BSub(r, bj)}} : TRUE

RECURSIVE BDivFrom(_, _, _, _)
BDivFrom(r, b, j, q) ==
    IF j < 0 THEN <<q, r>>
    ELSE CHOOSE x \in {BDivFrom(dr[2], b, j - 1, 10 * q + dr[1]) :
                        dr \in {DivDigit(r, bj, 0) : bj \in {BMulPow10(b, j)}}} : TRUE

(***************************************************************************)
(* Rounding.  RoundRatio(n, d, p) is <<c, e>> with c * 10^e the value      *)
(* n / d (naturals, n > 0) rounded half to even to p digits.              *)
(***************************************************************************)
(* The quotient qr = <<q, r>> of n * 10^k / d, q in [10^(p-1), 10^p),     *)
(* rounded half to even on the remainder.                                 *)
RoundUp(q, cmp, k, p) ==
    IF cmp > 0 \/ (cmp = 0 /\ q % 2 = 1)
    THEN IF q + 1 = 10^p THEN <<10^(p - 1), 1 - k>> ELSE <<q + 1, -k>>
    ELSE <<q, -k>>
RoundQuotient(qr, dk, k, p) ==
    CHOOSE x \in {RoundUp(qr[1], cmp, k, p) : cmp \in {BCmp(BMulSmall(qr[2], 2), dk)}} : TRUE

(* n * 10^k / d, scaled into the numerator or the denominator. *)
ScaledQuotient(n, d, k, p) ==
    LET nk == IF k >= 0 THEN BMulPow10(n, k) ELSE n
        dk == IF k >= 0 THEN d ELSE BMulPow10(d, -k)
    IN  <<BDivFrom(nk, dk, p, 0), dk>>

(* With k0 = p - 1 - (digits(n) - digits(d)), n * 10^k0 / d lies in      *)
(* [10^(p-2), 10^p); one more digit is taken when it falls short.          *)
RoundFrom(sq, n, d, k0, p) ==
    IF sq[1][1] >= 10^(p - 1) THEN RoundQuotient(sq[1], sq[2], k0, p)
    ELSE CHOOSE x \in {RoundQuotient(sq1[1], sq1[2], k0 + 1, p) :
                        sq1 \in {ScaledQuotient(n, d, k0 + 1, p)}} : TRUE

RoundRatio(n, d, p) ==
    CHOOSE x \in {RoundFrom(sq, n, d, k0, p) : k0 \in {p - 1 - (BDigits(n) - BDigits(d))},
                                               sq \in {ScaledQuotient(n, d, p - 1 - (BDigits(n) - BDigits(d)), p)}} : TRUE

(***************************************************************************)
(* Decimals.                                                               *)
(***************************************************************************)
Dec(sgn, c, e) == [sgn |-> sgn, c |-> c, e |-> e]
DecFromInt(i) == IF i < 0 THEN Dec(-1, -i, 0) ELSE Dec(1, i, 0)

(* sgn * n / d * 10^e rounded to p digits; an exact zero keeps exponent e. *)
RoundNonZero(sgn, n, d, e, p) ==
    IF n = <<>> THEN Dec(1, 0, e)
    ELSE CHOOSE x \in {Dec(sgn, r[1], r[2] + e) : r \in {RoundRatio(n, d, p)}} : TRUE
DecRound(sgn, n, d, e, p) ==
    CHOOSE x \in {RoundNonZero(sgn, nv, dv, e, p) : nv \in {n}, dv \in {d}} : TRUE

(* a * k for a natural k < 10^8, as a * (k \div 10^3) * 10^3 + a * (k % 10^3). *)
BMulInt(a, k) ==
    CHOOSE r \in {BAdd(BMulPow10(BMulSmall(av, k \div 1000), 3), BMulSmall(av, k % 1000)) : av \in {a}} : TRUE

(* a * b, a * i and a / i for an int i, a / f for a natural f (limbs). *)
DecMul(a, b, p) ==
    CHOOSE x \in {DecRound(av.sgn * bv.sgn, BMulInt(BFromInt(av.c), bv.c), <<1>>, av.e + bv.e, p) :
                  av \in {a}, bv \in {b}} : TRUE
DecMulInt(a, i, p) == DecMul(a, DecFromInt(i), p)
DecDivNat(a, f, p) == CHOOSE x \in {DecRound(av.sgn, BFromInt(av.c), f, av.e, p) : av \in {a}} : TRUE
DecDivInt(a, i, p) == DecDivNat(a, BFromInt(i), p)    \* for i > 0

(* a + b: both coefficients aligned to the smaller exponent, exactly. *)
AddAligned(sa, na, sb, nb, e, p) ==
    CASE sa = sb               -> DecRound(sa, BAdd(na, nb), <<1>>, e, p)
      [] BCmp(na, nb) > 0      -> DecRound(sa, BSub(na, nb), <<1>>, e, p)
      [] BCmp(na, nb) < 0      -> DecRound(sb, BSub(nb, na), <<1>>, e, p)
      [] OTHER                 -> Dec(1, 0, e)
AddDecimals(a, b, e, p) ==
    CHOOSE x \in {AddAligned(a.sgn, na, b.sgn, nb, e, p) :
                  na \in {BMulPow10(BFromInt(a.c), a.e - e)},
                  nb \in {BMulPow10(BFromInt(b.c), b.e - e)}} : TRUE
DecAdd(a, b, p) ==
    CHOOSE x \in {AddDecimals(av, bv, IF av.e < bv.e THEN av.e ELSE bv.e, p) :
                  av \in {a}, bv \in {b}} : TRUE

(* +a: a rounded to the context precision. *)
DecPlus(a, p) == DecRound(a.sgn, BFromInt(a.c), <<1>>, a.e, p)

(* Numeric equality, as Decimal's == and != compare. *)
RECURSIVE StripZeros(_, _)
StripZeros(c, e) ==
    IF c # 0 /\ c % 10 = 0
    THEN CHOOSE x \in {StripZeros(c1, e + 1) : c1 \in {c \div 10}} : TRUE
    ELSE <<c, e>>
DecKey(a) == IF a.c = 0 THEN <<0, 0, 0>> ELSE <<a.sgn>> \o StripZeros(a.c, a.e)
DecEqual(a, b) == DecKey(a) = DecKey(b)
=============================================================================
