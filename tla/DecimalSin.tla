----------------------------- MODULE DecimalSin -----------------------------
(***************************************************************************)
(* The high-precision evaluator of src/misc/scripts/sin_lut_generator.py: *)
(* the loop of generate_sin_lut over i in range(count), each iteration     *)
(* computing angle = 2 * decimal_pi() * i / count and decimal_sin(angle),  *)
(* step by step in Python's decimal arithmetic (DecimalArith).  Both       *)
(* functions raise the context precision by two guard digits, sum a        *)
(* series until the sum stops changing (while s != lasts), drop the guard  *)
(* digits and return +s.  The context precision PREC stands for Python's   *)
(* default 28 digits; the quantization of sin_value to the table is        *)
(* SinLut's.                                                               *)
(***************************************************************************)
EXTENDS Integers, Sequences, DecimalArith, RealBounds

CONSTANTS
    PREC,           \* the context precision, decimal.getcontext().prec
    MAX_COUNT_LOG2, \* count_log2 ranges over 1 .. MAX_COUNT_LOG2
    MAX_TERMS       \* a bound on the iterations of each series loop

ASSUME PREC \in 2 .. 6 /\ MAX_COUNT_LOG2 \in 1 .. 5 /\ MAX_TERMS \in 1 .. 40

VARIABLES
    count_log2,     \* the argument of generate_sin_lut
    prec,           \* the context precision
    pc,             \* "loop", "pi_loop", "angle", "sin_loop", "done"
    i,              \* the sample index of generate_sin_lut
    s, lasts,       \* the partial sum and its previous value, in either function
    t, n, na, d, da,            \* the locals of decimal_pi
    term_i, fact, num, sign,    \* the locals i, fact, num, sign of decimal_sin
    pi_value,       \* the value decimal_pi returned last, or NoDec
    angle,          \* the angle of sample i
    samples         \* the sequence of [angle, sin] computed so far

vars == <<count_log2, prec, pc, i, s, lasts, t, n, na, d, da,
          term_i, fact, num, sign, pi_value, angle, samples>>
piVars == <<t, n, na, d, da>>
sinVars == <<term_i, fact, num, sign>>

NoDec == Dec(1, 0, 1)       \* a placeholder read before any assignment
count == 2^count_log2
ZERO == Dec(1, 0, 0)

Init ==
    /\ count_log2 \in 1 .. MAX_COUNT_LOG2
    /\ prec = PREC
    /\ pc = "loop"
    /\ i = 0
    /\ s = ZERO /\ lasts = ZERO
    /\ t = ZERO /\ n = 0 /\ na = 0 /\ d = 0 /\ da = 0
    /\ term_i = 0 /\ fact = <<>> /\ num = ZERO /\ sign = 0
    /\ pi_value = NoDec /\ angle = ZERO
    /\ samples = <<>>

(* for i in range(count): the call of decimal_pi in                        *)
(* angle = 2 * decimal_pi() * i / count, up to its loop: prec += 2 and the  *)
(* initial three, lasts, t, n, na, d, da and s.                            *)
PiEnter ==
    /\ pc = "loop"
    /\ i < count
    /\ prec' = prec + 2
    /\ s' = Dec(1, 3, 0) /\ lasts' = ZERO
    /\ t' = Dec(1, 3, 0) /\ n' = 1 /\ na' = 0 /\ d' = 0 /\ da' = 24
    /\ pc' = "pi_loop"
    /\ UNCHANGED <<count_log2, i, sinVars, pi_value, angle, samples>>

(* The loop of generate_sin_lut runs out; SinLut.append(SinLut[0]) and  *)
(* the output follow, modelled by SinLut.                                 *)
LoopEnd ==
    /\ pc = "loop"
    /\ i = count
    /\ pc' = "done"
    /\ UNCHANGED <<count_log2, prec, i, s, lasts, piVars, sinVars, pi_value, angle, samples>>

(* t = (t * n) / d with the new n and d, from the current state. *)
NextT == DecDivInt(DecMulInt(t, n + na, prec), d + da, prec)

(* An iteration of while s != lasts in decimal_pi. *)
PiIter ==
    /\ pc = "pi_loop"
    /\ ~DecEqual(s, lasts)
    /\ na < 8 * MAX_TERMS
    /\ lasts' = s
    /\ n' = n + na /\ na' = na + 8
    /\ d' = d + da /\ da' = da + 32
    /\ t' = NextT
    /\ s' = DecAdd(s, NextT, prec)
    /\ UNCHANGED <<count_log2, prec, pc, i, sinVars, pi_value, angle, samples>>

(* Mutant: return +s before prec -= 2, keeping the guard digits. *)
PiExitUntrimmed ==
    /\ pc = "pi_loop"
    /\ DecEqual(s, lasts)
    /\ prec' = prec - 2
    /\ pi_value' = DecPlus(s, prec)
    /\ pc' = "angle"
    /\ UNCHANGED <<count_log2, i, s, lasts, piVars, sinVars, angle, samples>>

(* s == lasts: prec -= 2 and return +s. *)
PiExit ==
    /\ pc = "pi_loop"
    /\ DecEqual(s, lasts)
    /\ prec' = prec - 2
    /\ pi_value' = DecPlus(s, prec - 2)
    /\ pc' = "angle"
    /\ UNCHANGED <<count_log2, i, s, lasts, piVars, sinVars, angle, samples>>

AngleOf(pi, k) == DecDivInt(DecMulInt(DecMul(DecFromInt(2), pi, prec), k, prec), count, prec)

(* angle = 2 * pi * i / count, each operation rounded, and the call of    *)
(* decimal_sin(angle) up to its loop: prec += 2, i, fact, num, sign = 1,  *)
(* 1, x, 1, s = x and lasts = 0.                                           *)
Angle ==
    /\ pc = "angle"
    /\ angle' = AngleOf(pi_value, i)
    /\ prec' = prec + 2
    /\ term_i' = 1 /\ fact' = <<1>> /\ num' = AngleOf(pi_value, i) /\ sign' = 1
    /\ s' = AngleOf(pi_value, i) /\ lasts' = ZERO
    /\ pc' = "sin_loop"
    /\ UNCHANGED <<count_log2, i, piVars, pi_value, samples>>

(* fact *= i * (i - 1) and num *= x * x with the new i, from the current  *)
(* state.                                                                  *)
NextFact == BMulInt(fact, (term_i + 2) * (term_i + 1))
NextNum == DecMul(num, DecMul(angle, angle, prec), prec)

(* Mutant: lasts = s is left out, so the loop test never sees the sum    *)
(* settle.                                                                 *)
SinIterStaleLasts ==
    /\ pc = "sin_loop"
    /\ ~DecEqual(s, lasts)
    /\ term_i < 2 * MAX_TERMS + 1
    /\ term_i' = term_i + 2
    /\ fact' = NextFact
    /\ num' = NextNum
    /\ sign' = -sign
    /\ s' = DecAdd(s, DecMulInt(DecDivNat(NextNum, NextFact, prec), -sign, prec), prec)
    /\ UNCHANGED <<count_log2, prec, pc, i, lasts, piVars, pi_value, angle, samples>>

(* Mutant: the series is summed at the caller's precision, without the     *)
(* two guard digits.                                                       *)
SinIterNoGuard ==
    /\ pc = "sin_loop"
    /\ ~DecEqual(s, lasts)
    /\ term_i < 2 * MAX_TERMS + 1
    /\ lasts' = s
    /\ term_i' = term_i + 2
    /\ fact' = NextFact
    /\ num' = DecMul(num, DecMul(angle, angle, prec - 2), prec - 2)
    /\ sign' = -sign
    /\ s' = DecAdd(s, DecMulInt(DecDivNat(DecMul(num, DecMul(angle, angle, prec - 2), prec - 2),
                                          NextFact, prec - 2), -sign, prec - 2), prec - 2)
    /\ UNCHANGED <<count_log2, prec, pc, i, piVars, pi_value, angle, samples>>

(* An iteration of while s != lasts in decimal_sin: fact is an exact int, *)
(* num *= x * x rounds twice, s += num / fact * sign three times.          *)
SinIter ==
    /\ pc = "sin_loop"
    /\ ~DecEqual(s, lasts)
    /\ term_i < 2 * MAX_TERMS + 1
    /\ lasts' = s
    /\ term_i' = term_i + 2
    /\ fact' = NextFact
    /\ num' = NextNum
    /\ sign' = -sign
    /\ s' = DecAdd(s, DecMulInt(DecDivNat(NextNum, NextFact, prec), -sign, prec), prec)
    /\ UNCHANGED <<count_log2, prec, pc, i, piVars, pi_value, angle, samples>>

(* Mutant: the context precision is not restored on return. *)
SinExitKeepsPrec ==
    /\ pc = "sin_loop"
    /\ DecEqual(s, lasts)
    /\ samples' = Append(samples, [angle |-> angle, sin |-> DecPlus(s, prec - 2)])
    /\ i' = i + 1
    /\ pc' = "loop"
    /\ UNCHANGED <<count_log2, prec, s, lasts, piVars, sinVars, pi_value, angle>>

(* s == lasts: prec -= 2, return +s as sin_value, and the next i. *)
SinExit ==
    /\ pc = "sin_loop"
    /\ DecEqual(s, lasts)
    /\ prec' = prec - 2
    /\ samples' = Append(samples, [angle |-> angle, sin |-> DecPlus(s, prec - 2)])
    /\ i' = i + 1
    /\ pc' = "loop"
    /\ UNCHANGED <<count_log2, s, lasts, piVars, sinVars, pi_value, angle>>

Next == PiEnter \/ LoopEnd \/ PiIter \/ PiExit \/ Angle \/ SinIter \/ SinExit

(* A single-threaded script that never waits: it keeps taking steps. *)
Spec == Init /\ [][Next]_vars /\ WF_vars(Next)
-----------------------------------------------------------------------------
(* Decimals of at most p digits. *)
IsDecimal(x, p) ==
    /\ DOMAIN x = {"sgn", "c", "e"}
    /\ x.sgn \in {1, -1} /\ x.c \in 0 .. 10^p - 1 /\ x.e \in Int

TypeOK ==
    /\ count_log2 \in 1 .. MAX_COUNT_LOG2
    /\ prec \in {PREC, PREC + 2}
    /\ pc \in {"loop", "pi_loop", "angle", "sin_loop", "done"}
    /\ i \in 0 .. count
    /\ Len(samples) = i
    /\ \A x \in {s, lasts, t, num, pi_value, angle} : IsDecimal(x, PREC + 2)
    /\ \A j \in DOMAIN samples : IsDecimal(samples[j].sin, PREC + 2)
    /\ term_i \in 0 .. 2 * MAX_TERMS + 1

(* Bounds <<lo, hi>> of 2^24 * v for a Decimal v with v.e < 0 or v = 0. *)
ScaledFloorCeil(c, k) ==
    CHOOSE b \in {<<qr[1], qr[1] + (IF qr[2] = <<>> THEN 0 ELSE 1)>> :
                  qr \in {BDivFrom(BMulSmall(BMulSmall(BFromInt(c), 2^12), 2^12),
                                   BMulPow10(<<1>>, k), 9, 0)}} : TRUE
DecScaled(v) ==
    IF v.c = 0 THEN <<0, 0>>
    ELSE CHOOSE r \in {IF v.sgn = 1 THEN b ELSE <<-b[2], -b[1]>> :
                       b \in {ScaledFloorCeil(v.c, -v.e)}} : TRUE

(* Bounds of 2^24 * sin(x) for a Decimal angle 0 <= x < 8: x lies within  *)
(* one unit 2^-24 of A = floor(2^24 * x), and |sin'| <= 1.                 *)
SinRef(x) ==
    CHOOSE r \in {<<b[1] - 1, b[2] + 1>> : b \in {SinOfRadians(A) : A \in {DecScaled(x)[1]}}} : TRUE

(* pi rounded half to even to PREC digits, from its bounds. *)
PI_ROUNDED == DecRound(1, BFromInt(PI_LO), BFromInt(SIN_SCALE), 0, PREC)
ASSUME DecEqual(PI_ROUNDED, DecRound(1, BFromInt(PI_HI), BFromInt(SIN_SCALE), 0, PREC))

(* decimal_pi returns pi correctly rounded to the context precision, as   *)
(* its docstring promises: the two guard digits absorb the rounding of    *)
(* every term and of the sum, and +s trims them.                           *)
PiCorrectlyRounded ==
    pi_value # NoDec => DecEqual(pi_value, PI_ROUNDED)

(* The absolute error of every sin_value is at most ERR_UNITS units of    *)
(* the PREC-th decimal place: the Taylor series is summed without range   *)
(* reduction, so near 2 pi the partial sums grow to tens and cancel, and   *)
(* the two guard digits must cover the digits lost.  The table needs an    *)
(* absolute error far below 2^-precision.                                  *)
ERR_UNITS == 2
ERR == (ERR_UNITS * SIN_SCALE) \div 10^PREC
SinErrorWithin ==
    \A j \in DOMAIN samples :
        \A v \in {DecScaled(samples[j].sin)}, r \in {SinRef(samples[j].angle)} :
            v[1] <= r[2] + ERR /\ v[2] >= r[1] - ERR

(* generate_sin_lut returns: both series loops stop, every call. *)
Terminates == <>(pc = "done")
=============================================================================
