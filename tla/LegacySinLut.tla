---------------------------- MODULE LegacySinLut ----------------------------
(***************************************************************************)
(* src/openvic-simulation/types/fixed_point/lut_generator/                 *)
(* sin_lut_generator.py, the float predecessor of the misc script: the     *)
(* same command line check, loop, wrap entry and header, but the angle     *)
(* 2 * pi * i / count and sin(angle) are floats (math.pi, math.sin) and    *)
(* moved_sin +- 0.5 is a float sum.  Floats have MANT_BITS mantissa bits   *)
(* (Float), scaled like the widths: 7 of BIT_COUNT 8 stands for a double's *)
(* 53 of 64.                                                               *)
(***************************************************************************)
EXTENDS Integers, Sequences, SequencesExt, FloatMath

CONSTANT BIT_COUNT

ASSUME BIT_COUNT \in 2 .. 16 /\ MANT_BITS \in 2 .. BIT_COUNT

VARIABLES
    precision,     \* args.precision
    count_log2,    \* args.count
    pc,            \* "main", "loop" (in generate_sin_lut), "done", "error"
    i,             \* the loop index of generate_sin_lut
    SinLut,        \* the table built so far
    written        \* the header files written: {} or {one record}

vars == <<precision, count_log2, pc, i, SinLut, written>>

ArgChoices == 1 .. BIT_COUNT      \* choices=range(1, 65)
VALS_PER_LINE == 16

(* Mutant: one = 1 << (precision - 1). *)
OneHalved(p) == 2^(p - 1)

One(p) == 2^p                  \* one = 1 << precision
Count == 2^count_log2          \* count = 1 << count_log2

(* angle = 2 * pi * i / count for count = 2^c, evaluated left to right:   *)
(* 2 * pi and the division by a power of two are exact, the product with i *)
(* rounds.                                                                 *)
Angle(c, n) == FScale2(FMul(FScale2(PI_F, 1), FromInt(n)), -c)

(* rounded_sin = int(moved_sin + 0.5) if moved_sin > 0 else                *)
(* int(moved_sin - 0.5): a rounded float sum, truncated towards zero.      *)
RoundedSin(moved) ==
    IF moved[1] > 0 THEN FTrunc(FAddHalves(moved, 1))
                    ELSE FTrunc(FAddHalves(moved, -1))

(* sin_value = sin(angle), moved_sin = sin_value * one and rounded_sin,   *)
(* at precision p: the values rounded_sin can take.                         *)
Samples(p, c, n) == {RoundedSin(FMul(v, FromInt(One(p)))) : v \in FSin(Angle(c, n))}

(* Samples for every precision p, count 2^c and index n <= 2^c, computed   *)
(* once into a table over an interval (TLC keeps such a table evaluated):  *)
(* entry ((p - 1) * BIT_COUNT + c - 1) * ROW + n.                          *)
ROW == 2^BIT_COUNT + 1
SampleTable ==
    [k \in 0 .. BIT_COUNT * BIT_COUNT * ROW - 1 |->
        LET p == k \div (BIT_COUNT * ROW) + 1
            c == ((k \div ROW) % BIT_COUNT) + 1
            n == k % ROW
        IN  IF n <= 2^c THEN Samples(p, c, n) ELSE {}]

SampleValues(n) ==
    SampleTable[((precision - 1) * BIT_COUNT + count_log2 - 1) * ROW + n]

(* The table split into lines of VALS_PER_LINE values, each written with   *)
(* a trailing comma; output[-1][:-1] removes the last line's comma.        *)
Lines(t) ==
    [r \in 1 .. (Len(t) + VALS_PER_LINE - 1) \div VALS_PER_LINE |->
        SubSeq(t, (r - 1) * VALS_PER_LINE + 1,
               IF r * VALS_PER_LINE < Len(t) THEN r * VALS_PER_LINE ELSE Len(t))]
Header(t) ==
    [precision |-> precision, count_log2 |-> count_log2,
     values |-> FlattenSeq(Lines(t))]

Init ==
    /\ precision \in ArgChoices
    /\ count_log2 \in ArgChoices
    /\ pc = "main"
    /\ i = 0
    /\ SinLut = <<>>
    /\ written = {}

(* args.precision < args.count: print the error and exit(-1). *)
Reject ==
    /\ pc = "main"
    /\ precision < count_log2
    /\ pc' = "error"
    /\ UNCHANGED <<precision, count_log2, i, SinLut, written>>

(* generate_sin_lut(args.precision, args.count) is called. *)
Start ==
    /\ pc = "main"
    /\ ~(precision < count_log2)
    /\ pc' = "loop"
    /\ UNCHANGED <<precision, count_log2, i, SinLut, written>>

(* Mutant: the loop bound off by one, range(count + 1). *)
SampleOffByOne ==
    /\ pc = "loop"
    /\ i <= Count
    /\ \E v \in SampleValues(i) : SinLut' = Append(SinLut, v)
    /\ i' = i + 1
    /\ UNCHANGED <<precision, count_log2, pc, written>>

(* One iteration of: for i in range(count). *)
Sample ==
    /\ pc = "loop"
    /\ i < Count
    /\ \E v \in SampleValues(i) : SinLut' = Append(SinLut, v)
    /\ i' = i + 1
    /\ UNCHANGED <<precision, count_log2, pc, written>>

(* SinLut.append(SinLut[0]), the header is written to                     *)
(* FixedPointLUT_sin.hpp and the script exits 0.                           *)
Finish ==
    /\ pc = "loop"
    /\ i = Count
    /\ SinLut' = Append(SinLut, SinLut[1])
    /\ written' = {Header(SinLut')}
    /\ pc' = "done"
    /\ UNCHANGED <<precision, count_log2, i>>

Next == Reject \/ Start \/ Sample \/ Finish

(* A single-threaded script that never waits: it keeps taking steps. *)
Spec == Init /\ [][Next]_vars /\ WF_vars(Next)

-----------------------------------------------------------------------------
TypeOK ==
    /\ precision \in ArgChoices
    /\ count_log2 \in ArgChoices
    /\ pc \in {"main", "loop", "done", "error"}
    /\ i \in 0 .. Count
    /\ SinLut \in Seq(Int)
    /\ written \subseteq [precision : ArgChoices, count_log2 : ArgChoices, values : Seq(Int)]

WrittenTable == IF written = {} THEN <<>> ELSE (CHOOSE h \in written : TRUE).values

Status == CASE pc \in {"main", "loop"} -> "running"
            [] pc = "done"             -> "written"
            [] pc = "error"            -> "rejected"

(* A first-order bound of the float error of an entry, in table units.    *)
(* With u = 2^-MANT_BITS: the angle is off by at most 2 pi * 2.01 u        *)
(* (math.pi and the product with i each round once), sin by u, and the    *)
(* sum moved_sin +- 0.5 by u * (2^p + 1/2); an error e moves a rounding   *)
(* by at most floor(e) + 1.                                                *)
FloatSlack(p) == (15 * 2^p + 1) \div 2^MANT_BITS + 1

(* The float generator writes the sine table of SinLutSpec to within      *)
(* FloatSlack: it rejects exactly the invalid arguments before sampling,  *)
(* and every entry is within the float error bound of the correctly       *)
(* rounded one, the wrap entry equal to the first.                        *)
Approximate == INSTANCE SinLutSpec WITH
    Slack <- FloatSlack, status <- Status, table <- WrittenTable

RefinesSinLutSpecWithin == Approximate!SafetySpec

=============================================================================
