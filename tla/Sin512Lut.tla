------------------------------ MODULE Sin512Lut ------------------------------
(***************************************************************************)
(* src/openvic/types/fixed_point/lut_generator/lut_generator.py: a         *)
(* module-level script with no arguments that samples sin at               *)
(* SIN_VALUE_COUNT angles 2 * math.pi * i / SIN_VALUE_COUNT, scales by     *)
(* ONE = 1 << PRECISION, rounds half away from zero, appends SinLut[0] and *)
(* writes the table as int32_t SIN_LUT[], 10 values per line.  The model   *)
(* runs at the code's own constants (16 and 512).                          *)
(*                                                                         *)
(* The floats: 2 * math.pi * i / 512 is within 2^-48 of the true angle     *)
(* (math.pi and the product each round once; the division by 512 is        *)
(* exact), math.sin adds an error of at most one ulp (2^-53), the product  *)
(* with ONE is exact and moved_sin +- 0.5 rounds within 2^-36 of a table   *)
(* unit.  All of that is far below 2^-29, so sin_value is taken to be any  *)
(* real within the certified bounds of RealBounds at FINE_SCALE (units     *)
(* 2^-28) widened by 2^-29: one unit of a grid FLOAT_FINE = 2 times finer. *)
(* A sample is then ambiguous only where the bounds straddle a tie.        *)
(***************************************************************************)
EXTENDS Integers, Sequences, FiniteSets, SequencesExt, Quantizer, RealBounds

CONSTANTS PRECISION, SIN_VALUE_COUNT

ASSUME /\ PRECISION \in 1 .. 16
       /\ SIN_VALUE_COUNT \in {2^c : c \in 2 .. PRECISION}

VARIABLES
    i,             \* the loop index
    SinLut,        \* the table built so far
    pc,            \* "loop" or "done"
    written        \* the header files written: {} or {one record}

vars == <<i, SinLut, pc, written>>

ONE == 2^PRECISION              \* ONE = 1 << PRECISION
VALS_PER_LINE == 10             \* SinLut[i:i+10]
FLOAT_FINE == 2                 \* 2^-29 units, covering the float error

(* Bounds of sin(pi/2 * h / (SIN_VALUE_COUNT / 4)), the first quadrant.   *)
QUARTER == SIN_VALUE_COUNT \div 4
QuarterSin == [h \in 0 .. QUARTER |-> FineSinHalfPiBounds(h, QUARTER)]

(* Bounds of sin(2 pi n / SIN_VALUE_COUNT) by quadrant symmetry. *)
SinBoundsAt(n) ==
    LET q == n \div QUARTER
        r == n % QUARTER
        b == QuarterSin[IF q % 2 = 0 THEN r ELSE QUARTER - r]
    IN  IF q < 2 THEN b ELSE <<-b[2], -b[1]>>

(* angle, sin_value = math.sin(angle), moved_sin = sin_value * ONE and    *)
(* rounded_sin: the values the float computation can give.                *)
SampleValues(n) ==
    LET b == SinBoundsAt(n)
        d == FINE_SCALE \div ONE
    IN  RoundSin(FLOAT_FINE * b[1] - 1, FLOAT_FINE * d)
          .. RoundSin(FLOAT_FINE * b[2] + 1, FLOAT_FINE * d)

(* Mutant: each line sliced one value short, SinLut[i:i+9]. *)
LinesShort(t) ==
    [r \in 1 .. (Len(t) + VALS_PER_LINE - 1) \div VALS_PER_LINE |->
        SubSeq(t, (r - 1) * VALS_PER_LINE + 1,
               IF r * VALS_PER_LINE - 1 < Len(t) THEN r * VALS_PER_LINE - 1 ELSE Len(t))]

(* lines = [SinLut[i:i+10] for i in range(0, len(SinLut), 10)]. *)
Lines(t) ==
    [r \in 1 .. (Len(t) + VALS_PER_LINE - 1) \div VALS_PER_LINE |->
        SubSeq(t, (r - 1) * VALS_PER_LINE + 1,
               IF r * VALS_PER_LINE < Len(t) THEN r * VALS_PER_LINE ELSE Len(t))]

(* The header: the declaration line ending in "{", one line per row of    *)
(* values each ending in ",", the last one's comma removed by             *)
(* output[-1][:-1], then "};".  A line is kept as its values and its last *)
(* character.                                                              *)
Header(t) ==
    LET rows == Lines(t)
        body == [r \in 1 .. Len(rows) |->
                    [values |-> rows[r], last |-> IF r = Len(rows) THEN "" ELSE ","]]
    IN  [name |-> "FPLUT_sin", count |-> SIN_VALUE_COUNT,
         declaration |-> "{", lines |-> body]

Init ==
    /\ i = 0
    /\ SinLut = <<>>
    /\ pc = "loop"
    /\ written = {}

(* Mutant: the loop bound dropped, a sample past SIN_VALUE_COUNT - 1. *)
SampleUnbounded ==
    /\ pc = "loop"
    /\ \E v \in SampleValues(i) : SinLut' = Append(SinLut, v)
    /\ i' = i + 1
    /\ UNCHANGED <<pc, written>>

(* One iteration of: for i in range(SIN_VALUE_COUNT). *)
Sample ==
    /\ pc = "loop"
    /\ i < SIN_VALUE_COUNT
    /\ \E v \in SampleValues(i) : SinLut' = Append(SinLut, v)
    /\ i' = i + 1
    /\ UNCHANGED <<pc, written>>

(* SinLut.append(SinLut[0]), the header built and written to              *)
(* FPLUT_sin_512.hpp; the script ends.                                      *)
Finish ==
    /\ pc = "loop"
    /\ i = SIN_VALUE_COUNT
    /\ SinLut' = Append(SinLut, SinLut[1])
    /\ written' = {Header(SinLut')}
    /\ pc' = "done"
    /\ UNCHANGED i

Next == Sample \/ Finish

(* A single-threaded script that never waits: it keeps taking steps. *)
Spec == Init /\ [][Next]_vars /\ WF_vars(Next)

-----------------------------------------------------------------------------
TypeOK ==
    /\ i \in 0 .. SIN_VALUE_COUNT
    /\ Len(SinLut) = i + (IF pc = "done" THEN 1 ELSE 0)
    /\ \A k \in 1 .. Len(SinLut) : SinLut[k] \in -ONE .. ONE
    /\ pc \in {"loop", "done"}
    /\ Cardinality(written) <= 1

(* The table the header lists: the values of its lines, in order. *)
WrittenTable ==
    IF written = {} THEN <<>>
    ELSE LET h == CHOOSE x \in written : TRUE
         IN  FlattenSeq([r \in 1 .. Len(h.lines) |-> h.lines[r].values])

Status == IF pc = "done" THEN "written" ELSE "running"

COUNT_LOG2 == CHOOSE c \in 1 .. PRECISION : 2^c = SIN_VALUE_COUNT

(* SinLutSpec at this script's fixed precision and count, with no float  *)
(* tolerance: the bounds grid of the spec is the finest the precision     *)
(* allows.                                                                 *)
Exact == INSTANCE SinLutSpec WITH
    BIT_COUNT <- PRECISION, Slack <- LAMBDA p : 0,
    precision <- PRECISION, count_log2 <- COUNT_LOG2,
    status <- Status, table <- WrittenTable

(* The script writes exactly the correctly rounded table of SinLutSpec:   *)
(* SIN_VALUE_COUNT + 1 entries round(ONE * sin(2 pi k / SIN_VALUE_COUNT)), *)
(* ties away from zero, the last repeating the first, listed in order by  *)
(* the header's lines, however the float evaluation errs within its bound. *)
RefinesSinLutSpec == Exact!SafetySpec

=============================================================================
