------------------------------- MODULE SinLut -------------------------------
(***************************************************************************)
(* misc/scripts/sin_lut_generator.py: the command line check, the sampling *)
(* loop of generate_sin_lut and the header it writes.  The command line    *)
(* choices range(1, 65) and the int64_t element type are scaled to         *)
(* BIT_COUNT bits (64 in the code).  decimal_sin(2 * decimal_pi() * i /    *)
(* count) is exact to ~1e-27 at the context's 28 digits; the model takes   *)
(* for it every real inside certified bounds of the true sine (RealBounds),*)
(* which contain the code's value.                                         *)
(***************************************************************************)
EXTENDS Integers, Sequences, SequencesExt, Quantizer, RealBounds

CONSTANT BIT_COUNT

ASSUME BIT_COUNT \in 2 .. 16

VARIABLES
    precision,     \* args.precision
    count_log2,    \* args.count
    pc,            \* "main", "loop" (in generate_sin_lut), "done", "error"
    i,             \* the loop index of generate_sin_lut
    SinLut,        \* the table built so far
    written        \* the header files written: {} or {one record}

vars == <<precision, count_log2, pc, i, SinLut, written>>

ArgChoices == 1 .. BIT_COUNT      \* choices=range(1, 65)
VALS_PER_LINE == 16

One == 2^precision             \* one = 1 << precision
Count == 2^count_log2          \* count = 1 << count_log2

(* Bounds of sin(pi/2 * h / 2^BIT_COUNT) for the first quadrant, computed *)
(* once for the finest grid.                                               *)
QuarterSin == [h \in 0 .. 2^BIT_COUNT |-> SinHalfPiBounds(h, 2^BIT_COUNT)]

(* Bounds of sin(2 pi i / count): the angle lies in quadrant (4i) \div count *)
(* at fraction ((4i) % count) / count of it.                               *)
SinBoundsAt(n) ==
    LET q == (4 * n) \div Count
        r == (4 * n) % Count
        b == QuarterSin[(IF q % 2 = 0 THEN r ELSE Count - r) * 2^(BIT_COUNT - count_log2)]
    IN  IF q < 2 THEN b ELSE <<-b[2], -b[1]>>

(* angle, decimal_sin(angle), moved_sin = sin_value * one and its rounding: *)
(* the values rounded_sin can take.                                        *)
SampleValues(n) ==
    LET b == SinBoundsAt(n)
        d == SIN_SCALE \div One
    IN  RoundSin(b[1], d) .. RoundSin(b[2], d)

(* The table split into lines of VALS_PER_LINE values; the header writes   *)
(* lines[:-1] each with a trailing comma, then lines[-1] without one.      *)
Lines(t) ==
    [r \in 1 .. (Len(t) + VALS_PER_LINE - 1) \div VALS_PER_LINE |->
        SubSeq(t, (r - 1) * VALS_PER_LINE + 1,
               IF r * VALS_PER_LINE < Len(t) THEN r * VALS_PER_LINE ELSE Len(t))]
Header(t) ==
    [precision |-> precision, count_log2 |-> count_log2,
     values |-> FlattenSeq(Lines(t))]

Init ==
    /\ precision \in ArgChoices
    /\ count_log2 \in ArgChoices
    /\ pc = "main"
    /\ i = 0
    /\ SinLut = <<>>
    /\ written = {}

(* args.precision < args.count: print the error and exit(-1). *)
Reject ==
    /\ pc = "main"
    /\ precision < count_log2
    /\ pc' = "error"
    /\ UNCHANGED <<precision, count_log2, i, SinLut, written>>

(* Mutant: the precision check left out. *)
StartUnchecked ==
    /\ pc = "main"
    /\ pc' = "loop"
    /\ UNCHANGED <<precision, count_log2, i, SinLut, written>>

(* generate_sin_lut(args.precision, args.count) is called. *)
Start ==
    /\ pc = "main"
    /\ ~(precision < count_log2)
    /\ pc' = "loop"
    /\ UNCHANGED <<precision, count_log2, i, SinLut, written>>

(* Mutant: the loop bound off by one, range(count + 1). *)
SampleOffByOne ==
    /\ pc = "loop"
    /\ i <= Count
    /\ \E v \in SampleValues(i) : SinLut' = Append(SinLut, v)
    /\ i' = i + 1
    /\ UNCHANGED <<precision, count_log2, pc, written>>

(* One iteration of: for i in range(count). *)
Sample ==
    /\ pc = "loop"
    /\ i < Count
    /\ \E v \in SampleValues(i) : SinLut' = Append(SinLut, v)
    /\ i' = i + 1
    /\ UNCHANGED <<precision, count_log2, pc, written>>

(* After the loop: SinLut.append(SinLut[0]), the header is written to     *)
(* FixedPointLUT_sin.hpp and the script exits 0.                           *)
Finish ==
    /\ pc = "loop"
    /\ i = Count
    /\ SinLut' = Append(SinLut, SinLut[1])
    /\ written' = {Header(SinLut')}
    /\ pc' = "done"
    /\ UNCHANGED <<precision, count_log2, i>>

Next == Reject \/ Start \/ Sample \/ Finish

(* A single-threaded script that never waits: it keeps taking steps. *)
Spec == Init /\ [][Next]_vars /\ WF_vars(Next)

-----------------------------------------------------------------------------
TypeOK ==
    /\ precision \in ArgChoices
    /\ count_log2 \in ArgChoices
    /\ pc \in {"main", "loop", "done", "error"}
    /\ i \in 0 .. Count
    /\ SinLut \in Seq(Int)
    /\ written \subseteq [precision : ArgChoices, count_log2 : ArgChoices, values : Seq(Int)]

WrittenTable == IF written = {} THEN <<>> ELSE (CHOOSE h \in written : TRUE).values

(* Every value written into std::array<int64_t, ...> SIN fits int64_t,    *)
(* here a BIT_COUNT-bit signed integer.                                    *)
EntriesFitElementType ==
    \A k \in 1 .. Len(WrittenTable) :
        WrittenTable[k] \in -(2^(BIT_COUNT - 1)) .. 2^(BIT_COUNT - 1) - 1

(* The script refines SinLutSpec: it rejects exactly the invalid           *)
(* arguments before sampling, writes exactly the correctly rounded table   *)
(* with its wrap-around entry, and always ends.                            *)
Abstract == INSTANCE SinLutSpec WITH
    Slack <- LAMBDA p : 0,
    status <- CASE pc \in {"main", "loop"} -> "running"
                [] pc = "done"             -> "written"
                [] pc = "error"            -> "rejected",
    table <- WrittenTable

RefinesSinLutSpec == Abstract!SafetySpec

=============================================================================
