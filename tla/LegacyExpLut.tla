---------------------------- MODULE LegacyExpLut ----------------------------
(***************************************************************************)
(* src/openvic-simulation/types/fixed_point/lut_generator/                 *)
(* exp_lut_generator.py, the float predecessor of the misc script: the     *)
(* same loop and break, but value = int((exp_base**exponent) * divisor +   *)
(* 0.5) is float arithmetic throughout, and the header is a list of lines  *)
(* whose last one loses its last character (output[-1][:-1]).  Widths are  *)
(* scaled as in ExpLut: BIT_COUNT 8 for 64, MANT_BITS 7 for 53.            *)
(***************************************************************************)
EXTENDS Integers, Sequences, FloatMath

CONSTANTS BIT_COUNT, EXP_BASES

ASSUME BIT_COUNT \in 2 .. 8 /\ EXP_BASES \subseteq {"e", "1"}

VARIABLES
    divisor_base,   \* args.base
    divisor_power,  \* args.power
    exp_base,       \* args.exp
    pc,             \* "loop", "emit", "done"
    index,          \* the loop index
    exp_lut,        \* the table built so far
    written         \* the header files written: {} or {one record}

vars == <<divisor_base, divisor_power, exp_base, pc, index, exp_lut, written>>

MAX_VALUE == 2^BIT_COUNT
BaseChoices == 2 .. BIT_COUNT     \* choices=range(2, 65)
PowerChoices == 1 .. BIT_COUNT    \* choices=range(1, 65)

divisor == divisor_base ^ divisor_power

(* exponent = (2**index) / divisor: int / int, a correctly rounded float. *)
Exponent(k, D) == FRound(2^k, D)

(* int(pw * divisor + 0.5): divisor is converted to a float, the product   *)
(* and the sum each round, int truncates.                                  *)
LegacyValue(pw, D) == FTrunc(FAddHalves(FMul(pw, FromInt(D)), 1))

(* The values value can take at exp base e, divisor D and index k.  A     *)
(* divisor of 2 * MAX_VALUE or more gives value >= float(D) > MAX_VALUE,   *)
(* which is represented by 2 * MAX_VALUE.                                  *)
SampleAt(e, D, k) ==
    IF D >= 2 * MAX_VALUE THEN {2 * MAX_VALUE}
    ELSE {LegacyValue(pw, D) : pw \in FPow(e, Exponent(k, D))}

(* SampleAt for every exp base, divisor base, power and index, computed   *)
(* once into a table over an interval, indexed as in ExpLut.               *)
BASE_NAMES == <<"e", "1">>
SampleTable ==
    [j \in 0 .. 2 * BIT_COUNT^3 - 1 |->
        LET ei == j \div BIT_COUNT^3
            b == ((j \div BIT_COUNT^2) % BIT_COUNT) + 1
            p == ((j \div BIT_COUNT) % BIT_COUNT) + 1
            k == j % BIT_COUNT
        IN  IF b = 1 THEN {} ELSE SampleAt(BASE_NAMES[ei + 1], b^p, k)]

Values(k) ==
    LET ei == IF exp_base = "e" THEN 0 ELSE 1
    IN  SampleTable[((ei * BIT_COUNT + divisor_base - 1) * BIT_COUNT + divisor_power - 1)
                        * BIT_COUNT + k]

(* The header as its lines, each by kind and last character: the array    *)
(* declaration ends in "{", each value line in ",".  output[-1][:-1]      *)
(* strips the last character of the last line: a value's comma, or the    *)
(* declaration's "{" when the table is empty.                              *)
Output(t) ==
    LET lines == <<[kind |-> "declaration", last |-> "{"]>>
                   \o [j \in 1 .. Len(t) |-> [kind |-> "value", last |-> ","]]
    IN  [lines EXCEPT ![Len(lines)].last = ""]

Init ==
    /\ divisor_base \in BaseChoices
    /\ divisor_power \in PowerChoices
    /\ exp_base \in EXP_BASES
    /\ pc = "loop"
    /\ index = 0
    /\ exp_lut = <<>>
    /\ written = {}

(* Mutant: the value appended before the overflow test. *)
SampleUnchecked ==
    /\ pc = "loop"
    /\ index < BIT_COUNT
    /\ \E value \in Values(index) : exp_lut' = Append(exp_lut, value)
    /\ index' = index + 1
    /\ UNCHANGED <<divisor_base, divisor_power, exp_base, pc, written>>

(* An iteration of for index in range(BIT_COUNT) whose value is in range: *)
(* exp_lut.append(value).                                                  *)
Sample ==
    /\ pc = "loop"
    /\ index < BIT_COUNT
    /\ \E value \in Values(index) :
          /\ ~(value > MAX_VALUE)
          /\ exp_lut' = Append(exp_lut, value)
    /\ index' = index + 1
    /\ UNCHANGED <<divisor_base, divisor_power, exp_base, pc, written>>

(* if value > MAX_VALUE: break. *)
Overflow ==
    /\ pc = "loop"
    /\ index < BIT_COUNT
    /\ \E value \in Values(index) : value > MAX_VALUE
    /\ pc' = "emit"
    /\ UNCHANGED <<divisor_base, divisor_power, exp_base, index, exp_lut, written>>

(* Mutant: the loop runs over range(BIT_COUNT - 1). *)
LoopEndEarly ==
    /\ pc = "loop"
    /\ index = BIT_COUNT - 1
    /\ pc' = "emit"
    /\ UNCHANGED <<divisor_base, divisor_power, exp_base, index, exp_lut, written>>

(* The loop runs out after BIT_COUNT samples. *)
LoopEnd ==
    /\ pc = "loop"
    /\ index = BIT_COUNT
    /\ pc' = "emit"
    /\ UNCHANGED <<divisor_base, divisor_power, exp_base, index, exp_lut, written>>

(* Mutant: the header needs an entry, as exp_lut[-1] in the misc script. *)
EmitNonEmpty ==
    /\ pc = "emit"
    /\ exp_lut # <<>>
    /\ written' = {[divisor |-> divisor, size |-> Len(exp_lut), values |-> exp_lut,
                    lines |-> Output(exp_lut)]}
    /\ pc' = "done"
    /\ UNCHANGED <<divisor_base, divisor_power, exp_base, index, exp_lut>>

(* The header lines are built, the last one stripped, the file             *)
(* FixedPoint<identifier>.hpp written, and the script exits 0.             *)
Emit ==
    /\ pc = "emit"
    /\ written' = {[divisor |-> divisor, size |-> Len(exp_lut), values |-> exp_lut,
                    lines |-> Output(exp_lut)]}
    /\ pc' = "done"
    /\ UNCHANGED <<divisor_base, divisor_power, exp_base, index, exp_lut>>

Next == Sample \/ Overflow \/ LoopEnd \/ Emit

(* A single-threaded script that never waits: it keeps taking steps. *)
Spec == Init /\ [][Next]_vars /\ WF_vars(Next)

-----------------------------------------------------------------------------
TypeOK ==
    /\ divisor_base \in BaseChoices
    /\ divisor_power \in PowerChoices
    /\ exp_base \in EXP_BASES
    /\ pc \in {"loop", "emit", "done"}
    /\ index \in 0 .. BIT_COUNT
    /\ exp_lut \in Seq(0 .. MAX_VALUE)
    /\ Len(exp_lut) = index
    /\ \A h \in written : h.size = Len(h.values) /\ Len(h.lines) = h.size + 1

WrittenTable == IF written = {} THEN <<>> ELSE (CHOOSE h \in written : TRUE).values

(* A first-order bound of the float error of entry k, in units: as in      *)
(* ExpLut for the power (2x + 3) u relative at x = 2^k / D, or exact for   *)
(* 1.0 ** x, plus float(divisor) and the product rounding (u each) and    *)
(* the sum + 0.5 (u of V + 1/2), and one more for the final rounding.      *)
LegacySlack(e, D, k) ==
    LET hi == IF e = "e" THEN ScaledExpBounds(2^k, D, 2 * MAX_VALUE)[2]
              ELSE ScaledOneBounds(D, 2 * MAX_VALUE)[2]
        V == hi \div EXP_SCALE + 1
        xTerm == IF e = "e" THEN 2 * 2^k ELSE 0
    IN  IF hi = 2 * MAX_VALUE * EXP_SCALE THEN 0
        ELSE (V * (xTerm + 6 * D)) \div (D * 2^MANT_BITS) + 2

Status == IF pc = "done" THEN "written" ELSE "running"

Approximate == INSTANCE ExpLutSpec WITH
    Slack <- LegacySlack, status <- Status, table <- WrittenTable

(* The float generator refines ExpLutSpec within LegacySlack: it writes   *)
(* the longest prefix of entries not above MAX_VALUE, each within the     *)
(* float error bound of the correctly rounded value.                       *)
RefinesExpLutSpecWithin == Approximate!SafetySpec

(* Every run ends with its header written, an empty table included. *)
Terminates == Approximate!Terminates

(* The header is well formed: the array declaration keeps the "{" that    *)
(* opens its initializer, whatever the table's length (spec 4.3: 0 to 64  *)
(* entries).                                                               *)
HeaderWellFormed ==
    \A h \in written : h.lines[1].last = "{"
=============================================================================
