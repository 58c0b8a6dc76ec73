------------------------------- MODULE ExpLut -------------------------------
(***************************************************************************)
(* misc/scripts/exp_lut_generator.py: the sampling loop of                 *)
(* generate_exp_lut, its overflow break, and the header it writes from the *)
(* table (exp_lut[:-1] and then exp_lut[-1]).  BIT_COUNT (64 in the code)  *)
(* scales MAX_VALUE, the loop length, the command line choices and the     *)
(* int64_t element type.  exp_base is the default math.e ("e") or -e 1    *)
(* ("1"), parsed by type=float.  exponent and exp_base**exponent are       *)
(* floats of MANT_BITS bits (FloatMath: 7 stands for a double's 53); the   *)
(* Decimal product with the divisor and the + 0.5 are exact.               *)
(***************************************************************************)
EXTENDS Integers, Sequences, FloatMath

CONSTANTS BIT_COUNT, EXP_BASES

ASSUME BIT_COUNT \in 2 .. 8 /\ EXP_BASES \subseteq {"e", "1"}

VARIABLES
    divisor_base,   \* args.base
    divisor_power,  \* args.power
    exp_base,       \* args.exp
    pc,             \* "loop", "emit", "done", "crashed"
    index,          \* the loop index
    exp_lut,        \* the table built so far
    written         \* the header files written: {} or {one record}

vars == <<divisor_base, divisor_power, exp_base, pc, index, exp_lut, written>>

MAX_VALUE == 2^BIT_COUNT
BaseChoices == 2 .. BIT_COUNT     \* choices=range(2, 65)
PowerChoices == 1 .. BIT_COUNT    \* choices=range(1, 65)

divisor == divisor_base ^ divisor_power

(* exponent = (2**index) / divisor: int / int, a correctly rounded float. *)
Exponent(k, D) == FRound(2^k, D)

(* int(Decimal(pw) * Decimal(divisor) + Decimal(0.5)) for the float       *)
(* pw = m * 2^ex: floor(m * D * 2^ex + 1/2).  The Decimal product of a    *)
(* 53-bit float and a divisor up to 2^64 is exact at 28 digits except     *)
(* within 10^-8 of a tie, which the scaled model does not distinguish.     *)
DecimalValue(pw, D) ==
    IF pw[2] >= 0 THEN pw[1] * D * 2^pw[2]
    ELSE (2 * pw[1] * D + 2^(-pw[2])) \div 2^(1 - pw[2])

(* The values value can take at exp base e, divisor D and index k.  A     *)
(* divisor of 2 * MAX_VALUE or more gives value >= D (pw >= 1), which is  *)
(* represented by 2 * MAX_VALUE.                                           *)
SampleAt(e, D, k) ==
    IF D >= 2 * MAX_VALUE THEN {2 * MAX_VALUE}
    ELSE {DecimalValue(pw, D) : pw \in FPow(e, Exponent(k, D))}

(* SampleAt for every exp base, divisor base b, power p and index k,      *)
(* computed once into a table over an interval: entry                      *)
(* ((ei * BIT_COUNT + b - 1) * BIT_COUNT + p - 1) * BIT_COUNT + k for the  *)
(* ei-th of BASE_NAMES (b = 1 is unused).                                  *)
BASE_NAMES == <<"e", "1">>
SampleTable ==
    [j \in 0 .. 2 * BIT_COUNT^3 - 1 |->
        LET ei == j \div BIT_COUNT^3
            b == ((j \div BIT_COUNT^2) % BIT_COUNT) + 1
            p == ((j \div BIT_COUNT) % BIT_COUNT) + 1
            k == j % BIT_COUNT
        IN  IF b = 1 THEN {} ELSE SampleAt(BASE_NAMES[ei + 1], b^p, k)]

(* exponent and value at index k for the parsed arguments. *)
Values(k) ==
    LET ei == IF exp_base = "e" THEN 0 ELSE 1
    IN  SampleTable[((ei * BIT_COUNT + divisor_base - 1) * BIT_COUNT + divisor_power - 1)
                        * BIT_COUNT + k]

Init ==
    /\ divisor_base \in BaseChoices
    /\ divisor_power \in PowerChoices
    /\ exp_base \in EXP_BASES
    /\ pc = "loop"
    /\ index = 0
    /\ exp_lut = <<>>
    /\ written = {}

(* Mutant: the value appended before the overflow test. *)
SampleUnchecked ==
    /\ pc = "loop"
    /\ index < BIT_COUNT
    /\ \E value \in Values(index) : exp_lut' = Append(exp_lut, value)
    /\ index' = index + 1
    /\ UNCHANGED <<divisor_base, divisor_power, exp_base, pc, written>>

(* An iteration of for index in range(BIT_COUNT) whose value is in range: *)
(* exp_lut.append(value).                                                  *)
Sample ==
    /\ pc = "loop"
    /\ index < BIT_COUNT
    /\ \E value \in Values(index) :
          /\ ~(value > MAX_VALUE)
          /\ exp_lut' = Append(exp_lut, value)
    /\ index' = index + 1
    /\ UNCHANGED <<divisor_base, divisor_power, exp_base, pc, written>>

(* if value > MAX_VALUE: break. *)
Overflow ==
    /\ pc = "loop"
    /\ index < BIT_COUNT
    /\ \E value \in Values(index) : value > MAX_VALUE
    /\ pc' = "emit"
    /\ UNCHANGED <<divisor_base, divisor_power, exp_base, index, exp_lut, written>>

(* Mutant: the loop runs over range(BIT_COUNT - 1). *)
LoopEndEarly ==
    /\ pc = "loop"
    /\ index = BIT_COUNT - 1
    /\ pc' = "emit"
    /\ UNCHANGED <<divisor_base, divisor_power, exp_base, index, exp_lut, written>>

(* The loop runs out after BIT_COUNT samples. *)
LoopEnd ==
    /\ pc = "loop"
    /\ index = BIT_COUNT
    /\ pc' = "emit"
    /\ UNCHANGED <<divisor_base, divisor_power, exp_base, index, exp_lut, written>>

(* The header is built from exp_lut[:-1] and exp_lut[-1], written to       *)
(* LUT_<identifier>.hpp, and the script exits 0.                           *)
Emit ==
    /\ pc = "emit"
    /\ exp_lut # <<>>
    /\ written' = {[divisor |-> divisor, size |-> Len(exp_lut), values |-> exp_lut]}
    /\ pc' = "done"
    /\ UNCHANGED <<divisor_base, divisor_power, exp_base, index, exp_lut>>

(* exp_lut[-1] of an empty list raises IndexError: nothing is written. *)
Crash ==
    /\ pc = "emit"
    /\ exp_lut = <<>>
    /\ pc' = "crashed"
    /\ UNCHANGED <<divisor_base, divisor_power, exp_base, index, exp_lut, written>>

Next == Sample \/ Overflow \/ LoopEnd \/ Emit \/ Crash

(* A single-threaded script that never waits: it keeps taking steps. *)
Spec == Init /\ [][Next]_vars /\ WF_vars(Next)

-----------------------------------------------------------------------------
TypeOK ==
    /\ divisor_base \in BaseChoices
    /\ divisor_power \in PowerChoices
    /\ exp_base \in EXP_BASES
    /\ pc \in {"loop", "emit", "done", "crashed"}
    /\ index \in 0 .. BIT_COUNT
    /\ exp_lut \in Seq(0 .. MAX_VALUE)
    /\ Len(exp_lut) = index
    /\ written \subseteq [divisor : Nat, size : 0 .. BIT_COUNT, values : Seq(0 .. MAX_VALUE)]

WrittenTable == IF written = {} THEN <<>> ELSE (CHOOSE h \in written : TRUE).values

(* A first-order bound of the float error of entry k, in units: with       *)
(* u = 2^-MANT_BITS and x = 2^k / D, the exponent is off by x u, math.e   *)
(* by u relative (a factor (1 + u)^x) and ** rounds once, so the power is *)
(* within (2x + 3) u of e^x relative; V = D * e^x moves by V (2x + 3) u,  *)
(* and a rounding by at most one more.  Saturated entries (V >= 2 *       *)
(* MAX_VALUE) overflow in the code too.                                    *)
FloatPowSlack(e, D, k) ==
    LET hi == ScaledExpBounds(2^k, D, 2 * MAX_VALUE)[2]
        V == hi \div EXP_SCALE + 1
    IN  IF e = "1" \/ hi = 2 * MAX_VALUE * EXP_SCALE THEN 0
        ELSE (V * (2 * 2^k + 3 * D)) \div (D * 2^MANT_BITS) + 1

Status == IF pc = "done" THEN "written" ELSE "running"

Abstract == INSTANCE ExpLutSpec WITH
    Slack <- FloatPowSlack, status <- Status, table <- WrittenTable

(* The script refines ExpLutSpec within the float error bound: it writes   *)
(* the longest prefix of entries not above MAX_VALUE, each within          *)
(* FloatPowSlack of the correctly rounded value, so the break drops the    *)
(* first value above MAX_VALUE and keeps every one before it.              *)
RefinesExpLutSpecWithin == Abstract!SafetySpec

(* The script writes the correctly rounded entries of ExpLutSpec exactly, *)
(* as spec 4.1 requires of the evaluator ("precision must be sufficient    *)
(* that the subsequent quantization and overflow check are exact").        *)
Exact == INSTANCE ExpLutSpec WITH
    Slack <- LAMBDA e, D, k : 0, status <- Status, table <- WrittenTable

RefinesExpLutSpecExactly == Exact!SafetySpec

(* Every run ends with its header written (spec 7: the overflow           *)
(* truncation is a normal termination, for 0 to 64 entries).               *)
Terminates == Abstract!Terminates

(* Every value written into std::array<int64_t, ...> fits int64_t, here a *)
(* BIT_COUNT-bit signed integer.                                           *)
EntriesFitElementType ==
    \A k \in 1 .. Len(WrittenTable) : WrittenTable[k] <= 2^(BIT_COUNT - 1) - 1
=============================================================================
