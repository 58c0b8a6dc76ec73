----------------------------- MODULE ExpLutSpec -----------------------------
(***************************************************************************)
(* What one run of the exponential LUT generator promises (spec 3, 4.3,   *)
(* 7): for divisor D = base^power it writes the longest prefix of          *)
(* round(D * b^(2^index / D)) for the base b and index in 0 .. BIT_COUNT - 1  *)
(* whose values do not exceed MAX_VALUE = 2^BIT_COUNT, 0 to BIT_COUNT      *)
(* entries, and it ends.  BIT_COUNT is 64 in the code; the bases are e     *)
(* ("e") and 1 ("1").  Slack(e, D, k) is the tolerance of entry k: 0 for  *)
(* exact arithmetic, a float error bound where ** is a double.            *)
(***************************************************************************)
EXTENDS Integers, Sequences, Quantizer, RealBounds

CONSTANTS BIT_COUNT, EXP_BASES
CONSTANT Slack(_, _, _)   \* entry k may be off by Slack(e, D, k) units

VARIABLES divisor_base, divisor_power, exp_base, status, table

vars == <<divisor_base, divisor_power, exp_base, status, table>>

MAX_VALUE == 2^BIT_COUNT
Bases == 2 .. BIT_COUNT
Powers == 1 .. BIT_COUNT

(* Bounds of D * b^(2^k / D), saturated at 2 * MAX_VALUE. *)
ScaledExp ==
    [e \in EXP_BASES, D \in {b ^ p : b \in Bases, p \in Powers}, k \in 0 .. BIT_COUNT - 1 |->
        IF e = "e" THEN ScaledExpBounds(2^k, D, 2 * MAX_VALUE)
        ELSE ScaledOneBounds(D, 2 * MAX_VALUE)]

(* The integers int(b^(2^k / D) * D + 0.5) can be, widened by Slack; any  *)
(* value above MAX_VALUE is represented by 2 * MAX_VALUE.                  *)
Quantized(e, D, k) ==
    LET b == ScaledExp[e, D, k]
    IN  RoundExp(b[1], EXP_SCALE) - Slack(e, D, k) .. RoundExp(b[2], EXP_SCALE) + Slack(e, D, k)

(* t is the longest prefix of in-range quantized samples. *)
IsExpTable(e, D, t) ==
    /\ Len(t) <= BIT_COUNT
    /\ \A k \in 1 .. Len(t) : t[k] \in Quantized(e, D, k - 1) /\ t[k] <= MAX_VALUE
    /\ Len(t) < BIT_COUNT => \E v \in Quantized(e, D, Len(t)) : v > MAX_VALUE

Init ==
    /\ divisor_base \in Bases
    /\ divisor_power \in Powers
    /\ exp_base \in EXP_BASES
    /\ status = "running"
    /\ table = <<>>

Write ==
    /\ status = "running"
    /\ IsExpTable(exp_base, divisor_base ^ divisor_power, table')
    /\ status' = "written"
    /\ UNCHANGED <<divisor_base, divisor_power, exp_base>>

Next == Write

SafetySpec == Init /\ [][Next]_vars

(* Every run ends with its table written. *)
Terminates == <>(status = "written")

Spec == SafetySpec /\ WF_vars(Next)
=============================================================================
