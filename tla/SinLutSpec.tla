----------------------------- MODULE SinLutSpec -----------------------------
(***************************************************************************)
(* What one run of the sine LUT generator promises (spec 4.3, 7, 8): for   *)
(* count_log2 <= precision it writes the 2^count_log2 + 1 entries          *)
(* round(2^precision * sin(2 pi k / 2^count_log2)), ties away from zero,   *)
(* the last repeating the first; otherwise it writes nothing; and it ends. *)
(* Slack(p) is the tolerance of an entry at precision p: 0 for the exact   *)
(* generator, a float error bound for the legacy float one.               *)
(***************************************************************************)
EXTENDS Integers, Sequences, Quantizer, RealBounds

CONSTANT BIT_COUNT   \* the width the command line ranges and int64_t are built on
CONSTANT Slack(_)    \* entries may be off by Slack(precision) units

VARIABLES precision, count_log2, status, table

vars == <<precision, count_log2, status, table>>

(* Bounds of sin(pi/2 * h / 2^BIT_COUNT) in units 2^-24. *)
QuarterSinBounds == [h \in 0 .. 2^BIT_COUNT |-> SinHalfPiBounds(h, 2^BIT_COUNT)]

(* Bounds of sin(2 pi k / n), for n dividing 2^BIT_COUNT, reduced by     *)
(* mirror symmetry: the angle is pi/2 * (4k/n), sin(pi - x) = sin x and    *)
(* sin(x + pi) = -sin x.                                                   *)
SinBounds(k, n) ==
    LET a == 4 * k
        pos(h) == QuarterSinBounds[h * (2^BIT_COUNT \div n)]
        neg(h) == <<-pos(h)[2], -pos(h)[1]>>
    IN  CASE a <= n     -> pos(a)
          [] a <= 2 * n -> pos(2 * n - a)
          [] a <= 3 * n -> neg(a - 2 * n)
          [] OTHER      -> neg(4 * n - a)

(* The integers 2^p * sin(2 pi k / 2^c) rounds to, ties away from zero,   *)
(* widened by Slack(p).                                                    *)
Rounded(p, c, k) ==
    LET b == SinBounds(k, 2^c)
        d == SIN_SCALE \div 2^p
    IN  NearestAwayFromZero(b[1], d) - Slack(p) .. NearestAwayFromZero(b[2], d) + Slack(p)

IsSinTable(p, c, t) ==
    /\ Len(t) = 2^c + 1
    /\ \A k \in 0 .. 2^c - 1 : t[k + 1] \in Rounded(p, c, k)
    /\ t[2^c + 1] = t[1]

Init ==
    /\ precision \in 1 .. BIT_COUNT
    /\ count_log2 \in 1 .. BIT_COUNT
    /\ status = "running"
    /\ table = <<>>

Write ==
    /\ status = "running"
    /\ count_log2 <= precision
    /\ IsSinTable(precision, count_log2, table')
    /\ status' = "written"
    /\ UNCHANGED <<precision, count_log2>>

Reject ==
    /\ status = "running"
    /\ count_log2 > precision
    /\ status' = "rejected"
    /\ UNCHANGED <<precision, count_log2, table>>

Next == Write \/ Reject

SafetySpec == Init /\ [][Next]_vars

(* The run ends with the table written or the arguments rejected. *)
Terminates == <>(status # "running")

Spec == SafetySpec /\ WF_vars(Next)
=============================================================================
