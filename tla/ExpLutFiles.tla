----------------------------- MODULE ExpLutFiles -----------------------------
(***************************************************************************)
(* misc/scripts/exp_lut_generator.py run again and again into one source  *)
(* tree: each run derives lut_identifier from its arguments, builds the    *)
(* generated_options of the header comment, and writes LUT_<identifier>.hpp *)
(* into core/object/FixedPoint, replacing a file of the same name.  The    *)
(* table a header lists is a function of the divisor and the float        *)
(* exp_base (module ExpLut); here it is named by the float base alone.      *)
(*                                                                         *)
(* A -e argument is the decimal literal typed, D * 10^x with D a natural  *)
(* in limbs (DecimalArith), or DEFAULT for the object math.e itself.       *)
(* type=float makes it the nearest double.  Every literal modelled except  *)
(* E_LITERAL has at most 9 significant digits, so its double stands for    *)
(* exactly its decimal value (two such literals give the same double       *)
(* exactly when their values are equal), and none lies within 10^-15 of a *)
(* tie at the sixth digit, so '%g' of the double is '%g' of the decimal.   *)
(***************************************************************************)
EXTENDS Integers, Sequences, TLC, DecimalArith

CONSTANTS DIVISOR_BASES, DIVISOR_POWERS, EXP_LITERALS, DEFAULT

ASSUME /\ DIVISOR_BASES \subseteq 2 .. 64 /\ DIVISOR_POWERS \subseteq 1 .. 64
       /\ DEFAULT \notin EXP_LITERALS

VARIABLES
    files,   \* the LUT_<identifier>.hpp headers in the tree: identifier -> header
    done     \* the argument vectors run so far

vars == <<files, done>>

DEFAULT_DIVISOR_BASE == 2
DEFAULT_DIVISOR_POWER == 16

(* repr(math.e): the literal that float() turns into math.e. *)
E_LITERAL == [D |-> <<9045, 2845, 2818, 2718>>, x |-> -15]

(* The arguments parse_args can return. *)
Args == [b : DIVISOR_BASES, p : DIVISOR_POWERS, e : EXP_LITERALS \cup {DEFAULT}]

(* float(lit) == math.e, with math.e = M / 2^51 and M odd: the literal     *)
(* D * 10^x lies strictly within 2^-52 of it, i.e.                          *)
(* |D * 10^x * 2^52 - 2 * M| < 1 scaled by 10^-x when x < 0.               *)
E_MANTISSA == <<8073, 1486, 265, 6121>>           \* M = 6121026514868073
FloatIsE(lit) ==
    LET up == IF lit.x >= 0 THEN lit.x ELSE 0
        dn == IF lit.x < 0 THEN -lit.x ELSE 0
        a == BMulInt(BMulInt(BMulPow10(lit.D, up), 2^26), 2^26)
        b == BMulPow10(BMulSmall(E_MANTISSA, 2), dn)
        t == BMulPow10(<<1>>, dn)
    IN  IF BCmp(a, b) >= 0 THEN BCmp(BSub(a, b), t) < 0
                           ELSE BCmp(BSub(b, a), t) < 0

(* The float a -e value becomes: math.e, or the literal's value <<c, x>>  *)
(* with the trailing zeros of c stripped.                                   *)
FloatOf(lit) ==
    IF lit = DEFAULT \/ FloatIsE(lit) THEN [isE |-> TRUE, value |-> <<>>]
    ELSE LET r == RoundRatio(lit.D, <<1>>, 9)
         IN  [isE |-> FALSE, value |-> StripZeros(r[1], r[2] + lit.x)]

(* '%g' % v and f"{v:g}" for v > 0: v rounded to 6 significant digits     *)
(* half to even, trailing zeros removed, in exponent notation ("1e+20")    *)
(* when the decimal exponent X is below -4 or at least 6.  The text is     *)
(* kept as what tells two texts apart: its digits, X and the notation.     *)
GFormat(lit) ==
    LET r == RoundRatio(lit.D, <<1>>, 6)
        s == StripZeros(r[1], r[2] + lit.x)
        X == s[2] + IntDigits(s[1]) - 1
    IN  [digits |-> s[1], X |-> X, sci |-> X < -4 \/ X >= 6]

(* 'e', or the '%g' text with '.' replaced by 'p' (a text of one or none). *)
BaseName(lit) ==
    IF FloatOf(lit).isE THEN [isE |-> TRUE, text |-> <<>>]
    ELSE [isE |-> FALSE, text |-> <<GFormat(lit)>>]

(* lut_identifier = f"{divisor_base}_{divisor_power}_EXP_{...}": 'e' when  *)
(* exp_base == e (float equality), otherwise the '%g' text.               *)
Identifier(arg) == [b |-> arg.b, p |-> arg.p, base |-> BaseName(arg.e)]

(* generated_options: each argument that "is not" its default object.     *)
(* CPython keeps one object per small int, so for -b and -p "is not" is    *)
(* !=; a float parsed from -e is a new object, never math.e itself, so     *)
(* -e is listed whenever it was given, as f"-e {exp_base:g}".  An option  *)
(* is listed as a sequence of one value, or left out as <<>>.             *)
Options(arg) ==
    [b |-> IF arg.b # DEFAULT_DIVISOR_BASE THEN <<arg.b>> ELSE <<>>,
     p |-> IF arg.p # DEFAULT_DIVISOR_POWER THEN <<arg.p>> ELSE <<>>,
     e |-> IF arg.e # DEFAULT THEN <<GFormat(arg.e)>> ELSE <<>>]

(* The header text: the comment with its options, the identifier in every *)
(* declaration, and the table of the divisor and the float base.          *)
Header(arg) ==
    [identifier |-> Identifier(arg), options |-> Options(arg),
     table |-> <<arg.b, arg.p, FloatOf(arg.e)>>]

Init ==
    /\ files = [id \in {} |-> <<>>]
    /\ done = {}

(* One run of the script with arguments arg: open(fixed_point_lut_path,   *)
(* "w") replaces any file of the same name.  Each argument vector is run   *)
(* once; running it again would write the same bytes.                       *)
Run(arg) ==
    /\ arg \notin done
    /\ files' = (Identifier(arg) :> Header(arg)) @@ files
    /\ done' = done \cup {arg}

Next == \E arg \in Args : Run(arg)

Spec == Init /\ [][Next]_vars

-----------------------------------------------------------------------------
TypeOK ==
    /\ done \subseteq Args
    /\ DOMAIN files = {Identifier(arg) : arg \in done}

(* Every run's header is still in the tree exactly as that run wrote it:  *)
(* a file is named and filled by the numeric parameters alone, so tables   *)
(* of different bases coexist (spec 3, 4) and regenerating with the same   *)
(* parameters reproduces the same bytes (spec 3).                          *)
FilesReproducible == \A arg \in done : files[Identifier(arg)] = Header(arg)
=============================================================================
