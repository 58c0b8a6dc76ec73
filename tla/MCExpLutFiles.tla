---------------------------- MODULE MCExpLutFiles ----------------------------
(***************************************************************************)
(* The -e literals of the model: repr(math.e), its six-digit '%g' text     *)
(* 2.71828, 1, 1.0000001 and 1e20.                                          *)
(***************************************************************************)
EXTENDS ExpLutFiles

MCLiterals ==
    { E_LITERAL,
      [D |-> BFromInt(271828), x |-> -5],
      [D |-> BFromInt(1), x |-> 0],
      [D |-> BFromInt(10000001), x |-> -7],
      [D |-> BFromInt(1), x |-> 20] }
=============================================================================
