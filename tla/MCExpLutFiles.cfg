\* Runs with -b 2 or 3, -p 16, and -e left out or given as one of five literals.
CONSTANTS
    DIVISOR_BASES = {2, 3}
    DIVISOR_POWERS = {16}
    EXP_LITERALS <- MCLiterals
    DEFAULT = DEFAULT
SPECIFICATION Spec
INVARIANTS
    FilesReproducible
\* The runs modelled are finite: the last state has no successor.
CHECK_DEADLOCK FALSE
