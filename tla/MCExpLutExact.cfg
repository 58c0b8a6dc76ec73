\* The double ** against the correctly rounded entries of ExpLutSpec.
CONSTANTS
    BIT_COUNT = 8
    MANT_BITS = 7
    EXP_BASES = {"e"}
SPECIFICATION Spec
PROPERTIES
    RefinesExpLutSpecExactly
\* The script ends, written or crashed: its last state has no successor.
CHECK_DEADLOCK FALSE
