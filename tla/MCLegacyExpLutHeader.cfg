\* As MCLegacyExpLut: divisors 2 .. 8^8 include those whose first sample
\* already exceeds MAX_VALUE, so the table is empty.
CONSTANTS
    BIT_COUNT = 8
    MANT_BITS = 7
    EXP_BASES = {"e", "1"}
SPECIFICATION Spec
INVARIANTS
    HeaderWellFormed
\* The script ends after writing its header: the last state has no successor.
CHECK_DEADLOCK FALSE
