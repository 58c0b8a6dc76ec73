\* BIT_COUNT 8 stands for the code's 64: eight samples, MAX_VALUE = 256,
\* divisor bases 2..8 and powers 1..8, so divisors from 2 to 8^8 and tables
\* of every length from 0 to 8.
CONSTANTS
    BIT_COUNT = 8
    MANT_BITS = 7
    EXP_BASES = {"e", "1"}
SPECIFICATION Spec
INVARIANTS
    TypeOK
PROPERTIES
    RefinesExpLutSpecWithin
\* The script ends, written or crashed: its last state has no successor.
CHECK_DEADLOCK FALSE
