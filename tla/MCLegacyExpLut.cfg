\* BIT_COUNT 8 stands for the code's 64 and MANT_BITS 7 for a double's 53:
\* eight samples, MAX_VALUE = 256, divisors from 2 to 8^8 (above 2^7, so
\* float(divisor) rounds), both exp bases, tables of every length 0 to 8.
CONSTANTS
    BIT_COUNT = 8
    MANT_BITS = 7
    EXP_BASES = {"e", "1"}
SPECIFICATION Spec
INVARIANTS
    TypeOK
PROPERTIES
    RefinesExpLutSpecWithin
    Terminates
\* The script ends after writing its header: the last state has no successor.
CHECK_DEADLOCK FALSE
