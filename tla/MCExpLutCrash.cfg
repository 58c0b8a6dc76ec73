\* Divisors above MAX_VALUE (base 2, power 9 in 8 bits; -b 3 -p 41 in 64) leave the table empty.
CONSTANTS
    BIT_COUNT = 8
    MANT_BITS = 7
    EXP_BASES = {"e", "1"}
SPECIFICATION Spec
PROPERTIES
    Terminates
\* The script ends, written or crashed: its last state has no successor.
CHECK_DEADLOCK FALSE
