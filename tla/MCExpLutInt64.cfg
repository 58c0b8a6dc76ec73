\* Entries up to MAX_VALUE = 2^BIT_COUNT go into an int64_t array.
CONSTANTS
    BIT_COUNT = 8
    MANT_BITS = 7
    EXP_BASES = {"e"}
SPECIFICATION Spec
INVARIANTS
    EntriesFitElementType
\* The script ends, written or crashed: its last state has no successor.
CHECK_DEADLOCK FALSE
