\* BIT_COUNT 8 stands for the code's 64: precision and count_log2 range
\* over 1..8, tables reach 257 entries and int64_t is an 8-bit signed type.
CONSTANTS
    BIT_COUNT = 8
SPECIFICATION Spec
INVARIANTS
    TypeOK
PROPERTIES
    RefinesSinLutSpec
\* The script ends: its last state has no successor.
CHECK_DEADLOCK FALSE
