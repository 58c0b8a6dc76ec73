\* The code's own constants: PRECISION = 16 and SIN_VALUE_COUNT = 512.
CONSTANTS
    PRECISION = 16
    SIN_VALUE_COUNT = 512
SPECIFICATION Spec
INVARIANTS
    TypeOK
PROPERTIES
    RefinesSinLutSpec
\* The script ends: its last state has no successor.
CHECK_DEADLOCK FALSE
