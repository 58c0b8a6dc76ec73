\* The script accepts precision up to BIT_COUNT (64 in the code) and writes
\* 1 << precision for sin(pi/2) into an array of BIT_COUNT-bit signed values.
CONSTANTS
    BIT_COUNT = 8
SPECIFICATION Spec
INVARIANTS
    EntriesFitElementType
\* The script ends: its last state has no successor.
CHECK_DEADLOCK FALSE
