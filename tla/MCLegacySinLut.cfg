\* BIT_COUNT 8 stands for the code's 64 and MANT_BITS 7 for a double's 53:
\* precision reaches one bit past the mantissa, as 64 does past 53.
CONSTANTS
    BIT_COUNT = 8
    MANT_BITS = 7
SPECIFICATION Spec
INVARIANTS
    TypeOK
PROPERTIES
    RefinesSinLutSpecWithin
\* The script ends: its last state has no successor.
CHECK_DEADLOCK FALSE
