\* The decimal evaluator at a 4-digit context precision, up to 32 samples.
CONSTANTS
    PREC = 4
    MAX_COUNT_LOG2 = 5
    MAX_TERMS = 20
SPECIFICATION Spec
INVARIANTS TypeOK PiCorrectlyRounded SinErrorWithin
PROPERTY Terminates
\* generate_sin_lut returns once its loop is done.
CHECK_DEADLOCK FALSE
