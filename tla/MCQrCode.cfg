CONSTANT Lengths = {0, 16, 17, 18, 31, 32, 52, 53, 105, 106, 153, 160}
SPECIFICATION Spec
\* The matrix is done.
CHECK_DEADLOCK FALSE
INVARIANTS
    CodewordsAreRight
    PatternsAndDataStand
