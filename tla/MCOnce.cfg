CONSTANTS
    Callers = {p1, p2, p3, p4}
    Nobody = Nobody
SPECIFICATION OnceSpec
\* Every caller calls Do once.
CHECK_DEADLOCK FALSE
INVARIANTS
    AtMostOnce
    SomebodyRuns
PROPERTIES
    OthersReturn
