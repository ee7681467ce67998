CONSTANTS
    Clients = {c1, c2, c3}
    RoomIDs = {r1, r2}
    Empty = Empty
    Names = {ada, bob}
    Modes = {"turn", "stun"}
    AuthMode = "turn"
    Authenticated = {c1}
    MaxBatch = 2
SPECIFICATION Spec
SYMMETRY Symmetry
\* Every connection may have come and gone: nothing is left to do then.
CHECK_DEADLOCK FALSE
INVARIANTS
    TypeOK
    SessionsSound
    SharesComplete
    TurnExact
    CountersExact
    SessionsKnown
    Agree
    ToldTruth
PROPERTIES
    ImplementsMesh
    LeaveForCause
