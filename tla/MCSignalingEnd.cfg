CONSTANTS
    Viewers = {v1}
    Presenter = h
    MaxShares = 1
SPECIFICATION Spec
INVARIANTS
    EndedIsClosed
CHECK_DEADLOCK FALSE
