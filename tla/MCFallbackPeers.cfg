CONSTANTS
    Viewers = {v1}
    Host = host
    MaxLosses = 1
    MaxShares = 1
    MaxIce = 3
    MaxConns = 2
SPECIFICATION Spec
\* With the bounds used up and everybody in the room nothing is left to do.
CHECK_DEADLOCK FALSE
INVARIANTS
    IceComplete
    MessagesFindPeers
PROPERTIES
    NobodyThrownOut
