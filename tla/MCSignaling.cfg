CONSTANTS
    Viewers = {v1, v2}
    Presenter = h
    MaxShares = 1
SPECIFICATION FairSpec
\* All pages may be closed.
CHECK_DEADLOCK FALSE
INVARIANTS
    MessagesFindPeers
PROPERTIES
    SharingIsSeen
    TilesEnd
