CONSTANTS
    Clients = {c1, c2}
    MaxRead = 1
    MaxWrites = 2
SPECIFICATION FairSpec
\* Peers may stop connecting and sending: then nothing is left to do.
CHECK_DEADLOCK FALSE
INVARIANTS
    DisconnectedOnce
PROPERTIES
    EventuallyRemoved
    GoroutinesEnd
