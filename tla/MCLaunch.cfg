CONSTANTS
    Hosts = {h1, h2}
    NoHost = none
    MaxCrashes = 1
SPECIFICATION LaunchSpec
\* Every host has ended.
CHECK_DEADLOCK FALSE
INVARIANTS
    CleanSlate
    TakeOver
PROPERTIES
    Starts
