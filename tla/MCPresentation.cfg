CONSTANTS
    Sessions = {s1}
    AutoShare = TRUE
    MaxCaptures = 2
    MaxFreezes = 2
SPECIFICATION PageSpec
INVARIANTS
    CaptureOwned
    NoGhostHost
    MuteObeyed
