CONSTANTS
    Sessions = {s1}
    MaxCaptures = 2
    MaxMics = 2
SPECIFICATION Spec
INVARIANTS
    PictureIsRight
    MuteObeyed
    CaptureOwned
    NoGhostHost
