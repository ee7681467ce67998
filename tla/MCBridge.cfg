CONSTANTS
    Mics = {m1}
    Polls = {p1}
    MaxClicks = 2
    MaxReports = 2
SPECIFICATION Spec
\* The host exits.
CHECK_DEADLOCK FALSE
SYMMETRY Symmetry
INVARIANTS
    PageIsKnown
    ToolbarIsTrue
    MutesFollow
    ExitUnmutes
