CONSTANTS
    MaxEdits = 2
    MaxChildren = 2
SPECIFICATION Spec
INVARIANTS
    StaleIsNoticed
    RestartIsQuick
