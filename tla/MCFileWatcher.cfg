\* Two saves and one write to another file against a buffer of two records,
\* which a single save already fills.
CONSTANTS
    MaxSaves = 2
    MaxNoise = 1
    BufferCap = 2
    Faults = TRUE
SPECIFICATION Spec
INVARIANTS
    AtMostOneLateCallback
    WaitingMeansCurrent
PROPERTIES
    NoticedChangesLoad
    StopEndsLoop
CHECK_DEADLOCK FALSE
