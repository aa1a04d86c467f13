\* One save, no failing call, a buffer that cannot overflow.
CONSTANTS
    MaxSaves = 1
    MaxNoise = 0
    BufferCap = 4
    Faults = FALSE
SPECIFICATION Spec
PROPERTY
    EditsApply
CHECK_DEADLOCK FALSE
