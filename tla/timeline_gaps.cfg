SPECIFICATION Spec
CONSTANTS
    anchor = anchor
    burst = burst
    Stream <- MCStream
    Kernel <- MCKernel
    Recordings <- MCRecordings
    Steps <- MCSteps
    Tolerance = 2
INVARIANT
    GapsFlagged
CHECK_DEADLOCK FALSE
