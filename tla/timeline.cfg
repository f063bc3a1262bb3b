SPECIFICATION Spec
CONSTANTS
    anchor = anchor
    burst = burst
    Stream <- MCStream
    Kernel <- MCKernel
    Recordings <- MCRecordings
    Steps <- MCSteps
    Tolerance = 2
INVARIANTS
    GridInv
    JoinInv
    Scored
    BucketsFaithful
CHECK_DEADLOCK FALSE
