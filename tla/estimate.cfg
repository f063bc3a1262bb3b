SPECIFICATION MCSpec
CONSTANTS
    Evidence <- MCEvidence
    SegmentCounts <- MCSegmentCounts
    Threshold = 1
    Iterations = 2
    MaxX = 6
    MaxY = 7
    Sessions <- MCSessions
    Scale = 2
    Length = 4
INVARIANTS
    FitUsable
    TrueClockFound
    SegmentsServe
    StampsConform
    Recovered
CHECK_DEADLOCK FALSE
