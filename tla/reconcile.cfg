SPECIFICATION Spec
CONSTANTS
    N = 4
    Ref = 2
    MinEvents = 2
    Clamp = 4
    CountLoss <- MCCountLoss
    Fits <- MCFits
    Truths <- MCTruths
INVARIANTS
    SearchInv
    FixedPoint
    RecoversTruth
    Partition
    PathsInv
PROPERTIES
    LabelsImprove
    Terminates
CHECK_DEADLOCK FALSE
