SPECIFICATION Spec
CONSTANTS
    N = 3
    Ref = 1
    MinEvents = 2
    Clamp = 4
    CountLoss <- MCCountLoss
    Observed <- MCObserved
    Clocks <- MCClocks
    Errors <- MCErrors
    Wrong <- MCWrong
    Residuals <- MCResiduals
    Deliveries <- MCDeliveries
    Gates <- MCGates
INVARIANTS
    EngineInv
    ResidualTellsTruth
    EventsLocated
    VerdictMonotone
CHECK_DEADLOCK FALSE
