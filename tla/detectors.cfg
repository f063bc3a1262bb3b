SPECIFICATION DetectSpec
CONSTANTS
    d1 = d1
    d2 = d2
    d3 = d3
    Device <- MCDevice
    DeviceOrder <- MCOrder
    Shift <- MCShift
    TrueShift <- MCTrueShift
    Fiducials <- MCFiducials
    Inputs <- MCInputs
    Tolerance = 2
    MinObservers = 2
    Width = 2
    Duration = 12
    SampleStep = 2
    Jitter = 1
    Noise = 1
    MaxFaults = 2
    MaxEntries = 4
    MaxTime = 4
INVARIANTS
    ClusterInv
    FiducialInv
    EventsAreFiducials
PROPERTIES
    ClosedStaysClosed
CHECK_DEADLOCK FALSE
