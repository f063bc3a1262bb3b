SPECIFICATION Spec
CONSTANTS
    N = 3
    Fleets <- MCFleets
    Limits <- MCLimits
    Unlimited = Unlimited
    MaxReuses = 1
    MaxCalls = 2
INVARIANTS
    AdaptersInv
    WholePrefixes
    Repeatable
    SessionBuilt
PROPERTIES
    ImplementsManager
CHECK_DEADLOCK FALSE
