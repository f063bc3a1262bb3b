SPECIFICATION Spec
CONSTANTS
    N = 3
    Fleets <- MCFleets
    Limits <- MCLimits
    Unlimited = Unlimited
    MaxReuses = 0
    MaxCalls = 1
INVARIANTS
    RejectedAtIngestion
CHECK_DEADLOCK FALSE
