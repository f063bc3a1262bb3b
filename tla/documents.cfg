SPECIFICATION EntitySpec
CONSTANTS
    Classes <- MCClasses
    MaxOdd = 1
    MaxHarm = 1
INVARIANTS
    DocumentInv
    RoundTrip
    DamageConfined
CHECK_DEADLOCK FALSE
