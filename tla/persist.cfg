SPECIFICATION BundleSpec
CONSTANTS
    r1 = r1
    r2 = r2
    r3 = r3
    s1 = s1
    s2 = s2
    NoSession = NoSession
    Result <- MCResult
    SessionDoc <- MCSessionDoc
    ArrayKeys <- MCArrayKeys
    MaxSaves = 3
INVARIANTS
    BundleInv
    FirstSaveDetected
    SessionKept
PROPERTIES
    ImplementsRegister
