SPECIFICATION Spec
CONSTANTS
    DeviceId = {a, b}
    MaxCalibrations = 1
    LoadStates = {"created", "devices_registered"}
INVARIANTS
    SessionInv
    StoredIsValid
    ReferenceKept
PROPERTIES
    RegistrationFrozen
