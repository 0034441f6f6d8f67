CONSTANTS
    a = a
    b = b
    None = None
    Users = {a, b}
    MaxClients = 2
    MaxChanges = 1
    MaxCalls = 2
    MaxRetries = 1
SPECIFICATION Spec
SYMMETRY Symmetry
INVARIANTS
    ConnectionIsTheResidents
    InterfaceNeedsAgreement
    InterfaceSeesItsResident
    CallsKeepTheirResident
    PressActsOnce
CHECK_DEADLOCK FALSE
