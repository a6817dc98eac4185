SPECIFICATION Spec
CONSTANTS
    Clients = {c1}
    Capacity = 5
    Refill = 5
    MsPerSec = 3
    MaxDelay = 1
    MaxTime = 16
    MaxAdmits = 6
SYMMETRY Symmetry
INVARIANTS
    AdmittedIsServed
CHECK_DEADLOCK FALSE
