SPECIFICATION Spec
CONSTANTS
    Clients = {c1, c2}
    Capacity = 2
    Refill = 5
    MsPerSec = 3
    MaxDelay = 1
    MaxTime = 12
    MaxAdmits = 5
SYMMETRY Symmetry
INVARIANTS
    QuotaRespected
    ExpiryForgetsNothing
    RetryAfterSuffices
CHECK_DEADLOCK FALSE
