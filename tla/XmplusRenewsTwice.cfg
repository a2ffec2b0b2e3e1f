\* A renewal approved and then checked.
SPECIFICATION Spec
CONSTANTS
    w1 = w1
    w2 = w2
    Nobody = Nobody
    Dead = Dead
    Workers = {w1}
    Kinds = {"renewal"}
    MaxInvoices = 2
    MaxRequests = 3
    MaxFaults = 0
SYMMETRY WorkerSymmetry
CHECK_DEADLOCK FALSE
INVARIANTS
    CarriedOutOnce
