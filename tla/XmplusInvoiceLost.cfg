\* The customer comes back to the order's page.
SPECIFICATION Spec
CONSTANTS
    w1 = w1
    w2 = w2
    Nobody = Nobody
    Dead = Dead
    Workers = {w1}
    Kinds = {"purchase"}
    MaxInvoices = 2
    MaxRequests = 3
    MaxFaults = 0
SYMMETRY WorkerSymmetry
CHECK_DEADLOCK FALSE
INVARIANTS
    PaidInvoiceKept
