\* Two approvals with stale invoices.
SPECIFICATION Spec
CONSTANTS
    w1 = w1
    w2 = w2
    Nobody = Nobody
    Dead = Dead
    Workers = {w1, w2}
    Kinds = {"purchase"}
    MaxInvoices = 2
    MaxRequests = 2
    MaxFaults = 0
SYMMETRY WorkerSymmetry
CHECK_DEADLOCK FALSE
INVARIANTS
    ShopPaysOneInvoice
