\* Safety over every kind of order and of request.
SPECIFICATION Spec
CONSTANTS
    w1 = w1
    w2 = w2
    Nobody = Nobody
    Dead = Dead
    Workers = {w1, w2}
    Kinds = {"purchase", "repurchase", "renewal"}
    MaxInvoices = 2
    MaxRequests = 3
    MaxFaults = 1
SYMMETRY WorkerSymmetry
CHECK_DEADLOCK FALSE
INVARIANTS
    TypeOK
    ShopSettlesOnce
    AckedIsSettled
    ProvisioningExclusive
    LocksAtWork
    SettledHasService
    ShopPaymentsBounded
    CarriedOutBounded
PROPERTIES
    SettlesAsPromised
    RequestsAdvance
