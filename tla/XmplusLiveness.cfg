\* A payment at Plisio is honoured; purchases only.
SPECIFICATION FairSpec
CONSTANTS
    w1 = w1
    w2 = w2
    Nobody = Nobody
    Dead = Dead
    Workers = {w1, w2}
    Kinds = {"purchase", "repurchase"}
    MaxInvoices = 4
    MaxRequests = 1
    MaxFaults = 1
CHECK_DEADLOCK FALSE
PROPERTIES
    PlisioHonoured
