\* A renewal paid at Plisio, and one failure.
SPECIFICATION FairSpec
CONSTANTS
    w1 = w1
    w2 = w2
    Nobody = Nobody
    Dead = Dead
    Workers = {w1, w2}
    Kinds = {"renewal"}
    MaxInvoices = 3
    MaxRequests = 0
    MaxFaults = 1
CHECK_DEADLOCK FALSE
PROPERTIES
    RenewalHonoured
