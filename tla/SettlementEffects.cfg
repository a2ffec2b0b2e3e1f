\* Two orders and a renewal of an invited customer, one discount code.
SPECIFICATION Spec
CONSTANTS
    w1 = w1
    w2 = w2
    o1 = o1
    o2 = o2
    r1 = r1
    none = none
    Workers = {w1, w2}
    Purchases = {o1, o2}
    Renewals = {r1}
    NoOrder = none
    Limit = 1
    UserLimit = 1
    MaxRequests = 4
    MaxCrashes = 1
SYMMETRY Symmetry
CHECK_DEADLOCK FALSE
INVARIANTS
    TypeOK
    RewardsBounded
    FirstPurchaseRewarded
    UsedExplained
    ExhaustedCodeStops
