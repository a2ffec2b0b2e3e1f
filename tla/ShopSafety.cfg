\* Safety over every entry point.
SPECIFICATION Spec
CONSTANTS
    u1 = u1
    w1 = w1
    w2 = w2
    w3 = w3
    top = top
    plan = plan
    plan2 = plan2
    renewal = renewal
    NoOrder = NoOrder
    Users = {u1}
    Workers = {w1, w2}
    TopUps = {top}
    Plans = {plan}
    Renewals = {renewal}
    Owner <- MCOwner
    Amount <- MCAmount
    Renews <- MCRenews
    Opening <- MCOpening
    MaxAmount = 1
    MaxRequests = 3
    MaxCrashes = 1
SYMMETRY WorkerSymmetry
CHECK_DEADLOCK FALSE
INVARIANTS
    TypeOK
    WalletExplained
    FulfilledOnce
    AckedIsSettled
    OverdraftBounded
    ApprovalsBounded
PROPERTIES
    SettlesAsPromised
    RequestsAdvance
