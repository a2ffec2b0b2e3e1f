\* The bot hands back money the rollback had already returned.
SPECIFICATION Spec
CONSTANTS
    u1 = u1
    w1 = w1
    w2 = w2
    w3 = w3
    top = top
    plan = plan
    plan2 = plan2
    renewal = renewal
    NoOrder = NoOrder
    Users = {u1}
    Workers = {w1, w2}
    TopUps = {}
    Plans = {plan}
    Renewals = {renewal}
    Owner <- MCOwner
    Amount <- MCAmount
    Renews <- MCRenews
    Opening <- MCOpening
    MaxAmount = 1
    MaxRequests = 2
    MaxCrashes = 0
SYMMETRY WorkerSymmetry
CHECK_DEADLOCK FALSE
INVARIANTS
    ReturnsOnlyWhatWasTaken
