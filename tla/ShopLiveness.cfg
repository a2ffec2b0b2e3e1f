\* Liveness under the fairness of FairSpec.
SPECIFICATION FairSpec
CONSTANTS
    u1 = u1
    w1 = w1
    w2 = w2
    w3 = w3
    top = top
    plan = plan
    plan2 = plan2
    renewal = renewal
    NoOrder = NoOrder
    Users = {u1}
    Workers = {w1, w2}
    TopUps = {}
    Plans = {plan}
    Renewals = {renewal}
    Owner <- MCOwner
    Amount <- MCAmount
    Renews <- MCRenews
    Opening <- MCOpening
    MaxAmount = 1
    MaxRequests = 1
    MaxCrashes = 1
CHECK_DEADLOCK FALSE
PROPERTIES
    RequestsEnd
    PlisioHonoured
