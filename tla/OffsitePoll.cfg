\* The poll job with its redelivery, beside the customer's button.
SPECIFICATION FairSpec
CONSTANTS
    q1 = q1
    q2 = q2
    p1 = p1
    Workers = {q1, q2}
    Pages = {p1}
    Tries = 3
    MaxPresses = 1
    MaxFaults = 1
CHECK_DEADLOCK FALSE
INVARIANTS
    TypeOK
    RunsBounded
    WordBeforeEnd
    CompletionsBounded
PROPERTIES
    JobEnds
