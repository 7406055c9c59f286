SPECIFICATION FairSpec
CHECK_DEADLOCK FALSE
CONSTANTS
    Requests = {q1, q2}
    Walks = {w1}
    Labs = {"plain", "swapped", "broken"}
    BrokenLabs = {"broken"}
    SwappedLabs = {"swapped"}
    RunForms <- SomeForms
    SendAttacks <- WalkAttacks
    MaxPosts = 3
    None = None
INVARIANTS
    TypeOK
    OnePairServes
    ResultFromBothRounds
    ReplayIsRefused
PROPERTIES
    EveryRequestAnswered
