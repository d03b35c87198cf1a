CONSTANTS
    Event = {e1}
    Hook = {h1, h2}
    MaxRetries = 2
    MaxBatchSize = 2
    MaxFaults = 1
SPECIFICATION FairSpec
INVARIANTS
    SuccessTruthful
    GivesUpHonestly
    PostsBounded
PROPERTY EventuallySettled
CHECK_DEADLOCK FALSE
