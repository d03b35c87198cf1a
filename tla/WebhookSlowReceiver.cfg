\* No fault: it is enough that one receiver takes more than 5 seconds.
CONSTANTS
    Event = {e1}
    Hook = {h1, h2}
    MaxRetries = 2
    MaxBatchSize = 2
    MaxFaults = 0
SPECIFICATION Spec
PROPERTY EnqueuedForAll
CHECK_DEADLOCK FALSE
