CONSTANTS
    Request = {r1, r2, r3}
    BufferSize = 1
    MaxFaults = 1
SPECIFICATION FairSpec
INVARIANTS
    NothingVanishes
    LossBounded
PROPERTIES
    ShutdownCompletes
CHECK_DEADLOCK FALSE
