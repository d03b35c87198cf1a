CONSTANTS
    Request = {r1, r2, r3}
    Config <- MixedConfig
    RPMLimit = 2
    LongRequests = TRUE
    MaxFaults = 1
SPECIFICATION FairSpec
INVARIANTS
    RPMOvershootBounded
    NoPhantomSlot
PROPERTIES
    RefusedOnlyWhenFull
    LeaksHeal
