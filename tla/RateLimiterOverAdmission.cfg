\* No fault, one configuration, no TTL expiry needed: two releases suffice.
CONSTANTS
    Request = {r1, r2, r3}
    Config <- SteadyConfig
    RPMLimit = 0
    LongRequests = FALSE
    MaxFaults = 0
SPECIFICATION Spec
INVARIANT ConcurrencyEnforced
