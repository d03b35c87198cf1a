CONSTANTS
    Forced = {r1, r2}
    MaxVersion = 3
    MaxFailures = 1
SPECIFICATION RefreshSpec
SYMMETRY ForcedSymmetry
INVARIANTS
    TokensCurrent
    NoTokenReuse
CHECK_DEADLOCK FALSE
