CONSTANTS
    Request = {r1}
    Admin = {a1, a2}
    Rule = {c1}
    Unborn = unborn
    Deleted = deleted
    Keep = keep
    Commands <- MCCommands
    Inputs <- MCInputs
    MaxWrites = 3
    MaxFaults = 1
SPECIFICATION Spec
SYMMETRY Symmetry
INVARIANTS
    RedactionHolds
    LogTruthful
    VerdictJustified
    UpdatesKept
