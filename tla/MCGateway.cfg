\* Liveness, hence no symmetry.
CONSTANTS
    Request = {r1, r2}
    Endpoint = {"chat", "chatStream", "messagesStream", "passthrough"}
    Key = {k1}
    MaxRoutes = 2
SPECIFICATION FairSpec
INVARIANTS
    GivesUpLast
    OutcomeLogged
    BlacklistJustified
    BlacklistAnnounced
PROPERTIES
    NoFailoverAfterCommit
    KeepsPromise
    EveryRequestLeaves
