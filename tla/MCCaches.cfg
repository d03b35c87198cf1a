CONSTANTS
    Subject = {s1}
    Default = default
    Request = {r1, r2}
    Admin = {a1}
    TTL = 2
    MaxWrites = 2
    MaxFaults = 1
    Secret = {k1}
    Token = {t1, t2}
    Call = {c1, c2}
    Life = {3, 4}
    Margin = 3
    Nobody = nobody
    Client = {s1, s2}
    Content = {m1}
    Asker = {q1, q2}
    Cleaner = {x1}
    CacheTTL = 2
SPECIFICATION CachesSpec
INVARIANTS
    AgeBounded
    CoherentUnlessMixed
    AuthenticationJustified
    AnswersJustified
PROPERTY Settles
