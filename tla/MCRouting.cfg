CONSTANTS
    k1 = k1
    k2 = k2
    k3 = k3
    k4 = k4
    p1 = p1
    p2 = p2
    p3 = p3
    m1 = m1
    m2 = m2
    m3 = m3
    Key = {k1, k2, k3, k4}
    Provider = {p1, p2, p3}
    Model = {m1, m2, m3}
    Owner <- MCOwner
    Place <- MCPlace
    Spare = {k4, p3, m3}
    Price = {0, 1}
    Latency = {1, 2}
    None = none
    InitMappings <- MCInitMappings
    InitFallbacks <- MCInitFallbacks
    Threshold = 2
    Rest = 1
    Window = 2
    MaxReports = 4
    MaxTicks = 2
    MaxWrites = 1
    MaxFaults = 1
    MaxEvents = 3
SPECIFICATION Spec
CHECK_DEADLOCK FALSE
INVARIANTS
    BestKeyJustified
    RoutesJustified
    OrderKept
PROPERTIES
    ImplementsBreaker
