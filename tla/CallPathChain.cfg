SPECIFICATION FairSpec
CONSTANTS
    a = a
    b = b
    e1 = e1
    e2 = e2
    External = External
    None = None
    Agents = {a, b}
    Endpoints = {e1, e2}
    Calls = {c1, c2}
    Roots = {c1}
    Tasks = {t1, t2}
    CallGraph <- MutualGraph
    Seeds <- SeedA
    Relays = {b}
    MaxHops = 1
    Retries = 1
    HopWidth = 16
    MaxRegistrations = 2
    MaxFailures = 1
CHECK_DEADLOCK FALSE
INVARIANTS
    TypeOK
    RunsBounded
    RefusedNeverRan
    ChainBounded
PROPERTY
    CallEnds
