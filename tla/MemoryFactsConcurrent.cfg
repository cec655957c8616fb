SPECIFICATION MemorySpec
CONSTANTS
    a = a
    b = b
    p = p
    x = x
    Unset = Unset
    None = None
    Calls = {t1, t2}
    Scopes <- MCScopes
    Filters <- MCFilters
    Limits = {1}
    MaxFacts = 2
    MaxClock = 2
    MaxErrors = 1
SYMMETRY Symmetry
INVARIANTS
    MemoryTypeOK
    ExpiredStaysOut
    LeftOutForNewer
