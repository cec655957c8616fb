SPECIFICATION ContainerSpec
CONSTANTS
    Nobody = Nobody
    Spawns = {s1, s2, s3}
    FirstVmid = 2
    LastVmid = 6
    Existing = {1}
    Elsewhere = {3}
    MaxFaults = 1
    MaxOthers = 1
SYMMETRY Symmetry
CHECK_DEADLOCK FALSE
INVARIANTS
    ContainerTypeOK
    OwnContainer
    FailsWithCause
