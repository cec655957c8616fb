SPECIFICATION StoreSpec
CONSTANTS
    Hashes = {h1, h2}
    Tasks = {t1, t2, t3}
    MaxStoreFailures = 2
SYMMETRY Symmetry
CHECK_DEADLOCK FALSE
INVARIANTS
    StoredWhole
    WholeAtRest
