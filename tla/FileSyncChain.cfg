SPECIFICATION FairSpec
CONSTANTS
    a = a
    b = b
    c = c
    p1 = p1
    p2 = p2
    NoSnapshot = NoSnapshot
    Gateways = {a, b, c}
    Projects = {p1, p2}
    Paths = {f1, f2}
    Parsable = {f1}
    Hashes = {x}
    Metas = {m}
    Sources = {a}
    Pulls <- Chain
    MaxEdits = 2
    MaxFailures = 1
CHECK_DEADLOCK FALSE
INVARIANTS
    TypeOK
    ScannedComplete
    QuietScanExact
PROPERTIES
    FolderStored
    HeadFollows
