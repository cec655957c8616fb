SPECIFICATION Spec
CONSTANTS
    a = a
    b = b
    c = c
    p1 = p1
    p2 = p2
    NoSnapshot = NoSnapshot
    Gateways = {a, b}
    Projects = {p1}
    Paths = {f1}
    Parsable = {f1}
    Hashes = {x}
    Metas = {m}
    Sources = {a}
    Pulls <- OneWay
    MaxEdits = 1
    MaxFailures = 0
CHECK_DEADLOCK FALSE
INVARIANT
    PulledComplete
