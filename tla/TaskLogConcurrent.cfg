SPECIFICATION Spec
CONSTANTS
    Writers = {w1, w2}
    Projects = {p1, p2}
    Ids = {i1, i2, i3, i4}
    PeerCursors = {1, 3}
SYMMETRY Symmetry
CHECK_DEADLOCK FALSE
INVARIANTS
    RealTimeOrder
    NoGapBelowAppend
    MissedOnlyLate
