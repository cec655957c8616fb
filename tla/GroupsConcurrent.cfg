SPECIFICATION Spec
CONSTANTS
    GroupIds = {g1, g2}
    Gateways = {x, y}
    Tokens = {k1, k2}
    Tasks = {t1, t2}
    TTL = 1
    MaxTime = 2
    MaxFailures = 1
SYMMETRY Symmetry
CHECK_DEADLOCK FALSE
INVARIANTS
    SingleUse
    MembershipEarned
    LossesHaveCause
