SPECIFICATION FairSpec
CONSTANTS
    Proposals = {a}
    Voters = {v1, v2, v3}
    Tasks = {t1, t2, t3}
    GatewayCounts = {0, 2, 3}
    MaxFailures = 1
CHECK_DEADLOCK FALSE
INVARIANT
    DecisionBacked
PROPERTIES
    VotedDecisionFinal
    SettledStays
    DecisionReached
