SPECIFICATION FairSpec
CONSTANTS
    Projects = {p}
    Tasks = {t1, t2}
    MaxRequests = 2
    MaxStale = 1
    MaxFailures = 1
CHECK_DEADLOCK FALSE
INVARIANTS
    TypeOK
    StepsEarned
    AskedUntilDone
    PublicWasGroup
PROPERTY
    OnboardingEnds
