SPECIFICATION FairSpec
CONSTANTS
    a = a
    b = b
    upper = upper
    lower = lower
    other = other
    Absent = Absent
    Agents = {a, b}
    Texts = {upper, lower, other}
    Normal <- Spellings
    Work <- Shares
    Rank <- Collation
    Seeds = {a}
    MaxTodos = 2
    MaxRegistrations = 1
    MaxFailures = 1
    HookAgents = {b}
    Events = {1, 2}
INVARIANTS
    TypeOK
    LeftOutOnlyLate
PROPERTIES
    TaskListed
    AgentTold
