SPECIFICATION FairSpec
CONSTANTS
    Enforce = TRUE
    Plan <- MCPlan
    Concurrency = 2
    MaxLingering = 1
    MaxRss = 2
    MaxGrowth = 0
INVARIANTS
    RunIsAccounted
    PassedIsEarned
PROPERTIES
    MainEnds
\* A run ends.
CHECK_DEADLOCK FALSE
