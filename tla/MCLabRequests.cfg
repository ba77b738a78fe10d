SPECIFICATION FairSpec
CONSTANTS
    Calls = {c1, c2}
    NoCall = none
    MaxBody = 1
    Posts <- MCPosts
INVARIANTS
    AnswerIsTrue
    OnlyValidSent
PROPERTIES
    EveryCallEnds
\* Every call ends.
CHECK_DEADLOCK FALSE
