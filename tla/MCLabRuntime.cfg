SPECIFICATION FairSpec
CONSTANT MaxRuns = 2
INVARIANTS
    StopsInOrder
    NothingLeftBehind
    ConfigIsWhole
    TargetsOwnOrOrphan
PROPERTIES
    RunSettles
\* The last run of the tool ends, and so does every Envoy.
CHECK_DEADLOCK FALSE
