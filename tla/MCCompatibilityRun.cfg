SPECIFICATION FairSpec
CONSTANT MaxRuns = 2
INVARIANTS
    ProcessesAreStopped
    EvidenceIsHonest
PROPERTIES
    RunEnds
\* The last run of the script ends, and so does every process.
CHECK_DEADLOCK FALSE
