SPECIFICATION VerdictSpec
CONSTANTS
    Tests <- MCTests
    Rules = {920430, 920440}
    Corpora <- MCCorpora
    EXPECTED_CRS_TEST_COUNT = 2
    REVIEWED_PLATFORM_IGNORES = {"920430-5"}
    TestMetadata <- MCMetadata
    RuleOf <- MCRules
    Side <- MCSide
    MaxEntries = 3
INVARIANTS
    QualifiesExactly
    ReportIsComplete
\* go-ftw exits.
CHECK_DEADLOCK FALSE
