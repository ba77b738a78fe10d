SPECIFICATION FairSpec
CONSTANTS
    Workers = {w1, w2}
    Streams = {s1, s2}
    Main = main
    MaxGenerations = 2
    Updates <- MCUpdates
INVARIANTS
    NativeAlive
    EventTellsRules
    ReferencesExact
    BudgetAdmitsBodies
PROPERTIES
    ImplementsDelivery
    SupersededIsFreed
