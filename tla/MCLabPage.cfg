SPECIFICATION PageSpec
CONSTANTS
    Requests = {r1, r2, r3}
    Presets = {clean, sqli}
    Clean = clean
    HistoryLimit = 2
SYMMETRY Symmetry
INVARIANTS
    PageAgrees
