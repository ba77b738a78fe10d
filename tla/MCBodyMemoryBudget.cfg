SPECIFICATION Spec
CONSTANTS
    Streams = {s1, s2, s3}
    Limit = 4
    Modulus = 8
    Requests <- MCRequests
SYMMETRY Symmetry
INVARIANTS
    TypeOK
    UsedIsHeld
    NoUnderflow
PROPERTY
    ImplementsBudget
