CONSTANTS
    MaxTotalInlineRuleBytes = 5
    MaxLength = 5
SPECIFICATION Spec
INVARIANTS
    TypeOK
    FragmentsAreSeen
    DeniedForDirectives
CHECK_DEADLOCK FALSE
