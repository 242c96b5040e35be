SPECIFICATION Spec
CONSTANTS
    Given = 1
    Old = {1}
    MaxSends = 2
    PageSize = 1
    MaxReads = 2
INVARIANTS
    OutcomeIsTold
CHECK_DEADLOCK FALSE
