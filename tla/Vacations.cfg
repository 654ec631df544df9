SPECIFICATION VacationSpec
CONSTANTS
    Vacations = {v1, v2, v3}
    Requests = {q1, q2}
    Spans = {s1, s2, s3}
    Sizes <- Parts
    Rights = {30, 24}
    Overlap = FALSE
SYMMETRY VacationSymmetry
INVARIANTS
    NeverOverdrawn
    LedgerMatches
CHECK_DEADLOCK FALSE
