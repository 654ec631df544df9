SPECIFICATION VacationSpec
CONSTANTS
    Vacations = {v1, v2}
    Requests = {q1, q2}
    Spans = {s1, s2, s3}
    Sizes <- Parts
    Rights = {30, 24}
    Overlap = TRUE
SYMMETRY VacationSymmetry
INVARIANTS
    LedgerMatches
CHECK_DEADLOCK FALSE
