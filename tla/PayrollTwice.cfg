SPECIFICATION MonthSpec
CONSTANTS
    Employees = {e1}
    Rows = {r1, r2}
    Actors = {a1, a2}
    Overlap = TRUE
    MaxCrashes = 0
    None = None
INVARIANTS
    PublishedIsLocked
CHECK_DEADLOCK FALSE
