SPECIFICATION MonthSpec
CONSTANTS
    Employees = {e1, e2}
    Rows = {r1, r2}
    Actors = {a1}
    Overlap = FALSE
    MaxCrashes = 1
    None = None
SYMMETRY MonthSymmetry
INVARIANTS
    PayrollTypeOK
    PublishedIsLocked
    OneClosingEach
PROPERTIES
    AdjustmentsKept
    ImplementsMonth
CHECK_DEADLOCK FALSE
