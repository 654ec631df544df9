SPECIFICATION MonthSpec
CONSTANTS
    Employees = {e1}
    Rows = {r1}
    Actors = {a1}
    Overlap = FALSE
    MaxCrashes = 0
    None = None
PROPERTIES
    LockedPointUnchanged
CHECK_DEADLOCK FALSE
