SPECIFICATION FiscalSpec
CONSTANTS
    OwnNotes = {n1, n2}
    PanelNotes = {}
    Calls = {c1, daily}
    Daily = daily
    MaxAttempts = 1
    Overlap = TRUE
    Slow = FALSE
    Dying = {c1}
    Lossy = TRUE
    Hands = {"attach", "mark"}
    None = None
INVARIANTS
    FirstNoteOnce
CHECK_DEADLOCK FALSE
