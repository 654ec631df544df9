\* Refuted too when they take the place of OneNote, without lost answers: RefundedIsCanceled,
\* PendingIsRetried (a PROPERTY).
SPECIFICATION FiscalSpec
CONSTANTS
    OwnNotes = {n1, n2}
    PanelNotes = {}
    Calls = {c1, c2, daily}
    Daily = daily
    MaxAttempts = 1
    Overlap = TRUE
    Slow = FALSE
    Dying = {}
    Lossy = TRUE
    Hands = {}
    None = None
INVARIANTS
    OneNote
CHECK_DEADLOCK FALSE
