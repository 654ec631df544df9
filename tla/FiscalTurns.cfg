\* OneNote in turns, and the liveness of FiscalNote; PaidInvoiceGetsNote also holds with
\* Overlap = TRUE and Lossy = FALSE.
SPECIFICATION FairFiscalSpec
CONSTANTS
    OwnNotes = {n1, n2}
    PanelNotes = {}
    Calls = {c1, daily}
    Daily = daily
    MaxAttempts = 1
    Overlap = FALSE
    Slow = FALSE
    Dying = {c1}
    Lossy = TRUE
    Hands = {"mark"}
    None = None
INVARIANTS
    FiscalTypeOK
    OneNote
PROPERTIES
    PaidInvoiceGetsNote
CHECK_DEADLOCK FALSE
