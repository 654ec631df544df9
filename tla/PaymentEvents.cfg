SPECIFICATION EventsSpec
CONSTANTS
    i1 = i1  i2 = i2
    Invoices = {i1, i2}
    Reserved = {i1, i2}
    Workers = {w}
    Cron = cron
    May <- DisputeBesideOverdue
    Watched = {}
    Attempts = 1
    CouponCycles = 2
    Faulty = {w}
    Overlap = FALSE
    People = TRUE
INVARIANTS
    EventsTypeOK
    CouponCountsPayments
PROPERTIES
    PaidNeverReopens
    PaymentReleases
    ReleaseOnlyPaidUp
    DisputedStaysCanceled
CHECK_DEADLOCK FALSE
