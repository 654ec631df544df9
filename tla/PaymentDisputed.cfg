SPECIFICATION EventsSpec
CONSTANTS
    i1 = i1  i2 = i2
    Invoices = {i1}
    Reserved = {i1}
    Workers = {w}
    Cron = cron
    May <- OverdueDispute
    Watched = {}
    Attempts = 1
    CouponCycles = 0
    Faulty = {}
    Overlap = FALSE
    People = FALSE
PROPERTIES
    DisputedStaysCanceled
CHECK_DEADLOCK FALSE
