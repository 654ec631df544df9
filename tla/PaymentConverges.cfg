SPECIFICATION FairEventsSpec
CONSTANTS
    i1 = i1  i2 = i2
    Invoices = {i1}
    Reserved = {}
    Workers = {w}
    Cron = cron
    May <- DeletedOrDisputed
    Watched = {i1}
    Attempts = 1
    CouponCycles = 0
    Faulty = {w}
    Overlap = TRUE
    People = FALSE
PROPERTIES
    RemovedStaysClosed
    PaidChargeIsRecognised
CHECK_DEADLOCK FALSE
