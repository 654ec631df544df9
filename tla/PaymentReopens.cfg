SPECIFICATION EventsSpec
CONSTANTS
    i1 = i1  i2 = i2
    Invoices = {i1}
    Reserved = {i1}
    Workers = {w}
    Cron = cron
    May <- Overdue
    Watched = {i1}
    Attempts = 1
    CouponCycles = 1
    Faulty = {}
    Overlap = TRUE
    People = FALSE
PROPERTIES
    PaidNeverReopens
CHECK_DEADLOCK FALSE
