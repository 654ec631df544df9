SPECIFICATION FairEventsSpec
CONSTANTS
    i1 = i1  i2 = i2
    Invoices = {i1}
    Reserved = {}
    Workers = {w}
    Cron = cron
    May <- Removed
    Watched = {i1}
    Attempts = 1
    CouponCycles = 0
    Faulty = {}
    Overlap = FALSE
    People = TRUE
PROPERTIES
    RestoredIsRecognised
CHECK_DEADLOCK FALSE
