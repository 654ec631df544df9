SPECIFICATION EventsSpec
CONSTANTS
    i1 = i1  i2 = i2
    Invoices = {i1, i2}
    Reserved = {i1, i2}
    Workers = {w}
    Cron = cron
    May <- Dispute
    Watched = {i1}
    Attempts = 1
    CouponCycles = 1
    Faulty = {}
    Overlap = FALSE
    People = TRUE
INVARIANTS
    BlocksOfPeopleStay
CHECK_DEADLOCK FALSE
