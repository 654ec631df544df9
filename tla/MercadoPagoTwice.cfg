SPECIFICATION FairMpSpec
CONSTANTS
    i1 = i1  i2 = i2  p1 = p1  p2 = p2  s1 = s1
    Invoices = {i1, i2}
    Issued = {}
    PastDue = {}
    Payments = {s1}
    InvoiceOf <- Names
    May <- Attempts
    Notices = {n1, n2}
    Cron = cron
    Staff = {boss}
    Buttons = {}
    Beside = FALSE
    Faulty = {}
    Cycles = 2
    None = None
INVARIANT
    OneInvoiceEach
CHECK_DEADLOCK FALSE
