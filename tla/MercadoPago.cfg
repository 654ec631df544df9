SPECIFICATION FairMpSpec
CONSTANTS
    i1 = i1  i2 = i2  p1 = p1  p2 = p2  s1 = s1
    Invoices = {i1, i2}
    Issued = {i1}
    PastDue = {i1}
    Payments = {p1, p2, s1}
    InvoiceOf <- Names
    May <- Attempts
    Notices = {n1}
    Cron = cron
    Staff = {boss}
    Buttons = {"sync", "remove"}
    Beside = FALSE
    Faulty = {n1}
    Cycles = 2
    None = None
INVARIANTS
    MpTypeOK
    CountedOnce
PROPERTIES
    PaidStaysPaid
    PaymentIsRecognised
CHECK_DEADLOCK FALSE
