SPECIFICATION FairSupportSpec
CONSTANTS
    i1 = i1  x1 = x1    k1 = k1  k2 = k2  a1 = a1  a2 = a2
    Invoices = {i1}
    Keys = {k1}
    PanelRefunds = {}
    Reconcilers = {r1}
    InvoiceOf <- InvoiceOfOne
    Amount <- AmountTwo
    Ask <- AskPartThenRest
    PanelAmount <- NoPanel
    PaidAt <- PaidOnce
    Provider <- Asaas
    Disputed = {i1}
    Tagged = {k1}
    ProviderGuards = FALSE
    ReadRefusals = FALSE
    Faults = FALSE
    Approvers = {a1, a2}
    DualAbove = 0
INVARIANTS
    TicketTellsTheTruth
PROPERTIES
    RefundReachesTicket
    ApprovedTicketIsDecided
CHECK_DEADLOCK FALSE
