SPECIFICATION SupportSpec
CONSTANTS
    i1 = i1  x1 = x1    k1 = k1  k2 = k2  a1 = a1  a2 = a2
    Invoices = {i1}
    Keys = {k1}
    PanelRefunds = {x1}
    Reconcilers = {r1}
    InvoiceOf <- InvoiceOfOne
    Amount <- AmountTwo
    Ask <- AskPartThenRest
    PanelAmount <- NoPanel
    PaidAt <- PaidOnce
    Provider <- Asaas
    Disputed = {i1}
    Tagged = {k1}
    ProviderGuards = FALSE
    ReadRefusals = TRUE
    Faults = TRUE
    Approvers = {a1, a2}
    DualAbove = 0
PROPERTIES
    TwoPeopleApproveLargeRefunds
CHECK_DEADLOCK FALSE
