SPECIFICATION FairSpec
CONSTANTS
    i1 = i1  i2 = i2  k1 = k1  k2 = k2  x1 = x1
    Invoices <- OneInvoice
    Keys = {k1, k2}
    PanelRefunds = {x1}
    Reconcilers = {r1}
    InvoiceOf <- InvoiceOfOne
    Amount <- AmountTwo
    Ask <- AskEqual
    PanelAmount <- PanelOne
    PaidAt <- PaidInOrder
    Provider <- Asaas
    Disputed = {}
    Tagged = {k1, k2}
    ProviderGuards = TRUE
    ReadRefusals = FALSE
    Faults = FALSE
PROPERTIES
    EveryRefundSettles
CHECK_DEADLOCK FALSE
