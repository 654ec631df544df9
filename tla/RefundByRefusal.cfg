SPECIFICATION Spec
CONSTANTS
    i1 = i1  i2 = i2  k1 = k1  k2 = k2  x1 = x1
    Invoices = {i1}
    Keys = {k1}
    PanelRefunds = {x1}
    Reconcilers = {r1}
    InvoiceOf <- InvoiceOfOne
    Amount <- AmountThree
    Ask <- AskEqual
    PanelAmount <- PanelAll
    PaidAt <- PaidInOrder
    Provider <- Asaas
    Disputed = {}
    Tagged = {k1}
    ProviderGuards = TRUE
    ReadRefusals = FALSE
    Faults = FALSE
PROPERTY FullRefundSuspends
CHECK_DEADLOCK FALSE
