SPECIFICATION Spec
CONSTANTS
    i1 = i1  i2 = i2  k1 = k1  k2 = k2  x1 = x1
    Invoices <- OneInvoice
    Keys = {k1, k2}
    PanelRefunds = {}
    Reconcilers = {r1}
    InvoiceOf <- InvoiceOfOne
    Amount <- AmountTwo
    Ask <- AskEqual
    PanelAmount <- PanelOne
    PaidAt <- PaidInOrder
    Provider <- Asaas
    Disputed = {i1}
    Tagged = {k1, k2}
    ProviderGuards = FALSE
    ReadRefusals = FALSE
    Faults = FALSE
INVARIANTS
    OneActiveOperation
CHECK_DEADLOCK FALSE
