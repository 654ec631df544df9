SPECIFICATION Spec
CONSTANTS
    i1 = i1  i2 = i2  k1 = k1  k2 = k2  x1 = x1
    Invoices <- TwoInvoices
    Keys = {k1, k2}
    PanelRefunds = {}
    Reconcilers = {r1}
    InvoiceOf <- InvoiceOfOne
    Amount <- AmountTwo
    Ask <- AskPartThenRest
    PanelAmount <- PanelOne
    PaidAt <- PaidInOrder
    Provider <- Asaas
    Disputed = {i1, i2}
    Tagged = {k1, k2}
    ProviderGuards = FALSE
    ReadRefusals = FALSE
    Faults = TRUE
INVARIANTS
    TypeOK
    RefundStatusHonest
    NeverPostedTwice
    OneUndecidedRefund
    ClosedByTheProvider
PROPERTIES
    FullRefundSuspends
    ImplementsLedger
CHECK_DEADLOCK FALSE
