-------------------------- MODULE MCPaymentRefund --------------------------
(* Small instances of PaymentRefund for TLC. *)
EXTENDS PaymentRefund, TLC

CONSTANTS i1, i2, k1, k2, x1

OneInvoice == {i1}
TwoInvoices == {i1, i2}
InvoiceOfOne == [r \in RefundIds |-> i1]
PaidInOrder == [i \in Invoices |-> IF i = i1 THEN 1 ELSE 2]

AmountTwo == [i \in Invoices |-> 2]
AmountThree == [i \in Invoices |-> 3]

AskEqual == [k \in Keys |-> 1]
AskPartThenRest == [k \in Keys |-> IF k = k1 THEN 1 ELSE 0]
PanelAll == [x \in PanelRefunds |-> 3]
PanelOne == [x \in PanelRefunds |-> 1]

Asaas == [i \in Invoices |-> "ASAAS"]
MercadoPago == [i \in Invoices |-> "MERCADOPAGO"]
=============================================================================
