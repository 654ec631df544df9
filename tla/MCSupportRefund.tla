-------------------------- MODULE MCSupportRefund --------------------------
(* Small instances of SupportRefund for TLC. *)
EXTENDS SupportRefund

CONSTANTS i1, x1, k1, k2, a1, a2

InvoiceOfOne == [r \in RefundIds |-> i1]
AmountTwo == [i \in Invoices |-> 2]
AskPartThenRest == [k \in Keys |-> IF k = k1 THEN 1 ELSE 0]
NoPanel == [x \in PanelRefunds |-> 1]
PaidOnce == [i \in Invoices |-> 1]
Asaas == [i \in Invoices |-> "ASAAS"]
=============================================================================
