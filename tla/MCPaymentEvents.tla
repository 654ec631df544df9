-------------------------- MODULE MCPaymentEvents --------------------------
(* Small instances of PaymentEvents for TLC. *)
EXTENDS PaymentEvents

CONSTANTS i1, i2

(* An invoice that is paid and disputed, beside one that falls due and is    *)
(* paid.                                                                     *)
DisputeBesideOverdue ==
    [i \in Invoices |-> IF i = i1 THEN {"RECEIVED", "CHARGEBACK"} ELSE {"OVERDUE", "RECEIVED"}]

(* A charge that falls due, is postponed, deleted and restored. *)
Removed == [i \in Invoices |-> {"CREATED", "OVERDUE", "UPDATED", "RECEIVED", "DELETED", "RESTORED"}]

Overdue == [i \in Invoices |-> {"OVERDUE", "RECEIVED"}]
Dispute == [i \in Invoices |-> {"RECEIVED", "CHARGEBACK"}]

(* A charge that is deleted, or paid and disputed. *)
DeletedOrDisputed ==
    [i \in Invoices |-> {"CREATED", "DELETED", "RECEIVED", "CHARGEBACK"}]

(* A charge that is disputed after it was paid late. *)
OverdueDispute ==
    [i \in Invoices |-> {"OVERDUE", "CONFIRMED", "RECEIVED", "CHARGEBACK"}]
=============================================================================
