---------------------------- MODULE RefundLedger ----------------------------
(***************************************************************************)
(* What the refunds of an invoice amount to, whatever the service and the  *)
(* provider say to each other: a key holds a part of the balance, and the  *)
(* held part is either paid out or given back, once.  Only one part of an  *)
(* invoice is held at a time and what is held or paid never exceeds what   *)
(* the invoice was paid.                                                   *)
(***************************************************************************)
EXTENDS Integers, FiniteSets, Functions

CONSTANTS Invoices, Keys, InvoiceOf, Amount

VARIABLES part,    \* "idle", "held", "paid" or "void", by key
          value    \* what the key holds or was paid

ledger == <<part, value>>

OfInvoice(i, states) == {k \in Keys : InvoiceOf[k] = i /\ part[k] \in states}
PaidOut(i) == SumFunctionOnSet(value, OfInvoice(i, {"paid"}))

Init ==
    /\ part = [k \in Keys |-> "idle"]
    /\ value = [k \in Keys |-> 0]

Hold(k) ==
    LET i == InvoiceOf[k] IN
    /\ part[k] = "idle"
    /\ OfInvoice(i, {"held"}) = {}
    /\ \E a \in 1..Amount[i] : /\ a + PaidOut(i) <= Amount[i]
                               /\ value' = [value EXCEPT ![k] = a]
    /\ part' = [part EXCEPT ![k] = "held"]

PayOut(k) ==
    /\ part[k] = "held"
    /\ part' = [part EXCEPT ![k] = "paid"]
    /\ UNCHANGED value

GiveBack(k) ==
    /\ part[k] = "held"
    /\ part' = [part EXCEPT ![k] = "void"]
    /\ UNCHANGED value

Next == \E k \in Keys : Hold(k) \/ PayOut(k) \/ GiveBack(k)

Spec == Init /\ [][Next]_ledger
=============================================================================
