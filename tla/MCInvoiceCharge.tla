-------------------------- MODULE MCInvoiceCharge --------------------------
(* Three requests for one debt, with the mixes that may meet. *)
EXTENDS InvoiceCharge

CONSTANTS c1, c2, c3, r1, r2, r3

Three(a, b, c, n, ev) ==
    [kind |-> [x \in Calls |-> IF x = c1 THEN a ELSE IF x = c2 THEN b ELSE c],
     faults |-> n, events |-> ev]

(* A charge asked for twice, through Asaas or through both providers, beside *)
(* a removal or a request for another link; the first invoice of a company   *)
(* asked for twice, beside a removal, as long as no event comes; an invoice  *)
(* without a charge that gets a link by hand.                                *)
Asked ==
    {Three("charge", b, c, 2, TRUE) : b \in {"charge", "mp"}, c \in {"link", "remove"}}
    \cup {Three("first", b, "remove", 2, FALSE) : b \in {"first"}}
    \cup {Three("local", b, "link", 2, TRUE) : b \in {"charge", "link", "remove"}}

(* The first invoice of a company, with the events of its charge. *)
First == {Three("first", "remove", "remove", 0, TRUE)}
=============================================================================
