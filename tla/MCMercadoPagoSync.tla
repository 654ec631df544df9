------------------------- MODULE MCMercadoPagoSync -------------------------
(* Two attempts to pay an invoice beside the charge of a subscription, or an *)
(* attempt that is charged back.                                             *)
EXTENDS MercadoPagoSync

CONSTANTS i1, i2, p1, p2, s1

Names == [p \in Payments |-> IF p = s1 THEN None ELSE i1]

(* The first attempt is decided later, the second at once. *)
Attempts ==
    [p \in Payments |-> IF p = p1 THEN {"pending", "rejected", "approved", "charged_back"}
                        ELSE IF p = p2 THEN {"rejected", "approved"} ELSE {"approved"}]
=============================================================================
