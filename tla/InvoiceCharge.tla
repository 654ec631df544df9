---------------------------- MODULE InvoiceCharge ----------------------------
(***************************************************************************)
(* How one debt of a company becomes an invoice with one payable link:     *)
(*   apps/api/src/modules/finance/platform-finance.service.ts              *)
(*   apps/api/src/modules/finance/trial-conversion.service.ts              *)
(*   apps/api/src/modules/finance/payment-reconciliation.service.ts        *)
(*   apps/api/src/modules/finance/asaas.service.ts, mercadopago.service.ts *)
(*                                                                         *)
(* The same request may come twice, through either provider, while people  *)
(* remove the invoice or ask for another link.  Each handler is a sequence *)
(* of awaits: it reserves a row under a unique key, posts the charge and   *)
(* writes the answer.  Answers get lost, processes die, the provider       *)
(* refuses; its events and a routine repair what was left half done.       *)
(***************************************************************************)
EXTENDS Naturals

CONSTANTS
    Rows,    \* rows of PlatformInvoice this debt may get
    Calls,   \* requests in progress
    Mixes,   \* what the calls are, how often things go wrong, whether events come
    None

Kinds == {"charge", "local", "mp", "first", "link", "remove"}

ASSUME ChargeAssumption ==
    /\ Mixes \subseteq [kind : [Calls -> Kinds], faults : Nat, events : BOOLEAN]
    /\ None \notin Rows

VARIABLES
    row,      \* the rows; "charge" is asaasPaymentId, named by the row it was made for
    remote,   \* what the providers hold for each row
    call,     \* what each handler has read and not written yet
    routine,  \* the row the reconciliation has found a charge for
    mix       \* which requests come, and the faults that are left

chargeVars == <<row, remote, call, routine, mix>>

Steps == {"start", "reserve", "attach", "claim", "release", "post", "save", "undo",
          "unknown", "mpRelease", "delete", "cancel", "done"}
Processing == {"LOCAL", "PROCESSING", "UNKNOWN", "LINK_READY", "FAILED"}
Providers == {"ASAAS", "MERCADOPAGO"}
Unpaid == {"OPEN", "OVERDUE"}

NoRow == [status |-> "NONE", proc |-> "LOCAL", key |-> FALSE, charge |-> None,
          pref |-> FALSE, provider |-> "ASAAS", ref |-> "inv"]

Init ==
    /\ row = [r \in Rows |-> NoRow]
    /\ remote = [r \in Rows |-> [made |-> 0, live |-> 0, pref |-> FALSE]]
    /\ call = [c \in Calls |-> [at |-> "start", row |-> None, via |-> "ASAAS", seen |-> NoRow]]
    /\ routine = None
    /\ mix \in Mixes

Holder == {r \in Rows : row[r].key}
Linked(r) == \E s \in Rows : row[s].charge = r
At(c, step, kinds) == call[c].at = step /\ mix.kind[c] \in kinds
Goes(c, step) == call' = [call EXCEPT ![c].at = step]
Writes(c, r, fields) == row' = [row EXCEPT ![r] = fields]
Faulty == mix.faults > 0
Fault == mix' = [mix EXCEPT !.faults = @ - 1]

-----------------------------------------------------------------------------
(* Reserving the invoice.                                                    *)

(* A charge whose key is known is answered with what is there. *)
Look(c) ==
    /\ At(c, "start", {"charge", "local", "first"})
    /\ Goes(c, IF Holder = {} THEN "reserve" ELSE "done")
    /\ UNCHANGED <<row, remote, routine, mix>>

Reserved(kind) ==
    [NoRow EXCEPT !.status = "OPEN", !.key = TRUE,
                  !.proc = IF kind \in {"first", "local"} THEN "LOCAL" ELSE "PROCESSING",
                  !.ref = IF kind = "first" THEN "first" ELSE "inv",
                  !.provider = IF kind = "mp" THEN "MERCADOPAGO" ELSE "ASAAS"]

(* An invoice without a charge is ready, the first one gets its link apart. *)
AfterReserve(kind) ==
    IF kind = "local" THEN "done" ELSE IF kind = "first" THEN "attach" ELSE "post"

(* Slip: the key is looked up and not unique. *)
ReserveAgain(c) ==
    /\ At(c, "reserve", {"charge", "local", "first"}) \/ At(c, "start", {"mp"})
    /\ \E r \in Rows :
         /\ row[r] = NoRow
         /\ Writes(c, r, Reserved(mix.kind[c]))
         /\ call' = [call EXCEPT ![c].at = AfterReserve(mix.kind[c]),
                                 ![c].row = r,
                                 ![c].via = IF mix.kind[c] = "mp" THEN "MERCADOPAGO" ELSE "ASAAS"]
    /\ UNCHANGED <<remote, routine, mix>>

(* The unique key decides between requests that arrive together. *)
Reserve(c) ==
    LET kind == mix.kind[c] IN
    /\ At(c, "reserve", {"charge", "local", "first"}) \/ At(c, "start", {"mp"})
    /\ \/ /\ Holder # {}
          /\ Goes(c, "done")
          /\ UNCHANGED row
       \/ \E r \in Rows :
            /\ Holder = {} /\ row[r] = NoRow
            /\ Writes(c, r, Reserved(kind))
            /\ call' = [call EXCEPT ![c].at = AfterReserve(kind),
                                    ![c].row = r,
                                    ![c].via = IF kind = "mp" THEN "MERCADOPAGO" ELSE "ASAAS"]
    /\ UNCHANGED <<remote, routine, mix>>

(* attachFirstInvoiceLink reads the invoice, asks which provider is active,  *)
(* and claims the invoice if it is still LOCAL.                              *)
Attach(c) ==
    LET r == call[c].row IN
    /\ At(c, "attach", {"first"})
    /\ IF row[r].proc # "LOCAL" \/ row[r].charge # None \/ row[r].pref
       THEN Goes(c, "done")
       ELSE \E p \in Providers : call' = [call EXCEPT ![c].at = "claim", ![c].via = p]
    /\ UNCHANGED <<row, remote, routine, mix>>

Claim(c) ==
    LET r == call[c].row IN
    /\ At(c, "claim", {"first"})
    /\ \/ /\ row[r].proc = "LOCAL"
          /\ Writes(c, r, [row[r] EXCEPT !.proc = "PROCESSING"])
          /\ Goes(c, "post") \/ Goes(c, "release")
       \/ /\ row[r].proc # "LOCAL"
          /\ Goes(c, "done")
          /\ UNCHANGED row
    /\ UNCHANGED <<remote, routine, mix>>

(* The provider is not configured, or the company's data are incomplete. *)
Release(c) ==
    LET r == call[c].row IN
    /\ At(c, "release", {"first"})
    /\ Writes(c, r, [row[r] EXCEPT !.proc = "LOCAL"])
    /\ Goes(c, "done")
    /\ UNCHANGED <<remote, routine, mix>>

-----------------------------------------------------------------------------
(* The providers.  A preference carries an idempotency key, a charge does    *)
(* not.                                                                      *)

Created(r, via) ==
    LET was == remote[r]
        now == IF via = "ASAAS"
               THEN [was EXCEPT !.made = was.made + 1, !.live = was.live + 1]
               ELSE [was EXCEPT !.pref = TRUE]
    IN  remote' = [remote EXCEPT ![r] = now]

(* Where a handler goes when its post fails. *)
OnError(kind) == IF kind = "link" THEN "done" ELSE "unknown"

Post(c) ==
    LET r    == call[c].row
        kind == mix.kind[c]
    IN  /\ At(c, "post", Kinds)
        /\ \/ Created(r, call[c].via) /\ Goes(c, "save") /\ UNCHANGED mix
           \/ /\ Goes(c, IF kind = "charge" THEN "undo" ELSE OnError(kind))
              /\ UNCHANGED <<remote, mix>>
           \/ /\ Faulty /\ Fault
              /\ Goes(c, OnError(kind))
              /\ Created(r, call[c].via) \/ UNCHANGED remote
        /\ UNCHANGED <<row, routine>>

(* What the answer writes; a charge another row already names is refused by  *)
(* the unique asaasPaymentId.                                                *)
Answered(kind, via, r) ==
    IF via = "MERCADOPAGO"
    THEN [row[r] EXCEPT !.pref = TRUE, !.provider = "MERCADOPAGO",
                        !.proc = IF kind = "link" THEN @ ELSE "LINK_READY"]
    ELSE [row[r] EXCEPT !.charge = r, !.proc = "LINK_READY",
                        !.status = IF kind = "charge" THEN "OPEN" ELSE @]

Save(c) ==
    LET r == call[c].row IN
    /\ At(c, "save", Kinds)
    /\ IF call[c].via = "ASAAS" /\ \E s \in Rows \ {r} : row[s].charge = r
       THEN Goes(c, "unknown") /\ UNCHANGED row
       ELSE Writes(c, r, Answered(mix.kind[c], call[c].via, r)) /\ Goes(c, "done")
    /\ UNCHANGED <<remote, routine, mix>>

(* Slip: the invoice stays open when its key is given back. *)
UndoOpen(c) ==
    LET r == call[c].row IN
    /\ At(c, "undo", {"charge"})
    /\ Writes(c, r, [row[r] EXCEPT !.proc = "FAILED", !.key = FALSE])
    /\ Goes(c, "done")
    /\ UNCHANGED <<remote, routine, mix>>

(* Slip: the status of the invoice is written as its processing state. *)
UndoMixedUp(c) ==
    LET r == call[c].row IN
    /\ At(c, "undo", {"charge"})
    /\ Writes(c, r, [row[r] EXCEPT !.proc = "CANCELED", !.key = FALSE])
    /\ Goes(c, "done")
    /\ UNCHANGED <<remote, routine, mix>>

(* Refused for good: nothing exists at the provider, the key is free again.  *)
Undo(c) ==
    LET r == call[c].row IN
    /\ At(c, "undo", {"charge"})
    /\ Writes(c, r, [row[r] EXCEPT !.status = "CANCELED", !.proc = "FAILED", !.key = FALSE])
    /\ Goes(c, "done")
    /\ UNCHANGED <<remote, routine, mix>>

Unknown(c) ==
    LET r == call[c].row IN
    /\ At(c, "unknown", Kinds)
    /\ Writes(c, r, [row[r] EXCEPT !.proc = "UNKNOWN"])
    /\ Goes(c, "done")
    /\ UNCHANGED <<remote, routine, mix>>

(* The process dies, or a write of an error handler fails and is swallowed.  *)
Die(c) ==
    /\ call[c].at \notin {"start", "done"}
    /\ Faulty /\ Fault
    /\ Goes(c, "done")
    /\ UNCHANGED <<row, remote, routine>>

-----------------------------------------------------------------------------
(* People.                                                                   *)

(* createManualMercadoPagoLink: for an invoice nobody charges yet. *)
ManualLink(c) ==
    /\ At(c, "start", {"link"})
    /\ \E r \in Rows :
         /\ row[r].status \in Unpaid /\ row[r].charge = None
         /\ row[r].proc \notin {"UNKNOWN", "PROCESSING"} /\ ~row[r].pref
         /\ call' = [call EXCEPT ![c].at = "post", ![c].row = r, ![c].via = "MERCADOPAGO"]
    /\ UNCHANGED <<row, remote, routine, mix>>

Remove(c) ==
    /\ At(c, "start", {"remove"})
    /\ \E r \in Rows :
         /\ row[r].status \in Unpaid
         /\ call' = [call EXCEPT ![c].at = "mpRelease", ![c].row = r, ![c].seen = row[r]]
    /\ UNCHANGED <<row, remote, routine, mix>>

(* The link of Mercado Pago is expired, as far as it lets itself. *)
MpRelease(c) ==
    LET r == call[c].row IN
    /\ At(c, "mpRelease", {"remove"})
    /\ \/ call[c].seen.pref /\ remote' = [remote EXCEPT ![r].pref = FALSE]
       \/ UNCHANGED remote
    /\ Goes(c, "delete")
    /\ UNCHANGED <<row, routine, mix>>

(* A charge that was read with the invoice must be deleted, and said to be.  *)
Delete(c) ==
    LET r       == call[c].seen.charge
        deleted == r # None /\ remote' = [remote EXCEPT ![r].live = 0]
    IN  /\ At(c, "delete", {"remove"})
        /\ \/ r = None /\ Goes(c, "cancel") /\ UNCHANGED <<remote, mix>>
           \/ deleted /\ Goes(c, "cancel") /\ UNCHANGED mix
           \/ /\ r # None /\ Faulty /\ Fault
              /\ Goes(c, "done")
              /\ deleted \/ UNCHANGED remote
        /\ UNCHANGED <<row, routine>>

Cancel(c) ==
    LET r == call[c].row IN
    /\ At(c, "cancel", {"remove"})
    /\ Writes(c, r, [row[r] EXCEPT !.status = "CANCELED"])
    /\ Goes(c, "done")
    /\ UNCHANGED <<remote, routine, mix>>

-----------------------------------------------------------------------------
(* Repair.                                                                   *)

(* Slip: a row whose process died before the answer is not looked for. *)
UndecidedUnknown(r) == row[r].charge = None /\ row[r].proc = "UNKNOWN"

Undecided(r) == row[r].charge = None /\ row[r].proc \in {"UNKNOWN", "PROCESSING"}

(* sync and the routine look for a charge by the reference inv:<id> and take *)
(* it if it is the only one.                                                 *)
Search(r) ==
    /\ routine = None
    /\ Undecided(r) /\ row[r].provider = "ASAAS"
    /\ remote[r].live = 1 /\ row[r].ref = "inv"
    /\ routine' = r
    /\ UNCHANGED <<row, remote, call, mix>>

Link ==
    /\ routine # None
    /\ row' = [row EXCEPT ![routine] = [@ EXCEPT !.charge = routine, !.proc = "LINK_READY"]]
    /\ routine' = None
    /\ UNCHANGED <<remote, call, mix>>

(* The first event of Asaas on a charge no row names: the row its reference  *)
(* names takes it, whatever its status, a removed one by being overdue or    *)
(* paid only; a charge with another reference gets a row of its own.  What   *)
(* events do to an invoice that has its charge is PaymentEvents.             *)
Told(r) == {"OVERDUE", "PAID"} \cup IF row[r].status = "CANCELED" THEN {} ELSE {"OPEN"}

Event(r) ==
    /\ mix.events /\ remote[r].live > 0 /\ ~Linked(r)
    /\ \/ /\ row[r].ref = "inv"
          /\ \E s \in Told(r) :
               row' = [row EXCEPT ![r] = [@ EXCEPT !.status = s, !.charge = r,
                                                   !.proc = "LINK_READY"]]
       \/ /\ row[r].ref # "inv"
          /\ \E s \in Rows, new \in {"OPEN", "OVERDUE", "PAID"} :
               /\ row[s] = NoRow
               /\ row' = [row EXCEPT ![s] = [NoRow EXCEPT !.status = new, !.charge = r,
                                                          !.proc = "LINK_READY"]]
    /\ UNCHANGED <<remote, call, routine, mix>>

Handle(c) ==
    \/ Look(c) \/ Reserve(c) \/ Attach(c) \/ Claim(c) \/ Release(c) \/ Post(c) \/ Save(c)
    \/ Undo(c) \/ Unknown(c) \/ ManualLink(c) \/ Remove(c) \/ MpRelease(c) \/ Delete(c)
    \/ Cancel(c)

Next ==
    \/ \E c \in Calls : Handle(c) \/ Die(c)
    \/ \E r \in Rows : Search(r) \/ Event(r)
    \/ Link

ChargeSpec == Init /\ [][Next]_chargeVars

(* The routine is scheduled for ever and takes every row in turn. *)
FairChargeSpec ==
    ChargeSpec /\ WF_chargeVars(Link) /\ \A r \in Rows : SF_chargeVars(Search(r))

-----------------------------------------------------------------------------
(* Rows, remote state and handlers stay in their types. *)
RowType == [status : {"NONE", "OPEN", "OVERDUE", "PAID", "CANCELED"}, proc : Processing, key : BOOLEAN,
            charge : Rows \cup {None}, pref : BOOLEAN, provider : Providers,
            ref : {"inv", "first"}]

ChargeTypeOK ==
    /\ row \in [Rows -> RowType]
    /\ remote \in [Rows -> [made : Nat, live : Nat, pref : BOOLEAN]]
    /\ call \in [Calls -> [at : Steps, row : Rows \cup {None}, via : Providers, seen : RowType]]
    /\ routine \in Rows \cup {None}
    /\ mix \in [kind : [Calls -> Kinds], faults : Nat, events : BOOLEAN]

Payable(r) == remote[r].live > 0 \/ remote[r].pref

(* The debt never has two links a customer could pay, be it asked for twice, *)
(* through both providers, with answers lost, processes dead or invoices     *)
(* removed meanwhile ("evita cobrança em dobro", platform-finance:237;       *)
(* chargeKey, :1620).                                                        *)
OnePayableLink ==
    \A r \in Rows :
      /\ remote[r].made <= 1 /\ ~(remote[r].live > 0 /\ remote[r].pref)
      /\ \A s \in Rows : Payable(r) /\ Payable(s) => r = s

(* The debt never has two invoices that are open or overdue (and so is never *)
(* dunned twice), also when an event revives one that was removed.           *)
OneOpenInvoice == \A r, s \in Rows : row[r].status \in Unpaid /\ row[s].status \in Unpaid => r = s

(* An invoice is undone and its key given back only when nothing exists at   *)
(* the provider (platform-finance:1388).                                     *)
RefusedIsUncharged ==
    \A r \in Rows : row[r].proc = "FAILED" => remote[r].made = 0 /\ ~remote[r].pref

(* A charge made for an invoice that carries its reference ends up in the    *)
(* invoice, whatever happened to the answer (payment-reconciliation:144).    *)
ChargeIsLinked ==
    \A r \in Rows : (remote[r].live > 0 /\ row[r].ref = "inv") ~> (Linked(r) \/ remote[r].live = 0)
=============================================================================
