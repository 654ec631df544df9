-------------------------- MODULE MercadoPagoSync --------------------------
(***************************************************************************)
(* From the payments of Mercado Pago to invoices and to the company:       *)
(*   apps/api/src/modules/finance/mercadopago-webhook.controller.ts        *)
(*   apps/api/src/modules/finance/mercadopago-payment-sync.service.ts      *)
(*   apps/api/src/modules/finance/mercadopago.service.ts                   *)
(*   apps/api/src/modules/finance/payment-reconciliation.service.ts        *)
(*   apps/api/src/modules/finance/platform-finance.service.ts              *)
(*                                                                         *)
(* An invoice has one link and as many attempts to pay it as the customer  *)
(* makes; a subscription pays by itself.  A notice only names a payment,   *)
(* which is read again, so nothing is stored or queued: the webhook, the   *)
(* routine and the "Sincronizar" and cancel buttons each read the invoice  *)
(* and the payment, and write some awaits later.                           *)
(***************************************************************************)
EXTENDS Naturals, Sequences, SequencesExt, FiniteSets

CONSTANTS
    Invoices,      \* rows of one company, charged by Mercado Pago
    Issued,        \* those that exist, with a link, before anything happens
    PastDue,       \* those whose due date has passed
    Payments,
    InvoiceOf,     \* what the reference of a payment names; None: a subscription
    May,           \* states a payment may go through at Mercado Pago
    Notices,       \* webhook calls in progress
    Cron,          \* the reconciliation
    Staff,         \* people at the buttons of the platform
    Buttons,       \* the buttons they use
    Beside,        \* they may act while a webhook or the routine is at work
    Faulty,        \* calls that may end with an exception or a crash
    Cycles,        \* paid cycles the company's coupon is good for
    None

Procs == Notices \cup {Cron} \cup Staff
States == {"none", "pending", "rejected", "approved", "charged_back"}

ASSUME MercadoPagoAssumption ==
    /\ IsFiniteSet(Invoices) /\ IsFiniteSet(Procs)
    /\ Staff \cap (Notices \cup {Cron}) = {} /\ Cron \notin Notices
    /\ Issued \subseteq Invoices /\ PastDue \subseteq Invoices
    /\ InvoiceOf \in [Payments -> Issued \cup {None}]
    /\ May \in [Payments -> SUBSET States]
    /\ Buttons \subseteq {"sync", "remove"}
    /\ Beside \in BOOLEAN /\ Faulty \subseteq Procs /\ Cycles \in Nat
    /\ None \notin Invoices \cup Payments

VARIABLES
    remote,    \* the payments at Mercado Pago
    tries,     \* payments that carry an invoice's reference, the newest last
    link,      \* invoices that can still be paid by their link
    invoice,   \* rows of PlatformInvoice: status and mpPaymentId
    company,   \* why the company is blocked
    cycles,    \* couponCyclesLeft
    run        \* what a call has read and not written yet

mpVars == <<remote, tries, link, invoice, company, cycles, run>>

NoRow == [status |-> "NONE", pay |-> None]
Idle == [at |-> "idle", by |-> "notice", inv |-> None, pay |-> None, got |-> "none",
         seen |-> NoRow, change |-> "same"]

(* A company may be blocked until it pays, or by a person. *)
MpInit ==
    /\ remote = [p \in Payments |-> "none"]
    /\ tries = [i \in Invoices |-> <<>>]
    /\ link = Issued
    /\ invoice \in [Invoices -> {[NoRow EXCEPT !.status = s] : s \in {"NONE", "OPEN", "OVERDUE"}}]
    /\ \A i \in Invoices : invoice[i].status = "NONE" <=> i \notin Issued
    /\ company \in {"none", "payment", "person"}
    /\ cycles = Cycles
    /\ run = [w \in Procs |-> Idle]

At(w, step) == run[w].at = step
Goes(w, to) == run' = [run EXCEPT ![w] = to]

Resting(procs) == \A w \in procs : run[w] = Idle
MayBegin(w) == run[w] = Idle /\ (Beside \/ Resting(IF w \in Staff THEN Procs ELSE Staff))

-----------------------------------------------------------------------------
(* Mercado Pago, external to the repository.                                 *)

(* A customer pays by the link, or the subscription is charged. *)
Pays(p) ==
    LET i == InvoiceOf[p] IN
    /\ remote[p] = "none" /\ (i # None => i \in link)
    /\ \E s \in May[p] \cap {"pending", "rejected", "approved"} : remote' = [remote EXCEPT ![p] = s]
    /\ tries' = IF i = None THEN tries ELSE [tries EXCEPT ![i] = Append(@, p)]
    /\ UNCHANGED <<link, invoice, company, cycles, run>>

Settles(p) ==
    /\ \E s \in May[p] :
         /\ \/ remote[p] = "pending" /\ s \in {"rejected", "approved"}
            \/ remote[p] = "approved" /\ s = "charged_back"
         /\ remote' = [remote EXCEPT ![p] = s]
    /\ UNCHANGED <<tries, link, invoice, company, cycles, run>>

Approved(p) == remote[p] = "approved"

(* Slip: the newest payment, approved or not. *)
FoundNewest(i, known) ==
    IF known # None THEN known ELSE IF tries[i] = <<>> THEN None ELSE Last(tries[i])

(* findPaymentForInvoice(): the payment on record, else the newest approved  *)
(* one that names the invoice, else the newest.                              *)
Found(i, known) ==
    LET approved == {n \in DOMAIN tries[i] : Approved(tries[i][n])} IN
    IF known # None THEN known
    ELSE IF approved # {} THEN tries[i][Max(approved)]
    ELSE IF tries[i] # <<>> THEN Last(tries[i]) ELSE None

-----------------------------------------------------------------------------
(* The webhook: the payment it names is read, then its invoice.              *)

Notice(w, p) ==
    /\ MayBegin(w) /\ remote[p] # "none"
    /\ Goes(w, [Idle EXCEPT !.at = "find", !.pay = p, !.got = remote[p]])
    /\ UNCHANGED <<remote, tries, link, invoice, company, cycles>>

(* Slip: a chargeback gives the invoice a status of its own. *)
MapStatusDisputed(got) ==
    IF got = "approved" THEN "PAID" ELSE IF got = "charged_back" THEN "DISPUTED" ELSE "OPEN"

(* An attempt that was refused or cancelled leaves the invoice open. *)
MapStatus(got) ==
    IF got = "approved" THEN "PAID" ELSE IF got = "charged_back" THEN "CANCELED" ELSE "OPEN"

(* apply(): a paid invoice is not paid again, and not opened by an old       *)
(* notice; else the company is asked about first if the payment is good.     *)
Applied(r, i, row) ==
    LET status == MapStatus(r.got) IN
    IF row.status = "PAID" /\ status # "CANCELED" THEN Idle
    ELSE [r EXCEPT !.inv = i, !.seen = row,
                   !.at = IF status = "PAID" THEN "company" ELSE "claim",
                   !.change = IF status = "CANCELED" THEN "block" ELSE "same"]

(* The invoice that records the payment, or that its reference names; the    *)
(* charge of a subscription has neither at first, and a notice that is not   *)
(* of the subscription's kind is ignored then.                               *)
FindInvoice(w) ==
    LET p     == run[w].pay
        named == {i \in Invoices : invoice[i].pay = p}
    IN  /\ At(w, "find")
        /\ \/ \E i \in named : Goes(w, Applied(run[w], i, invoice[i]))
           \/ /\ named = {} /\ InvoiceOf[p] # None
              /\ Goes(w, Applied(run[w], InvoiceOf[p], invoice[InvoiceOf[p]]))
           \/ /\ named = {} /\ InvoiceOf[p] = None
              /\ Goes(w, Idle) \/ Goes(w, [run[w] EXCEPT !.at = "adopt"])
        /\ UNCHANGED <<remote, tries, link, invoice, company, cycles>>

(* invoiceForSubscriptionCharge(): the oldest open invoice without a         *)
(* payment, ...                                                              *)
Adopt(w) ==
    LET open   == {i \in Invoices : invoice[i].status \in {"OPEN", "OVERDUE"} /\ invoice[i].pay = None}
        oldest == IF open \cap Issued # {} THEN open \cap Issued ELSE open
    IN  /\ At(w, "adopt")
        /\ \/ \E i \in oldest : Goes(w, Applied(run[w], i, invoice[i]))
           \/ open = {} /\ Goes(w, [run[w] EXCEPT !.at = "create"])
        /\ UNCHANGED <<remote, tries, link, invoice, company, cycles>>

(* ... or a new one, due today. *)
Create(w) ==
    LET row == [NoRow EXCEPT !.status = "OPEN"] IN
    /\ At(w, "create")
    /\ \E i \in Invoices :
         /\ invoice[i] = NoRow
         /\ invoice' = [invoice EXCEPT ![i] = row]
         /\ Goes(w, Applied(run[w], i, row))
    /\ UNCHANGED <<remote, tries, link, company, cycles>>

-----------------------------------------------------------------------------
(* apply(), continued.                                                       *)

(* companyDataAfterPayment() reads the company, then its other debts. *)
ReadCompany(w) ==
    /\ At(w, "company")
    /\ Goes(w, [run[w] EXCEPT !.at = IF company = "person" THEN "claim" ELSE "debts"])
    /\ UNCHANGED <<remote, tries, link, invoice, company, cycles>>

IsDebt(i) == invoice[i].status = "OVERDUE" \/ (invoice[i].status = "OPEN" /\ i \in PastDue)

CountDebts(w) ==
    LET others == {i \in Invoices \ {run[w].inv} : IsDebt(i)} IN
    /\ At(w, "debts")
    /\ Goes(w, [run[w] EXCEPT !.at = "claim", !.change = IF others = {} THEN "release" ELSE "same"])
    /\ UNCHANGED <<remote, tries, link, invoice, company, cycles>>

(* Slip: the row that was read decides. *)
WinsByRead(w, status) ==
    run[w].seen.status # (IF status = "CANCELED" THEN "CANCELED" ELSE "PAID")

(* The update is conditional on what the invoice has become. *)
Wins(w, status) ==
    invoice[run[w].inv].status # (IF status = "CANCELED" THEN "CANCELED" ELSE "PAID")

(* Another invoice has the payment already: mpPaymentId is unique. *)
Taken(w) == \E i \in Invoices \ {run[w].inv} : invoice[i].pay = run[w].pay

Claim(w) ==
    LET i      == run[w].inv
        status == MapStatus(run[w].got)
    IN  /\ At(w, "claim")
        /\ IF Wins(w, status) /\ ~Taken(w)
           THEN /\ invoice' = [invoice EXCEPT ![i] = [status |-> status, pay |-> run[w].pay]]
                /\ company' = CASE run[w].change = "release" -> "none"
                                [] run[w].change = "block" -> "payment"
                                [] OTHER -> company
                /\ Goes(w, IF status = "PAID" THEN [run[w] EXCEPT !.at = "coupon"] ELSE Idle)
           ELSE Goes(w, Idle) /\ UNCHANGED <<invoice, company>>
        /\ UNCHANGED <<remote, tries, link, cycles>>

(* Only who won counts a cycle; a failure to do so is swallowed. *)
CountCycle(w) ==
    /\ At(w, "coupon")
    /\ cycles' = IF cycles > 0 THEN cycles - 1 ELSE 0
    /\ Goes(w, Idle)
    /\ UNCHANGED <<remote, tries, link, invoice, company>>

Throws(w) ==
    /\ w \in Faulty /\ run[w] # Idle
    /\ Goes(w, Idle)
    /\ UNCHANGED <<remote, tries, link, invoice, company, cycles>>

-----------------------------------------------------------------------------
(* Who begins with an invoice: the routine and the buttons.                  *)

Listed(i) == invoice[i].status \in {"OPEN", "OVERDUE"}

Begins(w, i, by) ==
    /\ MayBegin(w)
    /\ Goes(w, [Idle EXCEPT !.at = "search", !.by = by, !.inv = i, !.seen = invoice[i]])
    /\ UNCHANGED <<remote, tries, link, invoice, company, cycles>>

List(i) == Listed(i) /\ Begins(Cron, i, "routine")

PressSync(w, i) == "sync" \in Buttons /\ invoice[i] # NoRow /\ Begins(w, i, "sync")

PressRemove(w, i) == "remove" \in Buttons /\ Listed(i) /\ Begins(w, i, "remove")

(* The payment as Mercado Pago has it now; the routine leaves what is not    *)
(* decided, a removal what is paid.                                          *)
Search(w) ==
    LET p    == Found(run[w].inv, run[w].seen.pay)
        read == [run[w] EXCEPT !.pay = p, !.got = IF p = None THEN "none" ELSE remote[p]]
        by   == run[w].by
    IN  /\ At(w, "search")
        /\ \/ by = "routine" /\ Goes(w, IF p = None \/ MapStatus(read.got) = "OPEN" THEN Idle
                                        ELSE Applied(read, run[w].inv, run[w].seen))
           \/ by = "sync" /\ Goes(w, IF p = None THEN Idle ELSE [read EXCEPT !.at = "write"])
           \/ /\ by = "remove"
              /\ Goes(w, CASE read.got = "approved" -> Idle
                           [] read.got = "pending"  -> [read EXCEPT !.at = "release"]
                           [] OTHER                 -> [read EXCEPT !.at = "expire"])
        /\ UNCHANGED <<remote, tries, link, invoice, company, cycles>>

(* syncMercadoPago(): the invoice by its id, the company not at all. *)
Write(w) ==
    LET r      == run[w]
        mapped == MapStatus(r.got)
    IN  /\ At(w, "write")
        /\ invoice' = [invoice EXCEPT ![r.inv] =
              [status |-> IF r.seen.status = "PAID" /\ mapped = "OPEN" THEN "PAID" ELSE mapped,
               pay    |-> r.pay]]
        /\ Goes(w, Idle)
        /\ UNCHANGED <<remote, tries, link, company, cycles>>

(* releaseMercadoPago(): a payment not yet decided is cancelled, ... *)
Release(w) ==
    LET r == run[w] IN
    /\ At(w, "release")
    /\ IF remote[r.pay] = "pending"
       THEN /\ remote' = [remote EXCEPT ![r.pay] = "rejected"]
            /\ Goes(w, [r EXCEPT !.at = "expire"])
       ELSE Goes(w, Idle) /\ UNCHANGED remote
    /\ UNCHANGED <<tries, link, invoice, company, cycles>>

(* ... the link expires, if it lets itself, and the invoice is canceled. *)
Expire(w) ==
    /\ At(w, "expire")
    /\ link' \in {link \ {run[w].inv}} \cup (IF w \in Faulty THEN {link} ELSE {})
    /\ Goes(w, [run[w] EXCEPT !.at = "cancel"])
    /\ UNCHANGED <<remote, tries, invoice, company, cycles>>

Cancel(w) ==
    /\ At(w, "cancel")
    /\ invoice' = [invoice EXCEPT ![run[w].inv].status = "CANCELED"]
    /\ Goes(w, Idle)
    /\ UNCHANGED <<remote, tries, link, company, cycles>>

-----------------------------------------------------------------------------
Handle(w) ==
    \/ FindInvoice(w) \/ Adopt(w) \/ Create(w) \/ ReadCompany(w) \/ CountDebts(w)
    \/ Claim(w) \/ CountCycle(w) \/ Search(w) \/ Write(w) \/ Release(w) \/ Expire(w) \/ Cancel(w)

MpNext ==
    \/ \E p \in Payments : Pays(p) \/ Settles(p) \/ \E w \in Notices : Notice(w, p)
    \/ \E i \in Invoices : List(i) \/ \E w \in Staff : PressSync(w, i) \/ PressRemove(w, i)
    \/ \E w \in Procs : Handle(w) \/ Throws(w)

MpSpec == MpInit /\ [][MpNext]_mpVars

(* A call that has begun runs on, and the routine comes back to every        *)
(* invoice; no notice is ever relied upon.                                   *)
FairMpSpec ==
    /\ MpSpec
    /\ \A w \in Procs : WF_mpVars(Handle(w))
    /\ \A i \in Invoices : SF_mpVars(List(i))

-----------------------------------------------------------------------------
(* Payments, invoices and calls in progress stay in their types. *)
Rows == [status : {"NONE", "OPEN", "OVERDUE", "PAID", "CANCELED"}, pay : Payments \cup {None}]

Calls ==
    [at : {"idle", "find", "adopt", "create", "search", "company", "debts",
           "claim", "coupon", "write", "release", "expire", "cancel"},
     by : {"notice", "routine", "sync", "remove"},
     inv : Invoices \cup {None}, pay : Payments \cup {None},
     got : States, seen : Rows, change : {"same", "release", "block"}]

MpTypeOK ==
    /\ remote \in [Payments -> States]
    /\ tries \in [Invoices -> Seq(Payments)]
    /\ link \subseteq Invoices
    /\ invoice \in [Invoices -> Rows]
    /\ company \in {"none", "payment", "person"}
    /\ cycles \in 0..Cycles
    /\ run \in [Procs -> Calls]

PaymentsOf(i) == {p \in Payments : InvoiceOf[p] = i \/ invoice[i].pay = p}

(* Only a chargeback of one of its own payments takes a paid invoice back,   *)
(* however many attempts, notices, routines and buttons are at it ("evento   *)
(* antigo chegando depois", mercadopago-payment-sync.service.ts:34).         *)
PaidStaysPaid ==
    [][\A i \in Invoices : invoice[i].status = "PAID" =>
         \/ invoice'[i].status = "PAID"
         \/ invoice'[i].status = "CANCELED" /\ \E p \in PaymentsOf(i) : remote[p] = "charged_back"
      ]_mpVars

(* While nothing is charged back a paid invoice uses up one cycle of the     *)
(* coupon, be it notified, searched and synchronised at once                 *)
(* (mercadopago-payment-sync.service.ts:46).                                 *)
CountedOnce ==
    (\A p \in Payments : remote[p] # "charged_back") =>
        Cycles - cycles <= Cardinality({i \in Invoices : invoice[i].status = "PAID"})

Unrecognised(i, p) ==
    /\ Approved(p) /\ InvoiceOf[p] = i
    /\ Listed(i) /\ invoice[i].pay \in {None, p}

(* A payment is recognised though no notice of it ever arrives, as long as   *)
(* no other attempt is on record (payment-reconciliation.service.ts:80).     *)
PaymentIsRecognised ==
    \A i \in Invoices : \A p \in Payments : Unrecognised(i, p) ~> ~Unrecognised(i, p)

(* The same for every payment: "webhook atrasado, perdido ou rejeitado nao   *)
(* pode perder pagamento" (payment-reconciliation.service.ts:80).            *)
Unpaid(i) == Listed(i) /\ \E p \in Payments : Approved(p) /\ InvoiceOf[p] = i

NoPaymentIsLost == \A i \in Invoices : Unpaid(i) ~> ~Unpaid(i)

(* A canceled invoice is not opened again by an attempt that failed: such    *)
(* attempts leave the invoice as it is (mercadopago.service.ts:236).         *)
CanceledStaysClosed ==
    [][\A i \in Invoices : invoice[i].status = "CANCELED" => invoice'[i].status # "OPEN"]_mpVars

(* An invoice stays paid while a payment of it is good.                      *)
PaidByAnyPayment ==
    [][\A i \in Invoices :
         invoice[i].status = "PAID" /\ invoice'[i].status = "CANCELED"
           => \A p \in PaymentsOf(i) : ~Approved(p)]_mpVars

(* A subscription's payment has one invoice: no other is left open, once     *)
(* nobody is at it.                                                          *)
OneInvoiceEach ==
    Resting(Procs) =>
      Cardinality({i \in Invoices \ Issued : invoice[i] # NoRow})
        <= Cardinality({p \in Payments : InvoiceOf[p] = None /\ remote[p] # "none"})

(* A payment that leaves no other debt releases a company that waits for it. *)
PaymentReleasesCompany ==
    [][\A i \in Invoices :
         /\ invoice[i].status # "PAID" /\ invoice'[i].status = "PAID"
         /\ company = "payment" /\ \A j \in Invoices \ {i} : ~IsDebt(j)
         => company' = "none"]_mpVars
=============================================================================
