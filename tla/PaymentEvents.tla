--------------------------- MODULE PaymentEvents ---------------------------
(***************************************************************************)
(* From the events of Asaas to invoices and to the company's access:       *)
(*   apps/api/src/modules/finance/asaas-webhook.controller.ts              *)
(*   apps/api/src/modules/finance/asaas-webhook.processor.ts               *)
(*   apps/api/src/modules/finance/payment-access.ts                        *)
(*   apps/api/src/modules/finance/payment-reconciliation.service.ts        *)
(*   apps/api/src/modules/finance/billing-cron.service.ts (dunning)        *)
(*                                                                         *)
(* The controller stores an event and queues it; a worker claims it with a *)
(* conditional update and handles it in several awaits: it reads the       *)
(* invoice, decides its next status, reads the company and its other       *)
(* debts, writes invoice and company in one transaction and counts a cycle *)
(* of the coupon.  A routine compares invoices with the charges and        *)
(* repairs them by events of its own, in its own process; the dunning      *)
(* routine blocks the company.  Events come twice, late and out of order.  *)
(***************************************************************************)
EXTENDS Integers, FiniteSets

CONSTANTS
    Invoices,      \* charges of one company, each with at most one invoice row
    Reserved,      \* those whose row the platform created before the charge
    Workers,       \* consumers of the asaas-webhook queue
    Cron,          \* the reconciliation routine
    May,           \* names of the events that may happen to a charge
    Attempts,      \* runs of a queued job
    CouponCycles,  \* paid cycles the company's coupon is good for
    Watched,       \* invoices the reconciliation still looks at
    Faulty,        \* handlers that may fail or die half-way
    Overlap,       \* handlers, routines and people act at the same time
    People         \* people may block and release the company by hand

Procs == Workers \cup {Cron}

Names == {"CREATED", "UPDATED", "RESTORED", "OVERDUE", "CONFIRMED", "RECEIVED",
          "DELETED", "CHARGEBACK"}

ASSUME EventsAssumption ==
    /\ IsFiniteSet(Invoices) /\ Reserved \subseteq Invoices
    /\ Cron \notin Workers
    /\ May \in [Invoices -> SUBSET Names]
    /\ Attempts \in Nat \ {0} /\ CouponCycles \in Nat
    /\ Watched \subseteq Invoices /\ Faulty \subseteq Procs
    /\ Overlap \in BOOLEAN /\ People \in BOOLEAN

VARIABLES
    charge,     \* the charges at Asaas
    sent,       \* due date an emitted event carries (1 or 2), 0 if not emitted
    stored,     \* rows of AsaasWebhookEvent
    jobs,       \* runs left to the queued job of an event
    invoice,    \* rows of PlatformInvoice
    company,    \* why the company is blocked, and its billing status
    coupon,     \* cycles of the coupon that are left
    run,        \* what a handler has read and not written yet
    dunning,    \* what the dunning routine has decided and not written yet
    held        \* history: a person has blocked the company and none released it

eventVars == <<charge, sent, stored, jobs, invoice, company, coupon, run, dunning, held>>

Charges == {"NONE", "PENDING", "OVERDUE", "CONFIRMED", "RECEIVED", "CHARGEBACK", "DELETED"}
PaidCharges == {"CONFIRMED", "RECEIVED"}
InvoiceStatus == {"NONE", "OPEN", "OVERDUE", "PAID", "CANCELED"}
StoredStatus == {"NONE", "PENDING", "PROCESSING", "PROCESSED", "FAILED"}
Events == [inv : Invoices, name : Names, by : {"asaas", "reconcile"}]
Rows == [status : InvoiceStatus, paid : BOOLEAN, removed : BOOLEAN, due : 1..2]
Reasons == {"none", "debt", "reversed", "person", "cancelled"}
Companies == [reason : Reasons, billing : {"ACTIVE", "PAST_DUE", "CANCELED"}]
Effects == {"same", "release", "pastdue", "reversed"}
Stages == {"idle", "ask", "claim", "invoice", "proof", "company", "debts", "write",
           "couponRead", "couponWrite", "finish"}

(* PAYMENT_REACTIVATION_REASONS: blocks that a payment may undo. *)
PaymentReasons == {"debt", "reversed"}

NoRow == [status |-> "NONE", paid |-> FALSE, removed |-> FALSE, due |-> 1]
Event(i, name, by) == [inv |-> i, name |-> name, by |-> by]
Asaas(i, name) == Event(i, name, "asaas")
Idle == [at |-> "idle"]

EventsInit ==
    /\ charge = [i \in Invoices |-> IF i \in Reserved THEN "PENDING" ELSE "NONE"]
    /\ sent = [e \in Events |->
                 IF e \in {Asaas(i, "CREATED") : i \in {j \in Reserved : "CREATED" \in May[j]}}
                 THEN 1 ELSE 0]
    /\ stored = [e \in Events |-> "NONE"]
    /\ jobs = [e \in Events |-> 0]
    /\ invoice = [i \in Invoices |->
                    IF i \in Reserved THEN [NoRow EXCEPT !.status = "OPEN"] ELSE NoRow]
    /\ company = [reason |-> "none", billing |-> "ACTIVE"]
    /\ coupon = CouponCycles
    /\ run = [p \in Procs |-> Idle]
    /\ dunning = "none"
    /\ held = FALSE

Quiet == dunning = "none" /\ \A p \in Procs : run[p] = Idle
MayBegin == Overlap \/ Quiet

-----------------------------------------------------------------------------
(* Asaas, external to the repository.  A charge falls due and is postponed   *)
(* at most once, each change is announced by one event.  A created, updated  *)
(* or restored event carries the state of its charge when it was emitted; of *)
(* those states resolveStatus() tells apart only PENDING is modelled: a      *)
(* charge that is restored is not past due, one that is updated can still be *)
(* paid.                                                                     *)

DueOf(i) == IF sent[Asaas(i, "UPDATED")] # 0 THEN 2 ELSE 1
PastDue(i, due) == due = 1 /\ sent[Asaas(i, "OVERDUE")] # 0

Moves(i, from, to, name, due) ==
    /\ charge[i] \in from
    /\ name \in May[i] /\ sent[Asaas(i, name)] = 0
    /\ charge' = [charge EXCEPT ![i] = to]
    /\ sent' = [sent EXCEPT ![Asaas(i, name)] = due]

ChargeChanges(i) ==
    LET payable == {"PENDING", "OVERDUE"}
        due     == DueOf(i)
    IN  /\ \/ Moves(i, {"NONE"}, "PENDING", "CREATED", 1)
           \/ Moves(i, {"PENDING"}, "OVERDUE", "OVERDUE", 1) /\ due = 1
           \/ Moves(i, {"OVERDUE"}, "PENDING", "UPDATED", 2)
           \/ Moves(i, payable, "CONFIRMED", "CONFIRMED", due)
           \/ Moves(i, payable \cup {"CONFIRMED"}, "RECEIVED", "RECEIVED", due)
           \/ Moves(i, payable, "DELETED", "DELETED", due)
           \/ Moves(i, {"DELETED"}, "PENDING", "RESTORED", due) /\ ~PastDue(i, due)
           \/ Moves(i, PaidCharges, "CHARGEBACK", "CHARGEBACK", due)
        /\ UNCHANGED <<stored, jobs, invoice, company, coupon, run, dunning, held>>

(* A chargeback is decided for the merchant; no event the code knows tells.  *)
ChargebackReversed(i) ==
    /\ charge[i] = "CHARGEBACK"
    /\ charge' = [charge EXCEPT ![i] = "RECEIVED"]
    /\ UNCHANGED <<sent, stored, jobs, invoice, company, coupon, run, dunning, held>>

-----------------------------------------------------------------------------
(* handleAsaasWebhook() and enqueue(). *)

(* A delivery, a repeated delivery, or a retry by hand of an event that is   *)
(* not processed.  When the queue is down the event is left FAILED.          *)
Deliver(e) ==
    /\ e.by = "asaas" /\ sent[e] # 0
    /\ stored[e] \in {"NONE", "PENDING", "FAILED"}
    /\ \/ /\ stored' = [stored EXCEPT ![e] = "PENDING"]
          /\ jobs' = [jobs EXCEPT ![e] = Attempts]
       \/ /\ Faulty # {}
          /\ stored' = [stored EXCEPT ![e] = "FAILED"]
          /\ UNCHANGED jobs
    /\ UNCHANGED <<charge, sent, invoice, company, coupon, run, dunning, held>>

-----------------------------------------------------------------------------
(* processStoredEvent(): the claim. *)

Claimable(e) == stored[e] \in {"PENDING", "FAILED"}

(* A job whose event is not claimable ends without doing anything. *)
Take(w, e) ==
    /\ run[w] = Idle
    /\ jobs[e] > 0
    /\ IF Claimable(e)
       THEN /\ MayBegin
            /\ stored' = [stored EXCEPT ![e] = "PROCESSING"]
            /\ jobs' = [jobs EXCEPT ![e] = @ - 1]
            /\ run' = [run EXCEPT ![w] = [at |-> "invoice", event |-> e]]
       ELSE /\ jobs' = [jobs EXCEPT ![e] = 0]
            /\ UNCHANGED <<stored, run>>
    /\ UNCHANGED <<charge, sent, invoice, company, coupon, dunning, held>>

-----------------------------------------------------------------------------
(* handlePaymentEvent(): the decision, from the row that was read. *)

(* Slip: a dispute gives the invoice a status of its own. *)
StatusOfDispute(name) ==
    CASE name \in {"CONFIRMED", "RECEIVED"} -> "PAID"
      [] name = "OVERDUE" -> "OVERDUE"
      [] name = "DELETED" -> "CANCELED"
      [] name = "CHARGEBACK" -> "DISPUTED"
      [] OTHER -> "OPEN"

StatusFromEvent(name) ==
    CASE name \in {"CONFIRMED", "RECEIVED"} -> "PAID"
      [] name = "OVERDUE" -> "OVERDUE"
      [] name \in {"DELETED", "CHARGEBACK"} -> "CANCELED"
      [] OTHER -> "OPEN"

(* Slip: any late event opens a removed invoice again. *)
OpensRemoved(e, row) ==
    \/ row.status = "NONE"
    \/ row.status = "OVERDUE" => ~PastDue(e.inv, sent[e])

(* resolveStatus(): an event without a status of its own, whose charge is    *)
(* PENDING, opens an invoice that does not exist, or is restored; an overdue *)
(* one only with a due date still to come; a removed one not at all.         *)
Opens(e, row) ==
    \/ row.status = "NONE"
    \/ /\ row.status = "CANCELED" \/ row.removed => e.name = "RESTORED"
       /\ row.status = "OVERDUE" => ~PastDue(e.inv, sent[e])

(* Slip: a late event takes a paid invoice back. *)
AppliesToPaid(e, row) == StatusFromEvent(e.name) = "OPEN" => Opens(e, row)

Applies(e, row) ==
    LET status == StatusFromEvent(e.name) IN
    /\ status = "OPEN" => Opens(e, row)
    /\ row.status = "PAID" => status \notin {"OPEN", "OVERDUE"}

(* Slip: a late "received" is believed. *)
NeedsNoProof(e, row) == FALSE

(* Paid, then reversed: a late "received" is checked with Asaas. *)
NeedsProof(e, row) ==
    row.status = "CANCELED" /\ row.paid /\ StatusFromEvent(e.name) = "PAID"

(* What becomes of the company, unless a payment has to look at it first. *)
ChangeWithout(e, row) ==
    LET status == StatusFromEvent(e.name) IN
    IF status = "OVERDUE" THEN "pastdue"
    ELSE IF status = "CANCELED" /\ row.status = "PAID" THEN "reversed" ELSE "same"

ReadInvoice(p) ==
    LET e   == run[p].event
        row == invoice[e.inv]
        at  == IF ~Applies(e, row) THEN "finish"
               ELSE IF NeedsProof(e, row) THEN "proof"
               ELSE IF StatusFromEvent(e.name) = "PAID" THEN "company" ELSE "write"
    IN  /\ run[p].at = "invoice"
        /\ run' = [run EXCEPT ![p] =
              [at |-> at, event |-> e, row |-> row, change |-> ChangeWithout(e, row)]]
        /\ UNCHANGED <<charge, sent, stored, jobs, invoice, company, coupon, dunning, held>>

(* remotelyPaid() *)
AskProof(p) ==
    /\ run[p].at = "proof"
    /\ run' = [run EXCEPT ![p].at =
                  IF charge[run[p].event.inv] \in PaidCharges THEN "company" ELSE "finish"]
    /\ UNCHANGED <<charge, sent, stored, jobs, invoice, company, coupon, dunning, held>>

-----------------------------------------------------------------------------
(* companyDataAfterPayment(): reads the company, then its other debts. *)

PaymentMayRelease ==
    /\ company.billing # "CANCELED"
    /\ company.reason \in {"none"} \cup PaymentReasons

ReadCompany(p) ==
    /\ run[p].at = "company"
    /\ run' = [run EXCEPT ![p].at = IF PaymentMayRelease THEN "debts" ELSE "write"]
    /\ UNCHANGED <<charge, sent, stored, jobs, invoice, company, coupon, dunning, held>>

IsDebt(i) ==
    /\ ~invoice[i].removed
    /\ \/ invoice[i].status = "OVERDUE"
       \/ invoice[i].status = "OPEN" /\ PastDue(i, invoice[i].due)

(* Slip: the invoice that is being paid counts as a debt. *)
OtherDebtsOrThis(i) == {j \in Invoices : IsDebt(j)}

(* Slip: only open invoices past their due date are debts, not overdue ones. *)
OtherDebtsMarked(i) == {j \in Invoices \ {i} : IsDebt(j) /\ invoice[j].status = "OPEN"}

OtherDebts(i) == {j \in Invoices \ {i} : IsDebt(j)}

CountDebts(p) ==
    /\ run[p].at = "debts"
    /\ run' = [run EXCEPT ![p].at = "write",
                  ![p].change = IF OtherDebts(run[p].event.inv) = {} THEN "release" ELSE "same"]
    /\ UNCHANGED <<charge, sent, stored, jobs, invoice, company, coupon, dunning, held>>

-----------------------------------------------------------------------------
(* The transaction on the invoice and the company. *)

NextRow(e, row) ==
    LET status == StatusFromEvent(e.name) IN
    [status  |-> status,
     paid    |-> row.paid \/ status = "PAID",
     removed |-> e.name = "DELETED" \/ (e.name # "RESTORED" /\ row.removed),
     due     |-> sent[e]]

NextCompany(change) ==
    CASE change = "release"  -> [reason |-> "none", billing |-> "ACTIVE"]
      [] change = "pastdue"  -> [company EXCEPT !.billing = "PAST_DUE"]
      [] change = "reversed" -> [reason |-> "reversed", billing |-> "PAST_DUE"]
      [] OTHER -> company

(* Slip: every payment event counts a cycle. *)
CountsAnyPayment(e, row) == StatusFromEvent(e.name) = "PAID"

CountsCycle(e, row) == StatusFromEvent(e.name) = "PAID" /\ row.status # "PAID"

(* A row that was read is updated by its id; one that was not is created,    *)
(* which fails if somebody else did (asaasPaymentId is unique).              *)
Write(p) ==
    LET e   == run[p].event
        row == run[p].row
    IN  /\ run[p].at = "write"
        /\ row.status = "NONE" => invoice[e.inv].status = "NONE"
        /\ invoice' = [invoice EXCEPT ![e.inv] = NextRow(e, row)]
        /\ company' = NextCompany(run[p].change)
        /\ run' = [run EXCEPT ![p] = [at |-> IF CountsCycle(e, row) THEN "couponRead" ELSE "finish",
                                      event |-> e]]
        /\ UNCHANGED <<charge, sent, stored, jobs, coupon, dunning, held>>

CouponRuns(left) == left > 0

(* advanceCouponCycle(): read ... *)
ReadCoupon(p) ==
    /\ run[p].at = "couponRead"
    /\ run' = [run EXCEPT ![p] =
                  IF CouponRuns(coupon)
                  THEN [at |-> "couponWrite", event |-> run[p].event, left |-> coupon - 1]
                  ELSE [at |-> "finish", event |-> run[p].event]]
    /\ UNCHANGED <<charge, sent, stored, jobs, invoice, company, coupon, dunning, held>>

(* ... and write; the last cycle first restores the price at Asaas, and      *)
(* keeps the counter when that fails.                                        *)
WriteCoupon(p) ==
    /\ run[p].at = "couponWrite"
    /\ run' = [run EXCEPT ![p] = [at |-> "finish", event |-> run[p].event]]
    /\ coupon' = run[p].left \/ (p \in Faulty /\ run[p].left = 0 /\ UNCHANGED coupon)
    /\ UNCHANGED <<charge, sent, stored, jobs, invoice, company, dunning, held>>

Finish(p) ==
    LET e == run[p].event IN
    /\ run[p].at = "finish"
    /\ stored' = [stored EXCEPT ![e] = "PROCESSED"]
    /\ jobs' = IF p \in Workers THEN [jobs EXCEPT ![e] = 0] ELSE jobs
    /\ run' = [run EXCEPT ![p] = Idle]
    /\ UNCHANGED <<charge, sent, invoice, company, coupon, dunning, held>>

Handling(p) == run[p].at \notin {"idle", "ask", "claim"}

(* The catch block: a failed read or write, or a row somebody else created.  *)
(* The queue runs the job again while it has attempts.                       *)
Fail(p) ==
    LET e == run[p].event IN
    /\ Handling(p)
    /\ \/ p \in Faulty
       \/ run[p].at = "write" /\ run[p].row.status = "NONE" /\ invoice[e.inv].status # "NONE"
    /\ stored' = [stored EXCEPT ![e] = "FAILED"]
    /\ run' = [run EXCEPT ![p] = Idle]
    /\ UNCHANGED <<charge, sent, jobs, invoice, company, coupon, dunning, held>>

(* The process dies; the event stays PROCESSING and nobody claims it again.  *)
Die(p) ==
    /\ p \in Faulty /\ run[p] # Idle
    /\ run' = [run EXCEPT ![p] = Idle]
    /\ UNCHANGED <<charge, sent, stored, jobs, invoice, company, coupon, dunning, held>>

-----------------------------------------------------------------------------
(* PaymentReconciliationService: one invoice of the list that was read. *)

(* Slip: an overdue invoice is left to the webhooks. *)
ListedOpen(i) ==
    /\ i \in Watched
    /\ invoice[i].status = "OPEN" /\ ~invoice[i].removed

(* Rows of Asaas that are not removed: open and overdue ones, and any other  *)
(* that was updated in the last days.                                        *)
Listed(i) ==
    /\ i \in Watched
    /\ invoice[i].status # "NONE" /\ ~invoice[i].removed

List(i) ==
    /\ run[Cron] = Idle /\ MayBegin
    /\ Listed(i)
    /\ run' = [run EXCEPT ![Cron] = [at |-> "ask", inv |-> i, row |-> invoice[i]]]
    /\ UNCHANGED <<charge, sent, stored, jobs, invoice, company, coupon, dunning, held>>

(* healingEvent() of classifyRemoteStatus(): none, or the name of an event. *)
Healing(i, status) ==
    CASE charge[i] \in PaidCharges /\ status # "PAID" -> {charge[i]}
      [] charge[i] = "OVERDUE" /\ status = "OPEN" -> {"OVERDUE"}
      [] charge[i] \in {"DELETED", "CHARGEBACK"} /\ status # "CANCELED" -> {charge[i]}
      [] OTHER -> {}

(* The event of the day is stored, or taken up again if it failed. *)
AskCharge ==
    LET i == run[Cron].inv IN
    /\ run[Cron].at = "ask"
    /\ \/ \E name \in Healing(i, run[Cron].row.status) :
            LET e == Event(i, name, "reconcile") IN
            /\ run' = [run EXCEPT ![Cron] = [at |-> "claim", event |-> e]]
            /\ sent' = IF stored[e] = "NONE" THEN [sent EXCEPT ![e] = DueOf(i)] ELSE sent
            /\ stored' = IF stored[e] \in {"NONE", "FAILED"}
                         THEN [stored EXCEPT ![e] = "PENDING"] ELSE stored
       \/ /\ Healing(i, run[Cron].row.status) = {}
          /\ run' = [run EXCEPT ![Cron] = Idle]
          /\ UNCHANGED <<sent, stored>>
    /\ UNCHANGED <<charge, jobs, invoice, company, coupon, dunning, held>>

ClaimRepair ==
    LET e == run[Cron].event IN
    /\ run[Cron].at = "claim"
    /\ IF Claimable(e)
       THEN /\ stored' = [stored EXCEPT ![e] = "PROCESSING"]
            /\ run' = [run EXCEPT ![Cron] = [at |-> "invoice", event |-> e]]
       ELSE /\ run' = [run EXCEPT ![Cron] = Idle]
            /\ UNCHANGED stored
    /\ UNCHANGED <<charge, sent, jobs, invoice, company, coupon, dunning, held>>

(* The id of a repairing event names the day: the next day has new ones. *)
NewDay ==
    LET old == {e \in Events : e.by = "reconcile"} IN
    /\ run[Cron] = Idle
    /\ stored' = [e \in Events |-> IF e \in old THEN "NONE" ELSE stored[e]]
    /\ sent' = [e \in Events |-> IF e \in old THEN 0 ELSE sent[e]]
    /\ UNCHANGED <<charge, jobs, invoice, company, coupon, run, dunning, held>>

-----------------------------------------------------------------------------
(* checkOverdueInvoices(): reads invoices with their company, then writes.   *)

DunningReads ==
    /\ dunning = "none" /\ MayBegin
    /\ \E i \in Invoices : invoice[i].status = "OVERDUE" /\ PastDue(i, invoice[i].due)
    /\ company.billing # "CANCELED"
    /\ \/ company.reason \in {"none", "debt"} /\ dunning' = "cancel"
       \/ company.reason = "none" /\ dunning' = "block"
    /\ UNCHANGED <<charge, sent, stored, jobs, invoice, company, coupon, run, held>>

DunningWrites ==
    /\ dunning # "none"
    /\ dunning' = "none"
    /\ company' = IF dunning = "block" THEN [reason |-> "debt", billing |-> "PAST_DUE"]
                                       ELSE [reason |-> "cancelled", billing |-> "CANCELED"]
    /\ UNCHANGED <<charge, sent, stored, jobs, invoice, coupon, run, held>>

(* Somebody at the platform blocks the company, or releases it. *)
PersonDecides ==
    /\ People /\ MayBegin
    /\ \/ /\ company' = [company EXCEPT !.reason = "person"]
          /\ held' = TRUE
       \/ /\ company' = [reason |-> "none", billing |-> "ACTIVE"]
          /\ held' = FALSE
    /\ UNCHANGED <<charge, sent, stored, jobs, invoice, coupon, run, dunning>>

Handle(p) ==
    \/ ReadInvoice(p) \/ AskProof(p) \/ ReadCompany(p) \/ CountDebts(p) \/ Write(p)
    \/ ReadCoupon(p) \/ WriteCoupon(p) \/ Finish(p)

Repair == AskCharge \/ ClaimRepair \/ Handle(Cron)

EventsNext ==
    \/ \E i \in Invoices : ChargeChanges(i) \/ ChargebackReversed(i) \/ List(i)
    \/ \E e \in Events : Deliver(e) \/ \E w \in Workers : Take(w, e)
    \/ \E p \in Procs : Handle(p) \/ Fail(p) \/ Die(p)
    \/ AskCharge \/ ClaimRepair \/ NewDay
    \/ DunningReads \/ DunningWrites \/ PersonDecides

EventsSpec == EventsInit /\ [][EventsNext]_eventVars

(* Handlers run on, days pass and the routine comes back to every invoice.   *)
(* No delivery is relied upon.                                               *)
EventsFairness ==
    /\ \A w \in Workers : WF_eventVars(Handle(w) \/ Fail(w))
    /\ WF_eventVars(Repair)
    /\ SF_eventVars(NewDay)
    /\ WF_eventVars(DunningWrites)
    /\ \A i \in Invoices : SF_eventVars(List(i))

FairEventsSpec == EventsSpec /\ EventsFairness

-----------------------------------------------------------------------------
(* Properties. *)

Runs ==
    {Idle}
    \cup [at : {"ask"}, inv : Invoices, row : Rows]
    \cup [at : {"claim", "invoice", "couponRead", "finish"}, event : Events]
    \cup [at : Stages, event : Events, row : Rows, change : Effects]
    \cup [at : {"couponWrite"}, event : Events, left : 0..CouponCycles]

EventsTypeOK ==
    /\ charge \in [Invoices -> Charges]
    /\ sent \in [Events -> 0..2]
    /\ stored \in [Events -> StoredStatus]
    /\ jobs \in [Events -> 0..Attempts]
    /\ invoice \in [Invoices -> Rows]
    /\ company \in Companies
    /\ coupon \in 0..CouponCycles
    /\ run \in [Procs -> Runs]
    /\ dunning \in {"none", "block", "cancel"}
    /\ held \in BOOLEAN

(* "uma fatura ja paga nunca volta para aberta/vencida (so estorno ou         *)
(* cancelamento a altera)", whatever comes late or twice.                     *)
PaidNeverReopens ==
    [][\A i \in Invoices :
          invoice[i].status = "PAID" => invoice'[i].status \in {"PAID", "CANCELED"}]_eventVars

BecomesPaid(i) == invoice[i].status # "PAID" /\ invoice'[i].status = "PAID"

(* The payment of the last debt gives the access back: a payment that leaves  *)
(* no other debt releases a company that was blocked for a payment's sake.    *)
PaymentReleases ==
    [][\A i \in Invoices :
          /\ BecomesPaid(i) /\ \A j \in Invoices \ {i} : ~IsDebt(j)
          /\ company.reason \in PaymentReasons /\ company.billing # "CANCELED"
          => company'.reason = "none"]_eventVars

(* A payment that leaves another invoice overdue releases nobody.             *)
ReleaseOnlyPaidUp ==
    [][\A i \in Invoices :
          /\ BecomesPaid(i) /\ company.reason # "none"
          /\ \E j \in Invoices \ {i} : IsDebt(j) /\ invoice[j].status = "OVERDUE"
          => company'.reason # "none"]_eventVars

(* "Conta um ciclo pago do cupom": an event that is delivered again and run   *)
(* again after it failed at any step uses up one cycle of the coupon.  The run *)
(* repeats one name; the other names of the payment and the routine, in turns, *)
(* are the theorem's.  Charges that are charged back or restored are excepted: *)
(* a late event cancels their rows, which are paid, and counted, once more.    *)
CouponCountsPayments ==
    (\A i \in Invoices : sent[Asaas(i, "CHARGEBACK")] = 0 /\ sent[Asaas(i, "RESTORED")] = 0) =>
        CouponCycles - coupon <= Cardinality({i \in Invoices : invoice[i].paid})

(* "Paga, depois contestada: um recebido atrasado so reabre se o Asaas       *)
(* confirmar": once the chargeback of an invoice that was paid is processed,  *)
(* no late event makes it paid again before the dispute is over.  A late     *)
(* overdue event does undo the cancellation, and the next payment event is    *)
(* then believed: it holds of charges that are not overdue nor restored.      *)
DisputedStaysCanceled ==
    [][\A i \in Invoices :
          /\ charge[i] = "CHARGEBACK"
          /\ stored[Asaas(i, "CHARGEBACK")] = "PROCESSED" /\ invoice[i].paid
          => ~BecomesPaid(i)]_eventVars

(* A handler that has not written yet decided on a row that was not removed.  *)
ReadBefore(p, i) ==
    /\ "change" \in DOMAIN run[p]
    /\ run[p].event.inv = i /\ ~run[p].row.removed

(* "fatura removida (...) nao ressuscita": while a charge stays deleted, no   *)
(* handler that reads its removed invoice opens it, however late the event is *)
(* and whatever came in between; one that read the row before the removal may *)
(* (it writes by id, see PaidNeverReopens).                                   *)
RemovedStaysClosed ==
    [][\A i \in Invoices :
          /\ charge[i] = "DELETED" /\ invoice[i].removed
          /\ \A p \in Procs : ~ReadBefore(p, i)
          => invoice'[i].status # "OPEN"]_eventVars

(* "Qualquer outro motivo (...) exige decisao humana": a company that a       *)
(* person blocked is not released by payments.                                *)
BlocksOfPeopleStay == held => company.reason # "none"

(* What was paid at Asaas is paid here, although every webhook may be lost,   *)
(* fail half way, or be handled while the routine is at the same invoice, and *)
(* whatever the row has become, CANCELED by a chargeback included.            *)
(* A charge that was restored is excepted: its late deletion removes the row  *)
(* from the list for good.                                                    *)
Unrecognised(i) ==
    /\ charge[i] \in PaidCharges /\ sent[Asaas(i, "RESTORED")] = 0
    /\ invoice[i].status \notin {"NONE", "PAID"}

PaidChargeIsRecognised == \A i \in Watched : Unrecognised(i) ~> ~Unrecognised(i)

(* "o estado remoto manda": the same of a restored charge, which the code     *)
(* does not keep.                                                             *)
RestoredIsRecognised ==
    \A i \in Watched :
        charge[i] \in PaidCharges /\ invoice[i].status \notin {"NONE", "PAID"}
        ~> invoice[i].status = "PAID" \/ charge[i] \notin PaidCharges
=============================================================================
