---------------------------- MODULE PaymentRefund ----------------------------
(***************************************************************************)
(* Refunds of paid platform invoices:                                      *)
(*   apps/api/src/modules/finance/payment-refund.service.ts                *)
(*                                                                         *)
(* A refund request reserves the balance of the invoice in one database    *)
(* transaction, posts the refund to the payment provider outside of it,    *)
(* and is settled later by a reconciliation that reads the provider's list *)
(* of refunds and applies it in a second transaction.  Requests, the       *)
(* five-minute routine and the provider's webhooks run concurrently; each  *)
(* `await` below is a point where the others may run and where the process *)
(* may die.                                                                *)
(*                                                                         *)
(* An operation is named by its request key: requestKey is unique and      *)
(* starts with the invoice's id, so each key belongs to one invoice.       *)
(***************************************************************************)
EXTENDS Integers, FiniteSets, Functions

CONSTANTS
    Invoices,         \* paid invoices of one company
    Keys,             \* request keys, each one refund operation
    PanelRefunds,     \* refunds somebody makes directly in the provider's panel
    Reconcilers,      \* the routine, the webhook handlers and the sync button
    InvoiceOf,        \* invoice of a key or of a panel refund
    Amount,           \* value of an invoice
    Ask,              \* value a key asks for, 0 for "whatever is left"
    PanelAmount,      \* value of a panel refund
    PaidAt,           \* when an invoice was paid
    Provider,         \* gateway of an invoice: "ASAAS" or "MERCADOPAGO"
    Disputed,         \* invoices whose charge may be disputed or deleted
    Tagged,           \* keys whose description Asaas echoes in its list
    ProviderGuards,   \* the provider refuses to refund more than it received
    ReadRefusals,     \* a read of the provider may fail with a definitive 4xx
    Faults            \* processes may die and database calls may fail

NoSnap == [inv |-> "none"]

RefundIds == Keys \cup PanelRefunds
Proc == Keys \cup Reconcilers

ASSUME ConstantsAssumption ==
    /\ IsFiniteSet(Invoices) /\ IsFiniteSet(Keys) /\ IsFiniteSet(PanelRefunds)
    /\ "none" \notin Invoices
    /\ Keys \cap PanelRefunds = {} /\ Keys \cap Reconcilers = {}
    /\ InvoiceOf \in [RefundIds -> Invoices]
    /\ Amount \in [Invoices -> Nat \ {0}]
    /\ Ask \in [Keys -> Nat]
    /\ PanelAmount \in [PanelRefunds -> Nat \ {0}]
    /\ PaidAt \in [Invoices -> Nat]
    /\ Provider \in [Invoices -> {"ASAAS", "MERCADOPAGO"}]
    /\ Disputed \subseteq Invoices
    /\ Tagged \subseteq Keys
    /\ ProviderGuards \in BOOLEAN /\ ReadRefusals \in BOOLEAN /\ Faults \in BOOLEAN

VARIABLES
    invoice,       \* rows of PlatformInvoice
    op,            \* rows of PaymentRefund
    company,       \* access state of the company that pays the invoices
    remote,        \* refunds as the provider holds them
    pc,            \* where the request of a key stands
    snap,          \* list of refunds a reconciliation has read but not applied
    events,        \* settled events a process still has to hand to the listeners
    posts          \* how many times a key was posted to the provider

vars == <<invoice, op, company, remote, pc, snap, events, posts>>

(* const active = ['PROCESSING', 'PENDING', 'UNKNOWN'] *)
Active == {"PROCESSING", "PENDING", "UNKNOWN"}
OpStatus == {"NONE", "CONFIRMED", "FAILED"} \cup Active
RefundStatus == {"NONE", "PROCESSING", "PARTIALLY_REFUNDED", "REFUNDED"}
RemoteStatus == {"none", "inflight", "pending", "done", "cancelled"}
Visible == {"pending", "done", "cancelled"}
Pcs == {"idle", "post", "persist", "reconcile", "commit", "emit", "refused",
        "unknown", "answer", "returned", "threw"}
Resting == {"idle", "returned", "threw"}

ActiveOps(i) == {k \in Keys : InvoiceOf[k] = i /\ op[k].status \in Active}
InvoiceRows ==
    [status : {"PAID", "CANCELED"}, refunded : Nat, refundStatus : RefundStatus]
Operations ==
    [status : OpStatus, amount : Nat, ref : BOOLEAN, age : 0..2, review : BOOLEAN]
SettledEvents == [key : Keys, status : {"CONFIRMED", "FAILED"}]
Snapshots ==
    {NoSnap} \cup [inv : Invoices, seen : [RefundIds -> {"none"} \cup Visible], total : Nat]

Values == [x \in RefundIds |-> IF x \in Keys THEN op[x].amount ELSE PanelAmount[x]]
Larger(a, b) == IF a >= b THEN a ELSE b

Init ==
    /\ invoice = [i \in Invoices |->
                    [status |-> "PAID", refunded |-> 0, refundStatus |-> "NONE"]]
    /\ op = [k \in Keys |-> [status |-> "NONE", amount |-> 0, ref |-> FALSE,
                             age |-> 0, review |-> FALSE]]
    /\ company = "ACTIVE"
    /\ remote = [x \in RefundIds |-> "none"]
    /\ pc = [k \in Keys |-> "idle"]
    /\ snap = [p \in Proc |-> NoSnap]
    /\ events = [p \in Proc |-> {}]
    /\ posts = [k \in Keys |-> 0]

-----------------------------------------------------------------------------
(* request(): the reservation, one transaction under the invoice's row lock. *)

ConfirmedOf(i) ==
    SumFunctionOnSet(Values, {k \in Keys : InvoiceOf[k] = i /\ op[k].status = "CONFIRMED"})

(* The balance that is not available any more. *)
Used(i) == Larger(invoice[i].refunded, ConfirmedOf(i))

(* Slip: a repeated key sends the refund again. *)
RepeatRequestSends(k) ==
    /\ op[k].status # "NONE"
    /\ pc' = [pc EXCEPT ![k] = "post"]
    /\ UNCHANGED <<invoice, op>>

(* A key that was used before answers with its operation and sends nothing. *)
RepeatRequest(k) ==
    /\ op[k].status # "NONE"
    /\ pc' = [pc EXCEPT ![k] = "returned"]
    /\ UNCHANGED <<invoice, op>>

(* The guards that make a first request of the key k a reservation of amount. *)
MayReserve(k, amount) ==
    LET i == InvoiceOf[k] IN
    /\ op[k].status = "NONE"
    /\ invoice[i].status = "PAID"
    /\ ActiveOps(i) = {}
    /\ amount + Used(i) <= Amount[i]
    /\ IF Ask[k] = 0 THEN amount + Used(i) = Amount[i] ELSE amount = Ask[k]

Reserve(k) ==
    LET i == InvoiceOf[k] IN
    \E amount \in 1..Amount[i] :
        /\ MayReserve(k, amount)
        /\ op' = [op EXCEPT ![k].status = "PROCESSING", ![k].amount = amount]
        /\ invoice' = [invoice EXCEPT ![i].refundStatus = "PROCESSING"]
        /\ pc' = [pc EXCEPT ![k] = "post"]

Request(k) ==
    /\ pc[k] = "idle"
    /\ RepeatRequest(k) \/ Reserve(k)
    /\ UNCHANGED <<company, remote, snap, events, posts>>

-----------------------------------------------------------------------------
(* The provider, external to the repository. *)

Outstanding(i) ==
    SumFunctionOnSet(Values, {x \in RefundIds : InvoiceOf[x] = i /\ remote[x] \in {"pending", "done"}})

ProviderTakes(x) ==
    ProviderGuards => Values[x] + Outstanding(InvoiceOf[x]) <= Amount[InvoiceOf[x]]

(* A post whose answer the caller lost reaches the provider late, or never. *)
LatePost(k) ==
    /\ remote[k] = "inflight"
    /\ \E s \in {"none", "pending", "done"} :
          /\ s # "none" => ProviderTakes(k)
          /\ remote' = [remote EXCEPT ![k] = s]
    /\ UNCHANGED <<invoice, op, company, pc, snap, events, posts>>

ProviderSettles(k) ==
    /\ remote[k] = "pending"
    /\ \E s \in {"done", "cancelled"} : remote' = [remote EXCEPT ![k] = s]
    /\ UNCHANGED <<invoice, op, company, pc, snap, events, posts>>

PanelRefund(x) ==
    /\ remote[x] = "none"
    /\ ProviderTakes(x)
    /\ remote' = [remote EXCEPT ![x] = "done"]
    /\ UNCHANGED <<invoice, op, company, pc, snap, events, posts>>

-----------------------------------------------------------------------------
(* request(): the post to the provider, outside of any transaction. *)

Accepted(k) ==
    /\ ProviderTakes(k)
    /\ \E s \in {"pending", "done"} : remote' = [remote EXCEPT ![k] = s]
    /\ pc' = [pc EXCEPT ![k] = "persist"]

Refused(k) ==
    /\ pc' = [pc EXCEPT ![k] = "refused"]
    /\ UNCHANGED remote

(* Timeout, 5xx: the provider may or may not have the post. *)
AnswerLost(k) ==
    /\ remote' = [remote EXCEPT ![k] = "inflight"]
    /\ pc' = [pc EXCEPT ![k] = "unknown"]

Post(k) ==
    /\ pc[k] = "post"
    /\ posts' = [posts EXCEPT ![k] = @ + 1]
    /\ Accepted(k) \/ Refused(k) \/ AnswerLost(k)
    /\ UNCHANGED <<invoice, op, company, snap, events>>

(* The update is by id, whatever the operation has become in the meantime;   *)
(* only Mercado Pago answers with an identifier that is stored.              *)
PersistAnswer(k) ==
    /\ pc[k] = "persist"
    /\ \/ /\ op' = [op EXCEPT ![k].status = "PENDING",
                              ![k].ref = (Provider[InvoiceOf[k]] = "MERCADOPAGO")]
          /\ pc' = [pc EXCEPT ![k] = "reconcile"]
       \/ /\ Faults
          /\ pc' = [pc EXCEPT ![k] = "unknown"]
          /\ UNCHANGED op
    /\ UNCHANGED <<invoice, company, remote, snap, events, posts>>

(* Slip: the catch block forgets the operation. *)
MarkUnknownForgotten(k) ==
    /\ pc[k] = "unknown"
    /\ pc' = [pc EXCEPT ![k] = "answer"]
    /\ UNCHANGED <<invoice, op, company, remote, snap, events, posts>>

(* The catch block: an operation that is still active waits for the routine. *)
MarkUnknown(k) ==
    /\ pc[k] = "unknown"
    /\ pc' = [pc EXCEPT ![k] = "answer"]
    /\ \/ op' = [op EXCEPT ![k].status = IF @ \in Active THEN "UNKNOWN" ELSE @]
       \/ Faults /\ UNCHANGED op
    /\ UNCHANGED <<invoice, company, remote, snap, events, posts>>

(* Slip: the invoice is given the status of the operation. *)
StatusForPending(pending, refunded, amount) ==
    IF pending THEN "PENDING"
    ELSE IF refunded >= amount THEN "REFUNDED"
    ELSE IF refunded > 0 THEN "PARTIALLY_REFUNDED" ELSE "NONE"

(* Slip: a full refund compares with > instead of >=. *)
StatusForAbove(pending, refunded, amount) ==
    IF pending THEN "PROCESSING"
    ELSE IF refunded > amount THEN "REFUNDED"
    ELSE IF refunded > 0 THEN "PARTIALLY_REFUNDED" ELSE "NONE"

(* refundStatus of an invoice once `pending` tells whether operations remain. *)
StatusFor(pending, refunded, amount) ==
    IF pending THEN "PROCESSING"
    ELSE IF refunded >= amount THEN "REFUNDED"
    ELSE IF refunded > 0 THEN "PARTIALLY_REFUNDED"
    ELSE "NONE"

(* failReservation(): a definitive refusal gives the reserved balance back. *)
FailReservation(k) ==
    LET i == InvoiceOf[k] IN
    /\ pc[k] = "refused"
    /\ \/ /\ op' = [op EXCEPT ![k].status = "FAILED"]
          /\ invoice' = [invoice EXCEPT ![i].refundStatus =
                StatusFor(ActiveOps(i) \ {k} # {}, invoice[i].refunded, Amount[i])]
          /\ events' = [events EXCEPT ![k] = {[key |-> k, status |-> "FAILED"]}]
          /\ pc' = [pc EXCEPT ![k] = "answer"]
       \/ /\ Faults
          /\ pc' = [pc EXCEPT ![k] = "threw"]
          /\ UNCHANGED <<op, invoice, events>>
    /\ UNCHANGED <<company, remote, snap, posts>>

-----------------------------------------------------------------------------
(* reconcile(): first the provider is read, without a lock. *)

SeenNow(i) ==
    [x \in RefundIds |->
        IF InvoiceOf[x] = i /\ remote[x] \in Visible THEN remote[x] ELSE "none"]

DoneTotal(seen) ==
    SumFunctionOnSet(Values, {x \in RefundIds : seen[x] = "done"})

(* More refunded than was paid: nothing is applied, a person has to look. *)
WithinInvoice(i, total) == total \in 0..Amount[i]

MayReconcile(p, i) ==
    IF p \in Keys THEN pc[p] = "reconcile" /\ i = InvoiceOf[p]
                  ELSE snap[p] = NoSnap /\ events[p] = {}

ReadRemote(p, i) ==
    /\ MayReconcile(p, i)
    /\ LET seen  == SeenNow(i)
           total == DoneTotal(seen)
       IN  /\ WithinInvoice(i, total)
           /\ snap' = [snap EXCEPT ![p] = [inv |-> i, seen |-> seen, total |-> total]]
    /\ pc' = IF p \in Keys THEN [pc EXCEPT ![p] = "commit"] ELSE pc
    /\ UNCHANGED <<invoice, op, company, remote, events, posts>>

(* The read of a request's own reconciliation fails: an outage or an excess  *)
(* leaves the operation unknown, a definitive 4xx is taken for a refusal.    *)
ReadFails(k) ==
    /\ pc[k] = "reconcile"
    /\ \/ pc' = [pc EXCEPT ![k] = "unknown"]
       \/ ReadRefusals /\ pc' = [pc EXCEPT ![k] = "refused"]
    /\ UNCHANGED <<invoice, op, company, remote, snap, events, posts>>

-----------------------------------------------------------------------------
(* reconcile(): then what was read is applied under the invoice's row lock. *)

Identified(k, seen) ==
    /\ seen[k] # "none"
    /\ IF Provider[InvoiceOf[k]] = "MERCADOPAGO" THEN op[k].ref ELSE k \in Tagged

(* Asaas does not always echo the description: a single active operation is  *)
(* matched with the only untagged refund of its value.                       *)
ByValue(k, seen) ==
    LET candidates == {x \in RefundIds \ Tagged :
                          seen[x] # "none" /\ Values[x] = op[k].amount}
    IN  IF /\ Provider[InvoiceOf[k]] = "ASAAS"
           /\ ActiveOps(InvoiceOf[k]) = {k}
           /\ Cardinality(candidates) = 1
        THEN candidates ELSE {}

Match(k, seen) ==
    IF Identified(k, seen) THEN {k} ELSE ByValue(k, seen)

SameValue(k, seen) == \E x \in RefundIds : seen[x] # "none" /\ Values[x] = op[k].amount

(* Slip: absence is believed at once, not after ten minutes. *)
NeverArrivedAtOnce(k, seen) ==
    /\ op[k].status = "UNKNOWN"
    /\ ~SameValue(k, seen)

NeverArrived(k, seen) ==
    /\ op[k].status = "UNKNOWN"
    /\ op[k].age >= 1
    /\ ~SameValue(k, seen)

(* Slip: a refund in the list counts as confirmed. *)
OutcomeHasty(k, seen) ==
    IF Match(k, seen) # {} THEN "CONFIRMED"
    ELSE IF NeverArrived(k, seen) THEN "FAILED" ELSE op[k].status

(* Status of an active operation after the reconciliation has looked at it. *)
Outcome(k, seen) ==
    LET found == {seen[x] : x \in Match(k, seen)} IN
    IF found = {} THEN IF NeverArrived(k, seen) THEN "FAILED" ELSE op[k].status
    ELSE IF found = {"done"} THEN "CONFIRMED"
    ELSE IF found = {"cancelled"} THEN "FAILED"
    ELSE op[k].status

NeedsReview(k, seen) ==
    /\ Match(k, seen) = {} /\ ~NeverArrived(k, seen)
    /\ op[k].status = "UNKNOWN" /\ op[k].age = 2

(* suspendAfterFullRefund(): only an active company, and only when the       *)
(* refunded invoice is its most recent payment still standing.               *)
LaterPaid(i) ==
    \E j \in Invoices : /\ PaidAt[j] > PaidAt[i]
                        /\ invoice[j].status = "PAID"
                        /\ invoice[j].refundStatus # "REFUNDED"

(* Slip: any other paid invoice, older ones too, keeps the access. *)
SuspendsForLastOnly(i, status) ==
    /\ status = "REFUNDED" /\ invoice[i].refundStatus # "REFUNDED"
    /\ invoice[i].status = "PAID"
    /\ company = "ACTIVE"
    /\ \A j \in Invoices \ {i} : invoice[j].refundStatus = "REFUNDED"

SuspendsFor(i, status) ==
    /\ status = "REFUNDED" /\ invoice[i].refundStatus # "REFUNDED"
    /\ invoice[i].status = "PAID"
    /\ company = "ACTIVE"
    /\ ~LaterPaid(i)

Applied(i, seen) ==
    [k \in Keys |->
        IF k \in ActiveOps(i)
        THEN [op[k] EXCEPT !.status = Outcome(k, seen), !.review = @ \/ NeedsReview(k, seen)]
        ELSE op[k]]

ApplySnapshot(p, i, seen, total) ==
    LET settled  == {k \in ActiveOps(i) : Outcome(k, seen) \in {"CONFIRMED", "FAILED"}}
        refunded == Larger(total, invoice[i].refunded)
        status   == StatusFor(ActiveOps(i) # settled, refunded, Amount[i])
    IN  /\ op' = Applied(i, seen)
        /\ invoice' = [invoice EXCEPT ![i].refunded = refunded, ![i].refundStatus = status]
        /\ events' = [events EXCEPT ![p] =
                        {[key |-> k, status |-> Outcome(k, seen)] : k \in settled}]
        /\ company' = IF SuspendsFor(i, status) THEN "SUSPENDED" ELSE company

CommitReconcile(p) ==
    /\ snap[p] # NoSnap
    /\ snap' = [snap EXCEPT ![p] = NoSnap]
    /\ \/ /\ ApplySnapshot(p, snap[p].inv, snap[p].seen, snap[p].total)
          /\ pc' = IF p \in Keys THEN [pc EXCEPT ![p] = "emit"] ELSE pc
       \/ /\ Faults
          /\ pc' = IF p \in Keys THEN [pc EXCEPT ![p] = "unknown"] ELSE pc
          /\ UNCHANGED <<op, invoice, events, company>>
    /\ UNCHANGED <<remote, posts>>

(* emitSettled(): the events live in the process and go to the listeners     *)
(* one at a time, after the transaction.                                     *)
EmitSettled(p, e) ==
    /\ e \in events[p]
    /\ events' = [events EXCEPT ![p] = @ \ {e}]
    /\ UNCHANGED <<invoice, op, company, remote, pc, snap, posts>>

(* fiscal.handleRefund(), the last call of reconcile(), may fail. *)
AfterEmit(k) ==
    /\ pc[k] = "emit" /\ events[k] = {}
    /\ \/ pc' = [pc EXCEPT ![k] = "answer"]
       \/ Faults /\ pc' = [pc EXCEPT ![k] = "unknown"]
    /\ UNCHANGED <<invoice, op, company, remote, snap, events, posts>>

(* The operation is read once more and returned to the caller. *)
Answer(k) ==
    /\ pc[k] = "answer" /\ events[k] = {}
    /\ \/ pc' = [pc EXCEPT ![k] = "returned"]
       \/ Faults /\ pc' = [pc EXCEPT ![k] = "threw"]
    /\ UNCHANGED <<invoice, op, company, remote, snap, events, posts>>

TakeAnswer(k) ==
    /\ pc[k] \in {"returned", "threw"}
    /\ pc' = [pc EXCEPT ![k] = "idle"]
    /\ UNCHANGED <<invoice, op, company, remote, snap, events, posts>>

-----------------------------------------------------------------------------
(* What happens around the service. *)

(* The process dies: what it held in memory is gone, a post it was making    *)
(* may still reach the provider.                                             *)
Crash(p) ==
    /\ Faults
    /\ IF p \in Keys THEN pc[p] \notin Resting ELSE snap[p] # NoSnap \/ events[p] # {}
    /\ snap' = [snap EXCEPT ![p] = NoSnap]
    /\ events' = [events EXCEPT ![p] = {}]
    /\ pc' = IF p \in Keys THEN [pc EXCEPT ![p] = "idle"] ELSE pc
    /\ UNCHANGED <<invoice, op, company, remote, posts>>

CrashWhilePosting(k) ==
    /\ Faults
    /\ pc[k] = "post"
    /\ pc' = [pc EXCEPT ![k] = "idle"]
    /\ remote' = [remote EXCEPT ![k] = "inflight"]
    /\ posts' = [posts EXCEPT ![k] = @ + 1]
    /\ UNCHANGED <<invoice, op, company, snap, events>>

(* Ten minutes, then a day, since the operation was created.  Timeouts of    *)
(* the calls to the provider are seconds: no request, no unanswered post and *)
(* no list of refunds that was read outlives them.                           *)
Age(k) ==
    /\ op[k].status \in Active
    /\ op[k].age < 2
    /\ remote[k] # "inflight"
    /\ pc[k] \in Resting
    /\ \A p \in Proc : snap[p].inv # InvoiceOf[k]
    /\ op' = [op EXCEPT ![k].age = @ + 1]
    /\ UNCHANGED <<invoice, company, remote, pc, snap, events, posts>>

(* A chargeback or a deletion cancels a paid invoice and suspends the        *)
(* company (AsaasWebhookProcessor.handlePaymentEvent).                       *)
Chargeback(i) ==
    /\ i \in Disputed
    /\ invoice[i].status = "PAID"
    /\ invoice' = [invoice EXCEPT ![i].status = "CANCELED"]
    /\ company' = IF company = "ACTIVE" THEN "SUSPENDED" ELSE company
    /\ UNCHANGED <<op, remote, pc, snap, events, posts>>

(* The company pays another invoice, or support releases its access. *)
Reactivate ==
    /\ company = "SUSPENDED"
    /\ company' = "ACTIVE"
    /\ UNCHANGED <<invoice, op, remote, pc, snap, events, posts>>

Provide(k) == LatePost(k) \/ ProviderSettles(k)

Serve(k) ==
    \/ Post(k) \/ PersistAnswer(k) \/ MarkUnknown(k) \/ FailReservation(k)
    \/ ReadFails(k) \/ AfterEmit(k) \/ Answer(k)

Reconcile(p) ==
    \/ \E i \in Invoices : ReadRemote(p, i)
    \/ CommitReconcile(p)
    \/ \E e \in SettledEvents : EmitSettled(p, e)

Environment ==
    \/ \E k \in Keys : Provide(k) \/ Age(k) \/ CrashWhilePosting(k)
    \/ \E x \in PanelRefunds : PanelRefund(x)
    \/ \E p \in Proc : Crash(p)
    \/ \E i \in Invoices : Chargeback(i)
    \/ Reactivate

Next ==
    \/ \E k \in Keys : Request(k) \/ Serve(k) \/ TakeAnswer(k)
    \/ \E p \in Proc : Reconcile(p)
    \/ Environment

Spec == Init /\ [][Next]_vars

(* The server runs its handlers to their end, the routine keeps coming back  *)
(* to every invoice, the provider decides on what it has, time passes.       *)
Fairness ==
    /\ \A k \in Keys : /\ WF_vars(Serve(k) \/ TakeAnswer(k))
                       /\ WF_vars(Provide(k))
                       /\ SF_vars(Age(k))
    /\ \A p \in Proc : /\ WF_vars(CommitReconcile(p))
                       /\ WF_vars(\E e \in SettledEvents : EmitSettled(p, e))
    /\ \A p \in Reconcilers, i \in Invoices : SF_vars(ReadRemote(p, i))

FairSpec == Spec /\ Fairness

-----------------------------------------------------------------------------
(* Properties. *)

TypeOK ==
    /\ invoice \in [Invoices -> InvoiceRows]
    /\ op \in [Keys -> Operations]
    /\ company \in {"ACTIVE", "SUSPENDED"}
    /\ remote \in [RefundIds -> RemoteStatus]
    /\ pc \in [Keys -> Pcs]
    /\ snap \in [Proc -> Snapshots]
    /\ events \in [Proc -> SUBSET SettledEvents]
    /\ posts \in [Keys -> Nat]

(* What the invoice says about its refunds is backed by the amount it has on *)
(* record, which never exceeds what was paid, although every reconciliation  *)
(* computes it from a list it read before it took the row lock.              *)
RefundStatusHonest ==
    \A i \in Invoices :
        /\ invoice[i].refunded <= Amount[i]
        /\ invoice[i].refundStatus = "REFUNDED" => invoice[i].refunded = Amount[i]
        /\ invoice[i].refundStatus = "PARTIALLY_REFUNDED" =>
              invoice[i].refunded \in 1..(Amount[i] - 1)
        /\ invoice[i].refundStatus = "NONE" => invoice[i].refunded = 0

(* "nunca repete POST de resultado desconhecido": whatever is lost, retried, *)
(* reconciled or restarted, a key reaches the provider at most once.         *)
NeverPostedTwice == \A k \in Keys : posts[k] <= 1

(* The money of a key is out at the provider, or may still come out. *)
Committed(k) == remote[k] \in {"inflight", "pending", "done"} \/ pc[k] = "post"

(* An undecided refund blocks the next one of the invoice: at most one is    *)
(* on its way at the provider.                                               *)
Undecided(k) == remote[k] \in {"inflight", "pending"} \/ pc[k] = "post"
OneUndecidedRefund ==
    \A j, k \in Keys :
        Undecided(j) /\ Undecided(k) /\ InvoiceOf[j] = InvoiceOf[k] => j = k

(* An operation is closed only by what happened to its own money.            *)
ClosedByTheProvider ==
    \A k \in Keys :
        /\ op[k].status = "CONFIRMED" => remote[k] = "done"
        /\ op[k].status = "FAILED" => remote[k] \in {"none", "cancelled"} /\ pc[k] # "post"

(* The service, its crashes and its provider implement RefundLedger: a key's  *)
(* money is decided by the provider alone, except that a closed operation     *)
(* whose money never left gives its part back.                                *)
PartOf(k) ==
    IF op[k].status = "NONE" THEN "idle"
    ELSE IF remote[k] = "done" THEN "paid"
    ELSE IF remote[k] = "cancelled" \/ op[k].status = "FAILED" THEN "void"
    ELSE "held"

Ledger == INSTANCE RefundLedger WITH
    part  <- [k \in Keys |-> PartOf(k)],
    value <- [k \in Keys |-> op[k].amount]

(* Every step of the refund service is a step of the ledger or leaves it as   *)
(* it was: no balance is held twice, paid twice or paid after it was given    *)
(* back.                                                                      *)
ImplementsLedger == Ledger!Spec

(* A list of refunds read before a later reconciliation committed does not   *)
(* take the refunded amount back.                                            *)
RefundedNeverDecreases ==
    [][\A i \in Invoices : invoice'[i].refunded >= invoice[i].refunded]_vars

BecomesFullyRefunded(i) ==
    invoice[i].refundStatus # "REFUNDED" /\ invoice'[i].refundStatus = "REFUNDED"

(* "Estorno TOTAL confirmado (transicao unica): a empresa segue a regra de   *)
(* bloqueio": the step that completes the refund of the payment the company's *)
(* access rests on suspends it, wherever the last cent was confirmed.        *)
FullRefundSuspends ==
    [][\A i \in Invoices :
          /\ BecomesFullyRefunded(i) /\ invoice[i].status = "PAID"
          /\ company = "ACTIVE" /\ ~LaterPaid(i)
          => company' = "SUSPENDED"]_vars

(* "enquanto ha devolucao pendente, outra solicitacao e barrada": an invoice *)
(* has at most one active operation.                                         *)
OneActiveOperation == \A i \in Invoices : Cardinality(ActiveOps(i)) <= 1

(* An operation that the provider's list cannot decide: Mercado Pago's answer  *)
(* with the identifier was lost, or other refunds of the same value are there. *)
Undecidable(k) ==
    \/ Provider[InvoiceOf[k]] = "MERCADOPAGO"
    \/ \E x \in RefundIds \ {k} :
          /\ InvoiceOf[x] = InvoiceOf[k] /\ remote[x] \in Visible
          /\ Values[x] = op[k].amount

(* "libera um novo pedido, em vez de ficar aguardando para sempre": an         *)
(* operation whose description Asaas echoes reaches CONFIRMED or FAILED and    *)
(* frees the invoice, or, where the list "nao da para decidir sozinho", is     *)
(* handed to a person.                                                         *)
EveryRefundSettles ==
    \A k \in Keys : op[k].status \in Active ~>
        \/ op[k].status \in {"CONFIRMED", "FAILED"}
        \/ op[k].review /\ Undecidable(k)
=============================================================================
