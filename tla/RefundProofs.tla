----------------------------- MODULE RefundProofs -----------------------------
(***************************************************************************)
(* Theorems about PaymentRefund and SupportRefund, for every set of        *)
(* invoices, keys, panel refunds, reconcilers and approvers, with crashes, *)
(* lost answers, failing calls and a provider that checks nothing: types,  *)
(* what the status of an invoice stands on, that an operation is posted    *)
(* once and closed by its own money, that the service implements           *)
(* RefundLedger, and that tickets tell what became of the money.           *)
(***************************************************************************)
EXTENDS SupportRefund, SumTheorems

USE DEF Active, OpStatus, RefundStatus, RemoteStatus, Visible, Pcs

(* The larger of two naturals is one of them and not below either. *)
LEMMA LargerIsNat ==
    ASSUME NEW a \in Nat, NEW b \in Nat
    PROVE  Larger(a, b) \in Nat /\ Larger(a, b) >= a /\ Larger(a, b) >= b
                                /\ Larger(a, b) \in {a, b}
BY DEF Larger

(* The status of an invoice is one of the four the schema knows. *)
LEMMA StatusForType ==
    ASSUME NEW pending, NEW refunded, NEW amount
    PROVE  StatusFor(pending, refunded, amount) \in RefundStatus
BY DEF StatusFor

(* A reconciliation closes an operation or leaves its status as it is. *)
LEMMA OutcomeStatus ==
    ASSUME NEW k, NEW seen
    PROVE  Outcome(k, seen) \in {"CONFIRMED", "FAILED", op[k].status}
BY DEF Outcome

(* Updates of a row of either table keep its type. *)
LEMMA OperationUpdates ==
    ASSUME NEW r \in Operations, NEW s \in OpStatus, NEW a \in Nat, NEW n \in 0..2,
           NEW b \in BOOLEAN
    PROVE  /\ [r EXCEPT !.status = s] \in Operations
           /\ [r EXCEPT !.amount = a] \in Operations
           /\ [r EXCEPT !.age = n] \in Operations
           /\ [r EXCEPT !.ref = b] \in Operations
           /\ [r EXCEPT !.review = b] \in Operations
BY DEF Operations

(* The same for the rows of PlatformInvoice. *)
LEMMA InvoiceUpdates ==
    ASSUME NEW r \in InvoiceRows, NEW s \in RefundStatus, NEW n \in Nat
    PROVE  /\ [r EXCEPT !.status = "CANCELED"] \in InvoiceRows
           /\ [r EXCEPT !.refundStatus = s] \in InvoiceRows
           /\ [r EXCEPT !.refunded = n] \in InvoiceRows
BY DEF InvoiceRows

(* What a reconciliation writes to the operations keeps their type. *)
LEMMA AppliedType ==
    ASSUME TypeOK, NEW i \in Invoices, NEW seen
    PROVE  Applied(i, seen) \in [Keys -> Operations]
<1> SUFFICES ASSUME NEW k \in Keys
             PROVE  Applied(i, seen)[k] \in Operations
  BY DEF Applied
<1> DEFINE b == op[k].review \/ NeedsReview(k, seen)
           s == Outcome(k, seen)
<1>1. op[k] \in Operations
  BY DEF TypeOK
<1>2. s \in OpStatus
  BY <1>1, OutcomeStatus DEF Operations
<1>3. b \in BOOLEAN
  OBVIOUS
<1>4. [op[k] EXCEPT !.status = s, !.review = b] \in Operations
  <2> HIDE DEF b, s
  <2> QED
    BY <1>1, <1>2, <1>3 DEF Operations
<1> QED
  BY <1>1, <1>4 DEF Applied

(* The tables and processes start well-typed: paid invoices without refunds. *)
THEOREM TypeInit == Init => TypeOK
BY ConstantsAssumption
   DEF Init, TypeOK, Snapshots, NoSnap, SettledEvents, InvoiceRows, Operations

(* A request reserves: only the two rows it touches change. *)
LEMMA RequestType ==
    ASSUME TypeOK, NEW k \in Keys, Request(k)
    PROVE  TypeOK'
<1>1. CASE RepeatRequest(k)
  BY <1>1 DEF TypeOK, Request, RepeatRequest
<1>2. CASE Reserve(k)
  <2> DEFINE i == InvoiceOf[k]
  <2>1. i \in Invoices
    BY ConstantsAssumption DEF RefundIds
  <2>2. PICK amount \in 1..Amount[i] :
          /\ op' = [op EXCEPT ![k].status = "PROCESSING", ![k].amount = amount]
          /\ invoice' = [invoice EXCEPT ![i].refundStatus = "PROCESSING"]
          /\ pc' = [pc EXCEPT ![k] = "post"]
    BY <1>2 DEF Reserve
  <2>3. amount \in Nat
    BY <2>1, ConstantsAssumption
  <2>4. op' \in [Keys -> Operations]
    <3> DEFINE r == [op[k] EXCEPT !.status = "PROCESSING", !.amount = amount]
    <3>1. op[k] \in Operations
      BY DEF TypeOK
    <3>2. r \in Operations
      BY <2>3, <3>1 DEF Operations, OpStatus, Active
    <3>3. op' = [op EXCEPT ![k] = r]
      BY <2>2 DEF TypeOK
    <3> HIDE DEF r
    <3> QED
      BY <3>2, <3>3 DEF TypeOK
  <2>5. invoice' \in [Invoices -> InvoiceRows]
    BY <2>1, <2>2 DEF TypeOK, InvoiceRows
  <2> QED
    BY <2>2, <2>4, <2>5 DEF TypeOK, Request
<1> QED
  BY <1>1, <1>2 DEF Request

(* The answer of the provider changes the operation of the key only. *)
LEMMA AnswerType ==
    ASSUME TypeOK, NEW k \in Keys, PersistAnswer(k) \/ MarkUnknown(k) \/ Age(k)
    PROVE  TypeOK'
<1> DEFINE r == op[k]
           b == Provider[InvoiceOf[k]] = "MERCADOPAGO"
<1>1. r \in Operations /\ b \in BOOLEAN
  BY DEF TypeOK
<1>2. op' \in [Keys -> Operations]
  <2>1. CASE PersistAnswer(k)
    <3>1. op' = op \/ op' = [op EXCEPT ![k] = [r EXCEPT !.status = "PENDING", !.ref = b]]
      BY <2>1 DEF PersistAnswer
    <3>2. [r EXCEPT !.status = "PENDING", !.ref = b] \in Operations
      <4> HIDE DEF b, r
      <4> QED
        BY <1>1 DEF Operations
    <3> QED
      BY <3>1, <3>2 DEF TypeOK
  <2>2. CASE MarkUnknown(k)
    <3> DEFINE s == IF r.status \in Active THEN "UNKNOWN" ELSE r.status
    <3>1. op' = op \/ op' = [op EXCEPT ![k] = [r EXCEPT !.status = s]]
      BY <2>2 DEF MarkUnknown
    <3>2. s \in OpStatus
      BY <1>1 DEF Operations
    <3>3. [r EXCEPT !.status = s] \in Operations
      BY <1>1, <3>2 DEF Operations
    <3> QED
      BY <3>1, <3>3 DEF TypeOK
  <2>3. CASE Age(k)
    <3>1. op' = [op EXCEPT ![k] = [r EXCEPT !.age = r.age + 1]] /\ r.age < 2
      BY <2>3 DEF Age
    <3>2. r.age + 1 \in 0..2
      BY <1>1, <3>1 DEF Operations
    <3>3. [r EXCEPT !.age = r.age + 1] \in Operations
      BY <1>1, <3>2 DEF Operations
    <3> QED
      BY <3>1, <3>3 DEF TypeOK
  <2> QED
    BY <2>1, <2>2, <2>3
<1> QED
  BY <1>2 DEF TypeOK, PersistAnswer, MarkUnknown, Age

(* A refusal closes the operation and recomputes the invoice. *)
LEMMA FailReservationType ==
    ASSUME TypeOK, NEW k \in Keys, FailReservation(k)
    PROVE  TypeOK'
<1> DEFINE i == InvoiceOf[k]
           s == StatusFor(ActiveOps(i) \ {k} # {}, invoice[i].refunded, Amount[i])
           e == [key |-> k, status |-> "FAILED"]
<1>1. i \in Invoices /\ s \in RefundStatus
  BY ConstantsAssumption, StatusForType DEF RefundIds
<1>2. op' \in [Keys -> Operations]
  <2>1. op' = op \/ op' = [op EXCEPT ![k] = [op[k] EXCEPT !.status = "FAILED"]]
    BY DEF FailReservation
  <2>2. [op[k] EXCEPT !.status = "FAILED"] \in Operations
    BY DEF TypeOK, Operations
  <2> QED
    BY <2>1, <2>2 DEF TypeOK
<1>3. invoice' \in [Invoices -> InvoiceRows]
  <2>1. invoice' = invoice \/ invoice' = [invoice EXCEPT ![i].refundStatus = s]
    BY DEF FailReservation
  <2> HIDE DEF s, i
  <2> QED
    BY <1>1, <2>1 DEF TypeOK, InvoiceRows
<1>4. events' \in [Proc -> SUBSET SettledEvents]
  <2>1. events' = events \/ events' = [events EXCEPT ![k] = {e}]
    BY DEF FailReservation
  <2>2. {e} \in SUBSET SettledEvents
    BY DEF SettledEvents
  <2> QED
    BY <2>1, <2>2 DEF TypeOK
<1> QED
  BY <1>2, <1>3, <1>4 DEF TypeOK, FailReservation

(* The provider receives at most one post in a step. *)
LEMMA PostType ==
    ASSUME TypeOK, NEW k \in Keys, Post(k) \/ CrashWhilePosting(k)
    PROVE  TypeOK'
<1>1. k \in RefundIds
  BY DEF RefundIds
<1>2. remote' \in [RefundIds -> RemoteStatus]
  BY <1>1 DEF TypeOK, Post, Accepted, Refused, AnswerLost, CrashWhilePosting
<1>3. pc' \in [Keys -> Pcs]
  BY DEF TypeOK, Post, Accepted, Refused, AnswerLost, CrashWhilePosting
<1>4. posts' \in [Keys -> Nat]
  BY DEF TypeOK, Post, CrashWhilePosting
<1> QED
  BY <1>2, <1>3, <1>4 DEF TypeOK, Post, CrashWhilePosting

(* A reconciliation writes what it read under the row lock. *)
LEMMA CommitType ==
    ASSUME TypeOK, NEW p \in Proc, CommitReconcile(p)
    PROVE  TypeOK'
<1> DEFINE i == snap[p].inv
           seen == snap[p].seen
           total == snap[p].total
<1>1. i \in Invoices /\ total \in Nat
  BY DEF TypeOK, CommitReconcile, Snapshots
<1>2. snap' \in [Proc -> Snapshots] /\ pc' \in [Keys -> Pcs]
  BY DEF TypeOK, CommitReconcile, Snapshots
<1>3. CASE ApplySnapshot(p, i, seen, total)
  <2> DEFINE settled == {k \in ActiveOps(i) : Outcome(k, seen) \in {"CONFIRMED", "FAILED"}}
             refunded == Larger(total, invoice[i].refunded)
             status == StatusFor(ActiveOps(i) # settled, refunded, Amount[i])
  <2>1. op' \in [Keys -> Operations]
    BY <1>1, <1>3, AppliedType DEF ApplySnapshot
  <2>2. invoice[i].refunded \in Nat
    BY <1>1 DEF TypeOK, InvoiceRows
  <2>3. refunded \in Nat /\ status \in RefundStatus
    BY <1>1, <2>2, LargerIsNat, StatusForType
  <2>4. invoice' \in [Invoices -> InvoiceRows]
    <3>1. invoice' = [invoice EXCEPT ![i].refunded = refunded, ![i].refundStatus = status]
      BY <1>3 DEF ApplySnapshot
    <3> HIDE DEF refunded, status, i
    <3> DEFINE r == [invoice[i] EXCEPT !.refunded = refunded, !.refundStatus = status]
    <3>2. r \in InvoiceRows
      <4>1. invoice[i] \in InvoiceRows
        BY <1>1 DEF TypeOK
      <4> QED
        BY <2>3, <4>1 DEF InvoiceRows
    <3>3. invoice' = [invoice EXCEPT ![i] = r]
      BY <1>1, <3>1 DEF TypeOK
    <3> HIDE DEF r
    <3> QED
      BY <3>2, <3>3 DEF TypeOK
  <2>5. events' \in [Proc -> SUBSET SettledEvents]
    BY <1>3 DEF ApplySnapshot, TypeOK, ActiveOps, SettledEvents
  <2>6. company' \in {"ACTIVE", "SUSPENDED"}
    BY <1>1, <1>3 DEF ApplySnapshot, TypeOK
  <2> QED
    BY <1>2, <2>1, <2>4, <2>5, <2>6 DEF TypeOK, CommitReconcile
<1>4. CASE UNCHANGED <<op, invoice, events, company>>
  BY <1>2, <1>4 DEF TypeOK, CommitReconcile
<1> QED
  BY <1>3, <1>4 DEF CommitReconcile

(* What the processes and the provider do without touching a table. *)
LEMMA OutsideType ==
    ASSUME TypeOK
    PROVE  /\ \A k \in Keys : LatePost(k) \/ ProviderSettles(k) \/ ReadFails(k)
                              \/ AfterEmit(k) \/ Answer(k) \/ TakeAnswer(k) => TypeOK'
           /\ \A x \in PanelRefunds : PanelRefund(x) => TypeOK'
           /\ \A p \in Proc : Crash(p) \/ (\E e \in SettledEvents : EmitSettled(p, e)) => TypeOK'
           /\ \A p \in Proc, i \in Invoices : ReadRemote(p, i) => TypeOK'
           /\ Reactivate => TypeOK'
<1>1. ASSUME NEW k \in Keys, LatePost(k) \/ ProviderSettles(k)
      PROVE  TypeOK'
  BY <1>1 DEF TypeOK, LatePost, ProviderSettles, RefundIds
<1>2. ASSUME NEW k \in Keys, ReadFails(k) \/ AfterEmit(k) \/ Answer(k) \/ TakeAnswer(k)
      PROVE  TypeOK'
  BY <1>2 DEF TypeOK, ReadFails, AfterEmit, Answer, TakeAnswer
<1>3. ASSUME NEW x \in PanelRefunds, PanelRefund(x)
      PROVE  TypeOK'
  BY <1>3 DEF TypeOK, PanelRefund, RefundIds
<1>4. ASSUME NEW p \in Proc, Crash(p)
      PROVE  TypeOK'
  BY <1>4 DEF TypeOK, Crash, Snapshots
<1>5. ASSUME NEW p \in Proc, NEW e \in SettledEvents, EmitSettled(p, e)
      PROVE  TypeOK'
  BY <1>5 DEF TypeOK, EmitSettled
<1>6. ASSUME NEW p \in Proc, NEW i \in Invoices, ReadRemote(p, i)
      PROVE  TypeOK'
  <2>1. DoneTotal(SeenNow(i)) \in Nat
    BY <1>6, ConstantsAssumption DEF ReadRemote, WithinInvoice
  <2>2. SeenNow(i) \in [RefundIds -> {"none"} \cup Visible]
    BY DEF SeenNow
  <2>3. snap' \in [Proc -> Snapshots]
    BY <1>6, <2>1, <2>2 DEF TypeOK, ReadRemote, Snapshots
  <2> QED
    BY <1>6, <2>3 DEF TypeOK, ReadRemote
<1>7. ASSUME Reactivate
      PROVE  TypeOK'
  BY <1>7 DEF TypeOK, Reactivate
<1> QED
  BY <1>1, <1>2, <1>3, <1>4, <1>5, <1>6, <1>7

(* A dispute changes the status of one invoice, and the company. *)
LEMMA ChargebackType ==
    ASSUME TypeOK, NEW i \in Invoices, Chargeback(i)
    PROVE  TypeOK'
<1>1. invoice' \in [Invoices -> InvoiceRows]
  BY DEF TypeOK, Chargeback, InvoiceRows
<1> QED
  BY <1>1 DEF TypeOK, Chargeback

(* Every step of the service, its provider and its crashes keeps the types. *)
THEOREM TypeStep == TypeOK /\ [Next]_vars => TypeOK'
<1> SUFFICES ASSUME TypeOK, [Next]_vars
             PROVE  TypeOK'
  OBVIOUS
<1>1. ASSUME NEW k \in Keys, Request(k) \/ Serve(k) \/ TakeAnswer(k)
      PROVE  TypeOK'
  BY <1>1, RequestType, AnswerType, FailReservationType, PostType, OutsideType DEF Serve
<1>2. ASSUME NEW p \in Proc, Reconcile(p)
      PROVE  TypeOK'
  BY <1>2, CommitType, OutsideType DEF Reconcile
<1>3. CASE Environment
  BY <1>3, AnswerType, PostType, OutsideType, ChargebackType DEF Environment, Provide
<1>4. CASE UNCHANGED vars
  BY <1>4 DEF TypeOK, vars
<1> QED
  BY <1>1, <1>2, <1>3, <1>4 DEF Next

(* Every reachable state of the refund service, whatever crashes, is lost or *)
(* comes late, holds rows and processes of the types the schema declares.    *)
THEOREM TypeCorrect == Spec => []TypeOK
BY TypeInit, TypeStep, PTL DEF Spec

-----------------------------------------------------------------------------
(* What an invoice says of its refunds. *)

(* RefundStatusHonest is not inductive: a total waits in memory between the  *)
(* read of the provider and the transaction that applies it.                 *)
SnapshotsWithin ==
    \A p \in Proc : snap[p] # NoSnap => snap[p].total <= Amount[snap[p].inv]

RowHonest(r, a) ==
    /\ r.refunded <= a
    /\ r.refundStatus = "REFUNDED" => r.refunded = a
    /\ r.refundStatus = "PARTIALLY_REFUNDED" => r.refunded \in 1..(a - 1)
    /\ r.refundStatus = "NONE" => r.refunded = 0

HonestInv == TypeOK /\ SnapshotsWithin /\ \A i \in Invoices : RowHonest(invoice[i], Amount[i])

(* The status computed from the recorded amount tells the truth about it. *)
LEMMA StatusForHonest ==
    ASSUME NEW r \in InvoiceRows, NEW a \in Nat \ {0}, NEW pending \in BOOLEAN, NEW n \in 0..a
    PROVE  /\ RowHonest([r EXCEPT !.refunded = n,
                                  !.refundStatus = StatusFor(pending, n, a)], a)
           /\ r.refunded = n =>
                 RowHonest([r EXCEPT !.refundStatus = StatusFor(pending, n, a)], a)
BY DEF StatusFor, RowHonest, InvoiceRows

(* A list in memory is what its process has just read, or what it had. *)
LEMMA WhoReads ==
    ASSUME TypeOK, [Next]_vars, NEW p \in Proc, snap'[p] # NoSnap, snap'[p] # snap[p]
    PROVE  \E i \in Invoices : ReadRemote(p, i)
<1>1. ASSUME NEW k \in Keys, Request(k) \/ Serve(k) \/ TakeAnswer(k)
      PROVE  snap' = snap
  BY <1>1 DEF Request, Serve, TakeAnswer, Post, PersistAnswer, MarkUnknown,
              FailReservation, ReadFails, AfterEmit, Answer
<1>2. ASSUME NEW q \in Proc, CommitReconcile(q) \/ Crash(q)
      PROVE  snap' = [snap EXCEPT ![q] = NoSnap]
  BY <1>2 DEF CommitReconcile, Crash
<1>3. ASSUME NEW q \in Proc, NEW i \in Invoices, ReadRemote(q, i)
      PROVE  p = q
  BY <1>3 DEF ReadRemote, TypeOK
<1>4. ASSUME NEW k \in Keys, Provide(k) \/ Age(k) \/ CrashWhilePosting(k)
      PROVE  snap' = snap
  BY <1>4 DEF Provide, LatePost, ProviderSettles, Age, CrashWhilePosting
<1>5. ASSUME NEW q \in Proc, NEW e \in SettledEvents, EmitSettled(q, e)
      PROVE  snap' = snap
  BY <1>5 DEF EmitSettled
<1>6. CASE (\E x \in PanelRefunds : PanelRefund(x)) \/ (\E i \in Invoices : Chargeback(i))
           \/ Reactivate \/ UNCHANGED vars
  BY <1>6 DEF PanelRefund, Chargeback, Reactivate, vars
<1> QED
  BY <1>1, <1>2, <1>3, <1>4, <1>5, <1>6 DEF Next, Reconcile, Environment, TypeOK

(* A total that was read within the invoice is applied within the invoice. *)
LEMMA SnapshotsWithinStep ==
    ASSUME TypeOK, SnapshotsWithin, [Next]_vars
    PROVE  SnapshotsWithin'
<1> SUFFICES ASSUME NEW p \in Proc, snap'[p] # NoSnap, snap'[p] # snap[p]
             PROVE  snap'[p].total <= Amount[snap'[p].inv]
  BY DEF SnapshotsWithin
<1>1. PICK i \in Invoices : ReadRemote(p, i)
  BY WhoReads
<1>2. snap'[p].inv = i /\ snap'[p].total \in 0..Amount[i]
  BY <1>1 DEF ReadRemote, WithinInvoice, TypeOK
<1> QED
  BY <1>2, ConstantsAssumption

(* The steps that write an invoice keep it honest. *)
LEMMA HonestWrites ==
    ASSUME HonestInv, NEW j \in Invoices
    PROVE  /\ \A k \in Keys : Request(k) \/ FailReservation(k) => RowHonest(invoice'[j], Amount[j])
           /\ \A p \in Proc : CommitReconcile(p) => RowHonest(invoice'[j], Amount[j])
           /\ \A i \in Invoices : Chargeback(i) => RowHonest(invoice'[j], Amount[j])
<1>1. /\ invoice[j] \in InvoiceRows /\ RowHonest(invoice[j], Amount[j])
      /\ Amount[j] \in Nat \ {0} /\ invoice[j].refunded \in 0..Amount[j]
  BY ConstantsAssumption DEF HonestInv, TypeOK, InvoiceRows, RowHonest
<1>2. ASSUME NEW k \in Keys, Request(k)
      PROVE  RowHonest(invoice'[j], Amount[j])
  <2>1. invoice'[j] \in {invoice[j], [invoice[j] EXCEPT !.refundStatus = "PROCESSING"]}
    BY <1>2 DEF Request, RepeatRequest, Reserve, HonestInv, TypeOK
  <2> QED
    BY <1>1, <2>1 DEF RowHonest, InvoiceRows
<1>3. ASSUME NEW k \in Keys, FailReservation(k)
      PROVE  RowHonest(invoice'[j], Amount[j])
  <2> DEFINE pending == ActiveOps(InvoiceOf[k]) \ {k} # {}
  <2>1. invoice'[j] \in {invoice[j],
           [invoice[j] EXCEPT !.refundStatus = StatusFor(pending, invoice[j].refunded, Amount[j])]}
    BY <1>3 DEF FailReservation, HonestInv, TypeOK
  <2>2. pending \in BOOLEAN
    OBVIOUS
  <2> HIDE DEF pending
  <2>3. RowHonest([invoice[j] EXCEPT
                     !.refundStatus = StatusFor(pending, invoice[j].refunded, Amount[j])], Amount[j])
    BY <1>1, <2>2, StatusForHonest
  <2> QED
    BY <1>1, <2>1, <2>3
<1>4. ASSUME NEW p \in Proc, CommitReconcile(p)
      PROVE  RowHonest(invoice'[j], Amount[j])
  <2> DEFINE i == snap[p].inv
             seen == snap[p].seen
             refunded == Larger(snap[p].total, invoice[i].refunded)
             pending == ActiveOps(i) #
                          {k \in ActiveOps(i) : Outcome(k, seen) \in {"CONFIRMED", "FAILED"}}
  <2>1. /\ i \in Invoices /\ snap[p].total \in Nat /\ snap[p].total <= Amount[i]
    BY <1>4 DEF HonestInv, TypeOK, CommitReconcile, Snapshots, SnapshotsWithin
  <2>2. invoice'[j] = invoice[j] \/
          /\ j = i
          /\ invoice'[j] = [invoice[j] EXCEPT !.refunded = refunded,
                               !.refundStatus = StatusFor(pending, refunded, Amount[j])]
    BY <1>4, <2>1 DEF CommitReconcile, ApplySnapshot, HonestInv, TypeOK
  <2>3. invoice[i].refunded \in Nat /\ invoice[i].refunded <= Amount[i] /\ Amount[i] \in Nat
    <3>1. invoice[i] \in InvoiceRows /\ RowHonest(invoice[i], Amount[i])
      BY <2>1 DEF HonestInv, TypeOK
    <3>2. Amount[i] \in Nat
      BY <2>1, ConstantsAssumption
    <3> HIDE DEF i
    <3> QED
      BY <3>1, <3>2 DEF RowHonest, InvoiceRows
  <2>4. refunded \in 0..Amount[i]
    <3> HIDE DEF i
    <3> QED
      BY <2>1, <2>3 DEF Larger
  <2>5. pending \in BOOLEAN
    OBVIOUS
  <2> HIDE DEF pending, refunded
  <2>6. j = i => RowHonest([invoice[j] EXCEPT !.refunded = refunded,
                              !.refundStatus = StatusFor(pending, refunded, Amount[j])], Amount[j])
    BY <1>1, <2>4, <2>5, StatusForHonest
  <2> QED
    BY <1>1, <2>2, <2>6
<1>5. ASSUME NEW i \in Invoices, Chargeback(i)
      PROVE  RowHonest(invoice'[j], Amount[j])
  <2>1. invoice'[j] \in {invoice[j], [invoice[j] EXCEPT !.status = "CANCELED"]}
    BY <1>5 DEF Chargeback, HonestInv, TypeOK
  <2> QED
    BY <1>1, <2>1 DEF RowHonest, InvoiceRows
<1> QED
  BY <1>2, <1>3, <1>4, <1>5

(* Only those steps write an invoice. *)
LEMMA WhoWritesInvoices ==
    ASSUME [Next]_vars, invoice' # invoice
    PROVE  \/ \E k \in Keys : Request(k) \/ FailReservation(k)
           \/ \E p \in Proc : CommitReconcile(p)
           \/ \E i \in Invoices : Chargeback(i)
<1>1. ASSUME NEW k \in Keys, Serve(k) \/ TakeAnswer(k)
      PROVE  FailReservation(k)
  BY <1>1 DEF Serve, TakeAnswer, Post, PersistAnswer, MarkUnknown, ReadFails, AfterEmit, Answer
<1>2. ASSUME NEW p \in Proc, Reconcile(p)
      PROVE  CommitReconcile(p)
  BY <1>2 DEF Reconcile, ReadRemote, EmitSettled
<1>3. CASE Environment
  BY <1>3 DEF Environment, Provide, LatePost, ProviderSettles, Age, CrashWhilePosting,
              PanelRefund, Crash, Reactivate
<1> QED
  BY <1>1, <1>2, <1>3 DEF Next, vars

(* No invoice starts with a refund and no list of refunds has been read. *)
LEMMA HonestInit == Init => HonestInv
BY TypeInit, ConstantsAssumption DEF Init, HonestInv, SnapshotsWithin, RowHonest

(* A step keeps every total in memory and every row within the invoice. *)
LEMMA HonestStep == HonestInv /\ [Next]_vars => HonestInv'
<1> SUFFICES ASSUME HonestInv, [Next]_vars
             PROVE  HonestInv'
  OBVIOUS
<1>1. TypeOK' /\ SnapshotsWithin'
  BY TypeStep, SnapshotsWithinStep DEF HonestInv
<1>2. ASSUME NEW j \in Invoices
      PROVE  RowHonest(invoice'[j], Amount[j])
  <2>1. CASE invoice' = invoice
    BY <2>1 DEF HonestInv
  <2>2. CASE invoice' # invoice
    BY <2>2, HonestWrites, WhoWritesInvoices
  <2> QED
    BY <2>1, <2>2
<1> QED
  BY <1>1, <1>2 DEF HonestInv

(* Whatever is read late, applied late, lost or repeated, the refund status  *)
(* of an invoice is backed by the amount on record, within what was paid.    *)
THEOREM RefundStatusIsHonest == Spec => []RefundStatusHonest
<1>1. HonestInv => RefundStatusHonest
  BY DEF HonestInv, RowHonest, RefundStatusHonest
<1> QED
  BY <1>1, HonestInit, HonestStep, PTL DEF Spec

(* The refunded amount of an invoice is only moved by a reconciliation of it, *)
(* to the total it read or to the larger one on record.                      *)
LEMMA RefundedMoves ==
    ASSUME TypeOK, [Next]_vars, NEW j \in Invoices
    PROVE  \/ invoice'[j].refunded = invoice[j].refunded
           \/ \E p \in Proc : /\ snap[p] # NoSnap /\ snap[p].inv = j /\ snap[p].total \in Nat
                               /\ invoice'[j].refunded = Larger(snap[p].total, invoice[j].refunded)
<1>1. invoice[j] \in InvoiceRows /\ invoice[j].refunded \in Nat
  BY DEF TypeOK, InvoiceRows
<1>2. CASE invoice' = invoice
  BY <1>2
<1>3. ASSUME NEW k \in Keys, Request(k) \/ FailReservation(k)
      PROVE  invoice'[j].refunded = invoice[j].refunded
  BY <1>1, <1>3 DEF Request, RepeatRequest, Reserve, FailReservation, TypeOK, InvoiceRows
<1>4. ASSUME NEW p \in Proc, CommitReconcile(p)
      PROVE  \/ invoice'[j].refunded = invoice[j].refunded
             \/ /\ snap[p].inv = j
                /\ invoice'[j].refunded = Larger(snap[p].total, invoice[j].refunded)
  <2> DEFINE i == snap[p].inv
             refunded == Larger(snap[p].total, invoice[i].refunded)
             settled == {k \in ActiveOps(i) : Outcome(k, snap[p].seen) \in {"CONFIRMED", "FAILED"}}
             status == StatusFor(ActiveOps(i) # settled, refunded, Amount[i])
  <2>1. \/ invoice' = invoice
        \/ invoice' = [invoice EXCEPT ![i].refunded = refunded, ![i].refundStatus = status]
    BY <1>4 DEF CommitReconcile, ApplySnapshot
  <2> HIDE DEF status, refunded, i
  <2>2. CASE i = j
    <3>1. invoice' = invoice \/ invoice'[j].refunded = refunded
      BY <1>1, <2>1, <2>2 DEF TypeOK, InvoiceRows
    <3> QED
      BY <2>2, <3>1 DEF refunded, i
  <2>3. CASE i # j
    BY <1>1, <2>1, <2>3 DEF TypeOK
  <2> QED
    BY <2>2, <2>3
<1>5. ASSUME NEW p \in Proc, CommitReconcile(p)
      PROVE  snap[p] # NoSnap /\ snap[p].total \in Nat
  BY <1>5 DEF TypeOK, CommitReconcile, Snapshots
<1>6. ASSUME NEW i \in Invoices, Chargeback(i)
      PROVE  invoice'[j].refunded = invoice[j].refunded
  BY <1>1, <1>6 DEF Chargeback, TypeOK, InvoiceRows
<1> QED
  BY <1>2, <1>3, <1>4, <1>5, <1>6, WhoWritesInvoices

(* A total read before a later reconciliation committed is only applied if   *)
(* it is larger than what is on record.                                      *)
THEOREM RefundedIsMonotone == Spec => RefundedNeverDecreases
<1>1. TypeOK /\ [Next]_vars =>
        [\A i \in Invoices : invoice'[i].refunded >= invoice[i].refunded]_vars
  <2> SUFFICES ASSUME TypeOK, [Next]_vars, NEW j \in Invoices
               PROVE  invoice'[j].refunded >= invoice[j].refunded
    OBVIOUS
  <2>1. invoice[j].refunded \in Nat
    BY DEF TypeOK, InvoiceRows
  <2> QED
    BY <2>1, RefundedMoves, LargerIsNat
<1> QED
  BY <1>1, TypeCorrect, PTL DEF Spec, RefundedNeverDecreases

-----------------------------------------------------------------------------
(* The post to the provider. *)

(* An operation that exists is never requested anew, a request that is about *)
(* to post has not posted, and one that holds a list is about to commit it.  *)
PostsInv ==
    /\ TypeOK
    /\ \A k \in Keys :
          /\ posts[k] <= 1
          /\ pc[k] = "post" => posts[k] = 0
          /\ op[k].status = "NONE" => posts[k] = 0 /\ pc[k] = "idle"
          /\ snap[k] # NoSnap => pc[k] = "commit"

(* No key has been posted before the first request. *)
LEMMA PostsInit == Init => PostsInv
BY TypeInit DEF Init, PostsInv, Proc

(* No step makes an operation disappear. *)
LEMMA OperationsStay ==
    ASSUME TypeOK, [Next]_vars, NEW k \in Keys, op[k].status # "NONE"
    PROVE  op'[k].status # "NONE"
<1>1. op[k] \in Operations
  BY DEF TypeOK
<1>2. ASSUME NEW j \in Keys, Request(j) \/ Serve(j) \/ TakeAnswer(j)
      PROVE  op'[k].status # "NONE"
  <2>1. CASE Request(j)
    BY <1>1, <2>1 DEF Request, RepeatRequest, Reserve, TypeOK, Operations
  <2>2. CASE PersistAnswer(j) \/ FailReservation(j)
    <3>1. CASE PersistAnswer(j)
      BY <1>1, <3>1 DEF PersistAnswer, TypeOK, Operations
    <3>2. CASE FailReservation(j)
      <4>1. op' = op \/ op' = [op EXCEPT ![j].status = "FAILED"]
        BY <3>2 DEF FailReservation
      <4> QED
        BY <1>1, <4>1 DEF TypeOK, Operations
    <3> QED
      BY <2>2, <3>1, <3>2
  <2>3. CASE MarkUnknown(j)
    BY <1>1, <2>3 DEF MarkUnknown, TypeOK, Operations
  <2>4. CASE op' = op
    BY <2>4
  <2> QED
    BY <1>2, <2>1, <2>2, <2>3, <2>4
       DEF Serve, TakeAnswer, Post, ReadFails, AfterEmit, Answer
<1>3. ASSUME NEW p \in Proc, CommitReconcile(p)
      PROVE  op'[k].status # "NONE"
  <2>1. op' = op \/ op' = Applied(snap[p].inv, snap[p].seen)
    BY <1>3 DEF CommitReconcile, ApplySnapshot
  <2> DEFINE s == Outcome(k, snap[p].seen)
             b == op[k].review \/ NeedsReview(k, snap[p].seen)
  <2>2. s # "NONE"
    BY OutcomeStatus
  <2>3. Applied(snap[p].inv, snap[p].seen)[k] \in
           {op[k], [op[k] EXCEPT !.status = s, !.review = b]}
    BY DEF Applied
  <2> HIDE DEF s, b
  <2>4. [op[k] EXCEPT !.status = s, !.review = b].status = s
    BY <1>1 DEF Operations
  <2> QED
    BY <2>1, <2>2, <2>3, <2>4
<1>4. ASSUME NEW j \in Keys, Age(j)
      PROVE  op'[k].status # "NONE"
  BY <1>1, <1>4 DEF Age, TypeOK, Operations
<1>5. CASE op' = op
  BY <1>5
<1> QED
  BY <1>2, <1>3, <1>4, <1>5
     DEF Next, Reconcile, ReadRemote, EmitSettled, Environment, Provide, LatePost,
         ProviderSettles, CrashWhilePosting, PanelRefund, Crash, Chargeback, Reactivate, vars

(* What each step may do to the control of one request. *)
LEMMA PostsStep == PostsInv /\ [Next]_vars => PostsInv'
<1> SUFFICES ASSUME PostsInv, [Next]_vars, NEW k \in Keys
             PROVE  /\ posts'[k] <= 1
                    /\ pc'[k] = "post" => posts'[k] = 0
                    /\ op'[k].status = "NONE" => posts'[k] = 0 /\ pc'[k] = "idle"
                    /\ snap'[k] # NoSnap => pc'[k] = "commit"
  BY TypeStep DEF PostsInv
<1>1. /\ posts[k] \in Nat /\ posts[k] <= 1
      /\ pc[k] = "post" => posts[k] = 0
      /\ op[k].status = "NONE" => posts[k] = 0 /\ pc[k] = "idle"
      /\ op[k].status # "NONE" => op'[k].status # "NONE"
      /\ snap[k] # NoSnap => pc[k] = "commit"
  BY OperationsStay DEF PostsInv, TypeOK
<1>2. CASE pc'[k] = pc[k] /\ posts'[k] = posts[k] /\ snap'[k] = snap[k]
  BY <1>1, <1>2
<1>3. ASSUME NEW j \in Keys, Request(j)
      PROVE  /\ posts'[k] = posts[k] /\ snap' = snap
             /\ \/ pc'[k] = pc[k]
                \/ /\ pc[k] = "idle" /\ op'[k].status # "NONE"
                   /\ pc'[k] = "returned" \/ (pc'[k] = "post" /\ op[k].status = "NONE")
  <2>1. CASE RepeatRequest(j)
    <3>1. /\ posts' = posts /\ snap' = snap /\ op' = op
          /\ pc' = [pc EXCEPT ![j] = "returned"] /\ pc[j] = "idle" /\ op[j].status # "NONE"
      BY <1>3, <2>1 DEF Request, RepeatRequest
    <3> QED
      BY <1>1, <3>1 DEF PostsInv, TypeOK
  <2>2. CASE Reserve(j)
    <3>1. /\ posts' = posts /\ snap' = snap /\ op[j].status = "NONE"
          /\ pc' = [pc EXCEPT ![j] = "post"] /\ pc[j] = "idle"
      BY <1>3, <2>2 DEF Request, Reserve, MayReserve
    <3>2. j = k => op'[k].status # "NONE"
      BY <2>2 DEF Reserve, PostsInv, TypeOK, Operations
    <3> QED
      BY <3>1, <3>2 DEF PostsInv, TypeOK
  <2> QED
    BY <1>3, <2>1, <2>2 DEF Request
<1>4. ASSUME NEW j \in Keys, Post(j) \/ CrashWhilePosting(j)
      PROVE  /\ snap' = snap
             /\ \/ pc'[k] = pc[k] /\ posts'[k] = posts[k]
                \/ pc[k] = "post" /\ pc'[k] # "post" /\ posts'[k] = posts[k] + 1
  BY <1>4 DEF Post, Accepted, Refused, AnswerLost, CrashWhilePosting, PostsInv, TypeOK
<1>5. ASSUME NEW j \in Keys, PersistAnswer(j) \/ MarkUnknown(j) \/ FailReservation(j)
                             \/ ReadFails(j) \/ AfterEmit(j) \/ Answer(j) \/ TakeAnswer(j)
      PROVE  /\ posts'[k] = posts[k] /\ snap' = snap
             /\ pc'[k] = pc[k] \/ (pc[k] \notin {"idle", "commit"} /\ pc'[k] # "post")
  BY <1>5 DEF PersistAnswer, MarkUnknown, FailReservation, ReadFails, AfterEmit, Answer,
              TakeAnswer, PostsInv, TypeOK
<1>6. ASSUME NEW p \in Proc, Reconcile(p) \/ Crash(p)
      PROVE  /\ posts'[k] = posts[k]
             /\ \/ pc'[k] = pc[k] /\ snap'[k] = snap[k]
                \/ pc[k] # "idle" /\ pc'[k] # "post" /\ snap'[k] = NoSnap
                \/ pc[k] # "idle" /\ pc'[k] = "commit"
  <2>0. k \in Proc /\ (pc[k] = "idle" => snap[k] = NoSnap)
    BY <1>1 DEF Proc
  <2>1. CASE Crash(p)
    BY <2>0, <2>1 DEF Crash, PostsInv, TypeOK, Resting
  <2>2. ASSUME NEW i \in Invoices, ReadRemote(p, i)
        PROVE  /\ posts'[k] = posts[k]
               /\ \/ pc'[k] = pc[k] /\ snap'[k] = snap[k]
                  \/ pc[k] # "idle" /\ pc'[k] = "commit"
    BY <2>0, <2>2 DEF ReadRemote, MayReconcile, PostsInv, TypeOK
  <2>3. CASE CommitReconcile(p)
    BY <2>0, <2>3 DEF CommitReconcile, PostsInv, TypeOK
  <2>4. ASSUME NEW e \in SettledEvents, EmitSettled(p, e)
        PROVE  posts'[k] = posts[k] /\ pc'[k] = pc[k] /\ snap' = snap
    BY <2>4 DEF EmitSettled
  <2> QED
    BY <1>6, <2>1, <2>2, <2>3, <2>4 DEF Reconcile
<1>7. ASSUME NEW j \in Keys, Provide(j) \/ Age(j)
      PROVE  posts'[k] = posts[k] /\ pc'[k] = pc[k] /\ snap' = snap
  BY <1>7 DEF Provide, LatePost, ProviderSettles, Age
<1>8. CASE (\E x \in PanelRefunds : PanelRefund(x)) \/ (\E i \in Invoices : Chargeback(i))
           \/ Reactivate \/ UNCHANGED vars
  BY <1>1, <1>2, <1>8 DEF PanelRefund, Chargeback, Reactivate, vars
<1> QED
  BY <1>1, <1>2, <1>3, <1>4, <1>5, <1>6, <1>7, <1>8 DEF Next, Serve, Environment

(* A key is posted at most once, whatever is lost, retried or restarted. *)
THEOREM PostedAtMostOnce == Spec => []NeverPostedTwice
<1>1. PostsInv => NeverPostedTwice
  BY DEF PostsInv, NeverPostedTwice
<1> QED
  BY <1>1, PostsInit, PostsStep, PTL DEF Spec

-----------------------------------------------------------------------------
(* A refund is closed by what happened to its own money, and one refund of an *)
(* invoice is undecided at a time, as long as a refund in the provider's list *)
(* can be told from the others and no read of the provider is refused.       *)

(* Mercado Pago names its refunds; with Asaas the description is echoed for  *)
(* every key and nobody refunds in the panel.                                *)
ExactMatch ==
    /\ ~ReadRefusals
    /\ \A i \in Invoices : Provider[i] = "ASAAS" => Keys \subseteq Tagged /\ PanelRefunds = {}

(* What the row of a key, its money and its request say of each other: an    *)
(* operation ten minutes old has no post under way, a refused one no money.  *)
Fits(o, r, c) ==
    /\ o.status = "NONE" => r = "none" /\ o.age = 0 /\ c = "idle"
    /\ c \in {"post", "refused"} => r = "none"
    /\ o.status = "CONFIRMED" => r = "done"
    /\ o.status = "FAILED" => r \in {"none", "cancelled"} /\ c # "post"
    /\ o.age > 0 => r # "inflight" /\ c # "post"

KeysFit == \A k \in Keys : Fits(op[k], remote[k], pc[k])

(* A list that was read stays true of what was decided, and of the refunds   *)
(* that never came.                                                          *)
ListFits(k, seen) ==
    /\ seen[k] \in {"done", "cancelled"} => remote[k] = seen[k]
    /\ seen[k] = "none" /\ op[k].age > 0 => remote[k] = "none"

ListsFit ==
    \A p \in Proc, k \in Keys :
      snap[p] # NoSnap /\ snap[p].inv = InvoiceOf[k] => ListFits(k, snap[p].seen)

ClosureInv == PostsInv /\ KeysFit /\ ListsFit /\ OneUndecidedRefund

(* No money has moved and no list has been read.                             *)
LEMMA ClosureInit == Init => ClosureInv
BY PostsInit DEF Init, ClosureInv, KeysFit, Fits, ListsFit, OneUndecidedRefund, Undecided, RefundIds

(* A reconciliation confirms what the list says is done, and gives up what   *)
(* the list says is cancelled or does not have after ten minutes.            *)
LEMMA OutcomeIsSeen ==
    ASSUME ExactMatch, TypeOK, NEW k \in Keys, NEW seen \in [RefundIds -> {"none"} \cup Visible]
    PROVE  /\ Outcome(k, seen) = "CONFIRMED" /\ op[k].status # "CONFIRMED" => seen[k] = "done"
           /\ Outcome(k, seen) = "FAILED" /\ op[k].status # "FAILED" =>
                 seen[k] = "cancelled" \/ (seen[k] = "none" /\ op[k].age > 0)
<1>1. InvoiceOf[k] \in Invoices /\ k \in RefundIds /\ op[k].age \in 0..2
  BY ConstantsAssumption DEF RefundIds, TypeOK, Operations
<1>2. ByValue(k, seen) = {}
  BY <1>1, ConstantsAssumption DEF ExactMatch, ByValue, RefundIds
<1>3. Match(k, seen) = {} \/ (Match(k, seen) = {k} /\ seen[k] # "none")
  BY <1>2 DEF Match, Identified
<1>4. CASE Match(k, seen) = {}
  <2>1. {seen[x] : x \in Match(k, seen)} = {}
    BY <1>4
  <2>2. Outcome(k, seen) = IF NeverArrived(k, seen) THEN "FAILED" ELSE op[k].status
    BY <2>1 DEF Outcome
  <2>3. NeverArrived(k, seen) => seen[k] = "none" /\ op[k].age > 0
    BY <1>1 DEF NeverArrived, SameValue, Values
  <2> QED
    BY <2>2, <2>3
<1>5. CASE Match(k, seen) = {k}
  <2>1. {seen[x] : x \in Match(k, seen)} = {seen[k]}
    BY <1>5
  <2>2. Outcome(k, seen) = IF {seen[k]} = {"done"} THEN "CONFIRMED"
                           ELSE IF {seen[k]} = {"cancelled"} THEN "FAILED" ELSE op[k].status
    BY <2>1 DEF Outcome
  <2> QED
    BY <2>2
<1> QED
  BY <1>3, <1>4, <1>5

(* The request of a key fits what it does.                                   *)
LEMMA RequestFits ==
    ASSUME PostsInv, KeysFit, NEW k \in Keys, NEW j \in Keys,
           Request(j) \/ Serve(j) \/ TakeAnswer(j) \/ CrashWhilePosting(j), ExactMatch
    PROVE  Fits(op'[k], remote'[k], pc'[k])
<1>1. /\ op[k] \in Operations /\ Fits(op[k], remote[k], pc[k]) /\ k \in RefundIds
      /\ op[j] \in Operations /\ j \in RefundIds
  BY DEF PostsInv, TypeOK, KeysFit, RefundIds
<1>2. CASE j # k
  <2>1. op'[k] = op[k] /\ remote'[k] = remote[k] /\ pc'[k] = pc[k]
    <3>1. CASE Request(j)
      <4>1. CASE RepeatRequest(j)
        BY <1>2, <3>1, <4>1 DEF Request, RepeatRequest, PostsInv, TypeOK
      <4>2. CASE Reserve(j)
        <5>1. PICK a : /\ op' = [op EXCEPT ![j].status = "PROCESSING", ![j].amount = a]
                       /\ pc' = [pc EXCEPT ![j] = "post"]
          BY <4>2 DEF Reserve
        <5>2. remote' = remote
          BY <3>1 DEF Request
        <5> QED
          BY <1>2, <5>1, <5>2 DEF PostsInv, TypeOK
      <4> QED
        BY <3>1, <4>1, <4>2 DEF Request
    <3>2. CASE Post(j) \/ CrashWhilePosting(j)
      <4>1. op' = op
        BY <3>2 DEF Post, CrashWhilePosting
      <4>2. /\ \E c \in Pcs : pc' = [pc EXCEPT ![j] = c]
            /\ remote' = remote \/ \E r \in RemoteStatus : remote' = [remote EXCEPT ![j] = r]
        BY <3>2 DEF Post, Accepted, Refused, AnswerLost, CrashWhilePosting
      <4> QED
        BY <1>1, <1>2, <4>1, <4>2 DEF PostsInv, TypeOK
    <3>3. CASE PersistAnswer(j) \/ MarkUnknown(j)
      BY <1>2, <3>3 DEF PersistAnswer, MarkUnknown, PostsInv, TypeOK
    <3>4. CASE FailReservation(j)
      BY <1>2, <3>4 DEF FailReservation, PostsInv, TypeOK
    <3>5. CASE ReadFails(j) \/ AfterEmit(j) \/ Answer(j) \/ TakeAnswer(j)
      BY <1>2, <3>5 DEF ReadFails, AfterEmit, Answer, TakeAnswer, PostsInv, TypeOK
    <3> QED
      BY <3>1, <3>2, <3>3, <3>4, <3>5 DEF Serve
  <2> QED
    BY <1>1, <2>1
<1>3. CASE j = k
  <2>1. CASE Request(k)
    <3>1. CASE RepeatRequest(k)
      BY <1>1, <2>1, <3>1 DEF Request, RepeatRequest, Fits, PostsInv, TypeOK
    <3>2. CASE Reserve(k)
      <4>1. PICK a : /\ op' = [op EXCEPT ![k].status = "PROCESSING", ![k].amount = a]
                     /\ pc' = [pc EXCEPT ![k] = "post"] /\ op[k].status = "NONE"
        BY <3>2 DEF Reserve, MayReserve
      <4>2. op'[k].status = "PROCESSING" /\ op'[k].age = op[k].age /\ pc'[k] = "post"
        BY <1>1, <4>1 DEF PostsInv, TypeOK, Operations
      <4>3. remote' = remote
        BY <2>1 DEF Request
      <4> QED
        BY <1>1, <4>1, <4>2, <4>3 DEF Fits
    <3> QED
      BY <2>1, <3>1, <3>2 DEF Request
  <2>2. CASE Post(k) \/ CrashWhilePosting(k)
    <3>1. /\ op' = op /\ pc[k] = "post"
          /\ \/ remote' = remote /\ pc'[k] = "refused"
             \/ pc'[k] \notin {"post", "refused"} /\ pc'[k] # "post"
      BY <2>2 DEF Post, Accepted, Refused, AnswerLost, CrashWhilePosting, PostsInv, TypeOK
    <3>2. op[k].status \notin {"NONE", "CONFIRMED", "FAILED"} /\ ~(op[k].age > 0)
      BY <1>1, <3>1 DEF Fits
    <3> QED
      BY <1>1, <3>1, <3>2 DEF Fits
  <2>3. CASE PersistAnswer(k)
    <3>1. /\ remote' = remote /\ pc'[k] \in {"reconcile", "unknown"} /\ pc[k] = "persist"
          /\ op'[k].age = op[k].age
          /\ op'[k].status = op[k].status \/ op'[k].status = "PENDING"
      BY <1>1, <2>3 DEF PersistAnswer, PostsInv, TypeOK, Operations
    <3> QED
      BY <1>1, <3>1 DEF Fits
  <2>4. CASE MarkUnknown(k)
    <3>1. /\ remote' = remote /\ pc'[k] = "answer" /\ pc[k] = "unknown"
          /\ op'[k].age = op[k].age
          /\ op'[k].status = op[k].status \/ op'[k].status = "UNKNOWN"
      BY <1>1, <2>4 DEF MarkUnknown, PostsInv, TypeOK, Operations
    <3> QED
      BY <1>1, <3>1 DEF Fits
  <2>5. CASE FailReservation(k)
    <3>1. /\ remote' = remote /\ pc'[k] \in {"answer", "threw"} /\ pc[k] = "refused"
          /\ op' = op \/ op' = [op EXCEPT ![k].status = "FAILED"]
      BY <2>5 DEF FailReservation, PostsInv, TypeOK
    <3>2. op'[k].age = op[k].age /\ op'[k].status \in {op[k].status, "FAILED"}
      BY <1>1, <3>1 DEF PostsInv, TypeOK, Operations
    <3> QED
      BY <1>1, <3>1, <3>2 DEF Fits
  <2>6. CASE ReadFails(k) \/ AfterEmit(k) \/ Answer(k) \/ TakeAnswer(k)
    <3>1. /\ op' = op /\ remote' = remote /\ pc[k] # "idle"
          /\ pc'[k] \in {"unknown", "answer", "returned", "threw", "idle"}
      BY <2>6 DEF ReadFails, AfterEmit, Answer, TakeAnswer, PostsInv, TypeOK, ExactMatch
    <3> QED
      BY <1>1, <3>1 DEF Fits
  <2> QED
    BY <1>3, <2>1, <2>2, <2>3, <2>4, <2>5, <2>6 DEF Serve
<1> QED
  BY <1>2, <1>3

(* A reconciliation and the environment keep what the rows say true.         *)
LEMMA OthersFit ==
    ASSUME PostsInv, KeysFit, ListsFit, ExactMatch, NEW k \in Keys
    PROVE  /\ \A p \in Proc : Reconcile(p) \/ Crash(p) => Fits(op'[k], remote'[k], pc'[k])
           /\ \A j \in Keys : Provide(j) \/ Age(j) => Fits(op'[k], remote'[k], pc'[k])
           /\ \A x \in PanelRefunds : PanelRefund(x) => Fits(op'[k], remote'[k], pc'[k])
<1>1. /\ op[k] \in Operations /\ Fits(op[k], remote[k], pc[k]) /\ k \in RefundIds /\ k \in Proc
  BY DEF PostsInv, TypeOK, KeysFit, RefundIds, Proc
<1>2. ASSUME NEW p \in Proc, CommitReconcile(p)
      PROVE  Fits(op'[k], remote'[k], pc'[k])
  <2> DEFINE seen == snap[p].seen
             s == Outcome(k, seen)
             b == op[k].review \/ NeedsReview(k, seen)
  <2>1. /\ remote' = remote /\ snap[p] # NoSnap
        /\ pc'[k] = pc[k] \/ (pc[k] = "commit" /\ pc'[k] \in {"emit", "unknown"})
    BY <1>2 DEF CommitReconcile, PostsInv, TypeOK
  <2>2. op' = op \/ op' = Applied(snap[p].inv, seen)
    BY <1>2 DEF CommitReconcile, ApplySnapshot
  <2>3. CASE op'[k] = op[k]
    BY <1>1, <2>1, <2>3 DEF Fits
  <2>4. CASE op'[k] # op[k]
    <3>1. /\ k \in ActiveOps(snap[p].inv)
          /\ op'[k] = [op[k] EXCEPT !.status = s, !.review = b]
      BY <2>2, <2>4 DEF Applied
    <3> HIDE DEF s, b
    <3>2. /\ InvoiceOf[k] = snap[p].inv /\ op[k].status \in Active
          /\ op'[k].status = s /\ op'[k].age = op[k].age
      BY <1>1, <3>1 DEF ActiveOps, Operations
    <3>3. ListFits(k, seen)
      BY <2>1, <3>2 DEF ListsFit
    <3>4. seen \in [RefundIds -> {"none"} \cup Visible] /\ TypeOK
      BY <2>1 DEF PostsInv, TypeOK, Snapshots
    <3>5. /\ s = "CONFIRMED" => remote[k] = "done"
          /\ s = "FAILED" => remote[k] \in {"none", "cancelled"} /\ pc[k] # "post"
      <4>1. /\ s = "CONFIRMED" => seen[k] = "done"
            /\ s = "FAILED" => seen[k] = "cancelled" \/ (seen[k] = "none" /\ op[k].age > 0)
        BY <3>2, <3>4, OutcomeIsSeen DEF s
      <4> QED
        BY <1>1, <3>3, <4>1 DEF ListFits, Fits
    <3>6. s # "NONE"
      BY <3>2, OutcomeStatus DEF s
    <3> QED
      BY <1>1, <2>1, <3>2, <3>5, <3>6 DEF Fits
  <2> QED
    BY <2>3, <2>4
<1>3. ASSUME NEW p \in Proc, NEW i \in Invoices, ReadRemote(p, i)
      PROVE  Fits(op'[k], remote'[k], pc'[k])
  <2>1. /\ op' = op /\ remote' = remote
        /\ pc'[k] = pc[k] \/ (pc[k] = "reconcile" /\ pc'[k] = "commit")
    BY <1>3 DEF ReadRemote, MayReconcile, PostsInv, TypeOK
  <2> QED
    BY <1>1, <2>1 DEF Fits
<1>4. ASSUME NEW p \in Proc, NEW e \in SettledEvents, EmitSettled(p, e)
      PROVE  Fits(op'[k], remote'[k], pc'[k])
  BY <1>1, <1>4 DEF EmitSettled
<1>5. ASSUME NEW p \in Proc, Crash(p)
      PROVE  Fits(op'[k], remote'[k], pc'[k])
  <2>1. op' = op /\ remote' = remote /\ pc'[k] \in {pc[k], "idle"}
    BY <1>5 DEF Crash, PostsInv, TypeOK
  <2> QED
    BY <1>1, <2>1 DEF Fits
<1>6. ASSUME NEW j \in Keys, Provide(j)
      PROVE  Fits(op'[k], remote'[k], pc'[k])
  <2>1. /\ op' = op /\ pc' = pc
        /\ remote'[k] = remote[k] \/ (remote[k] \in {"inflight", "pending"} /\ remote'[k] # "inflight")
    <3>1. /\ op' = op /\ pc' = pc /\ remote[j] \in {"inflight", "pending"}
          /\ \E r \in {"none", "pending", "done", "cancelled"} : remote' = [remote EXCEPT ![j] = r]
      BY <1>6 DEF Provide, LatePost, ProviderSettles
    <3> QED
      BY <1>1, <3>1 DEF PostsInv, TypeOK
  <2> QED
    BY <1>1, <2>1 DEF Fits
<1>7. ASSUME NEW j \in Keys, Age(j)
      PROVE  Fits(op'[k], remote'[k], pc'[k])
  <2>1. /\ pc' = pc /\ remote' = remote /\ op' = [op EXCEPT ![j].age = @ + 1]
        /\ op[j].status \in Active /\ remote[j] # "inflight" /\ pc[j] \in Resting
    BY <1>7 DEF Age
  <2>2. /\ op'[k].status = op[k].status
        /\ op'[k].age = op[k].age \/ j = k
    BY <1>1, <2>1 DEF PostsInv, TypeOK, Operations
  <2> QED
    BY <1>1, <2>1, <2>2 DEF Fits, Resting
<1>8. ASSUME NEW x \in PanelRefunds, PanelRefund(x)
      PROVE  Fits(op'[k], remote'[k], pc'[k])
  <2>1. op' = op /\ pc' = pc /\ remote'[k] = remote[k]
    BY <1>8, ConstantsAssumption DEF PanelRefund, PostsInv, TypeOK, RefundIds
  <2> QED
    BY <1>1, <2>1
<1> QED
  BY <1>2, <1>3, <1>4, <1>5, <1>6, <1>7, <1>8 DEF Reconcile

(* What the rows and the money of every key say fits after every step.       *)
LEMMA KeysFitStep ==
    ASSUME PostsInv, KeysFit, ListsFit, ExactMatch, [Next]_vars
    PROVE  KeysFit'
<1> SUFFICES ASSUME NEW k \in Keys
             PROVE  Fits(op'[k], remote'[k], pc'[k])
  BY DEF KeysFit
<1>1. ASSUME NEW j \in Keys, Request(j) \/ Serve(j) \/ TakeAnswer(j) \/ CrashWhilePosting(j)
      PROVE  Fits(op'[k], remote'[k], pc'[k])
  BY <1>1, RequestFits
<1>2. CASE (\E i \in Invoices : Chargeback(i)) \/ Reactivate \/ UNCHANGED vars
  BY <1>2 DEF Chargeback, Reactivate, vars, KeysFit
<1> QED
  BY <1>1, <1>2, OthersFit DEF Next, Environment

-----------------------------------------------------------------------------
(* Lists that were read. *)

(* What is decided at the provider stays, and what is ten minutes old and    *)
(* has not come never comes.                                                 *)
LEMMA DecidedStays ==
    ASSUME PostsInv, KeysFit, ExactMatch, [Next]_vars, NEW k \in Keys
    PROVE  /\ remote[k] \in {"done", "cancelled"} => remote'[k] = remote[k]
           /\ remote[k] = "none" /\ op[k].age > 0 => remote'[k] = "none"
<1>1. Fits(op[k], remote[k], pc[k]) /\ k \in RefundIds
  BY DEF KeysFit, RefundIds
<1>2. ASSUME NEW j \in Keys, Post(j) \/ CrashWhilePosting(j)
      PROVE  remote'[k] = remote[k] \/ pc[k] = "post"
  <2>1. /\ pc[j] = "post"
        /\ remote' = remote \/ \E r \in RemoteStatus : remote' = [remote EXCEPT ![j] = r]
    BY <1>2 DEF Post, Accepted, Refused, AnswerLost, CrashWhilePosting
  <2> QED
    BY <1>1, <2>1 DEF PostsInv, TypeOK
<1>3. ASSUME NEW j \in Keys, Provide(j)
      PROVE  remote'[k] = remote[k] \/ remote[k] \in {"inflight", "pending"}
  <2>1. /\ remote[j] \in {"inflight", "pending"}
        /\ \E r \in RemoteStatus : remote' = [remote EXCEPT ![j] = r]
    BY <1>3 DEF Provide, LatePost, ProviderSettles
  <2> QED
    BY <1>1, <2>1 DEF PostsInv, TypeOK
<1>4. ASSUME NEW x \in PanelRefunds, PanelRefund(x)
      PROVE  remote'[k] = remote[k]
  BY <1>1, <1>4, ConstantsAssumption DEF PanelRefund, PostsInv, TypeOK, RefundIds
<1>5. ASSUME NEW j \in Keys, Request(j) \/ PersistAnswer(j) \/ MarkUnknown(j)
                             \/ FailReservation(j) \/ ReadFails(j) \/ AfterEmit(j)
                             \/ Answer(j) \/ TakeAnswer(j) \/ Age(j)
      PROVE  remote' = remote
  BY <1>5 DEF Request, PersistAnswer, MarkUnknown, FailReservation, ReadFails, AfterEmit,
              Answer, TakeAnswer, Age
<1>6. ASSUME NEW p \in Proc, Reconcile(p) \/ Crash(p)
      PROVE  remote' = remote
  BY <1>6 DEF Reconcile, ReadRemote, CommitReconcile, EmitSettled, Crash
<1>7. ASSUME (\E i \in Invoices : Chargeback(i)) \/ Reactivate \/ UNCHANGED vars
      PROVE  remote' = remote
  BY <1>7 DEF Chargeback, Reactivate, vars
<1>8. remote'[k] = remote[k] \/ pc[k] = "post" \/ remote[k] \in {"inflight", "pending"}
  <2> DEFINE Same == remote'[k] = remote[k] \/ pc[k] = "post" \/ remote[k] \in {"inflight", "pending"}
  <2>1. ASSUME NEW j \in Keys, Request(j) \/ Serve(j) \/ TakeAnswer(j) PROVE Same
    <3>1. CASE Post(j)
      BY <1>2, <3>1
    <3> QED
      BY <1>5, <2>1, <3>1 DEF Serve
  <2>2. ASSUME NEW p \in Proc, Reconcile(p) \/ Crash(p) PROVE Same
    BY <1>6, <2>2
  <2>3. ASSUME NEW j \in Keys, Provide(j) \/ Age(j) \/ CrashWhilePosting(j) PROVE Same
    <3>1. CASE Age(j)
      BY <1>5, <3>1
    <3> QED
      BY <1>2, <1>3, <2>3, <3>1
  <2>4. ASSUME NEW x \in PanelRefunds, PanelRefund(x) PROVE Same
    BY <1>4, <2>4
  <2>5. ASSUME (\E i \in Invoices : Chargeback(i)) \/ Reactivate \/ UNCHANGED vars PROVE Same
    BY <1>7, <2>5 DEF vars
  <2> HIDE DEF Same
  <2>6. Same
    BY <2>1, <2>2, <2>3, <2>4, <2>5 DEF Next, Environment, vars
  <2> QED
    BY <2>6 DEF Same
<1> QED
  BY <1>1, <1>8 DEF Fits

(* An operation grows old only when no list of its invoice is in memory.     *)
LEMMA AgeWithoutLists ==
    ASSUME TypeOK, [Next]_vars, NEW k \in Keys, op'[k].age # op[k].age
    PROVE  \A p \in Proc : snap'[p] = snap[p] /\ snap[p].inv # InvoiceOf[k]
<1>1. op[k] \in Operations
  BY DEF TypeOK
<1>2. ASSUME NEW j \in Keys, Request(j) \/ Serve(j) \/ TakeAnswer(j) \/ CrashWhilePosting(j)
      PROVE  FALSE
  <2>1. CASE Request(j)
    BY <1>1, <1>2, <2>1 DEF Request, RepeatRequest, Reserve, TypeOK, Operations
  <2>2. CASE PersistAnswer(j)
    BY <1>1, <2>2 DEF PersistAnswer, TypeOK, Operations
  <2>3. CASE MarkUnknown(j)
    BY <1>1, <2>3 DEF MarkUnknown, TypeOK, Operations
  <2>4. CASE FailReservation(j)
    <3>1. op' = op \/ op' = [op EXCEPT ![j].status = "FAILED"]
      BY <2>4 DEF FailReservation
    <3> QED
      BY <1>1, <3>1 DEF TypeOK, Operations
  <2> QED
    BY <1>2, <2>1, <2>2, <2>3, <2>4
       DEF Serve, Post, ReadFails, AfterEmit, Answer, TakeAnswer, CrashWhilePosting
<1>3. ASSUME NEW p \in Proc, CommitReconcile(p)
      PROVE  FALSE
  <2> DEFINE s == Outcome(k, snap[p].seen)
             b == op[k].review \/ NeedsReview(k, snap[p].seen)
  <2>1. op' = op \/ op' = Applied(snap[p].inv, snap[p].seen)
    BY <1>3 DEF CommitReconcile, ApplySnapshot
  <2>2. op'[k] \in {op[k], [op[k] EXCEPT !.status = s, !.review = b]}
    BY <2>1 DEF Applied
  <2> HIDE DEF s, b
  <2> QED
    BY <1>1, <2>2 DEF Operations
<1>4. ASSUME NEW j \in Keys, Age(j)
      PROVE  j = k
  BY <1>4 DEF Age, TypeOK
<1>5. \/ op' = op \/ \E j \in Keys : Age(j)
  BY <1>2, <1>3 DEF Next, Reconcile, ReadRemote, EmitSettled, Environment, Provide, LatePost,
       ProviderSettles, PanelRefund, Crash, Chargeback, Reactivate, vars
<1> QED
  BY <1>4, <1>5 DEF Age

(* A list in memory stays true until it is applied.                          *)
LEMMA ListsFitStep ==
    ASSUME PostsInv, KeysFit, ListsFit, ExactMatch, [Next]_vars
    PROVE  ListsFit'
<1> SUFFICES ASSUME NEW p \in Proc, NEW k \in Keys, snap'[p] # NoSnap,
                    snap'[p].inv = InvoiceOf[k]
             PROVE  /\ snap'[p].seen[k] \in {"done", "cancelled"} => remote'[k] = snap'[p].seen[k]
                    /\ snap'[p].seen[k] = "none" /\ op'[k].age > 0 => remote'[k] = "none"
  BY DEF ListsFit, ListFits
<1>1. k \in RefundIds /\ op[k].age \in 0..2 /\ TypeOK
  BY DEF RefundIds, PostsInv, TypeOK, Operations
<1>2. CASE snap'[p] = snap[p]
  <2>1. ListFits(k, snap[p].seen) /\ snap[p].inv = InvoiceOf[k]
    BY <1>2 DEF ListsFit
  <2>2. op'[k].age = op[k].age
    BY <1>1, <2>1, AgeWithoutLists
  <2> QED
    BY <1>2, <2>1, <2>2, DecidedStays DEF ListFits
<1>3. CASE snap'[p] # snap[p]
  <2>1. PICK i \in Invoices : ReadRemote(p, i)
    <3>1. ASSUME NEW j \in Keys, Request(j) \/ Serve(j) \/ TakeAnswer(j)
          PROVE  snap' = snap
      BY <3>1 DEF Request, Serve, TakeAnswer, Post, PersistAnswer, MarkUnknown,
                  FailReservation, ReadFails, AfterEmit, Answer
    <3>2. ASSUME NEW q \in Proc, CommitReconcile(q) \/ Crash(q)
          PROVE  snap' = [snap EXCEPT ![q] = NoSnap]
      BY <3>2 DEF CommitReconcile, Crash
    <3>3. ASSUME NEW q \in Proc, NEW i \in Invoices, ReadRemote(q, i)
          PROVE  p = q
      BY <1>1, <1>3, <3>3 DEF ReadRemote, TypeOK
    <3>4. ASSUME NEW j \in Keys, Provide(j) \/ Age(j) \/ CrashWhilePosting(j)
          PROVE  snap' = snap
      BY <3>4 DEF Provide, LatePost, ProviderSettles, Age, CrashWhilePosting
    <3>5. ASSUME NEW q \in Proc, NEW e \in SettledEvents, EmitSettled(q, e)
          PROVE  snap' = snap
      BY <3>5 DEF EmitSettled
    <3>6. ASSUME (\E x \in PanelRefunds : PanelRefund(x)) \/ (\E i \in Invoices : Chargeback(i))
                 \/ Reactivate \/ UNCHANGED vars
          PROVE  snap' = snap
      BY <3>6 DEF PanelRefund, Chargeback, Reactivate, vars
    <3>7. \/ snap' = snap
          \/ \E q \in Proc : \/ snap' = [snap EXCEPT ![q] = NoSnap]
                             \/ \E i \in Invoices : ReadRemote(q, i)
      BY <3>1, <3>2, <3>4, <3>5, <3>6 DEF Next, Reconcile, Environment, vars
    <3>8. PICK q \in Proc : \/ snap' = [snap EXCEPT ![q] = NoSnap]
                             \/ \E i \in Invoices : ReadRemote(q, i)
      BY <1>3, <3>7
    <3>9. snap' # [snap EXCEPT ![q] = NoSnap]
      BY <1>1, <1>3 DEF TypeOK
    <3> QED
      BY <3>3, <3>8, <3>9
  <2>2. /\ op' = op /\ remote' = remote
        /\ snap'[p].inv = i /\ snap'[p].seen = SeenNow(i)
    BY <1>1, <2>1 DEF ReadRemote, TypeOK
  <2>3. SeenNow(i)[k] = IF remote[k] \in Visible THEN remote[k] ELSE "none"
    BY <1>1, <2>2 DEF SeenNow
  <2>4. Fits(op[k], remote[k], pc[k]) /\ remote[k] \in RemoteStatus
    BY <1>1 DEF KeysFit, TypeOK
  <2> QED
    BY <2>2, <2>3, <2>4 DEF ListFits, Fits
<1> QED
  BY <1>2, <1>3

-----------------------------------------------------------------------------
(* One undecided refund. *)

(* A key becomes undecided by its reservation only, which finds no active    *)
(* operation of the invoice.                                                 *)
LEMMA UndecidedSince ==
    ASSUME PostsInv, KeysFit, [Next]_vars, NEW k \in Keys, Undecided(k)', ~Undecided(k)
    PROVE  /\ ActiveOps(InvoiceOf[k]) = {} /\ \A j \in Keys \ {k} : Undecided(j)' => Undecided(j)
<1>1. TypeOK /\ k \in RefundIds
  BY DEF PostsInv, RefundIds
<1>2. ASSUME NEW j \in Keys, Reserve(j), Request(j)
      PROVE  /\ ActiveOps(InvoiceOf[k]) = {}
             /\ \A i \in Keys \ {k} : Undecided(i)' => Undecided(i)
  <2>1. remote' = remote /\ pc' = [pc EXCEPT ![j] = "post"] /\ ActiveOps(InvoiceOf[j]) = {}
    BY <1>2 DEF Request, Reserve, MayReserve
  <2>2. j = k
    BY <1>1, <2>1 DEF Undecided, TypeOK
  <2> QED
    BY <1>1, <2>1, <2>2 DEF Undecided, TypeOK
<1>3. ASSUME NEW j \in Keys, RepeatRequest(j), Request(j)
      PROVE  FALSE
  BY <1>1, <1>3 DEF Request, RepeatRequest, Undecided, TypeOK
<1>4. ASSUME NEW j \in Keys, Post(j) \/ CrashWhilePosting(j)
      PROVE  FALSE
  <2>1. /\ pc[j] = "post"
        /\ \E c \in Pcs \ {"post"} : pc' = [pc EXCEPT ![j] = c]
        /\ remote' = remote \/ \E r \in RemoteStatus : remote' = [remote EXCEPT ![j] = r]
    BY <1>4 DEF Post, Accepted, Refused, AnswerLost, CrashWhilePosting
  <2> QED
    BY <1>1, <2>1 DEF Undecided, TypeOK
<1>5. ASSUME NEW j \in Keys, Provide(j)
      PROVE  FALSE
  <2>1. /\ remote[j] \in {"inflight", "pending"} /\ pc' = pc
        /\ \E r \in RemoteStatus : remote' = [remote EXCEPT ![j] = r]
    BY <1>5 DEF Provide, LatePost, ProviderSettles
  <2> QED
    BY <1>1, <2>1 DEF Undecided, TypeOK
<1>6. ASSUME NEW j \in Keys, PersistAnswer(j) \/ MarkUnknown(j) \/ FailReservation(j)
                             \/ ReadFails(j) \/ AfterEmit(j) \/ Answer(j) \/ TakeAnswer(j)
                             \/ Age(j)
      PROVE  FALSE
  <2>1. remote' = remote /\ (pc' = pc \/ \E c \in Pcs \ {"post"} : pc' = [pc EXCEPT ![j] = c])
    BY <1>6 DEF PersistAnswer, MarkUnknown, FailReservation, ReadFails, AfterEmit, Answer,
                TakeAnswer, Age
  <2> QED
    BY <1>1, <2>1 DEF Undecided, TypeOK
<1>7. ASSUME NEW p \in Proc, Reconcile(p) \/ Crash(p)
      PROVE  FALSE
  <2>1. remote' = remote /\ (pc' = pc \/ \E c \in Pcs \ {"post"} : pc' = [pc EXCEPT ![p] = c])
    BY <1>7 DEF Reconcile, ReadRemote, CommitReconcile, EmitSettled, Crash
  <2> QED
    BY <1>1, <2>1 DEF Undecided, TypeOK
<1>8. CASE (\E x \in PanelRefunds : PanelRefund(x)) \/ (\E i \in Invoices : Chargeback(i))
           \/ Reactivate \/ UNCHANGED vars
  BY <1>1, <1>8, ConstantsAssumption
     DEF PanelRefund, Chargeback, Reactivate, vars, Undecided, TypeOK, RefundIds
<1> QED
  BY <1>2, <1>3, <1>4, <1>5, <1>6, <1>7, <1>8 DEF Next, Request, Serve, Environment

(* An undecided refund is an active operation, and stays the only one.       *)
LEMMA OneUndecidedStep ==
    ASSUME PostsInv, KeysFit, OneUndecidedRefund, [Next]_vars
    PROVE  OneUndecidedRefund'
<1>1. ASSUME NEW k \in Keys, Undecided(k)
      PROVE  k \in ActiveOps(InvoiceOf[k])
  <2>1. op[k] \in Operations /\ Fits(op[k], remote[k], pc[k])
    BY DEF PostsInv, TypeOK, KeysFit
  <2> QED
    BY <1>1, <2>1 DEF Fits, Undecided, ActiveOps, Operations
<1> SUFFICES ASSUME NEW j \in Keys, NEW k \in Keys, Undecided(j)', Undecided(k)',
                    InvoiceOf[j] = InvoiceOf[k], j # k
             PROVE  FALSE
  BY DEF OneUndecidedRefund
<1>2. CASE Undecided(j) /\ Undecided(k)
  BY <1>2 DEF OneUndecidedRefund
<1>3. CASE ~Undecided(j)
  <2>1. ActiveOps(InvoiceOf[j]) = {} /\ Undecided(k)
    BY <1>3, UndecidedSince
  <2> QED
    BY <1>1, <2>1
<1>4. CASE ~Undecided(k)
  <2>1. ActiveOps(InvoiceOf[k]) = {} /\ Undecided(j)
    BY <1>4, UndecidedSince
  <2> QED
    BY <1>1, <2>1
<1> QED
  BY <1>2, <1>3, <1>4

(* The whole invariant is inductive.                                         *)
LEMMA ClosureStep ==
    ASSUME ExactMatch, ClosureInv, [Next]_vars
    PROVE  ClosureInv'
BY PostsStep, KeysFitStep, ListsFitStep, OneUndecidedStep DEF ClosureInv

(* An operation is CONFIRMED only if its own money is out and FAILED only if *)
(* it never can be, although both are decided from lists that were read      *)
(* before the lock and from a refund's absence after ten minutes             *)
(* (payment-refund.service.ts:105-131).                                      *)
THEOREM ClosedByItsOwnMoney == ASSUME ExactMatch PROVE Spec => []ClosedByTheProvider
<1>1. Init => ClosureInv
  BY ClosureInit
<1>2. ClosureInv /\ [Next]_vars => ClosureInv'
  BY ClosureStep
<1>3. ClosureInv => ClosedByTheProvider
  BY DEF ClosureInv, KeysFit, Fits, ClosedByTheProvider
<1> QED
  BY <1>1, <1>2, <1>3, PTL DEF Spec

(* An invoice has one refund under way at the provider at most, however many *)
(* requests, crashes and late posts there are (payment-refund.service.ts:43).*)
THEOREM OneRefundUnderWay == ASSUME ExactMatch PROVE Spec => []OneUndecidedRefund
<1>1. Init => ClosureInv
  BY ClosureInit
<1>2. ClosureInv /\ [Next]_vars => ClosureInv'
  BY ClosureStep
<1>3. ClosureInv => OneUndecidedRefund
  BY DEF ClosureInv
<1> QED
  BY <1>1, <1>2, <1>3, PTL DEF Spec

-----------------------------------------------------------------------------
(* The service implements RefundLedger. *)

(* A request whose answer was accepted has money at the provider. *)
PersistFits ==
    \A k \in Keys : pc[k] = "persist" => remote[k] \in {"pending", "done", "cancelled"}

(* Of one invoice one part is held at most, although a late answer may make  *)
(* a closed operation active again beside another one.                       *)
OneHeld ==
    \A j, k \in Keys :
        PartOf(j) = "held" /\ PartOf(k) = "held" /\ InvoiceOf[j] = InvoiceOf[k] => j = k

RefineInv == ClosureInv /\ PersistFits /\ OneHeld

(* Where only the money of one key moves, its operation is active. *)
LEMMA MoneyMoves ==
    ASSUME PostsInv, KeysFit, NEW j \in Keys,
           Post(j) \/ CrashWhilePosting(j) \/ Provide(j)
    PROVE  /\ op' = op /\ op[j].status \in Active /\ remote[j] \in {"none", "inflight", "pending"}
           /\ \A k \in Keys \ {j} : remote'[k] = remote[k] /\ pc'[k] = pc[k]
           /\ pc'[j] = "persist" => remote'[j] \in {"pending", "done", "cancelled"} \/ pc[j] = "persist"
           /\ remote[j] = "inflight" \/ remote[j] = "pending" \/ pc[j] = "post"
<1>1. /\ Fits(op[j], remote[j], pc[j]) /\ op[j] \in Operations /\ Keys \subseteq RefundIds
      /\ remote \in [RefundIds -> RemoteStatus] /\ pc \in [Keys -> Pcs]
  BY DEF PostsInv, TypeOK, KeysFit, RefundIds
<1>2. CASE Post(j) \/ CrashWhilePosting(j)
  <2>1. /\ op' = op /\ pc[j] = "post"
        /\ \E c \in Pcs, r \in RemoteStatus :
             /\ pc' = [pc EXCEPT ![j] = c]
             /\ c = "persist" => r \in {"pending", "done"}
             /\ remote' = [remote EXCEPT ![j] = r] \/ (remote' = remote /\ c # "persist")
    BY <1>2 DEF Post, Accepted, Refused, AnswerLost, CrashWhilePosting
  <2> QED
    BY <1>1, <2>1 DEF Fits, Operations
<1>3. CASE Provide(j)
  <2>1. /\ op' = op /\ pc' = pc /\ remote[j] \in {"inflight", "pending"}
        /\ \E r \in RemoteStatus : remote' = [remote EXCEPT ![j] = r]
    BY <1>3 DEF Provide, LatePost, ProviderSettles
  <2> QED
    BY <1>1, <2>1 DEF Fits, Operations
<1> QED
  BY <1>2, <1>3

(* A request that was accepted has its money at the provider while it waits  *)
(* to store the answer.                                                      *)
LEMMA PersistFitsStep ==
    ASSUME ExactMatch, PostsInv, KeysFit, PersistFits, [Next]_vars
    PROVE  PersistFits'
<1> SUFFICES ASSUME NEW k \in Keys, pc'[k] = "persist"
             PROVE  remote'[k] \in {"pending", "done", "cancelled"}
  BY DEF PersistFits
<1>1. TypeOK /\ k \in RefundIds
  BY DEF PostsInv, RefundIds
<1>2. CASE pc[k] = "persist" /\ remote'[k] = remote[k]
  BY <1>2 DEF PersistFits
<1>3. ASSUME NEW j \in Keys, Post(j) \/ CrashWhilePosting(j)
      PROVE  remote'[k] \in {"pending", "done", "cancelled"}
  <2>1. CASE j = k
    <3>1. pc[j] = "post"
      BY <1>3 DEF Post, CrashWhilePosting
    <3> QED
      BY <1>3, <2>1, <3>1, MoneyMoves
  <2>2. CASE j # k
    BY <1>2, <1>3, <2>2, MoneyMoves
  <2> QED
    BY <2>1, <2>2
<1>4. ASSUME NEW j \in Keys, Provide(j)
      PROVE  remote'[k] \in {"pending", "done", "cancelled"}
  <2>1. pc[k] = "persist" /\ remote[k] \in {"pending", "done", "cancelled"}
    BY <1>4 DEF Provide, LatePost, ProviderSettles, PersistFits
  <2>2. CASE LatePost(j)
    BY <1>1, <2>1, <2>2 DEF LatePost, TypeOK
  <2>3. CASE ProviderSettles(j)
    BY <1>1, <2>1, <2>3 DEF ProviderSettles, TypeOK
  <2> QED
    BY <1>4, <2>2, <2>3 DEF Provide
<1>5. ASSUME NEW j \in Keys, Request(j) \/ PersistAnswer(j) \/ MarkUnknown(j) \/ FailReservation(j)
                             \/ ReadFails(j) \/ AfterEmit(j) \/ Answer(j) \/ TakeAnswer(j) \/ Age(j)
      PROVE  pc[k] = "persist" /\ remote' = remote
  <2>1. /\ remote' = remote
        /\ pc' = pc \/ \E c \in Pcs \ {"persist"} : pc' = [pc EXCEPT ![j] = c]
    BY <1>5 DEF Request, RepeatRequest, Reserve, PersistAnswer, MarkUnknown, FailReservation,
                ReadFails, AfterEmit, Answer, TakeAnswer, Age
  <2> QED
    BY <1>1, <2>1 DEF TypeOK
<1>6. ASSUME NEW p \in Proc, Reconcile(p) \/ Crash(p)
      PROVE  pc[k] = "persist" /\ remote' = remote
  <2>1. /\ remote' = remote
        /\ pc' = pc \/ \E c \in Pcs \ {"persist"} : pc' = [pc EXCEPT ![p] = c]
    BY <1>6 DEF Reconcile, ReadRemote, CommitReconcile, EmitSettled, Crash
  <2> QED
    BY <1>1, <2>1 DEF TypeOK
<1>7. CASE (\E x \in PanelRefunds : PanelRefund(x)) \/ (\E i \in Invoices : Chargeback(i))
           \/ Reactivate \/ UNCHANGED vars
  <2>1. pc' = pc /\ remote'[k] = remote[k]
    BY <1>1, <1>7, ConstantsAssumption
       DEF PanelRefund, Chargeback, Reactivate, vars, TypeOK, RefundIds
  <2> QED
    BY <1>2, <2>1
<1> QED
  BY <1>2, <1>3, <1>4, <1>5, <1>6, <1>7 DEF Next, Serve, Environment

(* What is written to one operation, its money left alone, gives a held part *)
(* back or leaves it what it was.                                            *)
LEMMA RowMoves ==
    ASSUME PostsInv, KeysFit, PersistFits, NEW j \in Keys,
           PersistAnswer(j) \/ MarkUnknown(j) \/ FailReservation(j) \/ Age(j)
    PROVE  /\ \A k \in Keys : op'[k].amount = op[k].amount
           /\ \A k \in Keys \ {j} : PartOf(k)' = PartOf(k)
           /\ PartOf(j)' = PartOf(j) \/ (PartOf(j) = "held" /\ PartOf(j)' = "void")
<1>1. /\ op \in [Keys -> Operations] /\ op[j] \in Operations /\ Fits(op[j], remote[j], pc[j])
      /\ pc[j] = "persist" => remote[j] \in {"pending", "done", "cancelled"}
  BY DEF PostsInv, TypeOK, KeysFit, PersistFits
<1>2. ASSUME remote' = remote, NEW r \in Operations, op' = [op EXCEPT ![j] = r], r.amount = op[j].amount,
             \/ r.status = op[j].status
             \/ r.status \in Active /\ op[j].status \in Active
             \/ r.status \in Active /\ pc[j] = "persist" /\ op[j].status # "NONE"
             \/ r.status = "FAILED" /\ pc[j] = "refused" /\ op[j].status # "NONE"
      PROVE  /\ \A k \in Keys : op'[k].amount = op[k].amount
             /\ \A k \in Keys \ {j} : PartOf(k)' = PartOf(k)
             /\ PartOf(j)' = PartOf(j) \/ (PartOf(j) = "held" /\ PartOf(j)' = "void")
  <2>1. op'[j] = r /\ \A k \in Keys \ {j} : op'[k] = op[k]
    BY <1>1, <1>2
  <2> QED
    BY <1>1, <1>2, <2>1 DEF PartOf, Fits
<1>3. pc[j] # "idle" => op[j].status # "NONE"
  BY DEF PostsInv
<1>4. CASE PersistAnswer(j)
  <2> DEFINE b == Provider[InvoiceOf[j]] = "MERCADOPAGO"
             r == [op[j] EXCEPT !.status = "PENDING", !.ref = b]
  <2>1. /\ remote' = remote /\ pc[j] = "persist"
        /\ op' = op \/ op' = [op EXCEPT ![j] = r]
    BY <1>4 DEF PersistAnswer
  <2>2. b \in BOOLEAN
    OBVIOUS
  <2> HIDE DEF b
  <2>3. r \in Operations /\ r.amount = op[j].amount /\ r.status = "PENDING"
    BY <1>1, <2>2 DEF Operations
  <2> HIDE DEF r
  <2>4. CASE op' = op
    BY <2>1, <2>4 DEF PartOf
  <2> QED
    BY <1>2, <1>3, <2>1, <2>3, <2>4
<1>5. CASE MarkUnknown(j)
  <2> DEFINE s == IF op[j].status \in Active THEN "UNKNOWN" ELSE op[j].status
             r == [op[j] EXCEPT !.status = s]
  <2>1. remote' = remote /\ (op' = op \/ op' = [op EXCEPT ![j] = r])
    BY <1>5 DEF MarkUnknown
  <2>2. s \in OpStatus /\ (s = op[j].status \/ (s \in Active /\ op[j].status \in Active))
    BY <1>1 DEF Operations
  <2> HIDE DEF s
  <2>3. r \in Operations /\ r.amount = op[j].amount /\ r.status = s
    BY <1>1, <2>2 DEF Operations
  <2> HIDE DEF r
  <2>4. CASE op' = op
    BY <2>1, <2>4 DEF PartOf
  <2> QED
    BY <1>2, <2>1, <2>2, <2>3, <2>4
<1>6. CASE FailReservation(j)
  <2> DEFINE r == [op[j] EXCEPT !.status = "FAILED"]
  <2>1. /\ remote' = remote /\ pc[j] = "refused"
        /\ op' = op \/ op' = [op EXCEPT ![j] = r]
    BY <1>6 DEF FailReservation
  <2>2. r \in Operations /\ r.amount = op[j].amount /\ r.status = "FAILED"
    BY <1>1 DEF Operations
  <2> HIDE DEF r
  <2>3. CASE op' = op
    BY <2>1, <2>3 DEF PartOf
  <2> QED
    BY <1>2, <1>3, <2>1, <2>2, <2>3
<1>7. CASE Age(j)
  <2> DEFINE r == [op[j] EXCEPT !.age = op[j].age + 1]
  <2>1. remote' = remote /\ op' = [op EXCEPT ![j] = r] /\ op[j].age < 2
    BY <1>7 DEF Age
  <2>2. r \in Operations /\ r.amount = op[j].amount /\ r.status = op[j].status
    BY <1>1, <2>1 DEF Operations
  <2> HIDE DEF r
  <2> QED
    BY <1>2, <2>1, <2>2
<1> QED
  BY <1>4, <1>5, <1>6, <1>7

(* Whatever is not a reservation decides parts of one invoice at most: held  *)
(* ones are paid out or given back, all others stay.                         *)
Moves(i) ==
    \A k \in Keys : PartOf(k)' # PartOf(k) =>
        InvoiceOf[k] = i /\ PartOf(k) = "held" /\ PartOf(k)' \in {"paid", "void"}

(* A step that reserves nothing decides the part of one invoice at most.     *)
LEMMA PartsMove ==
    ASSUME ExactMatch, ClosureInv, PersistFits, [Next]_vars,
           ~(\E k \in Keys : Request(k) /\ Reserve(k))
    PROVE  /\ \A k \in Keys : op'[k].amount = op[k].amount
           /\ \E i : Moves(i)
<1> DEFINE Goal == (\A k \in Keys : op'[k].amount = op[k].amount) /\ \E i : Moves(i)
<1>1. PostsInv /\ KeysFit /\ ListsFit /\ Keys \subseteq RefundIds
      /\ \A k \in Keys : op[k] \in Operations /\ Fits(op[k], remote[k], pc[k])
  BY DEF ClosureInv, PostsInv, TypeOK, KeysFit, RefundIds
<1>2. ASSUME op' = op, \A k \in Keys : remote'[k] = remote[k] PROVE Goal
  <2>1. \A k \in Keys : PartOf(k)' = PartOf(k)
    BY <1>2 DEF PartOf
  <2> QED
    BY <1>2, <2>1 DEF Moves
<1>3. ASSUME NEW j \in Keys, Post(j) \/ CrashWhilePosting(j) \/ Provide(j) PROVE Goal
  <2>1. /\ op' = op /\ op[j].status \in Active /\ remote[j] \in {"none", "inflight", "pending"}
        /\ \A k \in Keys \ {j} : remote'[k] = remote[k]
    BY <1>1, <1>3, MoneyMoves
  <2>2. PartOf(j) = "held" /\ PartOf(j)' \in {"held", "paid", "void"}
    BY <2>1 DEF PartOf
  <2>3. \A k \in Keys \ {j} : PartOf(k)' = PartOf(k)
    BY <2>1 DEF PartOf
  <2>4. Moves(InvoiceOf[j])
    BY <2>2, <2>3 DEF Moves
  <2> QED
    BY <2>1, <2>4
<1>4. ASSUME NEW j \in Keys, PersistAnswer(j) \/ MarkUnknown(j) \/ FailReservation(j) \/ Age(j)
      PROVE  Goal
  <2>1. Moves(InvoiceOf[j])
    BY <1>1, <1>4, RowMoves DEF Moves
  <2> QED
    BY <1>1, <1>4, <2>1, RowMoves
<1>5. ASSUME NEW p \in Proc, CommitReconcile(p) PROVE Goal
  <2> DEFINE i == snap[p].inv
             seen == snap[p].seen
  <2>1. remote' = remote /\ (op' = op \/ op' = Applied(i, seen))
    BY <1>5 DEF CommitReconcile, ApplySnapshot
  <2>2. ASSUME NEW k \in Keys
        PROVE  /\ op'[k].amount = op[k].amount
               /\ \/ PartOf(k)' = PartOf(k)
                  \/ InvoiceOf[k] = i /\ PartOf(k) = "held" /\ PartOf(k)' = "void"
    <3> DEFINE s == Outcome(k, seen)
               b == op[k].review \/ NeedsReview(k, seen)
    <3>1. CASE op'[k] = op[k]
      BY <2>1, <3>1 DEF PartOf
    <3>2. CASE op'[k] # op[k]
      <4>1. k \in ActiveOps(i) /\ op'[k] = [op[k] EXCEPT !.status = s, !.review = b]
        BY <2>1, <3>2 DEF Applied
      <4>2. s # "NONE"
        BY <4>1, OutcomeStatus DEF ActiveOps
      <4> HIDE DEF s, b
      <4>3. /\ op'[k].status = s /\ op'[k].amount = op[k].amount
            /\ InvoiceOf[k] = i /\ op[k].status \in Active
        BY <1>1, <4>1 DEF ActiveOps, Operations
      <4>4. Fits(op'[k], remote'[k], pc'[k])
        BY <1>1, <1>5, OthersFit DEF Reconcile
      <4> QED
        BY <2>1, <4>2, <4>3, <4>4 DEF PartOf, Fits
    <3> QED
      BY <3>1, <3>2
  <2>3. Moves(i)
    BY <2>2 DEF Moves
  <2> QED
    BY <2>2, <2>3
<1>6. ASSUME NEW k \in Keys, RepeatRequest(k), Request(k) PROVE Goal
  BY <1>2, <1>6 DEF RepeatRequest, Request
<1>7. ASSUME NEW k \in Keys, ReadFails(k) \/ AfterEmit(k) \/ Answer(k) \/ TakeAnswer(k) PROVE Goal
  BY <1>2, <1>7 DEF ReadFails, AfterEmit, Answer, TakeAnswer
<1>8. ASSUME NEW p \in Proc, Crash(p) \/ (\E i \in Invoices : ReadRemote(p, i))
                             \/ (\E e \in SettledEvents : EmitSettled(p, e))
      PROVE  Goal
  BY <1>2, <1>8 DEF Crash, ReadRemote, EmitSettled
<1>9. ASSUME NEW x \in PanelRefunds, PanelRefund(x) PROVE Goal
  <2>1. op' = op /\ \A k \in Keys : remote'[k] = remote[k]
    BY <1>1, <1>9, ConstantsAssumption DEF PanelRefund, PostsInv, TypeOK
  <2> QED
    BY <1>2, <2>1
<1>10. ASSUME (\E i \in Invoices : Chargeback(i)) \/ Reactivate \/ UNCHANGED vars PROVE Goal
  BY <1>2, <1>10 DEF Chargeback, Reactivate, vars
<1> HIDE DEF Goal
<1>11. Goal
  BY <1>3, <1>4, <1>5, <1>6, <1>7, <1>8, <1>9, <1>10
     DEF Next, Request, Serve, Reconcile, Environment
<1> QED
  BY <1>11 DEF Goal

(* The ledger adds up as the service does. *)
LEMMA LedgerSums ==
    ASSUME NEW f, NEW S
    PROVE  Ledger!SumFunctionOnSet(f, S) = SumFunctionOnSet(f, S)
BY Zenon DEF SumFunctionOnSet, FoldFunctionOnSet, MapThenFoldSet, Ledger!SumFunctionOnSet,
   Ledger!FoldFunctionOnSet, Ledger!MapThenFoldSet

(* A reservation holds a part of what nothing else holds and nobody was paid. *)
LEMMA ReserveHolds ==
    ASSUME ClosureInv, NEW k \in Keys, Request(k), Reserve(k)
    PROVE  /\ Ledger!Hold(k)
           /\ \A j \in Keys : PartOf(j) = "held" => InvoiceOf[j] # InvoiceOf[k]
           /\ \A j \in Keys : PartOf(j)' = "held" => PartOf(j) = "held" \/ j = k
<1> DEFINE i == InvoiceOf[k]
           Part == [j \in Keys |-> PartOf(j)]
           Value == [j \in Keys |-> op[j].amount]
           paid == {j \in Keys : InvoiceOf[j] = i /\ Part[j] \in {"paid"}}
           confirmed == {j \in Keys : InvoiceOf[j] = i /\ op[j].status = "CONFIRMED"}
<1>1. /\ PostsInv /\ op \in [Keys -> Operations] /\ i \in Invoices
      /\ \A j \in Keys : op[j] \in Operations /\ Fits(op[j], remote[j], pc[j])
      /\ Amount[i] \in Nat /\ invoice[i].refunded \in Nat
  BY ConstantsAssumption DEF ClosureInv, PostsInv, TypeOK, KeysFit, RefundIds, InvoiceRows
<1>2. PICK a \in 1..Amount[i] :
        /\ MayReserve(k, a)
        /\ op' = [op EXCEPT ![k].status = "PROCESSING", ![k].amount = a]
  BY DEF Reserve
<1>3. op[k].status = "NONE" /\ ActiveOps(i) = {} /\ a + Used(i) <= Amount[i]
  BY <1>2 DEF MayReserve
<1>4. /\ op'[k].status = "PROCESSING" /\ op'[k].amount = a /\ remote' = remote
      /\ \A j \in Keys \ {k} : op'[j] = op[j]
  BY <1>1, <1>2 DEF Request, Operations
<1>5. ASSUME NEW j \in Keys, InvoiceOf[j] = i
      PROVE  op[j].status \in {"NONE", "CONFIRMED", "FAILED"}
  BY <1>1, <1>3, <1>5 DEF ActiveOps, Operations
<1>6. ASSUME NEW j \in Keys, InvoiceOf[j] = i
      PROVE  PartOf(j) # "held" /\ (PartOf(j) = "paid" <=> op[j].status = "CONFIRMED")
  BY <1>1, <1>5, <1>6 DEF PartOf, Fits
<1>7. PartOf(k) = "idle" /\ PartOf(k)' = "held" /\ \A j \in Keys \ {k} : PartOf(j)' = PartOf(j)
  <2>1. remote[k] = "none"
    BY <1>1, <1>3 DEF Fits
  <2> QED
    BY <1>3, <1>4, <2>1 DEF PartOf
<1>8. paid = confirmed
  BY <1>6
<1>9. SumFunctionOnSet(Value, paid) = ConfirmedOf(i) /\ ConfirmedOf(i) \in Int
  <2>1. confirmed \subseteq Keys /\ IsFiniteSet(confirmed)
    BY ConstantsAssumption, FS_Subset
  <2>2. \A j \in confirmed : Value[j] = Values[j] /\ Values[j] \in Int
    BY <1>1, <2>1 DEF Values, RefundIds, Operations
  <2>3. Summable(Values, confirmed)
    BY <2>1, <2>2 DEF Summable
  <2>4. ConfirmedOf(i) = SumFunctionOnSet(Values, confirmed)
    BY DEF ConfirmedOf
  <2> HIDE DEF confirmed, Value
  <2>5. SumFunctionOnSet(Values, confirmed) = SumFunctionOnSet(Value, confirmed)
    BY <2>2, <2>3, SumSame
  <2> QED
    BY <1>8, <2>3, <2>4, <2>5, SumIsInt
<1>10. a + SumFunctionOnSet(Value, paid) <= Amount[i]
  <2>1. Used(i) >= ConfirmedOf(i) /\ Used(i) \in Int
    BY <1>1, <1>9 DEF Used, Larger
  <2> HIDE DEF paid, Value, i
  <2> QED
    BY <1>1, <1>3, <1>9, <2>1
<1>11. Ledger!Hold(k)
  <2>1. Part[k] = "idle" /\ Ledger!OfInvoice(i, {"held"}) = {}
    BY <1>6, <1>7 DEF Ledger!OfInvoice
  <2>2. Ledger!PaidOut(i) = SumFunctionOnSet(Value, paid)
    <3>1. Ledger!OfInvoice(i, {"paid"}) = paid
      BY DEF Ledger!OfInvoice
    <3>2. Ledger!PaidOut(i) = SumFunctionOnSet(Value, Ledger!OfInvoice(i, {"paid"}))
      BY LedgerSums DEF Ledger!PaidOut
    <3> QED
      BY <3>1, <3>2
  <2>3. [j \in Keys |-> op'[j].amount] = [Value EXCEPT ![k] = a]
    BY <1>4
  <2>4. [j \in Keys |-> PartOf(j)'] = [Part EXCEPT ![k] = "held"]
    BY <1>7
  <2> QED
    BY <1>10, <2>1, <2>2, <2>3, <2>4 DEF Ledger!Hold
<1> QED
  BY <1>6, <1>7, <1>11

(* One held part at a time. *)
LEMMA OneHeldStep ==
    ASSUME ExactMatch, RefineInv, [Next]_vars
    PROVE  OneHeld'
<1>1. CASE \E k \in Keys : Request(k) /\ Reserve(k)
  <2>1. PICK k \in Keys : Request(k) /\ Reserve(k)
    BY <1>1
  <2>2. /\ \A j \in Keys : PartOf(j) = "held" => InvoiceOf[j] # InvoiceOf[k]
        /\ \A j \in Keys : PartOf(j)' = "held" => PartOf(j) = "held" \/ j = k
    BY <2>1, ReserveHolds DEF RefineInv
  <2> QED
    BY <2>2 DEF OneHeld, RefineInv
<1>2. CASE ~(\E k \in Keys : Request(k) /\ Reserve(k))
  <2>1. PICK i : Moves(i)
    BY <1>2, PartsMove DEF RefineInv
  <2>2. \A j \in Keys : PartOf(j)' = "held" => PartOf(j) = "held"
    BY <2>1 DEF Moves
  <2> QED
    BY <2>2 DEF OneHeld, RefineInv
<1> QED
  BY <1>1, <1>2

(* A step of the service is a step of the ledger, or none. *)
LEMMA LedgerStep ==
    ASSUME ExactMatch, RefineInv, [Next]_vars
    PROVE  [Ledger!Next]_(Ledger!ledger)
<1> DEFINE Part == [j \in Keys |-> PartOf(j)]
           Value == [j \in Keys |-> op[j].amount]
<1>1. CASE \E k \in Keys : Request(k) /\ Reserve(k)
  BY <1>1, ReserveHolds DEF RefineInv, Ledger!Next
<1>2. CASE ~(\E k \in Keys : Request(k) /\ Reserve(k))
  <2>1. \A k \in Keys : op'[k].amount = op[k].amount
    BY <1>2, PartsMove DEF RefineInv
  <2>2. PICK i : Moves(i)
    BY <1>2, PartsMove DEF RefineInv
  <2>3. [j \in Keys |-> op'[j].amount] = Value
    BY <2>1
  <2>4. CASE \A k \in Keys : PartOf(k)' = PartOf(k)
    <3>1. [j \in Keys |-> PartOf(j)'] = Part
      BY <2>4
    <3> QED
      BY <2>3, <3>1 DEF Ledger!ledger
  <2>5. ASSUME NEW m \in Keys, PartOf(m)' # PartOf(m) PROVE Ledger!PayOut(m) \/ Ledger!GiveBack(m)
    <3>1. /\ InvoiceOf[m] = i /\ PartOf(m) = "held" /\ PartOf(m)' \in {"paid", "void"}
      BY <2>2, <2>5 DEF Moves
    <3>2. \A k \in Keys \ {m} : PartOf(k)' = PartOf(k)
      BY <2>2, <3>1 DEF Moves, RefineInv, OneHeld
    <3>3. [j \in Keys |-> PartOf(j)'] \in {[Part EXCEPT ![m] = "paid"], [Part EXCEPT ![m] = "void"]}
      BY <3>1, <3>2
    <3> QED
      BY <2>3, <3>1, <3>3 DEF Ledger!PayOut, Ledger!GiveBack
  <2> QED
    BY <2>4, <2>5 DEF Ledger!Next
<1> QED
  BY <1>1, <1>2

(* Nothing is held in the beginning. *)
LEMMA RefineInit == Init => RefineInv /\ Ledger!Init
<1> SUFFICES ASSUME Init PROVE RefineInv /\ Ledger!Init
  OBVIOUS
<1>1. ClosureInv
  BY ClosureInit
<1>2. \A k \in Keys : op[k].status = "NONE" /\ op[k].amount = 0 /\ pc[k] = "idle"
  BY DEF Init
<1>3. \A k \in Keys : PartOf(k) = "idle"
  BY <1>2 DEF PartOf
<1>4. PersistFits /\ OneHeld
  BY <1>2, <1>3 DEF PersistFits, OneHeld
<1>5. Ledger!Init
  BY <1>2, <1>3 DEF Ledger!Init
<1> QED
  BY <1>1, <1>4, <1>5 DEF RefineInv

(* One part of an invoice is held after every step. *)
LEMMA RefineStep == ASSUME ExactMatch PROVE RefineInv /\ [Next]_vars => RefineInv'
BY ClosureStep, PersistFitsStep, OneHeldStep DEF RefineInv, ClosureInv

(* The refund service, with its crashes, lost answers and late lists, keeps  *)
(* the books of RefundLedger: a part of the balance is held once, and paid   *)
(* out or given back once (payment-refund.service.ts:43-131).                *)
THEOREM ServiceImplementsLedger == ASSUME ExactMatch PROVE Spec => ImplementsLedger
<1>1. RefineInv /\ [Next]_vars => RefineInv'
  BY RefineStep
<1>2. RefineInv /\ [Next]_vars => [Ledger!Next]_(Ledger!ledger)
  BY LedgerStep
<1> QED
  BY <1>1, <1>2, RefineInit, PTL DEF Spec, ImplementsLedger, Ledger!Spec

-----------------------------------------------------------------------------
(* What the ledger keeps, and the service with it: what is held or paid of    *)
(* an invoice is within what it was paid.                                    *)

OfBook(i, part, states) == {k \in Keys : InvoiceOf[k] = i /\ part[k] \in states}

BookFits(part, value) ==
    /\ part \in [Keys -> {"idle", "held", "paid", "void"}]
    /\ value \in [Keys -> Nat]
    /\ \A k \in Keys : part[k] # "idle" => value[k] >= 1
    /\ \A i \in Invoices :
          SumFunctionOnSet(value, OfBook(i, part, {"held", "paid"})) <= Amount[i]

Parts == [k \in Keys |-> PartOf(k)]
Amounts == [k \in Keys |-> op[k].amount]

Spent(i, states) == SumFunctionOnSet(Amounts, OfBook(i, Parts, states))

(* The refunds of an invoice that are under way or done. *)
WithinBalance == \A i \in Invoices : Spent(i, {"held", "paid"}) <= Amount[i]

(* Sums of parts are sums. *)
LEMMA BookSums ==
    ASSUME NEW value \in [Keys -> Nat], NEW S \in SUBSET Keys
    PROVE  Summable(value, S) /\ SumFunctionOnSet(value, S) \in Nat
<1>1. IsFiniteSet(S) /\ \A k \in S : value[k] \in Nat
  BY ConstantsAssumption, FS_Subset
<1> QED
  BY <1>1, SumIsNat DEF Summable

(* A part that is held where none is, within what is left, fits. *)
LEMMA HoldFits ==
    ASSUME NEW part, NEW value, BookFits(part, value), NEW k \in Keys, part[k] = "idle",
           OfBook(InvoiceOf[k], part, {"held"}) = {}, NEW a \in 1..Amount[InvoiceOf[k]],
           a + SumFunctionOnSet(value, OfBook(InvoiceOf[k], part, {"paid"})) <= Amount[InvoiceOf[k]]
    PROVE  BookFits([part EXCEPT ![k] = "held"], [value EXCEPT ![k] = a])
<1> DEFINE p == [part EXCEPT ![k] = "held"]
           v == [value EXCEPT ![k] = a]
           Both == {"held", "paid"}
<1>1. /\ part \in [Keys -> {"idle", "held", "paid", "void"}] /\ value \in [Keys -> Nat]
      /\ a \in Nat /\ a >= 1 /\ InvoiceOf[k] \in Invoices /\ \A i \in Invoices : Amount[i] \in Nat
  BY ConstantsAssumption DEF BookFits, RefundIds
<1>2. p \in [Keys -> {"idle", "held", "paid", "void"}] /\ v \in [Keys -> Nat]
  BY <1>1
<1>3. \A j \in Keys : p[j] # "idle" => v[j] >= 1
  BY <1>1 DEF BookFits
<1>4. ASSUME NEW i \in Invoices
      PROVE  SumFunctionOnSet(v, OfBook(i, p, Both)) <= Amount[i]
  <2> DEFINE S == OfBook(i, part, Both)
  <2>1. S \in SUBSET Keys /\ k \notin S
    BY DEF OfBook
  <2>2. SumFunctionOnSet(v, S) = SumFunctionOnSet(value, S)
    <3>1. Summable(value, S)
      BY <1>1, <2>1, BookSums
    <3>2. \A x \in S : value[x] = v[x]
      BY <1>1, <2>1
    <3> HIDE DEF v, S
    <3> QED
      BY <3>1, <3>2, SumSame
  <2>3. CASE InvoiceOf[k] # i
    <3>1. OfBook(i, p, Both) = S
      BY <1>1, <2>3 DEF OfBook
    <3> QED
      BY <2>2, <3>1 DEF BookFits
  <2>4. CASE InvoiceOf[k] = i
    <3>1. OfBook(i, p, Both) = S \cup {k} /\ S = OfBook(i, part, {"paid"})
      BY <1>1, <2>4 DEF OfBook
    <3>2. Summable(v, S) /\ v[k] = a /\ SumFunctionOnSet(v, S) \in Nat
      BY <1>1, <1>2, <2>1, BookSums
    <3> HIDE DEF v, S
    <3>3. SumFunctionOnSet(v, S \cup {k}) = a + SumFunctionOnSet(v, S)
      BY <1>1, <2>1, <3>2, SumWith
    <3> QED
      BY <2>2, <2>4, <3>1, <3>3
  <2> QED
    BY <2>3, <2>4
<1> QED
  BY <1>2, <1>3, <1>4 DEF BookFits

(* A held part that is paid out or given back fits. *)
LEMMA DecideFits ==
    ASSUME NEW part, NEW value, BookFits(part, value), NEW k \in Keys, part[k] = "held",
           NEW s \in {"paid", "void"}
    PROVE  BookFits([part EXCEPT ![k] = s], value)
<1> DEFINE p == [part EXCEPT ![k] = s]
           Both == {"held", "paid"}
<1>1. /\ part \in [Keys -> {"idle", "held", "paid", "void"}] /\ value \in [Keys -> Nat]
      /\ \A i \in Invoices : Amount[i] \in Nat
  BY ConstantsAssumption DEF BookFits
<1>2. ASSUME NEW i \in Invoices
      PROVE  SumFunctionOnSet(value, OfBook(i, p, Both)) <= Amount[i]
  <2>1. OfBook(i, p, Both) \subseteq OfBook(i, part, Both) /\ OfBook(i, part, Both) \in SUBSET Keys
    BY <1>1 DEF OfBook
  <2>2. IsFiniteSet(OfBook(i, part, Both)) /\ \A x \in OfBook(i, part, Both) : value[x] \in Nat
    BY <1>1, <2>1, ConstantsAssumption, FS_Subset
  <2>3. SumFunctionOnSet(value, OfBook(i, p, Both)) <= SumFunctionOnSet(value, OfBook(i, part, Both))
    BY <2>1, <2>2, SumOfSubset
  <2>4. SumFunctionOnSet(value, OfBook(i, p, Both)) \in Nat
        /\ SumFunctionOnSet(value, OfBook(i, part, Both)) \in Nat
    BY <1>1, <2>1, BookSums
  <2>5. SumFunctionOnSet(value, OfBook(i, part, Both)) <= Amount[i]
    BY DEF BookFits
  <2> HIDE DEF p
  <2> QED
    BY <1>1, <2>3, <2>4, <2>5
<1>3. p \in [Keys -> {"idle", "held", "paid", "void"}] /\ \A j \in Keys : p[j] # "idle" => value[j] >= 1
  BY <1>1 DEF BookFits
<1> QED
  BY <1>1, <1>2, <1>3 DEF BookFits

(* Whatever the service does, its books fit. *)
LEMMA BooksStep ==
    ASSUME ExactMatch, RefineInv, [Next]_vars, BookFits(Parts, Amounts)
    PROVE  BookFits(Parts, Amounts)'
<1>1. [Ledger!Next]_(Ledger!ledger)
  BY LedgerStep
<1>2. CASE Ledger!Next
  <2>1. PICK k \in Keys : Ledger!Hold(k) \/ Ledger!PayOut(k) \/ Ledger!GiveBack(k)
    BY <1>2 DEF Ledger!Next
  <2>2. CASE Ledger!Hold(k)
    <3> DEFINE i == InvoiceOf[k]
    <3>1. PICK a \in 1..Amount[i] :
            /\ a + Ledger!PaidOut(i) <= Amount[i]
            /\ Amounts' = [Amounts EXCEPT ![k] = a]
      BY <2>2 DEF Ledger!Hold, Amounts
    <3>2. /\ Parts[k] = "idle" /\ Parts' = [Parts EXCEPT ![k] = "held"]
          /\ OfBook(i, Parts, {"held"}) = {}
      BY <2>2 DEF Ledger!Hold, Ledger!OfInvoice, OfBook, Parts
    <3>3. Ledger!PaidOut(i) = SumFunctionOnSet(Amounts, OfBook(i, Parts, {"paid"}))
      <4>1. Ledger!OfInvoice(i, {"paid"}) = OfBook(i, Parts, {"paid"})
        BY DEF Ledger!OfInvoice, OfBook, Parts
      <4>2. Ledger!PaidOut(i) = SumFunctionOnSet(Amounts, Ledger!OfInvoice(i, {"paid"}))
        BY LedgerSums DEF Ledger!PaidOut, Amounts
      <4> QED
        BY <4>1, <4>2
    <3>4. BookFits([Parts EXCEPT ![k] = "held"], [Amounts EXCEPT ![k] = a])
      BY <3>1, <3>2, <3>3, HoldFits
    <3> QED
      BY <3>1, <3>2, <3>4
  <2>3. CASE Ledger!PayOut(k) \/ Ledger!GiveBack(k)
    <3>1. PICK s \in {"paid", "void"} :
            Parts[k] = "held" /\ Parts' = [Parts EXCEPT ![k] = s] /\ Amounts' = Amounts
      BY <2>3 DEF Ledger!PayOut, Ledger!GiveBack, Parts, Amounts
    <3> QED
      BY <3>1, DecideFits
  <2> QED
    BY <2>1, <2>2, <2>3
<1>3. CASE UNCHANGED Ledger!ledger
  <2>1. Parts' = Parts /\ Amounts' = Amounts
    BY <1>3 DEF Ledger!ledger, Parts, Amounts
  <2> QED
    BY <2>1
<1> QED
  BY <1>1, <1>2, <1>3

(* In the beginning nothing is held. *)
LEMMA BooksInit == Init => BookFits(Parts, Amounts)
<1> SUFFICES ASSUME Init PROVE BookFits(Parts, Amounts)
  OBVIOUS
<1>1. Parts = [k \in Keys |-> "idle"] /\ Amounts = [k \in Keys |-> 0]
  BY DEF Init, Parts, Amounts, PartOf
<1>2. ASSUME NEW i \in Invoices
      PROVE  SumFunctionOnSet(Amounts, OfBook(i, Parts, {"held", "paid"})) <= Amount[i]
  <2>1. OfBook(i, Parts, {"held", "paid"}) = {}
    BY <1>1 DEF OfBook
  <2>2. SumFunctionOnSet(Amounts, {}) = 0
    BY SumEmpty
  <2> QED
    BY <2>1, <2>2, ConstantsAssumption
<1> QED
  BY <1>1, <1>2 DEF BookFits

(* Refunds of an invoice, under way or done, never exceed what it was paid,  *)
(* although the provider may check nothing and a closed operation may become *)
(* active again (payment-refund.service.ts:43-75, the reserved balance).     *)
THEOREM NeverOverRefunded == ASSUME ExactMatch PROVE Spec => []WithinBalance
<1>1. Init => RefineInv /\ BookFits(Parts, Amounts)
  BY RefineInit, BooksInit
<1>2. RefineInv /\ BookFits(Parts, Amounts) /\ [Next]_vars => RefineInv' /\ BookFits(Parts, Amounts)'
  BY RefineStep, BooksStep
<1>3. BookFits(Parts, Amounts) => WithinBalance
  BY DEF BookFits, WithinBalance, Spent
<1> QED
  BY <1>1, <1>2, <1>3, PTL DEF Spec

-----------------------------------------------------------------------------
(* A full refund suspends the company. *)

(* Between its reservation and the answer of the provider the operation of a  *)
(* request is left as it was reserved.                                       *)
Requested(k) == pc[k] \in {"post", "refused"} => op[k].status = "PROCESSING" /\ op[k].age = 0

(* What is on record, or in a list that was read, has been paid out.         *)
RecordsFit ==
    /\ \A i \in Invoices : invoice[i].refunded <= Spent(i, {"paid"})
    /\ \A p \in Proc : snap[p] # NoSnap => snap[p].total <= Spent(snap[p].inv, {"paid"})

BackedInv ==
    /\ RefineInv
    /\ BookFits(Parts, Amounts)
    /\ \A k \in Keys : Requested(k)
    /\ RecordsFit

(* Only the request itself moves an operation that it has reserved. *)
LEMMA RequestedStep ==
    ASSUME ExactMatch, ClosureInv, \A k \in Keys : Requested(k), [Next]_vars, NEW k \in Keys
    PROVE  Requested(k)'
<1>1. /\ TypeOK /\ PostsInv /\ KeysFit /\ ListsFit /\ op[k] \in Operations /\ pc \in [Keys -> Pcs]
      /\ Fits(op[k], remote[k], pc[k]) /\ Requested(k)
  BY DEF ClosureInv, PostsInv, TypeOK, KeysFit
<1>2. CASE op'[k] = op[k] /\ pc'[k] \in {pc[k], "idle"}
  BY <1>1, <1>2 DEF Requested
<1>3. ASSUME NEW j \in Keys, Request(j)
      PROVE  Requested(k)'
  <2>1. CASE RepeatRequest(j)
    BY <1>1, <1>3, <2>1 DEF Request, RepeatRequest, Requested
  <2>2. CASE Reserve(j)
    <3>1. PICK a : /\ op' = [op EXCEPT ![j].status = "PROCESSING", ![j].amount = a]
                   /\ pc' = [pc EXCEPT ![j] = "post"] /\ op[j].status = "NONE"
      BY <2>2 DEF Reserve, MayReserve
    <3>2. CASE j = k
      <4>1. op[k].age = 0
        BY <1>1, <3>1, <3>2 DEF Fits
      <4> QED
        BY <1>1, <3>1, <3>2, <4>1 DEF Requested, TypeOK, Operations
    <3>3. CASE j # k
      BY <1>1, <1>2, <3>1, <3>3 DEF TypeOK
    <3> QED
      BY <3>2, <3>3
  <2> QED
    BY <1>3, <2>1, <2>2 DEF Request
<1>4. ASSUME NEW j \in Keys, Post(j) \/ CrashWhilePosting(j)
      PROVE  Requested(k)'
  <2>1. /\ op' = op /\ pc[j] = "post"
        /\ \E c \in Pcs : pc' = [pc EXCEPT ![j] = c]
    BY <1>4 DEF Post, Accepted, Refused, AnswerLost, CrashWhilePosting
  <2> QED
    BY <1>1, <2>1 DEF Requested
<1>5. ASSUME NEW j \in Keys, PersistAnswer(j) \/ MarkUnknown(j) \/ FailReservation(j)
                             \/ ReadFails(j) \/ AfterEmit(j) \/ Answer(j) \/ TakeAnswer(j)
      PROVE  Requested(k)'
  <2>1. /\ \E c \in Pcs \ {"post", "refused"} : pc' = [pc EXCEPT ![j] = c]
        /\ j # k => op'[k] = op[k]
    BY <1>1, <1>5 DEF PersistAnswer, MarkUnknown, FailReservation, ReadFails, AfterEmit, Answer,
                TakeAnswer, ExactMatch, TypeOK
  <2> QED
    BY <1>1, <2>1 DEF Requested
<1>6. ASSUME NEW p \in Proc, CommitReconcile(p)
      PROVE  Requested(k)'
  <2> DEFINE seen == snap[p].seen
             s == Outcome(k, seen)
             b == op[k].review \/ NeedsReview(k, seen)
  <2>1. /\ snap[p] # NoSnap
        /\ pc'[k] = pc[k] \/ pc'[k] \in {"emit", "unknown"}
        /\ op' = op \/ op' = Applied(snap[p].inv, seen)
    BY <1>1, <1>6 DEF CommitReconcile, ApplySnapshot
  <2>2. CASE op'[k] = op[k] \/ pc'[k] \notin {"post", "refused"}
    BY <1>1, <2>1, <2>2 DEF Requested
  <2>3. CASE op'[k] # op[k] /\ pc'[k] \in {"post", "refused"}
    <3>1. /\ k \in ActiveOps(snap[p].inv)
          /\ op'[k] = [op[k] EXCEPT !.status = s, !.review = b]
      BY <2>1, <2>3 DEF Applied
    <3> HIDE DEF s, b
    <3>2. /\ InvoiceOf[k] = snap[p].inv
          /\ op'[k].status = s /\ op'[k].age = op[k].age
      BY <1>1, <3>1 DEF ActiveOps, Operations
    <3>3. ListFits(k, seen)
      BY <1>1, <2>1, <3>2 DEF ListsFit
    <3>4. pc[k] \in {"post", "refused"} /\ op[k].status = "PROCESSING" /\ op[k].age = 0 /\ remote[k] = "none"
      BY <1>1, <2>1, <2>3 DEF Requested, Fits
    <3>5. seen \in [RefundIds -> {"none"} \cup Visible]
      BY <1>1, <2>1 DEF TypeOK, Snapshots
    <3>6. /\ s = "CONFIRMED" => seen[k] = "done"
          /\ s = "FAILED" => seen[k] = "cancelled" \/ (seen[k] = "none" /\ op[k].age > 0)
      BY <1>1, <3>4, <3>5, OutcomeIsSeen DEF s
    <3>7. s \in {"CONFIRMED", "FAILED", op[k].status}
      BY OutcomeStatus DEF s
    <3> QED
      BY <3>2, <3>3, <3>4, <3>6, <3>7 DEF ListFits, Requested
  <2> QED
    BY <2>2, <2>3
<1>7. ASSUME NEW p \in Proc, Crash(p) \/ (\E i \in Invoices : ReadRemote(p, i))
                             \/ (\E e \in SettledEvents : EmitSettled(p, e))
      PROVE  Requested(k)'
  <2>1. op' = op /\ (pc' = pc \/ \E c \in {"commit", "idle"} : pc' = [pc EXCEPT ![p] = c])
    BY <1>7 DEF Crash, ReadRemote, EmitSettled
  <2> QED
    BY <1>1, <2>1 DEF Requested
<1>8. ASSUME NEW j \in Keys, Age(j)
      PROVE  Requested(k)'
  <2>1. pc' = pc /\ pc[j] \in Resting /\ op' = [op EXCEPT ![j].age = @ + 1]
    BY <1>8 DEF Age
  <2> QED
    BY <1>1, <2>1 DEF Requested, Resting, TypeOK
<1>9. CASE (\E j \in Keys : Provide(j)) \/ (\E x \in PanelRefunds : PanelRefund(x))
           \/ (\E i \in Invoices : Chargeback(i)) \/ Reactivate \/ UNCHANGED vars
  BY <1>2, <1>9 DEF Provide, LatePost, ProviderSettles, PanelRefund, Chargeback, Reactivate, vars
<1> QED
  BY <1>3, <1>4, <1>5, <1>6, <1>7, <1>8, <1>9 DEF Next, Serve, Reconcile, Environment

(* What was paid out stays paid out. *)
LEMMA PaidKeeps ==
    ASSUME NEW p, NEW v, NEW q, NEW w, BookFits(p, v), BookFits(q, w), NEW i \in Invoices,
           \A k \in Keys : p[k] = "paid" => q[k] = "paid" /\ w[k] = v[k]
    PROVE  /\ SumFunctionOnSet(v, OfBook(i, p, {"paid"})) \in Nat
           /\ SumFunctionOnSet(w, OfBook(i, q, {"paid"})) \in Nat
           /\ SumFunctionOnSet(v, OfBook(i, p, {"paid"})) <= SumFunctionOnSet(w, OfBook(i, q, {"paid"}))
<1> DEFINE S == OfBook(i, p, {"paid"})
           T == OfBook(i, q, {"paid"})
<1>1. S \subseteq T /\ T \in SUBSET Keys /\ S \in SUBSET Keys /\ \A k \in S : v[k] = w[k]
  BY DEF OfBook
<1>2. /\ v \in [Keys -> Nat] /\ w \in [Keys -> Nat]
      /\ Summable(v, S) /\ SumFunctionOnSet(v, S) \in Nat /\ SumFunctionOnSet(w, T) \in Nat
      /\ IsFiniteSet(T)
  BY <1>1, BookSums, ConstantsAssumption, FS_Subset DEF BookFits
<1> HIDE DEF S, T
<1>3. SumFunctionOnSet(v, S) = SumFunctionOnSet(w, S)
  BY <1>1, <1>2, SumSame
<1>4. SumFunctionOnSet(w, S) <= SumFunctionOnSet(w, T)
  <2>1. \A k \in T : w[k] \in Nat
    BY <1>1, <1>2
  <2> QED
    BY <1>1, <1>2, <2>1, SumOfSubset
<1> QED
  BY <1>2, <1>3, <1>4 DEF S, T

(* What is paid out of an invoice never becomes less. *)
LEMMA SpentGrows ==
    ASSUME ExactMatch, RefineInv, BookFits(Parts, Amounts), [Next]_vars, NEW i \in Invoices
    PROVE  /\ Spent(i, {"paid"}) \in Nat /\ Spent(i, {"paid"})' \in Nat
           /\ Spent(i, {"paid"}) <= Spent(i, {"paid"})'
<1>1. BookFits(Parts, Amounts)'
  BY BooksStep
<1>2. ASSUME NEW k \in Keys, PartOf(k) = "paid"
      PROVE  PartOf(k)' = "paid" /\ op'[k].amount = op[k].amount
  <2>1. CASE \E j \in Keys : Request(j) /\ Reserve(j)
    <3>1. PICK j \in Keys : Request(j) /\ Reserve(j)
      BY <2>1
    <3>2. Ledger!Hold(j)
      BY <3>1, ReserveHolds DEF RefineInv
    <3>3. Parts[j] = "idle" /\ Parts' = [Parts EXCEPT ![j] = "held"]
          /\ \E a : Amounts' = [Amounts EXCEPT ![j] = a]
      BY <3>2 DEF Ledger!Hold, Parts, Amounts
    <3>4. Parts'[k] = Parts[k] /\ Amounts'[k] = Amounts[k]
      BY <1>2, <3>3 DEF Parts
    <3> QED
      BY <1>2, <3>4 DEF Parts, Amounts
  <2>2. CASE ~(\E j \in Keys : Request(j) /\ Reserve(j))
    BY <1>2, <2>2, PartsMove DEF Moves, RefineInv
  <2> QED
    BY <2>1, <2>2
<1>3. \A k \in Keys : Parts[k] = "paid" => Parts'[k] = "paid" /\ Amounts'[k] = Amounts[k]
  BY <1>2 DEF Parts, Amounts
<1>4. PICK q, w : q = Parts' /\ w = Amounts'
  OBVIOUS
<1>5. BookFits(q, w) /\ \A k \in Keys : Parts[k] = "paid" => q[k] = "paid" /\ w[k] = Amounts[k]
  BY <1>1, <1>3, <1>4
<1>6. /\ Spent(i, {"paid"}) \in Nat
      /\ SumFunctionOnSet(w, OfBook(i, q, {"paid"})) \in Nat
      /\ Spent(i, {"paid"}) <= SumFunctionOnSet(w, OfBook(i, q, {"paid"}))
  BY <1>5, PaidKeeps DEF Spent
<1> QED
  BY <1>4, <1>6 DEF Spent

(* The total of a list is what was paid out when it was read. *)
LEMMA ListTotal ==
    ASSUME PostsInv, KeysFit, PanelRefunds = {}, NEW i \in Invoices
    PROVE  DoneTotal(SeenNow(i)) = Spent(i, {"paid"})
<1> DEFINE done == {x \in RefundIds : SeenNow(i)[x] = "done"}
<1>1. RefundIds = Keys /\ op \in [Keys -> Operations]
  BY DEF RefundIds, PostsInv, TypeOK
<1>2. ASSUME NEW k \in Keys
      PROVE  PartOf(k) = "paid" <=> remote[k] = "done"
  BY <1>2 DEF KeysFit, Fits, PartOf
<1>3. done = OfBook(i, Parts, {"paid"})
  BY <1>1, <1>2 DEF SeenNow, OfBook, Parts
<1>4. done \in SUBSET Keys /\ IsFiniteSet(done)
  BY <1>1, ConstantsAssumption, FS_Subset
<1>5. \A x \in done : Values[x] = Amounts[x] /\ Values[x] \in Int
  BY <1>1, <1>4 DEF Values, Amounts, Operations
<1>6. Summable(Values, done)
  BY <1>4, <1>5 DEF Summable
<1>7. DoneTotal(SeenNow(i)) = SumFunctionOnSet(Values, done)
  BY DEF DoneTotal
<1> HIDE DEF done
<1>8. SumFunctionOnSet(Values, done) = SumFunctionOnSet(Amounts, done)
  BY <1>5, <1>6, SumSame
<1> QED
  BY <1>3, <1>7, <1>8 DEF Spent

(* Every step keeps the recorded amounts within what was paid out. *)
LEMMA RecordsStep ==
    ASSUME ExactMatch, PanelRefunds = {}, BackedInv, [Next]_vars
    PROVE  RecordsFit'
<1>1. TypeOK /\ PostsInv /\ KeysFit /\ RefineInv /\ BookFits(Parts, Amounts) /\ RecordsFit
  BY DEF BackedInv, RefineInv, ClosureInv, PostsInv
<1>2. ASSUME NEW i \in Invoices
      PROVE  invoice'[i].refunded <= Spent(i, {"paid"})'
  <2>1. PICK now : now = Spent(i, {"paid"})
    OBVIOUS
  <2>2. PICK next : next = Spent(i, {"paid"})'
    OBVIOUS
  <2>3. now \in Nat /\ next \in Nat /\ now <= next
    BY <1>1, <2>1, <2>2, SpentGrows
  <2>4. invoice[i].refunded \in Nat /\ invoice[i].refunded <= now
    BY <1>1, <2>1 DEF RecordsFit, TypeOK, InvoiceRows
  <2>5. invoice'[i].refunded <= now
    <3>1. CASE invoice'[i].refunded = invoice[i].refunded
      BY <2>4, <3>1
    <3>2. ASSUME NEW p \in Proc, snap[p] # NoSnap, snap[p].inv = i, snap[p].total \in Nat,
                 invoice'[i].refunded = Larger(snap[p].total, invoice[i].refunded)
          PROVE  invoice'[i].refunded <= now
      <4>1. snap[p].total <= now
        BY <1>1, <2>1, <3>2 DEF RecordsFit
      <4>2. invoice'[i].refunded \in {snap[p].total, invoice[i].refunded}
        BY <2>4, <3>2, LargerIsNat
      <4> QED
        BY <2>4, <4>1, <4>2
    <3> QED
      BY <1>1, <3>1, <3>2, RefundedMoves
  <2>6. invoice'[i].refunded \in Nat
    BY <1>1, TypeStep DEF TypeOK, InvoiceRows
  <2> QED
    BY <2>2, <2>3, <2>5, <2>6
<1>3. ASSUME NEW p \in Proc, snap'[p] # NoSnap
      PROVE  snap'[p].total <= Spent(snap[p].inv, {"paid"})'
  <2>1. PICK i : i = snap'[p].inv
    OBVIOUS
  <2>2. i \in Invoices /\ snap'[p].total \in Nat
    BY <1>1, <1>3, <2>1, TypeStep DEF TypeOK, Snapshots
  <2>3. PICK now : now = Spent(i, {"paid"})
    OBVIOUS
  <2>4. PICK next : next = Spent(i, {"paid"})'
    OBVIOUS
  <2>5. now \in Nat /\ next \in Nat /\ now <= next
    BY <1>1, <2>2, <2>3, <2>4, SpentGrows
  <2>6. snap'[p].total <= now
    <3>1. CASE snap'[p] = snap[p]
      BY <1>1, <1>3, <2>1, <2>3, <3>1 DEF RecordsFit
    <3>2. CASE snap'[p] # snap[p]
      <4>1. PICK j \in Invoices : ReadRemote(p, j)
        BY <1>1, <1>3, <3>2, WhoReads
      <4>2. snap'[p].inv = j /\ snap'[p].total = DoneTotal(SeenNow(j))
        BY <1>1, <4>1 DEF ReadRemote, TypeOK
      <4>3. snap'[p].total = now
        BY <1>1, <2>1, <2>3, <4>2, ListTotal
      <4> QED
        BY <2>5, <4>3
    <3> QED
      BY <3>1, <3>2
  <2>7. snap'[p].total <= next
    BY <2>2, <2>5, <2>6
  <2>8. Spent(snap[p].inv, {"paid"})' = next
    BY <2>1, <2>4
  <2> QED
    BY <2>7, <2>8
<1> QED
  BY <1>2, <1>3 DEF RecordsFit

(* A refusal gives back a part that was not paid out: no refund is completed. *)
LEMMA RefusalCompletesNothing ==
    ASSUME BackedInv, NEW k \in Keys, FailReservation(k), NEW i \in Invoices
    PROVE  ~BecomesFullyRefunded(i)
<1>1. /\ TypeOK /\ pc[k] = "refused" /\ Fits(op[k], remote[k], pc[k])
      /\ BookFits(Parts, Amounts) /\ InvoiceOf[k] \in Invoices /\ Amount[i] \in Nat
      /\ invoice[i].refunded \in Nat /\ invoice[i] \in InvoiceRows /\ Requested(k)
  BY ConstantsAssumption
     DEF BackedInv, RefineInv, ClosureInv, PostsInv, KeysFit, FailReservation, RefundIds, TypeOK, InvoiceRows
<1> SUFFICES ASSUME BecomesFullyRefunded(i) PROVE FALSE
  OBVIOUS
<1>2. InvoiceOf[k] = i /\ invoice[i].refunded >= Amount[i]
  <2> DEFINE pending == ActiveOps(InvoiceOf[k]) \ {k} # {}
             s(j) == StatusFor(pending, invoice[j].refunded, Amount[j])
  <2>1. invoice' = invoice \/ invoice' = [invoice EXCEPT ![InvoiceOf[k]].refundStatus = s(InvoiceOf[k])]
    BY DEF FailReservation
  <2>2. InvoiceOf[k] = i /\ s(i) = "REFUNDED"
    <3> HIDE DEF s
    <3> QED
      BY <1>1, <2>1 DEF BecomesFullyRefunded, TypeOK, InvoiceRows
  <2> QED
    BY <2>2 DEF StatusFor
<1>3. k \notin OfBook(i, Parts, {"paid"}) /\ OfBook(i, Parts, {"paid"}) \cup {k} \subseteq OfBook(i, Parts, {"held", "paid"})
  <2>1. PartOf(k) = "held"
    BY <1>1 DEF Requested, Fits, PartOf
  <2> QED
    BY <1>2, <2>1 DEF OfBook, Parts
<1> DEFINE S == OfBook(i, Parts, {"paid"})
           T == OfBook(i, Parts, {"held", "paid"})
<1>4. T \in SUBSET Keys /\ S \in SUBSET Keys /\ S \cup {k} \in SUBSET Keys /\ IsFiniteSet(T)
  BY ConstantsAssumption, FS_Subset DEF OfBook
<1>5. /\ Amounts \in [Keys -> Nat] /\ Amounts[k] >= 1 /\ Amounts[k] \in Nat
      /\ SumFunctionOnSet(Amounts, T) <= Amount[i]
  <2>1. Parts[k] # "idle"
    BY <1>3 DEF OfBook
  <2> QED
    BY <1>1, <2>1 DEF BookFits
<1>6. /\ Summable(Amounts, S) /\ SumFunctionOnSet(Amounts, S) \in Nat
      /\ SumFunctionOnSet(Amounts, S \cup {k}) \in Nat /\ SumFunctionOnSet(Amounts, T) \in Nat
  BY <1>4, <1>5, BookSums
<1>7. invoice[i].refunded <= SumFunctionOnSet(Amounts, S)
  BY DEF BackedInv, RecordsFit, Spent
<1> HIDE DEF S, T
<1>8. k \notin S /\ S \cup {k} \subseteq T
  BY <1>3 DEF S, T
<1>9. SumFunctionOnSet(Amounts, S \cup {k}) = Amounts[k] + SumFunctionOnSet(Amounts, S)
  BY <1>5, <1>6, <1>8, SumWith
<1>10. SumFunctionOnSet(Amounts, S \cup {k}) <= SumFunctionOnSet(Amounts, T)
  <2>1. \A x \in T : Amounts[x] \in Nat
    BY <1>4, <1>5
  <2> QED
    BY <1>4, <1>8, <2>1, SumOfSubset
<1> QED
  BY <1>1, <1>2, <1>5, <1>6, <1>7, <1>9, <1>10

(* The step that completes the refund of the payment the company's access     *)
(* rests on suspends it: it is always a reconciliation, as long as a refund   *)
(* in the provider's list can be told from the others and nobody refunds in   *)
(* the panel (payment-refund.service.ts:101-131).                            *)
THEOREM FullRefundSuspendsTheCompany ==
    ASSUME ExactMatch, PanelRefunds = {} PROVE Spec => FullRefundSuspends
<1>1. Init => BackedInv
  <2> SUFFICES ASSUME Init PROVE BackedInv
    OBVIOUS
  <2>1. RefineInv /\ BookFits(Parts, Amounts)
    BY RefineInit, BooksInit
  <2>2. \A k \in Keys : Requested(k)
    BY DEF Init, Requested
  <2>3. \A p \in Proc : snap[p] = NoSnap
    BY DEF Init
  <2>4. ASSUME NEW i \in Invoices
        PROVE  invoice[i].refunded <= Spent(i, {"paid"})
    <3>1. Spent(i, {"paid"}) \in Nat
      BY <2>1, BookSums DEF BookFits, Spent, OfBook
    <3>2. invoice[i].refunded = 0
      BY DEF Init
    <3> QED
      BY <3>1, <3>2
  <2> QED
    BY <2>1, <2>2, <2>3, <2>4 DEF BackedInv, RecordsFit
<1>2. BackedInv /\ [Next]_vars => BackedInv'
  <2> SUFFICES ASSUME BackedInv, [Next]_vars PROVE BackedInv'
    OBVIOUS
  <2>1. RefineInv' /\ BookFits(Parts, Amounts)'
    BY RefineStep, BooksStep DEF BackedInv
  <2>2. \A k \in Keys : Requested(k)'
    BY RequestedStep DEF BackedInv, RefineInv
  <2>3. RecordsFit'
    BY RecordsStep
  <2> QED
    BY <2>1, <2>2, <2>3 DEF BackedInv
<1>3. BackedInv /\ [Next]_vars =>
        [\A i \in Invoices : /\ BecomesFullyRefunded(i) /\ invoice[i].status = "PAID"
                             /\ company = "ACTIVE" /\ ~LaterPaid(i)
                             => company' = "SUSPENDED"]_vars
  <2> SUFFICES ASSUME BackedInv, [Next]_vars, NEW i \in Invoices, BecomesFullyRefunded(i),
                      invoice[i].status = "PAID", company = "ACTIVE", ~LaterPaid(i)
               PROVE  company' = "SUSPENDED"
    OBVIOUS
  <2>0. TypeOK /\ invoice[i] \in InvoiceRows /\ invoice' # invoice
    BY DEF BackedInv, RefineInv, ClosureInv, PostsInv, TypeOK, BecomesFullyRefunded
  <2>1. ASSUME NEW k \in Keys, Request(k)
        PROVE  FALSE
    BY <2>0, <2>1 DEF Request, RepeatRequest, Reserve, BecomesFullyRefunded, TypeOK, InvoiceRows
  <2>2. ASSUME NEW k \in Keys, FailReservation(k)
        PROVE  FALSE
    BY <2>2, RefusalCompletesNothing
  <2>3. ASSUME NEW j \in Invoices, Chargeback(j)
        PROVE  FALSE
    BY <2>0, <2>3 DEF Chargeback, BecomesFullyRefunded, TypeOK, InvoiceRows
  <2>4. ASSUME NEW p \in Proc, CommitReconcile(p)
        PROVE  company' = "SUSPENDED"
    <3> DEFINE j == snap[p].inv
               settled == {k \in ActiveOps(j) : Outcome(k, snap[p].seen) \in {"CONFIRMED", "FAILED"}}
               refunded == Larger(snap[p].total, invoice[j].refunded)
               status == StatusFor(ActiveOps(j) # settled, refunded, Amount[j])
    <3>1. /\ invoice' = [invoice EXCEPT ![j].refunded = refunded, ![j].refundStatus = status]
          /\ company' = IF SuspendsFor(j, status) THEN "SUSPENDED" ELSE company
      BY <2>0, <2>4 DEF CommitReconcile, ApplySnapshot
    <3> HIDE DEF refunded, status, j
    <3>2. j = i /\ status = "REFUNDED"
      BY <2>0, <3>1 DEF BecomesFullyRefunded, TypeOK, InvoiceRows
    <3> QED
      BY <3>1, <3>2 DEF SuspendsFor, BecomesFullyRefunded
  <2> QED
    BY <2>0, <2>1, <2>2, <2>3, <2>4, WhoWritesInvoices
<1> QED
  BY <1>1, <1>2, <1>3, PTL DEF Spec, FullRefundSuspends

-----------------------------------------------------------------------------
(* The tickets above the refund service: they use it as anybody may, and a    *)
(* large refund is reserved with the approval of two people only.            *)

(* The rows and calls are what their names say, whatever their amounts. *)
Shapes ==
    /\ DOMAIN ticket = Keys /\ DOMAIN call = Approvers /\ DOMAIN dispatch = Keys
    /\ \A k \in Keys :
          /\ DOMAIN ticket[k] = {"status", "amount", "linked", "first", "second"}
          /\ DOMAIN dispatch[k] = {"at", "from", "got"}
    /\ \A a \in Approvers : call[a] # NoCall => call[a].ticket \in Keys

Approved(k) ==
    /\ Nobody \notin {ticket[k].first, ticket[k].second}
    /\ ticket[k].first # ticket[k].second

(* A dispatch that is about to reserve has its approvals, and nobody can     *)
(* claim its ticket anew; a ticket that had a first approval keeps it.       *)
ApprovalFits(k) ==
    /\ dispatch[k].at \in {"announce", "request"} =>
          /\ ticket[k].status \notin {"NONE", "DRAFT"} \cup Waiting
          /\ Dual(k) => Approved(k)
    /\ "AWAITING_SECOND_APPROVAL" \in {ticket[k].status, dispatch[k].from} =>
          ticket[k].first # Nobody

ApprovalsFit == \A k \in Keys : ApprovalFits(k)

SupportInv == PostsInv /\ Shapes /\ ApprovalsFit

-----------------------------------------------------------------------------
(* Beneath the tickets. *)

(* A step of the tickets is a step of the refund service, or leaves it. *)
LEMMA StepBeneath == [SupportNext]_allVars => [Next]_vars
<1> SUFFICES ASSUME [SupportNext]_allVars PROVE [Next]_vars
  OBVIOUS
<1>1. ASSUME NEW k \in Keys,
             ReadBalance(k) \/ CreateTicket(k) \/ Reject(k) \/ CrashDispatch(k)
      PROVE  UNCHANGED vars
  BY <1>1 DEF ReadBalance, CreateTicket, Reject, CrashDispatch
<1>2. ASSUME NEW k \in Keys, RunDispatch(k)
      PROVE  UNCHANGED vars \/ Request(k) \/ TakeAnswer(k)
  BY <1>2 DEF RunDispatch, Announce, DispatchRequest, RequestRefused, RequestReturns, Link,
     SettleDispatch
<1>3. ASSUME NEW a \in Approvers, Approve(a) \/ \E k \in Keys : LoadTicket(a, k)
      PROVE  UNCHANGED vars
  BY <1>3 DEF Approve, LoadTicket
<1>4. ASSUME NEW p \in Proc, CrashTogether(p) \/ \E e \in SettledEvents : HandleSettled(p, e)
      PROVE  Next
  BY <1>4 DEF CrashTogether, HandleSettled, Next, Environment, Reconcile
<1>5. CASE RefundStep
  BY <1>5 DEF RefundStep, Next, Environment, Reconcile
<1>6. CASE UNCHANGED allVars
  BY <1>6 DEF allVars
<1>7. ASSUME NEW k \in Keys, Request(k) \/ TakeAnswer(k)
      PROVE  Next
  BY <1>7 DEF Next
<1> QED
  BY <1>1, <1>2, <1>3, <1>4, <1>5, <1>6, <1>7 DEF SupportNext

(* Tickets use the refund service as any caller may: every theorem of        *)
(* this module holds of the refunds that tickets ask for.            *)
THEOREM ServiceBeneathTickets == SupportSpec => Spec
<1>1. SupportInit => Init
  BY DEF SupportInit
<1> QED
  BY <1>1, StepBeneath, PTL DEF SupportSpec, Spec

(* Only a dispatch reserves: no other step gives a key its operation. *)
LEMMA OnlyDispatchReserves ==
    ASSUME PostsInv, SupportNext, NEW k \in Keys, op[k].status = "NONE", op'[k].status # "NONE"
    PROVE  DispatchRequest(k)
<1>1. op[k] \in Operations /\ pc[k] = "idle" /\ op \in [Keys -> Operations]
  BY DEF PostsInv, TypeOK
<1>2. ASSUME NEW j \in Keys, Request(j) PROVE j = k
  BY <1>1, <1>2 DEF Request, RepeatRequest, Reserve
<1>3. ASSUME NEW j \in Keys, Serve(j) PROVE FALSE
  <2>1. CASE PersistAnswer(j) \/ FailReservation(j)
    BY <1>1, <2>1 DEF PersistAnswer, FailReservation
  <2>2. CASE MarkUnknown(j)
    BY <1>1, <2>2 DEF MarkUnknown, Active
  <2>3. CASE Post(j) \/ ReadFails(j) \/ AfterEmit(j) \/ Answer(j)
    BY <2>3 DEF Post, ReadFails, AfterEmit, Answer
  <2> QED
    BY <1>3, <2>1, <2>2, <2>3 DEF Serve
<1>4. ASSUME NEW p \in Proc, CommitReconcile(p) PROVE FALSE
  <2>1. CASE op' = Applied(snap[p].inv, snap[p].seen)
    BY <1>1, <2>1 DEF Applied, ActiveOps, Active
  <2>2. CASE op' = op
    BY <2>2
  <2> QED
    BY <1>4, <2>1, <2>2 DEF CommitReconcile, ApplySnapshot
<1>5. ASSUME NEW j \in Keys, Age(j) PROVE FALSE
  BY <1>1, <1>5 DEF Age, Active
<1>6. CASE RefundStep
  BY <1>3, <1>4, <1>5, <1>6
     DEF RefundStep, Provide, LatePost, ProviderSettles, PanelRefund, ReadRemote, Chargeback,
         Reactivate
<1>7. ASSUME NEW j \in Keys, RunDispatch(j) PROVE DispatchRequest(k)
  <2>1. op' = op \/ DispatchRequest(j)
    BY <1>7 DEF RunDispatch, Announce, RequestRefused, RequestReturns, TakeAnswer, Link,
       SettleDispatch, vars
  <2> QED
    BY <1>2, <2>1 DEF DispatchRequest
<1>8. ASSUME NEW j \in Keys, ReadBalance(j) \/ CreateTicket(j) \/ Reject(j) \/ CrashDispatch(j)
      PROVE  FALSE
  BY <1>8 DEF ReadBalance, CreateTicket, Reject, CrashDispatch, vars
<1>9. ASSUME NEW a \in Approvers, Approve(a) \/ \E j \in Keys : LoadTicket(a, j)
      PROVE  FALSE
  BY <1>9 DEF Approve, LoadTicket, vars
<1>10. ASSUME NEW p \in Proc, CrashTogether(p) \/ \E e \in SettledEvents : HandleSettled(p, e)
       PROVE  FALSE
  BY <1>10 DEF CrashTogether, HandleSettled, Crash, CrashWhilePosting, EmitSettled
<1> QED
  BY <1>6, <1>7, <1>8, <1>9, <1>10 DEF SupportNext

-----------------------------------------------------------------------------
(* The approvals. *)

(* A step that leaves the row of a ticket and its dispatch leaves it fitting. *)
LEMMA ApprovalStays ==
    ASSUME NEW k \in Keys, ApprovalFits(k), ticket'[k] = ticket[k],
           \/ dispatch'[k] = dispatch[k]
           \/ dispatch'[k] = NoDispatch
           \/ /\ dispatch'[k].from = dispatch[k].from
              /\ dispatch'[k].at \in {"announce", "request"} =>
                    dispatch[k].at \in {"announce", "request"}
    PROVE  ApprovalFits(k)'
  BY DEF ApprovalFits, Dual, Approved, NoDispatch

(* Writing another status, where it may be written. *)
LEMMA StatusFits ==
    ASSUME NEW k \in Keys, ApprovalFits(k),
           ticket'[k].amount = ticket[k].amount, ticket'[k].first = ticket[k].first,
           ticket'[k].second = ticket[k].second,
           ticket'[k].status \in {"CONFIRMED", "FAILED", "REJECTED", ticket[k].status},
           dispatch'[k] = dispatch[k] \/ dispatch'[k] = NoDispatch
    PROVE  ApprovalFits(k)'
  BY DEF ApprovalFits, Dual, Approved, NoDispatch, Waiting

(* A ticket goes back where it was: its first approval, if it had one, stays. *)
LEMMA RevertFits ==
    ASSUME Shapes, NEW j \in Keys, NEW k \in Keys, ApprovalFits(k), Revert(j)
    PROVE  ApprovalFits(k)'
<1>1. CASE k # j
  <2>1. ticket'[k] = ticket[k] /\ dispatch'[k] = dispatch[k]
    BY <1>1 DEF Revert, Reverted, Shapes
  <2> QED
    BY <2>1, ApprovalStays
<1>2. CASE k = j
  <2>1. dispatch'[k] = NoDispatch
    BY <1>2 DEF Revert, Shapes
  <2>2. /\ ticket'[k].first = ticket[k].first
        /\ ticket'[k].status \in {ticket[k].status, dispatch[k].from}
    BY <1>2 DEF Revert, Reverted, Shapes
  <2> QED
    BY <2>1, <2>2 DEF ApprovalFits, NoDispatch
<1> QED
  BY <1>1, <1>2

(* Settling writes a final status. *)
LEMMA SettleFits ==
    ASSUME Shapes, NEW j \in Keys, NEW k \in Keys, NEW s \in {"CONFIRMED", "FAILED"}, ApprovalFits(k),
           ticket' = Settled(j, s) \/ ticket' = ticket,
           dispatch'[k] = dispatch[k] \/ dispatch'[k] = NoDispatch
    PROVE  ApprovalFits(k)'
<1>1. /\ ticket'[k].amount = ticket[k].amount /\ ticket'[k].first = ticket[k].first
      /\ ticket'[k].second = ticket[k].second
      /\ ticket'[k].status \in {"CONFIRMED", "FAILED", "REJECTED", ticket[k].status}
  BY DEF Settled, Shapes
<1> QED
  BY <1>1, StatusFits

(* An approval counts one person; the claim by the status that was read      *)
(* makes it count once.                                                      *)
LEMMA ApproveFits ==
    ASSUME Shapes, NEW a \in Approvers, NEW k \in Keys, ApprovalFits(k), Approve(a)
    PROVE  ApprovalFits(k)'
<1> DEFINE j == call[a].ticket
<1>1. j \in Keys /\ a # Nobody /\ call[a] # NoCall
  BY SupportAssumption DEF Approve, Shapes
<1>2. CASE ticket' = ticket /\ dispatch' = dispatch
  BY <1>2, ApprovalStays
<1>3. CASE k # j /\ ~(ticket' = ticket /\ dispatch' = dispatch)
  <2>1. ticket'[k] = ticket[k] /\ dispatch'[k] = dispatch[k]
    BY <1>1, <1>3 DEF Approve, FirstApproval, OnlyApproval, SecondApproval, StartDispatch, Shapes
  <2> QED
    BY <2>1, ApprovalStays
<1>4. CASE k = j /\ FirstApproval(a) /\ Claims(a)
  <2>1. /\ ticket[k].status = "REQUESTED" /\ dispatch' = dispatch
        /\ ticket'[k].first = a
    BY <1>1, <1>4 DEF FirstApproval, Claims, Shapes
  <2> QED
    BY <1>1, <2>1 DEF ApprovalFits, Waiting
<1>5. CASE k = j /\ OnlyApproval(a) /\ Claims(a)
  <2>1. /\ ~Dual(k) /\ ticket'[k].amount = ticket[k].amount
        /\ ticket'[k].status = "PROCESSING" /\ ticket'[k].first # Nobody
    BY <1>1, <1>5 DEF OnlyApproval, Claims, Shapes
  <2> QED
    BY <2>1 DEF ApprovalFits, Waiting, Dual
<1>6. CASE k = j /\ SecondApproval(a) /\ MaySecond(a) /\ Claims(a) /\ ticket[k].first # a
  <2>1. /\ ticket[k].status = "AWAITING_SECOND_APPROVAL"
        /\ ticket'[k].status = "PROCESSING"
        /\ ticket'[k].first = ticket[k].first /\ ticket'[k].second = a
    BY <1>1, <1>6 DEF SecondApproval, Claims, Shapes
  <2> QED
    BY <1>1, <1>6, <2>1 DEF ApprovalFits, Waiting, Approved
<1> QED
  BY <1>1, <1>2, <1>3, <1>4, <1>5, <1>6 DEF Approve, FirstApproval, OnlyApproval, SecondApproval

(* Opening and rejecting a ticket, while no dispatch of it runs. *)
LEMMA TicketFits ==
    ASSUME Shapes, NEW j \in Keys, NEW k \in Keys, ApprovalFits(k),
           ReadBalance(j) \/ CreateTicket(j) \/ Reject(j)
    PROVE  ApprovalFits(k)'
<1>1. dispatch' = dispatch
  BY DEF ReadBalance, CreateTicket, Reject
<1>2. CASE k # j
  <2>1. ticket'[k] = ticket[k]
    BY <1>2 DEF ReadBalance, CreateTicket, Reject, Shapes
  <2> QED
    BY <1>1, <2>1, ApprovalStays
<1>3. CASE k = j
  <2>1. /\ ticket[k].status \in {"NONE", "DRAFT"} \cup Waiting
        /\ ticket'[k].status \in {"DRAFT", "REQUESTED", "REJECTED"}
        /\ ticket'[k].first = ticket[k].first
    BY <1>3 DEF ReadBalance, CreateTicket, Reject, Shapes
  <2> QED
    BY <1>1, <2>1 DEF ApprovalFits
<1> QED
  BY <1>2, <1>3

(* The dispatch on its way. *)
LEMMA DispatchFits ==
    ASSUME Shapes, NEW j \in Keys, NEW k \in Keys, ApprovalFits(k), RunDispatch(j) \/ CrashDispatch(j)
    PROVE  ApprovalFits(k)'
<1>1. CASE Announce(j) \/ DispatchRequest(j) \/ CrashDispatch(j)
  <2>1. ticket' = ticket
    BY <1>1 DEF Announce, DispatchRequest, CrashDispatch
  <2>2. \/ dispatch'[k] = dispatch[k]
        \/ dispatch'[k] = NoDispatch
        \/ /\ dispatch'[k].from = dispatch[k].from
           /\ dispatch'[k].at \in {"announce", "request"} =>
                 dispatch[k].at \in {"announce", "request"}
    BY <1>1 DEF Announce, DispatchRequest, CrashDispatch, Shapes
  <2> QED
    BY <2>1, <2>2, ApprovalStays
<1>2. CASE Revert(j)
  BY <1>2, RevertFits
<1>3. CASE RequestReturns(j) /\ ~Revert(j)
  <2>1. ticket' = ticket
    BY <1>3 DEF RequestReturns
  <2>2. \/ dispatch'[k] = dispatch[k]
        \/ dispatch'[k].from = dispatch[k].from /\ dispatch'[k].at = "link"
    BY <1>3 DEF RequestReturns, Shapes
  <2> QED
    BY <2>1, <2>2, ApprovalStays
<1>4. CASE Link(j) /\ ~Revert(j)
  <2>1. /\ ticket'[k].status = ticket[k].status /\ ticket'[k].amount = ticket[k].amount
        /\ ticket'[k].first = ticket[k].first /\ ticket'[k].second = ticket[k].second
    BY <1>4 DEF Link, Shapes
  <2>2. \/ dispatch'[k] = dispatch[k]
        \/ dispatch'[k].from = dispatch[k].from /\ dispatch'[k].at = "settle"
    BY <1>4 DEF Link, Shapes
  <2> QED
    BY <2>1, <2>2 DEF ApprovalFits, Dual, Approved
<1>5. CASE SettleDispatch(j)
  <2>1. dispatch'[k] = dispatch[k] \/ dispatch'[k] = NoDispatch
    BY <1>5 DEF SettleDispatch, Shapes
  <2>2. PICK s \in {"CONFIRMED", "FAILED"} : ticket' = Settled(j, s) \/ ticket' = ticket
    BY <1>5 DEF SettleDispatch
  <2> QED
    BY <2>1, <2>2, SettleFits
<1> QED
  BY <1>1, <1>2, <1>3, <1>4, <1>5 DEF RunDispatch, RequestRefused

-----------------------------------------------------------------------------
(* The invariant. *)

(* At first nothing is asked for and nobody has approved.                    *)
LEMMA SupportInvInit == SupportInit => SupportInv
<1> SUFFICES ASSUME SupportInit PROVE SupportInv
  OBVIOUS
<1>1. PostsInv
  BY PostsInit DEF SupportInit
<1>2. Shapes
  BY DEF SupportInit, Shapes, NoDispatch
<1>3. ApprovalsFit
  BY DEF SupportInit, ApprovalsFit, ApprovalFits, NoDispatch
<1> QED
  BY <1>1, <1>2, <1>3 DEF SupportInv

(* No step changes what a row is made of. *)
LEMMA ShapesStay ==
    ASSUME Shapes, [SupportNext]_allVars
    PROVE  Shapes'
<1>1. ASSUME NEW j \in Keys,
             ReadBalance(j) \/ CreateTicket(j) \/ Reject(j) \/ CrashDispatch(j)
      PROVE  Shapes'
  BY <1>1 DEF ReadBalance, CreateTicket, Reject, CrashDispatch, Shapes, NoDispatch
<1>2. ASSUME NEW j \in Keys, RunDispatch(j) PROVE Shapes'
  <2>1. CASE Announce(j) \/ DispatchRequest(j)
    BY <2>1 DEF Announce, DispatchRequest, Shapes, NoDispatch
  <2>2. CASE Revert(j) /\ call' = call
    BY <2>2 DEF Revert, Reverted, Shapes, NoDispatch
  <2>3. CASE RequestReturns(j) /\ ~Revert(j)
    BY <2>3 DEF RequestReturns, Shapes
  <2>4. CASE Link(j) /\ ~Revert(j)
    BY <2>4 DEF Link, Shapes
  <2>5. CASE SettleDispatch(j)
    BY <2>5 DEF SettleDispatch, Settled, Shapes, NoDispatch
  <2> QED
    BY <1>2, <2>1, <2>2, <2>3, <2>4, <2>5 DEF RunDispatch, RequestRefused, RequestReturns, Link
<1>3. ASSUME NEW a \in Approvers, Approve(a) PROVE Shapes'
  <2>1. call' = [call EXCEPT ![a] = NoCall]
    BY <1>3 DEF Approve
  <2>2. /\ DOMAIN ticket' = Keys /\ DOMAIN dispatch' = Keys
        /\ \A k \in Keys :
              /\ DOMAIN ticket'[k] = {"status", "amount", "linked", "first", "second"}
              /\ DOMAIN dispatch'[k] = {"at", "from", "got"}
    BY <1>3 DEF Approve, FirstApproval, OnlyApproval, SecondApproval, StartDispatch, Shapes
  <2> QED
    BY <2>1, <2>2 DEF Shapes
<1>4. ASSUME NEW a \in Approvers, NEW j \in Keys, LoadTicket(a, j) PROVE Shapes'
  BY <1>4 DEF LoadTicket, Shapes
<1>5. ASSUME NEW p \in Proc, CrashTogether(p) PROVE Shapes'
  BY <1>5 DEF CrashTogether, Shapes, NoDispatch
<1>6. ASSUME NEW p \in Proc, NEW e \in SettledEvents, HandleSettled(p, e) PROVE Shapes'
  BY <1>6 DEF HandleSettled, Settled, Shapes
<1>7. CASE RefundStep \/ UNCHANGED allVars
  BY <1>7 DEF RefundStep, allVars, supportVars, Shapes
<1> QED
  BY <1>1, <1>2, <1>3, <1>4, <1>5, <1>6, <1>7 DEF SupportNext

(* Every step of tickets, approvers and refunds keeps the approvals fitting.  *)
LEMMA SupportInvStep == SupportInv /\ [SupportNext]_allVars => SupportInv'
<1> SUFFICES ASSUME SupportInv, [SupportNext]_allVars PROVE SupportInv'
  OBVIOUS
<1>1. PostsInv'
  BY StepBeneath, PostsStep DEF SupportInv
<1>2. Shapes'
  BY ShapesStay DEF SupportInv
<1>3. ASSUME NEW k \in Keys PROVE ApprovalFits(k)'
  <2>1. Shapes /\ ApprovalFits(k)
    BY DEF SupportInv, ApprovalsFit
  <2>2. ASSUME NEW j \in Keys, ReadBalance(j) \/ CreateTicket(j) \/ Reject(j)
        PROVE  ApprovalFits(k)'
    BY <2>1, <2>2, TicketFits
  <2>3. ASSUME NEW j \in Keys, RunDispatch(j) \/ CrashDispatch(j)
        PROVE  ApprovalFits(k)'
    BY <2>1, <2>3, DispatchFits
  <2>4. ASSUME NEW a \in Approvers, Approve(a) PROVE ApprovalFits(k)'
    BY <2>1, <2>4, ApproveFits
  <2>5. ASSUME NEW a \in Approvers, NEW j \in Keys, LoadTicket(a, j) PROVE ApprovalFits(k)'
    BY <2>1, <2>5, ApprovalStays DEF LoadTicket
  <2>6. ASSUME NEW p \in Proc, CrashTogether(p) PROVE ApprovalFits(k)'
    <3>1. /\ ticket'[k] = ticket[k]
          /\ dispatch'[k] = dispatch[k] \/ dispatch'[k] = NoDispatch
      BY <2>1, <2>6 DEF CrashTogether, Shapes
    <3> QED
      BY <2>1, <3>1, ApprovalStays
  <2>7. ASSUME NEW p \in Proc, NEW e \in SettledEvents, HandleSettled(p, e) PROVE ApprovalFits(k)'
    <3>1. e.key \in Keys /\ e.status \in {"CONFIRMED", "FAILED"}
      BY DEF SettledEvents
    <3>2. (ticket' = Settled(e.key, e.status) \/ ticket' = ticket) /\ dispatch'[k] = dispatch[k]
      BY <2>7 DEF HandleSettled
    <3> QED
      BY <2>1, <3>1, <3>2, SettleFits
  <2>8. CASE RefundStep \/ UNCHANGED allVars
    <3>1. ticket'[k] = ticket[k] /\ dispatch'[k] = dispatch[k]
      BY <2>8 DEF RefundStep, allVars, supportVars
    <3> QED
      BY <2>1, <3>1, ApprovalStays
  <2> QED
    BY <2>2, <2>3, <2>4, <2>5, <2>6, <2>7, <2>8 DEF SupportNext
<1> QED
  BY <1>1, <1>2, <1>3 DEF SupportInv, ApprovalsFit

(* A refund above the threshold is reserved only while its ticket bears the  *)
(* approvals of two people (support-refund.service.ts:93-112), whoever calls *)
(* at the same time, whatever fails in between and however often the ticket  *)
(* went back to where it was.                                                *)
THEOREM LargeRefundsAreApprovedTwice == SupportSpec => TwoPeopleApproveLargeRefunds
<1>1. SupportInv /\ [SupportNext]_allVars =>
        [\A k \in Keys :
            op[k].status = "NONE" /\ op'[k].status # "NONE" /\ Dual(k) =>
              /\ Nobody \notin {ticket[k].first, ticket[k].second}
              /\ ticket[k].first # ticket[k].second]_allVars
  <2> SUFFICES ASSUME SupportInv, SupportNext, NEW k \in Keys,
                      op[k].status = "NONE", op'[k].status # "NONE", Dual(k)
               PROVE  Approved(k)
    BY DEF Approved
  <2>1. dispatch[k].at = "request"
    BY OnlyDispatchReserves DEF SupportInv, DispatchRequest
  <2> QED
    BY <2>1 DEF SupportInv, ApprovalsFit, ApprovalFits
<1> QED
  BY <1>1, SupportInvInit, SupportInvStep, PTL DEF SupportSpec, TwoPeopleApproveLargeRefunds
-----------------------------------------------------------------------------
(* The types of the tickets. *)

TicketRows == [status : TicketStatus, amount : Nat, linked : BOOLEAN, first : Person, second : Person]
CallRows == [ticket : Keys, status : Waiting, first : Person]
DispatchRows == [at : DispatchAt, from : {"NONE"} \cup Waiting, got : OpStatus]

TicketsTyped ==
    /\ ticket \in [Keys -> TicketRows]
    /\ call \in [Approvers -> {NoCall} \cup CallRows]
    /\ dispatch \in [Keys -> DispatchRows]

(* What a field of a row may be given. *)
LEMMA TicketUpdates ==
    ASSUME NEW r \in TicketRows, NEW s \in TicketStatus, NEW a \in Person, NEW n \in Nat
    PROVE  /\ [r EXCEPT !.status = s] \in TicketRows
           /\ [r EXCEPT !.status = s, !.amount = n] \in TicketRows
           /\ [r EXCEPT !.status = s, !.first = a] \in TicketRows
           /\ [r EXCEPT !.status = s, !.second = a] \in TicketRows
           /\ [r EXCEPT !.linked = TRUE] \in TicketRows
BY DEF TicketRows

(* The balance a ticket may ask for is a number. *)
LEMMA AvailableIsInt ==
    ASSUME TypeOK, TicketsTyped, NEW i \in Invoices
    PROVE  AvailableForTicket(i) \in Int
<1> DEFINE held == [k \in Keys |-> op[k].amount]
           promised == [k \in Keys |-> ticket[k].amount]
<1>1. Summable(held, ActiveOps(i))
  BY ConstantsAssumption, FS_Subset DEF Summable, ActiveOps, TypeOK, Operations
<1>2. Summable(promised, Promised(i))
  BY ConstantsAssumption, FS_Subset DEF Summable, Promised, TicketsTyped, TicketRows
<1>3. Amount[i] \in Int /\ invoice[i].refunded \in Int
  BY ConstantsAssumption DEF TypeOK, InvoiceRows
<1> HIDE DEF held, promised
<1>4. SumFunctionOnSet(held, ActiveOps(i)) \in Int /\ SumFunctionOnSet(promised, Promised(i)) \in Int
  BY <1>1, <1>2, SumIsInt
<1>5. AvailableForTicket(i) = Amount[i] - invoice[i].refunded - SumFunctionOnSet(held, ActiveOps(i))
                                - SumFunctionOnSet(promised, Promised(i))
  BY DEF AvailableForTicket, held, promised
<1> QED
  BY <1>3, <1>4, <1>5

(* Reverting, settling, opening and approving keep the rows what they are. *)
LEMMA TicketWrites ==
    ASSUME TypeOK, TicketsTyped
    PROVE  /\ \A k \in Keys : Revert(k) => /\ ticket' \in [Keys -> TicketRows]
                                           /\ dispatch' \in [Keys -> DispatchRows]
           /\ \A k \in Keys, s \in {"CONFIRMED", "FAILED"} : Settled(k, s) \in [Keys -> TicketRows]
           /\ \A k \in Keys : ReadBalance(k) => ticket' \in [Keys -> TicketRows]
           /\ \A a \in Approvers : Approve(a) => TicketsTyped'
<1> USE DEF TicketStatus, Waiting, DispatchAt, Person, NoDispatch
<1>1. ASSUME NEW k \in Keys, Revert(k)
      PROVE  ticket' \in [Keys -> TicketRows] /\ dispatch' \in [Keys -> DispatchRows]
  <2> DEFINE n == IF dispatch[k].from = "REQUESTED" THEN ticket[k].second ELSE Nobody
  <2>1. ticket[k] \in TicketRows /\ dispatch[k].from \in TicketStatus /\ n \in Person
    BY DEF TicketsTyped, TicketRows, DispatchRows
  <2>2. [ticket[k] EXCEPT !.status = dispatch[k].from, !.second = n] \in TicketRows
    <3> HIDE DEF n
    <3> QED
      BY <2>1, TicketUpdates
  <2>3. ticket' \in [Keys -> TicketRows]
    <3>1. CASE Reverted(k) = ticket
      BY <1>1, <3>1 DEF Revert, TicketsTyped
    <3>2. CASE Reverted(k) # ticket
      <4>1. ticket' = [ticket EXCEPT ![k].status = dispatch[k].from, ![k].second = n]
        BY <1>1, <3>2 DEF Revert, Reverted, TicketsTyped, TicketRows
      <4> HIDE DEF n
      <4>2. ticket' = [ticket EXCEPT ![k] = [ticket[k] EXCEPT !.status = dispatch[k].from, !.second = n]]
        BY <4>1 DEF TicketsTyped
      <4> QED
        BY <2>2, <4>2 DEF TicketsTyped
    <3> QED
      BY <3>1, <3>2
  <2>4. dispatch' \in [Keys -> DispatchRows]
    BY <1>1 DEF Revert, TicketsTyped, DispatchRows
  <2> QED
    BY <2>3, <2>4
<1>2. ASSUME NEW k \in Keys, NEW s \in {"CONFIRMED", "FAILED"}
      PROVE  Settled(k, s) \in [Keys -> TicketRows]
  <2>1. ticket[k] \in TicketRows /\ [ticket[k] EXCEPT !.status = s] \in TicketRows
    BY DEF TicketsTyped, TicketRows
  <2>2. Settled(k, s) \in {ticket, [ticket EXCEPT ![k] = [ticket[k] EXCEPT !.status = s]]}
    BY DEF Settled, TicketsTyped
  <2> QED
    BY <2>1, <2>2 DEF TicketsTyped
<1>3. ASSUME NEW k \in Keys, ReadBalance(k)
      PROVE  ticket' \in [Keys -> TicketRows]
  <2> DEFINE available == AvailableForTicket(InvoiceOf[k])
             n == PolicyAmount(k, available)
  <2>1. available \in Int /\ available > 0
    <3>1. InvoiceOf[k] \in Invoices
      BY ConstantsAssumption DEF RefundIds
    <3> QED
      BY <1>3, <3>1, AvailableIsInt DEF ReadBalance
  <2>2. n \in Nat
    <3> HIDE DEF available
    <3> QED
      BY <2>1, ConstantsAssumption DEF PolicyAmount
  <2>3. ticket' = [ticket EXCEPT ![k].status = "DRAFT", ![k].amount = n]
    BY <1>3 DEF ReadBalance
  <2> HIDE DEF n, available
  <2>4. ticket[k] \in TicketRows
    BY DEF TicketsTyped
  <2>5. [ticket[k] EXCEPT !.status = "DRAFT", !.amount = n] \in TicketRows
    BY <2>2, <2>4 DEF TicketRows
  <2>6. ticket' = [ticket EXCEPT ![k] = [ticket[k] EXCEPT !.status = "DRAFT", !.amount = n]]
    BY <2>3 DEF TicketsTyped
  <2> QED
    BY <2>5, <2>6 DEF TicketsTyped
<1>4. ASSUME NEW a \in Approvers, Approve(a)
      PROVE  TicketsTyped'
  <2> DEFINE k == call[a].ticket
             n == IF call[a].first = Nobody THEN a ELSE call[a].first
  <2>1. call[a] \in CallRows /\ k \in Keys /\ n \in Person /\ a \in Person
    BY <1>4 DEF Approve, TicketsTyped, CallRows
  <2>2. call' \in [Approvers -> {NoCall} \cup CallRows]
    BY <1>4 DEF Approve, TicketsTyped
  <2> HIDE DEF k, n
  <2>3. \/ ticket' = ticket
        \/ ticket' = [ticket EXCEPT ![k].status = "AWAITING_SECOND_APPROVAL", ![k].first = a]
        \/ ticket' = [ticket EXCEPT ![k].status = "PROCESSING", ![k].first = n]
        \/ ticket' = [ticket EXCEPT ![k].status = "PROCESSING", ![k].second = a]
    BY <1>4 DEF Approve, FirstApproval, OnlyApproval, SecondApproval, k, n
  <2>4. \/ dispatch' = dispatch
        \/ \E from \in Waiting :
             dispatch' = [dispatch EXCEPT ![k] = [at |-> "announce", from |-> from, got |-> "NONE"]]
    BY <1>4 DEF Approve, FirstApproval, OnlyApproval, SecondApproval, StartDispatch, k
  <2>5. dispatch' \in [Keys -> DispatchRows]
    BY <2>4 DEF TicketsTyped, DispatchRows
  <2>6. ticket[k] \in TicketRows
    BY <2>1 DEF TicketsTyped
  <2>7. /\ [ticket[k] EXCEPT !.status = "AWAITING_SECOND_APPROVAL", !.first = a] \in TicketRows
        /\ [ticket[k] EXCEPT !.status = "PROCESSING", !.first = n] \in TicketRows
        /\ [ticket[k] EXCEPT !.status = "PROCESSING", !.second = a] \in TicketRows
    BY <2>1, <2>6 DEF TicketRows
  <2>8. ticket' = ticket \/ \E r \in TicketRows : ticket' = [ticket EXCEPT ![k] = r]
    BY <2>1, <2>3, <2>7 DEF TicketsTyped
  <2>9. ticket' \in [Keys -> TicketRows]
    BY <2>8 DEF TicketsTyped
  <2> QED
    BY <2>2, <2>5, <2>9 DEF TicketsTyped
<1> QED
  BY <1>1, <1>2, <1>3, <1>4

(* Every step of the tickets keeps them what they are. *)
LEMMA TicketsTypedStep ==
    ASSUME TypeOK, TicketsTyped, [SupportNext]_allVars
    PROVE  TicketsTyped'
<1>1. ASSUME NEW k \in Keys, ReadBalance(k)
      PROVE  TicketsTyped'
  BY <1>1, TicketWrites DEF ReadBalance, TicketsTyped
<1>2. ASSUME NEW k \in Keys, CreateTicket(k) \/ Reject(k)
      PROVE  TicketsTyped'
  BY <1>2 DEF CreateTicket, Reject, TicketsTyped, TicketRows, TicketStatus
<1>3. ASSUME NEW k \in Keys, Announce(k) \/ DispatchRequest(k) \/ CrashDispatch(k)
      PROVE  TicketsTyped'
  BY <1>3 DEF Announce, DispatchRequest, CrashDispatch, TicketsTyped, DispatchRows, DispatchAt, NoDispatch
<1>4. ASSUME NEW k \in Keys, Revert(k), call' = call
      PROVE  TicketsTyped'
  BY <1>4, TicketWrites DEF TicketsTyped
<1>5. ASSUME NEW k \in Keys, RequestReturns(k), ~Revert(k)
      PROVE  TicketsTyped'
  <2>1. op[k].status \in OpStatus
    BY DEF TypeOK, Operations
  <2>2. /\ ticket' = ticket /\ call' = call
        /\ dispatch' = [dispatch EXCEPT ![k].at = "link", ![k].got = op[k].status]
    BY <1>5 DEF RequestReturns
  <2> QED
    BY <2>1, <2>2 DEF TicketsTyped, DispatchRows, DispatchAt
<1>6. ASSUME NEW k \in Keys, Link(k), ~Revert(k)
      PROVE  TicketsTyped'
  <2>1. /\ ticket' = [ticket EXCEPT ![k].linked = TRUE] /\ call' = call
        /\ dispatch' = [dispatch EXCEPT ![k].at = "settle"]
    BY <1>6 DEF Link
  <2>2. ticket' \in [Keys -> TicketRows]
    BY <2>1 DEF TicketsTyped, TicketRows
  <2> QED
    BY <2>1, <2>2 DEF TicketsTyped, DispatchRows, DispatchAt
<1>7. ASSUME NEW k \in Keys, SettleDispatch(k)
      PROVE  TicketsTyped'
  <2>1. ticket' \in [Keys -> TicketRows]
    BY <1>7, TicketWrites DEF SettleDispatch, TicketsTyped
  <2>2. dispatch' \in [Keys -> DispatchRows] /\ call' = call
    BY <1>7 DEF SettleDispatch, TicketsTyped, DispatchRows, DispatchAt, NoDispatch
  <2> QED
    BY <2>1, <2>2 DEF TicketsTyped
<1>8. ASSUME NEW a \in Approvers, NEW k \in Keys, LoadTicket(a, k)
      PROVE  TicketsTyped'
  BY <1>8 DEF LoadTicket, TicketsTyped, CallRows, TicketRows
<1>9. ASSUME NEW p \in Proc, CrashTogether(p)
      PROVE  TicketsTyped'
  BY <1>9 DEF CrashTogether, TicketsTyped, DispatchRows, DispatchAt, NoDispatch
<1>10. ASSUME NEW p \in Proc, NEW e \in SettledEvents, HandleSettled(p, e)
       PROVE  TicketsTyped'
  <2>1. e.key \in Keys /\ e.status \in {"CONFIRMED", "FAILED"}
    BY DEF SettledEvents
  <2> QED
    BY <1>10, <2>1, TicketWrites DEF HandleSettled, TicketsTyped
<1>11. CASE RefundStep \/ UNCHANGED allVars
  BY <1>11 DEF RefundStep, allVars, supportVars, TicketsTyped
<1>12. ASSUME NEW k \in Keys, RunDispatch(k)
       PROVE  TicketsTyped'
  BY <1>3, <1>4, <1>5, <1>6, <1>7, <1>12 DEF RunDispatch, RequestRefused, RequestReturns, Link
<1> QED
  BY <1>1, <1>2, <1>3, <1>8, <1>9, <1>10, <1>11, <1>12, TicketWrites DEF SupportNext

(* Tickets, calls and dispatches are what their types say, the amount of a   *)
(* ticket included: it is a difference of sums that was found positive.      *)
THEOREM SupportTypeCorrect == SupportSpec => []SupportTypeOK
<1>1. SupportInit => TypeOK /\ TicketsTyped
  BY TypeInit DEF SupportInit, TicketsTyped, TicketRows, CallRows, DispatchRows, TicketStatus,
     Person, NoDispatch, DispatchAt
<1>2. TypeOK /\ TicketsTyped /\ [SupportNext]_allVars => TypeOK' /\ TicketsTyped'
  BY StepBeneath, TypeStep, TicketsTypedStep
<1>3. TypeOK /\ TicketsTyped => SupportTypeOK
  BY DEF SupportTypeOK, TicketsTyped, TicketRows, CallRows, DispatchRows
<1> QED
  BY <1>1, <1>2, <1>3, PTL DEF SupportSpec
-----------------------------------------------------------------------------
(* What the customer is told. *)

(* The money of an operation never came out, and never will. *)
Never(k) ==
    \/ remote[k] = "cancelled"
    \/ remote[k] = "none" /\ pc[k] # "post" /\ op[k].status # "NONE"

Told(k, s) ==
    /\ s = "CONFIRMED" => remote[k] = "done"
    /\ s = "FAILED" => Never(k)

(* Events wait in memory after their transaction, while the operation goes   *)
(* on: a late answer may have made it active again.                          *)
EventsFit == \A p \in Proc : \A e \in events[p] : Told(e.key, e.status)

TicketFit(k) ==
    /\ Told(k, ticket[k].status)
    /\ dispatch[k].at \in {"link", "settle"} => Told(k, dispatch[k].got)

ToldInv == ClosureInv /\ TicketsTyped /\ EventsFit /\ \A k \in Keys : TicketFit(k)

(* A key that was posted, or given up, is not posted again. *)
LEMMA NotPostedAnew ==
    ASSUME PostsInv, KeysFit, ExactMatch, [Next]_vars, NEW k \in Keys,
           remote[k] = "none", pc[k] # "post", op[k].status # "NONE"
    PROVE  remote'[k] = "none" /\ pc'[k] # "post"
<1>1. TypeOK /\ k \in RefundIds
  BY DEF PostsInv, RefundIds
<1>2. ASSUME NEW j \in Keys, Post(j) \/ CrashWhilePosting(j) \/ Provide(j)
      PROVE  remote'[k] = "none" /\ pc'[k] # "post"
  <2>1. j # k
    BY <1>2, MoneyMoves
  <2> QED
    BY <1>2, <2>1, MoneyMoves
<1>3. ASSUME NEW j \in Keys, Request(j)
      PROVE  remote'[k] = "none" /\ pc'[k] # "post"
  <2>1. CASE RepeatRequest(j)
    BY <1>1, <1>3, <2>1 DEF Request, RepeatRequest, TypeOK
  <2>2. CASE Reserve(j)
    <3>1. op[j].status = "NONE" /\ pc' = [pc EXCEPT ![j] = "post"] /\ remote' = remote
      BY <1>3, <2>2 DEF Request, Reserve, MayReserve
    <3> QED
      BY <1>1, <3>1 DEF TypeOK
  <2> QED
    BY <1>3, <2>1, <2>2 DEF Request
<1>4. ASSUME NEW j \in Keys, PersistAnswer(j) \/ MarkUnknown(j) \/ FailReservation(j)
                             \/ ReadFails(j) \/ AfterEmit(j) \/ Answer(j) \/ TakeAnswer(j) \/ Age(j)
      PROVE  remote'[k] = "none" /\ pc'[k] # "post"
  <2>1. /\ remote' = remote
        /\ pc' = pc \/ \E c \in Pcs \ {"post"} : pc' = [pc EXCEPT ![j] = c]
    BY <1>4 DEF PersistAnswer, MarkUnknown, FailReservation, ReadFails, AfterEmit, Answer,
                TakeAnswer, Age
  <2> QED
    BY <1>1, <2>1 DEF TypeOK
<1>5. ASSUME NEW p \in Proc, Reconcile(p) \/ Crash(p)
      PROVE  remote'[k] = "none" /\ pc'[k] # "post"
  <2>1. /\ remote' = remote
        /\ pc' = pc \/ \E c \in Pcs \ {"post"} : pc' = [pc EXCEPT ![p] = c]
    BY <1>5 DEF Reconcile, ReadRemote, CommitReconcile, EmitSettled, Crash
  <2> QED
    BY <1>1, <2>1 DEF TypeOK
<1>6. CASE (\E x \in PanelRefunds : PanelRefund(x)) \/ (\E i \in Invoices : Chargeback(i))
           \/ Reactivate \/ UNCHANGED vars
  BY <1>1, <1>6, ConstantsAssumption
     DEF PanelRefund, Chargeback, Reactivate, vars, TypeOK, RefundIds
<1> QED
  BY <1>2, <1>3, <1>4, <1>5, <1>6 DEF Next, Serve, Environment

(* What was true of the money stays true. *)
LEMMA ToldStays ==
    ASSUME PostsInv, KeysFit, ExactMatch, [Next]_vars, NEW k \in Keys, NEW s, Told(k, s)
    PROVE  Told(k, s)'
<1>1. s = "CONFIRMED" => remote'[k] = "done"
  BY DecidedStays DEF Told
<1>2. ASSUME s = "FAILED", remote[k] = "cancelled"
      PROVE  Never(k)'
  BY <1>2, DecidedStays DEF Never
<1>3. ASSUME s = "FAILED", remote[k] = "none", pc[k] # "post", op[k].status # "NONE"
      PROVE  Never(k)'
  BY <1>3, NotPostedAnew, OperationsStay DEF Never, PostsInv
<1> QED
  BY <1>1, <1>2, <1>3 DEF Told, Never

(* An operation's status is told truly. *)
LEMMA StatusTold ==
    ASSUME KeysFit, NEW k \in Keys
    PROVE  Told(k, op[k].status)
BY DEF KeysFit, Fits, Told, Never

(* The events of a transaction are true when they are collected. *)
LEMMA EventsStep ==
    ASSUME ExactMatch, ClosureInv, EventsFit, [Next]_vars
    PROVE  EventsFit'
<1> SUFFICES ASSUME NEW p \in Proc, NEW e \in events'[p]
             PROVE  Told(e.key, e.status)'
  BY DEF EventsFit
<1>1. /\ TypeOK /\ PostsInv /\ KeysFit /\ ListsFit /\ events' \in [Proc -> SUBSET SettledEvents]
      /\ e \in SettledEvents /\ e.key \in Keys
  BY TypeStep DEF ClosureInv, PostsInv, TypeOK, SettledEvents
<1>2. CASE e \in events[p]
  BY <1>1, <1>2, ToldStays DEF EventsFit
<1>3. CASE e \notin events[p]
  <2>1. \/ p \in Keys /\ FailReservation(p)
        \/ CommitReconcile(p)
    <3>1. ASSUME NEW j \in Keys, Request(j) \/ Serve(j) \/ TakeAnswer(j)
          PROVE  p = j /\ FailReservation(p)
      BY <1>1, <1>3, <3>1 DEF Request, Serve, TakeAnswer, Post, PersistAnswer, MarkUnknown,
         FailReservation, ReadFails, AfterEmit, Answer, TypeOK
    <3>2. ASSUME NEW q \in Proc, Reconcile(q) \/ Crash(q)
          PROVE  p = q /\ CommitReconcile(p)
      <4>1. CASE CommitReconcile(q)
        <5>1. events' = events \/ \E E : events' = [events EXCEPT ![q] = E]
          BY <4>1 DEF CommitReconcile, ApplySnapshot
        <5> QED
          BY <1>1, <1>3, <4>1, <5>1 DEF TypeOK
      <4>2. CASE Crash(q) \/ (\E i \in Invoices : ReadRemote(q, i))
                 \/ (\E f \in SettledEvents : EmitSettled(q, f))
        BY <1>1, <1>3, <4>2 DEF Crash, ReadRemote, EmitSettled, TypeOK
      <4> QED
        BY <3>2, <4>1, <4>2 DEF Reconcile
    <3>3. ~(\E j \in Keys : Provide(j) \/ Age(j) \/ CrashWhilePosting(j))
      BY <1>3 DEF Provide, LatePost, ProviderSettles, Age, CrashWhilePosting
    <3>4. ~((\E x \in PanelRefunds : PanelRefund(x)) \/ (\E i \in Invoices : Chargeback(i))
            \/ Reactivate \/ UNCHANGED vars)
      BY <1>3 DEF PanelRefund, Chargeback, Reactivate, vars
    <3> QED
      BY <3>1, <3>2, <3>3, <3>4 DEF Next, Environment
  <2>2. ASSUME p \in Keys, FailReservation(p)
        PROVE  Told(e.key, e.status)'
    <3>1. e = [key |-> p, status |-> "FAILED"] /\ remote' = remote /\ pc[p] = "refused"
          /\ pc' = [pc EXCEPT ![p] = "answer"]
      BY <1>1, <1>3, <2>2 DEF FailReservation, TypeOK
    <3>2. remote[p] = "none" /\ op[p].status # "NONE"
      BY <1>1, <2>2, <3>1 DEF KeysFit, Fits
    <3>3. Told(p, "FAILED")
      BY <3>1, <3>2 DEF Told, Never
    <3> QED
      BY <1>1, <2>2, <3>1, <3>3, ToldStays
  <2>3. ASSUME CommitReconcile(p)
        PROVE  Told(e.key, e.status)'
    <3> DEFINE i == snap[p].inv
               seen == snap[p].seen
    <3>1. PICK k \in ActiveOps(i) : e = [key |-> k, status |-> Outcome(k, seen)]
      BY <1>1, <1>3, <2>3 DEF CommitReconcile, ApplySnapshot, TypeOK
    <3>2. /\ k \in Keys /\ InvoiceOf[k] = i /\ op[k].status \in Active
          /\ snap[p] # NoSnap /\ seen \in [RefundIds -> {"none"} \cup Visible]
      BY <1>1, <2>3, <3>1 DEF ActiveOps, CommitReconcile, TypeOK, Snapshots
    <3>3. ListFits(k, seen) /\ Fits(op[k], remote[k], pc[k])
      BY <1>1, <3>2 DEF ListsFit, KeysFit
    <3>4. PICK s : s = Outcome(k, seen)
      OBVIOUS
    <3>5. /\ s = "CONFIRMED" => seen[k] = "done"
          /\ s = "FAILED" => seen[k] = "cancelled" \/ (seen[k] = "none" /\ op[k].age > 0)
      BY <1>1, <3>2, <3>4, OutcomeIsSeen
    <3>6. Told(k, s)
      BY <3>2, <3>3, <3>5 DEF ListFits, Fits, Told, Never
    <3>7. Told(k, s)'
      BY <1>1, <3>2, <3>6, ToldStays
    <3>8. e.key = k /\ e.status = s
      BY <3>1, <3>4
    <3> QED
      BY <3>7, <3>8
  <2> QED
    BY <2>1, <2>2, <2>3
<1> QED
  BY <1>2, <1>3

(* What is written to a ticket is true: it is what an event says, or what    *)
(* the operation was when request() returned it.                             *)
LEMMA TicketsWrittenTold ==
    ASSUME ToldInv, [SupportNext]_allVars, NEW k \in Keys
    PROVE  /\ Told(k, ticket'[k].status)
           /\ dispatch'[k].at \in {"link", "settle"} => Told(k, dispatch'[k].got)
<1> DEFINE Final == {"CONFIRMED", "FAILED"}
           Written == /\ Told(k, ticket'[k].status)
                      /\ dispatch'[k].at \in {"link", "settle"} => Told(k, dispatch'[k].got)
<1>1. /\ KeysFit /\ ticket \in [Keys -> TicketRows] /\ dispatch \in [Keys -> DispatchRows]
      /\ ticket[k] \in TicketRows /\ dispatch[k] \in DispatchRows /\ EventsFit
      /\ Told(k, ticket[k].status)
      /\ dispatch[k].at \in {"link", "settle"} => Told(k, dispatch[k].got)
  BY DEF ToldInv, ClosureInv, TicketsTyped, TicketFit
<1>2. \A s : s \notin Final => Told(k, s)
  BY DEF Told
<1>3. ASSUME ticket'[k].status = ticket[k].status \/ ticket'[k].status \notin Final,
             \/ dispatch'[k].at \notin {"link", "settle"}
             \/ dispatch[k].at \in {"link", "settle"} /\ dispatch'[k].got = dispatch[k].got
      PROVE  Written
  BY <1>1, <1>2, <1>3
<1>4. ASSUME NEW j \in Keys, ReadBalance(j) \/ CreateTicket(j) \/ Reject(j)
      PROVE  Written
  <2>1. /\ ticket'[k].status = ticket[k].status \/ ticket'[k].status \notin Final
        /\ dispatch' = dispatch
    BY <1>1, <1>4 DEF ReadBalance, CreateTicket, Reject, TicketRows
  <2> HIDE DEF Written
  <2> QED
    BY <1>3, <2>1
<1>5. ASSUME NEW j \in Keys, Announce(j) \/ DispatchRequest(j) \/ CrashDispatch(j)
      PROVE  Written
  <2>1. /\ ticket' = ticket
        /\ \/ dispatch'[k].at \notin {"link", "settle"}
           \/ dispatch'[k] = dispatch[k]
    BY <1>1, <1>5 DEF Announce, DispatchRequest, CrashDispatch, NoDispatch, DispatchRows
  <2> HIDE DEF Written
  <2> QED
    BY <1>3, <2>1
<1>6. ASSUME NEW j \in Keys, Revert(j)
      PROVE  Written
  <2>1. dispatch'[k] = dispatch[k] \/ dispatch'[k] = NoDispatch
    BY <1>1, <1>6 DEF Revert
  <2>2. dispatch[j].from \notin Final
    BY <1>1 DEF DispatchRows, Waiting
  <2>3. ticket'[k].status \in {ticket[k].status, dispatch[j].from}
    BY <1>1, <1>6 DEF Revert, Reverted, TicketRows
  <2> HIDE DEF Written
  <2> QED
    BY <1>3, <2>1, <2>2, <2>3 DEF NoDispatch
<1>7. ASSUME NEW j \in Keys, RequestReturns(j), ~Revert(j)
      PROVE  Written
  <2>1. /\ ticket' = ticket
        /\ dispatch' = [dispatch EXCEPT ![j].at = "link", ![j].got = op[j].status]
    BY <1>7 DEF RequestReturns
  <2>2. CASE j = k
    <3>1. dispatch'[k].got = op[k].status
      BY <1>1, <2>1, <2>2 DEF DispatchRows
    <3> QED
      BY <1>1, <2>1, <3>1, StatusTold
  <2>3. CASE j # k
    <3>1. dispatch'[k] = dispatch[k]
      BY <1>1, <2>1, <2>3
    <3> QED
      BY <1>1, <2>1, <3>1
  <2> QED
    BY <2>2, <2>3
<1>8. ASSUME NEW j \in Keys, Link(j), ~Revert(j)
      PROVE  Written
  <2>1. /\ ticket' = [ticket EXCEPT ![j].linked = TRUE] /\ dispatch[j].at = "link"
        /\ dispatch' = [dispatch EXCEPT ![j].at = "settle"]
    BY <1>8 DEF Link
  <2>2. /\ ticket'[k].status = ticket[k].status /\ dispatch'[k].got = dispatch[k].got
        /\ dispatch'[k].at = dispatch[k].at \/ dispatch[k].at = "link"
    BY <1>1, <2>1 DEF TicketRows, DispatchRows
  <2> HIDE DEF Written
  <2> QED
    BY <1>3, <2>2
<1>9. ASSUME NEW j \in Keys, NEW s \in Final, Told(j, s), ticket' = Settled(j, s) \/ ticket' = ticket
      PROVE  Told(k, ticket'[k].status)
  <2>1. ticket'[k].status = ticket[k].status \/ (j = k /\ ticket'[k].status = s)
    BY <1>1, <1>9 DEF Settled, TicketRows
  <2> QED
    BY <1>1, <1>9, <2>1
<1>10. ASSUME NEW j \in Keys, SettleDispatch(j)
       PROVE  Written
  <2>1. /\ dispatch'[k] = dispatch[k] \/ dispatch'[k].at = "idle"
        /\ ticket' = ticket \/ (dispatch[j].got \in Final /\ ticket' = Settled(j, dispatch[j].got))
    BY <1>1, <1>10 DEF SettleDispatch, NoDispatch
  <2>2. Told(j, dispatch[j].got)
    BY <1>10 DEF SettleDispatch, ToldInv, TicketFit
  <2>3. Told(k, ticket'[k].status)
    <3>1. CASE ticket' = ticket
      BY <1>1, <3>1
    <3>2. CASE ticket' # ticket
      <4> DEFINE s == dispatch[j].got
      <4>1. s \in Final /\ Told(j, s) /\ ticket' = Settled(j, s)
        BY <2>1, <2>2, <3>2
      <4> HIDE DEF s, Final
      <4> QED
        BY <1>9, <4>1
    <3> QED
      BY <3>1, <3>2
  <2> QED
    BY <1>1, <2>1, <2>3
<1>11. ASSUME NEW a \in Approvers, Approve(a)
       PROVE  Written
  <2>1. ticket'[k].status = ticket[k].status \/ ticket'[k].status \notin Final
    BY <1>1, <1>11 DEF Approve, FirstApproval, OnlyApproval, SecondApproval, TicketRows
  <2>2. dispatch'[k] = dispatch[k] \/ dispatch'[k].at \notin {"link", "settle"}
    BY <1>1, <1>11 DEF Approve, FirstApproval, OnlyApproval, SecondApproval, StartDispatch
  <2> HIDE DEF Written, Final
  <2> QED
    BY <1>3, <2>1, <2>2
<1>12. ASSUME NEW p \in Proc, NEW e \in SettledEvents, HandleSettled(p, e)
       PROVE  Written
  <2>1. e.key \in Keys /\ e.status \in Final /\ Told(e.key, e.status) /\ dispatch' = dispatch
    BY <1>1, <1>12 DEF HandleSettled, EmitSettled, EventsFit, SettledEvents
  <2>2. ticket' = Settled(e.key, e.status) \/ ticket' = ticket
    BY <1>12 DEF HandleSettled
  <2>3. Told(k, ticket'[k].status)
    <3> HIDE DEF Final
    <3> QED
      BY <1>9, <2>1, <2>2
  <2> QED
    BY <1>1, <2>1, <2>3
<1>13. ASSUME NEW p \in Proc, CrashTogether(p)
       PROVE  Written
  <2>1. ticket' = ticket /\ (dispatch'[k] = dispatch[k] \/ dispatch'[k].at = "idle")
    BY <1>1, <1>13 DEF CrashTogether, NoDispatch
  <2> HIDE DEF Written
  <2> QED
    BY <1>3, <2>1
<1>14. ASSUME \/ \E a \in Approvers, j \in Keys : LoadTicket(a, j)
              \/ RefundStep
              \/ UNCHANGED allVars
       PROVE  Written
  <2>1. ticket' = ticket /\ dispatch' = dispatch
    BY <1>14 DEF LoadTicket, RefundStep, supportVars, allVars
  <2> HIDE DEF Written
  <2> QED
    BY <1>3, <2>1
<1> HIDE DEF Written
<1>15. ASSUME NEW j \in Keys, RunDispatch(j)
       PROVE  Written
  BY <1>5, <1>6, <1>7, <1>8, <1>10, <1>15 DEF RunDispatch, RequestRefused
<1>16. Written
  BY <1>4, <1>5, <1>11, <1>12, <1>13, <1>14, <1>15 DEF SupportNext
<1> QED
  BY <1>16 DEF Written

(* Before anything is asked for there is nothing to tell. *)
LEMMA ToldInit == SupportInit => ToldInv
<1> SUFFICES ASSUME SupportInit PROVE ToldInv
  OBVIOUS
<1>1. Init /\ ClosureInv
  BY ClosureInit DEF SupportInit
<1>2. TicketsTyped
  BY DEF SupportInit, TicketsTyped, TicketRows, CallRows, DispatchRows, TicketStatus,
     Person, NoDispatch, DispatchAt
<1>3. EventsFit
  BY <1>1 DEF Init, EventsFit
<1>4. \A k \in Keys : TicketFit(k)
  BY DEF SupportInit, TicketFit, Told, NoDispatch
<1> QED
  BY <1>1, <1>2, <1>3, <1>4 DEF ToldInv

(* Every step keeps what tickets and listeners were told true. *)
LEMMA ToldStep ==
    ASSUME ExactMatch PROVE ToldInv /\ [SupportNext]_allVars => ToldInv'
<1> SUFFICES ASSUME ToldInv, [SupportNext]_allVars PROVE ToldInv'
  OBVIOUS
<1>1. [Next]_vars /\ ClosureInv /\ PostsInv /\ KeysFit /\ TypeOK
  BY StepBeneath DEF ToldInv, ClosureInv, PostsInv
<1>2. ClosureInv' /\ EventsFit' /\ TicketsTyped'
  BY <1>1, ClosureStep, EventsStep, TicketsTypedStep DEF ToldInv
<1>3. ASSUME NEW k \in Keys
      PROVE  TicketFit(k)'
  <2>1. PICK s, g : s = ticket'[k].status /\ g = dispatch'[k].got
    OBVIOUS
  <2>2. Told(k, s) /\ (dispatch'[k].at \in {"link", "settle"} => Told(k, g))
    BY <2>1, TicketsWrittenTold
  <2>3. Told(k, s)' /\ (dispatch'[k].at \in {"link", "settle"} => Told(k, g)')
    BY <1>1, <2>2, ToldStays
  <2> QED
    BY <2>1, <2>3 DEF TicketFit
<1> QED
  BY <1>2, <1>3 DEF ToldInv

(* A ticket that says confirmed was paid, one that says failed was not and   *)
(* will not be, with every crash, lost event and failing call                *)
(* (support-refund.service.ts:171-199, settle and handleSettled).            *)
THEOREM OutcomesAreTold ==
    ASSUME ExactMatch
    PROVE  SupportSpec => [](\A k \in Keys :
              /\ ticket[k].status = "CONFIRMED" => remote[k] = "done"
              /\ ticket[k].status = "FAILED" => ~Committed(k))
<1>1. ToldInv => (\A k \in Keys :
              /\ ticket[k].status = "CONFIRMED" => remote[k] = "done"
              /\ ticket[k].status = "FAILED" => ~Committed(k))
  <2> SUFFICES ASSUME ToldInv, NEW k \in Keys
               PROVE  /\ ticket[k].status = "CONFIRMED" => remote[k] = "done"
                      /\ ticket[k].status = "FAILED" => ~Committed(k)
    OBVIOUS
  <2>1. Told(k, ticket[k].status) /\ Fits(op[k], remote[k], pc[k])
    BY DEF ToldInv, TicketFit, ClosureInv, KeysFit
  <2> QED
    BY <2>1 DEF Told, Never, Committed, Fits
<1> QED
  BY <1>1, ToldInit, ToldStep, PTL DEF SupportSpec
(* Without faults a ticket that waits or was turned down has no operation.   *)
(* With them it may: the answer of request() is lost, the ticket goes back   *)
(* to waiting and is rejected while its money is on its way.                 *)
Unsent == {"NONE", "DRAFT", "REJECTED"} \cup Waiting

UnsentFits(k) ==
    /\ ticket[k].status \in Unsent => op[k].status = "NONE" /\ dispatch[k].at = "idle"
    /\ dispatch[k].at \in {"announce", "request"} => op[k].status = "NONE"
    /\ pc[k] # "threw"

TruthInv == ToldInv /\ \A k \in Keys : UnsentFits(k)

(* No answer fails without faults. *)
LEMMA NeverThrown ==
    ASSUME ~Faults, TypeOK, [Next]_vars, NEW k \in Keys, pc[k] # "threw"
    PROVE  pc'[k] # "threw"
<1>1. pc \in [Keys -> Pcs]
  BY DEF TypeOK
<1>2. ASSUME NEW j \in Keys, Request(j) \/ Serve(j) \/ TakeAnswer(j) \/ CrashWhilePosting(j)
      PROVE  pc'[k] # "threw"
  <2>1. \E c \in Pcs \ {"threw"} : pc' = [pc EXCEPT ![j] = c]
    BY <1>2 DEF Request, RepeatRequest, Reserve, Serve, TakeAnswer, Post, Accepted, Refused, AnswerLost,
       PersistAnswer, MarkUnknown, FailReservation, ReadFails, AfterEmit, Answer, CrashWhilePosting
  <2> QED
    BY <1>1, <2>1
<1>3. ASSUME NEW p \in Proc, Reconcile(p) \/ Crash(p)
      PROVE  pc'[k] # "threw"
  <2>1. pc' = pc \/ \E c \in Pcs \ {"threw"} : pc' = [pc EXCEPT ![p] = c]
    BY <1>3 DEF Reconcile, ReadRemote, CommitReconcile, EmitSettled, Crash
  <2> QED
    BY <1>1, <2>1
<1>4. CASE (\E j \in Keys : Provide(j) \/ Age(j)) \/ (\E x \in PanelRefunds : PanelRefund(x))
           \/ (\E i \in Invoices : Chargeback(i)) \/ Reactivate \/ UNCHANGED vars
  BY <1>4 DEF Provide, LatePost, ProviderSettles, Age, PanelRefund, Chargeback, Reactivate, vars
<1> QED
  BY <1>2, <1>3, <1>4 DEF Next, Environment

(* What a step may do with a ticket whose operation does not exist. *)
LEMMA UnsentStep ==
    ASSUME ~Faults, TruthInv, [SupportNext]_allVars, NEW k \in Keys
    PROVE  UnsentFits(k)'
<1>1. /\ [Next]_vars /\ PostsInv /\ TypeOK /\ UnsentFits(k)
      /\ ticket \in [Keys -> TicketRows] /\ dispatch \in [Keys -> DispatchRows]
      /\ ticket[k] \in TicketRows /\ dispatch[k] \in DispatchRows
  BY StepBeneath DEF TruthInv, ToldInv, ClosureInv, PostsInv, TicketsTyped
<1>2. pc'[k] # "threw"
  BY <1>1, NeverThrown DEF UnsentFits
<1>3. op[k].status = "NONE" /\ ~DispatchRequest(k) => op'[k].status = "NONE"
  BY <1>1, OnlyDispatchReserves DEF allVars, vars
<1>4. ASSUME ~DispatchRequest(k),
             \/ ticket'[k].status = ticket[k].status
             \/ ticket'[k].status \notin Unsent
             \/ ticket[k].status \in Unsent,
             dispatch'[k].at = dispatch[k].at
      PROVE  UnsentFits(k)'
  BY <1>1, <1>2, <1>3, <1>4 DEF UnsentFits
<1>5. ASSUME NEW j \in Keys, ReadBalance(j) \/ CreateTicket(j) \/ Reject(j)
      PROVE  UnsentFits(k)'
  <2>1. /\ dispatch' = dispatch /\ op' = op
        /\ ticket'[k].status = ticket[k].status \/ ticket[k].status \in Unsent
    BY <1>1, <1>5 DEF ReadBalance, CreateTicket, Reject, TicketRows, Unsent, vars
  <2> QED
    BY <1>1, <1>2, <2>1 DEF UnsentFits
<1>6. ASSUME NEW j \in Keys, RunDispatch(j), j # k
      PROVE  UnsentFits(k)'
  <2>1. ticket'[k] = ticket[k] /\ dispatch'[k] = dispatch[k]
    BY <1>1, <1>6 DEF RunDispatch, Announce, DispatchRequest, RequestRefused, RequestReturns, Link,
       SettleDispatch, Revert, Reverted, Settled
  <2>2. ~DispatchRequest(k)
    <3>1. dispatch'[j].at # dispatch[j].at
      BY <1>1, <1>6 DEF RunDispatch, Announce, DispatchRequest, RequestRefused, RequestReturns, Link,
         SettleDispatch, Revert, NoDispatch, DispatchRows
    <3>2. DispatchRequest(k) => dispatch'[j] = dispatch[j]
      BY <1>1, <1>6 DEF DispatchRequest
    <3> QED
      BY <3>1, <3>2
  <2> QED
    BY <1>4, <2>1, <2>2
<1>7. ASSUME RunDispatch(k)
      PROVE  UnsentFits(k)'
  <2>1. CASE Announce(k)
    BY <1>1, <1>2, <2>1 DEF Announce, UnsentFits, DispatchRows, vars
  <2>2. CASE DispatchRequest(k)
    BY <1>1, <1>2, <2>2 DEF DispatchRequest, UnsentFits, DispatchRows
  <2>3. CASE RequestRefused(k)
    <3>1. op' = op /\ op[k].status = "NONE" /\ dispatch'[k] = NoDispatch
      BY <1>1, <2>3 DEF RequestRefused, Revert, vars
    <3> QED
      BY <1>2, <3>1 DEF UnsentFits, NoDispatch
  <2>4. CASE RequestReturns(k)
    <3>1. /\ ticket' = ticket /\ dispatch[k].at = "calling"
          /\ dispatch' = [dispatch EXCEPT ![k].at = "link", ![k].got = op[k].status]
      BY <1>1, <2>4 DEF RequestReturns, TakeAnswer, UnsentFits
    <3> QED
      BY <1>1, <1>2, <3>1 DEF UnsentFits, DispatchRows
  <2>5. CASE Link(k)
    <3>1. /\ ticket' = [ticket EXCEPT ![k].linked = TRUE] /\ dispatch[k].at = "link"
          /\ dispatch' = [dispatch EXCEPT ![k].at = "settle"]
      BY <2>5 DEF Link
    <3>2. ticket'[k].status = ticket[k].status /\ dispatch'[k].at = "settle"
      BY <1>1, <3>1 DEF TicketRows, DispatchRows
    <3> QED
      BY <1>1, <1>2, <3>1, <3>2 DEF UnsentFits
  <2>6. CASE SettleDispatch(k)
    <3>1. /\ dispatch[k].at = "settle" /\ dispatch'[k] = NoDispatch
          /\ ticket'[k].status \in {ticket[k].status, "CONFIRMED", "FAILED"}
      BY <1>1, <2>6 DEF SettleDispatch, Settled, TicketRows
    <3> QED
      BY <1>1, <1>2, <3>1 DEF UnsentFits, NoDispatch, Unsent, Waiting
  <2> QED
    BY <1>7, <2>1, <2>2, <2>3, <2>4, <2>5, <2>6 DEF RunDispatch
<1>8. ASSUME NEW a \in Approvers, Approve(a)
      PROVE  UnsentFits(k)'
  <2>1. op' = op
    BY <1>8 DEF Approve, vars
  <2>2. \/ dispatch'[k] = dispatch[k]
           /\ (ticket'[k].status = ticket[k].status \/ ticket[k].status \in Unsent)
        \/ /\ dispatch'[k].at = "announce" /\ ticket'[k].status = "PROCESSING"
           /\ ticket[k].status \in Unsent
    <3> DEFINE j == call[a].ticket
    <3>1. CASE j # k
      BY <1>1, <1>8, <3>1
         DEF Approve, FirstApproval, OnlyApproval, SecondApproval, StartDispatch
    <3>2. CASE j = k
      BY <1>1, <1>8, <3>2
         DEF Approve, FirstApproval, OnlyApproval, SecondApproval, StartDispatch, Claims, TicketRows,
             Unsent, Waiting
    <3> QED
      BY <3>1, <3>2
  <2> QED
    BY <1>1, <1>2, <2>1, <2>2 DEF UnsentFits, Unsent, Waiting
<1>9. ASSUME NEW p \in Proc, NEW e \in SettledEvents, HandleSettled(p, e)
      PROVE  UnsentFits(k)'
  <2>1. e.status \in {"CONFIRMED", "FAILED"}
    BY DEF SettledEvents
  <2>2. /\ dispatch' = dispatch /\ op' = op
        /\ ticket'[k].status = ticket[k].status \/ ticket'[k].status \notin Unsent
    BY <1>1, <1>9, <2>1 DEF HandleSettled, EmitSettled, Settled, TicketRows, Unsent, Waiting
  <2> QED
    BY <1>1, <1>2, <2>2 DEF UnsentFits
<1>10. ~(\E p \in Proc : CrashTogether(p)) /\ ~(\E j \in Keys : CrashDispatch(j))
  BY DEF CrashTogether, Crash, CrashWhilePosting, CrashDispatch
<1>11. CASE (\E a \in Approvers, j \in Keys : LoadTicket(a, j)) \/ RefundStep \/ UNCHANGED allVars
  <2>1. ticket' = ticket /\ dispatch' = dispatch
    BY <1>11 DEF LoadTicket, RefundStep, supportVars, allVars
  <2>2. ~DispatchRequest(k)
    BY <1>1, <2>1 DEF DispatchRequest, DispatchRows
  <2> QED
    BY <1>4, <2>1, <2>2
<1> QED
  BY <1>5, <1>6, <1>7, <1>8, <1>9, <1>10, <1>11 DEF SupportNext

(* What the customer is told is what happened to the money, a rejection      *)
(* included, as long as no call fails and no process dies.                   *)
THEOREM TicketsTellTheTruth ==
    ASSUME ExactMatch, ~Faults PROVE SupportSpec => []TicketTellsTheTruth
<1>1. SupportInit => TruthInv
  <2> SUFFICES ASSUME SupportInit PROVE \A k \in Keys : UnsentFits(k)
    BY ToldInit DEF TruthInv
  <2> QED
    BY DEF SupportInit, Init, UnsentFits, NoDispatch
<1>2. TruthInv /\ [SupportNext]_allVars => TruthInv'
  BY ToldStep, UnsentStep DEF TruthInv
<1>3. TruthInv => TicketTellsTheTruth
  <2> SUFFICES ASSUME TruthInv, NEW k \in Keys
               PROVE  /\ ticket[k].status = "CONFIRMED" => remote[k] = "done"
                      /\ ticket[k].status \in {"FAILED", "REJECTED"} => ~Committed(k)
    BY DEF TicketTellsTheTruth
  <2>1. Told(k, ticket[k].status) /\ Fits(op[k], remote[k], pc[k]) /\ UnsentFits(k)
    BY DEF TruthInv, ToldInv, TicketFit, ClosureInv, KeysFit
  <2> QED
    BY <2>1 DEF Told, Never, Committed, Fits, UnsentFits, Unsent
<1> QED
  BY <1>1, <1>2, <1>3, PTL DEF SupportSpec
=============================================================================
