------------------------ MODULE PaymentEventsProofs ------------------------
(***************************************************************************)
(* Theorems about PaymentEvents for any invoices, workers, events, runs of *)
(* a job and failing handlers: its types; and, when handlers, routines and *)
(* people take turns, that paid, disputed and removed invoices stay so,    *)
(* that a payment releases the company if and only if no other debt is     *)
(* left, and that the coupon counts each payment once.                     *)
(***************************************************************************)
EXTENDS PaymentEvents, FiniteSetTheorems, TLAPS

USE EventsAssumption DEF EventsAssumption

(* A handler between its read of the invoice and its write. *)
Deciding == {"proof", "company", "debts", "write"}

Readings ==
    {Idle}
    \cup [at : {"ask"}, inv : Invoices, row : Rows]
    \cup [at : {"claim", "invoice", "couponRead", "finish"}, event : Events]
    \cup [at : Deciding \cup {"finish"}, event : Events, row : Rows, change : Effects]
    \cup [at : {"couponWrite"}, event : Events, left : 0..CouponCycles]

(* What is handled, queued or stored was emitted. *)
Emitted ==
    /\ \A p \in Procs : run[p].at \notin {"idle", "ask"} =>
          sent[run[p].event] # 0 /\ (p # Cron => run[p].event.by = "asaas")
    /\ \A e \in Events : jobs[e] # 0 => e.by = "asaas" /\ sent[e] # 0
    /\ \A e \in Events : stored[e] # "NONE" => sent[e] # 0

TypeInv ==
    /\ charge \in [Invoices -> Charges]
    /\ sent \in [Events -> 0..2]
    /\ stored \in [Events -> StoredStatus]
    /\ jobs \in [Events -> 0..Attempts]
    /\ invoice \in [Invoices -> Rows]
    /\ company \in Companies
    /\ coupon \in 0..CouponCycles
    /\ run \in [Procs -> Readings]
    /\ dunning \in {"none", "block", "cancel"}
    /\ held \in BOOLEAN
    /\ Emitted

(* Every event gives an invoice a status. *)
LEMMA StatusType ==
    \A name : StatusFromEvent(name) \in {"PAID", "OVERDUE", "CANCELED", "OPEN"}
BY DEF StatusFromEvent

(* The names the code makes of events are events. *)
LEMMA EventType ==
    ASSUME NEW i \in Invoices, NEW name \in Names
    PROVE  /\ Asaas(i, name) \in Events /\ Asaas(i, name).by = "asaas"
           /\ Event(i, name, "reconcile") \in Events
           /\ Event(i, name, "reconcile").inv = i
           /\ Event(i, name, "reconcile").name = name
           /\ Event(i, name, "reconcile").by = "reconcile"
BY DEF Asaas, Event, Events

(* The parts of what a handler keeps, at each of its stages. *)
LEMMA Parts ==
    ASSUME TypeInv, NEW p \in Procs
    PROVE  /\ run[p] \in Readings
           /\ run[p].at = "idle" => run[p] = Idle
           /\ run[p].at = "ask" => run[p] \in [at : {"ask"}, inv : Invoices, row : Rows]
           /\ run[p].at \notin {"idle", "ask"} => run[p].event \in Events
           /\ run[p].at \in {"claim", "invoice", "couponRead"} =>
                 run[p] \in [at : {"claim", "invoice", "couponRead"}, event : Events]
           /\ run[p].at \in Deciding =>
                 run[p] \in [at : Deciding, event : Events, row : Rows, change : Effects]
           /\ run[p].at = "couponWrite" => run[p].left \in 0..CouponCycles
BY DEF TypeInv, Readings, Idle, Deciding

(* The worker's own kind of process. *)
LEMMA ProcsAre == Procs = Workers \cup {Cron} /\ Cron \in Procs
BY DEF Procs

-----------------------------------------------------------------------------
(* Types of the initial state and of the charges at Asaas. *)

(* The initial state is typed. *)
LEMMA TypeInit == EventsInit => TypeInv
<1> SUFFICES ASSUME EventsInit PROVE TypeInv
  OBVIOUS
<1>1. charge \in [Invoices -> Charges] /\ invoice \in [Invoices -> Rows]
  <2>0. NoRow \in Rows
    BY DEF Rows, NoRow, InvoiceStatus
  <2>1. NoRow \in Rows /\ [NoRow EXCEPT !.status = "OPEN"] \in Rows
    BY <2>0 DEF Rows, InvoiceStatus
  <2>2. "PENDING" \in Charges /\ "NONE" \in Charges
    BY DEF Charges
  <2> QED
    BY <2>1, <2>2 DEF EventsInit
<1>2. sent \in [Events -> 0..2] /\ stored \in [Events -> StoredStatus] /\ jobs \in [Events -> 0..Attempts]
  BY DEF EventsInit, StoredStatus
<1>3. company \in Companies /\ coupon \in 0..CouponCycles
  BY DEF EventsInit, Companies, Reasons
<1>4. run \in [Procs -> Readings] /\ \A p \in Procs : run[p].at = "idle"
  BY DEF EventsInit, Readings, Idle
<1>5. Emitted
  BY <1>4 DEF EventsInit, Emitted
<1> QED
  BY <1>1, <1>2, <1>3, <1>4, <1>5 DEF TypeInv, EventsInit

(* An announced change keeps what was emitted. *)
LEMMA MovesType ==
    ASSUME TypeInv, NEW i \in Invoices, NEW from, NEW to \in Charges, NEW name \in Names,
           NEW due \in 1..2, Moves(i, from, to, name, due)
    PROVE  /\ charge' \in [Invoices -> Charges]
           /\ sent' \in [Events -> 0..2]
           /\ \A e \in Events : sent[e] # 0 => sent'[e] = sent[e]
BY EventType DEF TypeInv, Moves

(* A charge has one of two due dates. *)
LEMMA DueType == ASSUME NEW i \in Invoices PROVE DueOf(i) \in 1..2
BY DEF DueOf

(* Every change of a charge keeps what was emitted. *)
LEMMA ChargeMoves ==
    ASSUME TypeInv, NEW i \in Invoices, ChargeChanges(i)
    PROVE  /\ charge' \in [Invoices -> Charges]
           /\ sent' \in [Events -> 0..2]
           /\ \A e \in Events : sent[e] # 0 => sent'[e] = sent[e]
<1> DEFINE due == DueOf(i)
           payable == {"PENDING", "OVERDUE"}
<1> USE MovesType, DueType
<1>0. Charges = {"NONE", "PENDING", "OVERDUE", "CONFIRMED", "RECEIVED", "CHARGEBACK", "DELETED"}
  BY DEF Charges
<1>1. CASE Moves(i, {"NONE"}, "PENDING", "CREATED", 1)
  BY <1>0, <1>1, EventType DEF Names
<1>2. CASE Moves(i, {"PENDING"}, "OVERDUE", "OVERDUE", 1)
  BY <1>0, <1>2, EventType DEF Names
<1>3. CASE Moves(i, {"OVERDUE"}, "PENDING", "UPDATED", 2)
  BY <1>0, <1>3, EventType DEF Names
<1>4. CASE Moves(i, payable, "CONFIRMED", "CONFIRMED", due)
  BY <1>0, <1>4, EventType DEF Names
<1>5. CASE Moves(i, payable \cup {"CONFIRMED"}, "RECEIVED", "RECEIVED", due)
  BY <1>0, <1>5, EventType DEF Names
<1>6. CASE Moves(i, payable, "DELETED", "DELETED", due)
  BY <1>0, <1>6, EventType DEF Names
<1>7. CASE Moves(i, {"DELETED"}, "PENDING", "RESTORED", due)
  BY <1>0, <1>7, EventType DEF Names
<1>8. CASE Moves(i, PaidCharges, "CHARGEBACK", "CHARGEBACK", due)
  BY <1>0, <1>8, EventType DEF Names
<1> QED
  BY <1>1, <1>2, <1>3, <1>4, <1>5, <1>6, <1>7, <1>8 DEF ChargeChanges

-----------------------------------------------------------------------------
(* Types of the steps of a handler. *)

(* Handlers are where they should be when one of them moves on.              *)
LEMMA RunType ==
    ASSUME TypeInv, NEW p \in Procs, NEW r \in Readings, run' = [run EXCEPT ![p] = r],
           \A e \in Events : sent[e] # 0 => sent'[e] = sent[e],
           r.at \notin {"idle", "ask"} =>
              r.event \in Events /\ sent'[r.event] # 0 /\ (p # Cron => r.event.by = "asaas")
    PROVE  /\ run' \in [Procs -> Readings]
           /\ \A q \in Procs : run'[q].at \notin {"idle", "ask"} =>
                 sent'[run'[q].event] # 0 /\ (q # Cron => run'[q].event.by = "asaas")
<1>1. run' \in [Procs -> Readings]
  BY DEF TypeInv
<1>2. ASSUME NEW q \in Procs, run'[q].at \notin {"idle", "ask"}
      PROVE  sent'[run'[q].event] # 0 /\ (q # Cron => run'[q].event.by = "asaas")
  <2>1. CASE q = p
    BY <1>2, <2>1 DEF TypeInv
  <2>2. CASE q # p
    <3>1. run'[q] = run[q] /\ run[q].event \in Events
      BY <1>2, <2>2, Parts DEF TypeInv
    <3> QED
      BY <1>2, <3>1 DEF TypeInv, Emitted
  <2> QED
    BY <2>1, <2>2
<1> QED
  BY <1>1, <1>2

(* A handler that keeps its event, and touches nothing else that is typed.   *)
LEMMA StepType ==
    ASSUME TypeInv, NEW p \in Procs, NEW r \in Readings, run' = [run EXCEPT ![p] = r],
           r.at \notin {"idle", "ask"} =>
              r.event = run[p].event /\ run[p].at \notin {"idle", "ask"},
           UNCHANGED <<sent, jobs, stored, charge, dunning, held>>,
           invoice' \in [Invoices -> Rows], company' \in Companies, coupon' \in 0..CouponCycles
    PROVE  TypeInv'
<1>1. r.at \notin {"idle", "ask"} =>
         r.event \in Events /\ sent'[r.event] # 0 /\ (p # Cron => r.event.by = "asaas")
  BY Parts DEF TypeInv, Emitted
<1>2. \A e \in Events : sent[e] # 0 => sent'[e] = sent[e]
  OBVIOUS
<1>3. Emitted'
  BY <1>1, <1>2, RunType DEF TypeInv, Emitted
<1>4. run' \in [Procs -> Readings]
  BY DEF TypeInv
<1> QED
  BY <1>3, <1>4 DEF TypeInv

(* The decision gives the handler a row, an effect and a next stage.         *)
LEMMA ReadInvoiceType == ASSUME TypeInv, NEW p \in Procs, ReadInvoice(p) PROVE TypeInv'
<1> DEFINE e == run[p].event
           row == invoice[e.inv]
           stage == IF ~Applies(e, row) THEN "finish"
                    ELSE IF NeedsProof(e, row) THEN "proof"
                    ELSE IF StatusFromEvent(e.name) = "PAID" THEN "company" ELSE "write"
           r == [at |-> stage, event |-> e, row |-> row, change |-> ChangeWithout(e, row)]
<1>1. e \in Events /\ run[p].at = "invoice"
  BY Parts DEF ReadInvoice
<1>2. row \in Rows
  BY <1>1 DEF TypeInv, Events
<1>3. stage \in Deciding \cup {"finish"}
  BY DEF Deciding
<1>4. ChangeWithout(e, row) \in Effects
  BY DEF ChangeWithout, Effects
<1>5. r \in Readings /\ r.event = e
  BY <1>1, <1>2, <1>3, <1>4 DEF Readings
<1>6. run' = [run EXCEPT ![p] = r]
  BY DEF ReadInvoice
<1> HIDE DEF r
<1> QED
  BY <1>1, <1>5, <1>6, StepType DEF ReadInvoice, TypeInv

(* A handler that only moves to another stage of deciding, or ends.          *)
LEMMA StageType ==
    ASSUME TypeInv, NEW p \in Procs, run[p].at \in Deciding,
           NEW r \in [at : Deciding \cup {"finish"}, event : Events, row : Rows, change : Effects],
           r.event = run[p].event, run' = [run EXCEPT ![p] = r],
           UNCHANGED <<sent, jobs, stored, charge, dunning, held, invoice, company, coupon>>
    PROVE  TypeInv'
<1>1. r \in Readings
  BY DEF Readings
<1>2. run[p].at \notin {"idle", "ask"}
  BY DEF Deciding
<1> QED
  BY <1>1, <1>2, StepType DEF TypeInv

(* The question to Asaas moves the handler on, or ends it. *)
LEMMA AskProofType == ASSUME TypeInv, NEW p \in Procs, AskProof(p) PROVE TypeInv'
<1> DEFINE at == IF charge[run[p].event.inv] \in PaidCharges THEN "company" ELSE "finish"
<1>1. run[p].at \in Deciding
  BY DEF AskProof, Deciding
<1>2. run[p] \in [at : Deciding, event : Events, row : Rows, change : Effects]
  BY <1>1, Parts
<1> DEFINE r == [run[p] EXCEPT !.at = at]
<1>3. at \in Deciding \cup {"finish"}
  BY DEF Deciding
<1>4. /\ r \in [at : Deciding \cup {"finish"}, event : Events, row : Rows, change : Effects]
      /\ r.event = run[p].event
  BY <1>2, <1>3
<1>5. run' = [run EXCEPT ![p] = r]
  BY DEF AskProof
<1> HIDE DEF r
<1> QED
  BY <1>1, <1>4, <1>5, StageType DEF AskProof

(* Reading the company only moves the handler on. *)
LEMMA ReadCompanyType == ASSUME TypeInv, NEW p \in Procs, ReadCompany(p) PROVE TypeInv'
<1> DEFINE at == IF PaymentMayRelease THEN "debts" ELSE "write"
<1>1. run[p].at \in Deciding
  BY DEF ReadCompany, Deciding
<1>2. run[p] \in [at : Deciding, event : Events, row : Rows, change : Effects]
  BY <1>1, Parts
<1> DEFINE r == [run[p] EXCEPT !.at = at]
<1>3. at \in Deciding \cup {"finish"}
  BY DEF Deciding
<1>4. /\ r \in [at : Deciding \cup {"finish"}, event : Events, row : Rows, change : Effects]
      /\ r.event = run[p].event
  BY <1>2, <1>3
<1>5. run' = [run EXCEPT ![p] = r]
  BY DEF ReadCompany
<1> HIDE DEF r
<1> QED
  BY <1>1, <1>4, <1>5, StageType DEF ReadCompany

(* Counting the debts gives the handler an effect. *)
LEMMA CountDebtsType == ASSUME TypeInv, NEW p \in Procs, CountDebts(p) PROVE TypeInv'
<1> DEFINE change == IF OtherDebts(run[p].event.inv) = {} THEN "release" ELSE "same"
           r == [run[p] EXCEPT !.at = "write", !.change = change]
<1>1. run[p].at \in Deciding /\ "write" \in Deciding \cup {"finish"}
  BY DEF CountDebts, Deciding
<1>2. run[p] \in [at : Deciding, event : Events, row : Rows, change : Effects]
  BY <1>1, Parts
<1>3. change \in Effects
  BY DEF Effects
<1>4. /\ r \in [at : Deciding \cup {"finish"}, event : Events, row : Rows, change : Effects]
      /\ r.event = run[p].event
  BY <1>1, <1>2, <1>3
<1>5. run' = [run EXCEPT ![p] = r]
  BY DEF CountDebts
<1> HIDE DEF r
<1> QED
  BY <1>1, <1>4, <1>5, StageType DEF CountDebts

(* What the transaction writes. *)
LEMMA NextRowType ==
    ASSUME TypeInv, NEW e \in Events, NEW row \in Rows, sent[e] # 0
    PROVE  NextRow(e, row) \in Rows
<1>1. StatusFromEvent(e.name) \in InvoiceStatus
  BY StatusType DEF InvoiceStatus
<1>2. sent[e] \in 1..2
  BY DEF TypeInv
<1> QED
  BY <1>1, <1>2 DEF NextRow, Rows

(* Every effect leaves a company that is one. *)
LEMMA NextCompanyType == ASSUME TypeInv, NEW change PROVE NextCompany(change) \in Companies
<1>1. company \in Companies
  BY DEF TypeInv
<1> QED
  BY <1>1 DEF NextCompany, Companies, Reasons

(* The transaction writes a row and a company. *)
LEMMA WriteType == ASSUME TypeInv, NEW p \in Procs, Write(p) PROVE TypeInv'
<1> DEFINE e == run[p].event
           row == run[p].row
           stage == IF CountsCycle(e, row) THEN "couponRead" ELSE "finish"
           r == [at |-> stage, event |-> e]
<1>1. run[p].at = "write" /\ run[p].at \in Deciding
  BY DEF Write, Deciding
<1>2. e \in Events /\ row \in Rows /\ sent[e] # 0
  BY <1>1, Parts DEF TypeInv, Emitted
<1>3. invoice' \in [Invoices -> Rows]
  BY <1>2, NextRowType DEF Write, TypeInv, Events
<1>4. company' \in Companies
  BY NextCompanyType DEF Write
<1>5. r \in Readings /\ r.event = run[p].event
  BY <1>2 DEF Readings
<1>6. run' = [run EXCEPT ![p] = r]
  BY DEF Write
<1> HIDE DEF r
<1> QED
  BY <1>1, <1>3, <1>4, <1>5, <1>6, StepType DEF Write, TypeInv

(* Of a coupon that runs, one cycle less is kept in mind. *)
LEMMA ReadCouponType == ASSUME TypeInv, NEW p \in Procs, ReadCoupon(p) PROVE TypeInv'
<1> DEFINE r == IF CouponRuns(coupon)
                THEN [at |-> "couponWrite", event |-> run[p].event, left |-> coupon - 1]
                ELSE [at |-> "finish", event |-> run[p].event]
<1>1. run[p].at = "couponRead" /\ run[p].event \in Events
  BY Parts DEF ReadCoupon
<1>2. CouponRuns(coupon) => coupon - 1 \in 0..CouponCycles
  BY DEF CouponRuns, TypeInv
<1>3. r \in Readings /\ r.event = run[p].event
  BY <1>1, <1>2 DEF Readings
<1>4. run' = [run EXCEPT ![p] = r]
  BY DEF ReadCoupon
<1> HIDE DEF r
<1> QED
  BY <1>1, <1>3, <1>4, StepType DEF ReadCoupon, TypeInv

(* The coupon gets what was kept in mind. *)
LEMMA WriteCouponType == ASSUME TypeInv, NEW p \in Procs, WriteCoupon(p) PROVE TypeInv'
<1> DEFINE r == [at |-> "finish", event |-> run[p].event]
<1>1. run[p].at = "couponWrite" /\ run[p].event \in Events /\ run[p].left \in 0..CouponCycles
  BY Parts DEF WriteCoupon
<1>2. coupon' \in 0..CouponCycles
  BY <1>1 DEF WriteCoupon, TypeInv
<1>3. r \in Readings /\ r.event = run[p].event
  BY <1>1 DEF Readings
<1>4. run' = [run EXCEPT ![p] = r]
  BY DEF WriteCoupon
<1> HIDE DEF r
<1> QED
  BY <1>1, <1>2, <1>3, <1>4, StepType DEF WriteCoupon, TypeInv

(* A handler that leaves its event, and what it makes of the stored event.   *)
LEMMA LeaveType ==
    ASSUME TypeInv, NEW p \in Procs, run[p].at \notin {"idle", "ask"},
           NEW status \in StoredStatus,
           stored' = [stored EXCEPT ![run[p].event] = status],
           run' = [run EXCEPT ![p] = Idle],
           jobs' \in [Events -> 0..Attempts], \A e \in Events : jobs'[e] # 0 => jobs[e] # 0,
           UNCHANGED <<charge, sent, invoice, company, coupon, dunning, held>>
    PROVE  TypeInv'
<1>1. run[p].event \in Events /\ sent[run[p].event] # 0
  BY Parts DEF TypeInv, Emitted
<1>2. Idle \in Readings /\ Idle.at = "idle"
  BY DEF Readings, Idle
<1>3. \A e \in Events : sent[e] # 0 => sent'[e] = sent[e]
  OBVIOUS
<1>4. /\ run' \in [Procs -> Readings]
      /\ \A q \in Procs : run'[q].at \notin {"idle", "ask"} =>
            sent'[run'[q].event] # 0 /\ (q # Cron => run'[q].event.by = "asaas")
  BY <1>2, <1>3, RunType
<1>5. stored' \in [Events -> StoredStatus] /\ \A e \in Events : stored'[e] # "NONE" => sent'[e] # 0
  BY <1>1 DEF TypeInv, Emitted
<1> QED
  BY <1>4, <1>5 DEF TypeInv, Emitted

(* A handled event is processed and its job is over. *)
LEMMA FinishType == ASSUME TypeInv, NEW p \in Procs, Finish(p) PROVE TypeInv'
<1>1. run[p].event \in Events /\ run[p].at \notin {"idle", "ask"}
  BY Parts DEF Finish
<1>2. jobs' \in [Events -> 0..Attempts] /\ \A e \in Events : jobs'[e] # 0 => jobs[e] # 0
  BY <1>1 DEF Finish, TypeInv
<1>3. "PROCESSED" \in StoredStatus
  BY DEF StoredStatus
<1> QED
  BY <1>1, <1>2, <1>3, LeaveType DEF Finish

(* A failed event keeps the jobs it has. *)
LEMMA FailType == ASSUME TypeInv, NEW p \in Procs, Fail(p) PROVE TypeInv'
<1>1. run[p].at \notin {"idle", "ask"} /\ "FAILED" \in StoredStatus
  BY DEF Fail, Handling, StoredStatus
<1> QED
  BY <1>1, LeaveType DEF Fail, TypeInv

(* A handler that dies leaves everything as it is. *)
LEMMA DieType == ASSUME TypeInv, NEW p \in Procs, Die(p) PROVE TypeInv'
<1>1. Idle \in Readings /\ Idle.at = "idle"
  BY DEF Readings, Idle
<1> QED
  BY <1>1, StepType DEF Die, TypeInv

(* Everything a worker may do with an event it handles. *)
LEMMA HandleType == ASSUME TypeInv, NEW p \in Procs, Handle(p) PROVE TypeInv'
BY ReadInvoiceType, AskProofType, ReadCompanyType, CountDebtsType, WriteType, ReadCouponType,
   WriteCouponType, FinishType DEF Handle

-----------------------------------------------------------------------------
(* Types of the other steps. *)

(* The changes at Asaas touch charges and what was emitted only. *)
LEMMA ChargeType ==
    ASSUME TypeInv, NEW i \in Invoices, ChargeChanges(i) \/ ChargebackReversed(i)
    PROVE  TypeInv'
<1>1. /\ charge' \in [Invoices -> Charges] /\ sent' \in [Events -> 0..2]
      /\ \A e \in Events : sent[e] # 0 => sent'[e] = sent[e]
  BY ChargeMoves DEF ChargebackReversed, TypeInv, Charges
<1>2. UNCHANGED <<stored, jobs, invoice, company, coupon, run, dunning, held>>
  BY DEF ChargeChanges, ChargebackReversed
<1>3. \A p \in Procs : run[p].at \notin {"idle", "ask"} => run[p].event \in Events
  BY Parts
<1> QED
  BY <1>1, <1>2, <1>3 DEF TypeInv, Emitted

(* A delivery stores and queues an event that was emitted. *)
LEMMA DeliverType == ASSUME TypeInv, NEW e \in Events, Deliver(e) PROVE TypeInv'
BY DEF Deliver, TypeInv, Emitted, StoredStatus

(* A worker takes an event of Asaas that was emitted. *)
LEMMA TakeType ==
    ASSUME TypeInv, NEW w \in Workers, NEW e \in Events, Take(w, e) PROVE TypeInv'
<1> DEFINE r == [at |-> "invoice", event |-> e]
<1>1. w \in Procs /\ sent[e] # 0 /\ e.by = "asaas"
  BY DEF Procs, Take, TypeInv, Emitted
<1>2. jobs' \in [Events -> 0..Attempts] /\ \A f \in Events : jobs'[f] # 0 => jobs[f] # 0
  BY DEF Take, TypeInv
<1>3. CASE Claimable(e)
  <2>1. r \in Readings /\ r.event = e
    BY DEF Readings
  <2>2. run' = [run EXCEPT ![w] = r] /\ UNCHANGED sent
    BY <1>3 DEF Take
  <2> HIDE DEF r
  <2>3. /\ run' \in [Procs -> Readings]
        /\ \A q \in Procs : run'[q].at \notin {"idle", "ask"} =>
              sent'[run'[q].event] # 0 /\ (q # Cron => run'[q].event.by = "asaas")
    BY <1>1, <2>1, <2>2, RunType
  <2>4. /\ stored' \in [Events -> StoredStatus]
        /\ \A f \in Events : stored'[f] # "NONE" => sent'[f] # 0
    BY <1>1, <1>3 DEF Take, TypeInv, Emitted, StoredStatus
  <2> QED
    BY <1>2, <2>3, <2>4 DEF Take, TypeInv, Emitted
<1>4. CASE ~Claimable(e)
  BY <1>2, <1>4 DEF Take, TypeInv, Emitted
<1> QED
  BY <1>3, <1>4

(* The routine reads a row. *)
LEMMA ListType == ASSUME TypeInv, NEW i \in Invoices, List(i) PROVE TypeInv'
<1> DEFINE r == [at |-> "ask", inv |-> i, row |-> invoice[i]]
<1>1. r \in Readings /\ r.at = "ask"
  BY DEF Readings, TypeInv
<1>2. run' = [run EXCEPT ![Cron] = r]
  BY DEF List
<1> HIDE DEF r
<1> QED
  BY <1>1, <1>2, ProcsAre, StepType DEF List, TypeInv

(* The routine makes an event of its own, or has nothing to repair.          *)
LEMMA AskChargeType == ASSUME TypeInv, AskCharge PROVE TypeInv'
<1> DEFINE i == run[Cron].inv
           status == run[Cron].row.status
<1>1. run[Cron].at = "ask" /\ i \in Invoices /\ Cron \in Procs
  BY Parts, ProcsAre DEF AskCharge
<1>2. CASE \E name \in Healing(i, status) :
              LET e == Event(i, name, "reconcile") IN
              /\ run' = [run EXCEPT ![Cron] = [at |-> "claim", event |-> e]]
              /\ sent' = IF stored[e] = "NONE" THEN [sent EXCEPT ![e] = DueOf(i)] ELSE sent
              /\ stored' = IF stored[e] \in {"NONE", "FAILED"}
                           THEN [stored EXCEPT ![e] = "PENDING"] ELSE stored
  <2>1. PICK name \in Healing(i, status) :
              LET e == Event(i, name, "reconcile") IN
              /\ run' = [run EXCEPT ![Cron] = [at |-> "claim", event |-> e]]
              /\ sent' = IF stored[e] = "NONE" THEN [sent EXCEPT ![e] = DueOf(i)] ELSE sent
              /\ stored' = IF stored[e] \in {"NONE", "FAILED"}
                           THEN [stored EXCEPT ![e] = "PENDING"] ELSE stored
    BY <1>2
  <2> DEFINE e == Event(i, name, "reconcile")
             r == [at |-> "claim", event |-> e]
  <2>2. name \in Names
    BY DEF Healing, PaidCharges, Names
  <2>3. e \in Events /\ e.by = "reconcile" /\ DueOf(i) \in 1..2
    BY <1>1, <2>2, EventType, DueType
  <2>4. r \in Readings /\ r.event = e /\ run' = [run EXCEPT ![Cron] = r]
    BY <2>1, <2>3 DEF Readings
  <2> HIDE DEF e, r
  <2>5. /\ sent' = IF stored[e] = "NONE" THEN [sent EXCEPT ![e] = DueOf(i)] ELSE sent
        /\ stored' = IF stored[e] \in {"NONE", "FAILED"}
                     THEN [stored EXCEPT ![e] = "PENDING"] ELSE stored
    BY <2>1 DEF e
  <2>6. sent' \in [Events -> 0..2] /\ sent'[e] # 0 /\ \A f \in Events : sent[f] # 0 => sent'[f] # 0
    BY <2>3, <2>5 DEF TypeInv, Emitted
  <2>7. /\ stored' \in [Events -> StoredStatus]
        /\ \A f \in Events : stored'[f] # "NONE" => sent'[f] # 0
    BY <2>3, <2>5, <2>6 DEF TypeInv, Emitted, StoredStatus
  <2>8. run' \in [Procs -> Readings]
    BY <1>1, <2>4 DEF TypeInv
  <2>9. ASSUME NEW q \in Procs, run'[q].at \notin {"idle", "ask"}
        PROVE  sent'[run'[q].event] # 0 /\ (q # Cron => run'[q].event.by = "asaas")
    <3>1. CASE q = Cron
      BY <1>1, <2>4, <2>6, <3>1 DEF TypeInv
    <3>2. CASE q # Cron
      <4>1. run'[q] = run[q]
        BY <1>1, <2>4, <3>2 DEF TypeInv
      <4>2. run[q].event \in Events
        BY <2>9, <4>1, Parts
      <4> QED
        BY <2>6, <2>9, <3>2, <4>1, <4>2 DEF TypeInv, Emitted
    <3> QED
      BY <3>1, <3>2
  <2> QED
    BY <2>6, <2>7, <2>8, <2>9 DEF AskCharge, TypeInv, Emitted
<1>3. CASE /\ run' = [run EXCEPT ![Cron] = Idle]
           /\ UNCHANGED <<sent, stored>>
  <2>1. Idle \in Readings /\ Idle.at = "idle"
    BY DEF Readings, Idle
  <2> QED
    BY <1>1, <1>3, <2>1, StepType DEF AskCharge, TypeInv
<1> QED
  BY <1>2, <1>3 DEF AskCharge

(* The routine claims its own event, or leaves it. *)
LEMMA ClaimRepairType == ASSUME TypeInv, ClaimRepair PROVE TypeInv'
<1> DEFINE e == run[Cron].event
           r == IF Claimable(e) THEN [at |-> "invoice", event |-> e] ELSE Idle
<1>1. run[Cron].at = "claim" /\ e \in Events /\ Cron \in Procs /\ sent[e] # 0
  BY Parts, ProcsAre DEF ClaimRepair, TypeInv, Emitted
<1>2. /\ r \in Readings /\ run' = [run EXCEPT ![Cron] = r]
      /\ r.at \notin {"idle", "ask"} => r.event = e
  BY <1>1 DEF ClaimRepair, Readings, Idle
<1> HIDE DEF r
<1>3. \A f \in Events : sent[f] # 0 => sent'[f] = sent[f]
  BY DEF ClaimRepair
<1>4. /\ run' \in [Procs -> Readings]
      /\ \A q \in Procs : run'[q].at \notin {"idle", "ask"} =>
            sent'[run'[q].event] # 0 /\ (q # Cron => run'[q].event.by = "asaas")
  BY <1>1, <1>2, <1>3, RunType DEF ClaimRepair
<1>5. stored' \in [Events -> StoredStatus] /\ \A f \in Events : stored'[f] # "NONE" => sent'[f] # 0
  BY <1>1 DEF ClaimRepair, TypeInv, Emitted, StoredStatus
<1> QED
  BY <1>4, <1>5 DEF ClaimRepair, TypeInv, Emitted

(* The new day forgets events of the routine, which then handles none.       *)
LEMMA NewDayType == ASSUME TypeInv, NewDay PROVE TypeInv'
<1>1. \A e \in Events : e.by = "asaas" => sent'[e] = sent[e] /\ stored'[e] = stored[e]
  BY DEF NewDay
<1>2. sent' \in [Events -> 0..2] /\ stored' \in [Events -> StoredStatus]
  BY DEF NewDay, TypeInv, StoredStatus
<1>3. \A e \in Events : stored'[e] # "NONE" => sent'[e] # 0
  BY DEF NewDay, TypeInv, Emitted
<1>4. ASSUME NEW p \in Procs, run'[p].at \notin {"idle", "ask"}
      PROVE  sent'[run'[p].event] # 0 /\ (p # Cron => run'[p].event.by = "asaas")
  <2>1. run'[p] = run[p] /\ p # Cron
    BY <1>4 DEF NewDay, Idle
  <2>2. run[p].event \in Events
    BY <1>4, <2>1, Parts
  <2> QED
    BY <1>1, <1>4, <2>1, <2>2 DEF TypeInv, Emitted
<1> QED
  BY <1>1, <1>2, <1>3, <1>4 DEF NewDay, TypeInv, Emitted

(* The dunning routine and people leave a company that is one. *)
LEMMA CompanyType ==
    ASSUME TypeInv, DunningReads \/ DunningWrites \/ PersonDecides PROVE TypeInv'
<1>1. company' \in Companies /\ dunning' \in {"none", "block", "cancel"} /\ held' \in BOOLEAN
  <2>1. CASE DunningReads
    BY <2>1 DEF DunningReads, TypeInv
  <2>2. CASE DunningWrites
    BY <2>2 DEF DunningWrites, TypeInv, Companies, Reasons
  <2>3. CASE PersonDecides
    <3>1. company \in Companies /\ dunning \in {"none", "block", "cancel"}
      BY DEF TypeInv
    <3>2. company' = [company EXCEPT !.reason = "person"] \/ company' = [reason |-> "none", billing |-> "ACTIVE"]
      BY <2>3 DEF PersonDecides
    <3>3. company' \in Companies
      BY <3>1, <3>2 DEF Companies, Reasons
    <3> QED
      BY <2>3, <3>1, <3>3 DEF PersonDecides
  <2> QED
    BY <2>1, <2>2, <2>3
<1>2. UNCHANGED <<charge, sent, stored, jobs, invoice, coupon, run>>
  BY DEF DunningReads, DunningWrites, PersonDecides
<1> QED
  BY <1>1, <1>2 DEF TypeInv, Emitted

(* Every step keeps the types. *)
LEMMA TypeStep == TypeInv /\ [EventsNext]_eventVars => TypeInv'
<1> SUFFICES ASSUME TypeInv, [EventsNext]_eventVars PROVE TypeInv'
  OBVIOUS
<1>1. CASE \E i \in Invoices : ChargeChanges(i) \/ ChargebackReversed(i) \/ List(i)
  BY <1>1, ChargeType, ListType
<1>2. CASE \E e \in Events : Deliver(e) \/ \E w \in Workers : Take(w, e)
  BY <1>2, DeliverType, TakeType
<1>3. CASE \E p \in Procs : Handle(p) \/ Fail(p) \/ Die(p)
  BY <1>3, HandleType, FailType, DieType
<1>4. CASE AskCharge \/ ClaimRepair \/ NewDay
  BY <1>4, AskChargeType, ClaimRepairType, NewDayType
<1>5. CASE DunningReads \/ DunningWrites \/ PersonDecides
  BY <1>5, CompanyType
<1>6. CASE UNCHANGED eventVars
  BY <1>6 DEF eventVars, TypeInv, Emitted
<1> QED
  BY <1>1, <1>2, <1>3, <1>4, <1>5, <1>6 DEF EventsNext

(* The types hold always. *)
LEMMA TypesHold == EventsSpec => []TypeInv
<1> QED
  BY TypeInit, TypeStep, PTL DEF EventsSpec

(* Rows, events, jobs, handlers and the company are what their names say,    *)
(* however handlers, the routines and people interleave, fail and die.       *)
THEOREM EventsTypeCorrect == EventsSpec => []EventsTypeOK
<1>1. TypeInv => EventsTypeOK
  <2>1. Readings \subseteq Runs
    BY DEF Readings, Runs, Deciding, Stages
  <2> QED
    BY <2>1 DEF TypeInv, EventsTypeOK
<1> QED
  BY <1>1, TypesHold, PTL

-----------------------------------------------------------------------------
(* Turns: while a handler, the dunning routine or a person acts on what it   *)
(* has read, nobody else begins.                                             *)

Alone ==
    /\ \A p, q \in Procs : run[p] # Idle /\ run[q] # Idle => p = q
    /\ dunning # "none" => \A p \in Procs : run[p] = Idle

StatusOf(p) == StatusFromEvent(run[p].event.name)
MarkedDebt(i) == \E j \in Invoices \ {i} : IsDebt(j) /\ invoice[j].status = "OVERDUE"

(* An invoice that only an event that restores may open. *)
Closed(row) == row.status = "CANCELED" \/ (row.status # "NONE" /\ row.removed)

(* What a handler has read is what is there; what it decided of the company  *)
(* follows from the debts that are there.                                    *)
Decided(p) ==
    LET i == run[p].event.inv IN
    /\ run[p].row = invoice[i]
    /\ run[p].row.status = "PAID" => StatusOf(p) \notin {"OPEN", "OVERDUE"}
    /\ Closed(run[p].row) /\ StatusOf(p) = "OPEN" => run[p].event.name = "RESTORED"
    /\ run[p].at # "write" => StatusOf(p) = "PAID" /\ run[p].change = "same"
    /\ run[p].at = "debts" => PaymentMayRelease
    /\ run[p].at = "write" /\ StatusOf(p) = "PAID" =>
          \/ run[p].change = "release" /\ ~MarkedDebt(i)
          \/ run[p].change = "same" /\ (PaymentMayRelease => OtherDebts(i) # {})

TurnsInv ==
    /\ TypeInv /\ Alone
    /\ \A p \in Procs : run[p].at \in Deciding => Decided(p)

TakeTurns == ~Overlap

-----------------------------------------------------------------------------
(* Turns are kept. *)

(* At first nobody has a turn. *)
LEMMA TurnsInit == EventsInit => TurnsInv
<1> SUFFICES ASSUME EventsInit PROVE TurnsInv
  OBVIOUS
<1>1. \A p \in Procs : run[p] = Idle /\ run[p].at \notin Deciding
  BY DEF EventsInit, Idle, Deciding
<1> QED
  BY <1>1, TypeInit DEF TurnsInv, Alone, EventsInit

(* A handler that moves is the only one, and nobody writes to the company.   *)
LEMMA OnlyOne ==
    ASSUME TurnsInv, NEW p \in Procs, run[p].at # "idle"
    PROVE  /\ dunning = "none" /\ ~Quiet
           /\ \A q \in Procs : q # p => run[q] = Idle
<1>1. run[p] # Idle
  BY DEF Idle
<1> QED
  BY <1>1 DEF TurnsInv, Alone, Quiet

(* Turns stay when the one whose turn it is, or anybody in the quiet, moves. *)
LEMMA AloneStays ==
    ASSUME TurnsInv, NEW p \in Procs, NEW r, run' = [run EXCEPT ![p] = r],
           run[p].at # "idle" \/ Quiet, UNCHANGED dunning
    PROVE  Alone'
<1>1. dunning = "none" /\ \A q \in Procs : q # p => run[q] = Idle
  BY OnlyOne DEF Quiet
<1>2. \A q \in Procs : q # p => run'[q] = Idle
  BY <1>1 DEF TurnsInv, TypeInv
<1> QED
  BY <1>1, <1>2 DEF Alone

(* The announcement of an overdue charge is never taken back.                *)
LEMMA OverdueStays ==
    ASSUME TypeInv, EventsNext, NEW i \in Invoices, sent[Asaas(i, "OVERDUE")] # 0
    PROVE  sent'[Asaas(i, "OVERDUE")] # 0
<1> DEFINE o == Asaas(i, "OVERDUE")
<1>1. o \in Events /\ o.by = "asaas"
  BY EventType DEF Names
<1>2. CASE \E j \in Invoices : ChargeChanges(j) \/ ChargebackReversed(j) \/ List(j)
  BY <1>1, <1>2, ChargeMoves DEF ChargebackReversed, List
<1>3. CASE \E e \in Events : Deliver(e) \/ \E w \in Workers : Take(w, e)
  BY <1>3 DEF Deliver, Take
<1>4. CASE \E p \in Procs : Handle(p) \/ Fail(p) \/ Die(p)
  BY <1>4 DEF Handle, Fail, Die, ReadInvoice, AskProof, ReadCompany, CountDebts, Write,
              ReadCoupon, WriteCoupon, Finish
<1>5. CASE AskCharge
  <2>1. \A name : Event(run[Cron].inv, name, "reconcile").by = "reconcile"
    BY DEF Event
  <2>2. \A name : Event(run[Cron].inv, name, "reconcile") # o
    BY <1>1, <2>1
  <2>3. \/ UNCHANGED sent
        \/ \E name : sent' = [sent EXCEPT ![Event(run[Cron].inv, name, "reconcile")] =
                                  DueOf(run[Cron].inv)]
    BY <1>5 DEF AskCharge
  <2>4. sent \in [Events -> 0..2]
    BY DEF TypeInv
  <2> QED
    BY <1>1, <2>2, <2>3, <2>4
<1>6. CASE ClaimRepair \/ DunningReads \/ DunningWrites \/ PersonDecides
  BY <1>6 DEF ClaimRepair, DunningReads, DunningWrites, PersonDecides
<1>7. CASE NewDay
  <2>1. \A e \in Events : e.by = "asaas" => sent'[e] = sent[e]
    BY <1>7 DEF NewDay
  <2> HIDE DEF o
  <2> QED
    BY <1>1, <2>1 DEF o
<1> QED
  BY <1>2, <1>3, <1>4, <1>5, <1>6, <1>7 DEF EventsNext

(* What somebody has decided still fits while rows and company stay.         *)
LEMMA DecidedStays ==
    ASSUME TurnsInv, EventsNext, NEW p \in Procs, run'[p] = run[p], run[p].at \in Deciding,
           UNCHANGED <<invoice, company>>
    PROVE  Decided(p)'
<1> DEFINE i == run[p].event.inv
<1>1. Decided(p) /\ i \in Invoices
  BY Parts DEF TurnsInv, Deciding, Events
<1>2. StatusOf(p)' = StatusOf(p) /\ PaymentMayRelease' = PaymentMayRelease
  BY DEF StatusOf, PaymentMayRelease
<1>3. MarkedDebt(i)' => MarkedDebt(i)
  BY DEF MarkedDebt, IsDebt
<1>4. ASSUME OtherDebts(i) # {} PROVE OtherDebts(i)' # {}
  <2>1. PICK j \in Invoices \ {i} : IsDebt(j)
    BY <1>4 DEF OtherDebts
  <2>2. IsDebt(j)'
    BY <2>1, OverdueStays DEF IsDebt, PastDue, TurnsInv
  <2> QED
    BY <2>1, <2>2 DEF OtherDebts
<1> QED
  BY <1>1, <1>2, <1>3, <1>4 DEF Decided

(* Steps that write neither an invoice nor the company, and after which      *)
(* nobody decides who did not before.                                        *)
LEMMA OthersTurns ==
    ASSUME TurnsInv, EventsNext, Alone', UNCHANGED <<invoice, company>>,
           \A p \in Procs : run'[p].at \in Deciding => run'[p] = run[p]
    PROVE  TurnsInv'
<1>1. TypeInv'
  BY TypeStep DEF TurnsInv
<1>2. ASSUME NEW p \in Procs, run'[p].at \in Deciding PROVE Decided(p)'
  BY <1>2, DecidedStays
<1> QED
  BY <1>1, <1>2 DEF TurnsInv

(* Steps after which nobody else than p decides.                             *)
LEMMA OwnTurn ==
    ASSUME TurnsInv, EventsNext, NEW p \in Procs, run[p].at # "idle", NEW r,
           run' = [run EXCEPT ![p] = r], UNCHANGED dunning,
           r.at \in Deciding => Decided(p)'
    PROVE  TurnsInv'
<1>1. TypeInv' /\ Alone'
  BY TypeStep, AloneStays DEF TurnsInv
<1>2. \A q \in Procs : q # p => run'[q].at \notin Deciding
  BY OnlyOne DEF Idle, Deciding, TurnsInv, TypeInv
<1>3. run'[p] = r
  BY DEF TurnsInv, TypeInv
<1> QED
  BY <1>1, <1>2, <1>3 DEF TurnsInv

-----------------------------------------------------------------------------
(* The steps of a handler in its turn. *)

(* The decision fits the row that is there. *)
LEMMA ReadInvoiceTurn ==
    ASSUME TurnsInv, EventsNext, NEW p \in Procs, ReadInvoice(p) PROVE TurnsInv'
<1> DEFINE e == run[p].event
           row == invoice[e.inv]
           stage == IF ~Applies(e, row) THEN "finish"
                    ELSE IF NeedsProof(e, row) THEN "proof"
                    ELSE IF StatusFromEvent(e.name) = "PAID" THEN "company" ELSE "write"
           r == [at |-> stage, event |-> e, row |-> row, change |-> ChangeWithout(e, row)]
<1>1. run' = [run EXCEPT ![p] = r] /\ run[p].at = "invoice"
      /\ UNCHANGED <<invoice, company, dunning>>
  BY DEF ReadInvoice
<1>2. run'[p] = r
  BY <1>1 DEF TurnsInv, TypeInv
<1>3. ASSUME r.at \in Deciding PROVE Decided(p)'
  <2>1. Applies(e, row)
    BY <1>3 DEF Deciding
  <2>2. row.status = "PAID" => StatusFromEvent(e.name) \notin {"OPEN", "OVERDUE"}
    BY <2>1 DEF Applies
  <2>3. Closed(row) /\ StatusFromEvent(e.name) = "OPEN" => e.name = "RESTORED"
    BY <2>1 DEF Applies, Opens, Closed
  <2>4. stage # "write" => StatusFromEvent(e.name) = "PAID" /\ ChangeWithout(e, row) = "same"
    BY <2>1 DEF NeedsProof, ChangeWithout
  <2>5. stage # "debts" /\ (stage = "write" => StatusFromEvent(e.name) # "PAID")
    BY <2>1
  <2>6. /\ run'[p].at = stage /\ run'[p].event = e /\ run'[p].row = row
        /\ run'[p].change = ChangeWithout(e, row) /\ invoice'[e.inv] = row
    BY <1>1, <1>2
  <2> HIDE DEF stage, row, e, r
  <2> QED
    BY <2>2, <2>3, <2>4, <2>5, <2>6 DEF Decided, StatusOf
<1> HIDE DEF r
<1> QED
  BY <1>1, <1>3, OwnTurn

(* The proof changes nothing that was read. *)
LEMMA AskProofTurn ==
    ASSUME TurnsInv, EventsNext, NEW p \in Procs, AskProof(p) PROVE TurnsInv'
<1> DEFINE at == IF charge[run[p].event.inv] \in PaidCharges THEN "company" ELSE "finish"
           r == [run[p] EXCEPT !.at = at]
<1>1. /\ run' = [run EXCEPT ![p] = r] /\ run[p].at = "proof"
      /\ UNCHANGED <<invoice, company, dunning>>
  BY DEF AskProof
<1>2. run'[p] = r /\ run[p] \in [at : Deciding, event : Events, row : Rows, change : Effects]
  BY <1>1, Parts DEF TurnsInv, TypeInv, Deciding
<1>3. Decided(p)
  BY <1>1 DEF TurnsInv, Deciding
<1>4. /\ run'[p].at = at /\ run'[p].event = run[p].event /\ run'[p].row = run[p].row
      /\ run'[p].change = run[p].change
  BY <1>2
<1>5. ASSUME at \in Deciding PROVE Decided(p)'
  <2>1. at = "company"
    BY <1>5 DEF Deciding
  <2> QED
    BY <1>1, <1>3, <1>4, <2>1 DEF Decided, StatusOf
<1>6. r.at = at
  BY <1>2
<1> HIDE DEF r, at
<1> QED
  BY <1>1, <1>5, <1>6, OwnTurn

(* A company that a payment may release is looked at further. *)
LEMMA ReadCompanyTurn ==
    ASSUME TurnsInv, EventsNext, NEW p \in Procs, ReadCompany(p) PROVE TurnsInv'
<1> DEFINE at == IF PaymentMayRelease THEN "debts" ELSE "write"
           r == [run[p] EXCEPT !.at = at]
<1>1. /\ run' = [run EXCEPT ![p] = r] /\ run[p].at = "company"
      /\ UNCHANGED <<invoice, company, dunning>>
  BY DEF ReadCompany
<1>2. run'[p] = r /\ run[p] \in [at : Deciding, event : Events, row : Rows, change : Effects]
  BY <1>1, Parts DEF TurnsInv, TypeInv, Deciding
<1>3. Decided(p)
  BY <1>1 DEF TurnsInv, Deciding
<1>4. /\ run'[p].at = at /\ run'[p].event = run[p].event /\ run'[p].row = run[p].row
      /\ run'[p].change = run[p].change /\ r.at = at
  BY <1>2
<1>5. PaymentMayRelease' = PaymentMayRelease
  BY <1>1 DEF PaymentMayRelease
<1>6. at = "debts" => PaymentMayRelease
  OBVIOUS
<1>7. at = "write" => ~PaymentMayRelease
  OBVIOUS
<1>8. at \in {"debts", "write"}
  OBVIOUS
<1> HIDE DEF r, at
<1>9. Decided(p)'
  BY <1>1, <1>3, <1>4, <1>5, <1>6, <1>7, <1>8 DEF Decided, StatusOf
<1> QED
  BY <1>1, <1>9, OwnTurn

(* The effect follows from the debts that are there. *)
LEMMA CountDebtsTurn ==
    ASSUME TurnsInv, EventsNext, NEW p \in Procs, CountDebts(p) PROVE TurnsInv'
<1> DEFINE i == run[p].event.inv
           change == IF OtherDebts(i) = {} THEN "release" ELSE "same"
           r == [run[p] EXCEPT !.at = "write", !.change = change]
<1>1. /\ run' = [run EXCEPT ![p] = r] /\ run[p].at = "debts"
      /\ UNCHANGED <<invoice, company, dunning, sent>>
  BY DEF CountDebts
<1>2. run'[p] = r /\ run[p] \in [at : Deciding, event : Events, row : Rows, change : Effects]
  BY <1>1, Parts DEF TurnsInv, TypeInv, Deciding
<1>3. Decided(p)
  BY <1>1 DEF TurnsInv, Deciding
<1>4. /\ run'[p].at = "write" /\ run'[p].event = run[p].event /\ run'[p].row = run[p].row
      /\ run'[p].change = change
  BY <1>2
<1>5. OtherDebts(i)' = OtherDebts(i) /\ MarkedDebt(i)' = MarkedDebt(i)
      /\ PaymentMayRelease' = PaymentMayRelease
  BY <1>1, <1>4 DEF OtherDebts, MarkedDebt, IsDebt, PastDue, PaymentMayRelease
<1>6. OtherDebts(i) = {} => ~MarkedDebt(i)
  BY DEF OtherDebts, MarkedDebt
<1> HIDE DEF r
<1>7. Decided(p)'
  BY <1>1, <1>3, <1>4, <1>5, <1>6 DEF Decided, StatusOf
<1> QED
  BY <1>1, <1>7, OwnTurn

(* After the write, nobody is deciding.                                      *)
LEMMA WriteTurn ==
    ASSUME TurnsInv, EventsNext, NEW p \in Procs, Write(p) PROVE TurnsInv'
<1> DEFINE r == [at |-> IF CountsCycle(run[p].event, run[p].row) THEN "couponRead" ELSE "finish",
                 event |-> run[p].event]
<1>1. run' = [run EXCEPT ![p] = r] /\ run[p].at # "idle" /\ UNCHANGED dunning
  BY DEF Write
<1>2. r.at \notin Deciding
  BY DEF Deciding
<1> HIDE DEF r
<1> QED
  BY <1>1, <1>2, OwnTurn

(* The coupon, the end of a handler, its failure and its death.              *)
LEMMA AfterwardsTurn ==
    ASSUME TurnsInv, EventsNext, NEW p \in Procs,
           ReadCoupon(p) \/ WriteCoupon(p) \/ Finish(p) \/ Fail(p) \/ Die(p)
    PROVE  TurnsInv'
<1>1. CASE ReadCoupon(p)
  <2> DEFINE r == IF CouponRuns(coupon)
                  THEN [at |-> "couponWrite", event |-> run[p].event, left |-> coupon - 1]
                  ELSE [at |-> "finish", event |-> run[p].event]
  <2>1. run' = [run EXCEPT ![p] = r] /\ run[p].at # "idle" /\ UNCHANGED dunning
    BY <1>1 DEF ReadCoupon
  <2>2. r.at \notin Deciding
    BY DEF Deciding
  <2> HIDE DEF r
  <2> QED
    BY <2>1, <2>2, OwnTurn
<1>2. CASE WriteCoupon(p)
  <2> DEFINE r == [at |-> "finish", event |-> run[p].event]
  <2>1. run' = [run EXCEPT ![p] = r] /\ run[p].at # "idle" /\ UNCHANGED dunning
    BY <1>2 DEF WriteCoupon
  <2>2. r.at \notin Deciding
    BY DEF Deciding
  <2> HIDE DEF r
  <2> QED
    BY <2>1, <2>2, OwnTurn
<1>3. CASE Finish(p) \/ Fail(p) \/ Die(p)
  <2>1. run' = [run EXCEPT ![p] = Idle] /\ UNCHANGED dunning
    BY <1>3 DEF Finish, Fail, Die
  <2>2. run[p].at # "idle"
    BY <1>3, Parts DEF Finish, Fail, Die, Handling, TurnsInv
  <2>3. Idle.at \notin Deciding
    BY DEF Idle, Deciding
  <2> QED
    BY <2>1, <2>2, <2>3, OwnTurn
<1> QED
  BY <1>1, <1>2, <1>3

-----------------------------------------------------------------------------
(* The steps of the others. *)

(* In the quiet nobody is deciding. *)
LEMMA QuietStep ==
    ASSUME TurnsInv, EventsNext, Alone', Quiet,
           \A p \in Procs : run'[p].at \notin Deciding
    PROVE  TurnsInv'
BY TypeStep DEF TurnsInv

(* Asaas, deliveries and new days take no turn. *)
LEMMA OutsideTurn ==
    ASSUME TurnsInv, EventsNext,
           \/ \E i \in Invoices : ChargeChanges(i) \/ ChargebackReversed(i)
           \/ \E e \in Events : Deliver(e)
           \/ NewDay
    PROVE  TurnsInv'
<1>1. UNCHANGED <<run, dunning, invoice, company>>
  BY DEF ChargeChanges, ChargebackReversed, Deliver, NewDay
<1>2. Alone'
  BY <1>1 DEF TurnsInv, Alone
<1> QED
  BY <1>1, <1>2, OthersTurns

(* A worker begins in the quiet. *)
LEMMA TakeTurn ==
    ASSUME TakeTurns, TurnsInv, EventsNext, NEW w \in Workers, NEW e \in Events, Take(w, e)
    PROVE  TurnsInv'
<1>0. w \in Procs /\ UNCHANGED <<dunning, invoice, company>>
  BY DEF Procs, Take
<1>1. CASE Claimable(e)
  <2> DEFINE r == [at |-> "invoice", event |-> e]
  <2>1. run' = [run EXCEPT ![w] = r] /\ Quiet
    BY <1>1 DEF Take, MayBegin, TakeTurns
  <2>2. r.at \notin Deciding
    BY DEF Deciding
  <2> HIDE DEF r
  <2>3. Alone'
    BY <1>0, <2>1, AloneStays
  <2>4. \A p \in Procs : run'[p].at \notin Deciding
    BY <2>1, <2>2 DEF Quiet, Idle, Deciding, TurnsInv, TypeInv
  <2> QED
    BY <2>1, <2>3, <2>4, QuietStep
<1>2. CASE ~Claimable(e)
  <2>1. UNCHANGED run
    BY <1>2 DEF Take
  <2>2. Alone'
    BY <1>0, <2>1 DEF TurnsInv, Alone
  <2> QED
    BY <1>0, <2>1, <2>2, OthersTurns
<1> QED
  BY <1>1, <1>2

(* The routine begins in the quiet. *)
LEMMA ListTurn ==
    ASSUME TakeTurns, TurnsInv, EventsNext, NEW i \in Invoices, List(i) PROVE TurnsInv'
<1> DEFINE r == [at |-> "ask", inv |-> i, row |-> invoice[i]]
<1>1. run' = [run EXCEPT ![Cron] = r] /\ Quiet /\ UNCHANGED dunning
  BY DEF List, MayBegin, TakeTurns
<1>2. r.at \notin Deciding
  BY DEF Deciding
<1> HIDE DEF r
<1>3. Alone'
  BY <1>1, ProcsAre, AloneStays
<1>4. \A p \in Procs : run'[p].at \notin Deciding
  BY <1>1, <1>2 DEF Quiet, Idle, Deciding, TurnsInv, TypeInv
<1> QED
  BY <1>1, <1>3, <1>4, QuietStep

(* The routine goes on with its turn. *)
LEMMA RepairTurn ==
    ASSUME TurnsInv, EventsNext, AskCharge \/ ClaimRepair PROVE TurnsInv'
<1>1. PICK r : run' = [run EXCEPT ![Cron] = r] /\ r.at \notin Deciding
  <2>1. CASE AskCharge
    BY <2>1 DEF AskCharge, Idle, Deciding
  <2>2. CASE ClaimRepair
    BY <2>2 DEF ClaimRepair, Idle, Deciding
  <2> QED
    BY <2>1, <2>2
<1>2. run[Cron].at # "idle" /\ UNCHANGED dunning
  BY DEF AskCharge, ClaimRepair
<1> QED
  BY <1>1, <1>2, ProcsAre, OwnTurn

(* The dunning routine and people act when no handler does. *)
LEMMA CompanyTurn ==
    ASSUME TakeTurns, TurnsInv, EventsNext, DunningReads \/ DunningWrites \/ PersonDecides
    PROVE  TurnsInv'
<1>1. UNCHANGED run /\ \A p \in Procs : run[p] = Idle
  BY DEF DunningReads, DunningWrites, PersonDecides, MayBegin, TakeTurns, Quiet, TurnsInv, Alone
<1>2. Alone'
  BY <1>1 DEF Alone
<1>3. \A p \in Procs : run'[p].at \notin Deciding
  BY <1>1 DEF Idle, Deciding
<1> QED
  BY <1>2, <1>3, TypeStep DEF TurnsInv

(* Turns are kept by every step. *)
LEMMA TurnsStep == TakeTurns /\ TurnsInv /\ [EventsNext]_eventVars => TurnsInv'
<1> SUFFICES ASSUME TakeTurns, TurnsInv, [EventsNext]_eventVars PROVE TurnsInv'
  OBVIOUS
<1>0. CASE UNCHANGED eventVars
  <2>1. TypeInv' /\ UNCHANGED <<run, dunning, invoice, company, sent>>
    BY <1>0, TypeStep DEF TurnsInv, eventVars
  <2>2. \A p \in Procs : Decided(p)' = Decided(p)
    BY <2>1 DEF Decided, StatusOf, MarkedDebt, OtherDebts, IsDebt, PastDue, PaymentMayRelease
  <2> QED
    BY <2>1, <2>2 DEF TurnsInv, Alone
<1> SUFFICES ASSUME EventsNext PROVE TurnsInv'
  BY <1>0
<1>1. CASE \E i \in Invoices : ChargeChanges(i) \/ ChargebackReversed(i) \/ List(i)
  BY <1>1, OutsideTurn, ListTurn
<1>2. CASE \E e \in Events : Deliver(e) \/ \E w \in Workers : Take(w, e)
  BY <1>2, OutsideTurn, TakeTurn
<1>3. CASE \E p \in Procs : Handle(p) \/ Fail(p) \/ Die(p)
  BY <1>3, ReadInvoiceTurn, AskProofTurn, ReadCompanyTurn, CountDebtsTurn, WriteTurn,
     AfterwardsTurn DEF Handle
<1>4. CASE AskCharge \/ ClaimRepair
  BY <1>4, RepairTurn
<1>5. CASE NewDay
  BY <1>5, OutsideTurn
<1>6. CASE DunningReads \/ DunningWrites \/ PersonDecides
  BY <1>6, CompanyTurn
<1> QED
  BY <1>1, <1>2, <1>3, <1>4, <1>5, <1>6 DEF EventsNext

(* Turns hold always. *)
LEMMA TurnsHold == TakeTurns => (EventsSpec => []TurnsInv)
<1>1. TakeTurns /\ TurnsInv /\ [EventsNext]_eventVars => TurnsInv'
  BY TurnsStep
<1>2. ASSUME TakeTurns PROVE EventsSpec => []TurnsInv
  <2>1. TurnsInv /\ [EventsNext]_eventVars => TurnsInv'
    BY <1>1, <1>2
  <2> QED
    BY TurnsInit, <2>1, PTL DEF EventsSpec
<1> QED
  BY <1>2

-----------------------------------------------------------------------------
(* What follows of payments. *)

(* Invoices change in the transaction of a handler only. *)
LEMMA OnlyWriteWrites == EventsNext => UNCHANGED invoice \/ \E p \in Procs : Write(p)
BY DEF EventsNext, ChargeChanges, ChargebackReversed, List, Deliver, Take, Handle, Fail, Die,
       ReadInvoice, AskProof, ReadCompany, CountDebts, ReadCoupon, WriteCoupon, Finish,
       AskCharge, ClaimRepair, NewDay, DunningReads, DunningWrites, PersonDecides

(* The transaction writes what its handler has decided, of its own invoice.  *)
LEMMA WhatIsWritten ==
    ASSUME TurnsInv, NEW p \in Procs, Write(p)
    PROVE  /\ Decided(p) /\ run[p].at = "write" /\ run[p].event.inv \in Invoices
           /\ invoice'[run[p].event.inv].status = StatusOf(p)
           /\ \A i \in Invoices : i # run[p].event.inv => invoice'[i] = invoice[i]
           /\ company' = NextCompany(run[p].change)
<1>1. run[p].at = "write" /\ run[p].at \in Deciding
  BY DEF Write, Deciding
<1>2. run[p].event \in Events
  BY <1>1, Parts DEF TurnsInv
<1>3. run[p].event.inv \in Invoices
  BY <1>2 DEF Events
<1>4. NextRow(run[p].event, run[p].row).status = StatusOf(p)
  BY DEF NextRow, StatusOf
<1>5. /\ invoice' = [invoice EXCEPT ![run[p].event.inv] = NextRow(run[p].event, run[p].row)]
      /\ company' = NextCompany(run[p].change)
  BY DEF Write
<1>6. invoice \in [Invoices -> Rows]
  BY DEF TurnsInv, TypeInv
<1>7. Decided(p)
  BY <1>1 DEF TurnsInv
<1> QED
  BY <1>1, <1>3, <1>4, <1>5, <1>6, <1>7

(* "uma fatura ja paga nunca volta para aberta/vencida": while handlers and  *)
(* routines take turns, whatever comes late, twice or after a failure.       *)
THEOREM PaidStaysPaid == TakeTurns => (EventsSpec => PaidNeverReopens)
<1> DEFINE Kept == \A i \in Invoices :
              invoice[i].status = "PAID" => invoice'[i].status \in {"PAID", "CANCELED"}
<1>1. ASSUME TurnsInv, [EventsNext]_eventVars PROVE [Kept]_eventVars
  <2>1. CASE UNCHANGED invoice
    BY <2>1
  <2>2. CASE \E p \in Procs : Write(p)
    <3>1. PICK p \in Procs : Write(p)
      BY <2>2
    <3>2. StatusOf(p) \in {"PAID", "OVERDUE", "CANCELED", "OPEN"}
      BY StatusType DEF StatusOf
    <3>3. /\ run[p].row = invoice[run[p].event.inv]
          /\ run[p].row.status = "PAID" => StatusOf(p) \notin {"OPEN", "OVERDUE"}
      BY <1>1, <3>1, WhatIsWritten DEF Decided
    <3> QED
      BY <1>1, <3>1, <3>2, <3>3, WhatIsWritten
  <2>3. CASE UNCHANGED eventVars
    BY <2>3
  <2> QED
    BY <1>1, <2>1, <2>2, <2>3, OnlyWriteWrites
<1> HIDE DEF Kept
<1>2. ASSUME TakeTurns PROVE EventsSpec => [][Kept]_eventVars
  <2>1. EventsSpec => []TurnsInv
    BY <1>2, TurnsHold
  <2> QED
    BY <1>1, <2>1, PTL DEF EventsSpec
<1> QED
  BY <1>2 DEF Kept, PaidNeverReopens

(* An invoice becomes paid by a handler that has read it and the debts.      *)
LEMMA HowItIsPaid ==
    ASSUME TurnsInv, EventsNext, NEW i \in Invoices, BecomesPaid(i)
    PROVE  \E p \in Procs :
              /\ Write(p) /\ Decided(p) /\ run[p].at = "write" /\ run[p].event.inv = i
              /\ StatusOf(p) = "PAID" /\ company' = NextCompany(run[p].change)
<1>1. PICK p \in Procs : Write(p)
  BY OnlyWriteWrites DEF BecomesPaid
<1>2. run[p].event.inv = i
  BY <1>1, WhatIsWritten DEF BecomesPaid
<1> QED
  BY <1>1, <1>2, WhatIsWritten DEF BecomesPaid

(* The payment of the last debt gives the access back, whatever payments and *)
(* blocks came before, while handlers, routines and people take turns.       *)
THEOREM LastDebtReleases == TakeTurns => (EventsSpec => PaymentReleases)
<1> DEFINE Released == \A i \in Invoices :
              /\ BecomesPaid(i) /\ \A j \in Invoices \ {i} : ~IsDebt(j)
              /\ company.reason \in PaymentReasons /\ company.billing # "CANCELED"
              => company'.reason = "none"
<1>1. ASSUME TurnsInv, EventsNext, NEW i \in Invoices, BecomesPaid(i),
             \A j \in Invoices \ {i} : ~IsDebt(j),
             company.reason \in PaymentReasons, company.billing # "CANCELED"
      PROVE  company'.reason = "none"
  <2>1. PICK p \in Procs :
           /\ Decided(p) /\ run[p].at = "write" /\ run[p].event.inv = i
           /\ StatusOf(p) = "PAID" /\ company' = NextCompany(run[p].change)
    BY <1>1, HowItIsPaid
  <2>2. OtherDebts(i) = {} /\ PaymentMayRelease
    BY <1>1 DEF OtherDebts, PaymentMayRelease
  <2>3. run[p].change = "release"
    BY <2>1, <2>2 DEF Decided
  <2> QED
    BY <2>1, <2>3 DEF NextCompany
<1>2. ASSUME TurnsInv, [EventsNext]_eventVars PROVE [Released]_eventVars
  BY <1>1, <1>2
<1> HIDE DEF Released
<1>3. ASSUME TakeTurns PROVE EventsSpec => [][Released]_eventVars
  <2>1. EventsSpec => []TurnsInv
    BY <1>3, TurnsHold
  <2> QED
    BY <1>2, <2>1, PTL DEF EventsSpec
<1> QED
  BY <1>3 DEF Released, PaymentReleases

(* A payment that leaves another invoice overdue releases nobody, while      *)
(* handlers, routines and people take turns.                                 *)
THEOREM DebtKeepsBlocked == TakeTurns => (EventsSpec => ReleaseOnlyPaidUp)
<1> DEFINE Blocked == \A i \in Invoices :
              /\ BecomesPaid(i) /\ company.reason # "none"
              /\ \E j \in Invoices \ {i} : IsDebt(j) /\ invoice[j].status = "OVERDUE"
              => company'.reason # "none"
<1>1. ASSUME TurnsInv, EventsNext, NEW i \in Invoices, BecomesPaid(i), company.reason # "none",
             \E j \in Invoices \ {i} : IsDebt(j) /\ invoice[j].status = "OVERDUE"
      PROVE  company'.reason # "none"
  <2>1. PICK p \in Procs :
           /\ Decided(p) /\ run[p].at = "write" /\ run[p].event.inv = i
           /\ StatusOf(p) = "PAID" /\ company' = NextCompany(run[p].change)
    BY <1>1, HowItIsPaid
  <2>2. MarkedDebt(i)
    BY <1>1 DEF MarkedDebt
  <2>3. run[p].change = "same"
    BY <2>1, <2>2 DEF Decided
  <2> QED
    BY <1>1, <2>1, <2>3 DEF NextCompany
<1>2. ASSUME TurnsInv, [EventsNext]_eventVars PROVE [Blocked]_eventVars
  BY <1>1, <1>2
<1> HIDE DEF Blocked
<1>3. ASSUME TakeTurns PROVE EventsSpec => [][Blocked]_eventVars
  <2>1. EventsSpec => []TurnsInv
    BY <1>3, TurnsHold
  <2> QED
    BY <1>2, <2>1, PTL DEF EventsSpec
<1> QED
  BY <1>3 DEF Blocked, ReleaseOnlyPaidUp

-----------------------------------------------------------------------------
(* Disputes. *)

(* Charges that may be disputed are neither overdue nor restored before.     *)
PaidInTime ==
    \A i \in Invoices : "CHARGEBACK" \in May[i] => May[i] \cap {"OVERDUE", "RESTORED"} = {}

Disputed(i) == stored[Asaas(i, "CHARGEBACK")] = "PROCESSED"

(* Overdue and restored charges are announced only where they may happen,    *)
(* and so are disputes.                                                      *)
Named ==
    /\ \A e \in Events : sent[e] # 0 /\ e.name \in {"OVERDUE", "RESTORED"} => e.name \in May[e.inv]
    /\ \A i \in Invoices :
          /\ charge[i] = "OVERDUE" => "OVERDUE" \in May[i]
          /\ charge[i] = "CHARGEBACK" => "CHARGEBACK" \in May[i]

(* The dispute of a charge closes its invoice. *)
DisputesClose ==
    \A i \in Invoices :
        charge[i] = "CHARGEBACK" /\ Disputed(i) => invoice[i].status \in {"CANCELED", "PAID"}

Reversed(row) == row.status = "CANCELED" /\ row.paid

(* What was paid and reversed is believed to be paid again with the proof    *)
(* of Asaas only, and the proof is good until the dispute is handled.        *)
Believed(p) ==
    /\ run[p].at \in {"company", "debts", "write"} /\ StatusOf(p) = "PAID"
    /\ Reversed(run[p].row)
    => charge[run[p].event.inv] \in PaidCharges \/ ~Disputed(run[p].event.inv)

(* A handler that is at its end has done what its event says.                *)
EndsWell(p) ==
    /\ run[p].at \in {"couponRead", "couponWrite"} => StatusOf(p) = "PAID"
    /\ run[p].at = "finish" /\ run[p].event.name = "CHARGEBACK" =>
          invoice[run[p].event.inv].status = "CANCELED"

DisputeInv ==
    /\ TurnsInv /\ Named /\ DisputesClose
    /\ \A p \in Procs : Believed(p) /\ EndsWell(p)

(* At first nothing is disputed. *)
LEMMA DisputeInit == EventsInit => DisputeInv
<1> SUFFICES ASSUME EventsInit PROVE DisputeInv
  OBVIOUS
<1>1. TurnsInv
  BY TurnsInit
<1>2. Named
  <2>1. ASSUME NEW e \in Events, sent[e] # 0 PROVE e.name = "CREATED"
    BY <2>1 DEF EventsInit, Asaas, Event
  <2> QED
    BY <2>1 DEF Named, EventsInit
<1>3. DisputesClose
  BY DEF DisputesClose, EventsInit
<1>4. \A p \in Procs : Believed(p) /\ EndsWell(p)
  BY DEF Believed, EndsWell, EventsInit, Idle
<1> QED
  BY <1>1, <1>2, <1>3, <1>4 DEF DisputeInv

(* One announced change. *)
LEMMA MovesNamed ==
    ASSUME TypeInv, Named, NEW i \in Invoices, NEW from, NEW to, NEW name \in Names, NEW due,
           Moves(i, from, to, name, due),
           to \in {"OVERDUE", "CHARGEBACK"} => to = name
    PROVE  Named'
<1>1. /\ Asaas(i, name) \in Events /\ Asaas(i, name).inv = i /\ Asaas(i, name).name = name
  BY DEF Asaas, Event, Events
<1>2. name \in May[i] /\ charge' = [charge EXCEPT ![i] = to]
      /\ sent' = [sent EXCEPT ![Asaas(i, name)] = due]
  BY DEF Moves
<1>3. charge \in [Invoices -> Charges] /\ sent \in [Events -> 0..2]
  BY DEF TypeInv
<1> HIDE DEF EventsAssumption
<1> QED
  BY <1>1, <1>2, <1>3 DEF Named

(* An announced dispute is new; before it, no dispute was handled.           *)
LEMMA MovesDispute ==
    ASSUME TypeInv, NEW i \in Invoices, NEW from, NEW to, NEW name \in Names, NEW due,
           Moves(i, from, to, name, due),
           to = "CHARGEBACK" => to = name,
           from \cap PaidCharges # {} => to \in PaidCharges \cup {"CHARGEBACK"},
           NEW j \in Invoices
    PROVE  /\ charge'[j] = "CHARGEBACK" /\ charge[j] # "CHARGEBACK" => ~Disputed(j)
           /\ charge[j] \in PaidCharges => charge'[j] \in PaidCharges \/ ~Disputed(j)
<1>1. \A k \in Invoices : Asaas(k, "CHARGEBACK") \in Events
  BY EventType DEF Names
<1>2. sent[Asaas(i, name)] = 0 /\ charge' = [charge EXCEPT ![i] = to] /\ charge[i] \in from
  BY DEF Moves
<1>3. to = "CHARGEBACK" => ~Disputed(i)
  BY <1>1, <1>2 DEF Disputed, TypeInv, Emitted
<1> QED
  BY <1>2, <1>3 DEF TypeInv

(* Every change of a charge. *)
LEMMA ChargeNamed ==
    ASSUME TypeInv, Named, NEW i \in Invoices, ChargeChanges(i)
    PROVE  /\ Named'
           /\ \A j \in Invoices :
                 /\ charge'[j] = "CHARGEBACK" /\ charge[j] # "CHARGEBACK" => ~Disputed(j)
                 /\ charge[j] \in PaidCharges => charge'[j] \in PaidCharges \/ ~Disputed(j)
<1> DEFINE due == DueOf(i)
           payable == {"PENDING", "OVERDUE"}
<1>0. PaidCharges = {"CONFIRMED", "RECEIVED"}
  BY DEF PaidCharges
<1>1. CASE Moves(i, {"NONE"}, "PENDING", "CREATED", 1)
  <2>1. Named'
    BY <1>1, MovesNamed DEF Names
  <2> QED
    BY <1>0, <1>1, <2>1, MovesDispute DEF Names
<1>2. CASE Moves(i, {"PENDING"}, "OVERDUE", "OVERDUE", 1)
  <2>1. Named'
    BY <1>2, MovesNamed DEF Names
  <2> QED
    BY <1>0, <1>2, <2>1, MovesDispute DEF Names
<1>3. CASE Moves(i, {"OVERDUE"}, "PENDING", "UPDATED", 2)
  <2>1. Named'
    BY <1>3, MovesNamed DEF Names
  <2> QED
    BY <1>0, <1>3, <2>1, MovesDispute DEF Names
<1>4. CASE Moves(i, payable, "CONFIRMED", "CONFIRMED", due)
  <2>1. Named'
    BY <1>4, MovesNamed DEF Names
  <2> QED
    BY <1>0, <1>4, <2>1, MovesDispute DEF Names
<1>5. CASE Moves(i, payable \cup {"CONFIRMED"}, "RECEIVED", "RECEIVED", due)
  <2>1. Named'
    BY <1>5, MovesNamed DEF Names
  <2> QED
    BY <1>0, <1>5, <2>1, MovesDispute DEF Names
<1>6. CASE Moves(i, payable, "DELETED", "DELETED", due)
  <2>1. Named'
    BY <1>6, MovesNamed DEF Names
  <2> QED
    BY <1>0, <1>6, <2>1, MovesDispute DEF Names
<1>7. CASE Moves(i, {"DELETED"}, "PENDING", "RESTORED", due)
  <2>1. Named'
    BY <1>7, MovesNamed DEF Names
  <2> QED
    BY <1>0, <1>7, <2>1, MovesDispute DEF Names
<1>8. CASE Moves(i, PaidCharges, "CHARGEBACK", "CHARGEBACK", due)
  <2>1. Named'
    BY <1>8, MovesNamed DEF Names
  <2> QED
    BY <1>0, <1>8, <2>1, MovesDispute DEF Names
<1> QED
  BY <1>1, <1>2, <1>3, <1>4, <1>5, <1>6, <1>7, <1>8 DEF ChargeChanges

(* The charges, in any step. *)
LEMMA ChargeSteps ==
    ASSUME TypeInv, Named, EventsNext, NEW i \in Invoices
    PROVE  /\ charge'[i] = "CHARGEBACK" /\ charge[i] # "CHARGEBACK" =>
                 ~Disputed(i) /\ ~Disputed(i)'
           /\ charge[i] \in PaidCharges =>
                 charge'[i] \in PaidCharges \/ (~Disputed(i) /\ ~Disputed(i)')
<1>1. CASE \E j \in Invoices : ChargeChanges(j)
  <2>1. UNCHANGED stored
    BY <1>1 DEF ChargeChanges
  <2>2. Disputed(i)' = Disputed(i)
    BY <2>1 DEF Disputed
  <2> QED
    BY <1>1, <2>2, ChargeNamed
<1>2. CASE \E j \in Invoices : ChargebackReversed(j)
  BY <1>2 DEF ChargebackReversed, PaidCharges, TypeInv
<1>3. CASE UNCHANGED charge
  BY <1>3
<1>4. \/ UNCHANGED charge
      \/ \E j \in Invoices : ChargeChanges(j) \/ ChargebackReversed(j)
  BY DEF EventsNext, List, Deliver, Take, Handle, Fail, Die, ReadInvoice, AskProof, ReadCompany,
         CountDebts, Write, ReadCoupon, WriteCoupon, Finish, AskCharge, ClaimRepair, NewDay,
         DunningReads, DunningWrites, PersonDecides
<1> QED
  BY <1>1, <1>2, <1>3, <1>4

(* No step announces what may not happen. *)
LEMMA NamedStep == ASSUME TypeInv, Named, EventsNext PROVE Named'
<1>1. CASE \E j \in Invoices : ChargeChanges(j)
  BY <1>1, ChargeNamed
<1>2. CASE \E j \in Invoices : ChargebackReversed(j)
  BY <1>2 DEF ChargebackReversed, TypeInv, Named
<1>3. CASE AskCharge
  <2> DEFINE i == run[Cron].inv
  <2>1. i \in Invoices
    BY <1>3, Parts, ProcsAre DEF AskCharge
  <2>2. CASE UNCHANGED sent
    BY <1>3, <2>2 DEF AskCharge, Named
  <2>3. CASE \E name \in Healing(i, run[Cron].row.status) :
                sent' = [sent EXCEPT ![Event(i, name, "reconcile")] = DueOf(i)]
    <3>1. PICK name \in Healing(i, run[Cron].row.status) :
                sent' = [sent EXCEPT ![Event(i, name, "reconcile")] = DueOf(i)]
      BY <2>3
    <3>2. name \in {"OVERDUE", "RESTORED"} => name = "OVERDUE" /\ charge[i] = "OVERDUE"
      BY DEF Healing, PaidCharges
    <3> DEFINE e == Event(i, name, "reconcile")
    <3>3. e.inv = i /\ e.name = name
      BY DEF Event
    <3>4. sent \in [Events -> 0..2] /\ sent' = [sent EXCEPT ![e] = DueOf(i)] /\ UNCHANGED charge
      BY <1>3, <3>1 DEF TypeInv, AskCharge
    <3> HIDE DEF e
    <3> QED
      BY <2>1, <3>2, <3>3, <3>4 DEF Named
  <2>4. \/ UNCHANGED sent
        \/ \E name \in Healing(i, run[Cron].row.status) :
                sent' = [sent EXCEPT ![Event(i, name, "reconcile")] = DueOf(i)]
    BY <1>3 DEF AskCharge
  <2> QED
    BY <2>2, <2>3, <2>4
<1>4. CASE NewDay
  <2>1. UNCHANGED charge /\ \A e \in Events : sent'[e] \in {0, sent[e]}
    BY <1>4 DEF NewDay
  <2> QED
    BY <2>1 DEF Named
<1>5. CASE UNCHANGED <<charge, sent>>
  BY <1>5 DEF Named
<1>6. \/ UNCHANGED <<charge, sent>> \/ AskCharge \/ NewDay
      \/ \E j \in Invoices : ChargeChanges(j) \/ ChargebackReversed(j)
  BY DEF EventsNext, List, Deliver, Take, Handle, Fail, Die, ReadInvoice, AskProof, ReadCompany,
         CountDebts, Write, ReadCoupon, WriteCoupon, Finish, ClaimRepair,
         DunningReads, DunningWrites, PersonDecides
<1> QED
  BY <1>1, <1>2, <1>3, <1>4, <1>5, <1>6

(* Who ends the handling of a dispute. *)
LEMMA WhoDisputes ==
    ASSUME TypeInv, EventsNext, NEW i \in Invoices, Disputed(i)', ~Disputed(i)
    PROVE  \E p \in Procs : Finish(p) /\ run[p].event = Asaas(i, "CHARGEBACK")
<1> DEFINE c == Asaas(i, "CHARGEBACK")
<1>1. c \in Events /\ stored'[c] = "PROCESSED" /\ stored[c] # "PROCESSED"
  BY EventType DEF Names, Disputed
<1>2. stored \in [Events -> StoredStatus]
  BY DEF TypeInv
<1>3. ASSUME NEW e, NEW s, stored' = [stored EXCEPT ![e] = s], s # "PROCESSED" PROVE FALSE
  BY <1>1, <1>2, <1>3
<1>4. stored' # stored
  BY <1>1
<1> HIDE DEF c
<1>5. CASE \E e \in Events : Deliver(e) \/ \E w \in Workers : Take(w, e)
  BY <1>3, <1>4, <1>5 DEF Deliver, Take
<1>6. CASE \E p \in Procs : Fail(p)
  BY <1>3, <1>6 DEF Fail
<1>7. CASE AskCharge
  <2>1. \/ UNCHANGED stored
        \/ \E e : stored' = [stored EXCEPT ![e] = "PENDING"]
    BY <1>7 DEF AskCharge
  <2> QED
    BY <1>3, <1>4, <2>1
<1>8. CASE ClaimRepair
  BY <1>3, <1>4, <1>8 DEF ClaimRepair
<1>9. CASE NewDay
  <2>1. \A e \in Events : stored'[e] \in {"NONE", stored[e]}
    BY <1>9 DEF NewDay
  <2> QED
    BY <1>1, <2>1
<1>10. CASE \E p \in Procs : Finish(p)
  <2>1. PICK p \in Procs : Finish(p)
    BY <1>10
  <2>2. stored' = [stored EXCEPT ![run[p].event] = "PROCESSED"]
    BY <2>1 DEF Finish
  <2>3. run[p].event = c
    BY <1>1, <1>2, <2>2
  <2> QED
    BY <2>1, <2>3 DEF c
<1>11. \/ UNCHANGED stored
       \/ \E e \in Events : Deliver(e) \/ \E w \in Workers : Take(w, e)
       \/ \E p \in Procs : Finish(p) \/ Fail(p)
       \/ AskCharge \/ ClaimRepair \/ NewDay
  BY DEF EventsNext, ChargeChanges, ChargebackReversed, List, Handle, Die, ReadInvoice, AskProof,
         ReadCompany, CountDebts, Write, ReadCoupon, WriteCoupon,
         DunningReads, DunningWrites, PersonDecides
<1> QED
  BY <1>4, <1>5, <1>6, <1>7, <1>8, <1>9, <1>10, <1>11

(* The rows of disputed charges. *)
LEMMA DisputesCloseStep ==
    ASSUME PaidInTime, DisputeInv, EventsNext PROVE DisputesClose'
<1> SUFFICES ASSUME NEW i \in Invoices, charge'[i] = "CHARGEBACK", Disputed(i)'
             PROVE  invoice'[i].status \in {"CANCELED", "PAID"}
  BY DEF DisputesClose
<1>1. charge[i] = "CHARGEBACK"
  BY ChargeSteps DEF DisputeInv, TurnsInv
<1>2. CASE ~Disputed(i)
  <2>1. PICK p \in Procs : Finish(p) /\ run[p].event = Asaas(i, "CHARGEBACK")
    BY <1>2, WhoDisputes DEF DisputeInv, TurnsInv
  <2>2. Asaas(i, "CHARGEBACK").inv = i /\ Asaas(i, "CHARGEBACK").name = "CHARGEBACK"
    BY DEF Asaas, Event
  <2>3. invoice[i].status = "CANCELED" /\ UNCHANGED invoice
    BY <2>1, <2>2 DEF DisputeInv, EndsWell, Finish
  <2> QED
    BY <2>3
<1>3. CASE Disputed(i)
  <2>1. invoice[i].status \in {"CANCELED", "PAID"}
    BY <1>1, <1>3 DEF DisputeInv, DisputesClose
  <2>2. ASSUME NEW p \in Procs, Write(p), run[p].event.inv = i
        PROVE  invoice'[i].status \in {"CANCELED", "PAID"}
    <3>1. Decided(p) /\ run[p].at = "write" /\ invoice'[i].status = StatusOf(p)
      BY <2>2, WhatIsWritten DEF DisputeInv
    <3>2. run[p].event \in Events /\ sent[run[p].event] # 0
      BY <3>1, Parts DEF DisputeInv, TurnsInv, TypeInv, Emitted
    <3>3. run[p].event.name \notin {"OVERDUE", "RESTORED"}
      BY <1>1, <2>2, <3>2 DEF DisputeInv, Named, PaidInTime
    <3>4. StatusOf(p) # "OVERDUE"
      BY <3>3 DEF StatusOf, StatusFromEvent
    <3>5. StatusOf(p) # "OPEN"
      BY <2>1, <2>2, <3>1, <3>3, StatusType DEF Decided, Closed, StatusOf
    <3> QED
      BY <3>1, <3>4, <3>5, StatusType DEF StatusOf
  <2>3. ASSUME NEW p \in Procs, Write(p), run[p].event.inv # i
        PROVE  invoice'[i] = invoice[i]
    BY <2>3, WhatIsWritten DEF DisputeInv
  <2> QED
    BY <2>1, <2>2, <2>3, OnlyWriteWrites
<1> QED
  BY <1>2, <1>3

(* What a step makes of a handler. *)
LEMMA WhoMoves ==
    ASSUME TypeInv, EventsNext, NEW p \in Procs
    PROVE  \/ run'[p] = run[p]
           \/ run'[p].at \in {"idle", "ask", "claim", "invoice"}
           \/ ReadInvoice(p) \/ AskProof(p) \/ ReadCompany(p) \/ CountDebts(p) \/ Write(p)
           \/ ReadCoupon(p) \/ WriteCoupon(p)
<1>0. run \in [Procs -> Readings]
  BY DEF TypeInv
<1>1. CASE \E i \in Invoices : List(i)
  BY <1>0, <1>1 DEF List
<1>2. CASE \E e \in Events, w \in Workers : Take(w, e)
  BY <1>0, <1>2 DEF Take
<1>3. CASE \E q \in Procs : Finish(q) \/ Fail(q) \/ Die(q)
  BY <1>0, <1>3 DEF Finish, Fail, Die, Idle
<1>4. CASE AskCharge \/ ClaimRepair
  BY <1>0, <1>4 DEF AskCharge, ClaimRepair, Idle
<1>5. ASSUME NEW q \in Procs, q # p, NEW r, run' = [run EXCEPT ![q] = r]
      PROVE  run'[p] = run[p]
  BY <1>0, <1>5
<1>6. CASE \E q \in Procs : Handle(q) /\ ~Finish(q)
  <2>1. PICK q \in Procs : Handle(q) /\ ~Finish(q)
    BY <1>6
  <2>2. CASE q = p
    BY <2>1, <2>2 DEF Handle
  <2>3. CASE q # p
    <3>1. \E r : run' = [run EXCEPT ![q] = r]
      BY <2>1 DEF Handle, ReadInvoice, AskProof, ReadCompany, CountDebts, Write, ReadCoupon,
                  WriteCoupon
    <3> QED
      BY <1>5, <2>3, <3>1
  <2> QED
    BY <2>2, <2>3
<1>7. \/ UNCHANGED run
      \/ \E i \in Invoices : List(i)
      \/ \E e \in Events, w \in Workers : Take(w, e)
      \/ \E q \in Procs : Handle(q) \/ Fail(q) \/ Die(q)
      \/ AskCharge \/ ClaimRepair
  BY DEF EventsNext, ChargeChanges, ChargebackReversed, Deliver, NewDay, DunningReads,
         DunningWrites, PersonDecides
<1> QED
  BY <1>1, <1>2, <1>3, <1>4, <1>6, <1>7

(* While a handler is at work, no dispute becomes handled but its own.       *)
LEMMA NoOtherDisputed ==
    ASSUME TurnsInv, EventsNext, NEW p \in Procs, run[p].at \notin {"idle", "finish"},
           NEW i \in Invoices, ~Disputed(i)
    PROVE  ~Disputed(i)'
<1> SUFFICES ASSUME Disputed(i)' PROVE FALSE
  OBVIOUS
<1>1. PICK q \in Procs : Finish(q)
  BY WhoDisputes DEF TurnsInv
<1>2. run[q].at = "finish" /\ q # p
  BY <1>1 DEF Finish
<1>3. run[q] = Idle
  BY <1>2, OnlyOne
<1> QED
  BY <1>2, <1>3 DEF Idle

(* Every step keeps the proofs. *)
LEMMA BelievedStep ==
    ASSUME DisputeInv, EventsNext, NEW p \in Procs PROVE Believed(p)'
<1> SUFFICES ASSUME NEW i, i = run'[p].event.inv,
                    run'[p].at \in {"company", "debts", "write"},
                    StatusOf(p)' = "PAID", Reversed(run'[p].row)
             PROVE  charge'[i] \in PaidCharges \/ ~Disputed(i)'
  BY DEF Believed, StatusOf, Disputed, PaidCharges, Reversed
<1>0. TypeInv /\ TurnsInv /\ Named /\ Believed(p)
  BY DEF DisputeInv, TurnsInv
(* Carried on by a handler that had its proof. *)
<1>1. ASSUME run[p].at \in {"company", "debts", "write"}, run'[p].event = run[p].event,
             run'[p].row = run[p].row
      PROVE  charge'[i] \in PaidCharges \/ ~Disputed(i)'
  <2>1. i \in Invoices /\ run'[p].event.inv = run[p].event.inv
    BY <1>0, <1>1, Parts DEF Events
  <2>5. Reversed(run[p].row) /\ StatusOf(p) = "PAID"
    BY <1>1 DEF StatusOf
  <2>2. charge[i] \in PaidCharges \/ ~Disputed(i)
    BY <1>0, <1>1, <2>1, <2>5 DEF Believed, Disputed
  <2>3. ~Disputed(i) => ~Disputed(i)'
    BY <1>0, <1>1, <2>1, NoOtherDisputed
  <2> QED
    BY <1>0, <2>1, <2>2, <2>3, ChargeSteps
<1>2. CASE run'[p] = run[p]
  BY <1>1, <1>2
<1>3. CASE ReadInvoice(p)
  <2> DEFINE e == run[p].event
             row == invoice[e.inv]
  <2>1. /\ run'[p].row = row /\ run'[p].event = e
        /\ run'[p].at \in {"company", "debts", "write"} => ~NeedsProof(e, row)
    BY <1>0, <1>3 DEF ReadInvoice, TypeInv
  <2> QED
    BY <2>1 DEF NeedsProof, StatusOf, Reversed
<1>4. CASE AskProof(p)
  <2>1. run[p] \in [at : Deciding, event : Events, row : Rows, change : Effects]
    BY <1>0, <1>4, Parts DEF AskProof, Deciding
  <2>2. run'[p] = [run[p] EXCEPT !.at =
                     IF charge[run[p].event.inv] \in PaidCharges THEN "company" ELSE "finish"]
    BY <1>0, <1>4 DEF AskProof, TypeInv
  <2>3. run'[p].event = run[p].event
        /\ run'[p].at = IF charge[run[p].event.inv] \in PaidCharges THEN "company" ELSE "finish"
    BY <2>1, <2>2
  <2> QED
    BY <1>4, <2>3 DEF AskProof
<1>5. CASE ReadCompany(p) \/ CountDebts(p)
  <2>1. run[p].at \in {"company", "debts"}
    BY <1>5 DEF ReadCompany, CountDebts
  <2>2. run[p] \in [at : Deciding, event : Events, row : Rows, change : Effects]
    BY <1>0, <2>1, Parts DEF Deciding
  <2>3. CASE ReadCompany(p)
    <3>1. run'[p] = [run[p] EXCEPT !.at = IF PaymentMayRelease THEN "debts" ELSE "write"]
      BY <1>0, <2>3 DEF ReadCompany, TypeInv
    <3> QED
      BY <1>1, <2>1, <2>2, <3>1
  <2>4. CASE CountDebts(p)
    <3> DEFINE change == IF OtherDebts(run[p].event.inv) = {} THEN "release" ELSE "same"
    <3>1. run'[p] = [run[p] EXCEPT !.at = "write", !.change = change]
      BY <1>0, <2>4 DEF CountDebts, TypeInv
    <3> HIDE DEF change
    <3> QED
      BY <1>1, <2>1, <2>2, <3>1
  <2> QED
    BY <1>5, <2>3, <2>4
<1>6. CASE Write(p) \/ ReadCoupon(p) \/ WriteCoupon(p)
  BY <1>0, <1>6 DEF Write, ReadCoupon, WriteCoupon, TypeInv
<1> QED
  BY <1>0, <1>2, <1>3, <1>4, <1>5, <1>6, WhoMoves

(* Every step keeps what handlers have done at their end. *)
LEMMA EndsWellStep ==
    ASSUME DisputeInv, EventsNext, NEW p \in Procs PROVE EndsWell(p)'
<1>0. TypeInv /\ TurnsInv /\ EndsWell(p)
  BY DEF DisputeInv, TurnsInv
<1>7. \A name : StatusFromEvent(name) = "PAID" => name # "CHARGEBACK"
  BY DEF StatusFromEvent
<1>8. StatusFromEvent("CHARGEBACK") = "CANCELED"
  BY DEF StatusFromEvent
<1>1. CASE run'[p] = run[p] /\ run[p].at \in {"couponRead", "couponWrite", "finish"}
  <2>1. UNCHANGED invoice
    <3>1. ASSUME NEW q \in Procs, Write(q) PROVE FALSE
      <4>1. run[q].at = "write" /\ q # p
        BY <1>1, <3>1 DEF Write
      <4>2. run[q] = Idle
        BY <1>0, <1>1, <4>1, OnlyOne
      <4> QED
        BY <4>1, <4>2 DEF Idle
    <3> QED
      BY <3>1, OnlyWriteWrites
  <2> QED
    BY <1>0, <1>1, <2>1 DEF EndsWell, StatusOf
<1>2. CASE run'[p].at \notin {"couponRead", "couponWrite", "finish"}
  BY <1>2 DEF EndsWell
<1>3. CASE ReadInvoice(p)
  <2> DEFINE e == run[p].event
             row == invoice[e.inv]
  <2>1. /\ run'[p].event = e /\ run'[p].at \notin {"couponRead", "couponWrite"}
        /\ run'[p].at = "finish" => ~Applies(e, row)
    BY <1>0, <1>3 DEF ReadInvoice, TypeInv
  <2>2. e.name = "CHARGEBACK" => Applies(e, row)
    BY <1>8 DEF Applies
  <2> QED
    BY <2>1, <2>2 DEF EndsWell
<1>4. CASE AskProof(p) \/ ReadCompany(p) \/ CountDebts(p)
  <2>1. run[p].at \in {"proof", "company", "debts"} /\ run[p].at \in Deciding
    BY <1>4 DEF AskProof, ReadCompany, CountDebts, Deciding
  <2>2. run[p] \in [at : Deciding, event : Events, row : Rows, change : Effects]
    BY <1>0, <2>1, Parts
  <2>3. \E at \in {"company", "finish", "debts", "write"} : \E change :
           \/ run'[p] = [run[p] EXCEPT !.at = at]
           \/ run'[p] = [run[p] EXCEPT !.at = at, !.change = change]
    BY <1>0, <1>4 DEF AskProof, ReadCompany, CountDebts, TypeInv
  <2>4. run'[p].event = run[p].event /\ run'[p].at \notin {"couponRead", "couponWrite"}
    BY <2>2, <2>3
  <2>5. StatusOf(p) = "PAID"
    BY <1>0, <2>1 DEF TurnsInv, Decided
  <2> QED
    BY <1>7, <2>4, <2>5 DEF EndsWell, StatusOf
<1>5. CASE Write(p)
  <2>1. /\ run'[p].event = run[p].event
        /\ run'[p].at \in {"couponRead", "finish"}
        /\ run'[p].at = "couponRead" => CountsCycle(run[p].event, run[p].row)
    BY <1>0, <1>5 DEF Write, TypeInv
  <2>2. invoice'[run[p].event.inv].status = StatusOf(p)
    BY <1>0, <1>5, WhatIsWritten
  <2> QED
    BY <1>8, <2>1, <2>2 DEF EndsWell, CountsCycle, StatusOf
<1>6. CASE ReadCoupon(p) \/ WriteCoupon(p)
  <2>1. run[p].at \in {"couponRead", "couponWrite"} /\ run'[p].event = run[p].event
    BY <1>0, <1>6 DEF ReadCoupon, WriteCoupon, TypeInv
  <2>2. StatusOf(p) = "PAID"
    BY <1>0, <2>1 DEF EndsWell
  <2> QED
    BY <1>7, <2>1, <2>2 DEF EndsWell, StatusOf
<1> QED
  BY <1>0, <1>1, <1>2, <1>3, <1>4, <1>5, <1>6, WhoMoves

(* Every step keeps the invariant of disputes. *)
LEMMA DisputeStep ==
    ASSUME TakeTurns, PaidInTime, DisputeInv, [EventsNext]_eventVars PROVE DisputeInv'
<1>0. TurnsInv'
  BY TurnsStep DEF DisputeInv
<1>1. CASE EventsNext
  BY <1>0, <1>1, NamedStep, DisputesCloseStep, BelievedStep, EndsWellStep DEF DisputeInv, TurnsInv
<1>2. CASE UNCHANGED eventVars
  BY <1>0, <1>2 DEF DisputeInv, eventVars, Named, DisputesClose, Disputed, Believed, EndsWell,
                    StatusOf
<1> QED
  BY <1>1, <1>2

(* "um recebido atrasado so reabre se o Asaas confirmar": while handlers and *)
(* routines take turns, for charges that are disputed without having been    *)
(* overdue or restored before.                                               *)
THEOREM DisputeStaysClosed == TakeTurns /\ PaidInTime => (EventsSpec => DisputedStaysCanceled)
<1> DEFINE Settled == \A i \in Invoices :
              /\ charge[i] = "CHARGEBACK"
              /\ stored[Asaas(i, "CHARGEBACK")] = "PROCESSED" /\ invoice[i].paid
              => ~BecomesPaid(i)
<1>1. ASSUME DisputeInv, EventsNext, NEW i \in Invoices, charge[i] = "CHARGEBACK",
             stored[Asaas(i, "CHARGEBACK")] = "PROCESSED", invoice[i].paid, BecomesPaid(i)
      PROVE  FALSE
  <2>1. PICK p \in Procs :
           /\ Decided(p) /\ run[p].at = "write" /\ run[p].event.inv = i /\ StatusOf(p) = "PAID"
    BY <1>1, HowItIsPaid DEF DisputeInv
  <2>2. Disputed(i) /\ Reversed(run[p].row)
    BY <1>1, <2>1 DEF Disputed, DisputeInv, DisputesClose, Decided, BecomesPaid, Reversed
  <2>3. charge[i] \in PaidCharges \/ ~Disputed(i)
    BY <1>1, <2>1, <2>2 DEF DisputeInv, Believed
  <2> QED
    BY <1>1, <2>2, <2>3 DEF PaidCharges
<1>2. ASSUME DisputeInv, [EventsNext]_eventVars PROVE [Settled]_eventVars
  BY <1>1, <1>2
<1> HIDE DEF Settled
<1>3. ASSUME TakeTurns, PaidInTime PROVE EventsSpec => [][Settled]_eventVars
  <2>1. DisputeInv /\ [EventsNext]_eventVars => DisputeInv'
    BY <1>3, DisputeStep
  <2> QED
    BY <1>2, <2>1, DisputeInit, PTL DEF EventsSpec
<1> QED
  BY <1>3 DEF Settled, DisputedStaysCanceled
-----------------------------------------------------------------------------
(* Removed charges, and the cycles of the coupon. *)

Repairing(i, name) == Event(i, name, "reconcile")

(* What Asaas announces of a charge, and what becomes of the charge.         *)
Announces(i, name) ==
    LET payable == {"PENDING", "OVERDUE"} IN
    /\ name \in May[i] /\ sent[Asaas(i, name)] = 0 /\ sent'[Asaas(i, name)] # 0
    /\ \A n \in Names : n # name => sent'[Asaas(i, n)] = sent[Asaas(i, n)]
    /\ \A n \in Names : sent'[Repairing(i, n)] = sent[Repairing(i, n)]
    /\ \/ name = "DELETED" /\ charge[i] \in payable /\ charge'[i] = "DELETED"
       \/ name = "RESTORED" /\ charge[i] = "DELETED" /\ charge'[i] = "PENDING"
       \/ /\ name \in PaidCharges /\ charge[i] \in payable \cup PaidCharges
          /\ charge'[i] \in PaidCharges
       \/ name = "CHARGEBACK" /\ charge[i] \in PaidCharges /\ charge'[i] = "CHARGEBACK"
       \/ /\ name \in {"CREATED", "OVERDUE", "UPDATED"}
          /\ charge[i] \in {"NONE"} \cup payable /\ charge'[i] \in payable

(* What the reconciliation tells of a charge. *)
Heals(i, name) ==
    /\ charge'[i] = charge[i]
    /\ \A n \in Names : sent'[Asaas(i, n)] = sent[Asaas(i, n)]
    /\ \A n \in Names : n # name => sent'[Repairing(i, n)] = sent[Repairing(i, n)]
    /\ name # "RESTORED"
    /\ name \in PaidCharges => charge[i] \in PaidCharges
    /\ name \in {"DELETED", "CHARGEBACK"} => charge[i] = name

(* Nothing new of a charge, unless its chargeback is reversed.               *)
Silent(i) ==
    /\ charge'[i] = charge[i] \/ (charge[i] = "CHARGEBACK" /\ charge'[i] = "RECEIVED")
    /\ \A n \in Names :
          /\ sent'[Asaas(i, n)] = sent[Asaas(i, n)]
          /\ sent'[Repairing(i, n)] \in {0, sent[Repairing(i, n)]}

(* One announced change, seen from any charge. *)
LEMMA MovesAnnounce ==
    ASSUME TypeInv, NEW i \in Invoices, NEW from, NEW to, NEW name \in Names, NEW due \in 1..2,
           Moves(i, from, to, name, due), NEW j \in Invoices
    PROVE  /\ j # i => Silent(j)
           /\ charge[i] \in from /\ charge'[i] = to
           /\ name \in May[i] /\ sent[Asaas(i, name)] = 0 /\ sent'[Asaas(i, name)] # 0
           /\ \A n \in Names : n # name => sent'[Asaas(i, n)] = sent[Asaas(i, n)]
           /\ \A n \in Names : sent'[Repairing(i, n)] = sent[Repairing(i, n)]
<1>1. /\ charge[i] \in from /\ name \in May[i] /\ sent[Asaas(i, name)] = 0
      /\ charge' = [charge EXCEPT ![i] = to]
      /\ sent' = [sent EXCEPT ![Asaas(i, name)] = due]
  BY DEF Moves
<1>2. charge \in [Invoices -> Charges] /\ sent \in [Events -> 0..2]
  BY DEF TypeInv
<1>3. \A k \in Invoices, n \in Names :
         /\ Asaas(k, n) \in Events /\ Repairing(k, n) \in Events
         /\ Repairing(k, n) # Asaas(i, name)
         /\ k # i \/ n # name => Asaas(k, n) # Asaas(i, name)
  BY DEF Asaas, Repairing, Event, Events
<1> QED
  BY <1>1, <1>2, <1>3 DEF Silent

(* Every change of a charge is announced as one of them. *)
LEMMA ChangesAnnounce ==
    ASSUME TypeInv, NEW i \in Invoices, ChargeChanges(i), NEW j \in Invoices
    PROVE  Silent(j) \/ \E name \in Names : Announces(j, name)
<1> DEFINE due == DueOf(i)
           payable == {"PENDING", "OVERDUE"}
<1>0. PaidCharges = {"CONFIRMED", "RECEIVED"} /\ due \in 1..2
  BY DueType DEF PaidCharges
<1>1. ASSUME NEW from, NEW to, NEW name \in Names, NEW d \in 1..2, Moves(i, from, to, name, d),
             \/ name = "DELETED" /\ from \subseteq payable /\ to = "DELETED"
             \/ name = "RESTORED" /\ from = {"DELETED"} /\ to = "PENDING"
             \/ name \in PaidCharges /\ from \subseteq payable \cup PaidCharges /\ to \in PaidCharges
             \/ name = "CHARGEBACK" /\ from \subseteq PaidCharges /\ to = "CHARGEBACK"
             \/ /\ name \in {"CREATED", "OVERDUE", "UPDATED"}
                /\ from \subseteq {"NONE"} \cup payable /\ to \in payable
      PROVE  Silent(j) \/ \E n \in Names : Announces(j, n)
  <2>1. CASE j # i
    BY <1>1, <2>1, MovesAnnounce
  <2>2. CASE j = i
    <3>1. /\ charge[i] \in from /\ charge'[i] = to
          /\ name \in May[i] /\ sent[Asaas(i, name)] = 0 /\ sent'[Asaas(i, name)] # 0
          /\ \A n \in Names : n # name => sent'[Asaas(i, n)] = sent[Asaas(i, n)]
          /\ \A n \in Names : sent'[Repairing(i, n)] = sent[Repairing(i, n)]
      BY <1>1, MovesAnnounce
    <3>2. Announces(i, name)
      BY <1>1, <3>1 DEF Announces
    <3> QED
      BY <2>2, <3>2
  <2> QED
    BY <2>1, <2>2
<1>2. CASE Moves(i, {"NONE"}, "PENDING", "CREATED", 1)
  BY <1>1, <1>2 DEF Names
<1>3. CASE Moves(i, {"PENDING"}, "OVERDUE", "OVERDUE", 1)
  BY <1>1, <1>3 DEF Names
<1>4. CASE Moves(i, {"OVERDUE"}, "PENDING", "UPDATED", 2)
  BY <1>1, <1>4 DEF Names
<1>5. CASE Moves(i, payable, "CONFIRMED", "CONFIRMED", due)
  BY <1>0, <1>1, <1>5 DEF Names
<1>6. CASE Moves(i, payable \cup {"CONFIRMED"}, "RECEIVED", "RECEIVED", due)
  BY <1>0, <1>1, <1>6 DEF Names
<1>7. CASE Moves(i, payable, "DELETED", "DELETED", due)
  BY <1>0, <1>1, <1>7 DEF Names
<1>8. CASE Moves(i, {"DELETED"}, "PENDING", "RESTORED", due)
  BY <1>0, <1>1, <1>8 DEF Names
<1>9. CASE Moves(i, PaidCharges, "CHARGEBACK", "CHARGEBACK", due)
  BY <1>0, <1>1, <1>9 DEF Names
<1> QED
  BY <1>2, <1>3, <1>4, <1>5, <1>6, <1>7, <1>8, <1>9 DEF ChargeChanges

(* What the routine takes up is what it sees at Asaas. *)
LEMMA AskHeals ==
    ASSUME TypeInv, AskCharge, NEW j \in Invoices
    PROVE  Silent(j) \/ \E name \in Names : Heals(j, name)
<1> DEFINE i == run[Cron].inv
<1>1. i \in Invoices /\ UNCHANGED charge
  BY Parts, ProcsAre DEF AskCharge
<1>2. CASE UNCHANGED sent
  BY <1>1, <1>2 DEF Silent
<1>3. CASE \E name \in Healing(i, run[Cron].row.status) :
              sent' = [sent EXCEPT ![Repairing(i, name)] = DueOf(i)]
  <2>1. PICK name \in Healing(i, run[Cron].row.status) :
              sent' = [sent EXCEPT ![Repairing(i, name)] = DueOf(i)]
    BY <1>3
  <2>2. /\ name \in Names /\ name # "RESTORED"
        /\ name \in PaidCharges => charge[i] \in PaidCharges
        /\ name \in {"DELETED", "CHARGEBACK"} => charge[i] = name
    BY DEF Healing, PaidCharges, Names
  <2>3. \A k \in Invoices, n \in Names :
           /\ Asaas(k, n) \in Events /\ Repairing(k, n) \in Events
           /\ Asaas(k, n) # Repairing(i, name)
           /\ k # i \/ n # name => Repairing(k, n) # Repairing(i, name)
    BY <2>2 DEF Asaas, Repairing, Event, Events
  <2>4. sent \in [Events -> 0..2]
    BY DEF TypeInv
  <2>5. CASE j # i
    BY <1>1, <2>1, <2>3, <2>4, <2>5 DEF Silent
  <2>6. CASE j = i
    <3>1. Heals(j, name)
      BY <1>1, <2>1, <2>2, <2>3, <2>4, <2>6 DEF Heals
    <3> QED
      BY <2>2, <3>1
  <2> QED
    BY <2>5, <2>6
<1>4. \/ UNCHANGED sent
      \/ \E name \in Healing(i, run[Cron].row.status) :
              sent' = [sent EXCEPT ![Repairing(i, name)] = DueOf(i)]
  BY DEF AskCharge, Repairing
<1> QED
  BY <1>2, <1>3, <1>4

(* Any step, seen from any charge. *)
LEMMA WhatIsTold ==
    ASSUME TypeInv, EventsNext, NEW i \in Invoices
    PROVE  Silent(i) \/ \E name \in Names : Announces(i, name) \/ Heals(i, name)
<1>1. CASE \E j \in Invoices : ChargeChanges(j)
  BY <1>1, ChangesAnnounce
<1>2. CASE \E j \in Invoices : ChargebackReversed(j)
  BY <1>2 DEF ChargebackReversed, TypeInv, Silent
<1>3. CASE AskCharge
  BY <1>3, AskHeals
<1>4. CASE NewDay
  <2>1. \A n \in Names : Asaas(i, n) \in Events /\ Asaas(i, n).by = "asaas" /\ Repairing(i, n) \in Events
    BY EventType DEF Repairing
  <2>2. \A e \in Events : sent'[e] \in {0, sent[e]} /\ (e.by = "asaas" => sent'[e] = sent[e])
    BY <1>4 DEF NewDay
  <2> QED
    BY <1>4, <2>1, <2>2 DEF NewDay, Silent
<1>5. CASE UNCHANGED <<charge, sent>>
  BY <1>5 DEF Silent
<1>6. \/ UNCHANGED <<charge, sent>> \/ AskCharge \/ NewDay
      \/ \E j \in Invoices : ChargeChanges(j) \/ ChargebackReversed(j)
  BY DEF EventsNext, List, Deliver, Take, Handle, Fail, Die, ReadInvoice, AskProof, ReadCompany,
         CountDebts, Write, ReadCoupon, WriteCoupon, Finish, ClaimRepair,
         DunningReads, DunningWrites, PersonDecides
<1> QED
  BY <1>1, <1>2, <1>3, <1>4, <1>5, <1>6

-----------------------------------------------------------------------------
(* A charge is deleted once and restored once: while it is deleted, nothing  *)
(* has announced that it was restored.                                       *)
Removals ==
    \A i \in Invoices :
        /\ charge[i] = "DELETED" =>
              sent[Asaas(i, "DELETED")] # 0 /\ sent[Asaas(i, "RESTORED")] = 0
        /\ sent[Asaas(i, "RESTORED")] # 0 => sent[Asaas(i, "DELETED")] # 0
        /\ sent[Repairing(i, "RESTORED")] = 0

(* Rows that are not there are not removed, rows that are paid are marked so,*)
(* and removed ones are not open.                                            *)
RowsFit ==
    \A i \in Invoices :
        /\ invoice[i].status = "NONE" => ~invoice[i].removed
        /\ invoice[i].status = "PAID" => invoice[i].paid
        /\ invoice[i].removed => invoice[i].status # "OPEN"

(* Every step keeps the announcements in order. *)
LEMMA RemovalsStep == ASSUME TypeInv, Removals, EventsNext PROVE Removals'
<1> SUFFICES ASSUME NEW i \in Invoices
             PROVE  /\ charge'[i] = "DELETED" =>
                          sent'[Asaas(i, "DELETED")] # 0 /\ sent'[Asaas(i, "RESTORED")] = 0
                    /\ sent'[Asaas(i, "RESTORED")] # 0 => sent'[Asaas(i, "DELETED")] # 0
                    /\ sent'[Repairing(i, "RESTORED")] = 0
  BY DEF Removals, Asaas, Repairing, Event
<1>1. "DELETED" \in Names /\ "RESTORED" \in Names
  BY DEF Names
<1>2. CASE Silent(i)
  BY <1>1, <1>2 DEF Silent, Removals
<1>3. CASE \E name \in Names : Announces(i, name)
  BY <1>1, <1>3 DEF Announces, Removals, PaidCharges
<1>4. CASE \E name \in Names : Heals(i, name)
  BY <1>1, <1>4 DEF Heals, Removals
<1> QED
  BY <1>2, <1>3, <1>4, WhatIsTold

(* The transaction writes this row of its own invoice. *)
LEMMA RowWritten ==
    ASSUME TypeInv, NEW p \in Procs, Write(p)
    PROVE  /\ run[p].event \in Events /\ run[p].event.inv \in Invoices /\ run[p].row \in Rows
           /\ sent[run[p].event] # 0
           /\ invoice' = [invoice EXCEPT ![run[p].event.inv] = NextRow(run[p].event, run[p].row)]
           /\ invoice'[run[p].event.inv] = NextRow(run[p].event, run[p].row)
<1>1. run[p].at = "write" /\ run[p].at \in Deciding
  BY DEF Write, Deciding
<1>2. run[p] \in [at : Deciding, event : Events, row : Rows, change : Effects]
  BY <1>1, Parts
<1>3. run[p].event.inv \in Invoices
  BY <1>2 DEF Events
<1> QED
  BY <1>1, <1>2, <1>3 DEF Write, TypeInv, Emitted

(* A handler at work on a row that was removed when it read it opens it only *)
(* for an event that restores.                                               *)
OpensFit(p) ==
    /\ run[p].row.status = "NONE" => ~run[p].row.removed
    /\ run[p].row.removed /\ StatusOf(p) = "OPEN" => run[p].event.name = "RESTORED"

HandlersFit == \A p \in Procs : run[p].at \in Deciding => OpensFit(p)

(* A handler that reads a row decides so, and then keeps what it has read.   *)
LEMMA HandlersFitStep == ASSUME TypeInv, RowsFit, HandlersFit, EventsNext PROVE HandlersFit'
<1> SUFFICES ASSUME NEW p \in Procs, run'[p].at \in Deciding PROVE OpensFit(p)'
  BY DEF HandlersFit
<1>1. ASSUME run[p].at \in Deciding, run'[p].event = run[p].event, run'[p].row = run[p].row
      PROVE  OpensFit(p)'
  BY <1>1 DEF HandlersFit, OpensFit, StatusOf
<1>2. CASE run'[p] = run[p]
  BY <1>1, <1>2
<1>3. CASE ReadInvoice(p)
  <2> DEFINE e == run[p].event
             row == invoice[e.inv]
  <2>1. /\ run'[p].row = row /\ run'[p].event = e
        /\ run'[p].at \in Deciding => Applies(e, row)
    BY <1>3 DEF ReadInvoice, TypeInv, Deciding
  <2>2. e.inv \in Invoices
    BY <1>3, Parts DEF ReadInvoice, Events
  <2>3. row.status = "NONE" => ~row.removed
    BY <2>2 DEF RowsFit
  <2>4. StatusFromEvent(e.name) = "OPEN" => Opens(e, row)
    BY <2>1 DEF Applies
  <2> QED
    BY <2>1, <2>3, <2>4 DEF OpensFit, StatusOf, Opens
<1>4. CASE AskProof(p) \/ ReadCompany(p) \/ CountDebts(p)
  <2>1. run[p].at \in Deciding
    BY <1>4 DEF AskProof, ReadCompany, CountDebts, Deciding
  <2>2. run[p] \in [at : Deciding, event : Events, row : Rows, change : Effects]
    BY <2>1, Parts
  <2>3. CASE AskProof(p) \/ ReadCompany(p)
    <3>1. PICK at : run'[p] = [run[p] EXCEPT !.at = at]
      BY <2>3 DEF AskProof, ReadCompany, TypeInv
    <3> QED
      BY <1>1, <2>1, <2>2, <3>1
  <2>4. CASE CountDebts(p)
    <3> DEFINE change == IF OtherDebts(run[p].event.inv) = {} THEN "release" ELSE "same"
    <3>1. run'[p] = [run[p] EXCEPT !.at = "write", !.change = change]
      BY <2>4 DEF CountDebts, TypeInv
    <3> HIDE DEF change
    <3> QED
      BY <1>1, <2>1, <2>2, <3>1
  <2> QED
    BY <1>4, <2>3, <2>4
<1>5. CASE Write(p) \/ ReadCoupon(p) \/ WriteCoupon(p)
  BY <1>5 DEF Write, ReadCoupon, WriteCoupon, TypeInv, Deciding
<1>6. CASE run'[p].at \in {"idle", "ask", "claim", "invoice"}
  BY <1>6 DEF Deciding
<1> QED
  BY <1>2, <1>3, <1>4, <1>5, <1>6, WhoMoves

(* Every step keeps the marks of the rows. *)
LEMMA RowsFitStep == ASSUME TypeInv, RowsFit, HandlersFit, EventsNext PROVE RowsFit'
<1>1. CASE UNCHANGED invoice
  BY <1>1 DEF RowsFit
<1>2. CASE \E p \in Procs : Write(p)
  <2>1. PICK p \in Procs : Write(p)
    BY <1>2
  <2>0. OpensFit(p)
    BY <2>1 DEF HandlersFit, Write, Deciding
  <2> DEFINE e == run[p].event
             row == NextRow(e, run[p].row)
  <2>2. row.status # "NONE" /\ (row.status = "PAID" => row.paid)
    BY StatusType DEF NextRow
  <2>3. invoice' = [invoice EXCEPT ![e.inv] = row] /\ invoice \in [Invoices -> Rows] /\ e.inv \in Invoices
    BY <2>1, RowWritten DEF TypeInv
  <2>4. ASSUME row.removed, row.status = "OPEN" PROVE FALSE
    <3>1. e.name # "DELETED" /\ StatusOf(p) = "OPEN"
      BY <2>4 DEF NextRow, StatusFromEvent, StatusOf
    <3>2. e.name # "RESTORED" /\ run[p].row.removed
      BY <2>4, <3>1 DEF NextRow
    <3> QED
      BY <2>0, <3>1, <3>2 DEF OpensFit
  <2> HIDE DEF row
  <2> QED
    BY <2>2, <2>3, <2>4 DEF RowsFit
<1> QED
  BY <1>1, <1>2, OnlyWriteWrites

(* What holds of removed charges however handlers meet. *)
OpeningInv == TypeInv /\ Removals /\ RowsFit /\ HandlersFit

(* At first nothing is deleted, restored or paid. *)
LEMMA OpeningInit == EventsInit => OpeningInv
<1> SUFFICES ASSUME EventsInit PROVE OpeningInv
  OBVIOUS
<1>1. \A i \in Invoices : charge[i] \in {"NONE", "PENDING"} /\ invoice[i].status \in {"NONE", "OPEN"}
  BY DEF EventsInit, NoRow
<1>2. \A i \in Invoices : ~invoice[i].removed
  BY DEF EventsInit, NoRow
<1>3. \A i \in Invoices : sent[Asaas(i, "RESTORED")] = 0 /\ sent[Repairing(i, "RESTORED")] = 0
  <2>1. ASSUME NEW e \in Events, e.name = "RESTORED" PROVE sent[e] = 0
    BY <2>1 DEF EventsInit, Asaas, Event
  <2>2. \A i \in Invoices : /\ Asaas(i, "RESTORED") \in Events /\ Repairing(i, "RESTORED") \in Events
                            /\ Asaas(i, "RESTORED").name = "RESTORED"
                            /\ Repairing(i, "RESTORED").name = "RESTORED"
    BY DEF Asaas, Repairing, Event, Events, Names
  <2> QED
    BY <2>1, <2>2
<1>4. HandlersFit
  BY DEF EventsInit, Idle, HandlersFit, Deciding
<1> QED
  BY <1>1, <1>2, <1>3, <1>4, TypeInit DEF OpeningInv, Removals, RowsFit

(* Every step keeps it. *)
LEMMA OpeningStep == OpeningInv /\ [EventsNext]_eventVars => OpeningInv'
<1> SUFFICES ASSUME OpeningInv, [EventsNext]_eventVars PROVE OpeningInv'
  OBVIOUS
<1>1. TypeInv'
  BY TypeStep DEF OpeningInv
<1>2. CASE EventsNext
  BY <1>1, <1>2, RemovalsStep, RowsFitStep, HandlersFitStep DEF OpeningInv
<1>3. CASE UNCHANGED eventVars
  <2>1. UNCHANGED <<charge, sent, invoice, run>>
    BY <1>3 DEF eventVars
  <2>2. Removals' /\ RowsFit'
    BY <2>1 DEF OpeningInv, Removals, RowsFit, Asaas, Repairing, Event
  <2>3. HandlersFit'
    BY <2>1 DEF OpeningInv, HandlersFit, OpensFit, StatusOf
  <2> QED
    BY <1>1, <2>2, <2>3 DEF OpeningInv
<1> QED
  BY <1>2, <1>3

(* "fatura removida (...) nao ressuscita": only an event that restores opens *)
(* a removed invoice, and there is none as long as its charge is deleted,    *)
(* whatever comes late, twice, after a failure or from the reconciliation,   *)
(* and however handlers and routines interleave, unless a handler had read   *)
(* the invoice before it was removed.                                        *)
THEOREM RemovedIsNotOpened == EventsSpec => RemovedStaysClosed
<1> DEFINE Shut == \A i \in Invoices :
              /\ charge[i] = "DELETED" /\ invoice[i].removed
              /\ \A p \in Procs : ~ReadBefore(p, i)
              => invoice'[i].status # "OPEN"
<1>1. ASSUME OpeningInv, EventsNext, NEW i \in Invoices, charge[i] = "DELETED",
             invoice[i].removed, \A p \in Procs : ~ReadBefore(p, i), invoice'[i].status = "OPEN"
      PROVE  FALSE
  <2>1. TypeInv /\ RowsFit /\ HandlersFit
    BY <1>1 DEF OpeningInv
  <2>2. invoice[i].status # "OPEN"
    BY <1>1, <2>1 DEF RowsFit
  <2>3. PICK p \in Procs : Write(p)
    BY <1>1, <2>2, OnlyWriteWrites
  <2> DEFINE j == run[p].event.inv
  <2>0. /\ invoice' = [invoice EXCEPT ![j] = NextRow(run[p].event, run[p].row)]
        /\ invoice'[j].status = StatusOf(p)
    BY <2>1, <2>3, RowWritten DEF NextRow, StatusOf
  <2>4. run[p].event.inv = i /\ StatusOf(p) = "OPEN"
    BY <1>1, <2>0, <2>2
  <2>5. run[p].at \in Deciding /\ run[p].row.removed
    <3>1. run[p].at \in Deciding
      BY <2>3 DEF Write, Deciding
    <3>2. run[p] \in [at : Deciding, event : Events, row : Rows, change : Effects]
      BY <2>1, <3>1, Parts
    <3>3. "change" \in DOMAIN run[p]
      BY <3>2
    <3> QED
      BY <1>1, <2>4, <3>1, <3>3 DEF ReadBefore
  <2>6. run[p].event.name = "RESTORED"
    BY <2>1, <2>4, <2>5 DEF HandlersFit, OpensFit
  <2>7. run[p].event \in Events /\ sent[run[p].event] # 0
    BY <2>1, <2>3, RowWritten
  <2>8. run[p].event \in {Asaas(i, "RESTORED"), Repairing(i, "RESTORED")}
    BY <2>4, <2>6, <2>7 DEF Events, Asaas, Repairing, Event
  <2> QED
    BY <1>1, <2>7, <2>8 DEF OpeningInv, Removals
<1>2. ASSUME OpeningInv, [EventsNext]_eventVars PROVE [Shut]_eventVars
  BY <1>1, <1>2
<1> HIDE DEF Shut
<1>3. EventsSpec => []OpeningInv
  BY OpeningInit, OpeningStep, PTL DEF EventsSpec
<1>4. EventsSpec => [][Shut]_eventVars
  BY <1>2, <1>3, PTL DEF EventsSpec
<1> QED
  BY <1>4 DEF Shut, RemovedStaysClosed

(* The same beside turns, as the coupon needs it. *)
RemovalInv == TurnsInv /\ OpeningInv

(* It holds at first. *)
LEMMA RemovalInit == EventsInit => RemovalInv
BY TurnsInit, OpeningInit DEF RemovalInv

(* Every step keeps it. *)
LEMMA RemovalStep == TakeTurns /\ RemovalInv /\ [EventsNext]_eventVars => RemovalInv'
BY TurnsStep, OpeningStep DEF RemovalInv

-----------------------------------------------------------------------------
(* The coupon counts payments. *)

(* No charge is restored after it was deleted.                               *)
NoRestoring == \A i \in Invoices : "RESTORED" \notin May[i]

Settled == PaidCharges \cup {"CHARGEBACK"}

(* Then a deletion is final, and a payment too but for its chargeback.       *)
Finally(i, name) ==
    /\ name = "DELETED" => charge[i] = "DELETED"
    /\ name \in PaidCharges => charge[i] \in Settled
    /\ name = "CHARGEBACK" => sent[Asaas(i, "CHARGEBACK")] # 0

Final ==
    \A i \in Invoices :
        /\ \A n \in Names :
              sent[Asaas(i, n)] # 0 \/ sent[Repairing(i, n)] # 0 => Finally(i, n)
        /\ charge[i] = "CHARGEBACK" => sent[Asaas(i, "CHARGEBACK")] # 0

(* What is marked as paid was paid. *)
PaidIsPaid == \A i \in Invoices : invoice[i].paid => charge[i] \in Settled

(* No charge was charged back, as far as Asaas has told.                     *)
NoDispute == \A i \in Invoices : sent[Asaas(i, "CHARGEBACK")] = 0

(* A handler that counts a cycle, how many do, and the payments there are.   *)
Counting(p) == run[p].at \in {"couponRead", "couponWrite"}
Owed == IF \E p \in Procs : Counting(p) THEN 1 ELSE 0
PaidOnes == {i \in Invoices : invoice[i].paid}

(* The cycles that are counted and the one that is being counted are paid.   *)
Counted ==
    /\ \A i \in Invoices : invoice[i].paid => invoice[i].status = "PAID"
    /\ CouponCycles - coupon + Owed <= Cardinality(PaidOnes)

(* What is to be written to the coupon is one less than it has.              *)
OneLess == \A p \in Procs : run[p].at = "couponWrite" => run[p].left = coupon - 1

(* The invariant of the coupon. *)
CouponInv == RemovalInv /\ Final /\ PaidIsPaid /\ OneLess /\ (NoDispute => Counted)

(* Every step keeps what is final. *)
LEMMA FinalStep == ASSUME NoRestoring, TypeInv, Final, EventsNext PROVE Final'
<1>0. Names = {"CREATED", "UPDATED", "RESTORED", "OVERDUE", "CONFIRMED", "RECEIVED", "DELETED", "CHARGEBACK"}
      /\ PaidCharges = {"CONFIRMED", "RECEIVED"} /\ Settled = {"CONFIRMED", "RECEIVED", "CHARGEBACK"}
  BY DEF Names, PaidCharges, Settled
<1> SUFFICES ASSUME NEW i \in Invoices
             PROVE  /\ \A n \in Names :
                          sent'[Asaas(i, n)] # 0 \/ sent'[Repairing(i, n)] # 0 =>
                             /\ n = "DELETED" => charge'[i] = "DELETED"
                             /\ n \in PaidCharges => charge'[i] \in Settled
                             /\ n = "CHARGEBACK" => sent'[Asaas(i, "CHARGEBACK")] # 0
                    /\ charge'[i] = "CHARGEBACK" => sent'[Asaas(i, "CHARGEBACK")] # 0
  BY DEF Final, Finally, Asaas, Repairing, Event, PaidCharges, Settled
<1>1. /\ \A n \in Names :
            sent[Asaas(i, n)] # 0 \/ sent[Repairing(i, n)] # 0 =>
               /\ n = "DELETED" => charge[i] = "DELETED"
               /\ n \in PaidCharges => charge[i] \in Settled
               /\ n = "CHARGEBACK" => sent[Asaas(i, "CHARGEBACK")] # 0
      /\ charge[i] = "CHARGEBACK" => sent[Asaas(i, "CHARGEBACK")] # 0
  BY DEF Final, Finally
<1>2. CASE Silent(i)
  BY <1>0, <1>1, <1>2 DEF Silent
<1>3. ASSUME NEW name \in Names, Announces(i, name)
      PROVE  /\ \A n \in Names :
                  sent'[Asaas(i, n)] # 0 \/ sent'[Repairing(i, n)] # 0 =>
                     /\ n = "DELETED" => charge'[i] = "DELETED"
                     /\ n \in PaidCharges => charge'[i] \in Settled
                     /\ n = "CHARGEBACK" => sent'[Asaas(i, "CHARGEBACK")] # 0
             /\ charge'[i] = "CHARGEBACK" => sent'[Asaas(i, "CHARGEBACK")] # 0
  <2>1. name # "RESTORED"
    BY <1>3 DEF NoRestoring, Announces
  <2> QED
    BY <1>0, <1>1, <1>3, <2>1 DEF Announces
<1>4. CASE \E name \in Names : Heals(i, name)
  BY <1>0, <1>1, <1>4 DEF Heals
<1> QED
  BY <1>2, <1>3, <1>4, WhatIsTold

(* A charge that was paid stays so, but for its chargeback. *)
LEMMA SettledStays ==
    ASSUME NoRestoring, TypeInv, EventsNext, NEW i \in Invoices, charge[i] \in Settled
    PROVE  charge'[i] \in Settled
<1>1. ASSUME NEW name \in Names, Announces(i, name) PROVE charge'[i] \in Settled
  BY <1>1 DEF NoRestoring, Announces, Settled, PaidCharges
<1> QED
  BY <1>1, WhatIsTold DEF Silent, Heals, Settled, PaidCharges

(* A dispute that was announced stays announced. *)
LEMMA DisputeStays ==
    ASSUME TypeInv, EventsNext, NoDispute' PROVE NoDispute
<1> SUFFICES ASSUME NEW i \in Invoices PROVE sent[Asaas(i, "CHARGEBACK")] = 0
  BY DEF NoDispute
<1>1. sent'[Asaas(i, "CHARGEBACK")] = 0 /\ "CHARGEBACK" \in Names
  BY DEF NoDispute, Asaas, Event, Names
<1> QED
  BY <1>1, WhatIsTold DEF Silent, Heals, Announces

(* The event that is handled says what is final of its charge. *)
LEMMA HandledIsFinal ==
    ASSUME TypeInv, Final, NEW p \in Procs, Write(p)
    PROVE  Finally(run[p].event.inv, run[p].event.name)
<1> DEFINE e == run[p].event
<1>1. e \in Events /\ sent[e] # 0 /\ e.inv \in Invoices
  BY RowWritten
<1>2. e.name \in Names /\ e \in {Asaas(e.inv, e.name), Repairing(e.inv, e.name)}
  BY <1>1 DEF Events, Asaas, Repairing, Event
<1> HIDE DEF e
<1>3. Finally(e.inv, e.name)
  BY <1>1, <1>2 DEF Final
<1> QED
  BY <1>3 DEF e

(* Every step keeps the marks of payments. *)
LEMMA PaidIsPaidStep ==
    ASSUME NoRestoring, TurnsInv, Final, PaidIsPaid, EventsNext PROVE PaidIsPaid'
<1>0. TypeInv
  BY DEF TurnsInv
<1> SUFFICES ASSUME NEW i \in Invoices, invoice'[i].paid PROVE charge'[i] \in Settled
  BY DEF PaidIsPaid, Settled, PaidCharges
<1>1. CASE invoice[i].paid
  BY <1>0, <1>1, SettledStays DEF PaidIsPaid
<1>2. CASE ~invoice[i].paid
  <2>1. PICK p \in Procs : Write(p)
    BY <1>2, OnlyWriteWrites
  <2>2. run[p].event.inv = i /\ Decided(p)
    BY <1>0, <1>2, <2>1, RowWritten, WhatIsWritten DEF TypeInv
  <2>3. ~run[p].row.paid
    BY <1>2, <2>2 DEF Decided
  <2>4. StatusFromEvent(run[p].event.name) = "PAID"
    <3>1. NextRow(run[p].event, run[p].row).paid
      BY <1>0, <2>1, <2>2, RowWritten
    <3>2. NextRow(run[p].event, run[p].row).paid =
             (run[p].row.paid \/ StatusFromEvent(run[p].event.name) = "PAID")
      BY DEF NextRow
    <3> QED
      BY <2>3, <3>1, <3>2
  <2>5. run[p].event.name \in PaidCharges
    BY <2>4 DEF StatusFromEvent, PaidCharges
  <2>6. charge[i] \in Settled
    BY <1>0, <2>1, <2>2, <2>5, HandledIsFinal DEF Finally
  <2> QED
    BY <1>0, <2>6, SettledStays
<1> QED
  BY <1>1, <1>2

(* Who begins to count a cycle. *)
LEMMA WhoCounts ==
    ASSUME TypeInv, EventsNext, NEW p \in Procs, Counting(p)'
    PROVE  Counting(p) \/ (Write(p) /\ CountsCycle(run[p].event, run[p].row))
<1>1. CASE run'[p] = run[p]
  BY <1>1 DEF Counting
<1>2. CASE run'[p].at \in {"idle", "ask", "claim", "invoice"}
  BY <1>2 DEF Counting
<1>3. CASE ReadInvoice(p)
  BY <1>3 DEF ReadInvoice, Counting, TypeInv
<1>4. CASE AskProof(p) \/ ReadCompany(p) \/ CountDebts(p)
  <2>1. run[p].at \in Deciding
    BY <1>4 DEF AskProof, ReadCompany, CountDebts, Deciding
  <2>2. run[p] \in [at : Deciding, event : Events, row : Rows, change : Effects]
    BY <2>1, Parts
  <2>3. \E at \in {"company", "finish", "debts", "write"} : \E change :
           \/ run'[p] = [run[p] EXCEPT !.at = at]
           \/ run'[p] = [run[p] EXCEPT !.at = at, !.change = change]
    BY <1>4 DEF AskProof, ReadCompany, CountDebts, TypeInv
  <2> QED
    BY <2>2, <2>3 DEF Counting
<1>5. CASE Write(p)
  BY <1>5 DEF Write, Counting, TypeInv
<1>6. CASE ReadCoupon(p) \/ WriteCoupon(p)
  BY <1>6 DEF ReadCoupon, WriteCoupon, Counting
<1> QED
  BY <1>1, <1>2, <1>3, <1>4, <1>5, <1>6, WhoMoves

(* The coupon changes by the hand of a handler only. *)
LEMMA OnlyWriteCoupon == EventsNext => UNCHANGED coupon \/ \E p \in Procs : WriteCoupon(p)
BY DEF EventsNext, ChargeChanges, ChargebackReversed, List, Deliver, Take, Handle, Fail, Die,
       ReadInvoice, AskProof, ReadCompany, CountDebts, Write, ReadCoupon, Finish,
       AskCharge, ClaimRepair, NewDay, DunningReads, DunningWrites, PersonDecides

(* Every step keeps what is to be written to the coupon. *)
LEMMA OneLessStep == ASSUME TurnsInv, OneLess, EventsNext PROVE OneLess'
<1>0. TypeInv
  BY DEF TurnsInv
<1> SUFFICES ASSUME NEW p \in Procs, run'[p].at = "couponWrite" PROVE run'[p].left = coupon' - 1
  BY DEF OneLess
<1>1. CASE ReadCoupon(p)
  BY <1>0, <1>1 DEF ReadCoupon, TypeInv
<1>2. CASE WriteCoupon(p)
  BY <1>0, <1>2 DEF WriteCoupon, TypeInv
<1>3. CASE run'[p] = run[p]
  <2>1. ASSUME NEW q \in Procs, WriteCoupon(q), q # p PROVE FALSE
    <3>1. run[q].at # "idle"
      BY <2>1 DEF WriteCoupon
    <3>2. run[p] = Idle
      BY <2>1, <3>1, OnlyOne
    <3> QED
      BY <1>3, <3>2 DEF Idle
  <2>2. ~WriteCoupon(p)
    BY <1>0, <1>3 DEF WriteCoupon, TypeInv
  <2>3. UNCHANGED coupon
    BY <2>1, <2>2, OnlyWriteCoupon
  <2> QED
    BY <1>3, <2>3 DEF OneLess
<1>4. CASE Write(p) \/ ReadInvoice(p)
  BY <1>0, <1>4 DEF Write, ReadInvoice, TypeInv
<1>5. CASE AskProof(p) \/ ReadCompany(p) \/ CountDebts(p)
  <2>1. run[p].at \in Deciding /\ ~Counting(p) /\ ~Write(p) /\ Counting(p)'
    BY <1>5 DEF AskProof, ReadCompany, CountDebts, Deciding, Counting, Write
  <2> QED
    BY <1>0, <2>1, WhoCounts
<1> QED
  BY <1>0, <1>1, <1>2, <1>3, <1>4, <1>5, WhoMoves

(* Among finitely many invoices, those that are paid can be counted.         *)
LEMMA PaidCount == IsFiniteSet(PaidOnes) /\ Cardinality(PaidOnes) \in Nat
<1>1. IsFiniteSet(PaidOnes)
  BY FS_Subset DEF PaidOnes
<1> QED
  BY <1>1, FS_CardinalityType

(* The transaction, when nothing is disputed. *)
LEMMA CountedWrite ==
    ASSUME CouponInv, NoDispute, EventsNext, NEW p \in Procs, Write(p) PROVE Counted'
<1> DEFINE i == run[p].event.inv
           e == run[p].event
           row == run[p].row
<1>0. TypeInv /\ TurnsInv /\ RowsFit /\ Final /\ PaidIsPaid /\ Counted
  BY DEF CouponInv, RemovalInv, OpeningInv, TurnsInv
<1>1. /\ i \in Invoices /\ row = invoice[i] /\ row \in Rows /\ Decided(p)
      /\ invoice' = [invoice EXCEPT ![i] = NextRow(e, row)] /\ UNCHANGED coupon
  BY <1>0, RowWritten, WhatIsWritten DEF Decided, Write
<1>2. invoice \in [Invoices -> Rows] /\ coupon \in 0..CouponCycles
  BY <1>0 DEF TypeInv
<1>3. NextRow(e, row).paid = (row.paid \/ StatusOf(p) = "PAID") /\ NextRow(e, row).status = StatusOf(p)
  BY DEF NextRow, StatusOf
<1>4. \A q \in Procs : ~Counting(q)
  <2>1. run[p].at = "write"
    BY DEF Write
  <2>2. \A q \in Procs : q # p => run[q] = Idle
    BY <1>0, <2>1, OnlyOne
  <2> QED
    BY <2>1, <2>2 DEF Counting, Idle
<1>5. Owed = 0
  BY <1>4 DEF Owed
<1>6. Owed' = 0 \/ (Owed' = 1 /\ CountsCycle(e, row))
  <2>1. ASSUME NEW q \in Procs, Counting(q)' PROVE CountsCycle(e, row)
    <3>1. Write(q) /\ CountsCycle(run[q].event, run[q].row)
      BY <1>0, <1>4, <2>1, WhoCounts
    <3>2. run[q].at = "write" /\ run[p].at = "write"
      BY <3>1 DEF Write
    <3>3. q = p
      BY <1>0, <3>2, OnlyOne DEF Idle
    <3> QED
      BY <3>1, <3>3
  <2> QED
    BY <2>1 DEF Owed
<1>7. \A j \in Invoices : j # i => invoice'[j] = invoice[j]
  BY <1>1
<1>8. invoice'[i] = NextRow(e, row)
  BY <1>1, <1>2
<1>9. row.paid => row.status = "PAID"
  BY <1>0, <1>1 DEF Counted
<1>10. CASE StatusOf(p) = "PAID"
  <2>1. invoice'[i].paid /\ invoice'[i].status = "PAID"
    BY <1>3, <1>8, <1>10
  <2>2. \A j \in Invoices : invoice'[j].paid => invoice'[j].status = "PAID"
    BY <1>0, <1>7, <2>1 DEF Counted
  <2>3. PaidOnes' = PaidOnes \cup {i}
    BY <1>1, <1>7, <2>1 DEF PaidOnes
  <2>4. row.status # "PAID" => i \notin PaidOnes
    BY <1>1, <1>9 DEF PaidOnes
  <2>5. /\ Cardinality(PaidOnes') >= Cardinality(PaidOnes)
        /\ i \notin PaidOnes => Cardinality(PaidOnes') = Cardinality(PaidOnes) + 1
    <3>1. Cardinality(PaidOnes) \in Nat /\ IsFiniteSet(PaidOnes)
      BY PaidCount
    <3>2. CASE i \in PaidOnes
      <4>1. PaidOnes \cup {i} = PaidOnes
        BY <3>2
      <4>2. Cardinality(PaidOnes') = Cardinality(PaidOnes)
        BY <2>3, <4>1, Zenon
      <4> QED
        BY <3>1, <3>2, <4>2
    <3>3. CASE i \notin PaidOnes
      <4>1. Cardinality(PaidOnes \cup {i}) = Cardinality(PaidOnes) + 1
        BY <3>1, <3>3, FS_AddElement
      <4> QED
        BY <2>3, <3>1, <4>1
    <3> QED
      BY <3>2, <3>3
  <2>6. CountsCycle(e, row) => row.status # "PAID"
    BY DEF CountsCycle
  <2>7. (CouponCycles - coupon + Owed <= Cardinality(PaidOnes))'
    <3>1. Owed' = 0 \/ (Owed' = 1 /\ Cardinality(PaidOnes') = Cardinality(PaidOnes) + 1)
      BY <1>6, <2>4, <2>5, <2>6
    <3>2. CouponCycles - coupon <= Cardinality(PaidOnes) /\ coupon' = coupon
      BY <1>0, <1>1, <1>2, <1>5 DEF Counted
    <3>3. Cardinality(PaidOnes) \in Nat /\ Cardinality(PaidOnes') >= Cardinality(PaidOnes)
      BY <2>5, PaidCount
    <3>4. Cardinality(PaidOnes') \in Nat
      <4>1. IsFiniteSet(PaidOnes')
        BY FS_Subset DEF PaidOnes
      <4> QED
        BY <4>1, FS_CardinalityType
    <3> QED
      BY <1>2, <3>1, <3>2, <3>3, <3>4
  <2> QED
    BY <2>2, <2>7 DEF Counted
<1>11. CASE StatusOf(p) # "PAID"
  <2>1. ~row.paid
    <3> SUFFICES ASSUME row.paid PROVE FALSE
      OBVIOUS
    <3>1. row.status = "PAID" /\ StatusOf(p) = "CANCELED"
      BY <1>1, <1>9, <1>11, StatusType DEF Decided, StatusOf
    <3>2. e.name \in {"DELETED", "CHARGEBACK"}
      BY <3>1 DEF StatusOf, StatusFromEvent
    <3>3. Finally(i, e.name) /\ charge[i] \in Settled
      BY <1>0, <1>1, HandledIsFinal DEF PaidIsPaid
    <3>4. sent[Asaas(i, "CHARGEBACK")] # 0
      BY <3>2, <3>3 DEF Finally, Settled, PaidCharges
    <3> QED
      BY <1>1, <3>4 DEF NoDispute
  <2>2. ~invoice'[i].paid
    BY <1>3, <1>8, <1>11, <2>1
  <2>3. \A j \in Invoices : invoice'[j].paid => invoice'[j].status = "PAID"
    BY <1>0, <1>7, <2>2 DEF Counted
  <2>4. PaidOnes' = PaidOnes
    BY <1>1, <1>7, <2>1, <2>2 DEF PaidOnes
  <2>5. ~CountsCycle(e, row)
    BY <1>11 DEF CountsCycle, StatusOf
  <2>6. (CouponCycles - coupon + Owed <= Cardinality(PaidOnes))'
    BY <1>0, <1>1, <1>5, <1>6, <2>4, <2>5 DEF Counted
  <2> QED
    BY <2>3, <2>6 DEF Counted
<1> QED
  BY <1>10, <1>11

(* Every step keeps the count, as long as nothing is disputed. *)
LEMMA CountedStep ==
    ASSUME CouponInv, NoDispute, EventsNext PROVE Counted'
<1>0. TypeInv /\ TurnsInv /\ OneLess /\ Counted
  BY DEF CouponInv, RemovalInv, OpeningInv, TurnsInv
<1>1. coupon \in 0..CouponCycles /\ Owed \in 0..1
  BY <1>0 DEF TypeInv, Owed
<1>2. CASE \E p \in Procs : Write(p)
  BY <1>2, CountedWrite
<1>3. CASE \E p \in Procs : WriteCoupon(p)
  <2>1. PICK p \in Procs : WriteCoupon(p)
    BY <1>3
  <2>2. run[p].at = "couponWrite" /\ run[p].left = coupon - 1
    BY <1>0, <2>1 DEF WriteCoupon, OneLess
  <2>3. (coupon' = coupon - 1 \/ coupon' = coupon) /\ UNCHANGED invoice
    BY <2>1, <2>2 DEF WriteCoupon
  <2>4. Owed = 1
    BY <2>2 DEF Owed, Counting
  <2>5. Owed' = 0
    <3>1. \A q \in Procs : q # p => run[q] = Idle
      BY <1>0, <2>2, OnlyOne
    <3>2. ASSUME NEW q \in Procs PROVE ~Counting(q)'
      <4>1. CASE q = p
        BY <1>0, <2>1, <4>1 DEF WriteCoupon, Counting, TypeInv
      <4>2. CASE q # p
        BY <1>0, <2>1, <3>1, <4>2 DEF WriteCoupon, Counting, TypeInv, Idle
      <4> QED
        BY <4>1, <4>2
    <3> QED
      BY <3>2 DEF Owed
  <2>6. PaidOnes' = PaidOnes
    BY <2>3 DEF PaidOnes
  <2>7. (CouponCycles - coupon + Owed <= Cardinality(PaidOnes))'
    BY <1>0, <1>1, <2>3, <2>4, <2>5, <2>6, PaidCount DEF Counted
  <2> QED
    BY <1>0, <2>3, <2>7 DEF Counted
<1>4. CASE UNCHANGED <<invoice, coupon>> /\ \A p \in Procs : ~Write(p)
  <2>1. Owed' \in 0..1 /\ Owed' <= Owed
    BY <1>0, <1>4, WhoCounts DEF Owed
  <2>2. PaidOnes' = PaidOnes
    BY <1>4 DEF PaidOnes
  <2>3. (CouponCycles - coupon + Owed <= Cardinality(PaidOnes))'
    BY <1>0, <1>1, <1>4, <2>1, <2>2, PaidCount DEF Counted
  <2> QED
    BY <1>0, <1>4, <2>3 DEF Counted
<1> QED
  BY <1>2, <1>3, <1>4, OnlyWriteWrites, OnlyWriteCoupon

(* At first nothing is paid or counted. *)
LEMMA CouponInit == EventsInit => CouponInv
<1> SUFFICES ASSUME EventsInit PROVE CouponInv
  OBVIOUS
<1>1. RemovalInv
  BY RemovalInit
<1>2. \A i \in Invoices : charge[i] \in {"NONE", "PENDING"} /\ ~invoice[i].paid
  BY DEF EventsInit, NoRow
<1>3. Final
  <2>1. ASSUME NEW e \in Events, sent[e] # 0 PROVE e.name = "CREATED"
    BY <2>1 DEF EventsInit, Asaas, Event
  <2>2. ASSUME NEW i \in Invoices, NEW n \in Names, sent[Asaas(i, n)] # 0 \/ sent[Repairing(i, n)] # 0
        PROVE  n = "CREATED"
    <3>1. /\ Asaas(i, n) \in Events /\ Repairing(i, n) \in Events
          /\ Asaas(i, n).name = n /\ Repairing(i, n).name = n
      BY DEF Asaas, Repairing, Event, Events
    <3> QED
      BY <2>1, <2>2, <3>1
  <2>3. \A i \in Invoices : Finally(i, "CREATED")
    BY DEF Finally, PaidCharges
  <2> QED
    BY <1>2, <2>2, <2>3 DEF Final
<1>4. OneLess
  BY DEF OneLess, EventsInit, Idle
<1>5. Counted
  <2>1. \A p \in Procs : ~Counting(p)
    BY DEF EventsInit, Idle, Counting
  <2>2. Owed = 0 /\ coupon = CouponCycles
    BY <2>1 DEF Owed, EventsInit
  <2> QED
    BY <1>2, <2>2, PaidCount DEF Counted
<1> QED
  BY <1>1, <1>2, <1>3, <1>4, <1>5 DEF CouponInv, PaidIsPaid

(* Every step keeps the invariant of the coupon. *)
LEMMA CouponStep ==
    ASSUME TakeTurns, NoRestoring, CouponInv, [EventsNext]_eventVars PROVE CouponInv'
<1>0. RemovalInv' /\ TypeInv /\ TurnsInv
  BY RemovalStep DEF CouponInv, RemovalInv, OpeningInv, TurnsInv
<1>1. CASE EventsNext
  <2>1. Final' /\ PaidIsPaid' /\ OneLess'
    BY <1>0, <1>1, FinalStep, PaidIsPaidStep, OneLessStep DEF CouponInv
  <2>2. NoDispute' => Counted'
    BY <1>0, <1>1, DisputeStays, CountedStep
  <2> QED
    BY <1>0, <2>1, <2>2 DEF CouponInv
<1>2. CASE UNCHANGED eventVars
  <2>1. UNCHANGED <<charge, sent, invoice, coupon, run>>
    BY <1>2 DEF eventVars
  <2>2. Final' /\ PaidIsPaid' /\ OneLess'
    BY <2>1 DEF CouponInv, Final, Finally, PaidIsPaid, OneLess, Asaas, Repairing, Event, Settled,
                PaidCharges
  <2>3. PaidOnes' = PaidOnes /\ Owed' = Owed
    BY <2>1 DEF PaidOnes, Owed, Counting
  <2>4. NoDispute' = NoDispute
    BY <2>1 DEF NoDispute, Asaas, Event
  <2>5. Counted' = Counted
    BY <2>1, <2>3 DEF Counted
  <2> QED
    BY <1>0, <2>2, <2>4, <2>5 DEF CouponInv
<1> QED
  BY <1>1, <1>2

(* "Conta um ciclo pago do cupom": announced as confirmed and as received,   *)
(* twice, late, after a failure and by the reconciliation, a payment uses up *)
(* one cycle, while handlers and routines take turns, no charge is restored  *)
(* after a deletion and none is charged back.                                *)
THEOREM CouponCountsEachPaymentOnce ==
    TakeTurns /\ NoRestoring => (EventsSpec => []CouponCountsPayments)
<1>1. ASSUME CouponInv PROVE CouponCountsPayments
  <2>1. coupon \in 0..CouponCycles /\ Owed \in 0..1
    BY <1>1 DEF CouponInv, RemovalInv, OpeningInv, TurnsInv, TypeInv, Owed
  <2> QED
    BY <1>1, <2>1, PaidCount DEF CouponInv, Counted, CouponCountsPayments, NoDispute, PaidOnes
<1>2. ASSUME TakeTurns, NoRestoring PROVE EventsSpec => []CouponCountsPayments
  <2>1. CouponInv /\ [EventsNext]_eventVars => CouponInv'
    BY <1>2, CouponStep
  <2> QED
    BY <1>1, <2>1, CouponInit, PTL DEF EventsSpec
<1> QED
  BY <1>2
=============================================================================
