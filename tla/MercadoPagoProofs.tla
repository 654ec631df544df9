-------------------------- MODULE MercadoPagoProofs --------------------------
(***************************************************************************)
(* Theorems about MercadoPagoSync, for any invoices, payments, notices,      *)
(* people and paid cycles, with failing and dying calls: notices and the   *)
(* routine meet at every await, people do not act beside them.             *)
(***************************************************************************)
EXTENDS MercadoPagoSync, SumTheorems

USE DEF States, Rows, NoRow, Idle

(* A charge of a subscription, which no reference ties to an invoice, is not *)
(* charged back.                                                             *)
SubscriptionsStand == \A p \in Payments : InvoiceOf[p] = None => "charged_back" \notin May[p]

(* A payment may be for an invoice its reference names, or a subscription's.  *)
MayPay(p, i) == InvoiceOf[p] \in {i, None}

(* What a call carries: its invoice and its payment belong together and a    *)
(* chargeback it has seen is there.                                          *)
CallFits(w, r) ==
    /\ r.at = "idle" => r = Idle
    /\ r.at \in {"search", "company", "debts", "claim", "coupon", "write", "release", "expire", "cancel"}
          => r.inv \in Invoices
    /\ r.at \in {"find", "adopt", "create", "company", "debts", "claim", "coupon", "write", "release"}
          => r.pay \in Payments
    /\ r.at \in {"adopt", "create"} => InvoiceOf[r.pay] = None
    /\ r.got = "charged_back" => r.pay \in Payments /\ remote[r.pay] = "charged_back"
    /\ r.inv # None /\ r.pay # None => MayPay(r.pay, r.inv)
    /\ r.at = "search" /\ r.seen.pay # None => MayPay(r.seen.pay, r.inv)
    /\ r.at # "idle" =>
          IF w \in Staff
          THEN /\ r.by \in {"sync", "remove"}
               /\ r.at \in {"search", "write", "release", "expire", "cancel"}
          ELSE /\ r.by \in {"notice", "routine"}
               /\ r.at \notin {"write", "release", "expire", "cancel"}
    /\ r.at \in {"release", "expire", "cancel"} => r.by = "remove"
    /\ r.at # "idle" /\ r.by = "remove" => r.seen.status \in {"OPEN", "OVERDUE"}

CallsFit == \A w \in Procs : CallFits(w, run[w])

(* Attempts carry the reference of their invoice, and so does what an        *)
(* invoice records.                                                          *)
PaymentsFit ==
    /\ \A i \in Invoices : \A n \in DOMAIN tries[i] : InvoiceOf[tries[i][n]] = i
    /\ \A i \in Invoices : invoice[i].pay # None => MayPay(invoice[i].pay, i)
    /\ \A p \in Payments : remote[p] = "charged_back" => "charged_back" \in May[p]

-----------------------------------------------------------------------------
(* Types. *)

(* A nonempty set of positions of a sequence has a last one. *)
LEMMA LastPosition ==
    ASSUME NEW n \in Nat, NEW S \in SUBSET (1..n), S # {}
    PROVE  Max(S) \in S
<1> DEFINE Has(m) == \A s \in SUBSET (1..m) : s # {} => \E x \in s : \A y \in s : x >= y
           T == {m \in Nat : Has(m)}
<1>1. 0 \in T
  <2>1. 1..0 = {}
    OBVIOUS
  <2> QED
    BY <2>1
<1>2. ASSUME NEW m \in T PROVE m + 1 \in T
  <2> SUFFICES ASSUME NEW s \in SUBSET (1..(m + 1)), s # {}
               PROVE  \E x \in s : \A y \in s : x >= y
    OBVIOUS
  <2>1. CASE m + 1 \in s
    BY <2>1
  <2>2. CASE m + 1 \notin s
    <3>1. s \in SUBSET (1..m)
      BY <2>2
    <3> QED
      BY <3>1
  <2> QED
    BY <2>1, <2>2
<1>3. T = Nat
  <2> HIDE DEF T
  <2>1. T \in SUBSET Nat
    BY DEF T
  <2> QED
    BY <1>1, <1>2, <2>1, SetInduction
<1>4. \E x \in S : \A y \in S : x >= y
  BY <1>3
<1> QED
  BY <1>4 DEF Max

(* What findPaymentForInvoice() answers with: nothing, the payment on record  *)
(* or one of the attempts.                                                   *)
LEMMA FoundIsKnown ==
    ASSUME MpTypeOK, NEW i \in Invoices, NEW known \in Payments \cup {None}
    PROVE  \/ Found(i, known) = known
           \/ Found(i, known) \in Payments /\ \E n \in DOMAIN tries[i] : Found(i, known) = tries[i][n]
<1> DEFINE approved == {n \in DOMAIN tries[i] : Approved(tries[i][n])}
<1>1. /\ tries[i] \in Seq(Payments) /\ DOMAIN tries[i] = 1..Len(tries[i])
      /\ Len(tries[i]) \in Nat
  BY DEF MpTypeOK
<1>2. CASE known # None
  BY <1>2 DEF Found
<1>3. CASE known = None /\ approved # {}
  <2>1. Max(approved) \in approved
    BY <1>1, <1>3, LastPosition
  <2>2. Found(i, known) = tries[i][Max(approved)]
    BY <1>3 DEF Found
  <2> HIDE DEF approved
  <2>3. Max(approved) \in DOMAIN tries[i]
    BY <2>1 DEF approved
  <2> QED
    BY <1>1, <2>2, <2>3
<1>4. CASE known = None /\ approved = {} /\ tries[i] # <<>>
  <2>1. Found(i, known) = tries[i][Len(tries[i])]
    BY <1>4 DEF Found, Last
  <2>2. Len(tries[i]) \in DOMAIN tries[i]
    BY <1>1, <1>4
  <2> QED
    BY <1>1, <2>1, <2>2
<1>5. CASE known = None /\ approved = {} /\ tries[i] = <<>>
  BY <1>5 DEF Found
<1> QED
  BY <1>2, <1>3, <1>4, <1>5

(* Nothing is paid at first. *)
LEMMA TypeInit == MpInit => MpTypeOK
<1> SUFFICES ASSUME MpInit PROVE MpTypeOK
  OBVIOUS
<1>1. tries \in [Invoices -> Seq(Payments)]
  BY DEF MpInit
<1>2. invoice \in [Invoices -> Rows]
  BY DEF MpInit
<1>3. Idle \in Calls /\ cycles \in 0..Cycles
  BY MercadoPagoAssumption DEF MpInit, Calls
<1>4. run \in [Procs -> Calls]
  BY <1>3 DEF MpInit
<1> QED
  BY <1>1, <1>2, <1>3, <1>4, MercadoPagoAssumption DEF MpInit, MpTypeOK, Calls

Steps == {"idle", "find", "adopt", "create", "search", "company", "debts",
          "claim", "coupon", "write", "release", "expire", "cancel"}

(* An idle call is a call, and so is one with another value in a field. *)
LEMMA CallUpdates ==
    /\ Idle \in Calls
    /\ \A r \in Calls :
              /\ \A at \in Steps : [r EXCEPT !.at = at] \in Calls
              /\ \A by \in {"notice", "routine", "sync", "remove"} : [r EXCEPT !.by = by] \in Calls
              /\ \A i \in Invoices \cup {None} : [r EXCEPT !.inv = i] \in Calls
              /\ \A p \in Payments \cup {None} : [r EXCEPT !.pay = p] \in Calls
              /\ \A got \in States : [r EXCEPT !.got = got] \in Calls
              /\ \A row \in Rows : [r EXCEPT !.seen = row] \in Calls
              /\ \A c \in {"same", "release", "block"} : [r EXCEPT !.change = c] \in Calls
BY DEF Calls, Steps

(* What apply() goes on with is a call. *)
LEMMA AppliedType ==
    ASSUME NEW r \in Calls, NEW i \in Invoices, NEW row \in Rows
    PROVE  Applied(r, i, row) \in Calls
<1> DEFINE status == MapStatus(r.got)
           at == IF status = "PAID" THEN "company" ELSE "claim"
           change == IF status = "CANCELED" THEN "block" ELSE "same"
           r1 == [r EXCEPT !.inv = i]
           r2 == [r1 EXCEPT !.seen = row]
           r3 == [r2 EXCEPT !.at = at]
           r4 == [r3 EXCEPT !.change = change]
<1>1. at \in Steps /\ change \in {"same", "release", "block"}
  BY DEF Steps
<1> HIDE DEF Idle, Rows
<1>2. r1 \in Calls
  BY CallUpdates
<1>3. r2 \in Calls
  BY <1>2, CallUpdates
<1>4. r3 \in Calls
  BY <1>1, <1>3, CallUpdates
<1>5. r4 \in Calls
  BY <1>1, <1>4, CallUpdates
<1>6. Applied(r, i, row) \in {Idle, r4}
  BY DEF Applied, Calls
<1> QED
  BY <1>5, <1>6, CallUpdates

(* Each handler goes on to a call. *)
LEMMA GoesType ==
    ASSUME MpTypeOK, NEW w \in Procs, NEW to \in Calls, Goes(w, to)
    PROVE  run' \in [Procs -> Calls]
<1>1. run \in [Procs -> Calls] /\ run' = [run EXCEPT ![w] = to]
  BY DEF Goes, MpTypeOK
<1> QED
  BY <1>1

(* The webhook's and apply()'s steps go on to a call. *)
LEMMA ApplyGoes ==
    ASSUME MpTypeOK, CallsFit, NEW w \in Procs,
           \/ FindInvoice(w) \/ Adopt(w) \/ Create(w) \/ ReadCompany(w) \/ CountDebts(w)
           \/ Claim(w) \/ CountCycle(w) \/ Throws(w)
    PROVE  \E to \in Calls : Goes(w, to)
<1> USE CallUpdates
<1> HIDE DEF Idle, Rows
<1>1. run[w] \in Calls /\ \A i \in Invoices : invoice[i] \in Rows
  BY DEF MpTypeOK
<1>2. ASSUME NEW i \in Invoices PROVE Applied(run[w], i, invoice[i]) \in Calls
  BY <1>1, AppliedType
<1>3. ASSUME NEW at \in Steps PROVE [run[w] EXCEPT !.at = at] \in Calls
  BY <1>1
<1>4. CASE FindInvoice(w)
  <2>1. run[w].pay \in Payments
    BY <1>4 DEF FindInvoice, At, CallsFit, CallFits
  <2>2. InvoiceOf[run[w].pay] # None => InvoiceOf[run[w].pay] \in Invoices
    BY <2>1, MercadoPagoAssumption
  <2>3. [run[w] EXCEPT !.at = "adopt"] \in Calls
    BY <1>3 DEF Steps
  <2>4. \/ \E i \in Invoices : Goes(w, Applied(run[w], i, invoice[i]))
        \/ Goes(w, Idle) \/ Goes(w, [run[w] EXCEPT !.at = "adopt"])
    BY <1>4, <2>2 DEF FindInvoice
  <2> QED
    BY <1>2, <2>3, <2>4
<1>5. CASE Adopt(w)
  BY <1>2, <1>3, <1>5 DEF Adopt, Steps
<1>6. CASE Create(w)
  <2>1. [NoRow EXCEPT !.status = "OPEN"] \in Rows
    BY DEF Rows
  <2> QED
    BY <1>1, <1>6, <2>1, AppliedType DEF Create
<1>7. CASE ReadCompany(w)
  BY <1>3, <1>7 DEF ReadCompany, Steps
<1>8. CASE CountDebts(w)
  <2> DEFINE r == [run[w] EXCEPT !.at = "claim"]
  <2>1. r \in Calls
    BY <1>3 DEF Steps
  <2>2. [r EXCEPT !.change = "same"] \in Calls /\ [r EXCEPT !.change = "release"] \in Calls
    BY <2>1
  <2>3. \E c \in {"same", "release"} : Goes(w, [r EXCEPT !.change = c])
    BY <1>8 DEF CountDebts
  <2> QED
    BY <2>2, <2>3
<1>9. CASE Claim(w)
  BY <1>3, <1>9 DEF Claim, Steps
<1>10. CASE CountCycle(w) \/ Throws(w)
  BY <1>10 DEF CountCycle, Throws
<1> QED
  BY <1>4, <1>5, <1>6, <1>7, <1>8, <1>9, <1>10

(* So do the steps of the routine and of the buttons. *)
LEMMA ButtonGoes ==
    ASSUME MpTypeOK, CallsFit, NEW w \in Procs,
           Search(w) \/ Write(w) \/ Release(w) \/ Expire(w) \/ Cancel(w)
    PROVE  \E to \in Calls : Goes(w, to)
<1> USE CallUpdates
<1> HIDE DEF Idle, Rows
<1>1. run[w] \in Calls /\ run[w].seen \in Rows
  <2>1. run[w] \in Calls
    BY DEF MpTypeOK
  <2> QED
    BY <2>1 DEF Calls
<1>2. CASE Search(w)
  <2> DEFINE p == Found(run[w].inv, run[w].seen.pay)
             got == IF p = None THEN "none" ELSE remote[p]
             named == [run[w] EXCEPT !.pay = p]
             read == [named EXCEPT !.got = got]
  <2>1. run[w].inv \in Invoices /\ run[w].seen.pay \in Payments \cup {None}
    BY <1>1, <1>2 DEF Search, At, CallsFit, CallFits, Rows
  <2>2. p \in Payments \cup {None}
    BY <2>1, FoundIsKnown
  <2>3. got \in States
    BY <2>2 DEF MpTypeOK
  <2>4. named \in Calls
    BY <1>1, <2>2
  <2>5. read \in Calls
    BY <2>3, <2>4
  <2>6. Applied(read, run[w].inv, run[w].seen) \in Calls
    BY <1>1, <2>1, <2>5, AppliedType
  <2>7. \A at \in {"write", "release", "expire"} : [read EXCEPT !.at = at] \in Calls
    BY <2>5 DEF Steps
  <2>8. read = [run[w] EXCEPT !.pay = p, !.got = got]
    OBVIOUS
  <2> HIDE DEF p, got, named, read
  <2>9. \/ Goes(w, Idle) \/ Goes(w, Applied(read, run[w].inv, run[w].seen))
        \/ \E at \in {"write", "release", "expire"} : Goes(w, [read EXCEPT !.at = at])
    BY <1>2, <2>8 DEF Search, p, got
  <2> QED
    BY <2>6, <2>7, <2>9
<1>3. CASE Release(w) \/ Expire(w)
  <2>1. "expire" \in Steps /\ "cancel" \in Steps
    BY DEF Steps
  <2>2. /\ [run[w] EXCEPT !.at = "expire"] \in Calls
        /\ [run[w] EXCEPT !.at = "cancel"] \in Calls
    BY <1>1, <2>1
  <2> QED
    BY <1>3, <2>2 DEF Release, Expire
<1>4. CASE Write(w) \/ Cancel(w)
  BY <1>4 DEF Write, Cancel
<1> QED
  BY <1>2, <1>3, <1>4

(* What is written to an invoice is a row. *)
LEMMA RowsType ==
    ASSUME MpTypeOK, CallsFit, NEW w \in Procs, Handle(w) \/ Throws(w)
    PROVE  invoice' \in [Invoices -> Rows]
<1>1. invoice \in [Invoices -> Rows] /\ run[w] \in Calls
  BY DEF MpTypeOK
<1>2. CASE Create(w)
  BY <1>1, <1>2 DEF Create
<1>3. CASE Claim(w)
  <2>1. run[w].inv \in Invoices /\ run[w].pay \in Payments
    BY <1>3 DEF Claim, At, CallsFit, CallFits
  <2>2. [status |-> MapStatus(run[w].got), pay |-> run[w].pay] \in Rows
    BY <2>1 DEF MapStatus
  <2> QED
    BY <1>1, <1>3, <2>1, <2>2 DEF Claim
<1>4. CASE Write(w)
  <2>1. run[w].inv \in Invoices /\ run[w].pay \in Payments
    BY <1>4 DEF Write, At, CallsFit, CallFits
  <2>2. \A st \in {"PAID", "CANCELED", "OPEN"} : [status |-> st, pay |-> run[w].pay] \in Rows
    BY <2>1
  <2>3. \E st \in {"PAID", "CANCELED", "OPEN"} :
           invoice' = [invoice EXCEPT ![run[w].inv] = [status |-> st, pay |-> run[w].pay]]
    BY <1>4 DEF Write, MapStatus
  <2> QED
    BY <1>1, <2>1, <2>2, <2>3
<1>5. CASE Cancel(w)
  <2>1. run[w].inv \in Invoices
    BY <1>5 DEF Cancel, At, CallsFit, CallFits
  <2> QED
    BY <1>1, <1>5, <2>1 DEF Cancel
<1>6. CASE invoice' = invoice
  BY <1>1, <1>6
<1> QED
  BY <1>2, <1>3, <1>4, <1>5, <1>6
     DEF Handle, Throws, FindInvoice, Adopt, ReadCompany, CountDebts, CountCycle, Search, Release,
         Expire

(* What a handler leaves of payments, links, company and coupon.             *)
LEMMA RestType ==
    ASSUME MpTypeOK, CallsFit, NEW w \in Procs, Handle(w) \/ Throws(w)
    PROVE  /\ remote' \in [Payments -> States]
           /\ tries' = tries
           /\ link' \subseteq Invoices
           /\ company' \in {"none", "payment", "person"}
           /\ cycles' \in 0..Cycles
<1>1. /\ remote \in [Payments -> States] /\ link \subseteq Invoices
      /\ company \in {"none", "payment", "person"} /\ cycles \in 0..Cycles /\ Cycles \in Nat
  BY MercadoPagoAssumption DEF MpTypeOK
<1>2. CASE FindInvoice(w) \/ Adopt(w) \/ Create(w) \/ ReadCompany(w) \/ CountDebts(w) \/ Search(w)
           \/ Write(w) \/ Cancel(w) \/ Throws(w)
  BY <1>1, <1>2 DEF FindInvoice, Adopt, Create, ReadCompany, CountDebts, Search, Write, Cancel, Throws
<1>3. CASE Claim(w)
  BY <1>1, <1>3 DEF Claim
<1>4. CASE CountCycle(w)
  BY <1>1, <1>4 DEF CountCycle
<1>5. CASE Release(w) \/ Expire(w)
  BY <1>1, <1>5 DEF Release, Expire
<1> QED
  BY <1>2, <1>3, <1>4, <1>5 DEF Handle

(* A call begins with a payment or with an invoice. *)
LEMMA BeginsType ==
    ASSUME MpTypeOK
    PROVE  /\ \A w \in Procs, p \in Payments : Notice(w, p) => \E to \in Calls : Goes(w, to)
           /\ \A w \in Procs, i \in Invoices, by \in {"routine", "sync", "remove"} :
                 Begins(w, i, by) => \E to \in Calls : Goes(w, to)
<1>1. ASSUME NEW w \in Procs, NEW p \in Payments, Notice(w, p)
      PROVE  [Idle EXCEPT !.at = "find", !.pay = p, !.got = remote[p]] \in Calls
  BY DEF MpTypeOK, Calls
<1>2. ASSUME NEW i \in Invoices, NEW by \in {"routine", "sync", "remove"}
      PROVE  [Idle EXCEPT !.at = "search", !.by = by, !.inv = i, !.seen = invoice[i]] \in Calls
  BY DEF MpTypeOK, Calls
<1> QED
  BY <1>1, <1>2 DEF Notice, Begins

(* Every step keeps the types. *)
LEMMA TypeStep == MpTypeOK /\ CallsFit /\ [MpNext]_mpVars => MpTypeOK'
<1> SUFFICES ASSUME MpTypeOK, CallsFit, [MpNext]_mpVars PROVE MpTypeOK'
  OBVIOUS
<1>1. ASSUME NEW p \in Payments, Pays(p) PROVE MpTypeOK'
  <2>1. remote' \in [Payments -> States]
    BY <1>1 DEF Pays, MpTypeOK
  <2>2. tries' \in [Invoices -> Seq(Payments)]
    BY <1>1 DEF Pays, MpTypeOK
  <2> QED
    BY <1>1, <2>1, <2>2 DEF Pays, MpTypeOK
<1>2. ASSUME NEW p \in Payments, Settles(p) PROVE MpTypeOK'
  <2>1. remote' \in [Payments -> States]
    BY <1>2 DEF Settles, MpTypeOK
  <2> QED
    BY <1>2, <2>1 DEF Settles, MpTypeOK
<1>3. ASSUME NEW w \in Procs, Handle(w) \/ Throws(w) PROVE MpTypeOK'
  <2>1. \E to \in Calls : Goes(w, to)
    BY <1>3, ApplyGoes, ButtonGoes DEF Handle
  <2>2. run' \in [Procs -> Calls]
    BY <2>1, GoesType
  <2> QED
    BY <1>3, <2>2, RowsType, RestType DEF MpTypeOK
<1>4. ASSUME NEW w \in Procs, NEW to \in Calls, Goes(w, to),
             UNCHANGED <<remote, tries, link, invoice, company, cycles>>
      PROVE  MpTypeOK'
  <2>1. run' \in [Procs -> Calls]
    BY <1>4, GoesType
  <2> QED
    BY <1>4, <2>1 DEF MpTypeOK
<1>5. ASSUME NEW w \in Procs, NEW p \in Payments, Notice(w, p) PROVE MpTypeOK'
  BY <1>4, <1>5, BeginsType DEF Notice
<1>6. ASSUME NEW i \in Invoices, NEW w \in Procs,
             NEW by \in {"routine", "sync", "remove"}, Begins(w, i, by)
      PROVE  MpTypeOK'
  BY <1>4, <1>6, BeginsType DEF Begins
<1>7. CASE UNCHANGED mpVars
  BY <1>7 DEF mpVars, MpTypeOK
<1> QED
  BY <1>1, <1>2, <1>3, <1>5, <1>6, <1>7 DEF MpNext, List, PressSync, PressRemove, Procs

-----------------------------------------------------------------------------
(* What calls carry. *)

(* A chargeback is final at Mercado Pago. *)
LEMMA DisputedStays ==
    ASSUME MpTypeOK, [MpNext]_mpVars, NEW p \in Payments, remote[p] = "charged_back"
    PROVE  remote'[p] = "charged_back"
<1>1. ASSUME NEW q \in Payments, Pays(q) \/ Settles(q) PROVE remote'[p] = remote[p]
  BY <1>1 DEF Pays, Settles, MpTypeOK
<1>2. ASSUME NEW w \in Procs, Handle(w) \/ Throws(w) PROVE remote'[p] = remote[p]
  <2>1. CASE Release(w)
    BY <2>1 DEF Release, MpTypeOK
  <2>2. CASE ~Release(w)
    BY <1>2, <2>2 DEF Handle, Throws, FindInvoice, Adopt, Create, ReadCompany, CountDebts, Claim,
       CountCycle, Search, Write, Expire, Cancel
  <2> QED
    BY <2>1, <2>2
<1> QED
  BY <1>1, <1>2 DEF MpNext, Notice, List, PressSync, PressRemove, Begins, mpVars

(* A call that nobody touches stays fitting, and so does one that was ready.  *)
LEMMA FitsLater ==
    ASSUME MpTypeOK, [MpNext]_mpVars, NEW w \in Procs, NEW to, CallFits(w, to), run'[w] = to
    PROVE  CallFits(w, run[w])'
BY DisputedStays DEF CallFits

(* What apply() goes on with, for a payment that may be the invoice's.       *)
LEMMA AppliedFits ==
    ASSUME NEW w \in Procs \ Staff, NEW r \in Calls, r.by \in {"notice", "routine"},
           r.pay \in Payments, r.got = "charged_back" => remote[r.pay] = "charged_back",
           NEW i \in Invoices, MayPay(r.pay, i), NEW row
    PROVE  CallFits(w, Applied(r, i, row))
<1> DEFINE status == MapStatus(r.got)
           at == IF status = "PAID" THEN "company" ELSE "claim"
           change == IF status = "CANCELED" THEN "block" ELSE "same"
           to == [r EXCEPT !.inv = i, !.seen = row, !.at = at, !.change = change]
<1>1. Applied(r, i, row) \in {Idle, to}
  BY DEF Applied
<1>2. CallFits(w, Idle)
  BY DEF CallFits
<1>3. /\ to.at = at /\ to.inv = i /\ to.pay = r.pay /\ to.got = r.got /\ to.by = r.by
  BY DEF Calls
<1>4. CallFits(w, to)
  <2> HIDE DEF to
  <2> QED
    BY <1>3 DEF CallFits
<1> QED
  BY <1>1, <1>2, <1>4

(* The steps of the webhook and of apply() go on with what fits.             *)
LEMMA ApplyFits ==
    ASSUME MpTypeOK, CallsFit, PaymentsFit, NEW w \in Procs,
           \/ FindInvoice(w) \/ Adopt(w) \/ Create(w) \/ ReadCompany(w) \/ CountDebts(w)
           \/ Claim(w) \/ CountCycle(w) \/ Throws(w)
    PROVE  CallFits(w, run'[w])
<1> DEFINE r == run[w]
<1>1. r \in Calls /\ CallFits(w, r) /\ w \in DOMAIN run
  BY DEF MpTypeOK, CallsFit
<1>2. CallFits(w, Idle)
  BY DEF CallFits
<1>3. ASSUME r.at \in {"find", "adopt", "create"}, NEW i \in Invoices, MayPay(r.pay, i), NEW row
      PROVE  CallFits(w, Applied(r, i, row))
  <2>1. /\ w \in Procs \ Staff /\ r.by \in {"notice", "routine"} /\ r.pay \in Payments
        /\ r.got = "charged_back" => remote[r.pay] = "charged_back"
    BY <1>1, <1>3 DEF CallFits
  <2> QED
    BY <1>1, <1>3, <2>1, AppliedFits
<1>4. CASE FindInvoice(w)
  <2>1. r.at = "find" /\ r.pay \in Payments
    BY <1>1, <1>4 DEF FindInvoice, At, CallFits
  <2>2. ASSUME NEW i \in Invoices, invoice[i].pay = r.pay PROVE MayPay(r.pay, i)
    BY <2>1, <2>2, MercadoPagoAssumption DEF PaymentsFit
  <2>3. InvoiceOf[r.pay] # None => InvoiceOf[r.pay] \in Invoices /\ MayPay(r.pay, InvoiceOf[r.pay])
    BY <2>1, MercadoPagoAssumption DEF MayPay
  <2>4. CASE run'[w] = [r EXCEPT !.at = "adopt"] /\ InvoiceOf[r.pay] = None
    BY <1>1, <2>1, <2>4 DEF CallFits, Calls
  <2>5. CASE \E i \in Invoices : run'[w] = Applied(r, i, invoice[i]) /\ MayPay(r.pay, i)
    BY <1>3, <2>1, <2>5
  <2> QED
    BY <1>1, <1>2, <1>4, <2>1, <2>2, <2>3, <2>4, <2>5 DEF FindInvoice, Goes
<1>5. CASE Adopt(w)
  <2>1. r.at = "adopt" /\ InvoiceOf[r.pay] = None /\ r.pay \in Payments
    BY <1>1, <1>5 DEF Adopt, At, CallFits
  <2>2. CASE run'[w] = [r EXCEPT !.at = "create"]
    BY <1>1, <2>1, <2>2 DEF CallFits, Calls
  <2>3. CASE \E i \in Invoices : run'[w] = Applied(r, i, invoice[i])
    BY <1>3, <2>1, <2>3 DEF MayPay
  <2> QED
    BY <1>1, <1>5, <2>2, <2>3 DEF Adopt, Goes
<1>6. CASE Create(w)
  <2>1. r.at = "create" /\ InvoiceOf[r.pay] = None
    BY <1>1, <1>6 DEF Create, At, CallFits
  <2>2. \E i \in Invoices, row \in {[NoRow EXCEPT !.status = "OPEN"]} : run'[w] = Applied(r, i, row)
    BY <1>1, <1>6 DEF Create, Goes
  <2> QED
    BY <1>3, <2>1, <2>2 DEF MayPay
<1>7. CASE ReadCompany(w) \/ CountDebts(w) \/ Claim(w)
  <2>1. r.at \in {"company", "debts", "claim"}
    BY <1>7 DEF ReadCompany, CountDebts, Claim, At
  <2>2. \/ run'[w] = Idle
        \/ \E at \in {"debts", "claim", "coupon"} : run'[w] = [r EXCEPT !.at = at]
        \/ \E c \in {"release", "same"} : run'[w] = [r EXCEPT !.at = "claim", !.change = c]
    <3>1. CASE ReadCompany(w)
      BY <1>1, <3>1 DEF ReadCompany, Goes
    <3>2. CASE CountDebts(w)
      BY <1>1, <3>2 DEF CountDebts, Goes
    <3>3. CASE Claim(w)
      BY <1>1, <3>3 DEF Claim, Goes
    <3> QED
      BY <1>7, <3>1, <3>2, <3>3
  <2>3. \/ run'[w] = Idle
        \/ /\ run'[w].at \in {"debts", "claim", "coupon"}
           /\ run'[w].inv = r.inv /\ run'[w].pay = r.pay /\ run'[w].got = r.got
           /\ run'[w].by = r.by /\ run'[w].seen = r.seen
    BY <1>1, <2>2 DEF Calls
  <2> QED
    BY <1>1, <1>2, <2>1, <2>3 DEF CallFits
<1>8. CASE CountCycle(w) \/ Throws(w)
  BY <1>1, <1>2, <1>8 DEF CountCycle, Throws, Goes
<1> QED
  BY <1>4, <1>5, <1>6, <1>7, <1>8

(* So do the steps of the routine and of the buttons. *)
LEMMA ButtonFits ==
    ASSUME MpTypeOK, CallsFit, PaymentsFit, NEW w \in Procs,
           Search(w) \/ Write(w) \/ Release(w) \/ Expire(w) \/ Cancel(w)
    PROVE  CallFits(w, run'[w])
<1> DEFINE r == run[w]
<1>1. r \in Calls /\ CallFits(w, r) /\ w \in DOMAIN run
  BY DEF MpTypeOK, CallsFit
<1>2. CallFits(w, Idle)
  BY DEF CallFits
<1>3. CASE Search(w)
  <2> DEFINE p == Found(r.inv, r.seen.pay)
             got == IF p = None THEN "none" ELSE remote[p]
             read == [r EXCEPT !.pay = p, !.got = got]
  <2>1. r.at = "search" /\ r.inv \in Invoices /\ r.seen \in Rows
    BY <1>1, <1>3 DEF Search, At, CallFits, Calls
  <2>2. p \in Payments \cup {None} /\ (p # None => MayPay(p, r.inv))
    <3>1. r.seen.pay \in Payments \cup {None}
      BY <2>1
    <3>2. \/ p = r.seen.pay
          \/ p \in Payments /\ \E n \in DOMAIN tries[r.inv] : p = tries[r.inv][n]
      BY <2>1, <3>1, FoundIsKnown
    <3>3. CASE p = r.seen.pay
      BY <1>1, <2>1, <3>1, <3>3 DEF CallFits
    <3>4. CASE p \in Payments /\ \E n \in DOMAIN tries[r.inv] : p = tries[r.inv][n]
      BY <2>1, <3>4 DEF PaymentsFit, MayPay
    <3> QED
      BY <3>2, <3>3, <3>4
  <2>3. /\ got \in States /\ (got = "charged_back" => remote[p] = "charged_back")
        /\ got # "none" => p # None
    BY <2>2 DEF MpTypeOK
  <2>4. /\ read \in Calls /\ read.pay = p /\ read.got = got /\ read.by = r.by
        /\ read.inv = r.inv /\ read.at = r.at /\ read.seen = r.seen
    <3> DEFINE named == [r EXCEPT !.pay = p]
    <3> HIDE DEF p, got
    <3>1. named \in Calls
      BY <1>1, <2>2 DEF Calls
    <3>2. [named EXCEPT !.got = got] \in Calls
      BY <2>3, <3>1 DEF Calls
    <3>3. read = [named EXCEPT !.got = got]
      OBVIOUS
    <3> QED
      BY <1>1, <3>2, <3>3 DEF Calls
  <2> HIDE DEF p, got, read
  <2>5. \/ run'[w] = Idle
        \/ r.by = "routine" /\ p # None /\ run'[w] = Applied(read, r.inv, r.seen)
        \/ r.by = "sync" /\ p # None /\ run'[w] = [read EXCEPT !.at = "write"]
        \/ r.by = "remove" /\ got # "none" /\ run'[w] = [read EXCEPT !.at = "release"]
        \/ r.by = "remove" /\ run'[w] = [read EXCEPT !.at = "expire"]
    BY <1>1, <1>3, <2>4 DEF Search, Goes, p, got, read
  <2>6. CASE r.by = "routine" /\ p # None /\ run'[w] = Applied(read, r.inv, r.seen)
    <3>1. w \in Procs \ Staff
      BY <1>1, <2>1, <2>6 DEF CallFits
    <3> QED
      BY <2>1, <2>2, <2>3, <2>4, <2>6, <3>1, AppliedFits
  <2>7. CASE \E at \in {"write", "release", "expire"} :
                /\ run'[w] = [read EXCEPT !.at = at] /\ r.by \in {"sync", "remove"}
                /\ at \in {"release", "expire"} => r.by = "remove"
                /\ at # "expire" => p # None
    <3>1. PICK at \in {"write", "release", "expire"} :
                /\ run'[w] = [read EXCEPT !.at = at] /\ r.by \in {"sync", "remove"}
                /\ at \in {"release", "expire"} => r.by = "remove"
                /\ at # "expire" => p # None
      BY <2>7
    <3>2. /\ run'[w].at = at /\ run'[w].pay = p /\ run'[w].got = got /\ run'[w].by = r.by
          /\ run'[w].inv = r.inv /\ run'[w].seen = r.seen
      BY <2>4, <3>1 DEF Calls
    <3>3. w \in Staff
      BY <1>1, <2>1, <3>1 DEF CallFits
    <3> QED
      BY <1>1, <2>1, <2>2, <2>3, <3>1, <3>2, <3>3 DEF CallFits
  <2> QED
    BY <1>2, <2>3, <2>5, <2>6, <2>7
<1>4. CASE Release(w) \/ Expire(w)
  <2>1. r.at \in {"release", "expire"}
    BY <1>4 DEF Release, Expire, At
  <2>2. run'[w] = Idle \/ \E at \in {"expire", "cancel"} : run'[w] = [r EXCEPT !.at = at]
    BY <1>1, <1>4 DEF Release, Expire, Goes
  <2>3. \/ run'[w] = Idle
        \/ /\ run'[w].at \in {"expire", "cancel"}
           /\ run'[w].inv = r.inv /\ run'[w].pay = r.pay /\ run'[w].got = r.got
           /\ run'[w].by = r.by /\ run'[w].seen = r.seen
    BY <1>1, <2>2 DEF Calls
  <2> QED
    BY <1>1, <1>2, <2>1, <2>3 DEF CallFits
<1>5. CASE Write(w) \/ Cancel(w)
  BY <1>1, <1>2, <1>5 DEF Write, Cancel, Goes
<1> QED
  BY <1>3, <1>4, <1>5

(* A call that begins fits. *)
LEMMA BeginFits ==
    ASSUME MpTypeOK, PaymentsFit
    PROVE  /\ \A w \in Notices, p \in Payments : Notice(w, p) => CallFits(w, run'[w])
           /\ \A i \in Invoices : List(i) => CallFits(Cron, run'[Cron])
           /\ \A w \in Staff, i \in Invoices :
                 PressSync(w, i) \/ PressRemove(w, i) => CallFits(w, run'[w])
<1>1. DOMAIN run = Procs /\ Cron \notin Staff /\ Notices \cap Staff = {}
  BY MercadoPagoAssumption DEF MpTypeOK
<1>2. ASSUME NEW w \in Notices, NEW p \in Payments, Notice(w, p) PROVE CallFits(w, run'[w])
  BY <1>1, <1>2 DEF Notice, Goes, CallFits, Procs
<1>3. ASSUME NEW w \in Procs, NEW i \in Invoices, NEW by \in {"routine", "sync", "remove"},
             Begins(w, i, by), by = "routine" <=> w \notin Staff, by = "remove" => Listed(i)
      PROVE  CallFits(w, run'[w])
  <2>1. /\ run'[w].at = "search" /\ run'[w].by = by /\ run'[w].inv = i /\ run'[w].pay = None
        /\ run'[w].got = "none" /\ run'[w].seen = invoice[i]
    <3>1. run'[w] = [Idle EXCEPT !.at = "search", !.by = by, !.inv = i, !.seen = invoice[i]]
      BY <1>1, <1>3 DEF Begins, Goes
    <3> QED
      BY <3>1
  <2>2. invoice[i].pay # None => MayPay(invoice[i].pay, i)
    BY DEF PaymentsFit
  <2> QED
    BY <1>3, <2>1, <2>2 DEF CallFits, Listed
<1>4. Cron \in Procs /\ Staff \subseteq Procs
  BY DEF Procs
<1> QED
  BY <1>1, <1>2, <1>3, <1>4 DEF List, PressSync, PressRemove

(* Who acts, and what becomes of the others: one call at a time moves. *)
LEMMA CallsFitStep ==
    ASSUME MpTypeOK, CallsFit, PaymentsFit, [MpNext]_mpVars
    PROVE  CallsFit'
<1> SUFFICES ASSUME NEW w \in Procs PROVE CallFits(w, run[w])'
  BY DEF CallsFit
<1>1. DOMAIN run = Procs /\ CallFits(w, run[w])
  BY DEF MpTypeOK, CallsFit
<1>2. CASE run'[w] = run[w]
  BY <1>1, <1>2, FitsLater
<1>3. CASE CallFits(w, run'[w])
  BY <1>3, FitsLater
<1>4. ASSUME NEW v \in Procs, NEW to, Goes(v, to), v # w PROVE run'[w] = run[w]
  BY <1>1, <1>4 DEF Goes
<1>5. ASSUME NEW v \in Procs, Handle(v) \/ Throws(v) PROVE CallFits(w, run[w])'
  <2>1. CASE v = w
    BY <1>3, <1>5, <2>1, ApplyFits, ButtonFits DEF Handle
  <2>2. CASE v # w
    BY <1>2, <1>4, <1>5, <2>2, ApplyGoes, ButtonGoes DEF Handle
  <2> QED
    BY <2>1, <2>2
<1>6. ASSUME NEW p \in Payments, NEW v \in Notices, Notice(v, p) PROVE CallFits(w, run[w])'
  <2>1. CASE v = w
    BY <1>3, <1>6, <2>1, BeginFits
  <2>2. CASE v # w
    BY <1>2, <1>4, <1>6, <2>2 DEF Notice, Procs
  <2> QED
    BY <2>1, <2>2
<1>7. ASSUME NEW i \in Invoices,
             List(i) \/ \E v \in Staff : PressSync(v, i) \/ PressRemove(v, i)
      PROVE  CallFits(w, run[w])'
  <2>1. CASE List(i) /\ w = Cron
    BY <1>3, <2>1, BeginFits
  <2>2. CASE List(i) /\ w # Cron
    BY <1>2, <1>4, <2>2 DEF List, Begins, Procs
  <2>3. ASSUME NEW v \in Staff, PressSync(v, i) \/ PressRemove(v, i)
        PROVE  CallFits(w, run[w])'
    <3>1. CASE v = w
      BY <1>3, <2>3, <3>1, BeginFits
    <3>2. CASE v # w
      BY <1>2, <1>4, <2>3, <3>2 DEF PressSync, PressRemove, Begins, Procs
    <3> QED
      BY <3>1, <3>2
  <2> QED
    BY <1>7, <2>1, <2>2, <2>3
<1>8. CASE run' = run
  BY <1>2, <1>8
<1> QED
  BY <1>5, <1>6, <1>7, <1>8 DEF MpNext, Pays, Settles, mpVars

(* An attempt is listed under its own invoice, and what an invoice records   *)
(* may pay it.                                                               *)
LEMMA PaymentsFitStep ==
    ASSUME MpTypeOK, CallsFit, PaymentsFit, [MpNext]_mpVars
    PROVE  PaymentsFit'
<1>1. ASSUME NEW p \in Payments, Pays(p) PROVE PaymentsFit'
  <2>1. invoice' = invoice
    BY <1>1 DEF Pays
  <2>2. ASSUME NEW q \in Payments, remote'[q] = "charged_back" PROVE "charged_back" \in May[q]
    BY <1>1, <2>2 DEF Pays, PaymentsFit, MpTypeOK
  <2>3. ASSUME NEW i \in Invoices, NEW n \in DOMAIN tries'[i]
        PROVE  InvoiceOf[tries'[i][n]] = i
    <3>1. tries[i] \in Seq(Payments)
      BY DEF MpTypeOK
    <3>2. CASE tries'[i] = tries[i]
      BY <2>3, <3>2 DEF PaymentsFit
    <3>3. CASE InvoiceOf[p] = i /\ tries'[i] = Append(tries[i], p)
      <4>1. n \in 1..(Len(tries[i]) + 1)
        BY <2>3, <3>1, <3>3
      <4>2. tries'[i][n] = p \/ (n \in DOMAIN tries[i] /\ tries'[i][n] = tries[i][n])
        BY <3>1, <3>3, <4>1
      <4> QED
        BY <3>3, <4>2 DEF PaymentsFit
    <3> QED
      BY <1>1, <3>2, <3>3 DEF Pays, MpTypeOK
  <2> QED
    BY <2>1, <2>2, <2>3 DEF PaymentsFit
<1>2. ASSUME NEW p \in Payments, Settles(p) PROVE PaymentsFit'
  <2>1. invoice' = invoice /\ tries' = tries
    BY <1>2 DEF Settles
  <2>2. ASSUME NEW q \in Payments, remote'[q] = "charged_back" PROVE "charged_back" \in May[q]
    BY <1>2, <2>2 DEF Settles, PaymentsFit, MpTypeOK
  <2> QED
    BY <2>1, <2>2 DEF PaymentsFit
<1>3. ASSUME NEW w \in Procs, Handle(w) \/ Throws(w) PROVE PaymentsFit'
  <2>1. tries' = tries
    BY <1>3, RestType
  <2>2. ASSUME NEW q \in Payments, remote'[q] = "charged_back" PROVE "charged_back" \in May[q]
    <3>1. remote' = remote \/ remote' = [remote EXCEPT ![run[w].pay] = "rejected"]
      BY <1>3 DEF Handle, Throws, FindInvoice, Adopt, Create, ReadCompany, CountDebts, Claim,
         CountCycle, Search, Write, Release, Expire, Cancel
    <3> QED
      BY <2>2, <3>1 DEF PaymentsFit, MpTypeOK
  <2>3. ASSUME NEW i \in Invoices
        PROVE  \/ invoice'[i].pay \in {invoice[i].pay, None}
               \/ run[w].inv = i /\ run[w].pay \in Payments /\ invoice'[i].pay = run[w].pay
    <3>1. run[w] \in Calls /\ CallFits(w, run[w]) /\ DOMAIN invoice = Invoices /\ invoice[i] \in Rows
      BY DEF MpTypeOK, CallsFit
    <3>2. CASE Create(w)
      BY <3>1, <3>2 DEF Create
    <3>3. CASE Claim(w)
      BY <3>1, <3>3 DEF Claim, At, CallFits
    <3>4. CASE Write(w)
      BY <3>1, <3>4 DEF Write, At, CallFits
    <3>5. CASE Cancel(w)
      BY <3>1, <3>5 DEF Cancel
    <3>6. CASE invoice' = invoice
      BY <3>6
    <3> QED
      BY <1>3, <3>2, <3>3, <3>4, <3>5, <3>6
         DEF Handle, Throws, FindInvoice, Adopt, ReadCompany, CountDebts, CountCycle, Search,
             Release, Expire
  <2>4. ASSUME NEW i \in Invoices, invoice'[i].pay # None PROVE MayPay(invoice'[i].pay, i)
    <3>1. CallFits(w, run[w]) /\ None \notin Invoices \cup Payments
      BY MercadoPagoAssumption DEF CallsFit
    <3> QED
      BY <2>3, <2>4, <3>1 DEF PaymentsFit, CallFits
  <2> QED
    BY <2>1, <2>2, <2>4 DEF PaymentsFit, MayPay
<1>4. CASE UNCHANGED <<remote, tries, invoice>>
  BY <1>4 DEF PaymentsFit
<1> QED
  BY <1>1, <1>2, <1>3, <1>4 DEF MpNext, Notice, List, PressSync, PressRemove, Begins, mpVars

Fitting == MpTypeOK /\ CallsFit /\ PaymentsFit

(* No call has begun at first and nothing is recorded. *)
LEMMA FittingInit == MpInit => Fitting
<1> SUFFICES ASSUME MpInit PROVE Fitting
  OBVIOUS
<1>1. MpTypeOK
  BY TypeInit
<1>2. CallsFit
  BY DEF MpInit, CallsFit, CallFits
<1>3. \A i \in Invoices : invoice[i].pay = None
  BY DEF MpInit
<1>4. PaymentsFit
  BY <1>3 DEF MpInit, PaymentsFit
<1> QED
  BY <1>1, <1>2, <1>4 DEF Fitting

(* Every step keeps calls, payments and invoices fitting. *)
LEMMA FittingStep == Fitting /\ [MpNext]_mpVars => Fitting'
BY TypeStep, CallsFitStep, PaymentsFitStep DEF Fitting

(* Payments, invoices and calls in progress stay in their types, whoever     *)
(* notifies, searches, synchronises and removes at the same time             *)
(* (mercadopago-payment-sync.service.ts:27).                                 *)
THEOREM MpTypeCorrect == MpSpec => []MpTypeOK
<1>1. Fitting => MpTypeOK
  BY DEF Fitting
<1> QED
  BY <1>1, FittingInit, FittingStep, PTL DEF MpSpec

-----------------------------------------------------------------------------
(* Paid invoices. *)

(* A person at a button is alone with the invoices as they were read.        *)
StaffAlone ==
    \A w \in Staff : run[w] # Idle =>
        /\ \A v \in Procs \ {w} : run[v] = Idle
        /\ run[w].seen = invoice[run[w].inv]

(* Invoices that are paid and whose call has not counted the cycle yet. *)
Paid == {i \in Invoices : invoice[i].status = "PAID"}
Counting == {w \in Procs : run[w].at = "coupon"}
NoneDisputed == \A p \in Payments : remote[p] # "charged_back"

CyclesFit == NoneDisputed => (Cycles - cycles) + Cardinality(Counting) <= Cardinality(Paid)

MpInv == Fitting /\ StaffAlone

(* A handler that moves was at work before. *)
LEMMA AtWork ==
    ASSUME NEW w \in Procs, Handle(w) \/ Throws(w)
    PROVE  run[w] # Idle
<1>1. CASE Handle(w)
  <2>1. \E step \in Steps \ {"idle"} : At(w, step)
    <3>1. CASE FindInvoice(w) \/ Adopt(w) \/ Create(w) \/ ReadCompany(w) \/ CountDebts(w) \/ Claim(w)
      BY <3>1 DEF FindInvoice, Adopt, Create, ReadCompany, CountDebts, Claim, Steps
    <3>2. CASE CountCycle(w) \/ Search(w) \/ Write(w) \/ Release(w) \/ Expire(w) \/ Cancel(w)
      BY <3>2 DEF CountCycle, Search, Write, Release, Expire, Cancel, Steps
    <3> QED
      BY <1>1, <3>1, <3>2 DEF Handle
  <2>2. run[w].at # "idle"
    BY <2>1 DEF At
  <2> QED
    BY <2>2
<1>2. CASE Throws(w)
  BY <1>2 DEF Throws
<1> QED
  BY <1>1, <1>2

(* While people do not act beside the others, whoever presses a button is    *)
(* alone until the press is done.                                            *)
LEMMA StaffAloneStep ==
    ASSUME ~Beside, Fitting, StaffAlone, [MpNext]_mpVars
    PROVE  StaffAlone'
<1> SUFFICES ASSUME NEW s \in Staff, run'[s] # Idle
             PROVE  /\ \A v \in Procs \ {s} : run'[v] = Idle
                    /\ run'[s].seen = invoice'[run'[s].inv]
  BY DEF StaffAlone
<1>1. /\ DOMAIN run = Procs /\ s \in Procs /\ Staff \subseteq Procs
      /\ Cron \notin Staff /\ Notices \cap Staff = {}
  BY MercadoPagoAssumption DEF Fitting, MpTypeOK, Procs
<1>2. CASE UNCHANGED <<run, invoice>>
  BY <1>2 DEF StaffAlone
<1>3. ASSUME NEW w \in Procs, Handle(w) \/ Throws(w)
      PROVE  /\ \A v \in Procs \ {s} : run'[v] = Idle
             /\ run'[s].seen = invoice'[run'[s].inv]
  <2>1. run[w] # Idle /\ \A v \in Procs \ {w} : run'[v] = run[v]
    BY <1>1, <1>3, AtWork, ApplyGoes, ButtonGoes DEF Handle, Goes, Fitting
  <2>2. CASE w # s
    BY <1>1, <2>1, <2>2 DEF StaffAlone
  <2>3. CASE w = s
    <3>1. /\ \A v \in Procs \ {s} : run[v] = Idle
          /\ run[s].seen = invoice[run[s].inv]
      BY <2>1, <2>3 DEF StaffAlone
    <3>2. CallFits(s, run[s]) /\ run[s] \in Calls
      BY <1>1 DEF Fitting, CallsFit, MpTypeOK
    <3>3. Search(s) \/ Release(s) \/ Expire(s)
      BY <1>1, <1>3, <2>1, <2>3, <3>2
         DEF CallFits, Handle, Throws, FindInvoice, Adopt, Create, ReadCompany, CountDebts, Claim,
             CountCycle, Write, Cancel, At, Goes
    <3>4. invoice' = invoice
      BY <3>3 DEF Search, Release, Expire
    <3>5. run'[s].seen = run[s].seen /\ run'[s].inv = run[s].inv
      <4>1. CASE Search(s)
        <5>1. run[s].by \in {"sync", "remove"}
          BY <3>2, <4>1 DEF Search, At, CallFits
        <5> DEFINE p == Found(run[s].inv, run[s].seen.pay)
                   got == IF p = None THEN "none" ELSE remote[p]
                   read == [run[s] EXCEPT !.pay = p, !.got = got]
        <5>2. \E at \in {"write", "release", "expire"} : run'[s] = [read EXCEPT !.at = at]
          BY <1>1, <4>1, <5>1 DEF Search, Goes
        <5>3. read.seen = run[s].seen /\ read.inv = run[s].inv /\ DOMAIN read = DOMAIN run[s]
          BY <3>2 DEF Calls
        <5> HIDE DEF read
        <5> QED
          BY <3>2, <5>2, <5>3 DEF Calls
      <4>2. CASE Release(s) \/ Expire(s)
        BY <1>1, <3>2, <4>2 DEF Release, Expire, Goes, Calls
      <4> QED
        BY <3>3, <4>1, <4>2
    <3> QED
      BY <2>1, <2>3, <3>1, <3>4, <3>5
  <2> QED
    BY <2>2, <2>3
<1>4. ASSUME NEW w \in Procs \ Staff, NEW to, MayBegin(w), Goes(w, to) PROVE FALSE
  BY <1>1, <1>4 DEF MayBegin, Resting, Goes
<1>5. ASSUME NEW w \in Staff, NEW i \in Invoices, NEW by, Begins(w, i, by)
      PROVE  /\ \A v \in Procs \ {s} : run'[v] = Idle
             /\ run'[s].seen = invoice'[run'[s].inv]
  BY <1>1, <1>5 DEF Begins, MayBegin, Resting, Goes
<1> QED
  BY <1>1, <1>2, <1>3, <1>4, <1>5
     DEF MpNext, Pays, Settles, Notice, List, Begins, PressSync, PressRemove, mpVars, Procs

(* A paid invoice is only taken back by a chargeback of a payment that may   *)
(* be its own.                                                               *)
LEMMA PaidMoves ==
    ASSUME MpInv, [MpNext]_mpVars, NEW i \in Invoices,
           invoice[i].status = "PAID", invoice'[i].status # "PAID"
    PROVE  /\ invoice'[i].status = "CANCELED"
           /\ \E p \in Payments : /\ remote[p] = "charged_back"
                                  /\ InvoiceOf[p] = i \/ invoice[i].pay = p \/ InvoiceOf[p] = None
<1>1. PICK w \in Procs : Create(w) \/ Claim(w) \/ Write(w) \/ Cancel(w)
  BY DEF MpNext, Pays, Settles, Notice, List, PressSync, PressRemove, Begins, mpVars, Handle, Throws,
         FindInvoice, Adopt, ReadCompany, CountDebts, CountCycle, Search, Release, Expire
<1> DEFINE r == run[w]
<1>2. /\ r \in Calls /\ CallFits(w, r) /\ DOMAIN invoice = Invoices /\ invoice[i] \in Rows
      /\ None \notin Invoices \cup Payments
  BY MercadoPagoAssumption DEF MpInv, Fitting, MpTypeOK, CallsFit
<1>3. CASE Create(w)
  BY <1>2, <1>3 DEF Create
<1>4. CASE Claim(w)
  <2>1. r.inv = i /\ Wins(w, MapStatus(r.got)) /\ invoice'[i].status = MapStatus(r.got)
    BY <1>2, <1>4 DEF Claim
  <2>2. MapStatus(r.got) = "CANCELED" /\ r.got = "charged_back"
    BY <2>1 DEF Wins, MapStatus
  <2> QED
    BY <1>2, <2>1, <2>2 DEF CallFits, MayPay
<1>5. CASE Write(w)
  <2>1. w \in Staff /\ r # Idle
    BY <1>2, <1>5 DEF Write, At, CallFits
  <2>2. r.inv = i
    BY <1>2, <1>5 DEF Write
  <2>3. r.seen = invoice[i]
    BY <2>1, <2>2 DEF MpInv, StaffAlone
  <2>4. MapStatus(r.got) = "CANCELED" /\ invoice'[i].status = "CANCELED"
    BY <1>2, <1>5, <2>2, <2>3 DEF Write, MapStatus
  <2>5. r.got = "charged_back"
    BY <2>4 DEF MapStatus
  <2> QED
    BY <1>2, <2>2, <2>4, <2>5 DEF CallFits, MayPay
<1>6. CASE Cancel(w)
  <2>1. w \in Staff /\ r # Idle /\ r.seen.status \in {"OPEN", "OVERDUE"}
    BY <1>2, <1>6 DEF Cancel, At, CallFits
  <2>2. r.inv = i
    BY <1>2, <1>6 DEF Cancel
  <2> QED
    BY <2>1, <2>2 DEF MpInv, StaffAlone
<1> QED
  BY <1>1, <1>3, <1>4, <1>5, <1>6

(* Nobody is at a button at first. *)
LEMMA MpInvInit == MpInit => MpInv
BY FittingInit, MercadoPagoAssumption DEF MpInit, MpInv, StaffAlone, Procs

(* Every step keeps the invariant while nobody presses a button beside. *)
LEMMA MpInvStep == ASSUME ~Beside PROVE MpInv /\ [MpNext]_mpVars => MpInv'
BY FittingStep, StaffAloneStep DEF MpInv

(* Only a chargeback of one of its own payments takes a paid invoice back:   *)
(* an old notice, a search that took long or a second attempt that failed    *)
(* does not (mercadopago-payment-sync.service.ts:34), as long as people do   *)
(* not press buttons meanwhile and no charge of a subscription is disputed.  *)
THEOREM PaidInvoiceStaysPaid ==
    ASSUME ~Beside, SubscriptionsStand PROVE MpSpec => PaidStaysPaid
<1>1. MpInv /\ [MpNext]_mpVars =>
        [\A i \in Invoices : invoice[i].status = "PAID" =>
           \/ invoice'[i].status = "PAID"
           \/ invoice'[i].status = "CANCELED" /\ \E p \in PaymentsOf(i) : remote[p] = "charged_back"
        ]_mpVars
  <2> SUFFICES ASSUME MpInv, [MpNext]_mpVars, NEW i \in Invoices,
                      invoice[i].status = "PAID", invoice'[i].status # "PAID"
               PROVE  /\ invoice'[i].status = "CANCELED"
                      /\ \E p \in PaymentsOf(i) : remote[p] = "charged_back"
    OBVIOUS
  <2>1. PICK p \in Payments : /\ remote[p] = "charged_back"
                              /\ InvoiceOf[p] = i \/ invoice[i].pay = p \/ InvoiceOf[p] = None
    BY PaidMoves
  <2>2. PaymentsFit
    BY DEF MpInv, Fitting
  <2>3. "charged_back" \in May[p]
    BY <2>1, <2>2 DEF PaymentsFit
  <2>4. InvoiceOf[p] # None
    BY <2>3 DEF SubscriptionsStand
  <2>5. p \in PaymentsOf(i)
    BY <2>1, <2>4 DEF PaymentsOf
  <2>6. \E q \in PaymentsOf(i) : remote[q] = "charged_back"
    BY <2>1, <2>5
  <2>7. invoice'[i].status = "CANCELED"
    BY PaidMoves
  <2> QED
    BY <2>6, <2>7
<1> QED
  BY <1>1, MpInvInit, MpInvStep, PTL DEF MpSpec, PaidStaysPaid

-----------------------------------------------------------------------------
(* Counted cycles. *)

(* Only the call that paid an invoice goes on to count it; what else a call  *)
(* goes on with leaves the count to those who have it already.               *)
LEMMA CountingMoves ==
    ASSUME MpInv, [MpNext]_mpVars, ~(\E v \in Procs : Claim(v))
    PROVE  Counting' \subseteq Counting
<1> SUFFICES ASSUME NEW w \in Procs, run'[w].at = "coupon" PROVE run[w].at = "coupon"
  BY DEF Counting
<1>1. DOMAIN run = Procs /\ run[w] \in Calls /\ Staff \subseteq Procs /\ Cron \in Procs
  BY DEF MpInv, Fitting, MpTypeOK, Procs
<1>2. ASSUME NEW v \in Procs, NEW to, Goes(v, to), to.at # "coupon" PROVE run[w].at = "coupon"
  BY <1>1, <1>2 DEF Goes
<1>3. ASSUME NEW v \in Procs, NEW r \in Calls, NEW i, NEW row, Goes(v, Applied(r, i, row))
      PROVE  run[w].at = "coupon"
  <2>1. Applied(r, i, row).at # "coupon"
    BY DEF Applied, Calls
  <2> QED
    BY <1>2, <1>3, <2>1
<1>4. ASSUME NEW v \in Procs, Handle(v) \/ Throws(v) PROVE run[w].at = "coupon"
  <2>1. run[v] \in Calls
    BY DEF MpInv, Fitting, MpTypeOK
  <2>2. CASE FindInvoice(v) \/ Adopt(v) \/ Create(v)
    <3>1. \/ Goes(v, Idle) \/ Goes(v, [run[v] EXCEPT !.at = "adopt"])
          \/ Goes(v, [run[v] EXCEPT !.at = "create"])
          \/ \E i, row : Goes(v, Applied(run[v], i, row))
      BY <2>2 DEF FindInvoice, Adopt, Create
    <3>2. /\ Idle.at # "coupon" /\ [run[v] EXCEPT !.at = "adopt"].at # "coupon"
          /\ [run[v] EXCEPT !.at = "create"].at # "coupon"
      BY <2>1 DEF Calls
    <3> HIDE DEF Idle
    <3>3. CASE \E i, row : Goes(v, Applied(run[v], i, row))
      BY <1>3, <2>1, <3>3
    <3> QED
      BY <1>2, <3>1, <3>2, <3>3
  <2>3. CASE ReadCompany(v) \/ CountDebts(v) \/ Release(v) \/ Expire(v)
    <3>1. \A at \in {"claim", "debts", "expire", "cancel"}, c \in {"same", "release"} :
            /\ [run[v] EXCEPT !.at = at].at # "coupon"
            /\ [run[v] EXCEPT !.at = at, !.change = c].at # "coupon"
      BY <2>1 DEF Calls
    <3>2. \/ Goes(v, Idle)
          \/ \E at \in {"claim", "debts", "expire", "cancel"}, c \in {"same", "release"} :
               \/ Goes(v, [run[v] EXCEPT !.at = at])
               \/ Goes(v, [run[v] EXCEPT !.at = at, !.change = c])
      BY <2>3 DEF ReadCompany, CountDebts, Release, Expire
    <3> QED
      BY <1>2, <3>1, <3>2
  <2>4. CASE CountCycle(v) \/ Write(v) \/ Cancel(v) \/ Throws(v)
    BY <1>1, <2>4 DEF CountCycle, Write, Cancel, Throws, Goes
  <2>5. CASE Search(v)
    <3> DEFINE p == Found(run[v].inv, run[v].seen.pay)
               got == IF p = None THEN "none" ELSE remote[p]
               read == [run[v] EXCEPT !.pay = p, !.got = got]
    <3>1. run[v].inv \in Invoices /\ run[v].seen.pay \in Payments \cup {None}
      BY <2>1, <2>5 DEF Search, At, MpInv, Fitting, CallsFit, CallFits, Calls
    <3>2. p \in Payments \cup {None}
      BY <3>1, FoundIsKnown DEF MpInv, Fitting
    <3>3. got \in States
      BY <3>2 DEF MpInv, Fitting, MpTypeOK
    <3> HIDE DEF p, got
    <3>4. read \in Calls
      BY <2>1, <3>2, <3>3 DEF Calls
    <3>5. \/ Goes(v, Idle) \/ Goes(v, Applied(read, run[v].inv, run[v].seen))
          \/ \E at \in {"write", "release", "expire"} : Goes(v, [read EXCEPT !.at = at])
      BY <2>5 DEF Search, p, got
    <3>6. \A at \in {"write", "release", "expire"} : [read EXCEPT !.at = at].at # "coupon"
      BY <3>4 DEF Calls
    <3> HIDE DEF read
    <3>7. CASE Goes(v, Applied(read, run[v].inv, run[v].seen))
      BY <1>3, <3>4, <3>7
    <3>8. CASE Goes(v, Idle)
      BY <1>2, <3>8
    <3> QED
      BY <1>2, <3>5, <3>6, <3>7, <3>8
  <2> QED
    BY <1>4, <2>2, <2>3, <2>4, <2>5 DEF Handle
<1>5. ASSUME NEW v \in Procs, NEW p, Notice(v, p) PROVE run[w].at = "coupon"
  BY <1>1, <1>5 DEF Notice, Goes
<1>6. ASSUME NEW v \in Procs, NEW i, NEW by, Begins(v, i, by) PROVE run[w].at = "coupon"
  BY <1>1, <1>6 DEF Begins, Goes
<1>7. CASE run' = run
  BY <1>7
<1> QED
  BY <1>1, <1>4, <1>5, <1>6, <1>7
     DEF MpNext, Pays, Settles, List, PressSync, PressRemove, mpVars, Procs

(* While nothing is charged back, every invoice that was paid remains so.     *)
LEMMA PaidGrows ==
    ASSUME MpInv, [MpNext]_mpVars, NoneDisputed
    PROVE  Paid \subseteq Paid'
BY PaidMoves DEF NoneDisputed, Paid

(* A call that pays an invoice is one more to count and one more to be       *)
(* counted; a call that counts uses a cycle up and is done.                  *)
LEMMA CyclesFitStep ==
    ASSUME MpInv, CyclesFit, [MpNext]_mpVars, MpTypeOK'
    PROVE  CyclesFit'
<1> SUFFICES ASSUME NoneDisputed'
             PROVE  (Cycles - cycles') + Cardinality(Counting') <= Cardinality(Paid')
  BY DEF CyclesFit
<1>1. MpTypeOK
  BY DEF MpInv, Fitting
<1>2. NoneDisputed
  BY <1>1, DisputedStays DEF NoneDisputed
<1>3. /\ IsFiniteSet(Counting) /\ IsFiniteSet(Paid) /\ IsFiniteSet(Paid') /\ IsFiniteSet(Counting')
  <2>1. Counting \subseteq Procs /\ Counting' \subseteq Procs
    BY DEF Counting
  <2>2. Paid \subseteq Invoices /\ Paid' \subseteq Invoices
    BY DEF Paid
  <2> QED
    BY <2>1, <2>2, MercadoPagoAssumption, FS_Subset
<1>4. /\ Cardinality(Counting) \in Nat /\ Cardinality(Paid) \in Nat
      /\ Cardinality(Counting') \in Nat /\ Cardinality(Paid') \in Nat
      /\ cycles \in Nat /\ cycles' \in Nat /\ Cycles \in Nat
  BY <1>1, <1>3, FS_CardinalityType, MercadoPagoAssumption DEF MpTypeOK
<1>5. (Cycles - cycles) + Cardinality(Counting) <= Cardinality(Paid)
  BY <1>2 DEF CyclesFit
<1>6. Cardinality(Paid) <= Cardinality(Paid')
  BY <1>2, <1>3, PaidGrows, FS_Subset
<1>7. ASSUME NEW w \in Procs, Claim(w)
      PROVE  (Cycles - cycles') + Cardinality(Counting') <= Cardinality(Paid')
  <2> DEFINE i == run[w].inv
  <2>1. cycles' = cycles /\ DOMAIN run = Procs /\ DOMAIN invoice = Invoices
    BY <1>1, <1>7 DEF Claim, MpTypeOK
  <2>2. run[w] \in Calls /\ run[w].at = "claim" /\ i \in Invoices
    BY <1>1, <1>7 DEF Claim, At, MpTypeOK, MpInv, Fitting, CallsFit, CallFits
  <2>3. CASE Goes(w, Idle)
    <3>1. Counting' \subseteq Counting
      BY <2>1, <2>3 DEF Goes, Counting
    <3>2. Cardinality(Counting') <= Cardinality(Counting)
      BY <1>3, <3>1, FS_Subset
    <3> QED
      BY <1>4, <1>5, <1>6, <2>1, <3>2
  <2>4. CASE ~Goes(w, Idle)
    <3>1. /\ Wins(w, "PAID") /\ Goes(w, [run[w] EXCEPT !.at = "coupon"])
          /\ invoice' = [invoice EXCEPT ![i] = [status |-> "PAID", pay |-> run[w].pay]]
      BY <1>7, <2>4 DEF Claim
    <3>2. i \notin Paid /\ i \in Paid'
      BY <2>1, <2>2, <3>1 DEF Wins, Paid
    <3>3. Paid \cup {i} \subseteq Paid'
      BY <1>2, <3>2, PaidGrows
    <3>4. Cardinality(Paid) + 1 <= Cardinality(Paid')
      <4>1. Cardinality(Paid \cup {i}) = Cardinality(Paid) + 1
        BY <1>3, <3>2, FS_AddElement
      <4> QED
        BY <1>3, <3>3, <4>1, FS_Subset
    <3>5. Counting' \subseteq Counting \cup {w}
      BY <2>1, <3>1 DEF Goes, Counting
    <3>6. /\ IsFiniteSet(Counting \cup {w})
          /\ Cardinality(Counting \cup {w}) <= Cardinality(Counting) + 1
      <4>1. /\ IsFiniteSet(Counting \cup {w})
            /\ Cardinality(Counting \cup {w})
                 = IF w \in Counting THEN Cardinality(Counting) ELSE Cardinality(Counting) + 1
        BY <1>3, FS_AddElement
      <4> QED
        BY <1>4, <4>1
    <3>7. Cardinality(Counting \cup {w}) \in Nat /\ Cardinality(Counting') <= Cardinality(Counting \cup {w})
      BY <3>5, <3>6, FS_Subset, FS_CardinalityType
    <3> QED
      BY <1>4, <1>5, <2>1, <3>4, <3>6, <3>7
  <2> QED
    BY <2>3, <2>4
<1>8. ASSUME NEW w \in Procs, CountCycle(w)
      PROVE  (Cycles - cycles') + Cardinality(Counting') <= Cardinality(Paid')
  <2>1. w \in Counting /\ DOMAIN run = Procs
    BY <1>1, <1>8 DEF CountCycle, At, Counting, MpTypeOK
  <2>2. Counting' = Counting \ {w}
    BY <1>8, <2>1 DEF CountCycle, Goes, Counting
  <2>3. Cardinality(Counting') = Cardinality(Counting) - 1
    BY <1>3, <2>1, <2>2, FS_RemoveElement
  <2>4. cycles' >= cycles - 1
    BY <1>4, <1>8 DEF CountCycle
  <2> QED
    BY <1>4, <1>5, <1>6, <2>3, <2>4
<1>9. CASE ~(\E w \in Procs : Claim(w) \/ CountCycle(w))
  <2>1. cycles' = cycles
    BY <1>9 DEF MpNext, Pays, Settles, Notice, List, PressSync, PressRemove, Begins, mpVars, Handle,
       Throws, FindInvoice, Adopt, Create, ReadCompany, CountDebts, Search, Write, Release, Expire,
       Cancel
  <2>2. Cardinality(Counting') <= Cardinality(Counting)
    BY <1>3, <1>9, CountingMoves, FS_Subset
  <2> QED
    BY <1>4, <1>5, <1>6, <2>1, <2>2
<1> QED
  BY <1>7, <1>8, <1>9

(* While nothing is charged back a paid invoice uses up at most one cycle of *)
(* the coupon, however often it is notified and searched at once             *)
(* (mercadopago-payment-sync.service.ts:46).                                 *)
THEOREM CyclesCountedOnce ==
    ASSUME ~Beside PROVE MpSpec => []CountedOnce
<1>1. MpInit => CyclesFit
  <2> SUFFICES ASSUME MpInit PROVE CyclesFit
    OBVIOUS
  <2>1. Counting = {} /\ Paid = {} /\ cycles = Cycles
    BY DEF MpInit, Counting, Paid
  <2> QED
    BY <2>1, FS_EmptySet, MercadoPagoAssumption DEF CyclesFit
<1>2. MpInv /\ CyclesFit /\ [MpNext]_mpVars => (MpInv /\ CyclesFit)'
  <2> SUFFICES ASSUME MpInv, CyclesFit, [MpNext]_mpVars PROVE (MpInv /\ CyclesFit)'
    OBVIOUS
  <2>1. MpInv'
    BY MpInvStep
  <2>2. MpTypeOK'
    BY <2>1 DEF MpInv, Fitting
  <2> QED
    BY <2>1, <2>2, CyclesFitStep
<1>3. MpInv /\ CyclesFit => CountedOnce
  <2> SUFFICES ASSUME MpInv, CyclesFit, NoneDisputed
               PROVE  Cycles - cycles <= Cardinality(Paid)
    BY DEF CountedOnce, NoneDisputed, Paid
  <2>1. Counting \subseteq Procs /\ Paid \subseteq Invoices
    BY DEF Counting, Paid
  <2>2. Cardinality(Counting) \in Nat /\ Cardinality(Paid) \in Nat
    BY <2>1, FS_Subset, FS_CardinalityType, MercadoPagoAssumption
  <2>3. cycles \in Nat /\ Cycles \in Nat
    BY MercadoPagoAssumption DEF MpInv, Fitting, MpTypeOK
  <2> QED
    BY <2>2, <2>3 DEF CyclesFit
<1> QED
  BY <1>1, <1>2, <1>3, MpInvInit, PTL DEF MpSpec
=============================================================================
