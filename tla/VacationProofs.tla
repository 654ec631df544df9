--------------------------- MODULE VacationProofs ---------------------------
(***************************************************************************)
(* Theorems about VacationLedger, for any number of vacations and requests *)
(* and any sizes: the period is never overdrawn, also when decisions of HR *)
(* meet, and while they do not a final decision stays and the days of the  *)
(* ledger are those of the vacations.                                      *)
(***************************************************************************)
EXTENDS VacationLedger, SumTheorems

Ledgers ==
    [entitled : Int, reserved : Int, used : Int, sold : Int, status : {"OPEN", "EXHAUSTED"}]

Rows == [status : Statuses \cup {"NONE"}, days : Nat, sold : Nat, span : Spans \cup {"none"}]

(* What a request in progress holds: a size, or a decision about a vacation. *)
RequestOK(r) ==
    /\ r.at \in {"idle", "limits", "reserve", "decide"}
    /\ r.at \in {"limits", "reserve"} => r.days \in Nat /\ r.sold \in Nat /\ r.span \in Spans
    /\ r.at = "reserve" => r.right \in Int
    /\ r.at = "decide" => r.vacation \in Vacations /\ r.to \in Statuses

VacationTypes ==
    /\ ledger \in Ledgers
    /\ vacation \in [Vacations -> Rows]
    /\ DOMAIN request = Requests
    /\ \A q \in Requests : RequestOK(request[q])

(* A decision in progress fits the vacation it was made for. *)
DecisionFits ==
    /\ \A p, q \in Requests :
          request[p].at = "decide" /\ request[q].at = "decide" => p = q
    /\ \A q \in Requests : request[q].at = "decide" =>
          LET v == request[q].vacation IN
          /\ vacation[v].status # "NONE"
          /\ request[q].to \in Transitions(vacation[v].status) \cup {vacation[v].status}

-----------------------------------------------------------------------------
(* The initial states satisfy the types and the invariants. *)
LEMMA VacationInit == Init => VacationTypes /\ DecisionFits /\ NeverOverdrawn
<1> SUFFICES ASSUME Init PROVE VacationTypes /\ DecisionFits /\ NeverOverdrawn
  OBVIOUS
<1>1. ledger \in Ledgers /\ NeverOverdrawn
  BY DEF Init, Ledgers, NeverOverdrawn
<1>2. vacation \in [Vacations -> Rows]
  BY DEF Init, Rows, NoVacation
<1>3. DOMAIN request = Requests /\ \A q \in Requests : request[q].at = "idle"
  BY DEF Init, Idle
<1> QED
  BY <1>1, <1>2, <1>3 DEF VacationTypes, DecisionFits, RequestOK

(* What a request does to the others: nothing. *)
LEMMA OneGoes ==
    ASSUME VacationTypes, NEW q \in Requests, NEW r, Goes(q, r)
    PROVE  /\ DOMAIN request' = Requests
           /\ request'[q] = r
           /\ \A p \in Requests \ {q} : request'[p] = request[p]
  BY DEF VacationTypes, Goes

(* Whatever happens to the status, no day is added to the ledger, and it     *)
(* stays a ledger.                                                           *)
LEMMA MovedBounds ==
    ASSUME VacationTypes, NEW v \in Vacations, NEW from, NEW to
    PROVE  /\ Moved(v, from, to) \in Ledgers /\ Moved(v, from, to).entitled = ledger.entitled
           /\ Moved(v, from, to).reserved + Moved(v, from, to).used + Moved(v, from, to).sold
                <= ledger.reserved + ledger.used + ledger.sold
<1> DEFINE Bounded(l) == /\ l \in Ledgers /\ l.entitled = ledger.entitled
                         /\ l.reserved + l.used + l.sold
                              <= ledger.reserved + ledger.used + ledger.sold
<1>1. ledger \in Ledgers /\ vacation[v].days \in Nat /\ vacation[v].sold \in Nat
  BY DEF VacationTypes, Rows
<1>2. Bounded(ledger)
  BY <1>1 DEF Ledgers
<1>3. Bounded(Unreserved(v))
  BY <1>1 DEF Unreserved, Total, Ledgers
<1>4. Bounded(Debited(v))
  <2> DEFINE l1 == [ledger EXCEPT !.reserved = @ - Total(v)]
             l2 == [l1 EXCEPT !.used = @ + vacation[v].days]
             l3 == [l2 EXCEPT !.sold = @ + vacation[v].sold]
  <2>1. /\ l1 \in Ledgers /\ l1.entitled = ledger.entitled /\ l1.used = ledger.used
        /\ l1.sold = ledger.sold /\ l1.reserved = ledger.reserved - Total(v)
    BY <1>1 DEF Ledgers, Total
  <2>2. Debited(v) = l3
    BY DEF Debited
  <2> HIDE DEF l1
  <2>3. /\ l2 \in Ledgers /\ l2.entitled = ledger.entitled /\ l2.sold = ledger.sold
        /\ l2.reserved = ledger.reserved - Total(v) /\ l2.used = ledger.used + vacation[v].days
    BY <1>1, <2>1 DEF Ledgers
  <2> HIDE DEF l2
  <2>4. /\ l3 \in Ledgers /\ l3.entitled = ledger.entitled
        /\ l3.reserved = ledger.reserved - Total(v) /\ l3.used = ledger.used + vacation[v].days
        /\ l3.sold = ledger.sold + vacation[v].sold
    BY <1>1, <2>3 DEF Ledgers
  <2> HIDE DEF l3
  <2> QED
    BY <1>1, <2>2, <2>4 DEF Total, Ledgers
<1>5. Bounded(Credited(v))
  <2> DEFINE l1 == [ledger EXCEPT !.used = @ - vacation[v].days]
             l2 == [l1 EXCEPT !.sold = @ - vacation[v].sold]
  <2>1. /\ l1 \in Ledgers /\ l1.entitled = ledger.entitled /\ l1.sold = ledger.sold
        /\ l1.reserved = ledger.reserved /\ l1.used = ledger.used - vacation[v].days
    BY <1>1 DEF Ledgers
  <2>2. Credited(v) = l2
    BY DEF Credited
  <2> HIDE DEF l1
  <2>3. /\ l2 \in Ledgers /\ l2.entitled = ledger.entitled /\ l2.reserved = ledger.reserved
        /\ l2.used = ledger.used - vacation[v].days
        /\ l2.sold = ledger.sold - vacation[v].sold
    BY <1>1, <2>1 DEF Ledgers
  <2> HIDE DEF l2
  <2> QED
    BY <1>1, <2>2, <2>3 DEF Ledgers
<1>6. Moved(v, from, to) \in {ledger, Unreserved(v), Debited(v), Credited(v)}
  BY DEF Moved, Consumed, Released
<1> HIDE DEF Bounded
<1>7. Bounded(Moved(v, from, to))
  BY <1>2, <1>3, <1>4, <1>5, <1>6
<1> QED
  BY <1>7 DEF Bounded

(* Every step of a request keeps the types and the bound of the period.      *)
LEMMA VacationStep ==
    ASSUME VacationTypes, NeverOverdrawn, [Next]_vacationVars
    PROVE  VacationTypes' /\ NeverOverdrawn'
<1> USE VacationAssumption DEF VacationAssumption
<1>1. CASE UNCHANGED vacationVars
  BY <1>1 DEF vacationVars, VacationTypes, NeverOverdrawn, RequestOK
<1>2. CASE Next
  <2> PICK q \in Requests :
        \/ FindOverlapping(q) \/ CheckLimits(q) \/ ReserveAndCreate(q)
        \/ UpdateStatus(q) \/ UpdateStatusWithLedger(q) \/ Fails(q)
    BY <1>2 DEF Next
  <2>1. ASSUME NEW r, Goes(q, r), RequestOK(r), ledger' = ledger, vacation' = vacation
        PROVE  VacationTypes' /\ NeverOverdrawn'
    BY <2>1, OneGoes DEF VacationTypes, NeverOverdrawn, RequestOK
  <2>2. RequestOK(Idle)
    BY DEF RequestOK, Idle
  <2>3. RequestOK(request[q])
    BY DEF VacationTypes
  <2>4. CASE FindOverlapping(q)
    <3> PICK span \in Spans, size \in Sizes :
          Goes(q, [at |-> "limits", span |-> span, days |-> size.days, sold |-> size.sold])
      BY <2>4 DEF FindOverlapping
    <3>1. size.days \in Nat /\ size.sold \in Nat
      OBVIOUS
    <3>2. RequestOK([at |-> "limits", span |-> span, days |-> size.days, sold |-> size.sold])
      BY <3>1 DEF RequestOK
    <3> QED
      BY <2>1, <2>4, <3>2 DEF FindOverlapping
  <2>5. CASE CheckLimits(q)
    <3> PICK right \in Rights :
          \/ Goes(q, [at |-> "reserve", span |-> request[q].span, days |-> request[q].days,
                      sold |-> request[q].sold, right |-> right])
          \/ Goes(q, Idle)
      BY <2>5 DEF CheckLimits
    <3>1. RequestOK([at |-> "reserve", span |-> request[q].span, days |-> request[q].days,
                     sold |-> request[q].sold, right |-> right])
      BY <2>3, <2>5 DEF RequestOK, CheckLimits
    <3> QED
      BY <2>1, <2>2, <2>5, <3>1 DEF CheckLimits
  <2>6. CASE ReserveAndCreate(q)
    <3> DEFINE c == request[q]
    <3>1. c.days \in Nat /\ c.sold \in Nat /\ c.span \in Spans /\ c.right \in Int
      BY <2>3, <2>6 DEF RequestOK, ReserveAndCreate
    <3>2. PICK v \in Vacations :
            /\ c.days + c.sold <= Available(c.right)
            /\ ledger' = [ledger EXCEPT !.entitled = c.right, !.reserved = @ + c.days + c.sold]
            /\ vacation' = [vacation EXCEPT ![v] = [status |-> "PENDING", days |-> c.days,
                                                    sold |-> c.sold, span |-> c.span]]
      BY <2>6 DEF ReserveAndCreate
    <3>3. ledger' \in Ledgers /\ NeverOverdrawn'
      <4>1. ledger' = [entitled |-> c.right, reserved |-> ledger.reserved + c.days + c.sold,
                       used |-> ledger.used, sold |-> ledger.sold, status |-> ledger.status]
        BY <3>2 DEF VacationTypes, Ledgers
      <4>2. /\ ledger \in Ledgers
            /\ c.days + c.sold <= c.right - ledger.used - ledger.sold - ledger.reserved
        BY <3>2 DEF VacationTypes, Available
      <4>3. ledger' \in Ledgers
        BY <3>1, <4>1, <4>2 DEF Ledgers
      <4>4. ledger'.reserved + ledger'.used + ledger'.sold <= ledger'.entitled
        BY <3>1, <4>1, <4>2 DEF Ledgers
      <4> QED
        BY <4>3, <4>4 DEF NeverOverdrawn
    <3>4. vacation' \in [Vacations -> Rows]
      BY <3>1, <3>2 DEF VacationTypes, Rows, Statuses
    <3>5. Goes(q, Idle)
      BY <2>6 DEF ReserveAndCreate
    <3>6. DOMAIN request' = Requests /\ \A p \in Requests : RequestOK(request'[p])
      BY <2>2, <3>5, OneGoes DEF VacationTypes
    <3> QED
      BY <3>3, <3>4, <3>6 DEF VacationTypes, RequestOK
  <2>7. CASE UpdateStatus(q)
    <3> PICK v \in Vacations, to \in Statuses :
          Goes(q, [at |-> "decide", vacation |-> v, to |-> to])
      BY <2>7 DEF UpdateStatus
    <3>1. RequestOK([at |-> "decide", vacation |-> v, to |-> to])
      BY DEF RequestOK
    <3> QED
      BY <2>1, <2>7, <3>1 DEF UpdateStatus
  <2>8. CASE UpdateStatusWithLedger(q)
    <3> DEFINE v == request[q].vacation  to == request[q].to
               moved == Moved(v, vacation[v].status, to)
    <3>1. v \in Vacations /\ to \in Statuses
      BY <2>3, <2>8 DEF RequestOK, UpdateStatusWithLedger
    <3>2. /\ moved \in Ledgers /\ moved.entitled = ledger.entitled
          /\ moved.reserved + moved.used + moved.sold
               <= ledger.reserved + ledger.used + ledger.sold
      BY <3>1, MovedBounds
    <3>3. ledger' = [moved EXCEPT !.status = IF moved.used + moved.sold >= moved.entitled
                                             THEN "EXHAUSTED" ELSE "OPEN"]
      BY <2>8 DEF UpdateStatusWithLedger
    <3> HIDE DEF moved
    <3>4. ledger' \in Ledgers /\ NeverOverdrawn'
      BY <3>2, <3>3 DEF VacationTypes, Ledgers, NeverOverdrawn
    <3>5. vacation' \in [Vacations -> Rows]
      BY <2>8, <3>1 DEF UpdateStatusWithLedger, VacationTypes, Rows
    <3>6. Goes(q, Idle)
      BY <2>8 DEF UpdateStatusWithLedger
    <3>7. DOMAIN request' = Requests /\ \A p \in Requests : RequestOK(request'[p])
      BY <2>2, <3>6, OneGoes DEF VacationTypes
    <3> QED
      BY <3>4, <3>5, <3>7 DEF VacationTypes, RequestOK
  <2>9. CASE Fails(q)
    BY <2>1, <2>2, <2>9 DEF Fails
  <2> QED
    BY <2>4, <2>5, <2>6, <2>7, <2>8, <2>9
<1> QED
  BY <1>1, <1>2

(* Whatever is asked for and however decisions meet, the days reserved,      *)
(* taken and sold never exceed the right (vacations.repository.ts:181).      *)
THEOREM PeriodNeverOverdrawn == VacationSpec => []NeverOverdrawn
<1>1. Init => VacationTypes /\ NeverOverdrawn
  BY VacationInit
<1>2. VacationTypes /\ NeverOverdrawn /\ [Next]_vacationVars => VacationTypes' /\ NeverOverdrawn'
  BY VacationStep
<1> QED
  BY <1>1, <1>2, PTL DEF VacationSpec

-----------------------------------------------------------------------------
(* What a step may do to a vacation, and to the requests.                    *)
LEMMA DecisionStep ==
    ASSUME ~Overlap, VacationTypes, DecisionFits, [Next]_vacationVars
    PROVE  /\ DecisionFits'
           /\ \A v \in Vacations :
                vacation[v].status \in {"REJECTED", "CANCELLED", "COMPLETED"} =>
                  vacation'[v].status = vacation[v].status
<1> DEFINE Kept(v) == vacation[v].status \in {"REJECTED", "CANCELLED", "COMPLETED"} =>
                        vacation'[v].status = vacation[v].status
<1>1. CASE UNCHANGED vacationVars
  BY <1>1 DEF vacationVars, DecisionFits
<1>2. CASE Next
  <2> PICK q \in Requests :
        \/ FindOverlapping(q) \/ CheckLimits(q) \/ ReserveAndCreate(q)
        \/ UpdateStatus(q) \/ UpdateStatusWithLedger(q) \/ Fails(q)
    BY <1>2 DEF Next
  <2>1. ASSUME NEW r, Goes(q, r), r.at # "decide", vacation' = vacation
        PROVE  DecisionFits' /\ \A v \in Vacations : Kept(v)
    <3>1. \A p \in Requests : request'[p].at = "decide" => p # q /\ request'[p] = request[p]
      BY <2>1, OneGoes
    <3> QED
      BY <2>1, <3>1 DEF DecisionFits
  <2>2. CASE FindOverlapping(q)
    <3> PICK span \in Spans, size \in Sizes :
          Goes(q, [at |-> "limits", span |-> span, days |-> size.days, sold |-> size.sold])
      BY <2>2 DEF FindOverlapping
    <3> QED
      BY <2>1, <2>2 DEF FindOverlapping
  <2>3. CASE CheckLimits(q)
    <3> PICK right \in Rights :
          \/ Goes(q, [at |-> "reserve", span |-> request[q].span, days |-> request[q].days,
                      sold |-> request[q].sold, right |-> right])
          \/ Goes(q, Idle)
      BY <2>3 DEF CheckLimits
    <3> QED
      BY <2>1, <2>3 DEF CheckLimits, Idle
  <2>4. CASE ReserveAndCreate(q)
    <3>1. PICK v \in Vacations :
            /\ vacation[v].status = "NONE"
            /\ \A w \in Vacations \ {v} : vacation'[w] = vacation[w]
      BY <2>4 DEF ReserveAndCreate, NoVacation, VacationTypes
    <3>2. Goes(q, Idle)
      BY <2>4 DEF ReserveAndCreate
    <3>3. \A p \in Requests : request'[p].at = "decide" => p # q /\ request'[p] = request[p]
      BY <3>2, OneGoes DEF Idle
    <3>4. \A p \in Requests : request'[p].at = "decide" =>
            /\ request[p].vacation \in Vacations
            /\ vacation'[request[p].vacation] = vacation[request[p].vacation]
      BY <3>1, <3>3 DEF VacationTypes, RequestOK, DecisionFits
    <3>5. DecisionFits'
      BY <3>3, <3>4 DEF DecisionFits
    <3>6. \A w \in Vacations : Kept(w)
      BY <3>1
    <3> QED
      BY <3>5, <3>6
  <2>5. CASE UpdateStatus(q)
    <3>1. \A p \in Requests : request[p].at # "decide"
      BY <2>5 DEF UpdateStatus, Deciding
    <3> PICK v \in Vacations, to \in Statuses :
          /\ vacation[v] # NoVacation
          /\ to \in Transitions(vacation[v].status) \cup {vacation[v].status}
          /\ Goes(q, [at |-> "decide", vacation |-> v, to |-> to])
      BY <2>5 DEF UpdateStatus
    <3>2. \A p \in Requests : request'[p].at = "decide" => p = q
      BY <3>1, OneGoes
    <3>3. request'[q] = [at |-> "decide", vacation |-> v, to |-> to]
      BY OneGoes
    <3>4. vacation' = vacation
      BY <2>5 DEF UpdateStatus
    <3>5. vacation[v].status # "NONE"
      BY DEF Transitions, Statuses
    <3>6. DecisionFits'
      BY <3>2, <3>3, <3>4, <3>5 DEF DecisionFits
    <3> QED
      BY <3>4, <3>6
  <2>6. CASE UpdateStatusWithLedger(q)
    <3> DEFINE u == request[q].vacation
    <3>1. /\ u \in Vacations /\ request[q].at = "decide"
          /\ request[q].to \in Transitions(vacation[u].status) \cup {vacation[u].status}
      BY <2>6 DEF UpdateStatusWithLedger, VacationTypes, RequestOK, DecisionFits
    <3>2. /\ Goes(q, Idle)
          /\ vacation' = [vacation EXCEPT ![u].status = request[q].to]
      BY <2>6 DEF UpdateStatusWithLedger
    <3>3. \A p \in Requests : request'[p].at # "decide"
      BY <3>1, <3>2, OneGoes DEF DecisionFits, Idle
    <3>4. \A v \in Vacations \ {u} : Kept(v)
      BY <3>2 DEF VacationTypes
    <3>5. vacation'[u].status = request[q].to
      BY <3>1, <3>2 DEF VacationTypes, Rows
    <3>6. Kept(u)
      BY <3>1, <3>5 DEF Transitions
    <3> QED
      BY <3>3, <3>4, <3>6 DEF DecisionFits
  <2>7. CASE Fails(q)
    BY <2>1, <2>7 DEF Fails, Idle
  <2> QED
    BY <2>2, <2>3, <2>4, <2>5, <2>6, <2>7
<1> QED
  BY <1>1, <1>2

(* While HR takes one decision at a time, a refused, cancelled or completed  *)
(* vacation stays what it is (vacations.service.ts:181).                     *)
THEOREM FinalDecisionsStay == ASSUME ~Overlap PROVE VacationSpec => FinalStays
<1>1. Init => VacationTypes /\ DecisionFits /\ NeverOverdrawn
  BY VacationInit
<1>2. /\ VacationTypes /\ DecisionFits /\ NeverOverdrawn
      /\ [Next]_vacationVars
      => (VacationTypes /\ DecisionFits /\ NeverOverdrawn)'
  BY VacationStep, DecisionStep
<1>3. VacationTypes /\ DecisionFits /\ [Next]_vacationVars =>
        [\A v \in Vacations :
            vacation[v].status \in {"REJECTED", "CANCELLED", "COMPLETED"} =>
              vacation'[v].status = vacation[v].status]_vacationVars
  BY DecisionStep
<1> QED
  BY <1>1, <1>2, <1>3, PTL DEF VacationSpec, FinalStays

-----------------------------------------------------------------------------
(* The days of the ledger. *)

(* The vacations a sum is about, and what is added up of them. *)
Having(statuses) == {v \in Vacations : vacation[v].status \in statuses}
TotalOf == [v \in Vacations |-> Total(v)]
DaysOf == [v \in Vacations |-> vacation[v].days]
SoldOf == [v \in Vacations |-> vacation[v].sold]

(* What the vacation of a sum counts for, if it has one of the statuses. *)
CountIn(days, status, statuses) == IF status \in statuses THEN days ELSE 0
Counts(days, u, statuses) == CountIn(days, vacation[u].status, statuses)

(* Days of vacations can be added up. *)
LEMMA DaysAddUp ==
    ASSUME VacationTypes, NEW statuses
    PROVE  /\ Summable(TotalOf, Having(statuses))
           /\ Summable(DaysOf, Having(statuses))
           /\ Summable(SoldOf, Having(statuses))
<1>1. IsFiniteSet(Having(statuses)) /\ Having(statuses) \subseteq Vacations
  BY VacationAssumption, FS_Subset DEF Having
<1>2. \A v \in Vacations : /\ vacation[v].days \in Int /\ vacation[v].sold \in Int
                           /\ vacation[v].days + vacation[v].sold \in Int
  BY DEF VacationTypes, Rows
<1> QED
  BY <1>1, <1>2 DEF Summable, TotalOf, DaysOf, SoldOf, Total

(* The sums of the ledger are numbers, ... *)
SumsFit ==
    /\ Sum(TotalOf, {"PENDING"}) \in Int
    /\ Sum(DaysOf, Consumed) \in Int
    /\ Sum(SoldOf, Consumed) \in Int

(* ... before and after a step. *)
LEMMA SumsAreInt == VacationTypes /\ VacationTypes' => SumsFit /\ SumsFit'
<1>1. VacationTypes => SumsFit
  BY DaysAddUp, SumIsInt DEF SumsFit, Sum, Having
<1> QED
  BY <1>1, PTL

(* Where one vacation changes its row, each of the sums changes by what it   *)
(* counts for after and before.                                              *)
LEMMA OneRowMoves ==
    ASSUME VacationTypes, VacationTypes', NEW u \in Vacations, NEW statuses,
           \A v \in Vacations \ {u} : vacation'[v] = vacation[v]
    PROVE  /\ Sum(TotalOf, statuses)' - Counts(Total(u), u, statuses)'
                = Sum(TotalOf, statuses) - Counts(Total(u), u, statuses)
           /\ Sum(DaysOf, statuses)' - Counts(vacation[u].days, u, statuses)'
                = Sum(DaysOf, statuses) - Counts(vacation[u].days, u, statuses)
           /\ Sum(SoldOf, statuses)' - Counts(vacation[u].sold, u, statuses)'
                = Sum(SoldOf, statuses) - Counts(vacation[u].sold, u, statuses)
<1> DEFINE S == Having(statuses)
           T == Having(statuses)'
<1>1. /\ Summable(TotalOf, S) /\ Summable(DaysOf, S) /\ Summable(SoldOf, S)
  BY DaysAddUp
<1>2. /\ Summable(TotalOf', T) /\ Summable(DaysOf', T) /\ Summable(SoldOf', T)
  <2>1. IsFiniteSet(T) /\ T \subseteq Vacations
    BY VacationAssumption, FS_Subset DEF Having
  <2>2. \A v \in Vacations : /\ vacation'[v].days \in Int /\ vacation'[v].sold \in Int
                             /\ vacation'[v].days + vacation'[v].sold \in Int
    BY DEF VacationTypes, Rows
  <2> QED
    BY <2>1, <2>2 DEF Summable, TotalOf, DaysOf, SoldOf, Total
<1>3. S \ {u} = T \ {u} /\ (u \in S <=> vacation[u].status \in statuses)
      /\ (u \in T <=> vacation'[u].status \in statuses)
  BY DEF Having
<1>4. \A v \in S \ {u} : /\ TotalOf[v] = TotalOf'[v] /\ DaysOf[v] = DaysOf'[v]
                         /\ SoldOf[v] = SoldOf'[v]
  BY DEF Having, TotalOf, DaysOf, SoldOf, Total
<1>5. /\ TotalOf[u] = Total(u) /\ DaysOf[u] = vacation[u].days /\ SoldOf[u] = vacation[u].sold
      /\ TotalOf'[u] = Total(u)' /\ DaysOf'[u] = vacation'[u].days
      /\ SoldOf'[u] = vacation'[u].sold
  BY DEF TotalOf, DaysOf, SoldOf, Total
<1> DEFINE In(f, R) == SumFunctionOnSet(f, R) - (IF u \in R THEN f[u] ELSE 0)
<1> HIDE DEF S, T
<1>6. In(TotalOf', T) = In(TotalOf, S)
  BY <1>1, <1>2, <1>3, <1>4, SumChanges
<1>7. In(DaysOf', T) = In(DaysOf, S)
  BY <1>1, <1>2, <1>3, <1>4, SumChanges
<1>8. In(SoldOf', T) = In(SoldOf, S)
  BY <1>1, <1>2, <1>3, <1>4, SumChanges
<1>9. /\ Sum(TotalOf, statuses) = SumFunctionOnSet(TotalOf, S)
      /\ Sum(DaysOf, statuses) = SumFunctionOnSet(DaysOf, S)
      /\ Sum(SoldOf, statuses) = SumFunctionOnSet(SoldOf, S)
      /\ Sum(TotalOf, statuses)' = SumFunctionOnSet(TotalOf', T)
      /\ Sum(DaysOf, statuses)' = SumFunctionOnSet(DaysOf', T)
      /\ Sum(SoldOf, statuses)' = SumFunctionOnSet(SoldOf', T)
  BY DEF Sum, S, T, Having
<1> QED
  BY <1>3, <1>5, <1>6, <1>7, <1>8, <1>9 DEF Counts, CountIn

LedgerIs(l) ==
    /\ l.reserved = Sum(TotalOf, {"PENDING"})
    /\ l.used = Sum(DaysOf, Consumed)
    /\ l.sold = Sum(SoldOf, Consumed)

(* Which days a change of status moves: the ones the row is no longer        *)
(* counted for, and the ones it is counted for from now on.                  *)
LEMMA MovedDays ==
    ASSUME VacationTypes, NEW u \in Vacations, NEW from, from = vacation[u].status, from # "NONE",
           NEW to \in Transitions(from) \cup {from}
    PROVE  /\ Moved(u, from, to).reserved
                = ledger.reserved + CountIn(Total(u), to, {"PENDING"})
                                  - CountIn(Total(u), from, {"PENDING"})
           /\ Moved(u, from, to).used
                = ledger.used + CountIn(vacation[u].days, to, Consumed)
                              - CountIn(vacation[u].days, from, Consumed)
           /\ Moved(u, from, to).sold
                = ledger.sold + CountIn(vacation[u].sold, to, Consumed)
                              - CountIn(vacation[u].sold, from, Consumed)
<1> DEFINE m == Moved(u, from, to)
           days == vacation[u].days
           sold == vacation[u].sold
<1>1. /\ ledger \in Ledgers /\ days \in Nat /\ sold \in Nat /\ from \in Statuses
  BY DEF VacationTypes, Rows
<1>2. Total(u) = days + sold
  BY DEF Total
<1>3. CASE from = "PENDING" /\ to = "APPROVED"
  <2>1. /\ m.reserved = ledger.reserved - (days + sold) /\ m.used = ledger.used + days
        /\ m.sold = ledger.sold + sold
    <3>1. m = [ledger EXCEPT !.reserved = @ - Total(u), !.used = @ + days, !.sold = @ + sold]
      <4>1. m = Debited(u)
        BY <1>3 DEF Moved, Consumed, Released
      <4> HIDE DEF m
      <4> QED
        BY <4>1 DEF Debited
    <3>2. ledger = [entitled |-> ledger.entitled, reserved |-> ledger.reserved,
                    used |-> ledger.used, sold |-> ledger.sold, status |-> ledger.status]
      BY <1>1 DEF Ledgers
    <3>3. m = [entitled |-> ledger.entitled, reserved |-> ledger.reserved - (days + sold),
               used |-> ledger.used + days, sold |-> ledger.sold + sold, status |-> ledger.status]
      BY <1>2, <3>1, <3>2
    <3> QED
      BY <3>3
  <2> QED
    BY <1>1, <1>2, <1>3, <2>1 DEF Consumed, Ledgers, CountIn
<1>4. CASE from = "PENDING" /\ to \in {"REJECTED", "CANCELLED"}
  <2>1. /\ m.reserved = ledger.reserved - (days + sold) /\ m.used = ledger.used
        /\ m.sold = ledger.sold
    BY <1>1, <1>2, <1>4 DEF Moved, Unreserved, Consumed, Released, Ledgers
  <2> QED
    BY <1>1, <1>2, <1>4, <2>1 DEF Consumed, Ledgers, CountIn
<1>5. CASE from = "APPROVED" /\ to = "CANCELLED"
  <2>1. /\ m.reserved = ledger.reserved /\ m.used = ledger.used - days
        /\ m.sold = ledger.sold - sold
    <3>1. m = [ledger EXCEPT !.used = @ - days, !.sold = @ - sold]
      BY <1>5 DEF Moved, Credited, Consumed, Released
    <3>2. ledger = [entitled |-> ledger.entitled, reserved |-> ledger.reserved,
                    used |-> ledger.used, sold |-> ledger.sold, status |-> ledger.status]
      BY <1>1 DEF Ledgers
    <3>3. m = [entitled |-> ledger.entitled, reserved |-> ledger.reserved,
               used |-> ledger.used - days, sold |-> ledger.sold - sold, status |-> ledger.status]
      BY <3>1, <3>2
    <3> QED
      BY <3>3
  <2> QED
    BY <1>1, <1>2, <1>5, <2>1 DEF Consumed, Ledgers, CountIn
<1>6. CASE \/ from = to
           \/ from = "APPROVED" /\ to = "COMPLETED"
  <2>1. m = ledger
    BY <1>1, <1>6 DEF Moved, Consumed, Released, Statuses
  <2> QED
    BY <1>1, <1>2, <1>6, <2>1 DEF Consumed, Ledgers, CountIn
<1> QED
  BY <1>3, <1>4, <1>5, <1>6 DEF Transitions

(* Reserving adds a pending vacation and its days at once; a decision moves  *)
(* the days of the status the transaction finds.                             *)
LEMMA LedgerStep ==
    ASSUME VacationTypes, VacationTypes', DecisionFits, LedgerIs(ledger), [Next]_vacationVars
    PROVE  LedgerIs(ledger)'
<1>1. CASE UNCHANGED <<ledger, vacation>>
  BY <1>1 DEF LedgerIs, Sum, TotalOf, DaysOf, SoldOf, Total
<1>2. ASSUME NEW q \in Requests, ReserveAndCreate(q) PROVE LedgerIs(ledger)'
  <2> DEFINE c == request[q]
  <2>1. c.days \in Nat /\ c.sold \in Nat
    BY <1>2 DEF VacationTypes, RequestOK, ReserveAndCreate
  <2>2. PICK u \in Vacations :
          /\ vacation[u] = NoVacation
          /\ ledger' = [ledger EXCEPT !.entitled = c.right, !.reserved = @ + c.days + c.sold]
          /\ vacation' = [vacation EXCEPT ![u] = [status |-> "PENDING", days |-> c.days,
                                                  sold |-> c.sold, span |-> c.span]]
    BY <1>2 DEF ReserveAndCreate
  <2>3. \A v \in Vacations \ {u} : vacation'[v] = vacation[v]
    BY <2>2 DEF VacationTypes
  <2>4. /\ vacation[u].status = "NONE" /\ vacation'[u].status = "PENDING"
        /\ vacation'[u].days = c.days /\ vacation'[u].sold = c.sold
    BY <2>2 DEF VacationTypes, NoVacation
  <2>5. /\ ledger'.reserved = ledger.reserved + c.days + c.sold
        /\ ledger'.used = ledger.used /\ ledger'.sold = ledger.sold
    BY <2>2 DEF VacationTypes, Ledgers
  <2>6. ledger.reserved \in Int /\ ledger.used \in Int /\ ledger.sold \in Int
    BY DEF VacationTypes, Ledgers
  <2>7. /\ Sum(TotalOf, {"PENDING"}) \in Int /\ Sum(TotalOf, {"PENDING"})' \in Int
        /\ Sum(DaysOf, Consumed) \in Int /\ Sum(DaysOf, Consumed)' \in Int
        /\ Sum(SoldOf, Consumed) \in Int /\ Sum(SoldOf, Consumed)' \in Int
    BY SumsAreInt DEF SumsFit
  <2>8. Sum(TotalOf, {"PENDING"})' - Total(u)' = Sum(TotalOf, {"PENDING"})
    BY <2>3, <2>4, <2>7, OneRowMoves DEF Counts, CountIn
  <2>9. /\ Sum(DaysOf, Consumed)' = Sum(DaysOf, Consumed)
        /\ Sum(SoldOf, Consumed)' = Sum(SoldOf, Consumed)
    <3>1. "NONE" \notin Consumed /\ "PENDING" \notin Consumed
      BY DEF Consumed
    <3> QED
      BY <2>3, <2>4, <2>7, <3>1, OneRowMoves DEF Counts, CountIn
  <2>10. Total(u)' = c.days + c.sold
    BY <2>4 DEF Total
  <2> QED
    BY <2>1, <2>5, <2>6, <2>7, <2>8, <2>9, <2>10 DEF LedgerIs
<1>3. ASSUME NEW q \in Requests, UpdateStatusWithLedger(q) PROVE LedgerIs(ledger)'
  <2> PICK u \in Vacations, to \in Statuses : u = request[q].vacation /\ to = request[q].to
    BY <1>3 DEF UpdateStatusWithLedger, VacationTypes, RequestOK
  <2> DEFINE from == vacation[u].status
             m == Moved(u, from, to)
  <2>1. from # "NONE" /\ to \in Transitions(from) \cup {from}
    BY <1>3 DEF UpdateStatusWithLedger, DecisionFits
  <2>2. \A v \in Vacations \ {u} : vacation'[v] = vacation[v]
    BY <1>3 DEF UpdateStatusWithLedger, VacationTypes
  <2>3. /\ vacation'[u].status = to /\ vacation'[u].days = vacation[u].days
        /\ vacation'[u].sold = vacation[u].sold
    BY <1>3, <2>1 DEF UpdateStatusWithLedger, VacationTypes, Rows
  <2>4. m \in Ledgers
    BY <2>1, MovedBounds
  <2>5. ledger'.reserved = m.reserved /\ ledger'.used = m.used /\ ledger'.sold = m.sold
    <3>1. \E st : ledger' = [m EXCEPT !.status = st]
      BY <1>3 DEF UpdateStatusWithLedger
    <3> HIDE DEF m
    <3> QED
      BY <2>4, <3>1 DEF Ledgers
  <2>6. /\ m.reserved = ledger.reserved + CountIn(Total(u), to, {"PENDING"})
                          - CountIn(Total(u), from, {"PENDING"})
        /\ m.used = ledger.used + CountIn(vacation[u].days, to, Consumed)
                      - CountIn(vacation[u].days, from, Consumed)
        /\ m.sold = ledger.sold + CountIn(vacation[u].sold, to, Consumed)
                      - CountIn(vacation[u].sold, from, Consumed)
    BY <2>1, MovedDays
  <2>7. /\ Sum(TotalOf, {"PENDING"}) \in Int /\ Sum(TotalOf, {"PENDING"})' \in Int
        /\ Sum(DaysOf, Consumed) \in Int /\ Sum(DaysOf, Consumed)' \in Int
        /\ Sum(SoldOf, Consumed) \in Int /\ Sum(SoldOf, Consumed)' \in Int
    BY SumsAreInt DEF SumsFit
  <2>8. /\ vacation[u].days \in Int /\ vacation[u].sold \in Int
        /\ Total(u) \in Int /\ Total(u)' = Total(u)
    BY <2>1, <2>3 DEF VacationTypes, Rows, Total
  <2>9. /\ Sum(TotalOf, {"PENDING"})' - CountIn(Total(u), to, {"PENDING"})
              = Sum(TotalOf, {"PENDING"}) - CountIn(Total(u), from, {"PENDING"})
        /\ Sum(DaysOf, Consumed)' - CountIn(vacation[u].days, to, Consumed)
              = Sum(DaysOf, Consumed) - CountIn(vacation[u].days, from, Consumed)
        /\ Sum(SoldOf, Consumed)' - CountIn(vacation[u].sold, to, Consumed)
              = Sum(SoldOf, Consumed) - CountIn(vacation[u].sold, from, Consumed)
    BY <2>1, <2>2, <2>3, <2>8, OneRowMoves DEF Counts
  <2>10. /\ \A status, statuses : CountIn(Total(u), status, statuses) \in Int
         /\ \A status, statuses : CountIn(vacation[u].days, status, statuses) \in Int
         /\ \A status, statuses : CountIn(vacation[u].sold, status, statuses) \in Int
    BY <2>8 DEF CountIn
  <2> HIDE DEF m, from
  <2> QED
    BY <2>5, <2>6, <2>7, <2>9, <2>10 DEF LedgerIs
<1> QED
  BY <1>1, <1>2, <1>3
     DEF Next, FindOverlapping, CheckLimits, UpdateStatus, Fails, vacationVars

(* While HR takes one decision at a time the ledger holds the days of the    *)
(* vacations as they are: no approval debits the right twice and no refusal  *)
(* keeps the days (vacations.repository.ts:239).                             *)
THEOREM LedgerAlwaysMatches == ASSUME ~Overlap PROVE VacationSpec => []LedgerMatches
<1> DEFINE LInv == VacationTypes /\ DecisionFits /\ NeverOverdrawn /\ LedgerIs(ledger)
<1>1. Init => LInv
  <2> SUFFICES ASSUME Init PROVE LedgerIs(ledger)
    BY VacationInit
  <2>1. Having({"PENDING"}) = {} /\ Having(Consumed) = {}
    BY DEF Init, Having, NoVacation, Consumed
  <2> QED
    BY <2>1, SumEmpty DEF Init, LedgerIs, Sum, Having
<1>2. LInv /\ [Next]_vacationVars => LInv'
  <2> SUFFICES ASSUME LInv, [Next]_vacationVars PROVE LInv'
    OBVIOUS
  <2>1. VacationTypes' /\ NeverOverdrawn'
    BY VacationStep
  <2>2. DecisionFits'
    BY DecisionStep
  <2> QED
    BY <2>1, <2>2, LedgerStep
<1>3. LInv => LedgerMatches
  BY DEF LedgerIs, LedgerMatches, TotalOf, DaysOf, SoldOf
<1> QED
  BY <1>1, <1>2, <1>3, PTL DEF VacationSpec
=============================================================================
