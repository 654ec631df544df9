--------------------------- MODULE VacationLedger ---------------------------
(***************************************************************************)
(* The vacations of an employee in one acquisition period and the ledger   *)
(* of its days:                                                            *)
(*   apps/api/src/modules/vacations/vacations.service.ts                   *)
(*   apps/api/src/modules/vacations/vacations.repository.ts                *)
(*                                                                         *)
(* A request is checked against the other vacations and the absences in    *)
(* several awaits, then one serializable transaction reserves its days and *)
(* creates it.  HR decides: a status is compared with the row that was     *)
(* read, and a second transaction reads the row again and moves the days.  *)
(***************************************************************************)
EXTENDS Integers, FiniteSets, Functions

CONSTANTS
    Vacations,   \* vacations the employee may ask for
    Requests,    \* requests in progress
    Spans,       \* dates a vacation may take; different ones do not overlap
    Sizes,       \* days taken and days sold a request may name
    Rights,      \* days the absences of the period may leave
    Overlap      \* decisions of HR may meet

ASSUME VacationAssumption ==
    /\ IsFiniteSet(Vacations)
    /\ Sizes \subseteq [days : 1..30, sold : 0..10]
    /\ Rights \subseteq {30, 24, 18, 12, 0}
    /\ Overlap \in BOOLEAN

VARIABLES
    ledger,     \* the VacationEntitlement of the period
    vacation,   \* the rows of Vacation
    request     \* what a request has read and not written yet

vacationVars == <<ledger, vacation, request>>

Statuses == {"PENDING", "APPROVED", "REJECTED", "CANCELLED", "COMPLETED"}
Live == {"PENDING", "APPROVED", "COMPLETED"}
Consumed == {"APPROVED", "COMPLETED"}
Released == {"REJECTED", "CANCELLED"}

NoVacation == [status |-> "NONE", days |-> 0, sold |-> 0, span |-> "none"]
Idle == [at |-> "idle"]

Init ==
    /\ ledger = [entitled |-> 0, reserved |-> 0, used |-> 0, sold |-> 0, status |-> "OPEN"]
    /\ vacation = [v \in Vacations |-> NoVacation]
    /\ request = [q \in Requests |-> Idle]

LiveOnes == {v \in Vacations : vacation[v].status \in Live}
Total(v) == vacation[v].days + vacation[v].sold
Goes(q, to) == request' = [request EXCEPT ![q] = to]

-----------------------------------------------------------------------------
(* create().                                                                 *)

FindOverlapping(q) ==
    /\ request[q] = Idle
    /\ \E span \in Spans, size \in Sizes :
         /\ \A v \in LiveOnes : vacation[v].span # span
         /\ Goes(q, [at |-> "limits", span |-> span, days |-> size.days, sold |-> size.sold])
    /\ UNCHANGED <<ledger, vacation>>

(* At most a third is sold, nothing beyond the right; three parts of five    *)
(* days or more, one of them of fourteen once there are three.               *)
Allowed(days, sold, right) ==
    /\ right > 0 /\ sold <= right \div 3 /\ days + sold <= right
    /\ Cardinality(LiveOnes) < 3 /\ days >= 5
    /\ Cardinality(LiveOnes) = 2 => days >= 14 \/ \E v \in LiveOnes : vacation[v].days >= 14

CheckLimits(q) ==
    /\ request[q].at = "limits"
    /\ \E right \in Rights :
         IF Allowed(request[q].days, request[q].sold, right)
         THEN Goes(q, [at |-> "reserve", span |-> request[q].span, days |-> request[q].days,
                       sold |-> request[q].sold, right |-> right])
         ELSE Goes(q, Idle)
    /\ UNCHANGED <<ledger, vacation>>

(* Slip: days that were sold count as available. *)
AvailableWithSold(right) == right - ledger.used - ledger.reserved

Available(right) == right - ledger.used - ledger.sold - ledger.reserved

(* The right is written with the reservation, or neither is. *)
ReserveAndCreate(q) ==
    LET c == request[q] IN
    /\ c.at = "reserve"
    /\ \E v \in Vacations :
         /\ vacation[v] = NoVacation
         /\ c.days + c.sold <= Available(c.right)
         /\ ledger' = [ledger EXCEPT !.entitled = c.right, !.reserved = @ + c.days + c.sold]
         /\ vacation' = [vacation EXCEPT ![v] = [status |-> "PENDING", days |-> c.days,
                                                 sold |-> c.sold, span |-> c.span]]
    /\ Goes(q, Idle)

-----------------------------------------------------------------------------
(* updateStatus().                                                           *)

Transitions(from) ==
    CASE from = "PENDING" -> {"APPROVED", "REJECTED", "CANCELLED"}
      [] from = "APPROVED" -> {"COMPLETED", "CANCELLED"}
      [] OTHER -> {}

Deciding == \E q \in Requests : request[q].at = "decide"

(* The status asked for may be the one the vacation has. *)
UpdateStatus(q) ==
    /\ request[q] = Idle /\ (Overlap \/ ~Deciding)
    /\ \E v \in Vacations, to \in Statuses :
         /\ vacation[v] # NoVacation
         /\ to \in Transitions(vacation[v].status) \cup {vacation[v].status}
         /\ Goes(q, [at |-> "decide", vacation |-> v, to |-> to])
    /\ UNCHANGED <<ledger, vacation>>

Unreserved(v) == [ledger EXCEPT !.reserved = @ - Total(v)]
Debited(v)    == [ledger EXCEPT !.reserved = @ - Total(v), !.used = @ + vacation[v].days,
                                !.sold = @ + vacation[v].sold]
Credited(v)   == [ledger EXCEPT !.used = @ - vacation[v].days, !.sold = @ - vacation[v].sold]

(* Slip: whatever is released was only reserved. *)
MovedAsReserved(v, from, to) ==
    CASE from = "PENDING" /\ to \in Consumed -> Debited(v)
      [] from \in Live /\ to \in Released -> Unreserved(v)
      [] OTHER -> ledger

(* What the change of status does to the days. *)
Moved(v, from, to) ==
    CASE from = "PENDING" /\ to \in Consumed -> Debited(v)
      [] from = "PENDING" /\ to \in Released -> Unreserved(v)
      [] from \in Consumed /\ to \in Released -> Credited(v)
      [] OTHER -> ledger

(* The transaction goes by the status it finds, which nobody compares with   *)
(* the table again.                                                          *)
UpdateStatusWithLedger(q) ==
    LET v     == request[q].vacation
        to    == request[q].to
        moved == Moved(v, vacation[v].status, to)
    IN  /\ request[q].at = "decide"
        /\ ledger' = [moved EXCEPT !.status = IF moved.used + moved.sold >= moved.entitled
                                              THEN "EXHAUSTED" ELSE "OPEN"]
        /\ vacation' = [vacation EXCEPT ![v].status = to]
        /\ Goes(q, Idle)

(* The balance does not suffice, another transaction was faster, a crash.    *)
Fails(q) ==
    /\ request[q] # Idle
    /\ Goes(q, Idle)
    /\ UNCHANGED <<ledger, vacation>>

Next ==
    \E q \in Requests :
      \/ FindOverlapping(q) \/ CheckLimits(q) \/ ReserveAndCreate(q)
      \/ UpdateStatus(q) \/ UpdateStatusWithLedger(q) \/ Fails(q)

VacationSpec == Init /\ [][Next]_vacationVars

-----------------------------------------------------------------------------
(* However requests meet, no days are reserved, taken or sold that the       *)
(* period did not give, also when later absences have cut the right          *)
(* (vacations.repository.ts:181).                                            *)
NeverOverdrawn == ledger.reserved + ledger.used + ledger.sold <= ledger.entitled

Sum(days, statuses) ==
    SumFunctionOnSet(days, {v \in Vacations : vacation[v].status \in statuses})

(* While HR takes one decision at a time, beside requests that meet, the     *)
(* ledger holds the days of the vacations as they are: none is debited twice *)
(* or kept after a refusal (vacations.repository.ts:253).                    *)
LedgerMatches ==
    /\ ledger.reserved = Sum([v \in Vacations |-> Total(v)], {"PENDING"})
    /\ ledger.used = Sum([v \in Vacations |-> vacation[v].days], Consumed)
    /\ ledger.sold = Sum([v \in Vacations |-> vacation[v].sold], Consumed)

(* A decision that the table of transitions calls final stays (service:181). *)
FinalStays ==
    [][\A v \in Vacations :
          vacation[v].status \in {"REJECTED", "CANCELLED", "COMPLETED"} =>
            vacation'[v].status = vacation[v].status]_vacationVars

(* Three parts at most, no two at the same time (service:79 and 124).        *)
PartsAreApart ==
    /\ Cardinality(LiveOnes) <= 3
    /\ \A v, w \in LiveOnes : vacation[v].span = vacation[w].span => v = w
=============================================================================
