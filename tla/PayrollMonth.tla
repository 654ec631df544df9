---------------------------- MODULE PayrollMonth ----------------------------
(***************************************************************************)
(* One month of payroll of a company that has an accountant:               *)
(*   apps/api/src/modules/payroll/accounting-period.service.ts             *)
(*   apps/api/src/modules/payroll/payroll.service.ts                       *)
(*   apps/api/src/modules/time-track/time-closing.service.ts               *)
(*   apps/api/src/modules/time-track/period-lock.ts, time-track.service.ts *)
(*                                                                         *)
(* calculate -> publish (locks the point) -> return -> calculate -> ... -> *)
(* release -> pay.  Each step walks over the closings and the payrolls of  *)
(* the employees one await at a time and writes the state of the period    *)
(* first or last; it may stop anywhere, by an exception or a crash, and    *)
(* people keep punching meanwhile.                                         *)
(***************************************************************************)
EXTENDS Naturals

CONSTANTS
    Employees,
    Rows,       \* ids of time closings
    Actors,     \* requests in progress
    Overlap,    \* people may act while a request of another is in progress
    MaxCrashes,
    None

ASSUME MonthAssumption == Overlap \in BOOLEAN /\ MaxCrashes \in Nat /\ None \notin Employees

VARIABLES
    period,   \* AccountingPeriod.status, "NONE" when there is no row
    row,      \* the closings; "current" when the point has not changed since
    pay,      \* the payroll of each employee that is not cancelled or deleted
    call,     \* what each request has read and what it still has to do
    clock,    \* employees with a write of the point that passed the lock
    amended,  \* history: employees changed by hand since the month was locked
    crashes

monthVars == <<period, row, pay, call, clock, amended, crashes>>

Statuses == {"DRAFT", "IN_REVIEW", "APPROVED", "CLOSED"}
Locking == {"APPROVED", "CLOSED"}
Adjustable == {"DRAFT", "IN_REVIEW"}
Published == {"PUBLISHED", "RELEASED", "PAID"}

NoRow == [emp |-> None, status |-> "DRAFT", current |-> FALSE, adjusted |-> FALSE]
Idle == [at |-> "idle", then |-> "idle", rows |-> {}, reviewed |-> {}, people |-> {},
         one |-> None, kept |-> {}, fresh |-> {}, old |-> {}]

Closings == {r \in Rows : row[r] # NoRow}
OfEmployee(e) == {r \in Closings : row[r].emp = e}
Locked(e) == \E r \in OfEmployee(e) : row[r].status \in Locking

Init ==
    /\ period = "NONE"
    /\ row = [r \in Rows |-> NoRow]
    /\ pay = [e \in Employees |-> "NONE"]
    /\ call = [a \in Actors |-> Idle]
    /\ clock = {} /\ amended = {} /\ crashes = 0

At(a, step) == call[a].at = step
Does(a, changes) == call' = [call EXCEPT ![a] = changes]
Throws(a) == Does(a, Idle) /\ UNCHANGED <<period, row, pay>>
Free == Overlap \/ \A a \in Actors : call[a] = Idle
Moves(r, status) == row' = [row EXCEPT ![r].status = status]
Begins(a, fields) == Free /\ call[a] = Idle /\ Does(a, fields)

-----------------------------------------------------------------------------
(* calculate and generate.                                                   *)

(* The period is not published; the closings it has and the adjustments to   *)
(* keep are read.                                                            *)
Calculate(a) ==
    /\ period \in {"NONE", "CALCULATED", "RETURNED"}
    /\ \E kept \in {{}, {e \in Employees : \E r \in OfEmployee(e) : row[r].adjusted}} :
         Begins(a, [Idle EXCEPT !.at = "reset", !.then = "adjust", !.kept = kept,
                       !.rows = {r \in Closings : row[r].status # "DRAFT"}])
    /\ UNCHANGED <<period, row, pay, clock, amended, crashes>>

(* All that were not drafts become drafts again, whatever they are by now. *)
Reset(a) ==
    /\ At(a, "reset")
    /\ row' = [r \in Rows |-> IF r \in call[a].rows \cap Closings
                              THEN [row[r] EXCEPT !.status = "DRAFT"] ELSE row[r]]
    /\ Does(a, [call[a] EXCEPT !.at = "generate", !.rows = {}, !.people = Employees])
    /\ UNCHANGED <<period, pay, clock, amended, crashes>>

(* POST /time-closing/generate, and the collective PDF. *)
Recreate(a) ==
    /\ \E p \in SUBSET Employees \ {{}} :
         /\ Begins(a, [Idle EXCEPT !.at = "generate", !.people = p])
         /\ amended' = amended \cup p
    /\ UNCHANGED <<period, row, pay, clock, crashes>>

(* Refused if a closing is not a draft, or the point has open issues; else   *)
(* everything about the point is read at once.                               *)
Generate(a) ==
    /\ At(a, "generate")
    /\ \/ Throws(a)
       \/ /\ \A r \in Closings : row[r].emp \in call[a].people => row[r].status = "DRAFT"
          /\ Does(a, [call[a] EXCEPT !.at = "rebuild"])
          /\ UNCHANGED <<period, row, pay>>
    /\ UNCHANGED <<clock, amended, crashes>>

(* Slip: drafts that carry adjustments are not deleted. *)
ClearPlain(a) ==
    /\ At(a, "rebuild") /\ call[a].one = None
    /\ \E e \in call[a].people :
         /\ row' = [r \in Rows |-> IF r \in OfEmployee(e) /\ row[r].status = "DRAFT" /\ ~row[r].adjusted
                                   THEN NoRow ELSE row[r]]
         /\ Does(a, [call[a] EXCEPT !.one = e, !.people = @ \ {e}])
    /\ UNCHANGED <<period, pay, clock, amended, crashes>>

(* Employee by employee the drafts are deleted and one is created. *)
Clear(a) ==
    /\ At(a, "rebuild") /\ call[a].one = None
    /\ \E e \in call[a].people :
         /\ row' = [r \in Rows |-> IF r \in OfEmployee(e) /\ row[r].status = "DRAFT"
                                   THEN NoRow ELSE row[r]]
         /\ Does(a, [call[a] EXCEPT !.one = e, !.people = @ \ {e}])
    /\ UNCHANGED <<period, pay, clock, amended, crashes>>

Create(a) ==
    LET e == call[a].one IN
    /\ At(a, "rebuild") /\ e # None
    /\ \E r \in Rows :
         /\ row[r] = NoRow
         /\ \A b \in Actors : r \notin call[b].rows \cup call[b].fresh
         /\ row' = [row EXCEPT ![r] = [NoRow EXCEPT !.emp = e, !.current = e \notin call[a].old]]
         /\ Does(a, [call[a] EXCEPT !.one = None,
                       !.fresh = IF e \in call[a].kept THEN @ \cup {r} ELSE @,
                       !.at = IF call[a].people = {} THEN call[a].then ELSE @])
    /\ UNCHANGED <<period, pay, clock, amended, crashes>>

(* Slip: only the first employee gets the adjustments back. *)
AdjustFirst(a) ==
    /\ At(a, "adjust")
    /\ \/ call[a].fresh = {} /\ UNCHANGED row
       \/ \E r \in call[a].fresh : row' = [row EXCEPT ![r].adjusted = TRUE]
    /\ Does(a, [call[a] EXCEPT !.at = "sync", !.fresh = {}])
    /\ UNCHANGED <<period, pay, clock, amended, crashes>>

(* The adjustments are written again, on closings that may still be adjusted. *)
Adjust(a) ==
    /\ At(a, "adjust")
    /\ \/ /\ call[a].fresh = {}
          /\ Does(a, [call[a] EXCEPT !.at = "sync"])
          /\ UNCHANGED row
       \/ \E r \in call[a].fresh :
            IF r \in Closings /\ row[r].status \in Adjustable
            THEN /\ row' = [row EXCEPT ![r].adjusted = TRUE]
                 /\ Does(a, [call[a] EXCEPT !.fresh = @ \ {r}])
            ELSE Does(a, Idle) /\ UNCHANGED row
    /\ UNCHANGED <<period, pay, clock, amended, crashes>>

(* syncPayrolls: an approved payroll is reopened, a draft calculated again,  *)
(* a missing one created; a payroll that fails is only reported.             *)
SyncPayrolls(a) ==
    /\ At(a, "sync")
    /\ \E some \in SUBSET Employees :
         pay' = [e \in Employees |-> IF e \in some /\ pay[e] \in {"NONE", "APPROVED"}
                                     THEN "DRAFT" ELSE pay[e]]
    /\ Does(a, [call[a] EXCEPT !.at = "total"])
    /\ UNCHANGED <<period, row, clock, amended, crashes>>

(* Slip: a calculated period is written as a draft nobody can publish. *)
TotalAsDraft(a) ==
    /\ At(a, "total")
    /\ period' = "DRAFT"
    /\ Does(a, Idle)
    /\ UNCHANGED <<row, pay, clock, amended, crashes>>

(* The period is written, whatever it is by now. *)
Total(a) ==
    /\ At(a, "total")
    /\ period' = "CALCULATED"
    /\ Does(a, Idle)
    /\ UNCHANGED <<row, pay, clock, amended, crashes>>

-----------------------------------------------------------------------------
(* publish.                                                                  *)

(* Slip: closings that were already in review are not approved. *)
PublishDrafts(a) ==
    /\ period \in {"CALCULATED", "RETURNED"} /\ Closings # {}
    /\ Begins(a, [Idle EXCEPT !.at = "lock", !.rows = {r \in Closings : row[r].status = "DRAFT"}])
    /\ amended' = {}
    /\ UNCHANGED <<period, row, pay, clock, crashes>>

Publish(a) ==
    /\ period \in {"CALCULATED", "RETURNED"} /\ Closings # {}
    /\ Begins(a, [Idle EXCEPT !.at = "lock",
                    !.rows = {r \in Closings : row[r].status \in Adjustable},
                    !.reviewed = {r \in Closings : row[r].status = "IN_REVIEW"}])
    /\ amended' = {}
    /\ UNCHANGED <<period, row, pay, clock, crashes>>

(* submitReview and approve, each from the one status it allows. *)
Lock(a) ==
    /\ At(a, "lock")
    /\ \E r \in call[a].rows :
         LET submitted == r \in call[a].reviewed
             is(status) == r \in Closings /\ row[r].status = status
         IN  \/ /\ ~submitted /\ is("DRAFT")
                /\ Moves(r, "IN_REVIEW")
                /\ Does(a, [call[a] EXCEPT !.reviewed = @ \cup {r}])
                /\ UNCHANGED <<period, pay>>
             \/ /\ submitted /\ is("IN_REVIEW")
                /\ Moves(r, "APPROVED")
                /\ Does(a, [call[a] EXCEPT !.rows = @ \ {r}, !.reviewed = @ \ {r}])
                /\ UNCHANGED <<period, pay>>
             \/ /\ ~is(IF submitted THEN "IN_REVIEW" ELSE "DRAFT")
                /\ Throws(a)
    /\ UNCHANGED <<clock, amended, crashes>>

(* The payrolls the stage is about are read when the closings are done. *)
ReadPayrolls(a, stage, next, status) ==
    /\ At(a, stage) /\ call[a].rows = {}
    /\ Does(a, [call[a] EXCEPT !.at = next, !.people = {e \in Employees : pay[e] = status}])
    /\ UNCHANGED <<period, row, pay, clock, amended, crashes>>

(* One payroll changes its status, or the request ends with an exception. *)
OnePayroll(a, stage, from, to) ==
    /\ At(a, stage)
    /\ \E e \in call[a].people :
         \/ /\ pay[e] = from
            /\ pay' = [pay EXCEPT ![e] = to]
            /\ Does(a, [call[a] EXCEPT !.people = @ \ {e}])
            /\ UNCHANGED <<period, row>>
         \/ (pay[e] # from \/ stage = "approve") /\ Throws(a)
    /\ UNCHANGED <<clock, amended, crashes>>

Claim(a) ==
    /\ At(a, "approve") /\ call[a].people = {}
    /\ period' = IF period \in {"CALCULATED", "RETURNED"} THEN "PUBLISHED" ELSE period
    /\ Does(a, Idle)
    /\ UNCHANGED <<row, pay, clock, amended, crashes>>

-----------------------------------------------------------------------------
(* HR: return, release and pay write the period first.                       *)

Return(a) ==
    /\ period = "PUBLISHED" /\ period' = "RETURNED"
    /\ Begins(a, [Idle EXCEPT !.at = "returned"])
    /\ UNCHANGED <<row, pay, clock, amended, crashes>>

Release ==
    /\ Free /\ period = "PUBLISHED" /\ period' = "RELEASED"
    /\ UNCHANGED <<row, pay, call, clock, amended, crashes>>

(* Slip: a month can be paid before it is released. *)
MarkPaidEarly(a) ==
    /\ period \in {"PUBLISHED", "RELEASED"} /\ period' = "PAID"
    /\ Begins(a, [Idle EXCEPT !.at = "paid"])
    /\ UNCHANGED <<row, pay, clock, amended, crashes>>

MarkPaid(a) ==
    /\ period = "RELEASED" /\ period' = "PAID"
    /\ Begins(a, [Idle EXCEPT !.at = "paid"])
    /\ UNCHANGED <<row, pay, clock, amended, crashes>>

(* The closings the stage is about are read, and then changed one by one. *)
ReadClosings(a, stage, next, statuses) ==
    /\ At(a, stage) /\ call[a].people = {}
    /\ Does(a, [call[a] EXCEPT !.at = next, !.rows = {r \in Closings : row[r].status \in statuses}])
    /\ UNCHANGED <<period, row, pay, clock, amended, crashes>>

OneClosing(a, stage, from, to) ==
    /\ At(a, stage)
    /\ \E r \in call[a].rows :
         IF r \in Closings /\ row[r].status \in from
         THEN /\ Moves(r, to)
              /\ Does(a, [call[a] EXCEPT !.rows = @ \ {r}])
              /\ UNCHANGED <<period, pay>>
         ELSE Throws(a)
    /\ UNCHANGED <<clock, amended, crashes>>

Done(a) ==
    /\ \/ At(a, "close") /\ call[a].rows = {}
       \/ At(a, "reopen") /\ call[a].people = {}
       \/ At(a, "idle") /\ call[a] # Idle
    /\ Does(a, Idle)
    /\ UNCHANGED <<period, row, pay, clock, amended, crashes>>

-----------------------------------------------------------------------------
(* By hand: the screens of the closings and of the payrolls do not look at   *)
(* the period.                                                               *)

ClosingByHand(r) ==
    /\ Free /\ r \in Closings
    /\ LET now == row[r].status IN
       \/ now = "DRAFT" /\ Moves(r, "IN_REVIEW")
       \/ now = "IN_REVIEW" /\ Moves(r, "APPROVED")
       \/ now = "APPROVED" /\ Moves(r, "CLOSED")
       \/ now \in Locking /\ Moves(r, "DRAFT")
       \/ now # "CLOSED" /\ row' = [row EXCEPT ![r] = NoRow]
       \/ now \in Adjustable /\ row' = [row EXCEPT ![r].adjusted = TRUE]
    /\ amended' = amended \cup {row[r].emp}
    /\ UNCHANGED <<period, pay, call, clock, crashes>>

PayrollByHand(e) ==
    /\ Free
    /\ \/ pay[e] \in {"NONE", "APPROVED"} /\ pay' = [pay EXCEPT ![e] = "DRAFT"]
       \/ pay[e] = "DRAFT" /\ pay' = [pay EXCEPT ![e] = "APPROVED"]
       \/ pay[e] = "APPROVED" /\ pay' = [pay EXCEPT ![e] = "PAID"]
       \/ pay[e] \in {"DRAFT", "APPROVED"} /\ pay' = [pay EXCEPT ![e] = "NONE"]
    /\ UNCHANGED <<period, row, call, clock, amended, crashes>>

-----------------------------------------------------------------------------
(* The point: every write asks the lock first and is an await or more away.  *)

AssertTimePeriodOpen(e) ==
    /\ e \notin clock /\ ~Locked(e)
    /\ clock' = clock \cup {e}
    /\ UNCHANGED <<period, row, pay, call, amended, crashes>>

WritePoint(e) ==
    /\ e \in clock
    /\ row' = [r \in Rows |-> IF r \in OfEmployee(e) THEN [row[r] EXCEPT !.current = FALSE] ELSE row[r]]
    /\ call' = [a \in Actors |-> IF At(a, "rebuild") THEN [call[a] EXCEPT !.old = @ \cup {e}] ELSE call[a]]
    /\ clock' = clock \ {e}
    /\ UNCHANGED <<period, pay, amended, crashes>>

Crash(a) ==
    /\ call[a] # Idle /\ crashes < MaxCrashes
    /\ crashes' = crashes + 1
    /\ Does(a, Idle)
    /\ UNCHANGED <<period, row, pay, clock, amended>>

Accountant(a) ==
    \/ Calculate(a) \/ Reset(a) \/ Generate(a) \/ Clear(a) \/ Create(a) \/ Adjust(a)
    \/ SyncPayrolls(a) \/ Total(a)
    \/ Publish(a) \/ Lock(a) \/ ReadPayrolls(a, "lock", "approve", "DRAFT")
    \/ OnePayroll(a, "approve", "DRAFT", "APPROVED") \/ Claim(a)

HR(a) ==
    \/ Recreate(a)
    \/ Return(a) \/ ReadClosings(a, "returned", "unlock", Locking)
    \/ OneClosing(a, "unlock", Locking, "DRAFT")
    \/ ReadPayrolls(a, "unlock", "reopen", "APPROVED")
    \/ OnePayroll(a, "reopen", "APPROVED", "DRAFT")
    \/ MarkPaid(a) \/ ReadPayrolls(a, "paid", "pay", "APPROVED")
    \/ OnePayroll(a, "pay", "APPROVED", "PAID") \/ ReadClosings(a, "pay", "close", {"APPROVED"})
    \/ OneClosing(a, "close", {"APPROVED"}, "CLOSED")
    \/ Done(a)

Next ==
    \/ \E a \in Actors : Accountant(a) \/ HR(a) \/ Crash(a)
    \/ Release
    \/ \E r \in Rows : ClosingByHand(r)
    \/ \E e \in Employees : PayrollByHand(e) \/ AssertTimePeriodOpen(e) \/ WritePoint(e)

MonthSpec == Init /\ [][Next]_monthVars

-----------------------------------------------------------------------------
(* Rows, payrolls and requests keep their types. *)
PayrollTypeOK ==
    /\ period \in {"NONE", "CALCULATED", "RETURNED"} \cup Published
    /\ row \in [Rows -> [emp : Employees \cup {None}, status : Statuses,
                         current : BOOLEAN, adjusted : BOOLEAN]]
    /\ pay \in [Employees -> {"NONE", "DRAFT", "APPROVED", "PAID"}]
    /\ \A a \in Actors : call[a].rows \cup call[a].reviewed \cup call[a].fresh \subseteq Rows
    /\ clock \subseteq Employees /\ amended \subseteq Employees /\ crashes \in 0..MaxCrashes

(* While people take turns a month in the hands of HR has no closing whose   *)
(* point could be edited, but those of employees somebody changed by hand    *)
(* since it was published, even if an earlier publication or return stopped  *)
(* half way (accounting-period.service.ts:218).  Of payrolls it says         *)
(* nothing: they may be drafts, or missing.                                  *)
PublishedIsLocked ==
    period \in Published =>
      \A r \in Closings : row[r].status \in Locking \/ row[r].emp \in amended

(* While requests take turns, and wherever one of them dies, an employee     *)
(* never has two closings of the month, so that no payslip is counted twice  *)
(* in the totals (time-closing.service.ts:361).                              *)
OneClosingEach == \A r, s \in Closings : row[r].emp = row[s].emp => r = s

(* A calculation holds the adjustments of an employee until they are written *)
(* on the new closing; an adjustment is remembered there or on a closing.    *)
Recalls(a, e) == call[a].at \in {"reset", "generate", "rebuild", "adjust"} /\ e \in call[a].kept
Remembered(e) == (\E r \in OfEmployee(e) : row[r].adjusted) \/ \E a \in Actors : Recalls(a, e)

(* The adjustments made to an employee's closing are lost in three ways only:*)
(* the closing is created again by somebody who does not keep them (a        *)
(* calculation told to discard them, POST generate, the collective PDF), the *)
(* calculation that keeps them stops before it has written them, or a person *)
(* deletes the closing (accounting-period.service.ts:129,                    *)
(* time-closing.service.ts:361).                                             *)
AdjustmentsKept ==
    [][\A e \in Employees : Remembered(e) /\ ~Remembered(e)' =>
         \/ \E a \in Actors : Clear(a) /\ e \notin call[a].kept
         \/ \E a \in Actors : Recalls(a, e) /\ call'[a] = Idle
         \/ \E r \in OfEmployee(e) : ClosingByHand(r)]_monthVars

(* The month behaves as Competence says. *)
MonthOf == IF period = "PUBLISHED" THEN "withHR" ELSE IF period = "RELEASED" THEN "released"
           ELSE IF period = "PAID" THEN "paid" ELSE "open"

Abstract == INSTANCE Competence WITH
    month <- MonthOf, locked <- {e \in Employees : Locked(e)}

ImplementsMonth == Abstract!CompetenceSpec

(* No write of the point of an employee whose closing is approved or closed  *)
(* ("qualquer escrita de ponto", period-lock.ts:12).                         *)
LockedPointUnchanged ==
    [][\A r \in Closings : row[r].status \in Locking /\ row'[r].status \in Locking
         => row'[r].current = row[r].current]_monthVars
=============================================================================
