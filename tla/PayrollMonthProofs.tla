------------------------- MODULE PayrollMonthProofs -------------------------
(***************************************************************************)
(* Proofs about PayrollMonth for any employees, closings and requests and  *)
(* any number of crashes: its types, and, when people take turns, that an  *)
(* employee has one closing, that the closings of a published month are    *)
(* locked, in which ways an adjustment is lost, and that the month         *)
(* implements Competence.                                                  *)
(***************************************************************************)
EXTENDS PayrollMonth, TLAPS

USE MonthAssumption DEF MonthAssumption

Stages == {"idle", "reset", "generate", "rebuild", "adjust", "sync", "total", "lock",
           "approve", "returned", "unlock", "reopen", "paid", "pay", "close"}
Calls == [at : Stages, then : {"idle", "adjust"}, rows : SUBSET Rows, reviewed : SUBSET Rows,
          people : SUBSET Employees, one : Employees \cup {None}, kept : SUBSET Employees,
          fresh : SUBSET Rows, old : SUBSET Employees]
Rowed == [emp : Employees \cup {None}, status : Statuses, current : BOOLEAN, adjusted : BOOLEAN]

(* A row belongs to an employee or is no row at all. *)
TypeInv ==
    /\ period \in {"NONE", "CALCULATED", "RETURNED"} \cup Published
    /\ row \in [Rows -> Rowed]
    /\ \A r \in Rows : row[r].emp = None => row[r] = NoRow
    /\ pay \in [Employees -> {"NONE", "DRAFT", "APPROVED", "PAID"}]
    /\ call \in [Actors -> Calls]
    /\ clock \subseteq Employees /\ amended \subseteq Employees /\ crashes \in 0..MaxCrashes

(* A row keeps its type whatever status it moves to.                         *)
LEMMA MovesType ==
    ASSUME TypeInv, NEW r \in Closings, NEW s \in Statuses, Moves(r, s)
    PROVE  /\ row' \in [Rows -> Rowed]
           /\ \A q \in Rows : row'[q].emp = None => row'[q] = NoRow
BY DEF TypeInv, Closings, Moves, Rowed

LEMMA AdjustedType ==
    ASSUME TypeInv, NEW r \in Closings, row' = [row EXCEPT ![r].adjusted = TRUE]
    PROVE  /\ row' \in [Rows -> Rowed]
           /\ \A q \in Rows : row'[q].emp = None => row'[q] = NoRow
<1>1. r \in Rows /\ row[r] \in Rowed /\ row[r].emp # None
  BY DEF TypeInv, Closings
<1>2. [row[r] EXCEPT !.adjusted = TRUE] \in Rowed
  BY <1>1 DEF Rowed
<1>3. [row[r] EXCEPT !.adjusted = TRUE].emp # None
  BY <1>1 DEF Rowed
<1> QED
  BY <1>1, <1>2, <1>3 DEF TypeInv

LEMMA IdleType == Idle \in Calls
BY DEF Idle, Calls, Stages

LEMMA DoesType ==
    ASSUME TypeInv, NEW a \in Actors, NEW c \in Calls, Does(a, c)
    PROVE  call' \in [Actors -> Calls]
BY DEF TypeInv, Does

LEMMA CalculationTypes ==
    ASSUME TypeInv, NEW a \in Actors,
           Calculate(a) \/ Reset(a) \/ Recreate(a) \/ Generate(a) \/ Clear(a) \/ Create(a)
             \/ Adjust(a) \/ SyncPayrolls(a) \/ Total(a)
    PROVE  TypeInv'
<1>0. call[a] \in Calls
  BY DEF TypeInv
<1>1. CASE Calculate(a)
  <2>1. PICK kept \in {{}, {e \in Employees : \E r \in OfEmployee(e) : row[r].adjusted}} :
            Does(a, [Idle EXCEPT !.at = "reset", !.then = "adjust", !.kept = kept,
                       !.rows = {r \in Closings : row[r].status # "DRAFT"}])
    BY <1>1 DEF Calculate, Begins
  <2>2. [Idle EXCEPT !.at = "reset", !.then = "adjust", !.kept = kept,
                     !.rows = {r \in Closings : row[r].status # "DRAFT"}] \in Calls
    BY IdleType DEF Calls, Stages, Closings
  <2>3. call' \in [Actors -> Calls]
    BY <2>1, <2>2, DoesType
  <2> QED
    BY <1>1, <2>3 DEF Calculate, TypeInv
<1>2. CASE Reset(a)
  <2>1. call' \in [Actors -> Calls]
    BY <1>0, <1>2, DoesType DEF Reset, Calls, Stages
  <2> QED
    BY <1>2, <2>1 DEF Reset, TypeInv, Rowed, Closings, Statuses
<1>3. CASE Recreate(a)
  <2>1. PICK p \in SUBSET Employees :
            Does(a, [Idle EXCEPT !.at = "generate", !.people = p]) /\ amended' = amended \cup p
    BY <1>3 DEF Recreate, Begins
  <2>2. call' \in [Actors -> Calls]
    BY <2>1, DoesType, IdleType DEF Calls, Stages
  <2> QED
    BY <1>3, <2>1, <2>2 DEF Recreate, TypeInv
<1>4. CASE Generate(a)
  <2>1. call' \in [Actors -> Calls]
    BY <1>0, <1>4, DoesType, IdleType DEF Generate, Throws, Calls, Stages
  <2> QED
    BY <1>4, <2>1 DEF Generate, Throws, TypeInv
<1>5. CASE Clear(a)
  <2>1. PICK e \in call[a].people :
            /\ row' = [r \in Rows |-> IF r \in OfEmployee(e) /\ row[r].status = "DRAFT"
                                      THEN NoRow ELSE row[r]]
            /\ Does(a, [call[a] EXCEPT !.one = e, !.people = @ \ {e}])
    BY <1>5 DEF Clear
  <2>2. e \in Employees
    BY <1>0 DEF Calls
  <2>3. call' \in [Actors -> Calls]
    BY <1>0, <2>1, <2>2, DoesType DEF Calls
  <2> QED
    BY <1>5, <2>1, <2>3 DEF Clear, TypeInv, Rowed, NoRow, Statuses
<1>6. CASE Create(a)
  <2>1. PICK r \in Rows :
            /\ row' = [row EXCEPT ![r] = [NoRow EXCEPT !.emp = call[a].one,
                                            !.current = call[a].one \notin call[a].old]]
            /\ Does(a, [call[a] EXCEPT !.one = None,
                       !.fresh = IF call[a].one \in call[a].kept THEN @ \cup {r} ELSE @,
                       !.at = IF call[a].people = {} THEN call[a].then ELSE @])
    BY <1>6 DEF Create
  <2>2. call[a].one \in Employees
    BY <1>0, <1>6 DEF Create, Calls
  <2>3. call' \in [Actors -> Calls]
    <3> DEFINE fresh == IF call[a].one \in call[a].kept THEN call[a].fresh \cup {r} ELSE call[a].fresh
               at    == IF call[a].people = {} THEN call[a].then ELSE call[a].at
               to    == [call[a] EXCEPT !.one = None, !.fresh = fresh, !.at = at]
    <3>1. fresh \in SUBSET Rows /\ at \in Stages
      BY <1>0 DEF Calls, Stages
    <3>2. to \in Calls
      <4> HIDE DEF fresh, at
      <4> QED
        BY <1>0, <3>1 DEF Calls
    <3>3. Does(a, to)
      BY <2>1
    <3> HIDE DEF to
    <3> QED
      BY <3>2, <3>3, DoesType
  <2> QED
    BY <1>6, <2>1, <2>2, <2>3 DEF Create, TypeInv, Rowed, NoRow, Statuses
<1>7. CASE Adjust(a)
  <2>1. call' \in [Actors -> Calls]
    <3>1. CASE call[a].fresh = {}
      BY <1>0, <1>7, <3>1, DoesType DEF Adjust, Calls, Stages
    <3>2. CASE call[a].fresh # {}
      BY <1>0, <1>7, <3>2, DoesType, IdleType DEF Adjust, Calls, Stages
    <3> QED
      BY <3>1, <3>2
  <2>2. /\ row' \in [Rows -> Rowed]
        /\ \A q \in Rows : row'[q].emp = None => row'[q] = NoRow
    <3>1. \/ row' = row
          \/ \E r \in Closings : row' = [row EXCEPT ![r].adjusted = TRUE]
      BY <1>7 DEF Adjust
    <3> QED
      BY <3>1, AdjustedType DEF TypeInv
  <2> QED
    BY <1>7, <2>1, <2>2 DEF Adjust, TypeInv
<1>8. CASE SyncPayrolls(a)
  <2>1. call' \in [Actors -> Calls]
    BY <1>0, <1>8, DoesType DEF SyncPayrolls, Calls, Stages
  <2> QED
    BY <1>8, <2>1 DEF SyncPayrolls, TypeInv
<1>9. CASE Total(a)
  <2>1. call' \in [Actors -> Calls]
    BY <1>9, DoesType, IdleType DEF Total
  <2> QED
    BY <1>9, <2>1 DEF Total, TypeInv
<1> QED
  BY <1>1, <1>2, <1>3, <1>4, <1>5, <1>6, <1>7, <1>8, <1>9

LEMMA PublicationTypes ==
    ASSUME TypeInv, NEW a \in Actors,
           Publish(a) \/ Lock(a) \/ Claim(a) \/ Return(a) \/ MarkPaid(a) \/ Done(a) \/ Crash(a)
    PROVE  TypeInv'
<1>0. call[a] \in Calls
  BY DEF TypeInv
<1>1. CASE Publish(a)
  <2>1. [Idle EXCEPT !.at = "lock",
                    !.rows = {r \in Closings : row[r].status \in Adjustable},
                    !.reviewed = {r \in Closings : row[r].status = "IN_REVIEW"}] \in Calls
    BY IdleType DEF Calls, Stages, Closings
  <2>2. call' \in [Actors -> Calls]
    BY <1>1, <2>1, DoesType DEF Publish, Begins
  <2> QED
    BY <1>1, <2>2 DEF Publish, TypeInv
<1>2. CASE Lock(a)
  <2>1. call' \in [Actors -> Calls]
    BY <1>0, <1>2, DoesType, IdleType DEF Lock, Throws, Calls, Closings
  <2>2. \/ row' = row
        \/ \E r \in Closings, s \in Statuses : Moves(r, s)
    BY <1>2 DEF Lock, Throws, Statuses
  <2>3. /\ row' \in [Rows -> Rowed]
        /\ \A q \in Rows : row'[q].emp = None => row'[q] = NoRow
    BY <2>2, MovesType DEF TypeInv
  <2> QED
    BY <1>2, <2>1, <2>3 DEF Lock, Throws, TypeInv
<1>3. CASE Claim(a) \/ Done(a) \/ Crash(a)
  <2>1. call' \in [Actors -> Calls]
    BY <1>3, DoesType, IdleType DEF Claim, Done, Crash
  <2> QED
    BY <1>3, <2>1 DEF Claim, Done, Crash, TypeInv, Published
<1>4. CASE Return(a) \/ MarkPaid(a)
  <2>1. [Idle EXCEPT !.at = "returned"] \in Calls /\ [Idle EXCEPT !.at = "paid"] \in Calls
    BY IdleType DEF Calls, Stages
  <2>2. call' \in [Actors -> Calls]
    BY <1>4, <2>1, DoesType DEF Return, MarkPaid, Begins
  <2> QED
    BY <1>4, <2>2 DEF Return, MarkPaid, TypeInv, Published
<1> QED
  BY <1>1, <1>2, <1>3, <1>4

LEMMA ReadPayrollsTypes ==
    ASSUME TypeInv, NEW a \in Actors, NEW stage, NEW next \in Stages, NEW status,
           ReadPayrolls(a, stage, next, status)
    PROVE  TypeInv'
<1>0. call[a] \in Calls
  BY DEF TypeInv
<1>1. call' \in [Actors -> Calls]
  BY <1>0, DoesType DEF ReadPayrolls, Calls
<1> QED
  BY <1>1 DEF ReadPayrolls, TypeInv

LEMMA OnePayrollTypes ==
    ASSUME TypeInv, NEW a \in Actors, NEW stage, NEW from, NEW to \in {"DRAFT", "APPROVED", "PAID"},
           OnePayroll(a, stage, from, to)
    PROVE  TypeInv'
<1>0. call[a] \in Calls
  BY DEF TypeInv
<1>1. PICK e \in call[a].people :
          \/ /\ pay' = [pay EXCEPT ![e] = to]
             /\ Does(a, [call[a] EXCEPT !.people = @ \ {e}])
             /\ UNCHANGED <<period, row>>
          \/ Throws(a)
  BY DEF OnePayroll
<1>2. call' \in [Actors -> Calls]
  BY <1>0, <1>1, DoesType, IdleType DEF Throws, Calls
<1> QED
  BY <1>1, <1>2 DEF OnePayroll, Throws, TypeInv

LEMMA ReadClosingsTypes ==
    ASSUME TypeInv, NEW a \in Actors, NEW stage, NEW next \in Stages, NEW statuses,
           ReadClosings(a, stage, next, statuses)
    PROVE  TypeInv'
<1>0. call[a] \in Calls
  BY DEF TypeInv
<1>1. call' \in [Actors -> Calls]
  BY <1>0, DoesType DEF ReadClosings, Calls, Closings
<1> QED
  BY <1>1 DEF ReadClosings, TypeInv

LEMMA OneClosingTypes ==
    ASSUME TypeInv, NEW a \in Actors, NEW stage, NEW from, NEW to \in Statuses,
           OneClosing(a, stage, from, to)
    PROVE  TypeInv'
<1>0. call[a] \in Calls
  BY DEF TypeInv
<1>1. PICK r \in Rows :
          \/ /\ r \in Closings /\ Moves(r, to)
             /\ Does(a, [call[a] EXCEPT !.rows = @ \ {r}])
             /\ UNCHANGED <<period, pay>>
          \/ Throws(a)
  BY <1>0 DEF OneClosing, Calls
<1>2. call' \in [Actors -> Calls]
  BY <1>0, <1>1, DoesType, IdleType DEF Throws, Calls
<1>3. /\ row' \in [Rows -> Rowed]
      /\ \A q \in Rows : row'[q].emp = None => row'[q] = NoRow
  BY <1>1, MovesType DEF TypeInv, Throws
<1> QED
  BY <1>1, <1>2, <1>3 DEF OneClosing, Throws, TypeInv

LEMMA OtherTypes ==
    ASSUME TypeInv,
           \/ Release \/ \E r \in Rows : ClosingByHand(r)
           \/ \E e \in Employees : PayrollByHand(e) \/ AssertTimePeriodOpen(e) \/ WritePoint(e)
    PROVE  TypeInv'
<1>1. CASE Release
  BY <1>1 DEF Release, TypeInv, Published
<1>2. CASE \E r \in Rows : ClosingByHand(r)
  <2>1. PICK r \in Rows : ClosingByHand(r)
    BY <1>2
  <2>2. r \in Closings /\ row[r].emp \in Employees
    BY <2>1 DEF ClosingByHand, Closings, TypeInv, Rowed
  <2>3. \/ \E s \in Statuses : Moves(r, s)
        \/ row' = [row EXCEPT ![r] = NoRow]
        \/ row' = [row EXCEPT ![r].adjusted = TRUE]
    BY <2>1 DEF ClosingByHand, Statuses
  <2>4. NoRow \in Rowed
    BY DEF NoRow, Rowed, Statuses
  <2>5. /\ row' \in [Rows -> Rowed]
        /\ \A q \in Rows : row'[q].emp = None => row'[q] = NoRow
    <3>1. CASE \E s \in Statuses : Moves(r, s)
      BY <2>2, <3>1, MovesType
    <3>2. CASE row' = [row EXCEPT ![r] = NoRow]
      BY <2>4, <3>2 DEF TypeInv
    <3>3. CASE row' = [row EXCEPT ![r].adjusted = TRUE]
      BY <2>2, <3>3, AdjustedType
    <3> QED
      BY <2>3, <3>1, <3>2, <3>3
  <2> QED
    BY <2>1, <2>2, <2>5 DEF ClosingByHand, TypeInv
<1>3. CASE \E e \in Employees : PayrollByHand(e)
  BY <1>3 DEF PayrollByHand, TypeInv
<1>4. CASE \E e \in Employees : AssertTimePeriodOpen(e)
  BY <1>4 DEF AssertTimePeriodOpen, TypeInv
<1>5. CASE \E e \in Employees : WritePoint(e)
  <2>1. PICK e \in Employees : WritePoint(e)
    BY <1>5
  <2>2. call' \in [Actors -> Calls]
    <3>1. \A a \in Actors : [call[a] EXCEPT !.old = @ \cup {e}] \in Calls
      BY DEF TypeInv, Calls
    <3> QED
      BY <2>1, <3>1 DEF WritePoint, TypeInv
  <2>3. /\ row' \in [Rows -> Rowed]
        /\ \A q \in Rows : row'[q].emp = None => row'[q] = NoRow
    <3>1. \A r \in Rows : [row[r] EXCEPT !.current = FALSE] \in Rowed
      BY DEF TypeInv, Rowed
    <3>2. \A r \in OfEmployee(e) : [row[r] EXCEPT !.current = FALSE].emp = e
      BY DEF TypeInv, Rowed, OfEmployee, Closings
    <3> QED
      BY <2>1, <3>1, <3>2 DEF WritePoint, TypeInv
  <2> QED
    BY <2>1, <2>2, <2>3 DEF WritePoint, TypeInv
<1> QED
  BY <1>1, <1>2, <1>3, <1>4, <1>5

(* Every step keeps the types. *)
LEMMA TypeStep == TypeInv /\ [Next]_monthVars => TypeInv'
<1> SUFFICES ASSUME TypeInv, [Next]_monthVars PROVE TypeInv'
  OBVIOUS
<1>1. CASE UNCHANGED monthVars
  BY <1>1 DEF monthVars, TypeInv
<1>2. CASE \E a \in Actors : Accountant(a) \/ HR(a) \/ Crash(a)
  <2>1. PICK a \in Actors : Accountant(a) \/ HR(a) \/ Crash(a)
    BY <1>2
  <2>2. Locking \subseteq Statuses /\ {"APPROVED"} \subseteq Statuses
    BY DEF Locking, Statuses
  <2>3. CASE Accountant(a)
    BY <2>3, CalculationTypes, PublicationTypes, ReadPayrollsTypes, OnePayrollTypes
       DEF Accountant, Stages
  <2>4. CASE HR(a)
    BY <2>2, <2>4, CalculationTypes, PublicationTypes, ReadPayrollsTypes, OnePayrollTypes,
       ReadClosingsTypes, OneClosingTypes DEF HR, Stages, Statuses
  <2> QED
    BY <2>1, <2>3, <2>4, PublicationTypes
<1> QED
  BY <1>1, <1>2, OtherTypes DEF Next

LEMMA InitTypes == Init => TypeInv
BY IdleType DEF Init, TypeInv, Rowed, NoRow, Statuses

(* Every reachable state of a month is well-typed, however requests overlap. *)
THEOREM MonthTypeCorrect == MonthSpec => []PayrollTypeOK
<1>1. TypeInv => PayrollTypeOK
  BY DEF TypeInv, PayrollTypeOK, Calls, Rowed
<1> QED
  BY <1>1, InitTypes, TypeStep, PTL DEF MonthSpec

-----------------------------------------------------------------------------
(* From here on one request is in progress at a time.  What it has done so   *)
(* far is in its stage:                                                      *)
(*   - while it calculates, publishes or returns, the period is not yet, or  *)
(*     no longer, published;                                                 *)
(*   - what it creates again by hand is on record, and keeps nothing;        *)
(*   - the employees it has still to create again have drafts only, the one  *)
(*     it has just cleared has nothing;                                      *)
(*   - the closings it has still to lock are those it read;                  *)
(*   - an adjustment to keep is of somebody still to be created again, or    *)
(*     waits for its new closing, or is written.                             *)
Before == {"reset", "adjust", "sync", "total", "lock", "approve", "returned", "unlock", "reopen"}
Again == {"generate", "rebuild"}

Unpublished(c) ==
    c.at \in Before \/ (c.at \in Again /\ c.then = "adjust") => period \notin Published
OnRecord(c) ==
    /\ c.at = "reset" => c.then = "adjust"
    /\ c.at \in Again /\ c.then = "idle"
         => /\ c.people \subseteq amended /\ (c.one # None => c.one \in amended)
            /\ c.kept = {}
Rebuilding(c) ==
    /\ c.one # None => c.at = "rebuild" /\ OfEmployee(c.one) = {}
    /\ c.at = "rebuild" => \A r \in Closings : row[r].emp \in c.people => row[r].status = "DRAFT"
Safe(r) == row[r].status \in Locking \/ row[r].emp \in amended
Locks(c) ==
    /\ c.at = "lock" => \A r \in Closings : r \in c.rows \/ Safe(r)
    /\ c.at = "approve" => \A r \in Closings : Safe(r)
Keeps(c) ==
    /\ c.at = "generate" => c.kept \subseteq c.people
    /\ c.at = "rebuild" => \A e \in c.kept : \/ e \in c.people \/ e = c.one
                                             \/ \E r \in OfEmployee(e) : r \in c.fresh
    /\ c.at = "adjust" => \A e \in c.kept : \E r \in OfEmployee(e) : r \in c.fresh \/ row[r].adjusted
    /\ c.at \in {"sync", "total"} => \A e \in c.kept : \E r \in OfEmployee(e) : row[r].adjusted

Good(c) == Unpublished(c) /\ OnRecord(c) /\ Rebuilding(c) /\ Locks(c) /\ Keeps(c)

Turns == \A a, b \in Actors : call[a] # Idle /\ call[b] # Idle => a = b

MonthInv ==
    /\ TypeInv /\ Turns
    /\ \A a \in Actors : Good(call[a])
    /\ PublishedIsLocked /\ OneClosingEach

Mover(a) == call[a] # Idle \/ \A b \in Actors : call[b] = Idle

(* A request that is not in progress promises nothing. *)
LEMMA IdleGood == Good(Idle) /\ (Good(Idle))'
BY DEF Good, Idle, Unpublished, OnRecord, Rebuilding, Locks, Keeps, Before, Again

(* A step of one request is a matter of this request alone. *)
LEMMA OneMoves ==
    ASSUME TypeInv, Turns, NEW a \in Actors, Mover(a), NEW c, Does(a, c)
    PROVE  /\ call'[a] = c /\ Turns'
           /\ \A b \in Actors \ {a} : call'[b] = Idle
           /\ Good(call[a])' => (\A b \in Actors : Good(call[b]))'
<1>1. call'[a] = c /\ \A b \in Actors \ {a} : call'[b] = call[b] /\ call[b] = Idle
  BY DEF TypeInv, Turns, Mover, Does
<1>2. Turns'
  BY <1>1 DEF Turns
<1>3. ASSUME Good(call[a])', NEW b \in Actors PROVE Good(call[b])'
  <2>1. CASE b = a
    BY <1>3, <2>1
  <2>2. CASE b # a
    BY <1>1, <2>2 DEF Good, Idle, Unpublished, OnRecord, Rebuilding, Locks, Keeps, Before, Again
  <2> QED
    BY <2>1, <2>2
<1> QED
  BY <1>1, <1>2, <1>3

LEMMA FreeMoves ==
    ASSUME ~Overlap, Free PROVE \A a \in Actors : Mover(a) /\ call[a] = Idle
BY DEF Free, Mover

(* A request that ends. *)
LEMMA EndGood ==
    ASSUME TypeInv, NEW a \in Actors, Does(a, Idle) PROVE Good(call[a])'
<1>1. call'[a] = Idle
  BY DEF TypeInv, Does
<1> QED
  BY <1>1 DEF Good, Idle, Unpublished, OnRecord, Rebuilding, Locks, Keeps, Before, Again

LEMMA CalculateInv ==
    ASSUME ~Overlap, MonthInv, TypeInv', NEW a \in Actors, Calculate(a)
    PROVE  MonthInv'
<1>0. TypeInv /\ Turns /\ Mover(a) /\ call[a] = Idle
  BY FreeMoves DEF MonthInv, Calculate, Begins
<1>1. PICK kept \in {{}, {e \in Employees : \E r \in OfEmployee(e) : row[r].adjusted}} :
          Does(a, [Idle EXCEPT !.at = "reset", !.then = "adjust", !.kept = kept,
                     !.rows = {r \in Closings : row[r].status # "DRAFT"}])
  BY DEF Calculate, Begins
<1>2. call'[a] = [Idle EXCEPT !.at = "reset", !.then = "adjust", !.kept = kept,
                     !.rows = {r \in Closings : row[r].status # "DRAFT"}]
  BY <1>0, <1>1 DEF TypeInv, Does
<1>3. period' = period /\ period \notin Published /\ UNCHANGED <<row, amended>>
  BY <1>0 DEF Calculate, Published
<1>4. Good(call[a])'
  BY <1>2, <1>3 DEF Good, Idle, Unpublished, OnRecord, Rebuilding, Locks, Keeps, Before, Again
<1> QED
  BY <1>0, <1>1, <1>3, <1>4, OneMoves
     DEF MonthInv, PublishedIsLocked, OneClosingEach, Closings

LEMMA RecreateInv ==
    ASSUME ~Overlap, MonthInv, TypeInv', NEW a \in Actors, Recreate(a)
    PROVE  MonthInv'
<1>0. TypeInv /\ Turns /\ Mover(a) /\ call[a] = Idle
  BY FreeMoves DEF MonthInv, Recreate, Begins
<1>1. PICK p \in SUBSET Employees :
          Does(a, [Idle EXCEPT !.at = "generate", !.people = p]) /\ amended' = amended \cup p
  BY DEF Recreate, Begins
<1>2. call'[a] = [Idle EXCEPT !.at = "generate", !.people = p]
  BY <1>0, <1>1 DEF TypeInv, Does
<1>3. UNCHANGED <<period, row>>
  BY DEF Recreate
<1>4. Good(call[a])'
  BY <1>1, <1>2, <1>3 DEF Good, Idle, Unpublished, OnRecord, Rebuilding, Locks, Keeps, Before, Again
<1> QED
  BY <1>0, <1>1, <1>3, <1>4, OneMoves
     DEF MonthInv, PublishedIsLocked, OneClosingEach, Closings

LEMMA PublishInv ==
    ASSUME ~Overlap, MonthInv, TypeInv', NEW a \in Actors, Publish(a)
    PROVE  MonthInv'
<1>0. TypeInv /\ Turns /\ Mover(a) /\ call[a] = Idle
  BY FreeMoves DEF MonthInv, Publish, Begins
<1> DEFINE c == [Idle EXCEPT !.at = "lock",
                    !.rows = {r \in Closings : row[r].status \in Adjustable},
                    !.reviewed = {r \in Closings : row[r].status = "IN_REVIEW"}]
<1>1. Does(a, c) /\ call'[a] = c
  BY <1>0 DEF Publish, Begins, TypeInv, Does
<1>2. period' = period /\ period \notin Published /\ row' = row /\ Closings' = Closings
  BY DEF Publish, Published, Closings
<1>3. \A r \in Closings : r \in c.rows \/ row[r].status \in Locking
  BY <1>0 DEF TypeInv, Rowed, Statuses, Adjustable, Locking, Closings, Idle
<1>4. Good(call[a])'
  BY <1>1, <1>2, <1>3
     DEF Good, Idle, Unpublished, OnRecord, Rebuilding, Locks, Keeps, Before, Again, Safe
<1> QED
  BY <1>0, <1>1, <1>2, <1>4, OneMoves
     DEF MonthInv, PublishedIsLocked, OneClosingEach

(* What ends, gives up or only waits: the request is over, the rows stay. *)
LEMMA EndInv ==
    ASSUME MonthInv, TypeInv', NEW a \in Actors, call[a] # Idle, Does(a, Idle),
           UNCHANGED <<row, amended>>, period' \notin Published \/ period' = period
    PROVE  MonthInv'
<1>1. Mover(a) /\ Good(call[a])'
  BY EndGood DEF MonthInv, Mover
<1> QED
  BY <1>1, OneMoves DEF MonthInv, PublishedIsLocked, OneClosingEach, Closings

(* A request that goes on to another stage without touching the rows. *)
LEMMA GoOnInv ==
    ASSUME MonthInv, TypeInv', NEW a \in Actors, call[a] # Idle, NEW c, Does(a, c),
           UNCHANGED <<row, amended, period>>, Good(c)
    PROVE  MonthInv'
<1>1. Mover(a) /\ call'[a] = c /\ Closings' = Closings
  BY DEF MonthInv, Mover, TypeInv, Does, Closings
<1>2. Good(call[a])'
  BY <1>1 DEF Good, Unpublished, OnRecord, Rebuilding, Locks, Keeps, OfEmployee, Safe
<1> QED
  BY <1>1, <1>2, OneMoves DEF MonthInv, PublishedIsLocked, OneClosingEach

LEMMA GenerateInv ==
    ASSUME MonthInv, TypeInv', NEW a \in Actors, Generate(a)
    PROVE  MonthInv'
<1>0. TypeInv /\ call[a] \in Calls /\ Good(call[a]) /\ call[a] # Idle
  BY DEF MonthInv, TypeInv, Generate, At, Idle
<1>1. CASE Throws(a)
  BY <1>0, <1>1, EndInv DEF Generate, Throws
<1>2. CASE ~Throws(a)
  <2> DEFINE c == [call[a] EXCEPT !.at = "rebuild"]
  <2>1. /\ Does(a, c) /\ UNCHANGED <<row, amended, period>> /\ call[a].at = "generate"
        /\ \A r \in Closings : row[r].emp \in call[a].people => row[r].status = "DRAFT"
    BY <1>2 DEF Generate, At
  <2>2. /\ c.at = "rebuild" /\ c.then = call[a].then /\ c.people = call[a].people
        /\ c.one = call[a].one /\ c.kept = call[a].kept
    BY <1>0 DEF Calls
  <2>3. Good(c)
    BY <1>0, <2>1, <2>2 DEF Good, Unpublished, OnRecord, Rebuilding, Locks, Keeps, Before, Again
  <2> QED
    BY <1>0, <2>1, <2>3, GoOnInv
<1> QED
  BY <1>1, <1>2

(* A request that changes the rows: what it needs of its own stage. *)
LEMMA RowsInv ==
    ASSUME MonthInv, TypeInv', NEW a \in Actors, call[a] # Idle, NEW c, Does(a, c),
           Good(call[a])', PublishedIsLocked', OneClosingEach'
    PROVE  MonthInv'
BY OneMoves DEF MonthInv, Mover

LEMMA ResetInv ==
    ASSUME MonthInv, TypeInv', NEW a \in Actors, Reset(a)
    PROVE  MonthInv'
<1>0. TypeInv /\ call[a] \in Calls /\ Good(call[a]) /\ call[a] # Idle /\ call[a].at = "reset"
  BY DEF MonthInv, TypeInv, Reset, At, Idle
<1> DEFINE c == [call[a] EXCEPT !.at = "generate", !.rows = {}, !.people = Employees]
<1>1. Does(a, c) /\ call'[a] = c /\ UNCHANGED <<period, amended>>
  BY <1>0 DEF Reset, TypeInv, Does
<1>2. /\ c.at = "generate" /\ c.people = Employees /\ c.one = None /\ c.kept \subseteq Employees
      /\ c.then = "adjust"
  BY <1>0 DEF Calls, Good, Rebuilding, OnRecord
<1>3. period \notin Published
  BY <1>0 DEF Good, Unpublished, Before
<1>4. \A r \in Rows : row'[r].emp = row[r].emp
  BY <1>0 DEF Reset, TypeInv, Rowed, Closings
<1>5. Closings' \subseteq Closings
  BY <1>0, <1>4 DEF Reset, TypeInv, Closings, NoRow
<1>6. OneClosingEach'
  BY <1>4, <1>5 DEF OneClosingEach, MonthInv, Closings
<1>7. Good(call[a])'
  BY <1>1, <1>2, <1>3 DEF Good, Unpublished, OnRecord, Rebuilding, Locks, Keeps, Before, Again
<1>8. PublishedIsLocked'
  BY <1>1, <1>3 DEF PublishedIsLocked
<1> QED
  BY <1>0, <1>1, <1>6, <1>7, <1>8, RowsInv

LEMMA ClearInv ==
    ASSUME MonthInv, TypeInv', NEW a \in Actors, Clear(a)
    PROVE  MonthInv'
<1>0. /\ TypeInv /\ call[a] \in Calls /\ Good(call[a]) /\ call[a] # Idle
      /\ call[a].at = "rebuild" /\ call[a].one = None
  BY DEF MonthInv, TypeInv, Clear, At, Idle
<1>1. PICK e \in call[a].people :
         /\ row' = [r \in Rows |-> IF r \in OfEmployee(e) /\ row[r].status = "DRAFT"
                                   THEN NoRow ELSE row[r]]
         /\ Does(a, [call[a] EXCEPT !.one = e, !.people = @ \ {e}])
  BY DEF Clear
<1> DEFINE c == [call[a] EXCEPT !.one = e, !.people = @ \ {e}]
<1>2. Does(a, c) /\ call'[a] = c /\ UNCHANGED <<period, amended>>
  BY <1>0, <1>1 DEF Clear, TypeInv, Does
<1>3. /\ c.at = "rebuild" /\ c.people = call[a].people \ {e} /\ c.one = e /\ c.then = call[a].then
      /\ c.kept = call[a].kept /\ c.fresh = call[a].fresh /\ e \in Employees
  BY <1>0, <1>1 DEF Calls
<1>4. \A r \in OfEmployee(e) : row[r].status = "DRAFT"
  BY <1>0, <1>1 DEF Good, Rebuilding, OfEmployee
<1>5. Closings' = Closings \ OfEmployee(e)
  BY <1>0, <1>1, <1>4 DEF TypeInv, Closings, OfEmployee, NoRow
<1>6. \A r \in Closings' : row'[r] = row[r]
  BY <1>0, <1>1, <1>5 DEF TypeInv, Closings
<1>7. OfEmployee(e)' = {}
  BY <1>5, <1>6 DEF OfEmployee
<1>8. \A f \in Employees \ {e} : OfEmployee(f)' = OfEmployee(f)
  BY <1>5, <1>6 DEF OfEmployee
<1>9. OneClosingEach' /\ PublishedIsLocked'
  BY <1>2, <1>5, <1>6 DEF OneClosingEach, PublishedIsLocked, MonthInv
<1>10. (Unpublished(call[a]) /\ OnRecord(call[a]))'
  BY <1>0, <1>1, <1>2, <1>3 DEF Good, Unpublished, OnRecord, Before, Again
<1>11. (Rebuilding(call[a]) /\ Locks(call[a]))'
  BY <1>0, <1>2, <1>3, <1>5, <1>6, <1>7 DEF Good, Rebuilding, Locks
<1>12. Keeps(call[a])'
  BY <1>0, <1>2, <1>3, <1>8 DEF Good, Keeps, Calls
<1> QED
  BY <1>0, <1>2, <1>9, <1>10, <1>11, <1>12, RowsInv DEF Good

LEMMA CreateInv ==
    ASSUME MonthInv, TypeInv', NEW a \in Actors, Create(a)
    PROVE  MonthInv'
<1>e. PICK e \in Employees : e = call[a].one
  BY DEF MonthInv, TypeInv, Create, Calls
<1>0. /\ TypeInv /\ call[a] \in Calls /\ Good(call[a]) /\ call[a] # Idle
      /\ call[a].at = "rebuild" /\ e # None /\ e = call[a].one
  BY <1>e DEF MonthInv, TypeInv, Create, At, Idle, Calls
<1>1. PICK r \in Rows :
         /\ row[r] = NoRow
         /\ row' = [row EXCEPT ![r] = [NoRow EXCEPT !.emp = e, !.current = e \notin call[a].old]]
         /\ Does(a, [call[a] EXCEPT !.one = None,
                       !.fresh = IF e \in call[a].kept THEN @ \cup {r} ELSE @,
                       !.at = IF call[a].people = {} THEN call[a].then ELSE @])
  BY <1>0 DEF Create
<1> DEFINE c == [call[a] EXCEPT !.one = None,
                       !.fresh = IF e \in call[a].kept THEN @ \cup {r} ELSE @,
                       !.at = IF call[a].people = {} THEN call[a].then ELSE @]
<1>2. Does(a, c) /\ call'[a] = c /\ UNCHANGED <<period, amended>>
  BY <1>0, <1>1 DEF Create, TypeInv, Does
<1>3. /\ c.at = (IF call[a].people = {} THEN call[a].then ELSE "rebuild")
      /\ c.people = call[a].people /\ c.one = None /\ c.then = call[a].then
      /\ c.kept = call[a].kept /\ c.then \in {"adjust", "idle"}
      /\ c.fresh = IF e \in call[a].kept THEN call[a].fresh \cup {r} ELSE call[a].fresh
  BY <1>0 DEF Calls
<1>4. row'[r].emp = e /\ row'[r].status = "DRAFT" /\ \A q \in Rows \ {r} : row'[q] = row[q]
  BY <1>0, <1>1 DEF TypeInv, NoRow
<1>5. Closings' = Closings \cup {r} /\ r \notin Closings
  <2>1. row'[r] # NoRow
    BY <1>0, <1>4 DEF NoRow
  <2> QED
    BY <1>0, <1>1, <1>4, <2>1 DEF Closings
<1>6. OfEmployee(e) = {}
  BY <1>0 DEF Good, Rebuilding
<1>7. \A q \in Closings : row'[q] = row[q] /\ row[q].emp # e
  BY <1>4, <1>5, <1>6 DEF OfEmployee, Closings
<1>8. OneClosingEach'
  BY <1>4, <1>5, <1>7 DEF OneClosingEach, MonthInv
<1>9. PublishedIsLocked'
  <2>1. CASE call[a].then = "adjust"
    BY <1>0, <1>2, <2>1 DEF Good, Unpublished, Again, PublishedIsLocked
  <2>2. CASE call[a].then = "idle"
    BY <1>0, <1>2, <1>4, <1>5, <1>7, <2>2
       DEF Good, OnRecord, Again, PublishedIsLocked, MonthInv
  <2> QED
    BY <1>3, <2>1, <2>2
<1>10. (Unpublished(call[a]) /\ OnRecord(call[a]) /\ Locks(call[a]))'
  BY <1>0, <1>2, <1>3 DEF Good, Unpublished, OnRecord, Locks, Before, Again
<1>11. Rebuilding(call[a])'
  BY <1>0, <1>2, <1>3, <1>4, <1>5, <1>7 DEF Good, Rebuilding
<1>12. \A f \in call[a].kept : f \in call[a].people \/ \E q \in OfEmployee(f)' : q \in c.fresh
  <2>1. r \in OfEmployee(e)'
    BY <1>4, <1>5 DEF OfEmployee
  <2>2. \A f \in Employees : OfEmployee(f) \subseteq OfEmployee(f)'
    BY <1>5, <1>7 DEF OfEmployee
  <2> QED
    BY <1>0, <1>3, <2>1, <2>2 DEF Good, Keeps, Calls
<1>13. Keeps(call[a])'
  BY <1>2, <1>3, <1>12 DEF Keeps
<1> QED
  BY <1>0, <1>2, <1>8, <1>9, <1>10, <1>11, <1>13, RowsInv DEF Good

(* Rows that stay where they are and whose they are.                         *)
LEMMA SameRows ==
    ASSUME MonthInv, UNCHANGED <<period, amended>>, Closings' = Closings,
           \A r \in Closings : /\ row'[r].emp = row[r].emp /\ row'[r].status = row[r].status
                               /\ row[r].adjusted => row'[r].adjusted
    PROVE  /\ PublishedIsLocked' /\ OneClosingEach'
           /\ \A e : OfEmployee(e)' = OfEmployee(e)
<1>1. PublishedIsLocked' /\ OneClosingEach'
  BY DEF MonthInv, PublishedIsLocked, OneClosingEach
<1>2. ASSUME NEW e PROVE OfEmployee(e)' = OfEmployee(e)
  BY DEF OfEmployee
<1> QED
  BY <1>1, <1>2

LEMMA AdjustInv ==
    ASSUME MonthInv, TypeInv', NEW a \in Actors, Adjust(a)
    PROVE  MonthInv'
<1>0. /\ TypeInv /\ call[a] \in Calls /\ Good(call[a]) /\ call[a] # Idle
      /\ call[a].at = "adjust" /\ UNCHANGED <<period, amended>>
  BY DEF MonthInv, TypeInv, Adjust, At, Idle, Calls
<1>1. CASE call[a].fresh = {} /\ row' = row /\ Does(a, [call[a] EXCEPT !.at = "sync"])
  <2> DEFINE c == [call[a] EXCEPT !.at = "sync"]
  <2>1. /\ c.at = "sync" /\ c.one = call[a].one /\ c.kept = call[a].kept /\ c.then = call[a].then
    BY <1>0 DEF Calls
  <2>2. Good(c)
    BY <1>0, <1>1, <2>1 DEF Good, Unpublished, OnRecord, Rebuilding, Locks, Keeps, Before, Again
  <2> QED
    BY <1>0, <1>1, <2>2, GoOnInv
<1>2. ASSUME NEW r \in call[a].fresh, r \in Closings, row' = [row EXCEPT ![r].adjusted = TRUE],
             Does(a, [call[a] EXCEPT !.fresh = @ \ {r}])
      PROVE  MonthInv'
  <2> DEFINE c == [call[a] EXCEPT !.fresh = @ \ {r}]
  <2>1. Does(a, c) /\ call'[a] = c
    BY <1>0, <1>2 DEF TypeInv, Does
  <2>2. /\ c.at = "adjust" /\ c.one = call[a].one /\ c.kept = call[a].kept /\ c.then = call[a].then
        /\ c.fresh = call[a].fresh \ {r}
    BY <1>0 DEF Calls
  <2>3. /\ row'[r].emp = row[r].emp /\ row'[r].status = row[r].status /\ row'[r].adjusted = TRUE
        /\ \A q \in Rows \ {r} : row'[q] = row[q]
    BY <1>0, <1>2 DEF TypeInv, Rowed, Closings
  <2>4. Closings' = Closings
    BY <1>0, <1>2, <2>3 DEF Closings, TypeInv, NoRow
  <2>5. PublishedIsLocked' /\ OneClosingEach' /\ \A e : OfEmployee(e)' = OfEmployee(e)
    BY <1>0, <2>3, <2>4, SameRows DEF Closings
  <2>6. Good(call[a])'
    BY <1>0, <2>1, <2>2, <2>3, <2>5
       DEF Good, Unpublished, OnRecord, Rebuilding, Locks, Keeps, Before, Again, OfEmployee, Closings
  <2> QED
    BY <1>0, <2>1, <2>5, <2>6, RowsInv
<1>3. CASE Does(a, Idle) /\ row' = row
  BY <1>0, <1>3, EndInv
<1> QED
  BY <1>1, <1>2, <1>3 DEF Adjust

LEMMA FinishInv ==
    ASSUME MonthInv, TypeInv', NEW a \in Actors, SyncPayrolls(a) \/ Total(a) \/ Done(a) \/ Crash(a)
    PROVE  MonthInv'
<1>0. TypeInv /\ call[a] \in Calls /\ Good(call[a]) /\ call[a] # Idle
  BY DEF MonthInv, TypeInv, SyncPayrolls, Total, Done, Crash, At, Idle
<1>1. CASE SyncPayrolls(a)
  <2> DEFINE c == [call[a] EXCEPT !.at = "total"]
  <2>1. c.at = "total" /\ c.one = call[a].one /\ c.kept = call[a].kept /\ c.then = call[a].then
    BY <1>0 DEF Calls
  <2>2. Good(c)
    BY <1>0, <1>1, <2>1
       DEF SyncPayrolls, At, Good, Unpublished, OnRecord, Rebuilding, Locks, Keeps, Before, Again
  <2> QED
    BY <1>0, <1>1, <2>2, GoOnInv DEF SyncPayrolls
<1>2. CASE Total(a)
  BY <1>0, <1>2, EndInv DEF Total, Published
<1>3. CASE Done(a) \/ Crash(a)
  BY <1>0, <1>3, EndInv DEF Done, Crash
<1> QED
  BY <1>1, <1>2, <1>3

(* A closing that moves from one status to another. *)
LEMMA Moved ==
    ASSUME TypeInv, NEW r \in Closings, NEW s \in Statuses, Moves(r, s)
    PROVE  /\ Closings' = Closings
           /\ row'[r].status = s /\ row'[r].emp = row[r].emp
           /\ \A q \in Closings \ {r} : row'[q] = row[q]
           /\ \A q \in Closings : row'[q].emp = row[q].emp
<1>1. /\ row'[r].status = s /\ row'[r].emp = row[r].emp /\ \A q \in Rows \ {r} : row'[q] = row[q]
  BY DEF TypeInv, Rowed, Closings, Moves
<1>2. Closings' = Closings
  BY <1>1 DEF Closings, TypeInv, NoRow
<1> QED
  BY <1>1, <1>2 DEF Closings

LEMMA MovedInv ==
    ASSUME MonthInv, TypeInv', NEW a \in Actors, call[a] # Idle, UNCHANGED <<period, amended>>,
           call[a].at = "lock",
           NEW r \in Closings, r \in call[a].rows, NEW s \in Statuses, Moves(r, s),
           NEW c, Does(a, c), c.at = "lock", c.one = call[a].one,
           \A q \in call[a].rows : q \in c.rows \/ (q = r /\ s \in Locking)
    PROVE  MonthInv'
<1>0. TypeInv /\ call[a] \in Calls /\ Good(call[a]) /\ call'[a] = c
  BY DEF MonthInv, TypeInv, Does
<1>1. /\ Closings' = Closings
      /\ row'[r].status = s /\ row'[r].emp = row[r].emp
      /\ \A q \in Closings \ {r} : row'[q] = row[q]
      /\ \A q \in Closings : row'[q].emp = row[q].emp
  BY <1>0, Moved
<1>2. OneClosingEach'
  BY <1>1 DEF OneClosingEach, MonthInv
<1>3. PublishedIsLocked'
  BY <1>0, <1>1 DEF PublishedIsLocked, MonthInv, Good, Unpublished, Before
<1>4. c.one = None
  BY <1>0 DEF Good, Rebuilding
<1>5. Locks(call[a])'
  BY <1>0, <1>1 DEF Good, Locks, Safe
<1>6. Good(call[a])'
  BY <1>0, <1>4, <1>5 DEF Good, Unpublished, OnRecord, Rebuilding, Keeps, Before, Again
<1> QED
  BY <1>2, <1>3, <1>6, RowsInv

(* Returning and paying do not ask which closings are left. *)
LEMMA FreedInv ==
    ASSUME MonthInv, TypeInv', NEW a \in Actors, call[a] # Idle, UNCHANGED <<period, amended>>,
           call[a].at \in {"unlock", "close"},
           NEW r \in Closings, NEW s \in Statuses, Moves(r, s),
           NEW c, Does(a, c), c.at = call[a].at, c.one = call[a].one,
           call[a].at = "close" => s \in Locking
    PROVE  MonthInv'
<1>0. TypeInv /\ call[a] \in Calls /\ Good(call[a]) /\ call'[a] = c
  BY DEF MonthInv, TypeInv, Does
<1>1. /\ Closings' = Closings
      /\ row'[r].status = s /\ row'[r].emp = row[r].emp
      /\ \A q \in Closings \ {r} : row'[q] = row[q]
      /\ \A q \in Closings : row'[q].emp = row[q].emp
  BY <1>0, Moved
<1>2. OneClosingEach'
  BY <1>1 DEF OneClosingEach, MonthInv
<1>3. PublishedIsLocked'
  BY <1>0, <1>1 DEF PublishedIsLocked, MonthInv, Good, Unpublished, Before
<1>4. Good(call[a])'
  BY <1>0 DEF Good, Unpublished, OnRecord, Rebuilding, Locks, Keeps, Before, Again
<1> QED
  BY <1>2, <1>3, <1>4, RowsInv

LEMMA LockInv ==
    ASSUME MonthInv, TypeInv', NEW a \in Actors, Lock(a)
    PROVE  MonthInv'
<1>0. /\ TypeInv /\ call[a] \in Calls /\ call[a] # Idle
      /\ call[a].at = "lock" /\ UNCHANGED amended
  BY DEF MonthInv, TypeInv, Lock, At, Idle, Calls
<1>1. CASE Throws(a)
  BY <1>0, <1>1, EndInv DEF Throws
<1>2. ASSUME NEW r \in call[a].rows, r \in Closings, Moves(r, "IN_REVIEW"), UNCHANGED period,
             Does(a, [call[a] EXCEPT !.reviewed = @ \cup {r}])
      PROVE  MonthInv'
  <2> DEFINE c == [call[a] EXCEPT !.reviewed = @ \cup {r}]
  <2>1. c.at = call[a].at /\ c.one = call[a].one /\ c.then = call[a].then /\ c.kept = call[a].kept
        /\ c.rows = call[a].rows
    BY <1>0 DEF Calls
  <2>2. Does(a, c) /\ "IN_REVIEW" \in Statuses
    BY <1>2 DEF Statuses
  <2> HIDE DEF c
  <2> QED
    BY <1>0, <1>2, <2>1, <2>2, MovedInv
<1>3. ASSUME NEW r \in call[a].rows, r \in Closings, Moves(r, "APPROVED"), UNCHANGED period,
             Does(a, [call[a] EXCEPT !.rows = @ \ {r}, !.reviewed = @ \ {r}])
      PROVE  MonthInv'
  <2> DEFINE c == [call[a] EXCEPT !.rows = @ \ {r}, !.reviewed = @ \ {r}]
  <2>1. c.at = call[a].at /\ c.one = call[a].one /\ c.then = call[a].then /\ c.kept = call[a].kept
        /\ c.rows = call[a].rows \ {r}
    BY <1>0 DEF Calls
  <2>2. Does(a, c) /\ "APPROVED" \in Statuses /\ "APPROVED" \in Locking
    BY <1>3 DEF Statuses, Locking
  <2> HIDE DEF c
  <2> QED
    BY <1>0, <1>3, <2>1, <2>2, MovedInv
<1> QED
  BY <1>1, <1>2, <1>3 DEF Lock

(* The stages that read, and the payrolls, leave the closings alone. *)
LEMMA ReadPayrollsInv ==
    ASSUME MonthInv, TypeInv', NEW a \in Actors, NEW stage, NEW next, NEW status,
           <<stage, next>> \in {<<"lock", "approve">>, <<"unlock", "reopen">>, <<"paid", "pay">>},
           ReadPayrolls(a, stage, next, status)
    PROVE  MonthInv'
<1>0. /\ TypeInv /\ call[a] \in Calls /\ Good(call[a]) /\ call[a] # Idle
      /\ call[a].at = stage /\ call[a].rows = {}
  BY DEF MonthInv, TypeInv, ReadPayrolls, At, Idle
<1> DEFINE c == [call[a] EXCEPT !.at = next, !.people = {e \in Employees : pay[e] = status}]
<1>1. Does(a, c) /\ UNCHANGED <<row, amended, period>>
  BY DEF ReadPayrolls
<1>2. c.at = next /\ c.one = call[a].one
  BY <1>0 DEF Calls
<1>3. Good(c)
  BY <1>0, <1>2 DEF Good, Unpublished, OnRecord, Rebuilding, Locks, Keeps, Before, Again
<1> HIDE DEF c
<1> QED
  BY <1>0, <1>1, <1>3, GoOnInv

LEMMA ReadClosingsInv ==
    ASSUME MonthInv, TypeInv', NEW a \in Actors, NEW stage, NEW next, NEW statuses,
           <<stage, next>> \in {<<"returned", "unlock">>, <<"pay", "close">>},
           ReadClosings(a, stage, next, statuses)
    PROVE  MonthInv'
<1>0. /\ TypeInv /\ call[a] \in Calls /\ Good(call[a]) /\ call[a] # Idle /\ call[a].at = stage
  BY DEF MonthInv, TypeInv, ReadClosings, At, Idle
<1> DEFINE c == [call[a] EXCEPT !.at = next, !.rows = {r \in Closings : row[r].status \in statuses}]
<1>1. Does(a, c) /\ UNCHANGED <<row, amended, period>>
  BY DEF ReadClosings
<1>2. c.at = next /\ c.one = call[a].one
  BY <1>0 DEF Calls
<1>3. Good(c)
  BY <1>0, <1>2 DEF Good, Unpublished, OnRecord, Rebuilding, Locks, Keeps, Before, Again
<1> HIDE DEF c
<1> QED
  BY <1>0, <1>1, <1>3, GoOnInv

LEMMA OnePayrollInv ==
    ASSUME MonthInv, TypeInv', NEW a \in Actors, NEW stage \in {"approve", "reopen", "pay"},
           NEW from, NEW to, OnePayroll(a, stage, from, to)
    PROVE  MonthInv'
<1>0. /\ TypeInv /\ call[a] \in Calls /\ Good(call[a]) /\ call[a] # Idle /\ call[a].at = stage
      /\ UNCHANGED amended
  BY DEF MonthInv, TypeInv, OnePayroll, At, Idle
<1>1. CASE Throws(a)
  BY <1>0, <1>1, EndInv DEF Throws
<1>2. ASSUME NEW e \in call[a].people, Does(a, [call[a] EXCEPT !.people = @ \ {e}]),
             UNCHANGED <<period, row>>
      PROVE  MonthInv'
  <2> DEFINE c == [call[a] EXCEPT !.people = @ \ {e}]
  <2>1. Does(a, c)
    BY <1>2
  <2>2. c.at = stage /\ c.one = call[a].one
    BY <1>0 DEF Calls
  <2>3. Good(c)
    BY <1>0, <2>2 DEF Good, Unpublished, OnRecord, Rebuilding, Locks, Keeps, Before, Again
  <2> HIDE DEF c
  <2> QED
    BY <1>0, <1>2, <2>1, <2>3, GoOnInv
<1> QED
  BY <1>1, <1>2 DEF OnePayroll

LEMMA OneClosingInv ==
    ASSUME MonthInv, TypeInv', NEW a \in Actors, NEW stage, NEW from, NEW to,
           <<stage, to>> \in {<<"unlock", "DRAFT">>, <<"close", "CLOSED">>},
           OneClosing(a, stage, from, to)
    PROVE  MonthInv'
<1>0. /\ TypeInv /\ call[a] \in Calls /\ call[a] # Idle /\ call[a].at = stage /\ UNCHANGED amended
  BY DEF MonthInv, TypeInv, OneClosing, At, Idle
<1>1. CASE Throws(a)
  BY <1>0, <1>1, EndInv DEF Throws
<1>2. ASSUME NEW r \in call[a].rows, r \in Closings, Moves(r, to), UNCHANGED period,
             Does(a, [call[a] EXCEPT !.rows = @ \ {r}])
      PROVE  MonthInv'
  <2> DEFINE c == [call[a] EXCEPT !.rows = @ \ {r}]
  <2>1. c.at = call[a].at /\ c.one = call[a].one /\ c.then = call[a].then /\ c.kept = call[a].kept
    BY <1>0 DEF Calls
  <2>2. Does(a, c) /\ to \in Statuses /\ (stage = "close" => to \in Locking)
    BY <1>2 DEF Statuses, Locking
  <2> HIDE DEF c
  <2> QED
    BY <1>0, <1>2, <2>1, <2>2, FreedInv
<1> QED
  BY <1>1, <1>2 DEF OneClosing

LEMMA ClaimInv ==
    ASSUME MonthInv, TypeInv', NEW a \in Actors, Claim(a)
    PROVE  MonthInv'
<1>0. /\ TypeInv /\ call[a] \in Calls /\ Good(call[a]) /\ call[a] # Idle /\ call[a].at = "approve"
      /\ Does(a, Idle) /\ UNCHANGED <<row, amended>> /\ Mover(a)
  BY DEF MonthInv, TypeInv, Claim, At, Idle, Mover
<1>1. \A r \in Closings : Safe(r)
  BY <1>0 DEF Good, Locks
<1>2. PublishedIsLocked' /\ OneClosingEach'
  BY <1>0, <1>1 DEF PublishedIsLocked, OneClosingEach, Safe, Closings, MonthInv
<1>3. Good(call[a])'
  BY <1>0, EndGood
<1> QED
  BY <1>0, <1>2, <1>3, RowsInv

(* HR moves the period on before anything else. *)
LEMMA HRInv ==
    ASSUME ~Overlap, MonthInv, TypeInv', NEW a \in Actors, Return(a) \/ MarkPaid(a)
    PROVE  MonthInv'
<1>0. TypeInv /\ Turns /\ Mover(a) /\ call[a] = Idle /\ UNCHANGED <<row, amended>>
  BY FreeMoves DEF MonthInv, Return, MarkPaid, Begins
<1>1. PublishedIsLocked' /\ OneClosingEach'
  BY <1>0 DEF Return, MarkPaid, PublishedIsLocked, OneClosingEach, Closings, MonthInv, Published
<1>2. PICK at \in {"returned", "paid"} :
         /\ Does(a, [Idle EXCEPT !.at = at])
         /\ at = "returned" => period' \notin Published
  BY DEF Return, MarkPaid, Begins, Published
<1>3. call'[a] = [Idle EXCEPT !.at = at]
  BY <1>0, <1>2 DEF TypeInv, Does
<1>4. Good(call[a])'
  BY <1>2, <1>3 DEF Good, Idle, Unpublished, OnRecord, Rebuilding, Locks, Keeps, Before, Again
<1> QED
  BY <1>0, <1>1, <1>2, <1>4, OneMoves DEF MonthInv

(* When nobody is at work only the closings matter. *)
LEMMA FreeInv ==
    ASSUME ~Overlap, MonthInv, Free, TypeInv', UNCHANGED call, PublishedIsLocked', OneClosingEach'
    PROVE  MonthInv'
<1>1. \A a \in Actors : call'[a] = Idle
  BY FreeMoves
<1>2. \A a \in Actors : Good(call[a])'
  BY <1>1 DEF Good, Idle, Unpublished, OnRecord, Rebuilding, Locks, Keeps, Before, Again
<1>3. Turns'
  BY <1>1 DEF Turns
<1> QED
  BY <1>2, <1>3 DEF MonthInv

LEMMA ByHandInv ==
    ASSUME ~Overlap, MonthInv, TypeInv',
           Release \/ (\E r \in Rows : ClosingByHand(r)) \/ (\E e \in Employees : PayrollByHand(e))
    PROVE  MonthInv'
<1>1. CASE Release
  <2>1. PublishedIsLocked' /\ OneClosingEach'
    BY <1>1 DEF Release, MonthInv, PublishedIsLocked, OneClosingEach, Closings, Published
  <2> QED
    BY <1>1, <2>1, FreeInv DEF Release
<1>2. CASE \E e \in Employees : PayrollByHand(e)
  <2>1. PublishedIsLocked' /\ OneClosingEach'
    BY <1>2 DEF PayrollByHand, MonthInv, PublishedIsLocked, OneClosingEach, Closings
  <2> QED
    BY <1>2, <2>1, FreeInv DEF PayrollByHand
<1>3. CASE \E r \in Rows : ClosingByHand(r)
  <2>1. PICK r \in Closings : ClosingByHand(r)
    BY <1>3 DEF ClosingByHand
  <2>2. TypeInv /\ r \in Rows /\ row[r] # NoRow /\ row[r] \in Rowed
    BY <2>1 DEF MonthInv, TypeInv, Closings
  <2>3. /\ \A q \in Rows \ {r} : row'[q] = row[q]
        /\ row'[r] = NoRow \/ row'[r].emp = row[r].emp
    BY <2>1, <2>2 DEF ClosingByHand, Moves, TypeInv, Rowed
  <2>4. /\ amended' = amended \cup {row[r].emp} /\ UNCHANGED <<period, call>> /\ Free
    BY <2>1 DEF ClosingByHand
  <2>5. /\ Closings' \subseteq Closings
        /\ \A q \in Closings' : /\ row'[q].emp = row[q].emp
                                /\ q # r => row'[q] = row[q]
    BY <2>2, <2>3 DEF Closings
  <2>6. OneClosingEach'
    BY <2>5 DEF OneClosingEach, MonthInv
  <2>7. PublishedIsLocked'
    BY <2>4, <2>5 DEF PublishedIsLocked, MonthInv
  <2> QED
    BY <2>4, <2>6, <2>7, FreeInv
<1> QED
  BY <1>1, <1>2, <1>3

(* The point is written while others work: closings only get outdated. *)
LEMMA PointInv ==
    ASSUME MonthInv, TypeInv', NEW e \in Employees, WritePoint(e)
    PROVE  MonthInv'
<1>0. TypeInv /\ UNCHANGED <<period, amended>>
  BY DEF MonthInv, WritePoint
<1>1. \A r \in Rows : /\ row'[r].emp = row[r].emp /\ row'[r].status = row[r].status
                      /\ row'[r].adjusted = row[r].adjusted
  BY <1>0 DEF WritePoint, TypeInv, Rowed
<1>2. Closings' = Closings
  <2>1. \A r \in Closings : row'[r].emp # None
    BY <1>0, <1>1 DEF TypeInv, Closings
  <2>2. \A r \in Rows \ Closings : row'[r] = row[r]
    BY <1>0 DEF WritePoint, OfEmployee, Closings, TypeInv
  <2>3. \A r \in Rows : row'[r] = NoRow <=> row[r] = NoRow
    <3>1. NoRow.emp = None
      BY DEF NoRow
    <3>2. \A r \in Closings : row'[r] # NoRow /\ row[r] # NoRow
      BY <2>1, <3>1 DEF Closings
    <3>3. \A r \in Rows \ Closings : row'[r] = NoRow /\ row[r] = NoRow
      BY <2>2 DEF Closings
    <3> QED
      BY <3>2, <3>3
  <2> QED
    BY <2>3 DEF Closings
<1>3. PublishedIsLocked' /\ OneClosingEach' /\ \A f : OfEmployee(f)' = OfEmployee(f)
  BY <1>0, <1>1, <1>2, SameRows DEF Closings
<1>4. ASSUME NEW a \in Actors
      PROVE  \/ call'[a] = call[a] /\ call[a].at # "rebuild"
             \/ call'[a] = [call[a] EXCEPT !.old = @ \cup {e}] /\ call[a].at = "rebuild"
  BY <1>0 DEF WritePoint, TypeInv, At
<1>5. \A a \in Actors : call'[a] # Idle => call[a] # Idle
  <2>1. Idle.at # "rebuild"
    BY DEF Idle
  <2> QED
    BY <1>4, <2>1
<1>6. ASSUME NEW a \in Actors PROVE Good(call[a])'
  <2>1. Good(call[a])
    BY DEF MonthInv
  <2>2. /\ call'[a].at = call[a].at /\ call'[a].then = call[a].then /\ call'[a].rows = call[a].rows
        /\ call'[a].people = call[a].people /\ call'[a].one = call[a].one
        /\ call'[a].kept = call[a].kept /\ call'[a].fresh = call[a].fresh
    <3>1. call[a] \in Calls
      BY <1>0 DEF TypeInv
    <3>2. CASE call'[a] = [call[a] EXCEPT !.old = @ \cup {e}]
      BY <3>1, <3>2 DEF Calls
    <3> QED
      BY <1>4, <3>2
  <2>3. \A r \in Closings : Safe(r)' = Safe(r)
    BY <1>0, <1>1 DEF Safe, Closings
  <2>4. (Unpublished(call[a]) /\ OnRecord(call[a]))'
    BY <1>0, <2>1, <2>2 DEF Good, Unpublished, OnRecord
  <2>5. (Rebuilding(call[a]) /\ Locks(call[a]))'
    BY <1>1, <1>2, <1>3, <2>1, <2>2, <2>3 DEF Good, Rebuilding, Locks, Closings
  <2>6. Keeps(call[a])'
    <3>1. \A f : \A r \in OfEmployee(f) : row'[r].adjusted = row[r].adjusted
      BY <1>1 DEF OfEmployee, Closings
    <3> QED
      BY <1>3, <2>1, <2>2, <3>1 DEF Good, Keeps
  <2> QED
    BY <2>4, <2>5, <2>6 DEF Good
<1>7. Turns'
  BY <1>5 DEF Turns, MonthInv
<1> QED
  BY <1>3, <1>6, <1>7 DEF MonthInv

LEMMA SameInv ==
    ASSUME MonthInv, TypeInv', UNCHANGED <<period, row, call, amended>>
    PROVE  MonthInv'
<1>1. PublishedIsLocked' /\ OneClosingEach' /\ Turns'
  BY DEF MonthInv, PublishedIsLocked, OneClosingEach, Turns, Closings
<1>2. \A a \in Actors : Good(call[a])'
  BY DEF MonthInv, Good, Unpublished, OnRecord, Rebuilding, Locks, Keeps, Safe, OfEmployee, Closings
<1> QED
  BY <1>1, <1>2 DEF MonthInv

(* Every step of people who take turns keeps the invariant. *)
LEMMA StepInv == ~Overlap /\ MonthInv /\ [Next]_monthVars => MonthInv'
<1> SUFFICES ASSUME ~Overlap, MonthInv, [Next]_monthVars PROVE MonthInv'
  OBVIOUS
<1>0. TypeInv'
  BY TypeStep DEF MonthInv
<1>1. CASE UNCHANGED monthVars \/ \E e \in Employees : AssertTimePeriodOpen(e)
  BY <1>0, <1>1, SameInv DEF monthVars, AssertTimePeriodOpen
<1>2. CASE \E a \in Actors : Accountant(a) \/ HR(a) \/ Crash(a)
  <2>1. PICK a \in Actors : Accountant(a) \/ HR(a) \/ Crash(a)
    BY <1>2
  <2>2. CASE Accountant(a)
    BY <1>0, <2>2, CalculateInv, ResetInv, GenerateInv, ClearInv, CreateInv, AdjustInv, FinishInv,
       PublishInv, LockInv, ReadPayrollsInv, OnePayrollInv, ClaimInv DEF Accountant
  <2>3. CASE HR(a)
    BY <1>0, <2>3, RecreateInv, HRInv, ReadClosingsInv, OneClosingInv, ReadPayrollsInv,
       OnePayrollInv, FinishInv DEF HR
  <2> QED
    BY <1>0, <2>1, <2>2, <2>3, FinishInv
<1>3. CASE Release \/ (\E r \in Rows : ClosingByHand(r)) \/ (\E e \in Employees : PayrollByHand(e))
  BY <1>0, <1>3, ByHandInv
<1>4. CASE \E e \in Employees : WritePoint(e)
  BY <1>0, <1>4, PointInv
<1> QED
  BY <1>1, <1>2, <1>3, <1>4 DEF Next

LEMMA InitInv == Init => MonthInv
BY InitTypes, IdleGood
   DEF Init, MonthInv, Turns, PublishedIsLocked, OneClosingEach, Closings, Published

(* People who take turns never leave an employee with two closings, whatever *)
(* stops half way.                                                           *)
THEOREM OneClosingForEach == ASSUME ~Overlap PROVE MonthSpec => []OneClosingEach
<1>1. MonthInv /\ [Next]_monthVars => MonthInv'
  BY StepInv
<1>2. MonthInv => OneClosingEach
  BY DEF MonthInv
<1> QED
  BY <1>1, <1>2, InitInv, PTL DEF MonthSpec

(* The closings of a month that HR has are locked, except those of employees *)
(* somebody changed by hand since it was published.  It says nothing of the  *)
(* payrolls.                                                                 *)
THEOREM PublishedMonthIsLocked == ASSUME ~Overlap PROVE MonthSpec => []PublishedIsLocked
<1>1. MonthInv /\ [Next]_monthVars => MonthInv'
  BY StepInv
<1>2. MonthInv => PublishedIsLocked
  BY DEF MonthInv
<1> QED
  BY <1>1, <1>2, InitInv, PTL DEF MonthSpec

-----------------------------------------------------------------------------
(* The ways in which an adjustment is lost.                                  *)

Lost(e) ==
    \/ \E a \in Actors : Clear(a) /\ e \notin call[a].kept
    \/ \E a \in Actors : Recalls(a, e) /\ call'[a] = Idle
    \/ \E r \in OfEmployee(e) : ClosingByHand(r)

Holding == {"reset", "generate", "rebuild", "adjust"}

(* An adjusted closing that stays what it is, or a calculation that goes on. *)
LEMMA StaysRemembered ==
    ASSUME TypeInv, NEW e \in Employees, Remembered(e),
           \A r \in OfEmployee(e) : row[r].adjusted => row'[r].emp = e /\ row'[r].adjusted,
           \A a \in Actors : Recalls(a, e) => Recalls(a, e)'
    PROVE  Remembered(e)'
<1>1. CASE \E r \in OfEmployee(e) : row[r].adjusted
  <2>1. PICK r \in OfEmployee(e) : row[r].adjusted
    BY <1>1
  <2>2. row'[r].emp = e /\ row'[r].adjusted /\ r \in Rows /\ e # None
    BY <2>1 DEF OfEmployee, Closings
  <2>3. NoRow.adjusted = FALSE
    BY DEF NoRow
  <2>4. r \in OfEmployee(e)'
    BY <2>2, <2>3 DEF OfEmployee, Closings
  <2> QED
    BY <2>2, <2>4 DEF Remembered
<1>2. CASE \E a \in Actors : Recalls(a, e)
  BY <1>2 DEF Remembered
<1> QED
  BY <1>1, <1>2 DEF Remembered

(* The rows are as they were, or changed in what is not the adjustment. *)
SameAdjusted == \A r \in Rows : row[r].adjusted => row'[r].adjusted /\ row'[r].emp = row[r].emp

LEMMA RowsRemember ==
    ASSUME TypeInv, NEW e \in Employees, Remembered(e), SameAdjusted,
           \A a \in Actors : Recalls(a, e) => Recalls(a, e)'
    PROVE  Remembered(e)'
<1>1. \A r \in OfEmployee(e) : row[r].adjusted => row'[r].emp = e /\ row'[r].adjusted
  BY DEF SameAdjusted, OfEmployee, Closings
<1> QED
  BY <1>1, StaysRemembered

(* A request that keeps nothing, or keeps it on, leaves the rest to the rows.*)
LEMMA OneRecalls ==
    ASSUME TypeInv, NEW e \in Employees, NEW a \in Actors, NEW c, Does(a, c),
           Recalls(a, e) => c.at \in Holding /\ e \in c.kept
    PROVE  \A b \in Actors : Recalls(b, e) => Recalls(b, e)'
BY DEF TypeInv, Does, Recalls, Holding

LEMMA EndRecalls ==
    ASSUME TypeInv, NEW e \in Employees, NEW a \in Actors, Does(a, Idle)
    PROVE  \/ Lost(e)
           \/ \A b \in Actors : Recalls(b, e) => Recalls(b, e)'
<1>1. call'[a] = Idle
  BY DEF TypeInv, Does
<1>2. CASE Recalls(a, e)
  BY <1>1, <1>2 DEF Lost
<1>3. CASE ~Recalls(a, e)
  BY <1>3, OneRecalls
<1> QED
  BY <1>2, <1>3

(* Each step of a calculation. *)
LEMMA CalculationKeeps ==
    ASSUME MonthInv, MonthInv', NEW e \in Employees, Remembered(e), NEW a \in Actors,
           Reset(a) \/ Generate(a) \/ Clear(a) \/ Create(a) \/ Adjust(a)
    PROVE  Lost(e) \/ Remembered(e)'
<1>0. TypeInv /\ call[a] \in Calls /\ Good(call[a])
  BY DEF MonthInv, TypeInv
<1>1. CASE Reset(a)
  <2> DEFINE c == [call[a] EXCEPT !.at = "generate", !.rows = {}, !.people = Employees]
  <2>1. Does(a, c) /\ c.at \in Holding /\ c.kept = call[a].kept
    BY <1>0, <1>1 DEF Reset, Calls, Holding
  <2>2. SameAdjusted
    BY <1>0, <1>1 DEF Reset, SameAdjusted, TypeInv, Rowed
  <2> HIDE DEF c
  <2> QED
    BY <1>0, <2>1, <2>2, OneRecalls, RowsRemember DEF Recalls
<1>2. CASE Generate(a)
  <2>1. SameAdjusted
    BY <1>2 DEF Generate, Throws, SameAdjusted
  <2>2. CASE Throws(a)
    BY <1>0, <2>1, <2>2, EndRecalls, RowsRemember DEF Throws
  <2>3. CASE ~Throws(a)
    <3> DEFINE c == [call[a] EXCEPT !.at = "rebuild"]
    <3>1. Does(a, c) /\ c.at \in Holding /\ c.kept = call[a].kept
      BY <1>0, <1>2, <2>3 DEF Generate, Calls, Holding
    <3> HIDE DEF c
    <3> QED
      BY <1>0, <2>1, <3>1, OneRecalls, RowsRemember DEF Recalls
  <2> QED
    BY <2>2, <2>3
<1>3. CASE Clear(a)
  <2>1. CASE e \notin call[a].kept
    BY <1>3, <2>1 DEF Lost
  <2>2. CASE e \in call[a].kept
    <3>1. PICK f : Does(a, [call[a] EXCEPT !.one = f, !.people = @ \ {f}])
      BY <1>3 DEF Clear
    <3>2. call'[a] = [call[a] EXCEPT !.one = f, !.people = @ \ {f}] /\ call[a].at = "rebuild"
      BY <1>0, <1>3, <3>1 DEF Does, TypeInv, Clear, At
    <3>3. call'[a].at = "rebuild" /\ call'[a].kept = call[a].kept
      BY <1>0, <3>2 DEF Calls
    <3> QED
      BY <2>2, <3>3 DEF Remembered, Recalls
  <2> QED
    BY <2>1, <2>2
<1>4. CASE Create(a)
  <2>0. PICK r \in Rows :
            /\ row[r] = NoRow
            /\ row' = [row EXCEPT ![r] = [NoRow EXCEPT !.emp = call[a].one,
                                            !.current = call[a].one \notin call[a].old]]
            /\ Does(a, [call[a] EXCEPT !.one = None,
                       !.fresh = IF call[a].one \in call[a].kept THEN @ \cup {r} ELSE @,
                       !.at = IF call[a].people = {} THEN call[a].then ELSE @])
    BY <1>4 DEF Create
  <2> DEFINE c == [call[a] EXCEPT !.one = None,
                     !.fresh = IF call[a].one \in call[a].kept THEN @ \cup {r} ELSE @,
                     !.at = IF call[a].people = {} THEN call[a].then ELSE @]
  <2>1. /\ row[r] = NoRow /\ \A q \in Rows \ {r} : row'[q] = row[q]
        /\ Does(a, c) /\ c.kept = call[a].kept
        /\ c.at = IF call[a].people = {} THEN call[a].then ELSE call[a].at
    BY <1>0, <2>0 DEF TypeInv, Calls
  <2> HIDE DEF c
  <2>2. SameAdjusted
    BY <2>1 DEF SameAdjusted, NoRow
  <2>3. Recalls(a, e) => c.at \in Holding /\ e \in c.kept
    BY <1>0, <1>4, <2>1 DEF Create, At, Recalls, Holding, Good, OnRecord, Again, Calls
  <2> QED
    BY <1>0, <2>1, <2>2, <2>3, OneRecalls, RowsRemember
<1>5. CASE Adjust(a)
  <2>1. CASE call[a].fresh = {}
    <3>1. /\ Does(a, [call[a] EXCEPT !.at = "sync"]) /\ row' = row
          /\ call'[a] = [call[a] EXCEPT !.at = "sync"]
      BY <1>0, <1>5, <2>1 DEF Adjust, Does, TypeInv
    <3>2. call'[a].at = "sync" /\ call'[a].kept = call[a].kept
      BY <1>0, <3>1 DEF Calls
    <3>3. CASE e \in call[a].kept
      BY <3>2, <3>3 DEF MonthInv, Good, Keeps, Remembered
    <3>4. CASE e \notin call[a].kept
      BY <1>0, <3>1, <3>4, OneRecalls, RowsRemember DEF Recalls, SameAdjusted
    <3> QED
      BY <3>3, <3>4
  <2>2. ASSUME NEW r \in call[a].fresh, r \in Closings, row' = [row EXCEPT ![r].adjusted = TRUE],
               Does(a, [call[a] EXCEPT !.fresh = @ \ {r}])
        PROVE  Remembered(e)'
    <3> DEFINE c == [call[a] EXCEPT !.fresh = @ \ {r}]
    <3>1. Does(a, c) /\ c.at = call[a].at /\ c.kept = call[a].kept
      BY <1>0, <2>2 DEF Calls
    <3>2. SameAdjusted
      BY <1>0, <2>2 DEF SameAdjusted, TypeInv, Rowed, Closings
    <3> HIDE DEF c
    <3> QED
      BY <1>0, <3>1, <3>2, OneRecalls, RowsRemember DEF Recalls, Holding
  <2>3. CASE Does(a, Idle) /\ row' = row
    BY <1>0, <2>3, EndRecalls, RowsRemember DEF SameAdjusted
  <2> QED
    BY <1>5, <2>1, <2>2, <2>3 DEF Adjust
<1> QED
  BY <1>1, <1>2, <1>3, <1>4, <1>5

(* A request that begins, or is past the adjustments, keeps none. *)
LEMMA OthersKeep ==
    ASSUME MonthInv, NEW e \in Employees, Remembered(e), NEW a \in Actors,
           call[a].at \notin Holding, NEW c, Does(a, c), SameAdjusted
    PROVE  Remembered(e)'
BY OneRecalls, RowsRemember DEF MonthInv, Recalls, Holding

LEMMA MovesAdjusted ==
    ASSUME TypeInv, NEW r \in Closings, NEW s, Moves(r, s) PROVE SameAdjusted
BY DEF TypeInv, Closings, Moves, SameAdjusted, Rowed

LEMMA AccountantKeeps ==
    ASSUME MonthInv, MonthInv', NEW e \in Employees, Remembered(e), NEW a \in Actors, Accountant(a)
    PROVE  Lost(e) \/ Remembered(e)'
<1>0. TypeInv /\ Idle.at \notin Holding
  BY DEF MonthInv, Idle, Holding
<1>1. CASE Reset(a) \/ Generate(a) \/ Clear(a) \/ Create(a) \/ Adjust(a)
  BY <1>1, CalculationKeeps
<1>2. CASE Calculate(a) \/ Publish(a)
  <2>1. call[a].at \notin Holding /\ SameAdjusted /\ \E c : Does(a, c)
    BY <1>0, <1>2 DEF Calculate, Publish, Begins, SameAdjusted
  <2> QED
    BY <2>1, OthersKeep
<1>3. CASE SyncPayrolls(a) \/ Total(a) \/ ReadPayrolls(a, "lock", "approve", "DRAFT") \/ Claim(a)
             \/ OnePayroll(a, "approve", "DRAFT", "APPROVED")
  <2>1. call[a].at \notin Holding /\ SameAdjusted /\ \E c : Does(a, c)
    BY <1>3 DEF SyncPayrolls, Total, ReadPayrolls, Claim, OnePayroll, Throws, At, SameAdjusted, Holding
  <2> QED
    BY <2>1, OthersKeep
<1>4. CASE Lock(a)
  <2>1. call[a].at \notin Holding /\ \E c : Does(a, c)
    BY <1>4 DEF Lock, Throws, At, Holding
  <2>2. row' = row \/ \E r \in Closings, s \in Statuses : Moves(r, s)
    BY <1>4 DEF Lock, Throws, Statuses
  <2>3. SameAdjusted
    BY <1>0, <2>2, MovesAdjusted DEF SameAdjusted
  <2> QED
    BY <2>1, <2>3, OthersKeep
<1> QED
  BY <1>1, <1>2, <1>3, <1>4 DEF Accountant

LEMMA HRKeeps ==
    ASSUME MonthInv, NEW e \in Employees, Remembered(e), NEW a \in Actors, HR(a)
    PROVE  Lost(e) \/ Remembered(e)'
<1>0. TypeInv /\ Idle.at \notin Holding
  BY DEF MonthInv, Idle, Holding
<1>1. CASE Recreate(a) \/ Return(a) \/ MarkPaid(a)
  <2>1. call[a].at \notin Holding /\ SameAdjusted /\ \E c : Does(a, c)
    BY <1>0, <1>1 DEF Recreate, Return, MarkPaid, Begins, SameAdjusted
  <2> QED
    BY <2>1, OthersKeep
<1>2. ASSUME NEW stage \in {"returned", "unlock", "paid", "pay", "reopen"}, At(a, stage), row' = row,
             NEW c, Does(a, c)
      PROVE  Remembered(e)'
  BY <1>2, OthersKeep DEF At, SameAdjusted, Holding
<1>3. ASSUME NEW stage \in {"unlock", "close"}, NEW from, NEW to, OneClosing(a, stage, from, to)
      PROVE  Remembered(e)'
  <2>1. call[a].at \notin Holding /\ \E c : Does(a, c)
    BY <1>3 DEF OneClosing, Throws, At, Holding
  <2>2. row' = row \/ \E r \in Closings : Moves(r, to)
    BY <1>3 DEF OneClosing, Throws
  <2>3. SameAdjusted
    BY <1>0, <2>2, MovesAdjusted DEF SameAdjusted
  <2> QED
    BY <2>1, <2>3, OthersKeep
<1>4. CASE Done(a)
  BY <1>4, OthersKeep DEF Done, At, SameAdjusted, Holding
<1>5. CASE ReadClosings(a, "returned", "unlock", Locking) \/ ReadClosings(a, "pay", "close", {"APPROVED"})
             \/ ReadPayrolls(a, "unlock", "reopen", "APPROVED") \/ ReadPayrolls(a, "paid", "pay", "APPROVED")
  BY <1>2, <1>5 DEF ReadClosings, ReadPayrolls
<1>6. CASE OnePayroll(a, "reopen", "APPROVED", "DRAFT") \/ OnePayroll(a, "pay", "APPROVED", "PAID")
  BY <1>2, <1>6 DEF OnePayroll, Throws
<1> QED
  BY <1>1, <1>3, <1>4, <1>5, <1>6 DEF HR

(* What people do by hand, and the point. *)
LEMMA ByHandKeeps ==
    ASSUME MonthInv, NEW e \in Employees, Remembered(e),
           \/ Release \/ (\E r \in Rows : ClosingByHand(r))
           \/ \E f \in Employees : PayrollByHand(f) \/ AssertTimePeriodOpen(f) \/ WritePoint(f)
    PROVE  Lost(e) \/ Remembered(e)'
<1>0. TypeInv
  BY DEF MonthInv
<1>1. CASE Release \/ \E f \in Employees : PayrollByHand(f) \/ AssertTimePeriodOpen(f)
  <2>1. UNCHANGED <<row, call>>
    BY <1>1 DEF Release, PayrollByHand, AssertTimePeriodOpen
  <2> QED
    BY <1>0, <2>1, RowsRemember DEF SameAdjusted, Recalls
<1>2. CASE \E f \in Employees : WritePoint(f)
  <2>1. PICK f \in Employees : WritePoint(f)
    BY <1>2
  <2>2. SameAdjusted
    BY <1>0, <2>1 DEF WritePoint, SameAdjusted, TypeInv, Rowed
  <2>3. \A a \in Actors : call'[a].at = call[a].at /\ call'[a].kept = call[a].kept
    BY <1>0, <2>1 DEF WritePoint, TypeInv, Calls
  <2> QED
    BY <1>0, <2>2, <2>3, RowsRemember DEF Recalls
<1>3. CASE \E r \in Rows : ClosingByHand(r)
  <2>1. PICK r \in Closings : ClosingByHand(r)
    BY <1>3 DEF ClosingByHand
  <2>2. CASE row[r].emp = e
    BY <2>1, <2>2 DEF Lost, OfEmployee
  <2>3. CASE row[r].emp # e
    <3>1. \A q \in Rows \ {r} : row'[q] = row[q]
      BY <1>0, <2>1 DEF ClosingByHand, Moves, TypeInv
    <3>2. \A q \in OfEmployee(e) : row'[q] = row[q] /\ row[q].emp = e
      BY <2>3, <3>1 DEF OfEmployee, Closings
    <3>3. call' = call
      BY <2>1 DEF ClosingByHand
    <3> QED
      BY <1>0, <3>2, <3>3, StaysRemembered DEF Recalls
  <2> QED
    BY <2>2, <2>3
<1> QED
  BY <1>1, <1>2, <1>3

LEMMA StepKeeps ==
    ASSUME MonthInv, MonthInv', [Next]_monthVars, NEW e \in Employees, Remembered(e)
    PROVE  Lost(e) \/ Remembered(e)'
<1>0. TypeInv
  BY DEF MonthInv
<1>1. CASE UNCHANGED monthVars
  BY <1>0, <1>1, RowsRemember DEF monthVars, SameAdjusted, Recalls
<1>2. CASE \E a \in Actors : Accountant(a) \/ HR(a) \/ Crash(a)
  <2>1. PICK a \in Actors : Accountant(a) \/ HR(a) \/ Crash(a)
    BY <1>2
  <2>2. CASE Crash(a)
    BY <1>0, <2>2, EndRecalls, RowsRemember DEF Crash, SameAdjusted
  <2> QED
    BY <2>1, <2>2, AccountantKeeps, HRKeeps
<1>3. CASE \/ Release \/ (\E r \in Rows : ClosingByHand(r))
           \/ \E f \in Employees : PayrollByHand(f) \/ AssertTimePeriodOpen(f) \/ WritePoint(f)
  BY <1>3, ByHandKeeps
<1> QED
  BY <1>1, <1>2, <1>3 DEF Next

(* An adjustment made to a closing is lost only when the closing is created  *)
(* again by somebody who does not keep it, when the calculation that keeps   *)
(* it stops, or when a person deletes the closing.                           *)
THEOREM AdjustmentsAreKept == ASSUME ~Overlap PROVE MonthSpec => AdjustmentsKept
<1> DEFINE Kept == \A e \in Employees : Remembered(e) /\ ~Remembered(e)' =>
                     \/ \E a \in Actors : Clear(a) /\ e \notin call[a].kept
                     \/ \E a \in Actors : Recalls(a, e) /\ call'[a] = Idle
                     \/ \E r \in OfEmployee(e) : ClosingByHand(r)
<1>1. MonthInv /\ [Next]_monthVars => MonthInv'
  BY StepInv
<1>2. MonthInv /\ MonthInv' /\ [Next]_monthVars => Kept
  BY StepKeeps DEF Lost
<1>3. MonthInv /\ MonthInv' /\ [Next]_monthVars => [Kept]_monthVars
  BY <1>2
<1> QED
  BY <1>1, <1>3, InitInv, PTL DEF MonthSpec, AdjustmentsKept

-----------------------------------------------------------------------------
(* The month implements Competence: what a step does to the period, to the   *)
(* employees that are locked and to the record is a step of Competence.      *)
LockedOnes == {e \in Employees : Locked(e)}

Shown == <<MonthOf, LockedOnes, amended>>

(* Who is locked depends on the rows that are locked, and nothing else. *)
LEMMA LocksStay ==
    ASSUME \A r \in Rows : \/ row'[r].status \notin Locking /\ row[r].status \notin Locking
                           \/ /\ row'[r].emp = row[r].emp
                              /\ row'[r].status \in Locking <=> row[r].status \in Locking
    PROVE  LockedOnes' = LockedOnes
<1>1. NoRow.status \notin Locking
  BY DEF NoRow, Locking
<1>2. \A e : Locked(e) <=> \E r \in Rows : row[r].emp = e /\ row[r].status \in Locking
  BY <1>1 DEF Locked, OfEmployee, Closings
<1>3. \A e : Locked(e)' <=> \E r \in Rows : row'[r].emp = e /\ row'[r].status \in Locking
  BY <1>1 DEF Locked, OfEmployee, Closings
<1>4. \A e : Locked(e)' <=> Locked(e)
  BY <1>2, <1>3
<1> QED
  BY <1>4 DEF LockedOnes

(* Who is locked changes with one employee's row for this employee only. *)
LEMMA OneLockMoves ==
    ASSUME NEW r \in Rows, NEW e, row[r].emp = e,
           row'[r].emp = e \/ row'[r].status \notin Locking,
           \A q \in Rows \ {r} : row'[q] = row[q]
    PROVE  (LockedOnes' \ LockedOnes) \cup (LockedOnes \ LockedOnes') \subseteq {e}
<1>1. NoRow.status \notin Locking
  BY DEF NoRow, Locking
<1>2. \A f : Locked(f) <=> \E q \in Rows : row[q].emp = f /\ row[q].status \in Locking
  BY <1>1 DEF Locked, OfEmployee, Closings
<1>3. \A f : Locked(f)' <=> \E q \in Rows : row'[q].emp = f /\ row'[q].status \in Locking
  BY <1>1 DEF Locked, OfEmployee, Closings
<1>4. \A f : f # e => (Locked(f)' <=> Locked(f))
  BY <1>2, <1>3
<1> QED
  BY <1>4 DEF LockedOnes

LEMMA SameShown ==
    ASSUME UNCHANGED <<period, row, amended>> PROVE UNCHANGED Shown
BY LocksStay DEF Shown, MonthOf

LEMMA OpenWorks ==
    ASSUME period \notin Published, period' \notin Published, amended' = amended
    PROVE  [Abstract!CompetenceNext]_Shown
<1>1. MonthOf = "open" /\ MonthOf' = "open"
  BY DEF MonthOf, Published
<1>2. Abstract!Work
  BY <1>1 DEF Abstract!Work, LockedOnes
<1> QED
  BY <1>2 DEF Abstract!CompetenceNext

LEMMA AccountantShown ==
    ASSUME ~Overlap, MonthInv, NEW a \in Actors, Accountant(a)
    PROVE  [Abstract!CompetenceNext]_Shown
<1>0. TypeInv /\ Good(call[a]) /\ call[a] \in Calls
  BY DEF MonthInv, TypeInv
<1>1. CASE \/ Calculate(a) \/ Generate(a) \/ SyncPayrolls(a)
           \/ ReadPayrolls(a, "lock", "approve", "DRAFT")
           \/ OnePayroll(a, "approve", "DRAFT", "APPROVED")
  BY <1>1, SameShown DEF Calculate, Generate, SyncPayrolls, ReadPayrolls, OnePayroll, Throws
<1>2. CASE Reset(a) \/ Total(a) \/ Lock(a)
  <2>1. period \notin Published
    BY <1>0, <1>2 DEF Reset, Total, Lock, At, Good, Unpublished, Before
  <2>2. period' \notin Published /\ amended' = amended
    BY <1>2, <2>1 DEF Reset, Total, Lock, Throws, Published
  <2> QED
    BY <2>1, <2>2, OpenWorks
<1>3. CASE Clear(a) \/ Create(a) \/ Adjust(a)
  <2>1. UNCHANGED <<period, amended>>
    BY <1>3 DEF Clear, Create, Adjust
  <2>2. NoRow.status \notin Locking
    BY DEF NoRow, Locking
  <2>3. \A r \in Rows : \/ row'[r].status \notin Locking /\ row[r].status \notin Locking
                        \/ /\ row'[r].emp = row[r].emp
                           /\ row'[r].status \in Locking <=> row[r].status \in Locking
    <3>1. CASE Clear(a)
      BY <1>0, <2>2, <3>1 DEF Clear, TypeInv, Locking
    <3>2. CASE Create(a)
      <4>1. PICK r \in Rows : /\ row[r] = NoRow
                              /\ row' = [row EXCEPT ![r] = [NoRow EXCEPT !.emp = call[a].one,
                                             !.current = call[a].one \notin call[a].old]]
        BY <3>2 DEF Create
      <4>2. row'[r].status \notin Locking /\ \A q \in Rows \ {r} : row'[q] = row[q]
        BY <1>0, <4>1 DEF TypeInv, NoRow, Locking
      <4> QED
        BY <2>2, <4>1, <4>2
    <3>3. CASE Adjust(a)
      <4>1. row' = row \/ \E r \in Rows : row' = [row EXCEPT ![r].adjusted = TRUE]
        BY <3>3 DEF Adjust, Closings
      <4> QED
        BY <1>0, <4>1 DEF TypeInv, Rowed
    <3> QED
      BY <1>3, <3>1, <3>2, <3>3
  <2> QED
    BY <2>1, <2>3, LocksStay DEF Shown, MonthOf
<1>4. CASE Publish(a)
  <2>1. MonthOf = "open" /\ MonthOf' = "open" /\ amended' = {}
    BY <1>4 DEF Publish, MonthOf
  <2>2. Abstract!Work
    BY <2>1 DEF Abstract!Work, LockedOnes
  <2> QED
    BY <2>2 DEF Abstract!CompetenceNext
<1>5. CASE Claim(a)
  <2>1. LockedOnes' = LockedOnes /\ amended' = amended
    BY <1>5, LocksStay DEF Claim
  <2>2. CASE period \in {"CALCULATED", "RETURNED"}
    <3>1. MonthOf = "open" /\ MonthOf' = "withHR"
      BY <1>5, <2>2 DEF Claim, MonthOf
    <3>2. Abstract!Advance("open", "withHR")
      BY <2>1, <3>1 DEF Abstract!Advance, LockedOnes
    <3> QED
      BY <3>2 DEF Abstract!CompetenceNext
  <2>3. CASE period \notin {"CALCULATED", "RETURNED"}
    BY <1>5, <2>1, <2>3 DEF Claim, Shown, MonthOf
  <2> QED
    BY <2>2, <2>3
<1> QED
  BY <1>1, <1>2, <1>3, <1>4, <1>5 DEF Accountant

LEMMA HRShown ==
    ASSUME ~Overlap, MonthInv, NEW a \in Actors, HR(a)
    PROVE  [Abstract!CompetenceNext]_Shown
<1>0. TypeInv /\ Good(call[a]) /\ call[a] \in Calls
  BY DEF MonthInv, TypeInv
<1>1. CASE \/ ReadClosings(a, "returned", "unlock", Locking)
           \/ ReadPayrolls(a, "unlock", "reopen", "APPROVED")
           \/ OnePayroll(a, "reopen", "APPROVED", "DRAFT")
           \/ ReadPayrolls(a, "paid", "pay", "APPROVED")
           \/ OnePayroll(a, "pay", "APPROVED", "PAID")
           \/ ReadClosings(a, "pay", "close", {"APPROVED"})
           \/ Done(a)
  BY <1>1, SameShown DEF ReadClosings, ReadPayrolls, OnePayroll, Done, Throws
<1>2. CASE OneClosing(a, "unlock", Locking, "DRAFT")
  <2>1. period \notin Published
    BY <1>0, <1>2 DEF OneClosing, At, Good, Unpublished, Before
  <2>2. period' \notin Published /\ amended' = amended
    BY <1>2, <2>1 DEF OneClosing, Throws
  <2> QED
    BY <2>1, <2>2, OpenWorks
<1>3. CASE OneClosing(a, "close", {"APPROVED"}, "CLOSED")
  <2>1. UNCHANGED <<period, amended>>
    BY <1>3 DEF OneClosing, Throws
  <2>2. PICK r \in Rows : \/ row' = row
                          \/ row[r].status = "APPROVED" /\ Moves(r, "CLOSED")
    BY <1>0, <1>3 DEF OneClosing, Throws, Calls, Closings
  <2>3. LockedOnes' = LockedOnes
    BY <1>0, <2>2, LocksStay DEF Moves, TypeInv, Rowed, Closings, Locking
  <2> QED
    BY <2>1, <2>3 DEF Shown, MonthOf
<1>4. CASE Recreate(a)
  <2>1. LockedOnes' = LockedOnes /\ MonthOf' = MonthOf
    BY <1>4, LocksStay DEF Recreate, MonthOf
  <2>2. PICK p \in SUBSET Employees : amended' = amended \cup p
    BY <1>4 DEF Recreate
  <2>3. Abstract!Amend(p)
    BY <2>1, <2>2 DEF Abstract!Amend, LockedOnes
  <2> QED
    BY <2>3 DEF Abstract!CompetenceNext
<1>5. CASE Return(a) \/ MarkPaid(a)
  <2>1. LockedOnes' = LockedOnes /\ amended' = amended
    BY <1>5, LocksStay DEF Return, MarkPaid
  <2>2. Abstract!Advance("withHR", "open") \/ Abstract!Advance("released", "paid")
    BY <1>5, <2>1 DEF Return, MarkPaid, MonthOf, Abstract!Advance, LockedOnes
  <2> QED
    BY <2>2 DEF Abstract!CompetenceNext
<1> QED
  BY <1>1, <1>2, <1>3, <1>4, <1>5 DEF HR

LEMMA ByHandShown ==
    ASSUME TypeInv, NEW r \in Rows, ClosingByHand(r)
    PROVE  [Abstract!CompetenceNext]_Shown
<1> DEFINE e == row[r].emp
<1>1. r \in Closings /\ e \in Employees /\ row[r] \in Rowed
  BY DEF TypeInv, ClosingByHand, Closings, Rowed
<1>2. \A q \in Rows \ {r} : row'[q] = row[q]
  BY <1>1 DEF ClosingByHand, Moves, TypeInv
<1>3. row'[r].emp = e \/ row'[r].status \notin Locking
  BY <1>1 DEF ClosingByHand, Moves, TypeInv, Rowed, NoRow, Locking
<1>4. amended' = amended \cup {e} /\ MonthOf' = MonthOf
  BY DEF ClosingByHand, MonthOf
<1> HIDE DEF e
<1>5. (LockedOnes' \ LockedOnes) \cup (LockedOnes \ LockedOnes') \subseteq {e}
  BY <1>2, <1>3, OneLockMoves DEF e
<1>6. Abstract!Amend({e})
  BY <1>4, <1>5 DEF Abstract!Amend, LockedOnes
<1> QED
  BY <1>1, <1>6 DEF Abstract!CompetenceNext

LEMMA StepShown == ~Overlap /\ MonthInv /\ [Next]_monthVars => [Abstract!CompetenceNext]_Shown
<1> SUFFICES ASSUME ~Overlap, MonthInv, [Next]_monthVars PROVE [Abstract!CompetenceNext]_Shown
  OBVIOUS
<1>0. TypeInv
  BY DEF MonthInv
<1>1. CASE \/ UNCHANGED monthVars \/ \E a \in Actors : Crash(a)
           \/ \E e \in Employees : PayrollByHand(e) \/ AssertTimePeriodOpen(e)
  BY <1>1, SameShown DEF monthVars, Crash, PayrollByHand, AssertTimePeriodOpen
<1>2. CASE \E a \in Actors : Accountant(a) \/ HR(a)
  BY <1>2, AccountantShown, HRShown
<1>3. CASE Release
  <2>1. LockedOnes' = LockedOnes /\ amended' = amended
    BY <1>3, LocksStay DEF Release
  <2>2. Abstract!Advance("withHR", "released")
    BY <1>3, <2>1 DEF Release, MonthOf, Abstract!Advance, LockedOnes
  <2> QED
    BY <2>2 DEF Abstract!CompetenceNext
<1>4. CASE \E r \in Rows : ClosingByHand(r)
  BY <1>0, <1>4, ByHandShown
<1>5. CASE \E e \in Employees : WritePoint(e)
  <2>1. \A r \in Rows : row'[r].emp = row[r].emp /\ row'[r].status = row[r].status
    BY <1>0, <1>5 DEF WritePoint, TypeInv, Rowed
  <2>2. LockedOnes' = LockedOnes
    BY <2>1, LocksStay
  <2> QED
    BY <1>5, <2>2 DEF WritePoint, Shown, MonthOf
<1> QED
  BY <1>1, <1>2, <1>3, <1>4, <1>5 DEF Next

(* People who take turns get what Competence promises: the locks of a        *)
(* published month stay as they are, but for whom somebody unlocks on record.*)
THEOREM MonthImplementsCompetence == ASSUME ~Overlap PROVE MonthSpec => ImplementsMonth
<1>1. MonthInv /\ [Next]_monthVars => MonthInv'
  BY StepInv
<1>2. MonthInv /\ [Next]_monthVars => [Abstract!CompetenceNext]_Abstract!competenceVars
  BY StepShown DEF Abstract!competenceVars, Shown, LockedOnes
<1>3. Init => Abstract!CompetenceInit
  BY DEF Init, Abstract!CompetenceInit, MonthOf, Locked, OfEmployee, Closings
<1> QED
  BY <1>1, <1>2, <1>3, InitInv, PTL DEF MonthSpec, ImplementsMonth, Abstract!CompetenceSpec
=============================================================================
