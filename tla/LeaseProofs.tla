---------------------------- MODULE LeaseProofs ----------------------------
(***************************************************************************)
(* Proofs about the two leases, FiscalNote and CronLock.                   *)
(*                                                                         *)
(* FiscalNote, for any number of calls and notes: what is asked of Asaas   *)
(* is a note of the charge; in turns an invoice has one note of the        *)
(* service, and when calls meet it has one until a first note dies or an   *)
(* answer is lost.                                                         *)
(* CronLock, for any number of instances and calls and any timers: the     *)
(* routine runs alone, and is not repeated while the lock of the last      *)
(* success lives, if an attempt is shorter than the lock and no connection *)
(* to Redis is lost during a call.                                         *)
(***************************************************************************)
EXTENDS CronLock, FiscalNote, TLAPS

(* What is known of notes: whatever is linked, asked for or about to be      *)
(* written is a note that has existed, with a status it has had. *)
Savers == {"save", "link", "requested"}

NotesTold ==
    \A n \in Notes : IF note[n] = "none" THEN past[n] = {} ELSE note[n] \in past[n]
RowTold == row.note # None => past[row.note] # {}
AsksTold ==
    \A c \in Calls : call[c].at \in {"pull", "cancel"} =>
      call[c].seen.note \in Notes /\ past[call[c].seen.note] # {}
SavesTold ==
    \A c \in Calls : call[c].at \in Savers =>
      call[c].seen.note \in Notes /\ call[c].seen.status \in past[call[c].seen.note]

NoteInv == FiscalTypeOK /\ NotesTold /\ RowTold /\ AsksTold /\ SavesTold

Places == {"idle", "ended", "read", "pull", "list", "look", "save", "claim", "check", "post",
           "link", "release", "failed", "refused", "refund", "cancel", "requested", "pend"}
CallOf == [at : Places, force : BOOLEAN, seen : RowOf]

(* A call moves: where it is, and what it has seen. *)
Moves(c, at, r) ==
    /\ call' \in [Calls -> CallOf]
    /\ call'[c].at = at /\ call'[c].seen = r
    /\ \A d \in Calls \ {c} : call'[d] = call[d]

(* What the three operators for a step of a call do. *)
LEMMA CallGoes ==
    ASSUME FiscalTypeOK, NEW c \in Calls, NEW at \in Places, Goes(c, at)
    PROVE  Moves(c, at, call[c].seen)
BY DEF FiscalTypeOK, Goes, Moves, CallOf, Places

(* A call goes somewhere with what it read or was answered. *)
LEMMA CallSees ==
    ASSUME FiscalTypeOK, NEW c \in Calls, NEW at \in Places, NEW r \in RowOf, Sees(c, at, r)
    PROVE  Moves(c, at, r)
<1>1. call' = [call EXCEPT ![c] = [call[c] EXCEPT !.at = at, !.seen = r]]
  BY DEF FiscalTypeOK, Sees
<1>2. [call[c] EXCEPT !.at = at, !.seen = r] \in CallOf
  BY DEF FiscalTypeOK, CallOf, Places
<1> QED
  BY <1>1, <1>2 DEF FiscalTypeOK, Moves, CallOf, Places

(* A call ends and forgets what it saw; that of the routine may come back. *)
LEMMA CallEnds ==
    ASSUME FiscalTypeOK, NEW c \in Calls, Ends(c)
    PROVE  \E at \in {"idle", "ended"} : Moves(c, at, NoCall.seen)
<1>1. NoCall.seen \in RowOf
  BY DEF NoCall, RowOf
<1>2. PICK at \in {"idle", "ended"} : call' = [call EXCEPT ![c] = [NoCall EXCEPT !.at = at]]
  BY DEF Ends
<1>3. Moves(c, at, NoCall.seen)
  BY <1>1, <1>2 DEF FiscalTypeOK, Moves, CallOf, Places, NoCall
<1> QED
  BY <1>3

(* A step of a call keeps the types and what is known of notes, if the row   *)
(* it writes and what it saw are about notes that exist. *)
Told(at, r) ==
    /\ at \in {"pull", "cancel"} => r.note \in Notes /\ past[r.note] # {}
    /\ at \in Savers => r.note \in Notes /\ r.status \in past[r.note]
WritesTold == \E r \in RowOf : (r.note # None => past[r.note] # {}) /\ Writes(r)

(* What a step writes to the row, or leaves of it, keeps its types. *)
LEMMA Busied ==
    ASSUME NoteInv, Keeps \/ WritesTold
    PROVE  row' \in RowOf /\ age' \in 0..2 /\ older' \subseteq Calls
BY DEF NoteInv, FiscalTypeOK, Keeps, WritesTold, Writes, Busy

(* So a step of a call that leaves Asaas alone keeps the invariant. *)
LEMMA CallKeeps ==
    ASSUME NoteInv, NEW c \in Calls, NEW at, NEW r, Moves(c, at, r), Told(at, r),
           Keeps \/ WritesTold, UNCHANGED <<note, past>>,
           {paid, listed, refunded, lost}' \subseteq BOOLEAN, attempts' \in 0..MaxAttempts
    PROVE  NoteInv'
<1>1. FiscalTypeOK'
  <2>1. row' \in RowOf /\ age' \in 0..2 /\ older' \subseteq Calls
    BY Busied
  <2> QED
    BY <2>1 DEF NoteInv, FiscalTypeOK, Moves, CallOf, Places
<1>2. NotesTold'
  BY DEF NoteInv, NotesTold, Valid
<1>3. RowTold'
  BY DEF NoteInv, RowTold, Keeps, WritesTold, Writes
<1>4. AsksTold' /\ SavesTold'
  BY DEF NoteInv, AsksTold, SavesTold, Moves, Told
<1> QED
  BY <1>1, <1>2, <1>3, <1>4 DEF NoteInv

(* A note that changes in Asaas is told by its past; nothing is forgotten.   *)
LEMMA BecomesTold ==
    ASSUME NoteInv, NEW n \in Notes, NEW s \in NoteStatus, Becomes(n, s)
    PROVE  /\ note' \in [Notes -> NoteStatus \cup {"none"}] /\ past' \in [Notes -> SUBSET NoteStatus]
           /\ NotesTold' /\ s \in past'[n] /\ \A m \in Notes : past[m] \subseteq past'[m]
           /\ note'[n] = s /\ \A m \in Notes \ {n} : note'[m] = note[m]
BY DEF NoteInv, FiscalTypeOK, NotesTold, Becomes, NoteStatus, Dead

(* The steps of a call that only look or end. *)
LEMMA LooksInv ==
    ASSUME NoteInv, NEW c \in Calls,
           \/ Ensure(c) \/ Skip(c) \/ GivesUp(c) \/ Check(c) \/ RefundAgain(c) \/ Dies(c)
           \/ SaveFails(c)
    PROVE  NoteInv'
<1>0. FiscalTypeOK
  BY DEF NoteInv
<1>1. CASE Ensure(c)
  <2>1. PICK f \in BOOLEAN : call' = [call EXCEPT ![c] = [NoCall EXCEPT !.at = "read", !.force = f]]
    BY <1>1 DEF Ensure
  <2>2. Moves(c, "read", NoCall.seen)
    BY <1>0, <2>1 DEF FiscalTypeOK, Moves, CallOf, Places, NoCall, RowOf
  <2> QED
    BY <1>0, <1>1, <2>2, CallKeeps DEF Ensure, Told, Savers, FiscalTypeOK
<1>2. CASE Skip(c) \/ GivesUp(c) \/ Dies(c)
  <2>1. PICK at \in {"idle", "ended"} : Moves(c, at, NoCall.seen)
    BY <1>0, <1>2, CallEnds DEF Skip, GivesUp, Dies
  <2> QED
    BY <1>0, <1>2, <2>1, CallKeeps DEF Skip, GivesUp, Dies, Told, Savers, FiscalTypeOK
<1>3. CASE Check(c) \/ RefundAgain(c)
  <2>1. PICK at \in {"post", "release", "failed", "refused", "refund"} : Moves(c, at, call[c].seen)
    BY <1>0, <1>3, CallGoes DEF Check, RefundAgain, Places
  <2> QED
    BY <1>0, <1>3, <2>1, CallKeeps DEF Check, RefundAgain, Told, Savers, FiscalTypeOK
<1>4. CASE SaveFails(c)
  <2>1. PICK at \in {"failed", "pend"} : Moves(c, at, call[c].seen)
    BY <1>0, <1>4, CallGoes DEF SaveFails, Places
  <2> QED
    BY <1>0, <1>4, <2>1, CallKeeps DEF SaveFails, Told, Savers, FiscalTypeOK
<1> QED
  BY <1>1, <1>2, <1>3, <1>4

(* The steps that read the row or a note: what is seen exists. *)
LEMMA ReadInv ==
    ASSUME NoteInv, NEW c \in Calls, Read(c) \/ Pull(c) \/ List(c) \/ HandleRefund(c)
    PROVE  NoteInv'
<1>0. FiscalTypeOK /\ NotesTold /\ RowTold /\ AsksTold
  BY DEF NoteInv
<1>1. CASE Read(c)
  <2> DEFINE to == IF Linked(c) THEN "pull" ELSE IF paid THEN "list" ELSE "look"
  <2>1. to \in Places /\ row \in RowOf
    BY <1>0 DEF Places, FiscalTypeOK
  <2>2. Moves(c, to, row)
    BY <1>0, <1>1, <2>1, CallSees DEF Read
  <2>3. Told(to, row)
    BY <1>0 DEF Told, Linked, Savers, RowTold, FiscalTypeOK, RowOf
  <2> QED
    BY <1>0, <1>1, <2>2, <2>3, CallKeeps DEF Read, FiscalTypeOK
<1>2. CASE Pull(c) \/ (\E n \in Notes : Valid(n) /\ List(c)
                                      /\ Sees(c, "save", [note |-> n, status |-> note[n]]))
  <2>1. PICK n \in Notes : note[n] # "none" /\ Sees(c, "save", [note |-> n, status |-> note[n]])
    BY <1>0, <1>2 DEF Pull, AsksTold, NotesTold, Valid
  <2>2. [note |-> n, status |-> note[n]] \in RowOf
    BY <1>0, <2>1 DEF FiscalTypeOK, RowOf
  <2>3. Moves(c, "save", [note |-> n, status |-> note[n]])
    BY <1>0, <2>1, <2>2, CallSees DEF Places
  <2>4. Told("save", [note |-> n, status |-> note[n]])
    BY <1>0, <2>1 DEF Told, Savers, NotesTold
  <2> QED
    BY <1>0, <1>2, <2>3, <2>4, CallKeeps DEF Pull, List, FiscalTypeOK
<1>3. CASE List(c) /\ (Goes(c, "claim") \/ Ends(c))
  <2>1. PICK at \in {"claim", "idle", "ended"}, r \in RowOf : Moves(c, at, r)
    <3>1. NoCall.seen \in RowOf /\ call[c].seen \in RowOf
      BY <1>0 DEF NoCall, RowOf, FiscalTypeOK
    <3> QED
      BY <1>0, <1>3, <3>1, CallGoes, CallEnds DEF Places
  <2> QED
    BY <1>0, <1>3, <2>1, CallKeeps DEF List, Told, Savers, FiscalTypeOK
<1>4. CASE HandleRefund(c)
  <2>1. CASE Ends(c)
    <3>1. PICK at \in {"idle", "ended"} : Moves(c, at, NoCall.seen)
      BY <1>0, <2>1, CallEnds
    <3> QED
      BY <1>0, <1>4, <3>1, CallKeeps DEF HandleRefund, Told, Savers, FiscalTypeOK
  <2>2. CASE row.note # None /\ Sees(c, "cancel", row)
    <3>1. Moves(c, "cancel", row) /\ row.note \in Notes
      BY <1>0, <2>2, CallSees DEF Places, FiscalTypeOK, RowOf
    <3>2. Told("cancel", row)
      BY <1>0, <2>2, <3>1 DEF Told, Savers, RowTold
    <3> QED
      BY <1>0, <1>4, <3>1, <3>2, CallKeeps DEF HandleRefund, FiscalTypeOK
  <2> QED
    BY <1>4, <2>1, <2>2 DEF HandleRefund
<1> QED
  BY <1>1, <1>2, <1>3, <1>4 DEF List

(* The steps that write the row: a note that is written has existed. *)
LEMMA WritesInv ==
    ASSUME NoteInv, NEW c \in Calls,
           Save(c) \/ Claim(c) \/ Release(c) \/ EmissionFails(c) \/ Refunded(c) \/ Pend(c)
    PROVE  NoteInv'
<1>0. FiscalTypeOK /\ RowTold /\ SavesTold
  BY DEF NoteInv
<1>1. ASSUME NEW s \in {"SCHEDULING", "RETRY", "ERROR", "CANCEL_PENDING",
                       call[c].seen.status, row.status},
             Writes([row EXCEPT !.status = s])
      PROVE  WritesTold
  <2>1. [row EXCEPT !.status = s] \in RowOf /\ [row EXCEPT !.status = s].note = row.note
    BY <1>0 DEF FiscalTypeOK, RowOf, NoteStatus, Dead
  <2> QED
    BY <1>0, <1>1, <2>1 DEF WritesTold, RowTold
<1>2. CASE Save(c)
  <2>1. call[c].seen \in RowOf /\ past[call[c].seen.note] # {}
    BY <1>0, <1>2 DEF Save, SavesTold, Savers, FiscalTypeOK
  <2>2. WritesTold
    BY <1>2, <2>1 DEF Save, WritesTold
  <2>3. PICK at \in {"idle", "ended"} : Moves(c, at, NoCall.seen)
    BY <1>0, <1>2, CallEnds DEF Save
  <2> QED
    BY <1>0, <1>2, <2>2, <2>3, CallKeeps DEF Save, Told, Savers, FiscalTypeOK
<1>3. CASE Claim(c)
  <2>1. Keeps \/ WritesTold
    BY <1>1, <1>3 DEF Claim
  <2>2. PICK at \in {"check", "idle", "ended"}, r \in RowOf : Moves(c, at, r)
    <3>1. NoCall.seen \in RowOf /\ call[c].seen \in RowOf
      BY <1>0 DEF NoCall, RowOf, FiscalTypeOK
    <3> QED
      BY <1>0, <1>3, <3>1, CallGoes, CallEnds DEF Claim, Places
  <2>3. attempts' \in 0..MaxAttempts
    BY <1>0, <1>3, FiscalAssumption DEF Claim, FiscalTypeOK
  <2> QED
    BY <1>0, <1>3, <2>1, <2>2, <2>3, CallKeeps DEF Claim, Told, Savers, FiscalTypeOK
<1>4. CASE Release(c) \/ EmissionFails(c) \/ Pend(c)
  <2>1. WritesTold
    BY <1>1, <1>4 DEF Release, EmissionFails, Pend
  <2>2. PICK at \in {"idle", "ended"} : Moves(c, at, NoCall.seen)
    BY <1>0, <1>4, CallEnds DEF Release, EmissionFails, Pend
  <2>3. attempts' \in 0..MaxAttempts
    BY <1>0, <1>4, FiscalAssumption DEF Release, EmissionFails, Pend, TriesAgain, FiscalTypeOK
  <2> QED
    BY <1>0, <1>4, <2>1, <2>2, <2>3, CallKeeps
    DEF Release, EmissionFails, Pend, Told, Savers, FiscalTypeOK
<1>5. CASE Refunded(c)
  <2>1. WritesTold
    BY <1>0, <1>5 DEF Refunded, WritesTold, RowTold, FiscalTypeOK
  <2>2. Moves(c, "refund", call[c].seen)
    BY <1>0, <1>5, CallGoes DEF Refunded, Goes, Places
  <2> QED
    BY <1>0, <1>5, <2>1, <2>2, CallKeeps DEF Refunded, Told, Savers, FiscalTypeOK
<1> QED
  BY <1>2, <1>3, <1>4, <1>5

(* The steps of a call that change a note in Asaas. *)
LEMMA AsaasInv ==
    ASSUME NoteInv, NEW c \in Calls, Post(c) \/ Cancel(c)
    PROVE  NoteInv'
<1>0. FiscalTypeOK /\ AsksTold
  BY DEF NoteInv
<1>1. ASSUME NEW at \in {"failed", "refused", "pend"}, Goes(c, at), UNCHANGED <<note, past>>
      PROVE  NoteInv'
  <2>1. Moves(c, at, call[c].seen)
    BY <1>0, <1>1, CallGoes DEF Places
  <2> QED
    BY <1>0, <1>1, <2>1, CallKeeps DEF Post, Cancel, Told, Savers, FiscalTypeOK
<1>2. ASSUME NEW n \in Notes, NEW s \in NoteStatus, Becomes(n, s),
             \/ \E at \in {"link", "requested"} : Sees(c, at, [note |-> n, status |-> s])
             \/ \E at \in {"failed", "pend"} : Goes(c, at)
      PROVE  NoteInv'
  <2>1. /\ note' \in [Notes -> NoteStatus \cup {"none"}] /\ past' \in [Notes -> SUBSET NoteStatus]
        /\ NotesTold' /\ s \in past'[n] /\ \A m \in Notes : past[m] \subseteq past'[m]
    BY <1>2, BecomesTold
  <2>2. [note |-> n, status |-> s] \in RowOf
    BY <1>2 DEF RowOf
  <2>3. PICK at \in {"link", "requested", "failed", "pend"}, r \in RowOf :
          Moves(c, at, r) /\ (at \in Savers => r = [note |-> n, status |-> s])
    <3>1. CASE \E at \in {"link", "requested"} : Sees(c, at, [note |-> n, status |-> s])
      BY <1>0, <2>2, <3>1, CallSees DEF Places
    <3>2. CASE \E at \in {"failed", "pend"} : Goes(c, at)
      <4>1. call[c].seen \in RowOf
        BY <1>0 DEF FiscalTypeOK
      <4> QED
        BY <1>0, <3>2, <4>1, CallGoes DEF Places, Savers
    <3> QED
      BY <1>2, <3>1, <3>2
  <2>4. Keeps /\ UNCHANGED <<paid, listed, refunded, attempts>> /\ lost' \in BOOLEAN
    BY <1>0 DEF Post, Cancel, FiscalTypeOK
  <2>5. row' \in RowOf /\ age' \in 0..2 /\ older' \subseteq Calls
    BY <2>4, Busied
  <2>6. FiscalTypeOK'
    BY <1>0, <2>1, <2>3, <2>4, <2>5 DEF FiscalTypeOK, Moves, CallOf, Places
  <2>7. RowTold'
    BY <1>0, <2>1, <2>4 DEF NoteInv, RowTold, Keeps, FiscalTypeOK, RowOf
  <2>8. AsksTold' /\ SavesTold'
    BY <2>1, <2>3 DEF NoteInv, AsksTold, SavesTold, Moves, Savers
  <2> QED
    BY <2>1, <2>6, <2>7, <2>8 DEF NoteInv
<1>3. CASE Post(c)
  <2>1. CASE \E at \in {"failed", "refused"} : Goes(c, at) /\ UNCHANGED <<note, past>>
    BY <1>1, <2>1
  <2>2. CASE \E n \in OwnNotes : /\ Becomes(n, "SCHEDULED")
                                /\ \/ Sees(c, "link", [note |-> n, status |-> "SCHEDULED"])
                                   \/ Goes(c, "failed")
    BY <1>2, <2>2 DEF Notes, NoteStatus
  <2> QED
    BY <1>3, <2>1, <2>2 DEF Post
<1>4. CASE Cancel(c)
  <2> DEFINE n == call[c].seen.note
  <2>1. CASE Goes(c, "pend") /\ UNCHANGED <<note, past>>
    BY <1>1, <2>1
  <2>2. CASE \E s \in {"PROCESSING_CANCELLATION", "CANCELED"} :
               /\ Becomes(n, s)
               /\ \/ Sees(c, "requested", [note |-> n, status |-> s])
                  \/ Goes(c, "pend")
    <3>1. n \in Notes
      BY <1>0, <1>4 DEF Cancel, AsksTold
    <3> QED
      BY <1>2, <2>2, <3>1 DEF NoteStatus, Dead
  <2> QED
    BY <1>4, <2>1, <2>2 DEF Cancel
<1> QED
  BY <1>3, <1>4

(* What happens beside the calls. *)
LEMMA WorldInv ==
    ASSUME NoteInv, Pay \/ NoteEvent \/ Attach \/ ListPending \/ MarkResolved \/ NoteMoves \/ HalfTerm
    PROVE  NoteInv'
<1>0. FiscalTypeOK /\ RowTold /\ AsksTold /\ SavesTold
  BY DEF NoteInv
<1>1. CASE WritesTold /\ UNCHANGED <<listed, refunded, note, past, lost, attempts, call>> /\ paid' \in BOOLEAN
  <2>1. row' \in RowOf /\ age' \in 0..2 /\ older' \subseteq Calls
    BY <1>1, Busied
  <2>2. RowTold'
    BY <1>1 DEF WritesTold, Writes, RowTold
  <2> QED
    BY <1>0, <1>1, <2>1, <2>2 DEF NoteInv, FiscalTypeOK, NotesTold, AsksTold, SavesTold
<1>2. CASE Pay
  BY <1>0, <1>1, <1>2 DEF Pay, WritesTold, RowTold, FiscalTypeOK
<1>3. CASE NoteEvent
  <2>1. PICK n \in Notes : \E s \in past[n] : Writes([note |-> n, status |-> s])
    BY <1>3 DEF NoteEvent
  <2>2. PICK s \in past[n] : Writes([note |-> n, status |-> s])
    BY <2>1
  <2>3. [note |-> n, status |-> s] \in RowOf
    BY <1>0, <2>2 DEF FiscalTypeOK, RowOf
  <2>4. WritesTold
    BY <2>2, <2>3 DEF WritesTold
  <2> QED
    BY <1>0, <1>1, <1>3, <2>4 DEF NoteEvent, FiscalTypeOK
<1>4. CASE Attach \/ MarkResolved
  <2>1. PICK s \in {"AUTHORIZED", "CANCELED"} : Writes([row EXCEPT !.status = s])
    BY <1>4 DEF Attach, MarkResolved
  <2>2. [row EXCEPT !.status = s] \in RowOf /\ [row EXCEPT !.status = s].note = row.note
    BY <1>0, <2>1 DEF FiscalTypeOK, RowOf, NoteStatus, Dead
  <2>3. WritesTold
    BY <1>0, <2>1, <2>2 DEF WritesTold, RowTold
  <2> QED
    BY <1>0, <1>1, <1>4, <2>3 DEF Attach, MarkResolved, FiscalTypeOK
<1>5. CASE NoteMoves
  <2>1. PICK n \in Notes, s \in NoteStatus : Becomes(n, s)
    BY <1>5 DEF NoteMoves, NextStatus, Notes, NoteStatus, Dead
  <2>2. /\ note' \in [Notes -> NoteStatus \cup {"none"}] /\ past' \in [Notes -> SUBSET NoteStatus]
        /\ NotesTold' /\ \A m \in Notes : past[m] \subseteq past'[m]
    BY <2>1, BecomesTold
  <2>3. UNCHANGED <<row, age, older, paid, listed, refunded, lost, attempts, call>>
    BY <1>5 DEF NoteMoves
  <2>4. FiscalTypeOK'
    BY <1>0, <2>2, <2>3 DEF FiscalTypeOK
  <2>5. RowTold'
    BY <1>0, <2>2, <2>3 DEF RowTold, FiscalTypeOK, RowOf
  <2>6. AsksTold' /\ SavesTold'
    BY <1>0, <2>2, <2>3 DEF AsksTold, SavesTold
  <2> QED
    BY <2>2, <2>4, <2>5, <2>6 DEF NoteInv
<1>6. CASE HalfTerm
  <2>1. age' \in 0..2 /\ older' \subseteq Calls
    BY <1>0, <1>6 DEF HalfTerm, FiscalTypeOK, Busy
  <2> QED
    BY <1>0, <1>6, <2>1 DEF HalfTerm, NoteInv, FiscalTypeOK, NotesTold, RowTold, AsksTold, SavesTold
<1>7. CASE ListPending
  BY <1>0, <1>7 DEF ListPending, NoteInv, FiscalTypeOK, NotesTold, RowTold, AsksTold, SavesTold
<1> QED
  BY <1>2, <1>3, <1>4, <1>5, <1>6, <1>7

(* The initial states satisfy the invariant ... *)
LEMMA NoteInvInit == FiscalInit => NoteInv
<1> SUFFICES ASSUME FiscalInit PROVE NoteInv
  OBVIOUS
<1>1. row \in RowOf /\ row.note = None
  BY DEF FiscalInit, RowOf, NoteStatus, Dead
<1>2. NoCall \in CallOf
  BY DEF NoCall, CallOf, Places, RowOf
<1>3. age \in 0..2 /\ older \subseteq Calls /\ attempts \in 0..MaxAttempts
  BY FiscalAssumption DEF FiscalInit
<1>4. {paid, listed, refunded, lost} \subseteq BOOLEAN
  BY DEF FiscalInit
<1>5. FiscalTypeOK
  BY <1>1, <1>2, <1>3, <1>4 DEF FiscalInit, FiscalTypeOK, CallOf, Places
<1> QED
  BY <1>1, <1>5 DEF FiscalInit, NoteInv, NotesTold, RowTold, AsksTold, SavesTold, NoCall, Savers

(* ... and every step keeps it. *)
LEMMA NoteInvNext == NoteInv /\ [FiscalNext]_fiscalVars => NoteInv'
<1> SUFFICES ASSUME NoteInv, [FiscalNext]_fiscalVars PROVE NoteInv'
  OBVIOUS
<1>1. CASE \E c \in Calls : Ensure(c) \/ Refunded(c) \/ RefundAgain(c) \/ Works(c) \/ Dies(c)
  BY <1>1, LooksInv, ReadInv, WritesInv, AsaasInv DEF Works
<1>2. CASE Pay \/ NoteEvent \/ Attach \/ ListPending \/ MarkResolved \/ NoteMoves \/ HalfTerm
  BY <1>2, WorldInv
<1>3. CASE UNCHANGED fiscalVars
  BY <1>3 DEF fiscalVars, NoteInv, FiscalTypeOK, NotesTold, RowTold, AsksTold, SavesTold
<1> QED
  BY <1>1, <1>2, <1>3 DEF FiscalNext

(* The variables of a note's life keep their types: whatever an event brings *)
(* and whoever dies, what is asked or written is a note of the charge. *)
THEOREM FiscalTypeCorrect == FiscalSpec => []FiscalTypeOK
<1>1. NoteInv => FiscalTypeOK
  BY DEF NoteInv
<1> QED
  BY <1>1, NoteInvInit, NoteInvNext, PTL DEF FiscalSpec

(* Where a call comes from: what each place on the way of an emission says   *)
(* of the step that leads there. *)
Way(c, at) ==
    /\ at = "claim" => call[c].at = "list" /\ UNCHANGED note /\ \A n \in Notes : ~Valid(n)
    /\ at = "check" => /\ call[c].at = "claim" /\ Claimable
                       /\ Writes([row EXCEPT !.status = "SCHEDULING"])
    /\ at \in {"post", "release"} => call[c].at = "check"
    /\ at = "post" => ~refunded
    /\ at = "link" => call[c].at = "post"
    /\ at \in {"failed", "refused"} => \/ call[c].at \in {"check", "post"}
                                       \/ call[c].at = "link" /\ lost'
    /\ call[c].at \in {"idle", "ended"} => Free(c)

(* Every step of a call moves it along its way. *)
LEMMA CallWay ==
    ASSUME NoteInv, NEW c \in Calls,
           Ensure(c) \/ Refunded(c) \/ RefundAgain(c) \/ Works(c) \/ Dies(c)
    PROVE  \E at \in Places : \E r \in RowOf : Moves(c, at, r) /\ Way(c, at)
<1>0. /\ FiscalTypeOK /\ AsksTold /\ NotesTold
      /\ call[c].seen \in RowOf /\ row \in RowOf /\ NoCall.seen \in RowOf
  BY DEF NoteInv, FiscalTypeOK, NoCall, RowOf
<1>1. ASSUME NEW at \in Places, Goes(c, at), Way(c, at)
      PROVE  \E to \in Places : \E r \in RowOf : Moves(c, to, r) /\ Way(c, to)
  BY <1>0, <1>1, CallGoes
<1>2. ASSUME NEW at \in Places, NEW r \in RowOf, Sees(c, at, r), Way(c, at)
      PROVE  \E to \in Places : \E s \in RowOf : Moves(c, to, s) /\ Way(c, to)
  BY <1>0, <1>2, CallSees
<1>3. ASSUME Ends(c), call[c].at \notin {"idle", "ended"}
      PROVE  \E at \in Places : \E r \in RowOf : Moves(c, at, r) /\ Way(c, at)
  <2>1. PICK at \in {"idle", "ended"} : Moves(c, at, NoCall.seen)
    BY <1>0, <1>3, CallEnds
  <2>2. Way(c, at) /\ at \in Places
    BY <1>3, <2>1 DEF Way, Places
  <2> QED
    BY <1>0, <2>1, <2>2
<1>4. CASE Ensure(c)
  <2>1. PICK f \in BOOLEAN : call' = [call EXCEPT ![c] = [NoCall EXCEPT !.at = "read", !.force = f]]
    BY <1>4 DEF Ensure
  <2>2. Moves(c, "read", NoCall.seen)
    BY <1>0, <2>1 DEF FiscalTypeOK, Moves, CallOf, Places, NoCall, RowOf
  <2>3. Way(c, "read") /\ "read" \in Places
    BY <1>4 DEF Ensure, Way, Places
  <2> QED
    BY <1>0, <2>2, <2>3
<1>5. CASE Refunded(c) \/ RefundAgain(c)
  <2>1. Goes(c, "refund") /\ Way(c, "refund") /\ "refund" \in Places
    BY <1>5 DEF Refunded, RefundAgain, Goes, Way, Places
  <2> QED
    BY <1>1, <2>1
<1>6. CASE Skip(c) \/ GivesUp(c) \/ Save(c) \/ Release(c) \/ EmissionFails(c) \/ Pend(c) \/ Dies(c)
  BY <1>3, <1>6 DEF Skip, GivesUp, Save, Release, EmissionFails, Pend, Dies, Busy
<1>7. CASE Read(c)
  <2>1. PICK at \in {"pull", "list", "look"} : Sees(c, at, row)
    BY <1>7 DEF Read
  <2>2. Way(c, at) /\ at \in Places
    BY <1>7, <2>1 DEF Read, Way, Places
  <2> QED
    BY <1>0, <1>2, <2>1, <2>2
<1>8. ASSUME NEW n \in Notes, note[n] # "none", Sees(c, "save", [note |-> n, status |-> note[n]]),
             call[c].at \in {"pull", "list", "look"}
      PROVE  \E to \in Places : \E s \in RowOf : Moves(c, to, s) /\ Way(c, to)
  <2>1. [note |-> n, status |-> note[n]] \in RowOf
    BY <1>0, <1>8 DEF FiscalTypeOK, RowOf
  <2>2. Way(c, "save") /\ "save" \in Places
    BY <1>8 DEF Way, Places
  <2> QED
    BY <1>2, <1>8, <2>1, <2>2
<1>9. CASE Pull(c)
  BY <1>0, <1>8, <1>9 DEF Pull, AsksTold, NotesTold
<1>10. CASE List(c)
  <2>1. CASE \E n \in Notes : Valid(n) /\ Sees(c, "save", [note |-> n, status |-> note[n]])
    BY <1>8, <1>10, <2>1 DEF List, Valid
  <2>2. CASE Ends(c)
    BY <1>3, <1>10, <2>2 DEF List
  <2>3. CASE call[c].at = "list" /\ Goes(c, "claim") /\ \A n \in Notes : ~Valid(n)
    <3>1. Way(c, "claim") /\ "claim" \in Places
      BY <1>10, <2>3 DEF List, Way, Places
    <3> QED
      BY <1>1, <2>3, <3>1
  <2> QED
    BY <1>10, <2>1, <2>2, <2>3 DEF List
<1>11. CASE SaveFails(c)
  <2>1. PICK at \in {"failed", "pend"} : Goes(c, at) /\ (at = "failed" => call[c].at = "link" /\ lost')
    BY <1>11 DEF SaveFails
  <2>2. Way(c, at) /\ at \in Places
    BY <1>11, <2>1 DEF SaveFails, Way, Places
  <2> QED
    BY <1>1, <2>1, <2>2
<1>12. CASE Claim(c)
  <2>1. CASE Claimable
    <3>1. Goes(c, "check") /\ Way(c, "check") /\ "check" \in Places
      BY <1>12, <2>1 DEF Claim, Way, Places
    <3> QED
      BY <1>1, <3>1
  <2>2. CASE ~Claimable
    BY <1>3, <1>12, <2>2 DEF Claim
  <2> QED
    BY <2>1, <2>2
<1>13. CASE Check(c)
  <2>1. PICK at \in {"post", "release", "failed", "refused"} :
           Goes(c, at) /\ (at = "post" => ~refunded)
    BY <1>13 DEF Check
  <2>2. Way(c, at) /\ at \in Places
    BY <1>13, <2>1 DEF Check, Way, Places
  <2> QED
    BY <1>1, <2>1, <2>2
<1>14. CASE Post(c)
  <2>1. CASE \E at \in {"failed", "refused"} : Goes(c, at)
    <3>1. PICK at \in {"failed", "refused"} : Goes(c, at)
      BY <2>1
    <3>2. Way(c, at) /\ at \in Places
      BY <1>14, <3>1 DEF Post, Way, Places
    <3> QED
      BY <1>1, <3>1, <3>2
  <2>2. CASE \E n \in OwnNotes : Sees(c, "link", [note |-> n, status |-> "SCHEDULED"])
    <3>1. PICK n \in OwnNotes : Sees(c, "link", [note |-> n, status |-> "SCHEDULED"])
      BY <2>2
    <3>2. [note |-> n, status |-> "SCHEDULED"] \in RowOf
      BY DEF RowOf, Notes, NoteStatus
    <3>3. Way(c, "link") /\ "link" \in Places
      BY <1>14 DEF Post, Way, Places
    <3> QED
      BY <1>2, <3>1, <3>2, <3>3
  <2> QED
    BY <1>14, <2>1, <2>2 DEF Post
<1>15. CASE HandleRefund(c)
  <2>1. CASE Ends(c)
    BY <1>3, <1>15, <2>1 DEF HandleRefund
  <2>2. CASE Sees(c, "cancel", row)
    <3>1. Way(c, "cancel") /\ "cancel" \in Places
      BY <1>15 DEF HandleRefund, Way, Places
    <3> QED
      BY <1>0, <1>2, <2>2, <3>1
  <2> QED
    BY <1>15, <2>1, <2>2 DEF HandleRefund
<1>16. CASE Cancel(c)
  <2>1. CASE Goes(c, "pend")
    <3>1. Way(c, "pend") /\ "pend" \in Places
      BY <1>16 DEF Cancel, Way, Places
    <3> QED
      BY <1>1, <2>1, <3>1
  <2>2. CASE \E s \in {"PROCESSING_CANCELLATION", "CANCELED"} :
               Sees(c, "requested", [note |-> call[c].seen.note, status |-> s])
    <3>1. PICK s \in {"PROCESSING_CANCELLATION", "CANCELED"} :
             Sees(c, "requested", [note |-> call[c].seen.note, status |-> s])
      BY <2>2
    <3>2. [note |-> call[c].seen.note, status |-> s] \in RowOf
      BY <1>0, <1>16, <3>1 DEF Cancel, AsksTold, RowOf, NoteStatus, Dead
    <3>3. Way(c, "requested") /\ "requested" \in Places
      BY <1>16 DEF Cancel, Way, Places
    <3> QED
      BY <1>2, <3>1, <3>2, <3>3
  <2> QED
    BY <1>16, <2>1, <2>2 DEF Cancel
<1> QED
  BY <1>4, <1>5, <1>6, <1>7, <1>9, <1>10, <1>11, <1>12, <1>13, <1>14, <1>15, <1>16 DEF Works

(* A note of the service becomes valid by a post alone. *)
LEMMA OnlyPosts ==
    ASSUME NoteInv, [FiscalNext]_fiscalVars
    PROVE  \/ \A n \in OwnNotes : Valid(n)' => Valid(n)
           \/ \E c \in Calls, n \in OwnNotes :
                /\ call[c].at = "post" /\ note[n] = "none" /\ Keeps
                /\ \A m \in OwnNotes \ {n} : Valid(m)' => Valid(m)
                /\ \/ call'[c].at = "link" /\ call'[c].seen.note = n
                   \/ call'[c].at = "failed" /\ lost'
<1>0. FiscalTypeOK /\ AsksTold
  BY DEF NoteInv
<1>1. CASE UNCHANGED note
  BY <1>1 DEF Valid
<1>2. CASE \E c \in Calls : Post(c)
  <2>1. PICK c \in Calls : Post(c)
    BY <1>2
  <2>2. CASE UNCHANGED note
    BY <1>1, <2>2
  <2>3. CASE \E n \in OwnNotes : /\ note[n] = "none" /\ Becomes(n, "SCHEDULED")
                                /\ \/ Sees(c, "link", [note |-> n, status |-> "SCHEDULED"])
                                   \/ lost' /\ Goes(c, "failed")
    <3>1. PICK n \in OwnNotes : /\ note[n] = "none" /\ Becomes(n, "SCHEDULED")
                                /\ \/ Sees(c, "link", [note |-> n, status |-> "SCHEDULED"])
                                   \/ lost' /\ Goes(c, "failed")
      BY <2>3
    <3>2. \A m \in OwnNotes \ {n} : note'[m] = note[m]
      BY <1>0, <3>1 DEF FiscalTypeOK, Becomes, Notes
    <3>3. \/ call'[c].at = "link" /\ call'[c].seen.note = n
          \/ call'[c].at = "failed" /\ lost'
      BY <1>0, <3>1 DEF FiscalTypeOK, Sees, Goes
    <3> QED
      BY <2>1, <3>1, <3>2, <3>3 DEF Post, Valid
  <2> QED
    BY <2>1, <2>2, <2>3 DEF Post
<1>3. CASE \E c \in Calls : Cancel(c) /\ ~UNCHANGED note
  <2>1. PICK c \in Calls : Cancel(c) /\ ~UNCHANGED note
    BY <1>3
  <2>2. PICK n \in Notes, s \in NoteStatus : Valid(n) /\ Becomes(n, s)
    BY <1>0, <2>1 DEF Cancel, AsksTold, NoteStatus, Dead
  <2>3. \A m \in Notes \ {n} : note'[m] = note[m]
    BY <1>0, <2>2 DEF FiscalTypeOK, Becomes
  <2> QED
    BY <2>2, <2>3 DEF Valid, Notes
<1>4. CASE NoteMoves
  <2>1. PICK n \in Notes : (n \in PanelNotes \/ Valid(n)) /\ \E s : Becomes(n, s)
    BY <1>0, <1>4 DEF NoteMoves, NextStatus, Valid, Dead
  <2>2. \A m \in Notes \ {n} : note'[m] = note[m]
    BY <1>0, <2>1 DEF FiscalTypeOK, Becomes
  <2>3. n \in PanelNotes => n \notin OwnNotes
    BY FiscalAssumption
  <2> QED
    BY <2>1, <2>2, <2>3 DEF Valid, Notes
<1>5. UNCHANGED note \/ (\E c \in Calls : Post(c) \/ Cancel(c)) \/ NoteMoves
  BY DEF FiscalNext, fiscalVars, Works, Ensure, Skip, Read, Pull, List, GivesUp, Save, SaveFails,
         Claim, Check, Release, EmissionFails, Refunded, RefundAgain, HandleRefund, Pend, Dies,
         Pay, NoteEvent, Attach, ListPending, MarkResolved, HalfTerm
<1> QED
  BY <1>1, <1>2, <1>3, <1>4, <1>5

(* A step is one of a call, or leaves the calls alone. *)
LEMMA StepOf ==
    ASSUME NoteInv, [FiscalNext]_fiscalVars
    PROVE  \/ \E c \in Calls, at \in Places, r \in RowOf : Moves(c, at, r) /\ Way(c, at)
           \/ UNCHANGED call
<1>1. CASE \E c \in Calls : Ensure(c) \/ Refunded(c) \/ RefundAgain(c) \/ Works(c) \/ Dies(c)
  BY <1>1, CallWay
<1>2. CASE \/ Pay \/ NoteEvent \/ Attach \/ ListPending \/ MarkResolved \/ NoteMoves \/ HalfTerm
           \/ UNCHANGED fiscalVars
  BY <1>2 DEF Pay, NoteEvent, Attach, ListPending, MarkResolved, NoteMoves, HalfTerm, fiscalVars
<1> QED
  BY <1>1, <1>2 DEF FiscalNext

-----------------------------------------------------------------------------
(* In turns: a call that is about to schedule a note found none, and no      *)
(* other call works. *)
OneAtWork == \A c, d \in Busy : c = d
ListedFirst ==
    \A c \in Calls : call[c].at \in {"claim", "check", "post"} => \A n \in OwnNotes : ~Valid(n)

TurnInv == OneAtWork /\ ListedFirst /\ OneNote

(* Every step keeps the invariant of turns. *)
LEMMA TurnInvNext ==
    ASSUME ~Overlap, NoteInv, TurnInv, [FiscalNext]_fiscalVars
    PROVE  TurnInv'
<1>1. CASE UNCHANGED call
  <2>1. \A n \in OwnNotes : Valid(n)' => Valid(n)
    BY <1>1, OnlyPosts
  <2> QED
    BY <1>1, <2>1 DEF TurnInv, OneAtWork, Busy, ListedFirst, OneNote
<1>2. ASSUME NEW c \in Calls, NEW at \in Places, NEW r \in RowOf, Moves(c, at, r), Way(c, at)
      PROVE  TurnInv'
  <2>1. c \in Busy \/ Busy = {}
    BY <1>2 DEF Way, Free, Busy
  <2>2. Busy \subseteq {c} /\ Busy' \subseteq {c}
    BY <1>2, <2>1 DEF TurnInv, OneAtWork, Busy, Moves
  <2>3. OneAtWork'
    BY <2>2 DEF OneAtWork
  <2>4. CASE \A n \in OwnNotes : Valid(n)' => Valid(n)
    <3>1. ASSUME NEW d \in Calls, call'[d].at \in {"claim", "check", "post"}
          PROVE  \A n \in OwnNotes : ~Valid(n)'
      <4>1. d = c /\ at \in {"claim", "check", "post"}
        BY <1>2, <2>2, <3>1 DEF Busy, Moves
      <4>2. \A n \in OwnNotes : ~Valid(n)
        BY <1>2, <4>1 DEF Way, TurnInv, ListedFirst, Notes
      <4> QED
        BY <2>4, <4>2
    <3> QED
      BY <2>3, <2>4, <3>1 DEF TurnInv, ListedFirst, OneNote
  <2>5. CASE ~\A n \in OwnNotes : Valid(n)' => Valid(n)
    <3>1. PICK d \in Calls, n \in OwnNotes :
             /\ call[d].at = "post" /\ call'[d].at \in {"link", "failed"}
             /\ \A m \in OwnNotes \ {n} : Valid(m)' => Valid(m)
      BY <2>5, OnlyPosts
    <3>2. d = c /\ \A m \in OwnNotes : ~Valid(m)
      BY <2>2, <3>1 DEF Busy, TurnInv, ListedFirst
    <3>3. OneNote'
      BY <3>1, <3>2 DEF OneNote
    <3>4. ListedFirst'
      BY <2>2, <3>1, <3>2 DEF ListedFirst, Busy
    <3> QED
      BY <2>3, <3>3, <3>4 DEF TurnInv
  <2> QED
    BY <2>4, <2>5
<1> QED
  BY <1>1, <1>2, StepOf

(* "Nunca agenda duas notas" (ensureForInvoice): when calls come in turns,   *)
(* an invoice has at most one note of the service that is not dead, whatever *)
(* answers are lost, calls die, events come late or people do. *)
THEOREM OneNoteInTurns == ASSUME ~Overlap PROVE FiscalSpec => []OneNote
<1>1. FiscalInit => TurnInv
  BY DEF FiscalInit, TurnInv, OneAtWork, Busy, NoCall, ListedFirst, OneNote, Valid, Notes
<1>2. NoteInv /\ TurnInv /\ [FiscalNext]_fiscalVars => TurnInv'
  BY TurnInvNext
<1>3. TurnInv => OneNote
  BY DEF TurnInv
<1> QED
  BY <1>1, <1>2, <1>3, NoteInvInit, NoteInvNext, PTL DEF FiscalSpec

-----------------------------------------------------------------------------
(* When calls meet: the claim is held by one call, it is fresh as long as    *)
(* that call works, and who finds the row claimable after a note was         *)
(* scheduled has listed that note. *)
Emitting == {c \in Calls : call[c].at \in {"check", "post", "link", "release", "failed", "refused"}}
Untaken == (row.note = None /\ row.status = "null") \/ row.status \in Retryable
Scheduled == \E n \in OwnNotes : Valid(n)
Untroubled == ~lost /\ \A n \in Notes : past[n] \cap Dead = {}

OneEmits == \A c, d \in Emitting : c = d
ClaimIsFresh == \A c \in Emitting : age = 0 /\ c \in older
RowIsTaken == Emitting # {} \/ Scheduled => ~Untaken
EmitsFirst == \A c \in Emitting : \A n \in OwnNotes :
    Valid(n) => call[c].at = "link" /\ n = call[c].seen.note
LateClaims == Scheduled =>
    \A c \in Calls : call[c].at = "claim" => age = 0 \/ (age = 1 /\ c \in older)

ClaimInv == OneEmits /\ ClaimIsFresh /\ RowIsTaken /\ EmitsFirst /\ LateClaims /\ OneNote

(* Nobody claims while another emits, nor once a note is scheduled. *)
LEMMA ClaimsAlone ==
    ASSUME NoteInv, ClaimInv, NEW c \in Calls, call[c].at = "claim", Claimable
    PROVE  Emitting = {} /\ ~Scheduled
<1>1. CASE Untaken
  BY <1>1 DEF ClaimInv, RowIsTaken
<1>2. CASE age = 2
  <2>1. age # 0 /\ age # 1
    BY <1>2
  <2> QED
    BY <2>1 DEF ClaimInv, ClaimIsFresh, LateClaims
<1> QED
  BY <1>1, <1>2 DEF Claimable, Untaken

(* No note is forgotten by its past. *)
LEMMA PastGrows ==
    ASSUME NoteInv, [FiscalNext]_fiscalVars, NEW n \in Notes
    PROVE  past[n] \subseteq past'[n]
<1>1. ASSUME NEW m \in Notes, NEW s, Becomes(m, s) PROVE past[n] \subseteq past'[n]
  BY <1>1 DEF NoteInv, FiscalTypeOK, Becomes
<1>2. CASE \E c \in Calls : Post(c)
  BY <1>1, <1>2 DEF Post, Notes
<1>3. CASE \E c \in Calls : Cancel(c)
  BY <1>1, <1>3 DEF Cancel, NoteInv, AsksTold
<1>4. CASE NoteMoves
  BY <1>1, <1>4 DEF NoteMoves, Notes
<1>5. UNCHANGED past \/ (\E c \in Calls : Post(c) \/ Cancel(c)) \/ NoteMoves
  BY DEF FiscalNext, fiscalVars, Works, Ensure, Skip, Read, Pull, List, GivesUp, Save, SaveFails,
         Claim, Check, Release, EmissionFails, Refunded, RefundAgain, HandleRefund, Pend, Dies,
         Pay, NoteEvent, Attach, ListPending, MarkResolved, HalfTerm
<1> QED
  BY <1>2, <1>3, <1>4, <1>5

(* A cancellation is pending or was found so, and a refund is handled, when  *)
(* the invoice was refunded. *)
Refunding == {"refund", "cancel", "requested", "pend"}
PendingInv ==
    /\ row.status = "CANCEL_PENDING" \/ listed => refunded
    /\ \A c \in Calls : call[c].seen.status = "CANCEL_PENDING" \/ call[c].at \in Refunding
                         => refunded

(* A refund is final. *)
LEMMA RefundStays == ASSUME [FiscalNext]_fiscalVars, refunded PROVE refunded'
BY DEF FiscalNext, fiscalVars, Works, Ensure, Skip, Read, Pull, List, GivesUp, Save, SaveFails,
       Claim, Check, Release, Post, EmissionFails, Refunded, RefundAgain, HandleRefund, Cancel,
       Pend, Dies, Pay, NoteEvent, Attach, ListPending, MarkResolved, NoteMoves, HalfTerm

(* So is a lost answer. *)
LEMMA LossStays == ASSUME NoteInv, [FiscalNext]_fiscalVars, lost PROVE lost'
BY DEF NoteInv, FiscalTypeOK, FiscalNext, fiscalVars, Works, Ensure, Skip, Read, Pull, List,
       GivesUp, Save, SaveFails, Claim, Check, Release, Post, EmissionFails, Refunded,
       RefundAgain, HandleRefund, Cancel, Pend, Dies, Pay, NoteEvent, Attach, ListPending, MarkResolved,
       NoteMoves, HalfTerm

(* Before it nobody writes that a cancellation is pending ... *)
LEMMA PendingRow ==
    ASSUME NoteInv, PendingInv, ~refunded, [FiscalNext]_fiscalVars
    PROVE  row'.status # "CANCEL_PENDING"
<1>0. FiscalTypeOK /\ row.status # "CANCEL_PENDING" /\ "CANCEL_PENDING" \notin NoteStatus
  BY DEF NoteInv, PendingInv, NoteStatus, Dead
<1>1. ASSUME NEW s, s # "CANCEL_PENDING", Writes([row EXCEPT !.status = s])
      PROVE  row'.status # "CANCEL_PENDING"
  BY <1>0, <1>1 DEF FiscalTypeOK, RowOf, Writes
<1>2. CASE \E c \in Calls : Save(c) \/ Release(c)
  <2>1. PICK c \in Calls : Save(c) \/ Release(c)
    BY <1>2
  <2>2. call[c].seen.status # "CANCEL_PENDING"
    BY DEF PendingInv
  <2> QED
    BY <1>1, <2>1, <2>2 DEF Save, Release, Writes
<1>3. CASE \E c \in Calls : Claim(c) \/ EmissionFails(c)
  BY <1>0, <1>1, <1>3 DEF Claim, EmissionFails, Keeps
<1>4. CASE \E c \in Calls : Pend(c)
  BY <1>4 DEF Pend, PendingInv, Refunding
<1>5. CASE NoteEvent
  <2>1. PICK n \in Notes : \E s \in past[n] : Writes([note |-> n, status |-> s])
    BY <1>5 DEF NoteEvent
  <2> QED
    BY <1>0, <2>1 DEF FiscalTypeOK, Writes
<1>6. CASE Attach \/ MarkResolved
  BY <1>1, <1>6 DEF Attach, MarkResolved
<1>7. \/ row' = row \/ NoteEvent \/ Attach \/ MarkResolved
      \/ \E c \in Calls : Save(c) \/ Claim(c) \/ Release(c) \/ EmissionFails(c) \/ Pend(c)
  BY DEF FiscalNext, fiscalVars, Works, Ensure, Skip, Read, Pull, List, GivesUp, SaveFails,
         Check, Post, Refunded, RefundAgain, HandleRefund, Cancel, Dies, Pay, ListPending,
         NoteMoves, HalfTerm,
         Keeps, Writes
<1> QED
  BY <1>0, <1>2, <1>3, <1>4, <1>5, <1>6, <1>7

(* ... so nobody finds one that is ... *)
LEMMA ListedStays ==
    ASSUME [FiscalNext]_fiscalVars, listed' # listed
    PROVE  row.status = "CANCEL_PENDING"
BY DEF FiscalNext, fiscalVars, Works, Ensure, Skip, Read, Pull, List, GivesUp, Save, SaveFails,
       Claim, Check, Release, Post, EmissionFails, Refunded, RefundAgain, HandleRefund, Cancel,
       Pend, Dies, Pay, NoteEvent, Attach, ListPending, MarkResolved, NoteMoves, HalfTerm

(* ... and nobody reads it or handles a refund. *)
LEMMA PendingNext ==
    ASSUME NoteInv, PendingInv, [FiscalNext]_fiscalVars
    PROVE  PendingInv'
<1>0. FiscalTypeOK /\ AsksTold
  BY DEF NoteInv
<1>1. CASE refunded'
  BY <1>1 DEF PendingInv
<1>2. CASE ~refunded'
  <2>0. /\ ~refunded /\ row.status # "CANCEL_PENDING" /\ row \in RowOf /\ ~listed'
        /\ \A c \in Calls : call[c].seen.status # "CANCEL_PENDING" /\ call[c].at \notin Refunding
    BY <1>0, <1>2, RefundStays, ListedStays DEF PendingInv, FiscalTypeOK
  <2>1. ASSUME NEW c \in Calls, NEW at \in Places \ Refunding, NEW r \in RowOf,
               r.status # "CANCEL_PENDING", Moves(c, at, r)
        PROVE  PendingInv'
    <3>1. \A d \in Calls : call'[d].seen.status # "CANCEL_PENDING" /\ call'[d].at \notin Refunding
      BY <2>0, <2>1 DEF Moves
    <3> QED
      BY <2>0, <3>1, PendingRow DEF PendingInv
  <2>2. ASSUME NEW c \in Calls, NEW at \in Places \ Refunding, Goes(c, at) PROVE PendingInv'
    <3>1. Moves(c, at, call[c].seen) /\ call[c].seen \in RowOf
      BY <1>0, <2>2, CallGoes DEF FiscalTypeOK
    <3> QED
      BY <2>0, <2>1, <2>2, <3>1
  <2>3. ASSUME NEW c \in Calls, Ends(c) PROVE PendingInv'
    <3>1. PICK at \in {"idle", "ended"} : Moves(c, at, NoCall.seen)
      BY <1>0, <2>3, CallEnds
    <3>2. NoCall.seen \in RowOf /\ NoCall.seen.status # "CANCEL_PENDING"
      BY DEF NoCall, RowOf
    <3> QED
      BY <2>1, <3>1, <3>2 DEF Places, Refunding
  <2>4. ASSUME NEW c \in Calls, NEW at \in Places \ Refunding, NEW r \in RowOf,
               r.status # "CANCEL_PENDING", Sees(c, at, r)
        PROVE  PendingInv'
    BY <1>0, <2>1, <2>4, CallSees
  <2>5. CASE \E c \in Calls : Ensure(c)
    <3>1. PICK c \in Calls, f \in BOOLEAN :
             call' = [call EXCEPT ![c] = [NoCall EXCEPT !.at = "read", !.force = f]]
      BY <2>5 DEF Ensure
    <3>2. Moves(c, "read", NoCall.seen) /\ NoCall.seen \in RowOf
      BY <1>0, <3>1 DEF FiscalTypeOK, Moves, CallOf, Places, NoCall, RowOf
    <3>3. NoCall.seen.status # "CANCEL_PENDING"
      BY DEF NoCall
    <3> QED
      BY <2>1, <3>2, <3>3 DEF Places, Refunding
  <2>6. CASE \E c \in Calls : Read(c)
    <3>1. PICK c \in Calls, at \in {"pull", "list", "look"} : Sees(c, at, row)
      BY <2>6 DEF Read
    <3> QED
      BY <2>0, <2>4, <3>1 DEF Places, Refunding
  <2>7. CASE \E c \in Calls, n \in Notes : /\ note[n] # "none"
                                         /\ Sees(c, "save", [note |-> n, status |-> note[n]])
    <3>1. PICK c \in Calls, n \in Notes : /\ note[n] # "none"
                                         /\ Sees(c, "save", [note |-> n, status |-> note[n]])
      BY <2>7
    <3>2. note[n] \in NoteStatus
      BY <1>0, <3>1 DEF FiscalTypeOK
    <3>3. /\ [note |-> n, status |-> note[n]] \in RowOf
          /\ [note |-> n, status |-> note[n]].status # "CANCEL_PENDING"
      BY <3>2 DEF RowOf, NoteStatus, Dead
    <3> QED
      BY <2>4, <3>1, <3>3 DEF Places, Refunding
  <2>8. CASE \E c \in Calls : Pull(c) \/ List(c)
    <3>1. PICK c \in Calls : Pull(c) \/ List(c)
      BY <2>8
    <3>2. CASE Pull(c)
      BY <1>0, <2>7, <3>2 DEF Pull, AsksTold, NoteInv, NotesTold
    <3>3. CASE List(c)
      BY <2>2, <2>3, <2>7, <3>3 DEF List, Valid, Places, Refunding
    <3> QED
      BY <3>1, <3>2, <3>3
  <2>9. CASE \E c \in Calls : Post(c)
    <3>1. PICK c \in Calls : Post(c)
      BY <2>9
    <3>2. ASSUME NEW n \in OwnNotes, Sees(c, "link", [note |-> n, status |-> "SCHEDULED"])
          PROVE  PendingInv'
      <4>1. [note |-> n, status |-> "SCHEDULED"] \in RowOf
        BY DEF RowOf, Notes, NoteStatus
      <4> QED
        BY <2>4, <3>2, <4>1 DEF Places, Refunding
    <3> QED
      BY <2>2, <3>1, <3>2 DEF Post, Places, Refunding
  <2>10. CASE \E c \in Calls : SaveFails(c) \/ Check(c)
    BY <2>0, <2>2, <2>10 DEF SaveFails, Check, Places, Refunding
  <2>11. CASE \E c \in Calls : \/ Skip(c) \/ GivesUp(c) \/ Save(c) \/ Claim(c) \/ Release(c)
                            \/ EmissionFails(c) \/ Dies(c)
    BY <2>2, <2>3, <2>11 DEF Skip, GivesUp, Save, Claim, Release, EmissionFails, Dies,
                             Places, Refunding
  <2>12. CASE UNCHANGED call
    BY <2>0, <2>12, PendingRow DEF PendingInv
  <2>13. \A c \in Calls : ~(HandleRefund(c) \/ Cancel(c) \/ Pend(c) \/ Refunded(c) \/ RefundAgain(c))
    BY <1>2, <2>0 DEF HandleRefund, Cancel, Pend, Refunded, RefundAgain, Refunding
  <2>14. Pay \/ NoteEvent \/ Attach \/ ListPending \/ MarkResolved \/ NoteMoves \/ HalfTerm \/ UNCHANGED fiscalVars
         => UNCHANGED call
    BY DEF Pay, NoteEvent, Attach, ListPending, MarkResolved, NoteMoves, HalfTerm, fiscalVars
  <2> QED
    BY <2>5, <2>6, <2>8, <2>9, <2>10, <2>11, <2>12, <2>13, <2>14 DEF FiscalNext, Works
<1> QED
  BY <1>1, <1>2

(* How the age of the row moves. *)
Fresh == age' = 0 /\ older' = Busy'
Ages == age' = age + 1 /\ older = {} /\ older' = Busy /\ UNCHANGED call

(* It starts again with a write, or grows when no call is older. *)
LEMMA AgeSteps ==
    ASSUME ~Slow, [FiscalNext]_fiscalVars
    PROVE  Fresh \/ Keeps \/ Ages \/ UNCHANGED <<age, older, call>>
<1>1. ASSUME NEW r, Writes(r) PROVE Fresh
  BY <1>1 DEF Writes, Fresh
<1>2. ASSUME NEW c \in Calls,
             \/ Skip(c) \/ Read(c) \/ Pull(c) \/ List(c) \/ GivesUp(c) \/ SaveFails(c) \/ Check(c)
             \/ Post(c) \/ HandleRefund(c) \/ Cancel(c) \/ Ensure(c) \/ RefundAgain(c) \/ Dies(c)
      PROVE  Keeps
  BY <1>2 DEF Skip, Read, Pull, List, GivesUp, SaveFails, Check, Post, HandleRefund, Cancel,
              Ensure, RefundAgain, Dies
<1>3. ASSUME NEW c \in Calls,
             Save(c) \/ Claim(c) \/ Release(c) \/ EmissionFails(c) \/ Pend(c) \/ Refunded(c)
      PROVE  Fresh \/ Keeps
  BY <1>1, <1>3 DEF Save, Claim, Release, EmissionFails, Pend, Refunded
<1>4. Pay \/ NoteEvent \/ Attach \/ MarkResolved => Fresh
  BY <1>1 DEF Pay, NoteEvent, Attach, MarkResolved
<1>5. HalfTerm => Ages
  BY DEF HalfTerm, Ages
<1>6. ListPending \/ NoteMoves \/ UNCHANGED fiscalVars => UNCHANGED <<age, older, call>>
  BY DEF ListPending, NoteMoves, fiscalVars
<1> QED
  BY <1>2, <1>3, <1>4, <1>5, <1>6 DEF FiscalNext, Works

(* Only the call that emits makes the row claimable again, when it ends      *)
(* without a note. *)
LEMMA RowSteps ==
    ASSUME ~refunded, PendingInv, NoteInv, Untroubled, [FiscalNext]_fiscalVars
    PROVE  \/ row' = row
           \/ ~Untaken'
           \/ \E c \in Emitting : call[c].at # "link" /\ Ends(c) /\ UNCHANGED note
<1>0. FiscalTypeOK
  BY DEF NoteInv
<1>1. ASSUME NEW n \in Notes, NEW s \in past[n], row' = [note |-> n, status |-> s]
      PROVE  ~Untaken'
  <2>1. s \in NoteStatus \ Dead
    BY <1>0 DEF FiscalTypeOK, Untroubled
  <2> QED
    BY <1>1, <2>1 DEF Untaken, Retryable, NoteStatus, Dead
<1>2. ASSUME NEW s \in {"SCHEDULING", "CANCEL_PENDING", "AUTHORIZED"},
             Writes([row EXCEPT !.status = s])
      PROVE  ~Untaken'
  <2>1. row'.status = s
    BY <1>0, <1>2 DEF Writes, FiscalTypeOK, RowOf
  <2> QED
    BY <2>1 DEF Untaken, Retryable, Dead
<1>3. CASE \E c \in Calls : Save(c)
  <2>1. PICK c \in Calls : Save(c)
    BY <1>3
  <2>2. row' = call[c].seen /\ call[c].seen \in RowOf
    BY <1>0, <2>1 DEF Save, Writes, FiscalTypeOK
  <2>3. row' = [note |-> call[c].seen.note, status |-> call[c].seen.status]
    BY <2>2 DEF RowOf
  <2>4. call[c].seen.note \in Notes /\ call[c].seen.status \in past[call[c].seen.note]
    BY <2>1 DEF NoteInv, SavesTold, Savers, Save
  <2> QED
    BY <1>1, <2>3, <2>4
<1>4. CASE \E c \in Calls : Claim(c)
  BY <1>2, <1>4 DEF Claim, Keeps
<1>5. CASE \E c \in Calls : Release(c) \/ EmissionFails(c)
  BY <1>5 DEF Release, EmissionFails, Emitting
<1>6. CASE (\E c \in Calls : Pend(c)) \/ Attach
  BY <1>2, <1>6 DEF Pend, Attach
<1>7. CASE NoteEvent
  BY <1>1, <1>7 DEF NoteEvent, Writes
<1>8. CASE MarkResolved
  BY <1>8 DEF MarkResolved, PendingInv
<1>9. \/ row' = row \/ NoteEvent \/ Attach \/ MarkResolved
      \/ \E c \in Calls : Save(c) \/ Claim(c) \/ Release(c) \/ EmissionFails(c) \/ Pend(c)
  BY DEF FiscalNext, fiscalVars, Works, Ensure, Skip, Read, Pull, List, GivesUp, SaveFails,
         Check, Post, Refunded, RefundAgain, HandleRefund, Cancel, Dies, Pay, ListPending,
         NoteMoves, HalfTerm,
         Keeps, Writes
<1> QED
  BY <1>3, <1>4, <1>5, <1>6, <1>7, <1>8, <1>9

(* Every step keeps the invariant, until a note dies. *)
LEMMA ClaimInvNext ==
    ASSUME ~Slow, ~refunded, ~lost',
           PendingInv, NoteInv, ClaimInv, Untroubled, [FiscalNext]_fiscalVars
    PROVE  ClaimInv'
<1>0. FiscalTypeOK /\ Emitting \subseteq Busy /\ Emitting' \subseteq Busy'
  BY DEF NoteInv, Emitting, Busy
(* A call joins the emission by a claim. *)
<1>1. ASSUME NEW d \in Emitting' \ Emitting
      PROVE  /\ call[d].at = "claim" /\ call'[d].at = "check" /\ Claimable
             /\ Writes([row EXCEPT !.status = "SCHEDULING"])
             /\ \A e \in Calls \ {d} : call'[e] = call[e]
  <2>1. PICK c \in Calls, at \in Places, r \in RowOf : Moves(c, at, r) /\ Way(c, at)
    BY <1>1, StepOf DEF Emitting
  <2>2. d = c
    BY <1>1, <2>1 DEF Emitting, Moves
  <2> QED
    BY <1>1, <2>1, <2>2 DEF Emitting, Moves, Way
<1>2. ASSUME NEW d \in Emitting' \ Emitting PROVE Emitting = {} /\ ~Scheduled /\ Emitting' = {d}
  <2>1. Emitting = {} /\ ~Scheduled
    BY <1>1, <1>2, ClaimsAlone DEF Emitting
  <2> QED
    BY <1>1, <1>2, <2>1 DEF Emitting
(* A call that goes on emitting does not come from its note. *)
<1>3. ASSUME NEW d \in Emitting, d \in Emitting', call[d].at = "link" PROVE call'[d] = call[d]
  BY <1>3, StepOf DEF Emitting, Moves, Way
(* A note is scheduled by the call that emits. *)
<1>4. ASSUME NEW n \in OwnNotes, Valid(n)', ~Valid(n)
      PROVE  \E c \in Emitting : /\ call[c].at = "post" /\ Keeps
                                 /\ call'[c].at = "link" /\ call'[c].seen.note = n
                                 /\ \A m \in OwnNotes \ {n} : Valid(m)' => Valid(m)
  <2>1. PICK c \in Calls, m \in OwnNotes :
           /\ call[c].at = "post" /\ Keeps
           /\ \A k \in OwnNotes \ {m} : Valid(k)' => Valid(k)
           /\ call'[c].at = "link" /\ call'[c].seen.note = m
    BY <1>4, OnlyPosts
  <2>2. n = m
    BY <1>4, <2>1
  <2> QED
    BY <2>1, <2>2 DEF Emitting
<1>5. OneEmits'
  BY <1>2 DEF ClaimInv, OneEmits
<1>6. ClaimIsFresh'
  <2>1. ASSUME NEW d \in Emitting' PROVE age' = 0 /\ d \in older'
    <3>1. CASE d \notin Emitting
      BY <1>0, <1>1, <2>1, <3>1 DEF Writes
    <3>2. CASE d \in Emitting
      <4>1. age = 0 /\ d \in older /\ d \in Busy'
        BY <1>0, <2>1, <3>2 DEF ClaimInv, ClaimIsFresh
      <4> QED
        BY <4>1, AgeSteps DEF Fresh, Keeps, Ages
    <3> QED
      BY <3>1, <3>2
  <2> QED
    BY <2>1 DEF ClaimIsFresh
<1>7. RowIsTaken'
  <2> SUFFICES ASSUME Emitting' # {} \/ Scheduled' PROVE ~Untaken'
    BY DEF RowIsTaken
  <2>1. CASE row' = row
    <3>1. CASE Emitting # {} \/ Scheduled
      BY <2>1, <3>1 DEF ClaimInv, RowIsTaken, Untaken
    <3>2. CASE Emitting = {} /\ Emitting' # {}
      <4>1. row'.status = "SCHEDULING"
        BY <1>0, <1>1, <3>2 DEF Writes, FiscalTypeOK, RowOf
      <4> QED
        BY <4>1 DEF Untaken, Retryable, Dead
    <3>3. CASE ~Scheduled /\ Scheduled'
      BY <1>4, <3>1, <3>3 DEF Scheduled
    <3> QED
      BY <3>1, <3>2, <3>3
  <2>2. CASE \E c \in Emitting : call[c].at # "link" /\ Ends(c) /\ UNCHANGED note
    <3>1. PICK c \in Emitting : call[c].at # "link" /\ Ends(c) /\ UNCHANGED note
      BY <2>2
    <3>2. c \notin Emitting' /\ \A d \in Calls \ {c} : call'[d] = call[d]
      <4>1. c \in Calls
        BY DEF Emitting
      <4> QED
        BY <1>0, <3>1, <4>1, CallEnds DEF Emitting, Moves
    <3>3. Emitting' = {}
      BY <3>1, <3>2 DEF ClaimInv, OneEmits, Emitting
    <3>4. ~Scheduled'
      BY <3>1 DEF ClaimInv, EmitsFirst, Scheduled, Valid
    <3> QED
      BY <3>3, <3>4
  <2> QED
    BY <2>1, <2>2, RowSteps
<1>8. EmitsFirst'
  <2> SUFFICES ASSUME NEW d \in Emitting', NEW n \in OwnNotes, Valid(n)'
               PROVE  call'[d].at = "link" /\ n = call'[d].seen.note
    BY DEF EmitsFirst
  <2>1. CASE Valid(n)
    <3>1. d \in Emitting
      BY <1>2, <2>1 DEF Scheduled
    <3>2. call[d].at = "link" /\ n = call[d].seen.note
      BY <2>1, <3>1 DEF ClaimInv, EmitsFirst
    <3> QED
      BY <1>3, <3>1, <3>2
  <2>2. CASE ~Valid(n)
    <3>1. PICK c \in Emitting : call'[c].at = "link" /\ call'[c].seen.note = n
      BY <1>4, <2>2
    <3>2. c \in Emitting'
      BY <3>1 DEF Emitting
    <3> QED
      BY <1>5, <3>1, <3>2 DEF OneEmits
  <2> QED
    BY <2>1, <2>2
<1>9. LateClaims'
  <2> SUFFICES ASSUME Scheduled', NEW d \in Calls, call'[d].at = "claim"
               PROVE  age' = 0 \/ (age' = 1 /\ d \in older')
    BY DEF LateClaims
  <2>1. CASE Scheduled
    <3>1. call[d].at = "claim"
      BY <2>1, StepOf DEF Moves, Way, Scheduled, Notes
    <3>2. age = 0 \/ (age = 1 /\ d \in older)
      BY <2>1, <3>1 DEF ClaimInv, LateClaims
    <3>3. d \in Busy /\ d \in Busy'
      BY <3>1 DEF Busy
    <3> QED
      BY <3>2, <3>3, AgeSteps DEF Fresh, Keeps, Ages
  <2>2. CASE ~Scheduled
    <3>1. PICK c \in Emitting : Keeps
      BY <1>4, <2>2 DEF Scheduled
    <3> QED
      BY <3>1 DEF Keeps, ClaimInv, ClaimIsFresh
  <2> QED
    BY <2>1, <2>2
<1>10. OneNote'
  <2>1. CASE \A n \in OwnNotes : Valid(n)' => Valid(n)
    BY <2>1 DEF ClaimInv, OneNote
  <2>2. ASSUME NEW n \in OwnNotes, Valid(n)', ~Valid(n) PROVE OneNote'
    <3>1. PICK c \in Emitting : /\ call[c].at = "post"
                                /\ \A m \in OwnNotes \ {n} : Valid(m)' => Valid(m)
      BY <1>4, <2>2
    <3>2. \A m \in OwnNotes : ~Valid(m)
      BY <3>1 DEF ClaimInv, EmitsFirst
    <3> QED
      BY <3>1, <3>2 DEF OneNote
  <2> QED
    BY <2>1, <2>2
<1> QED
  BY <1>5, <1>6, <1>7, <1>8, <1>9, <1>10 DEF ClaimInv

(* After the refund nobody comes to schedule a note, and whoever was about   *)
(* to do so is alone and finds none. *)
PostsAlone ==
    /\ OneNote
    /\ \A c, d \in Calls : call[c].at = "post" /\ call[d].at = "post" => c = d
    /\ \A c \in Calls : call[c].at = "post" => \A n \in OwnNotes : ~Valid(n)

(* So the claim is not needed any more, though people release it. *)
LEMMA AfterRefund ==
    ASSUME NoteInv, refunded, PostsAlone, [FiscalNext]_fiscalVars
    PROVE  PostsAlone'
<1>1. \A c \in Calls : call'[c].at = "post" => call[c].at = "post"
  BY StepOf DEF Moves, Way
<1>2. CASE \A n \in OwnNotes : Valid(n)' => Valid(n)
  BY <1>1, <1>2 DEF PostsAlone, OneNote
<1>3. CASE ~\A n \in OwnNotes : Valid(n)' => Valid(n)
  <2>1. PICK c \in Calls, n \in OwnNotes :
           /\ call[c].at = "post" /\ call'[c].at \in {"link", "failed"}
           /\ \A m \in OwnNotes \ {n} : Valid(m)' => Valid(m)
    BY <1>3, OnlyPosts
  <2>2. \A m \in OwnNotes : ~Valid(m)
    BY <2>1 DEF PostsAlone
  <2>3. OneNote'
    BY <2>1, <2>2 DEF OneNote
  <2>4. \A d \in Calls : call'[d].at # "post"
    BY <1>1, <2>1 DEF PostsAlone
  <2> QED
    BY <2>3, <2>4 DEF PostsAlone
<1> QED
  BY <1>2, <1>3

(* Until the refund, the claim sees to the same. *)
LEMMA ClaimPosts == ClaimInv => PostsAlone
BY DEF ClaimInv, PostsAlone, OneEmits, EmitsFirst, Emitting

(* The same when calls meet, until a note of the charge dies or an answer is *)
(* lost: the claim in the database, its term, and the list taken before it   *)
(* let no two calls schedule a note, whoever dies and whatever people and    *)
(* events write, if a call is shorter than half the term of a claim. *)
THEOREM FirstNoteIsOnly ==
    ASSUME ~Slow
    PROVE  FiscalSpec => []FirstNoteOnce
<1> DEFINE FirstInv == Untroubled => IF refunded THEN PostsAlone ELSE ClaimInv
<1>1. FiscalInit => FirstInv /\ PendingInv
  <2> SUFFICES ASSUME FiscalInit PROVE ClaimInv /\ ~refunded /\ PendingInv
    OBVIOUS
  <2>1. Emitting = {} /\ ~Scheduled
    BY DEF FiscalInit, Emitting, NoCall, Scheduled, Valid, Notes
  <2>2. ClaimInv
    BY <2>1 DEF ClaimInv, OneEmits, ClaimIsFresh, RowIsTaken, EmitsFirst, LateClaims, OneNote, Scheduled
  <2>3. PendingInv
    BY DEF FiscalInit, PendingInv, NoCall, Refunding
  <2> QED
    BY <2>2, <2>3 DEF FiscalInit
<1>2. NoteInv /\ PendingInv /\ FirstInv /\ [FiscalNext]_fiscalVars => FirstInv'
  <2> SUFFICES ASSUME NoteInv, PendingInv, FirstInv, [FiscalNext]_fiscalVars, Untroubled'
               PROVE  IF refunded' THEN PostsAlone' ELSE ClaimInv'
    OBVIOUS
  <2>1. Untroubled /\ ~lost'
    BY PastGrows, LossStays DEF Untroubled
  <2>2. CASE refunded
    BY <2>1, <2>2, AfterRefund, RefundStays
  <2>3. CASE ~refunded
    <3>1. ClaimInv'
      BY <2>1, <2>3, ClaimInvNext
    <3>2. ClaimInv' => PostsAlone'
      BY ClaimPosts, PTL
    <3> QED
      BY <3>1, <3>2
  <2> QED
    BY <2>2, <2>3
<1>3. FirstInv => FirstNoteOnce
  BY ClaimPosts DEF Untroubled, PostsAlone, FirstNoteOnce
<1>4. NoteInv /\ PendingInv /\ [FiscalNext]_fiscalVars => PendingInv'
  BY PendingNext
<1> HIDE DEF FirstInv
<1> QED
  BY <1>1, <1>2, <1>3, <1>4, NoteInvInit, NoteInvNext, PTL DEF FiscalSpec

-----------------------------------------------------------------------------
Jobs == [at : {"idle", "running", "failing", "waiting"}, attempt : 0..Retries, age : Nat]

USE CronAssumption DEF CronAssumption

Shorter == MaxRun < Ttl /\ ~MidRun

(* A call that waits has an attempt left.  The lock a call in progress took  *)
(* lives as long as the attempt is young;                                    *)
(* calls that share a store are the same call; no call holds Redis while a   *)
(* success forbids it.                                                       *)
HeldLock ==
    \A r \in Live : /\ job[r].age <= MaxRun
                    /\ IF connected[Home[r]] THEN key = Ttl - job[r].age
                                             ELSE memory[Home[r]] = Ttl - job[r].age
OneHolder ==
    \A r, s \in Live :
      Home[r] = Home[s] \/ (connected[Home[r]] /\ connected[Home[s]]) => r = s
StayConnected == \A i \in Instances \ Flaky : connected[i]
QuietKeepsKey == quiet <= key /\ (quiet > 0 => \A r \in Live : ~connected[Home[r]])

MayRetry == \A r \in Runs : job[r].at = "waiting" => job[r].attempt < Retries

CronInv == TypeOK /\ MayRetry /\ HeldLock /\ OneHolder /\ StayConnected /\ QuietKeepsKey

(* The initial states satisfy the invariant. *)
LEMMA InitInv == ASSUME Shorter, Init PROVE CronInv
<1>1. Live = {}
  BY DEF Live, Init, NoRun
<1>2. NoRun \in Jobs
  BY DEF NoRun, Jobs
<1>3. TypeOK
  BY <1>2 DEF Init, TypeOK, Jobs
<1> QED
  BY <1>1, <1>3 DEF Init, CronInv, HeldLock, OneHolder, StayConnected, QuietKeepsKey,
                      MayRetry, NoRun

(* What taking the lock does: a call gets it only when it was free in the    *)
(* store its instance uses, and it gets the whole life of it.                *)
LEMMA Acquired ==
    ASSUME Shorter, TypeOK, NEW i \in Instances, NEW got \in BOOLEAN, AcquireLock(i, got)
    PROVE  /\ key' \in 0..Ttl /\ memory' \in [Instances -> 0..Ttl]
           /\ ~got => key' = key /\ memory' = memory
           /\ got /\ connected[i] => key = 0 /\ key' = Ttl /\ memory' = memory
           /\ got /\ ~connected[i] => /\ memory[i] = 0 /\ key' = key
                                      /\ memory' = [memory EXCEPT ![i] = Ttl]
BY DEF Shorter, TypeOK, AcquireLock, Loses

(* A call that starts or tries again keeps the invariant. *)
LEMMA StartInv ==
    ASSUME Shorter, CronInv, NEW r \in Runs, NEW got \in BOOLEAN, NEW n \in 0..Retries,
           job[r].at \in {"idle", "waiting"},
           AcquireLock(Home[r], got),
           UNCHANGED <<connected, quiet>>, due' \in [Instances -> 0..Period],
           job' = [job EXCEPT ![r] = IF got THEN Running(n) ELSE NoRun]
    PROVE  CronInv' /\ (got /\ Stable(r) => quiet = 0) /\ Live' \ Live \subseteq {r}
                    /\ (~got => Live' = Live)
<1> DEFINE i == Home[r]
<1>0. i \in Instances /\ TypeOK
  BY DEF CronInv
<1>1. /\ key' \in 0..Ttl /\ memory' \in [Instances -> 0..Ttl]
      /\ ~got => key' = key /\ memory' = memory
      /\ got /\ connected[i] => key = 0 /\ key' = Ttl /\ memory' = memory
      /\ got /\ ~connected[i] => /\ memory[i] = 0 /\ key' = key
                                 /\ memory' = [memory EXCEPT ![i] = Ttl]
  BY <1>0, Acquired
<1>2. Running(n) \in Jobs /\ NoRun \in Jobs
  BY DEF Running, NoRun, Jobs
<1>3. TypeOK'
  BY <1>0, <1>1, <1>2 DEF TypeOK, Jobs
<1>4. r \notin Live /\ Live' = IF got THEN Live \cup {r} ELSE Live
  BY <1>0 DEF Live, TypeOK, Running, NoRun
<1>5. got => job'[r].age = 0
  BY <1>0 DEF TypeOK, Running
<1>6. \A s \in Live : s # r /\ s \in Runs /\ job'[s] = job[s] /\ Home[s] \in Instances
                      /\ job[s].age \in Nat
  BY <1>0, <1>4 DEF Live, TypeOK
<1>7. \A s \in Live : got => Home[s] # i /\ ~(connected[Home[s]] /\ connected[i])
  BY <1>0, <1>1, <1>6 DEF CronInv, HeldLock, Shorter, TypeOK
<1>8. HeldLock'
  <2> SUFFICES ASSUME NEW s \in Live'
               PROVE  /\ job'[s].age <= MaxRun
                      /\ IF connected[Home[s]] THEN key' = Ttl - job'[s].age
                                               ELSE memory'[Home[s]] = Ttl - job'[s].age
    BY DEF HeldLock
  <2>1. CASE s = r
    BY <2>1, <1>0, <1>1, <1>4, <1>5 DEF TypeOK
  <2>2. CASE s # r
    BY <2>2, <1>0, <1>1, <1>4, <1>6, <1>7 DEF CronInv, HeldLock, TypeOK
  <2> QED
    BY <2>1, <2>2
<1>9. OneHolder'
  BY <1>4, <1>7 DEF CronInv, OneHolder
<1>10. StayConnected' /\ QuietKeepsKey'
  BY <1>0, <1>1, <1>4, <1>6 DEF CronInv, StayConnected, QuietKeepsKey, TypeOK
<1>11. got /\ Stable(r) => quiet = 0
  BY <1>0, <1>1 DEF CronInv, StayConnected, QuietKeepsKey, Stable, TypeOK
<1>12. MayRetry'
  BY <1>0 DEF CronInv, MayRetry, TypeOK, Running, NoRun
<1> QED
  BY <1>3, <1>4, <1>8, <1>9, <1>10, <1>11, <1>12 DEF CronInv

(* A call leaves the set of those in progress, or its error is noticed. *)
LEMMA EndInv ==
    ASSUME Shorter, CronInv, NEW r \in Runs, Succeed(r) \/ Fail(r)
    PROVE  CronInv' /\ Live' \subseteq Live
<1>0. TypeOK /\ r \in Live /\ job[r] \in Jobs
  BY DEF CronInv, Succeed, Fail, Live, TypeOK, Jobs
<1>1. /\ [job[r] EXCEPT !.at = "failing"] \in Jobs /\ NoRun \in Jobs
      /\ [job[r] EXCEPT !.at = "failing"].age = job[r].age
  BY <1>0 DEF NoRun, Jobs
<1>2. PICK j \in Jobs : /\ job' = [job EXCEPT ![r] = j]
                        /\ j.at \in {"idle", "failing"} /\ j.age \in {job[r].age, 0}
                        /\ j.at = "failing" => j.age = job[r].age
  BY <1>0, <1>1 DEF Succeed, Fail, TypeOK, NoRun, Jobs
<1>9. job' \in [Runs -> Jobs] /\ \A s \in Live' : s \in Live /\ job'[s].age = job[s].age
  BY <1>0, <1>2 DEF Live, TypeOK, Jobs
<1>10. MayRetry'
  BY <1>0, <1>2 DEF CronInv, MayRetry, TypeOK
<1>3. job[r].age \in Nat /\ job[r].age < Ttl
  BY <1>0 DEF CronInv, HeldLock, Shorter, TypeOK, Live
<1>4. /\ UNCHANGED <<key, memory, connected, due>>
      /\ quiet' = quiet
         \/ (Succeed(r) /\ Stable(r) /\ quiet' = Ttl - job[r].age)
  BY <1>3 DEF Succeed, Fail, Stable
<1>5. TypeOK'
  BY <1>0, <1>9, <1>3, <1>4 DEF TypeOK, Jobs
<1>6. HeldLock' /\ OneHolder' /\ StayConnected'
  BY <1>9, <1>4 DEF CronInv, HeldLock, OneHolder, StayConnected
<1>7. QuietKeepsKey'
  <2>1. CASE quiet' = quiet
    BY <2>1, <1>9, <1>4 DEF CronInv, QuietKeepsKey
  <2>2. CASE Succeed(r) /\ Stable(r) /\ quiet' = Ttl - job[r].age
    <3>1. connected[Home[r]] /\ r \notin Live'
      BY <2>2, <1>0 DEF CronInv, StayConnected, Stable, Succeed, Live, NoRun, TypeOK
    <3>2. key = Ttl - job[r].age
      BY <3>1, <1>0 DEF CronInv, HeldLock
    <3>3. \A s \in Live' : ~connected[Home[s]]
      BY <3>1, <1>0, <1>9 DEF CronInv, OneHolder
    <3> QED
      BY <2>2, <3>2, <3>3, <1>3, <1>4 DEF QuietKeepsKey
  <2> QED
    BY <2>1, <2>2, <1>4
<1> QED
  BY <1>9, <1>10, <1>5, <1>6, <1>7 DEF CronInv

(* A call that failed deletes the lock it holds, and nobody else's. *)
LEMMA GiveBackInv ==
    ASSUME Shorter, CronInv, NEW r \in Runs, GiveBack(r)
    PROVE  CronInv' /\ Live' \subseteq Live
<1> DEFINE i == Home[r]
<1>0. TypeOK /\ r \in Live /\ i \in Instances /\ job[r] \in Jobs
  BY DEF CronInv, GiveBack, Live, TypeOK, Jobs
<1>1. /\ memory' = [memory EXCEPT ![i] = 0]
      /\ key' = IF connected[i] THEN 0 ELSE key
      /\ UNCHANGED <<connected, due, quiet>>
  BY DEF GiveBack, ReleaseLock, Loses, Shorter
<1>2. job' \in [Runs -> Jobs] /\ Live' = Live \ {r}
      /\ \A s \in Live' : job'[s] = job[s] /\ s \in Runs /\ Home[s] \in Instances
  BY <1>0 DEF GiveBack, Live, TypeOK, NoRun, Jobs
<1>3. TypeOK'
  BY <1>0, <1>1, <1>2 DEF TypeOK, Jobs
<1>4. \A s \in Live' : Home[s] # i /\ ~(connected[Home[s]] /\ connected[i])
  BY <1>0, <1>2 DEF CronInv, OneHolder
<1>5. HeldLock' /\ OneHolder' /\ StayConnected'
  BY <1>0, <1>1, <1>2, <1>4
  DEF CronInv, HeldLock, OneHolder, StayConnected, TypeOK
<1>6. QuietKeepsKey'
  BY <1>0, <1>1, <1>2, <1>4 DEF CronInv, QuietKeepsKey, TypeOK
<1>7. MayRetry'
  BY <1>0 DEF CronInv, GiveBack, MayRetry, TypeOK, NoRun
<1> QED
  BY <1>2, <1>3, <1>5, <1>6, <1>7 DEF CronInv

(* A restart ends the calls of its instance. *)
LEMMA RestartInv ==
    ASSUME Shorter, CronInv, NEW i \in Instances, Restart(i)
    PROVE  CronInv' /\ Live' \subseteq Live
<1>0. TypeOK /\ NoRun \in Jobs
  BY DEF CronInv, NoRun, Jobs
<1>1. job' \in [Runs -> Jobs]
      /\ \A s \in Live' : s \in Live /\ job'[s] = job[s] /\ Home[s] # i /\ Home[s] \in Instances
  BY <1>0 DEF Restart, Live, TypeOK, NoRun, Jobs
<1>2. memory' = [memory EXCEPT ![i] = 0] /\ UNCHANGED <<key, connected, due, quiet>>
  BY DEF Restart
<1>3. TypeOK'
  BY <1>0, <1>1, <1>2 DEF TypeOK, Jobs
<1>4. HeldLock' /\ OneHolder' /\ StayConnected' /\ QuietKeepsKey'
  BY <1>0, <1>1, <1>2
  DEF CronInv, HeldLock, OneHolder, StayConnected, QuietKeepsKey, TypeOK
<1>5. MayRetry'
  BY <1>0 DEF CronInv, Restart, MayRetry, TypeOK, NoRun
<1> QED
  BY <1>1, <1>3, <1>4, <1>5 DEF CronInv

(* The connection of an instance changes between its calls. *)
LEMMA ConnectionInv ==
    ASSUME Shorter, CronInv, NEW i \in Instances, Connection(i)
    PROVE  CronInv' /\ Live' = Live
<1>0. TypeOK /\ UNCHANGED <<key, memory, due, job, quiet>> /\ Live' = Live
  BY DEF CronInv, Connection, Live
<1>1. i \in Flaky /\ connected' = [connected EXCEPT ![i] = ~connected[i]]
  BY DEF Connection
<1>2. \A s \in Live : Home[s] # i /\ Home[s] \in Instances
  BY DEF Connection, Shorter, Live, NoRun
<1>3. connected' \in [Instances -> BOOLEAN] /\ \A s \in Live : connected'[Home[s]] = connected[Home[s]]
  BY <1>0, <1>1, <1>2 DEF TypeOK
<1>4. TypeOK'
  BY <1>0, <1>3 DEF TypeOK
<1>5. StayConnected'
  BY <1>0, <1>1 DEF CronInv, StayConnected, TypeOK
<1>6. HeldLock' /\ OneHolder' /\ QuietKeepsKey'
  BY <1>0, <1>3 DEF CronInv, HeldLock, OneHolder, QuietKeepsKey
<1> QED
  BY <1>0, <1>4, <1>5, <1>6 DEF CronInv, MayRetry

(* Time passes for the lock and for the call that holds it alike. *)
LEMMA TickInv ==
    ASSUME Shorter, CronInv, Tick
    PROVE  CronInv' /\ Live' = Live
<1>0. TypeOK
  BY DEF CronInv
<1>1. \A n \in Nat : Less(n) \in Nat /\ Less(n) <= n /\ (n > 0 => Less(n) = n - 1)
  BY DEF Less
<1>2. /\ key' = Less(key) /\ quiet' = Less(quiet) /\ connected' = connected
      /\ memory' = [i \in Instances |-> Less(memory[i])]
      /\ due' = [i \in Instances |-> Less(due[i])]
  BY DEF Tick
<1>3. \A r \in Runs : /\ job'[r] \in Jobs /\ job'[r].at = job[r].at
                      /\ job'[r].attempt = job[r].attempt
                      /\ r \in Live => job'[r].age = job[r].age + 1
  BY <1>0 DEF Tick, TypeOK, Jobs, NoRun, Live
<1>4. job' \in [Runs -> Jobs] /\ Live' = Live
  BY <1>3 DEF Tick, Live
<1>5. TypeOK'
  BY <1>0, <1>1, <1>2, <1>4 DEF TypeOK, Jobs
<1>6. \A r \in Live : r \in Runs /\ job[r].age < MaxRun /\ job[r].age \in Nat
                      /\ Home[r] \in Instances
  BY <1>0 DEF Tick, Live, TypeOK
<1>7. HeldLock'
  <2> SUFFICES ASSUME NEW r \in Live
               PROVE  /\ job'[r].age <= MaxRun
                      /\ IF connected[Home[r]] THEN key' = Ttl - job'[r].age
                                               ELSE memory'[Home[r]] = Ttl - job'[r].age
    BY <1>2, <1>4 DEF HeldLock
  <2>1. job'[r].age = job[r].age + 1 /\ job[r].age < MaxRun /\ job[r].age \in Nat
    BY <1>3, <1>6
  <2>2. CASE connected[Home[r]]
    <3>1. key = Ttl - job[r].age
      BY <2>2 DEF CronInv, HeldLock
    <3> QED
      BY <2>1, <2>2, <3>1, <1>1, <1>2 DEF Shorter
  <2>3. CASE ~connected[Home[r]]
    <3>1. memory[Home[r]] = Ttl - job[r].age
      BY <2>3 DEF CronInv, HeldLock
    <3> QED
      BY <2>1, <2>3, <3>1, <1>1, <1>2, <1>6 DEF Shorter
  <2> QED
    BY <2>2, <2>3
<1>8. OneHolder' /\ StayConnected'
  BY <1>2, <1>4 DEF CronInv, OneHolder, StayConnected
<1>9. QuietKeepsKey'
  <2>1. quiet' <= key' /\ (quiet' > 0 => quiet > 0)
    BY <1>0, <1>1, <1>2 DEF CronInv, QuietKeepsKey, TypeOK, Less
  <2> QED
    BY <2>1, <1>2, <1>4 DEF CronInv, QuietKeepsKey
<1>10. MayRetry'
  BY <1>3 DEF CronInv, MayRetry
<1> QED
  BY <1>4, <1>5, <1>7, <1>8, <1>9, <1>10 DEF CronInv

(* Every step keeps the invariant, and a call that starts under a connection *)
(* that is never lost starts when no success forbids it.                     *)
LEMMA NextInv ==
    ASSUME Shorter, CronInv, [Next]_cronVars
    PROVE  CronInv' /\ \A r \in Live' \ Live : Stable(r) => quiet = 0
<1>0. TypeOK
  BY DEF CronInv
<1>1. CASE \E r \in Runs : Fire(r)
  <2>1. PICK r \in Runs : Fire(r)
    BY <1>1
  <2>2. PICK got \in BOOLEAN :
          /\ AcquireLock(Home[r], got)
          /\ job' = IF got THEN [job EXCEPT ![r] = Running(0)] ELSE job
    BY <2>1 DEF Fire
  <2>3. job[r] = NoRun /\ job[r].at = "idle"
    BY <2>1 DEF Fire, NoRun
  <2>4. job' = [job EXCEPT ![r] = IF got THEN Running(0) ELSE NoRun]
    BY <2>2, <2>3, <1>0 DEF TypeOK
  <2>5. due' \in [Instances -> 0..Period] /\ UNCHANGED <<connected, quiet>> /\ 0 \in 0..Retries
    BY <2>1, <1>0 DEF Fire, TypeOK
  <2> QED
    BY <2>2, <2>3, <2>4, <2>5, StartInv
<1>2. CASE \E r \in Runs : Retry(r)
  <2>1. PICK r \in Runs : Retry(r)
    BY <1>2
  <2>2. PICK got \in BOOLEAN :
          /\ AcquireLock(Home[r], got)
          /\ job' = [job EXCEPT ![r] = IF got THEN Running(job[r].attempt + 1) ELSE NoRun]
    BY <2>1 DEF Retry
  <2>3. job[r].at = "waiting" /\ UNCHANGED <<connected, due, quiet>>
    BY <2>1 DEF Retry
  <2>4. job[r].attempt + 1 \in 0..Retries
    BY <2>3, <1>0 DEF CronInv, TypeOK, MayRetry
  <2>5. due' \in [Instances -> 0..Period]
    BY <2>3, <1>0 DEF TypeOK
  <2> QED
    BY <2>2, <2>3, <2>4, <2>5, StartInv
<1>3. CASE \E r \in Runs : Succeed(r) \/ Fail(r)
  BY <1>3, EndInv
<1>4. CASE \E r \in Runs : GiveBack(r)
  BY <1>4, GiveBackInv
<1>5. CASE \E i \in Instances : Restart(i)
  BY <1>5, RestartInv
<1>6. CASE \E i \in Instances : Connection(i)
  BY <1>6, ConnectionInv
<1>7. CASE Tick
  BY <1>7, TickInv
<1>8. CASE UNCHANGED cronVars
  BY <1>8 DEF cronVars, CronInv, TypeOK, HeldLock, OneHolder, StayConnected, QuietKeepsKey, Live,
              MayRetry
<1> QED
  BY <1>1, <1>2, <1>3, <1>4, <1>5, <1>6, <1>7, <1>8 DEF Next

(* The timers stay within their bounds.                                      *)
THEOREM CronTypeCorrect == ASSUME Shorter PROVE Spec => []TypeOK
<1>1. Init => CronInv
  BY InitInv
<1>2. CronInv /\ [Next]_cronVars => CronInv'
  BY NextInv
<1>3. CronInv => TypeOK
  BY DEF CronInv
<1> QED
  BY <1>1, <1>2, <1>3, PTL DEF Spec

(* Mutual exclusion: while an attempt is shorter than the lock and no        *)
(* connection is lost during a call, the routine runs alone in every         *)
(* instance and among all the instances that keep Redis.                     *)
THEOREM RoutineRunsAlone == ASSUME Shorter PROVE Spec => []RunsAlone
<1>1. Init => CronInv
  BY InitInv
<1>2. CronInv /\ [Next]_cronVars => CronInv'
  BY NextInv
<1>3. CronInv => RunsAlone
  BY DEF CronInv, RunsAlone, OneHolder, StayConnected, Stable, Live, TypeOK
<1> QED
  BY <1>1, <1>2, <1>3, PTL DEF Spec

(* Nobody that has Redis repeats the routine while the lock of the last      *)
(* success lives.                                                            *)
THEOREM SuccessIsNotRepeated == ASSUME Shorter PROVE Spec => NotRepeated
<1>1. Init => CronInv
  BY InitInv
<1>2. CronInv /\ [Next]_cronVars => CronInv'
  BY NextInv
<1>3. CronInv /\ [Next]_cronVars
        => [\A r \in Live' \ Live : Stable(r) => quiet = 0]_cronVars
  BY NextInv
<1> QED
  BY <1>1, <1>2, <1>3, PTL DEF Spec, NotRepeated
=============================================================================
