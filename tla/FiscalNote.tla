----------------------------- MODULE FiscalNote -----------------------------
(***************************************************************************)
(* The fiscal note of one invoice charged through Asaas:                   *)
(*   apps/api/src/modules/finance/asaas-fiscal.service.ts                  *)
(*   apps/api/src/modules/finance/fiscal-adjustments.service.ts (resolve)  *)
(*   and the callers of ensureForInvoice, handleRefund and persist         *)
(*                                                                         *)
(* A call looks for a note in Asaas, claims the row with the status        *)
(* SCHEDULING, and schedules a note.  A claim older than its term may be   *)
(* taken over.  Payments, refunds, the routine, people and the events of   *)
(* the notes meet on the row, which everybody writes by its id.            *)
(* Time is counted in halves of the term of a claim.                       *)
(***************************************************************************)
EXTENDS Integers

CONSTANTS
    OwnNotes,     \* notes the service may schedule
    PanelNotes,   \* notes people may make in the panel of Asaas
    Calls, Daily, \* runs of the service, one of them that of the routine
    MaxAttempts,  \* failures after which nobody tries again
    Overlap,      \* calls may meet
    Slow,         \* a call may last longer than half the term of a claim
    Dying,        \* calls that may die
    Lossy,        \* the answer of Asaas to a change may be lost
    Hands,        \* what people do: "attach" a note, "mark" one as resolved
    None

Notes == OwnNotes \cup PanelNotes

ASSUME FiscalAssumption ==
    /\ OwnNotes \cap PanelNotes = {} /\ None \notin Notes
    /\ Daily \in Calls /\ Dying \subseteq Calls
    /\ MaxAttempts \in Nat /\ {Overlap, Slow, Lossy} \subseteq BOOLEAN

VARIABLES
    row,        \* asaasInvoiceId and invoiceStatus of the invoice
    age,        \* halves of the term since the row was written, two at most
    older,      \* calls that were in progress when the age began
    paid, refunded,
    listed,     \* a person has found a cancellation pending and may resolve it
    note,       \* status of each note in Asaas
    past,       \* the statuses it has had, which events and answers may carry
    lost,       \* history: the answer to a note that was scheduled was lost
    attempts,   \* failures since the last emission asked for by a person
    call        \* the calls in progress

fiscalVars == <<row, age, older, paid, refunded, listed, note, past, lost, attempts, call>>

Dead == {"ERROR", "CANCELED"}
NoteStatus == Dead \cup {"SCHEDULED", "AUTHORIZED", "PROCESSING_CANCELLATION",
                         "CANCELLATION_DENIED"}
Retryable == Dead \cup {"RETRY"}
Final == {"AUTHORIZED", "CANCELED"}
Manual == {"ERROR", "CANCEL_PENDING", "PROCESSING_CANCELLATION", "CANCELLATION_DENIED"}

NoCall == [at |-> "idle", force |-> FALSE, seen |-> [note |-> None, status |-> "null"]]
Busy == {c \in Calls : call[c].at \notin {"idle", "ended"}}

Valid(n) == note[n] \notin Dead \cup {"none"}

FiscalInit ==
    /\ row \in [note : {None}, status : {"null", "CANCELED"}]
    /\ age = 0 /\ older = {}
    /\ paid = FALSE /\ refunded = FALSE /\ listed = FALSE
    /\ note = [n \in Notes |-> "none"]
    /\ past = [n \in Notes |-> {}]
    /\ attempts = 0 /\ lost = FALSE
    /\ call = [c \in Calls |-> NoCall]

(* Any update of the row renews its date. *)
Writes(r) == row' = r /\ age' = 0 /\ older' = Busy'
Keeps == UNCHANGED <<row, age>> /\ older' = older \cap Busy'

(* A call moves on, also with what it saw, or ends; all but the routine's    *)
(* run once. *)
Goes(c, at) == call' = [call EXCEPT ![c].at = at]
Sees(c, at, r) == call' = [call EXCEPT ![c].at = at, ![c].seen = r]
Ends(c) == call' = [call EXCEPT ![c] = [NoCall EXCEPT !.at = IF c = Daily THEN "idle" ELSE "ended"]]

Becomes(n, s) ==
    /\ note' = [note EXCEPT ![n] = s]
    /\ past' = [past EXCEPT ![n] = @ \cup {s}]

Free(c) == call[c].at = "idle" /\ (Overlap \/ Busy = {})

(* The invoice is due in the routine, which takes nothing a person decides. *)
Due == /\ paid /\ ~refunded
       /\ row.note = None \/ row.status \notin Final
       /\ row.status \notin Manual

(* A payment's event or the routine, which do not force, or a person. *)
Ensure(c) ==
    /\ Free(c)
    /\ \E force \in BOOLEAN :
         /\ IF c = Daily THEN Due /\ ~force ELSE paid \/ force
         /\ call' = [call EXCEPT ![c] = [NoCall EXCEPT !.at = "read", !.force = force]]
    /\ Keeps /\ UNCHANGED <<paid, listed, refunded, note, past, lost, attempts>>

Linked(c) == row.note # None /\ ~(call[c].force /\ row.status \in Retryable)

(* ensureForInvoice reads the row: nothing to do, or not yet ... *)
Skip(c) ==
    /\ call[c].at = "read"
    /\ \/ refunded
       \/ ~call[c].force /\ row.status = "RETRY"
       \/ ~call[c].force /\ Linked(c) /\ row.status \in Final
    /\ Ends(c) /\ Keeps /\ UNCHANGED <<paid, listed, refunded, note, past, lost, attempts>>

(* ... or it asks for the note that is linked, or for all of the charge. *)
Read(c) ==
    /\ call[c].at = "read" /\ ~refunded
    /\ Linked(c) /\ row.status \in Final => call[c].force
    /\ Sees(c, IF Linked(c) THEN "pull" ELSE IF paid THEN "list" ELSE "look", row)
    /\ Keeps /\ UNCHANGED <<paid, listed, refunded, note, past, lost, attempts>>

Pull(c) ==
    /\ call[c].at = "pull"
    /\ LET n == call[c].seen.note IN Sees(c, "save", [note |-> n, status |-> note[n]])
    /\ Keeps /\ UNCHANGED <<paid, listed, refunded, note, past, lost, attempts>>

(* The notes of the charge: one that is not dead is taken over. *)
List(c) ==
    /\ call[c].at \in {"list", "look"}
    /\ \/ \E n \in Notes : Valid(n) /\ Sees(c, "save", [note |-> n, status |-> note[n]])
       \/ /\ \A n \in Notes : ~Valid(n)
          /\ IF call[c].at = "list" THEN Goes(c, "claim") ELSE Ends(c)
    /\ Keeps /\ UNCHANGED <<paid, listed, refunded, note, past, lost, attempts>>

(* Asaas or the database does not answer before anything was claimed. *)
GivesUp(c) ==
    /\ call[c].at \in {"pull", "list", "look", "save"}
    /\ Ends(c) /\ Keeps /\ UNCHANGED <<paid, listed, refunded, note, past, lost, attempts>>

(* persist; what cannot be written after Asaas has answered is a failure. *)
Save(c) ==
    /\ call[c].at \in {"save", "link", "requested"}
    /\ Ends(c) /\ Writes(call[c].seen)
    /\ UNCHANGED <<paid, listed, refunded, note, past, lost, attempts>>

SaveFails(c) ==
    /\ Lossy /\ call[c].at \in {"link", "requested"}
    /\ Goes(c, IF call[c].at = "link" THEN "failed" ELSE "pend")
    /\ lost' = (lost \/ call[c].at = "link")
    /\ Keeps /\ UNCHANGED <<paid, listed, refunded, note, past, attempts>>

(* Slip: a claim has no term. *)
ClaimableAtOnce ==
    \/ row.note = None /\ row.status = "null"
    \/ row.status \in Retryable \cup {"SCHEDULING"}

Claimable ==
    \/ row.note = None /\ row.status = "null"
    \/ row.status \in Retryable
    \/ row.status = "SCHEDULING" /\ age = 2

(* claimEmission: one conditional update; an emission by a person starts the *)
(* count of failures again. *)
Claim(c) ==
    /\ call[c].at = "claim"
    /\ IF Claimable
       THEN /\ Goes(c, "check")
            /\ Writes([row EXCEPT !.status = "SCHEDULING"])
            /\ attempts' = IF call[c].force THEN 0 ELSE attempts
       ELSE Ends(c) /\ Keeps /\ UNCHANGED attempts
    /\ UNCHANGED <<paid, listed, refunded, note, past, lost>>

(* The data of the company and the charge in Asaas, which is not paid any    *)
(* more once it is refunded. *)
Check(c) ==
    /\ call[c].at = "check"
    /\ \E at \in {"post", "release", "failed", "refused"} :
         (at = "post" => ~refunded) /\ Goes(c, at)
    /\ Keeps /\ UNCHANGED <<paid, listed, refunded, note, past, lost, attempts>>

(* releaseClaim *)
Release(c) ==
    /\ call[c].at = "release"
    /\ Ends(c) /\ Writes([row EXCEPT !.status = call[c].seen.status])
    /\ UNCHANGED <<paid, listed, refunded, note, past, lost, attempts>>

(* scheduleFiscalInvoice *)
Post(c) ==
    /\ call[c].at = "post"
    /\ \/ \E n \in OwnNotes :
            /\ note[n] = "none" /\ Becomes(n, "SCHEDULED")
            /\ \/ Sees(c, "link", [note |-> n, status |-> "SCHEDULED"]) /\ UNCHANGED lost
               \/ Lossy /\ Goes(c, "failed") /\ lost' = TRUE
       \/ \E at \in {"failed", "refused"} : Goes(c, at) /\ UNCHANGED <<note, past, lost>>
    /\ Keeps /\ UNCHANGED <<paid, listed, refunded, attempts>>

TriesAgain == attempts < MaxAttempts

(* recordEmissionFailure: refused or failed too often is for people, and the *)
(* note is tried again otherwise. *)
EmissionFails(c) ==
    /\ call[c].at \in {"failed", "refused"}
    /\ LET again == call[c].at = "failed" /\ TriesAgain IN
       /\ Ends(c)
       /\ Writes([row EXCEPT !.status = IF again THEN "RETRY" ELSE "ERROR"])
       /\ attempts' = IF again THEN attempts + 1 ELSE attempts
    /\ UNCHANGED <<paid, listed, refunded, note, past, lost>>

(* The whole payment is refunded, after which handleRefund runs. *)
Refunded(c) ==
    /\ Free(c) /\ c # Daily /\ paid /\ ~refunded
    /\ refunded' = TRUE
    /\ call' = [call EXCEPT ![c].at = "refund"]
    /\ Writes(row) /\ UNCHANGED <<paid, listed, note, past, lost, attempts>>

(* A reconciliation again, the routine, or a person that retries. *)
RefundAgain(c) ==
    /\ Free(c) /\ refunded
    /\ c = Daily => row.status = "CANCEL_PENDING"
    /\ Goes(c, "refund") /\ Keeps /\ UNCHANGED <<paid, listed, refunded, note, past, lost, attempts>>

(* handleRefund of a full refund reads the row. *)
HandleRefund(c) ==
    /\ call[c].at = "refund"
    /\ IF row.note = None \/ row.status \in {"CANCELED", "PROCESSING_CANCELLATION"}
       THEN Ends(c) ELSE Sees(c, "cancel", row)
    /\ Keeps /\ UNCHANGED <<paid, listed, refunded, note, past, lost, attempts>>

(* cancelFiscalInvoice *)
Cancel(c) ==
    LET n == call[c].seen.note IN
    /\ call[c].at = "cancel"
    /\ \/ \E s \in {"PROCESSING_CANCELLATION", "CANCELED"} :
            /\ Valid(n) /\ Becomes(n, s)
            /\ \/ Sees(c, "requested", [note |-> n, status |-> s])
               \/ Lossy /\ Goes(c, "pend")
       \/ Goes(c, "pend") /\ UNCHANGED <<note, past>>
    /\ Keeps /\ UNCHANGED <<paid, listed, refunded, lost, attempts>>

Pend(c) ==
    /\ call[c].at = "pend"
    /\ Ends(c) /\ Writes([row EXCEPT !.status = "CANCEL_PENDING"])
    /\ UNCHANGED <<paid, listed, refunded, note, past, lost, attempts>>

Dies(c) ==
    /\ c \in Dying \cap Busy
    /\ Ends(c) /\ Keeps /\ UNCHANGED <<paid, listed, refunded, note, past, lost, attempts>>

(* Paid by an event that is not about notes. *)
Pay ==
    /\ ~paid /\ paid' = TRUE
    /\ UNCHANGED <<listed, refunded, note, past, lost, attempts, call>> /\ Writes(row)

(* An event of a note, at any time, in any order, once or many times. *)
NoteEvent ==
    /\ UNCHANGED <<paid, listed, refunded, note, past, lost, attempts, call>>
    /\ \E n \in Notes : \E s \in past[n] : Writes([note |-> n, status |-> s])

(* attachFiscal; the row it checks was read before, perhaps without a note.  *)
Attach ==
    /\ UNCHANGED <<paid, listed, refunded, note, past, lost, attempts, call>>
    /\ "attach" \in Hands
    /\ Writes([row EXCEPT !.status = "AUTHORIZED"])

(* MARK_RESOLVED: the queue of adjustments is read, and the row written      *)
(* several awaits later, whatever it is by then.                             *)
ListPending ==
    /\ "mark" \in Hands /\ row.status = "CANCEL_PENDING"
    /\ listed' = TRUE
    /\ UNCHANGED <<row, age, older, paid, refunded, note, past, lost, attempts, call>>

MarkResolved ==
    /\ UNCHANGED <<paid, listed, refunded, note, past, lost, attempts, call>>
    /\ listed
    /\ Writes([row EXCEPT !.status = "CANCELED"])

(* Asaas, the city and the panel decide.  A dead note stays dead. *)
NextStatus(n) ==
    CASE note[n] = "none" -> IF n \in PanelNotes THEN {"SCHEDULED"} ELSE {}
      [] note[n] = "SCHEDULED" -> {"AUTHORIZED", "ERROR", "CANCELED"}
      [] note[n] \in {"AUTHORIZED", "CANCELLATION_DENIED"} -> {"PROCESSING_CANCELLATION"}
      [] note[n] = "PROCESSING_CANCELLATION" -> {"CANCELED", "CANCELLATION_DENIED"}
      [] OTHER -> {}

NoteMoves ==
    /\ \E n \in Notes : \E s \in NextStatus(n) : Becomes(n, s)
    /\ UNCHANGED <<row, age, older, paid, listed, refunded, lost, attempts, call>>

(* Half a term passes, during which a call that is not slow ends. *)
HalfTerm ==
    /\ age < 2 /\ (~Slow => older = {})
    /\ age' = age + 1 /\ older' = Busy
    /\ UNCHANGED <<row, paid, listed, refunded, note, past, lost, attempts, call>>

Works(c) ==
    \/ Skip(c) \/ Read(c) \/ Pull(c) \/ List(c) \/ GivesUp(c) \/ Save(c) \/ SaveFails(c)
    \/ Claim(c) \/ Check(c) \/ Release(c) \/ Post(c) \/ EmissionFails(c)
    \/ HandleRefund(c) \/ Cancel(c) \/ Pend(c)

FiscalNext ==
    \/ \E c \in Calls : Ensure(c) \/ Refunded(c) \/ RefundAgain(c) \/ Works(c) \/ Dies(c)
    \/ Pay \/ NoteEvent \/ Attach \/ ListPending \/ MarkResolved \/ NoteMoves \/ HalfTerm

FiscalSpec == FiscalInit /\ [][FiscalNext]_fiscalVars

(* A call that has begun runs on, time passes, and the routine comes back;   *)
(* in it, a retry becomes due, Asaas answers and confirms the payment now    *)
(* and then. *)
FairFiscalSpec ==
    /\ FiscalSpec
    /\ \A c \in Calls : WF_fiscalVars(Works(c))
    /\ WF_fiscalVars(HalfTerm)
    /\ SF_fiscalVars(Ensure(Daily)) /\ SF_fiscalVars(Read(Daily))
    /\ SF_fiscalVars(List(Daily)) /\ SF_fiscalVars(Save(Daily))
    /\ SF_fiscalVars(Check(Daily) /\ call'[Daily].at # "release")

-----------------------------------------------------------------------------
RowOf == [note : Notes \cup {None},
          status : NoteStatus \cup {"null", "SCHEDULING", "RETRY", "CANCEL_PENDING"}]

(* Every variable has its type; a call that asks or writes for a note has one. *)
FiscalTypeOK ==
    /\ row \in RowOf /\ age \in 0..2 /\ older \subseteq Calls
    /\ {paid, listed, refunded, lost} \subseteq BOOLEAN
    /\ note \in [Notes -> NoteStatus \cup {"none"}]
    /\ past \in [Notes -> SUBSET NoteStatus]
    /\ attempts \in 0..MaxAttempts
    /\ call \in [Calls -> [at : {"idle", "ended", "read", "pull", "list", "look", "save", "claim",
                                 "check", "post", "link", "release", "failed", "refused",
                                 "refund", "cancel", "requested", "pend"},
                           force : BOOLEAN, seen : RowOf]]

(* "Nunca agenda duas notas" (ensureForInvoice): of the notes the service    *)
(* scheduled for an invoice, one at most is not dead. *)
OneNote == \A m, n \in OwnNotes : Valid(m) /\ Valid(n) => m = n

(* The same when calls meet, until a first note dies or an answer is lost:   *)
(* the claim in the database and the list taken before it ("reserva atomica  *)
(* no banco + consulta previa ao Asaas") never let two calls schedule the    *)
(* note of an invoice. *)
FirstNoteOnce == ~lost /\ (\A n \in Notes : past[n] \cap Dead = {}) => OneNote

(* A claim that is stuck is taken over: a paid invoice gets its note, is left to  *)
(* people, or is refunded, whoever dies holding the claim. *)
PaidInvoiceGetsNote ==
    paid ~> (row.note # None \/ row.status \in {"ERROR", "AUTHORIZED"} \/ refunded)

-----------------------------------------------------------------------------
(* What the comments promise and the code does not do. *)

(* A refunded invoice has no note that stays valid and nobody cancels. *)
RefundedIsCanceled ==
    refunded /\ Busy = {} =>
      \A n \in OwnNotes : note[n] \in {"SCHEDULED", "AUTHORIZED"} => row.status = "CANCEL_PENDING"

(* A cancellation that failed stays pending until it is asked for again, or  *)
(* a person has resolved it. *)
PendingIsRetried ==
    [][row.status = "CANCEL_PENDING" /\ row.status' # row.status
         => \/ note[row.note] \in Dead \cup {"PROCESSING_CANCELLATION"}
            \/ MarkResolved]_fiscalVars
=============================================================================
