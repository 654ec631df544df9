------------------------- MODULE InvoiceChargeProofs -------------------------
(***************************************************************************)
(* Theorems about InvoiceCharge, for any number of rows, requests and      *)
(* faults: its types, that a refused invoice has nothing at a provider,    *)
(* and, for the mixes that may meet, that a debt has one payable link and  *)
(* one open invoice.                                                       *)
(*                                                                         *)
(* The key of the debt alone does not give one link: a row keeps its key   *)
(* after its handler is gone.  ChargeInv therefore says who made what a    *)
(* provider holds: each row has one owner, the request that reserved it,   *)
(* which posts once; a link by hand goes to rows no charge is posted for.  *)
(***************************************************************************)
EXTENDS InvoiceCharge, TLAPS

(* Nobody asks for a link by hand while the first invoice gets its own. *)
LinksApart == \A m \in Mixes : \A c, d \in Calls : ~(m.kind[c] = "first" /\ m.kind[d] = "link")

(* No event comes for the charge of a first invoice. *)
FirstUnseen == \A m \in Mixes : \A c \in Calls : m.kind[c] = "first" => ~m.events

-----------------------------------------------------------------------------
(* The inductive invariant.                                                  *)

Owns(c, r) == call[c].row = r /\ mix.kind[c] \in {"charge", "mp", "first", "local"}
Sent(c) == call[c].at \in {"save", "unknown", "done"}

(* The requests are those of one of the mixes. *)
MixKept == \E m \in Mixes : mix.kind = m.kind /\ mix.events = m.events

(* Where each kind of request can be, and through which provider it goes. *)
Control ==
    \A c \in Calls :
      /\ call[c].at \in {"start", "reserve"} => call[c].row = None
      /\ call[c].at \notin {"start", "reserve", "done"} => call[c].row # None
      /\ call[c].at \in {"post", "save", "unknown"} =>
            mix.kind[c] \in {"charge", "mp", "first", "link"}
      /\ mix.kind[c] = "charge" => call[c].via = "ASAAS"
      /\ mix.kind[c] \in {"mp", "link"} /\ call[c].row # None => call[c].via = "MERCADOPAGO"

(* A row that was not reserved is empty, and nobody works on it. *)
Unreserved ==
    /\ \A r \in Rows : row[r].status = "NONE" =>
          row[r] = NoRow /\ remote[r].made = 0 /\ remote[r].live = 0 /\ ~remote[r].pref
    /\ \A c \in Calls : call[c].row # None => row[call[c].row].status # "NONE"
    /\ routine # None => row[routine].status # "NONE"

(* A row belongs to the request that reserved it, which holds the key until  *)
(* it is done; a link by hand is for rows without a charge.                  *)
Ownership ==
    /\ \A c, d \in Calls, r \in Rows : Owns(c, r) /\ Owns(d, r) => c = d
    /\ \A c, d \in Calls, r \in Rows :
          mix.kind[c] = "link" /\ call[c].row = r /\ Owns(d, r) => mix.kind[d] # "charge"
    /\ \A c \in Calls, r \in Rows :
          /\ Owns(c, r) /\ call[c].at # "done" => row[r].key
          /\ mix.kind[c] = "link" /\ call[c].row = r => row[r].key

(* What the processing state says. *)
Processed ==
    \A r \in Rows :
      /\ row[r].proc = "LINK_READY" => row[r].charge # None \/ row[r].pref
      /\ row[r].proc = "LOCAL" /\ row[r].status # "NONE" =>
            row[r].key /\ \A c \in Calls : Owns(c, r) => mix.kind[c] \notin {"charge", "mp"}
      /\ row[r].proc = "FAILED" =>
            /\ row[r].status = "CANCELED" /\ remote[r].made = 0 /\ ~remote[r].pref
            /\ \E c \in Calls : Owns(c, r) /\ mix.kind[c] = "charge" /\ call[c].at = "done"

(* What a provider holds was posted by a request that will not post again. *)
Posted ==
    \A r \in Rows :
      /\ remote[r].made = 0 => remote[r].live = 0
      /\ remote[r].made > 0 =>
            \E c \in Calls : Owns(c, r) /\ mix.kind[c] \in {"charge", "first"} /\ Sent(c)
      /\ remote[r].pref =>
            \E c \in Calls : /\ call[c].row = r /\ Sent(c)
                             /\ mix.kind[c] \in {"mp", "first", "link"}

(* One row holds the key, and what can be paid is in that row. *)
Keyed ==
    /\ \A r, s \in Rows : row[r].key /\ row[s].key => r = s
    /\ \A r \in Rows : Payable(r) => row[r].key

(* Provided the link by hand keeps away: one link for each row. *)
OneLink ==
    LinksApart => \A r \in Rows : remote[r].made <= 1 /\ ~(remote[r].live > 0 /\ remote[r].pref)

(* Provided no event finds a first invoice: an open invoice holds the key. *)
OpenKeyed ==
    /\ \A r \in Rows : row[r].ref # "inv" => \E c \in Calls : mix.kind[c] = "first"
    /\ FirstUnseen => \A r \in Rows : row[r].status \in Unpaid => row[r].key

ChargeInv ==
    /\ ChargeTypeOK /\ MixKept /\ Control /\ Unreserved /\ Ownership /\ Processed
    /\ Posted /\ Keyed /\ OneLink /\ OpenKeyed
-----------------------------------------------------------------------------
(* What a step does to one request, one row, the providers.                  *)

CallType == [at : Steps, row : Rows \cup {None}, via : Providers, seen : RowType]

Alone(c) == \A d \in Calls \ {c} : call'[d] = call[d]
MixStays == mix'.kind = mix.kind /\ mix'.events = mix.events

(* Moving a request on leaves its row, its provider and the others alone. *)
LEMMA GoesOn ==
    ASSUME ChargeTypeOK, NEW c \in Calls, NEW step \in Steps, Goes(c, step)
    PROVE  /\ call' \in [Calls -> CallType]
           /\ Alone(c) /\ call'[c].at = step
           /\ call'[c].row = call[c].row /\ call'[c].via = call[c].via
  BY DEF ChargeTypeOK, Goes, CallType, Alone

(* Writing a row leaves the others alone. *)
LEMMA WritesOne ==
    ASSUME ChargeTypeOK, NEW c, NEW r \in Rows, NEW new \in RowType, Writes(c, r, new)
    PROVE  /\ row' \in [Rows -> RowType]
           /\ row'[r] = new /\ \A s \in Rows \ {r} : row'[s] = row[s]
  BY DEF ChargeTypeOK, Writes

(* A fault uses one up, and the mix stays. *)
LEMMA FaultCounts ==
    ASSUME ChargeTypeOK, Faulty, Fault
    PROVE  /\ mix' \in [kind : [Calls -> Kinds], faults : Nat, events : BOOLEAN]
           /\ MixStays
  BY DEF ChargeTypeOK, Faulty, Fault, MixStays

(* What a post creates. *)
LEMMA CreatedOne ==
    ASSUME ChargeTypeOK, NEW r \in Rows, NEW via \in Providers, Created(r, via)
    PROVE  /\ remote' \in [Rows -> [made : Nat, live : Nat, pref : BOOLEAN]]
           /\ \A s \in Rows \ {r} : remote'[s] = remote[s]
           /\ via = "ASAAS" => /\ remote'[r].made = remote[r].made + 1
                               /\ remote'[r].pref = remote[r].pref
           /\ via # "ASAAS" => /\ remote'[r].made = remote[r].made
                               /\ remote'[r].live = remote[r].live
                               /\ remote'[r].pref
<1>1. CASE via = "ASAAS"
  <2> DEFINE was == remote[r]
             now == [was EXCEPT !.made = was.made + 1, !.live = was.live + 1]
  <2>1. remote' = [remote EXCEPT ![r] = now]
    BY <1>1 DEF Created
  <2>2. was \in [made : Nat, live : Nat, pref : BOOLEAN]
    BY DEF ChargeTypeOK
  <2>3. /\ now \in [made : Nat, live : Nat, pref : BOOLEAN]
        /\ now.made = was.made + 1 /\ now.pref = was.pref
    <3>1. ASSUME NEW w \in [made : Nat, live : Nat, pref : BOOLEAN], NEW m \in Nat, NEW l \in Nat
          PROVE  LET n == [w EXCEPT !.made = m, !.live = l]
                 IN  /\ n \in [made : Nat, live : Nat, pref : BOOLEAN]
                     /\ n.made = m /\ n.pref = w.pref
      OBVIOUS
    <3>2. was.made + 1 \in Nat /\ was.live + 1 \in Nat
      BY <2>2
    <3> QED
      BY <2>2, <3>1, <3>2
  <2> HIDE DEF now
  <2> QED
    BY <1>1, <2>1, <2>3 DEF ChargeTypeOK
<1>2. CASE via # "ASAAS"
  BY <1>2 DEF ChargeTypeOK, Created
<1> QED
  BY <1>1, <1>2

(* A handler that works on a row has one, and it is reserved. *)
LEMMA HasRow ==
    ASSUME ChargeInv, NEW c \in Calls, call[c].at \notin {"start", "reserve", "done"}
    PROVE  call[c].row \in Rows /\ row[call[c].row].status # "NONE"
  BY DEF ChargeInv, ChargeTypeOK, Control, Unreserved

-----------------------------------------------------------------------------
(* Steps that only move a request on, or forget what a provider held.        *)

RemoteShrinks ==
    \A r \in Rows : /\ remote'[r].made = remote[r].made
                    /\ remote'[r].live \in {remote[r].live, 0}
                    /\ remote'[r].pref => remote[r].pref

(* The request goes on in the row it has, through the provider it has. *)
MovesOn(c) ==
    /\ Alone(c)
    /\ call'[c].row = call[c].row
    /\ call'[c].via = call[c].via \/ mix.kind[c] = "first"
    /\ call[c].at # "done"
    /\ call'[c].at \in {"start", "reserve"} => call[c].row = None
    /\ call'[c].at \notin {"start", "reserve", "done"} => call[c].row # None
    /\ call'[c].at \in {"post", "save", "unknown"} =>
          mix.kind[c] \in {"charge", "mp", "first", "link"}
    /\ Sent(c) => Sent(c)'

(* Every request keeps its row, and is done for good. *)
RowsKept ==
    \A d \in Calls : /\ call'[d].row = call[d].row
                     /\ call[d].at = "done" => call'[d].at = "done"

(* A request that moves on keeps the row it has, and so do the others. *)
LEMMA MovesKeepsRows ==
    ASSUME NEW c \in Calls, MovesOn(c)
    PROVE  RowsKept
  BY DEF MovesOn, RowsKept, Alone

(* The control, and who posted what, do not depend on the rows. *)
LEMMA ControlStays ==
    ASSUME ChargeInv, NEW c \in Calls, MovesOn(c), MixStays, RemoteShrinks, ChargeTypeOK'
    PROVE  MixKept' /\ Control' /\ Posted' /\ OneLink'
<1>1. MixKept'
  BY DEF ChargeInv, MixKept, MixStays
<1>2. Control'
  BY DEF ChargeInv, Control, MixStays, MovesOn, Alone
<1>3. ASSUME NEW d \in Calls
      PROVE  (Sent(d) => Sent(d)') /\ call'[d].row = call[d].row
  BY DEF MovesOn, Alone, Sent
<1>4. Posted'
  <2> SUFFICES ASSUME NEW r \in Rows
               PROVE  /\ remote'[r].made = 0 => remote'[r].live = 0
                      /\ remote'[r].made > 0 =>
                            \E d \in Calls : /\ Owns(d, r)' /\ Sent(d)'
                                             /\ mix'.kind[d] \in {"charge", "first"}
                      /\ remote'[r].pref =>
                            \E d \in Calls : /\ call'[d].row = r /\ Sent(d)'
                                             /\ mix'.kind[d] \in {"mp", "first", "link"}
    BY DEF Posted
  <2>1. remote'[r].made = 0 => remote'[r].live = 0
    BY DEF ChargeInv, Posted, RemoteShrinks
  <2>2. ASSUME remote'[r].made > 0
        PROVE  \E d \in Calls : /\ Owns(d, r)' /\ Sent(d)'
                                /\ mix'.kind[d] \in {"charge", "first"}
    <3>1. PICK d \in Calls : Owns(d, r) /\ mix.kind[d] \in {"charge", "first"} /\ Sent(d)
      BY <2>2 DEF ChargeInv, Posted, RemoteShrinks
    <3>2. Owns(d, r)' /\ Sent(d)' /\ mix'.kind[d] \in {"charge", "first"}
      BY <1>3, <3>1 DEF Owns, MixStays
    <3> QED
      BY <3>2
  <2>3. ASSUME remote'[r].pref
        PROVE  \E d \in Calls : /\ call'[d].row = r /\ Sent(d)'
                                /\ mix'.kind[d] \in {"mp", "first", "link"}
    <3>1. PICK d \in Calls : /\ call[d].row = r /\ Sent(d)
                             /\ mix.kind[d] \in {"mp", "first", "link"}
      BY <2>3 DEF ChargeInv, Posted, RemoteShrinks
    <3>2. call'[d].row = r /\ Sent(d)' /\ mix'.kind[d] \in {"mp", "first", "link"}
      BY <1>3, <3>1 DEF MixStays
    <3> QED
      BY <3>2
  <2>4. QED
    BY <2>1, <2>2, <2>3
<1>5. OneLink'
  <2> SUFFICES ASSUME LinksApart, NEW r \in Rows
               PROVE  remote'[r].made <= 1 /\ ~(remote'[r].live > 0 /\ remote'[r].pref)
    BY DEF OneLink, LinksApart
  <2>1. remote[r].made <= 1 /\ ~(remote[r].live > 0 /\ remote[r].pref)
    BY DEF ChargeInv, OneLink
  <2>2. /\ remote'[r].made = remote[r].made
        /\ remote'[r].live = remote[r].live \/ remote'[r].live = 0
        /\ remote'[r].pref => remote[r].pref
    BY DEF RemoteShrinks
  <2> QED
    BY <2>1, <2>2
<1> QED
  BY <1>1, <1>2, <1>4, <1>5

(* Rows that nobody writes stay as the invariant has them. *)
LEMMA RowsStay ==
    ASSUME ChargeInv, RowsKept, MixStays, RemoteShrinks, ChargeTypeOK',
           row' = row, routine' = routine
    PROVE  Unreserved' /\ Ownership' /\ Processed' /\ Keyed' /\ OpenKeyed'
<1>1. Unreserved'
  BY DEF ChargeInv, Unreserved, RowsKept, RemoteShrinks, ChargeTypeOK
<1>2. Ownership'
  BY DEF ChargeInv, Ownership, Owns, RowsKept, MixStays
<1>3. Processed'
  <2>1. \A c \in Calls, r \in Rows : Owns(c, r)' <=> Owns(c, r)
    BY DEF Owns, RowsKept, MixStays
  <2> QED
    BY <2>1 DEF ChargeInv, Processed, RowsKept, MixStays, RemoteShrinks, ChargeTypeOK
<1>4. Keyed'
  BY DEF ChargeInv, Keyed, Payable, RemoteShrinks, ChargeTypeOK
<1>5. OpenKeyed'
  BY DEF ChargeInv, OpenKeyed, FirstUnseen, MixStays
<1> QED
  BY <1>1, <1>2, <1>3, <1>4, <1>5

(* A row that keeps its key: what a write must respect. *)
WritesWell(r) ==
    /\ \A s \in Rows \ {r} : row'[s] = row[s]
    /\ row[r].status # "NONE" /\ row'[r].status # "NONE"
    /\ row'[r].key = row[r].key /\ row'[r].ref = row[r].ref
    /\ row'[r].status \in Unpaid => row[r].status \in Unpaid \/ row[r].key
    /\ row'[r].proc = "LINK_READY" => row'[r].charge # None \/ row'[r].pref
    /\ row'[r].proc = "LOCAL" =>
          row[r].key /\ \A c \in Calls : Owns(c, r) => mix.kind[c] \notin {"charge", "mp"}
    /\ row'[r].proc = "FAILED" => row[r].proc = "FAILED" /\ row'[r].status = "CANCELED"

(* A row that is written as one of the requests may write it. *)
LEMMA RowWritten ==
    ASSUME ChargeInv, RowsKept, MixStays, ChargeTypeOK', NEW r \in Rows, WritesWell(r),
           remote' = remote, routine' \in {routine, None}
    PROVE  Unreserved' /\ Ownership' /\ Processed' /\ Keyed' /\ OpenKeyed'
<1>1. Unreserved'
  <2>1. ASSUME NEW s \in Rows, row'[s].status = "NONE"
        PROVE  row'[s] = NoRow /\ remote'[s].made = 0 /\ remote'[s].live = 0 /\ ~remote'[s].pref
    <3>1. row'[s] = row[s]
      BY <2>1 DEF WritesWell
    <3> QED
      BY <2>1, <3>1 DEF ChargeInv, Unreserved
  <2>2. ASSUME NEW s \in Rows, row[s].status # "NONE"
        PROVE  row'[s].status # "NONE"
    BY <2>2 DEF WritesWell
  <2>3. ASSUME NEW c \in Calls, call'[c].row # None
        PROVE  row'[call'[c].row].status # "NONE"
    BY <2>2, <2>3 DEF ChargeInv, Unreserved, RowsKept, ChargeTypeOK
  <2>4. routine' # None => row'[routine'].status # "NONE"
    BY <2>2 DEF ChargeInv, Unreserved, ChargeTypeOK
  <2> QED
    BY <2>1, <2>3, <2>4 DEF Unreserved
<1>2. Ownership'
  BY DEF ChargeInv, Ownership, Owns, RowsKept, MixStays, WritesWell
<1>3. Processed'
  <2>1. \A c \in Calls, s \in Rows : Owns(c, s)' <=> Owns(c, s)
    BY DEF Owns, RowsKept, MixStays
  <2>2. ASSUME NEW s \in Rows \ {r}
        PROVE  /\ row'[s] = row[s] /\ remote'[s] = remote[s]
    BY DEF WritesWell
  <2> QED
    BY <2>1, <2>2 DEF ChargeInv, Processed, RowsKept, MixStays, WritesWell
<1>4. Keyed'
  BY DEF ChargeInv, Keyed, Payable, WritesWell
<1>5. OpenKeyed'
  BY DEF ChargeInv, OpenKeyed, FirstUnseen, MixStays, WritesWell
<1> QED
  BY <1>1, <1>2, <1>3, <1>4, <1>5

-----------------------------------------------------------------------------
(* Steps that only move a request on. *)

(* Looking the key up changes nothing but the request. *)
LEMMA LookKeeps == ASSUME ChargeInv, NEW c \in Calls, Look(c) PROVE ChargeInv'
<1>1. PICK step \in {"reserve", "done"} : Goes(c, step)
  BY DEF Look
<1>2. /\ call' \in [Calls -> CallType] /\ Alone(c) /\ call'[c].at = step
      /\ call'[c].row = call[c].row /\ call'[c].via = call[c].via
  BY <1>1, GoesOn DEF ChargeInv, Steps
<1>3. ChargeTypeOK'
  BY <1>2 DEF ChargeInv, ChargeTypeOK, Look, CallType
<1>4. MovesOn(c)
  BY <1>2 DEF MovesOn, Look, At, Sent, ChargeInv, Control
<1>5. MixStays /\ RemoteShrinks /\ row' = row /\ routine' = routine
  BY DEF Look, MixStays, RemoteShrinks
<1> QED
  BY <1>3, <1>4, <1>5, MovesKeepsRows, ControlStays, RowsStay DEF ChargeInv

(* Asking which provider is active changes nothing but the request. *)
LEMMA AttachKeeps == ASSUME ChargeInv, NEW c \in Calls, Attach(c) PROVE ChargeInv'
<1>1. /\ call' \in [Calls -> CallType] /\ Alone(c)
      /\ call'[c].at \in {"claim", "done"} /\ call'[c].row = call[c].row
  <2>1. \/ Goes(c, "done")
        \/ \E p \in Providers : call' = [call EXCEPT ![c].at = "claim", ![c].via = p]
    BY DEF Attach
  <2>2. CASE Goes(c, "done")
    BY <2>2, GoesOn DEF ChargeInv, Steps
  <2>3. ASSUME NEW p \in Providers, call' = [call EXCEPT ![c].at = "claim", ![c].via = p]
        PROVE  /\ call' \in [Calls -> CallType] /\ Alone(c)
               /\ call'[c].at = "claim" /\ call'[c].row = call[c].row
    <3>1. "claim" \in Steps /\ call \in [Calls -> CallType]
      BY DEF Steps, ChargeInv, ChargeTypeOK, CallType
    <3> QED
      BY <2>3, <3>1 DEF CallType, Alone
  <2> QED
    BY <2>1, <2>2, <2>3
<1>2. ChargeTypeOK'
  BY <1>1 DEF ChargeInv, ChargeTypeOK, Attach, CallType
<1>3. MovesOn(c)
  BY <1>1 DEF MovesOn, Attach, At, Sent, ChargeInv, Control
<1>4. MixStays /\ RemoteShrinks /\ row' = row /\ routine' = routine
  BY DEF Attach, MixStays, RemoteShrinks
<1> QED
  BY <1>2, <1>3, <1>4, MovesKeepsRows, ControlStays, RowsStay DEF ChargeInv

(* A request that dies leaves its row to whoever repairs it. *)
LEMMA DieKeeps == ASSUME ChargeInv, NEW c \in Calls, Die(c) PROVE ChargeInv'
<1>1. /\ call' \in [Calls -> CallType] /\ Alone(c) /\ call'[c].at = "done"
      /\ call'[c].row = call[c].row /\ call'[c].via = call[c].via
  BY GoesOn DEF Die, ChargeInv, Steps
<1>2. MixStays /\ ChargeTypeOK'
  BY <1>1, FaultCounts DEF ChargeInv, ChargeTypeOK, Die, CallType
<1>3. MovesOn(c)
  BY <1>1 DEF MovesOn, Die, Sent, ChargeInv, Control
<1>4. RemoteShrinks /\ row' = row /\ routine' = routine
  BY DEF Die, RemoteShrinks
<1> QED
  BY <1>2, <1>3, <1>4, MovesKeepsRows, ControlStays, RowsStay DEF ChargeInv

(* Expiring a link at Mercado Pago. *)
LEMMA MpReleaseKeeps == ASSUME ChargeInv, NEW c \in Calls, MpRelease(c) PROVE ChargeInv'
<1>1. /\ call' \in [Calls -> CallType] /\ Alone(c) /\ call'[c].at = "delete"
      /\ call'[c].row = call[c].row /\ call'[c].via = call[c].via
  BY GoesOn DEF MpRelease, ChargeInv, Steps
<1>2. call[c].row \in Rows
  BY HasRow DEF MpRelease, At
<1>3. /\ remote' \in [Rows -> [made : Nat, live : Nat, pref : BOOLEAN]]
      /\ RemoteShrinks
  <2>1. remote \in [Rows -> [made : Nat, live : Nat, pref : BOOLEAN]]
    BY DEF ChargeInv, ChargeTypeOK
  <2>2. CASE remote' = remote
    BY <2>1, <2>2 DEF RemoteShrinks
  <2>3. CASE remote' = [remote EXCEPT ![call[c].row].pref = FALSE]
    BY <1>2, <2>1, <2>3 DEF RemoteShrinks
  <2> QED
    BY <2>2, <2>3 DEF MpRelease
<1>4. MixStays /\ ChargeTypeOK'
  BY <1>1, <1>3 DEF ChargeInv, ChargeTypeOK, MpRelease, CallType, MixStays
<1>5. MovesOn(c)
  BY <1>1, <1>2, ChargeAssumption DEF MovesOn, MpRelease, At, Sent
<1>6. row' = row /\ routine' = routine
  BY DEF MpRelease
<1> QED
  BY <1>3, <1>4, <1>5, <1>6, MovesKeepsRows, ControlStays, RowsStay DEF ChargeInv

(* Deleting a charge. *)
LEMMA DeleteKeeps == ASSUME ChargeInv, NEW c \in Calls, Delete(c) PROVE ChargeInv'
<1> DEFINE r == call[c].seen.charge
<1>1. PICK step \in {"cancel", "done"} : Goes(c, step)
  BY DEF Delete
<1>2. /\ call' \in [Calls -> CallType] /\ Alone(c) /\ call'[c].at = step
      /\ call'[c].row = call[c].row /\ call'[c].via = call[c].via
  BY <1>1, GoesOn DEF ChargeInv, Steps
<1>3. call[c].row \in Rows
  BY HasRow DEF Delete, At
<1>4. r \in Rows \cup {None}
  BY DEF ChargeInv, ChargeTypeOK, RowType
<1>5. \/ remote' = remote
      \/ r # None /\ remote' = [remote EXCEPT ![r].live = 0]
  BY DEF Delete
<1>6. /\ remote' \in [Rows -> [made : Nat, live : Nat, pref : BOOLEAN]]
      /\ RemoteShrinks
  <2>1. remote \in [Rows -> [made : Nat, live : Nat, pref : BOOLEAN]]
    BY DEF ChargeInv, ChargeTypeOK
  <2>2. CASE remote' = remote
    BY <2>1, <2>2 DEF RemoteShrinks
  <2>3. CASE r \in Rows /\ remote' = [remote EXCEPT ![r].live = 0]
    BY <2>1, <2>3 DEF RemoteShrinks
  <2> QED
    BY <1>4, <1>5, <2>2, <2>3
<1>7. MixStays /\ mix' \in [kind : [Calls -> Kinds], faults : Nat, events : BOOLEAN]
  BY FaultCounts DEF Delete, MixStays, ChargeInv, ChargeTypeOK
<1>8. ChargeTypeOK'
  BY <1>2, <1>6, <1>7 DEF ChargeInv, ChargeTypeOK, Delete, CallType
<1>9. MovesOn(c)
  BY <1>2, <1>3, ChargeAssumption DEF MovesOn, Delete, At, Sent
<1>10. row' = row /\ routine' = routine
  BY DEF Delete
<1> QED
  BY <1>6, <1>7, <1>8, <1>9, <1>10, MovesKeepsRows, ControlStays, RowsStay DEF ChargeInv

-----------------------------------------------------------------------------
(* Steps that write the row of their request. *)

(* A request that did not post by now has a row the provider knows nothing   *)
(* of, and no row that it owns was charged by another.                       *)
LEMMA NothingPosted ==
    ASSUME ChargeInv, NEW c \in Calls, NEW r \in Rows, Owns(c, r), ~Sent(c)
    PROVE  /\ remote[r].made = 0
           /\ mix.kind[c] = "charge" => ~remote[r].pref
<1>1. ~(remote[r].made > 0)
  BY DEF ChargeInv, Posted, Ownership
<1>2. ASSUME mix.kind[c] = "charge", remote[r].pref
      PROVE  FALSE
  <2>1. PICK d \in Calls : /\ call[d].row = r /\ Sent(d)
                           /\ mix.kind[d] \in {"mp", "first", "link"}
    BY <1>2 DEF ChargeInv, Posted
  <2>2. CASE mix.kind[d] = "link"
    BY <1>2, <2>1, <2>2 DEF ChargeInv, Ownership
  <2>3. CASE mix.kind[d] # "link"
    <3>1. Owns(d, r)
      BY <2>1, <2>3 DEF Owns
    <3> QED
      BY <1>2, <2>1, <3>1 DEF ChargeInv, Ownership
  <2> QED
    BY <2>2, <2>3
<1> QED
  BY <1>1, <1>2 DEF ChargeInv, ChargeTypeOK

(* The claim of the first invoice: LOCAL becomes PROCESSING, or the request ends. *)
LEMMA ClaimKeeps == ASSUME ChargeInv, NEW c \in Calls, Claim(c) PROVE ChargeInv'
<1> DEFINE r == call[c].row
<1>1. r \in Rows /\ row[r].status # "NONE"
  BY HasRow DEF Claim, At
<1>2. PICK step \in {"post", "release", "done"} : Goes(c, step)
  BY DEF Claim
<1>3. /\ call' \in [Calls -> CallType] /\ Alone(c) /\ call'[c].at = step
      /\ call'[c].row = call[c].row /\ call'[c].via = call[c].via
  BY <1>2, GoesOn DEF ChargeInv, Steps
<1>4. MovesOn(c)
  BY <1>1, <1>3, ChargeAssumption DEF MovesOn, Claim, At, Sent
<1>5. MixStays /\ RemoteShrinks /\ remote' = remote /\ routine' = routine
  BY DEF Claim, MixStays, RemoteShrinks
<1>6. CASE row' = row
  <2>1. ChargeTypeOK'
    BY <1>3, <1>6 DEF ChargeInv, ChargeTypeOK, Claim, CallType
  <2> QED
    BY <1>4, <1>5, <1>6, <2>1, MovesKeepsRows, ControlStays, RowsStay DEF ChargeInv
<1>7. CASE row[r].proc = "LOCAL" /\ Writes(c, r, [row[r] EXCEPT !.proc = "PROCESSING"])
  <2> DEFINE new == [row[r] EXCEPT !.proc = "PROCESSING"]
  <2>1. /\ new \in RowType /\ new.proc = "PROCESSING" /\ new.status = row[r].status
        /\ new.key = row[r].key /\ new.ref = row[r].ref
    <3>1. row[r] \in RowType
      BY <1>1 DEF ChargeInv, ChargeTypeOK
    <3> QED
      BY <3>1 DEF RowType, Processing
  <2>2. /\ row' \in [Rows -> RowType]
        /\ row'[r] = new /\ \A s \in Rows \ {r} : row'[s] = row[s]
    BY <1>1, <1>7, <2>1, WritesOne DEF ChargeInv
  <2>3. ChargeTypeOK'
    BY <1>3, <2>2 DEF ChargeInv, ChargeTypeOK, Claim, CallType
  <2>4. WritesWell(r)
    BY <1>1, <2>1, <2>2 DEF WritesWell
  <2> QED
    BY <1>1, <1>4, <1>5, <2>3, <2>4, MovesKeepsRows, ControlStays, RowWritten DEF ChargeInv
<1> QED
  BY <1>6, <1>7 DEF Claim


(* What the other writers of a row have in common. *)
LEMMA WriterKeeps ==
    ASSUME ChargeInv, NEW c \in Calls, NEW new \in RowType,
           call[c].at \notin {"start", "reserve", "done"},
           Goes(c, "done"), Writes(c, call[c].row, new),
           remote' = remote, routine' = routine, mix' = mix,
           new.status # "NONE", new.key = row[call[c].row].key, new.ref = row[call[c].row].ref,
           new.status \in Unpaid => row[call[c].row].status \in Unpaid \/ row[call[c].row].key,
           new.proc = "LINK_READY" => new.charge # None \/ new.pref,
           new.proc = "LOCAL" =>
              /\ row[call[c].row].key
              /\ \A d \in Calls : Owns(d, call[c].row) => mix.kind[d] \notin {"charge", "mp"},
           new.proc = "FAILED" => row[call[c].row].proc = "FAILED" /\ new.status = "CANCELED"
    PROVE  ChargeInv'
<1> DEFINE r == call[c].row
<1>1. r \in Rows /\ row[r].status # "NONE"
  BY HasRow
<1>2. /\ call' \in [Calls -> CallType] /\ Alone(c) /\ call'[c].at = "done"
      /\ call'[c].row = call[c].row /\ call'[c].via = call[c].via
  BY GoesOn DEF ChargeInv, Steps
<1>3. /\ row' \in [Rows -> RowType]
      /\ row'[r] = new /\ \A s \in Rows \ {r} : row'[s] = row[s]
  BY <1>1, WritesOne DEF ChargeInv
<1>4. ChargeTypeOK'
  BY <1>2, <1>3 DEF ChargeInv, ChargeTypeOK, CallType
<1>5. MovesOn(c) /\ MixStays /\ RemoteShrinks
  BY <1>2 DEF MovesOn, Sent, MixStays, RemoteShrinks
<1>6. WritesWell(r)
  BY <1>1, <1>3 DEF WritesWell
<1> QED
  BY <1>1, <1>4, <1>5, <1>6, MovesKeepsRows, ControlStays, RowWritten DEF ChargeInv

(* A claim is given back by the request that made it. *)
LEMMA ReleaseKeeps == ASSUME ChargeInv, NEW c \in Calls, Release(c) PROVE ChargeInv'
<1> DEFINE r   == call[c].row
           new == [row[r] EXCEPT !.proc = "LOCAL"]
<1>1. call[c].at = "release" /\ mix.kind[c] = "first"
  BY DEF Release, At
<1>2. r \in Rows /\ row[r].status # "NONE"
  BY <1>1, HasRow
<1>3. row[r] \in RowType
  BY <1>2 DEF ChargeInv, ChargeTypeOK
<1>4. /\ new \in RowType /\ new.proc = "LOCAL" /\ new.status = row[r].status
      /\ new.key = row[r].key /\ new.ref = row[r].ref
  BY <1>3 DEF RowType, Processing
<1>5. Owns(c, r) /\ row[r].key
  BY <1>1, <1>2 DEF Owns, ChargeInv, Ownership
<1>6. \A d \in Calls : Owns(d, r) => mix.kind[d] \notin {"charge", "mp"}
  BY <1>1, <1>2, <1>5 DEF ChargeInv, Ownership
<1> HIDE DEF new
<1>7. Goes(c, "done") /\ Writes(c, r, new) /\ remote' = remote /\ routine' = routine /\ mix' = mix
  BY DEF Release, new
<1> QED
  BY <1>1, <1>2, <1>4, <1>5, <1>6, <1>7, WriterKeeps

(* An answer that was lost leaves the row UNKNOWN. *)
LEMMA UnknownKeeps == ASSUME ChargeInv, NEW c \in Calls, Unknown(c) PROVE ChargeInv'
<1> DEFINE r   == call[c].row
           new == [row[r] EXCEPT !.proc = "UNKNOWN"]
<1>1. call[c].at = "unknown"
  BY DEF Unknown, At
<1>2. r \in Rows /\ row[r].status # "NONE"
  BY <1>1, HasRow
<1>3. row[r] \in RowType
  BY <1>2 DEF ChargeInv, ChargeTypeOK
<1>4. /\ new \in RowType /\ new.proc = "UNKNOWN" /\ new.status = row[r].status
      /\ new.key = row[r].key /\ new.ref = row[r].ref
  BY <1>3 DEF RowType, Processing
<1> HIDE DEF new
<1>5. Goes(c, "done") /\ Writes(c, r, new) /\ remote' = remote /\ routine' = routine /\ mix' = mix
  BY DEF Unknown, new
<1> QED
  BY <1>1, <1>2, <1>4, <1>5, WriterKeeps

(* A removal closes the invoice and keeps its key. *)
LEMMA CancelKeeps == ASSUME ChargeInv, NEW c \in Calls, Cancel(c) PROVE ChargeInv'
<1> DEFINE r   == call[c].row
           new == [row[r] EXCEPT !.status = "CANCELED"]
<1>1. call[c].at = "cancel"
  BY DEF Cancel, At
<1>2. r \in Rows /\ row[r].status # "NONE"
  BY <1>1, HasRow
<1>3. row[r] \in RowType
  BY <1>2 DEF ChargeInv, ChargeTypeOK
<1>4. /\ new \in RowType /\ new.proc = row[r].proc /\ new.status = "CANCELED"
      /\ new.key = row[r].key /\ new.ref = row[r].ref
      /\ new.charge = row[r].charge /\ new.pref = row[r].pref
  BY <1>3 DEF RowType
<1> HIDE DEF new
<1>5. Goes(c, "done") /\ Writes(c, r, new) /\ remote' = remote /\ routine' = routine /\ mix' = mix
  BY DEF Cancel, new
<1>6. /\ new.proc = "LINK_READY" => new.charge # None \/ new.pref
      /\ new.proc = "LOCAL" =>
            row[r].key /\ \A d \in Calls : Owns(d, r) => mix.kind[d] \notin {"charge", "mp"}
  BY <1>2, <1>4 DEF ChargeInv, Processed
<1>7. new.status # "NONE" /\ new.status \notin Unpaid
  BY <1>4 DEF Unpaid
<1> QED
  BY <1>1, <1>2, <1>4, <1>5, <1>6, <1>7, WriterKeeps

(* The answer of a provider.  A charge that waits for its answer has the key *)
(* still, so the invoice may be open.                                        *)
LEMMA SaveKeeps == ASSUME ChargeInv, NEW c \in Calls, Save(c) PROVE ChargeInv'
<1> DEFINE r   == call[c].row
           via == call[c].via
           new == Answered(mix.kind[c], via, r)
<1>1. /\ call[c].at = "save" /\ mix.kind[c] \in {"charge", "mp", "first", "link"}
      /\ remote' = remote /\ routine' = routine /\ mix' = mix
  BY DEF Save, At, ChargeInv, Control
<1>2. r \in Rows /\ row[r].status # "NONE"
  BY <1>1, HasRow
<1>3. CASE row' = row /\ Goes(c, "unknown")
  <2>1. /\ call' \in [Calls -> CallType] /\ Alone(c) /\ call'[c].at = "unknown"
        /\ call'[c].row = call[c].row /\ call'[c].via = call[c].via
    BY <1>3, GoesOn DEF ChargeInv, Steps
  <2>2. ChargeTypeOK'
    BY <1>1, <1>3, <2>1 DEF ChargeInv, ChargeTypeOK, CallType
  <2>3. MovesOn(c) /\ MixStays /\ RemoteShrinks
    BY <1>1, <1>2, <2>1, ChargeAssumption DEF MovesOn, Sent, MixStays, RemoteShrinks
  <2> QED
    BY <1>1, <1>3, <2>2, <2>3, MovesKeepsRows, ControlStays, RowsStay DEF ChargeInv
<1>4. CASE Writes(c, r, new) /\ Goes(c, "done")
  <2>1. row[r] \in RowType
    BY <1>2 DEF ChargeInv, ChargeTypeOK
  <2>2. CASE via = "MERCADOPAGO"
    <3>1. /\ new \in RowType /\ new.pref /\ new.status = row[r].status
          /\ new.key = row[r].key /\ new.ref = row[r].ref
          /\ new.proc = IF mix.kind[c] = "link" THEN row[r].proc ELSE "LINK_READY"
      BY <2>1, <2>2 DEF Answered, RowType, Processing, Providers
    <3>2. row[r].proc = "LOCAL" =>
             row[r].key /\ \A d \in Calls : Owns(d, r) => mix.kind[d] \notin {"charge", "mp"}
      BY <1>2 DEF ChargeInv, Processed
    <3>3. row[r].proc = "FAILED" => row[r].status = "CANCELED"
      BY <1>2 DEF ChargeInv, Processed
    <3> HIDE DEF new
    <3> QED
      BY <1>1, <1>2, <1>4, <3>1, <3>2, <3>3, WriterKeeps
  <2>3. CASE via # "MERCADOPAGO"
    <3>1. /\ new \in RowType /\ new.charge = r /\ new.proc = "LINK_READY"
          /\ new.status = IF mix.kind[c] = "charge" THEN "OPEN" ELSE row[r].status
          /\ new.key = row[r].key /\ new.ref = row[r].ref
      BY <1>2, <2>1, <2>3 DEF Answered, RowType, Processing
    <3>2. mix.kind[c] = "charge" => row[r].key
      BY <1>1, <1>2 DEF ChargeInv, Ownership, Owns
    <3> HIDE DEF new
    <3> QED
      BY <1>1, <1>2, <1>4, <3>1, <3>2, ChargeAssumption, WriterKeeps
  <2> QED
    BY <2>2, <2>3
<1> QED
  BY <1>3, <1>4 DEF Save

(* A definitive refusal gives the key back: nothing was posted, so nothing   *)
(* is payable, and nobody else works on the row.                             *)
LEMMA UndoKeeps == ASSUME ChargeInv, NEW c \in Calls, Undo(c) PROVE ChargeInv'
<1> DEFINE r   == call[c].row
           new == [row[r] EXCEPT !.status = "CANCELED", !.proc = "FAILED", !.key = FALSE]
<1>1. /\ call[c].at = "undo" /\ mix.kind[c] = "charge"
      /\ remote' = remote /\ routine' = routine /\ mix' = mix
  BY DEF Undo, At
<1>2. r \in Rows /\ row[r].status # "NONE"
  BY <1>1, HasRow
<1>3. row[r] \in RowType
  BY <1>2 DEF ChargeInv, ChargeTypeOK
<1>4. /\ new \in RowType /\ new.proc = "FAILED" /\ new.status = "CANCELED"
      /\ ~new.key /\ new.ref = row[r].ref
  BY <1>3 DEF RowType, Processing
<1>5. /\ call' \in [Calls -> CallType] /\ Alone(c) /\ call'[c].at = "done"
      /\ call'[c].row = call[c].row /\ call'[c].via = call[c].via
  BY GoesOn DEF Undo, ChargeInv, Steps
<1>6. Writes(c, r, new)
  BY DEF Undo
<1> HIDE DEF new
<1>7. /\ row' \in [Rows -> RowType]
      /\ row'[r] = new /\ \A s \in Rows \ {r} : row'[s] = row[s]
  BY <1>2, <1>4, <1>6, WritesOne DEF ChargeInv
<1>8. ChargeTypeOK'
  BY <1>1, <1>5, <1>7 DEF ChargeInv, ChargeTypeOK, CallType
<1>9. MovesOn(c) /\ MixStays /\ RemoteShrinks
  BY <1>1, <1>5 DEF MovesOn, Sent, MixStays, RemoteShrinks
<1>10. Owns(c, r) /\ ~Sent(c)
  BY <1>1 DEF Owns, Sent
<1>11. remote[r].made = 0 /\ remote[r].live = 0 /\ ~remote[r].pref
  BY <1>1, <1>2, <1>10, NothingPosted DEF ChargeInv, Posted
<1>12. RowsKept
  BY <1>9, MovesKeepsRows
<1>13. Unreserved'
  <2>1. ASSUME NEW s \in Rows, row'[s].status = "NONE"
        PROVE  row'[s] = NoRow /\ remote'[s].made = 0 /\ remote'[s].live = 0 /\ ~remote'[s].pref
    <3>1. s # r
      BY <1>4, <1>7, <2>1
    <3> QED
      BY <1>1, <1>7, <2>1, <3>1 DEF ChargeInv, Unreserved
  <2>2. ASSUME NEW s \in Rows, row[s].status # "NONE"
        PROVE  row'[s].status # "NONE"
    BY <1>4, <1>7, <2>2
  <2>3. ASSUME NEW d \in Calls, call'[d].row # None
        PROVE  row'[call'[d].row].status # "NONE"
    BY <1>12, <2>2, <2>3 DEF ChargeInv, Unreserved, RowsKept, ChargeTypeOK
  <2>4. routine' # None => row'[routine'].status # "NONE"
    BY <1>1, <2>2 DEF ChargeInv, Unreserved, ChargeTypeOK
  <2> QED
    BY <2>1, <2>3, <2>4 DEF Unreserved
<1>14. \A d \in Calls, s \in Rows : Owns(d, s)' <=> Owns(d, s)
  BY <1>1, <1>12 DEF Owns, RowsKept
<1>15. Ownership'
  <2>1. ASSUME NEW d \in Calls, NEW s \in Rows
        PROVE  /\ Owns(d, s) /\ call'[d].at # "done" => row'[s].key
               /\ mix.kind[d] = "link" /\ call'[d].row = s => row'[s].key
    <3>1. Owns(d, s) /\ call'[d].at # "done" => s # r
      BY <1>5, <1>10, <1>2 DEF ChargeInv, Ownership
    <3>2. mix.kind[d] = "link" /\ call'[d].row = s => s # r
      BY <1>1, <1>2, <1>10, <1>12 DEF ChargeInv, Ownership, RowsKept
    <3> QED
      BY <1>7, <1>12, <3>1, <3>2 DEF ChargeInv, Ownership, RowsKept
  <2>2. /\ \A d, e \in Calls, s \in Rows : Owns(d, s)' /\ Owns(e, s)' => d = e
        /\ \A d, e \in Calls, s \in Rows :
              mix'.kind[d] = "link" /\ call'[d].row = s /\ Owns(e, s)' => mix'.kind[e] # "charge"
    BY <1>1, <1>12, <1>14 DEF ChargeInv, Ownership, RowsKept
  <2> QED
    BY <1>1, <1>14, <2>1, <2>2 DEF Ownership
<1>16. Processed'
  <2> SUFFICES ASSUME NEW s \in Rows
               PROVE  /\ row'[s].proc = "LINK_READY" => row'[s].charge # None \/ row'[s].pref
                      /\ row'[s].proc = "LOCAL" /\ row'[s].status # "NONE" =>
                            /\ row'[s].key
                            /\ \A d \in Calls : Owns(d, s)' => mix'.kind[d] \notin {"charge", "mp"}
                      /\ row'[s].proc = "FAILED" =>
                            /\ row'[s].status = "CANCELED" /\ remote'[s].made = 0 /\ ~remote'[s].pref
                            /\ \E d \in Calls : /\ Owns(d, s)' /\ mix'.kind[d] = "charge"
                                                /\ call'[d].at = "done"
    BY DEF Processed
  <2>1. CASE s = r
    BY <1>1, <1>4, <1>5, <1>7, <1>10, <1>11, <1>14, <2>1
  <2>2. CASE s # r
    <3>1. row'[s] = row[s]
      BY <1>7, <2>2
    <3> QED
      BY <1>1, <1>12, <1>14, <3>1 DEF ChargeInv, Processed, RowsKept
  <2> QED
    BY <2>1, <2>2
<1>17. Keyed'
  BY <1>1, <1>4, <1>7, <1>11 DEF ChargeInv, Keyed, Payable
<1>18. OpenKeyed'
  BY <1>1, <1>4, <1>7 DEF ChargeInv, OpenKeyed, FirstUnseen, Unpaid
<1> QED
  BY <1>8, <1>9, <1>13, <1>15, <1>16, <1>17, <1>18, ControlStays DEF ChargeInv

-----------------------------------------------------------------------------
(* Steps that choose a row: people's, and the reservation. *)

(* A person takes a row: to remove it, or to give it a link nobody else      *)
(* will give it.                                                             *)
LEMMA TakesRow ==
    ASSUME ChargeInv, ChargeTypeOK', NEW c \in Calls, NEW r \in Rows,
           call[c].at = "start", Alone(c), call'[c].row = r, row[r].status # "NONE",
           \/ mix.kind[c] = "remove" /\ call'[c].at = "mpRelease"
           \/ /\ mix.kind[c] = "link" /\ call'[c].at = "post" /\ call'[c].via = "MERCADOPAGO"
              /\ row[r].key /\ \A d \in Calls : Owns(d, r) => mix.kind[d] # "charge",
           row' = row, remote' = remote, routine' = routine, mix' = mix
    PROVE  ChargeInv'
<1>1. MixKept' /\ Control'
  BY ChargeAssumption DEF ChargeInv, MixKept, Control, Alone
<1>2. \A d \in Calls, s \in Rows : Owns(d, s)' <=> Owns(d, s)
  BY ChargeAssumption DEF Owns, Alone, ChargeInv, Control
<1>3. Unreserved'
  BY ChargeAssumption DEF ChargeInv, Unreserved, Alone
<1>4. Ownership'
  BY <1>2 DEF ChargeInv, Ownership, Alone, Owns
<1>5. \A d \in Calls : /\ mix.kind[d] = "charge" => call'[d] = call[d]
                       /\ Sent(d) => call'[d] = call[d]
  BY DEF Alone, Sent
<1>6. Processed'
  BY <1>2, <1>5 DEF ChargeInv, Processed
<1>7. Posted'
  BY <1>2, <1>5 DEF ChargeInv, Posted, Sent
<1>8. Keyed' /\ OneLink' /\ OpenKeyed'
  BY DEF ChargeInv, Keyed, Payable, OneLink, OpenKeyed, LinksApart, FirstUnseen
<1> QED
  BY <1>1, <1>3, <1>4, <1>6, <1>7, <1>8 DEF ChargeInv

(* A removal reads an open invoice. *)
LEMMA RemoveKeeps == ASSUME ChargeInv, NEW c \in Calls, Remove(c) PROVE ChargeInv'
<1>1. PICK r \in Rows :
         /\ row[r].status \in Unpaid
         /\ call' = [call EXCEPT ![c].at = "mpRelease", ![c].row = r, ![c].seen = row[r]]
  BY DEF Remove
<1>2. row[r] \in RowType /\ call \in [Calls -> CallType] /\ "mpRelease" \in Steps
  BY DEF ChargeInv, ChargeTypeOK, CallType, Steps
<1>3. call' \in [Calls -> CallType] /\ Alone(c) /\ call'[c].row = r /\ call'[c].at = "mpRelease"
  BY <1>1, <1>2 DEF CallType, Alone
<1>4. ChargeTypeOK'
  BY <1>3 DEF ChargeInv, ChargeTypeOK, Remove, CallType
<1>5. /\ call[c].at = "start" /\ mix.kind[c] = "remove"
      /\ row' = row /\ remote' = remote /\ routine' = routine /\ mix' = mix
  BY DEF Remove, At
<1>6. row[r].status # "NONE"
  BY <1>1 DEF Unpaid
<1> QED
  BY <1>3, <1>4, <1>5, <1>6, TakesRow

(* An invoice without a charge that may get a link is LOCAL: no charge or    *)
(* preference is on its way.                                                 *)
LEMMA ManualLinkKeeps == ASSUME ChargeInv, NEW c \in Calls, ManualLink(c) PROVE ChargeInv'
<1>1. PICK r \in Rows :
         /\ row[r].status \in Unpaid /\ row[r].charge = None
         /\ row[r].proc \notin {"UNKNOWN", "PROCESSING"} /\ ~row[r].pref
         /\ call' = [call EXCEPT ![c].at = "post", ![c].row = r, ![c].via = "MERCADOPAGO"]
  BY DEF ManualLink
<1>2. row[r] \in RowType /\ call \in [Calls -> CallType] /\ "post" \in Steps
      /\ "MERCADOPAGO" \in Providers
  BY DEF ChargeInv, ChargeTypeOK, CallType, Steps, Providers
<1>3. /\ call' \in [Calls -> CallType] /\ Alone(c)
      /\ call'[c].row = r /\ call'[c].at = "post" /\ call'[c].via = "MERCADOPAGO"
  <2>1. call[c] \in CallType /\ r \in Rows \cup {None}
    BY <1>2
  <2> DEFINE to == [call[c] EXCEPT !.at = "post", !.row = r, !.via = "MERCADOPAGO"]
  <2>2. to \in CallType /\ to.row = r /\ to.at = "post" /\ to.via = "MERCADOPAGO"
    BY <1>2, <2>1 DEF CallType
  <2>3. call' = [call EXCEPT ![c] = to]
    BY <1>1
  <2> HIDE DEF to
  <2> QED
    BY <1>2, <2>2, <2>3 DEF Alone
<1>4. ChargeTypeOK'
  BY <1>3 DEF ChargeInv, ChargeTypeOK, ManualLink, CallType
<1>5. /\ call[c].at = "start" /\ mix.kind[c] = "link"
      /\ row' = row /\ remote' = remote /\ routine' = routine /\ mix' = mix
  BY DEF ManualLink, At
<1>6. row[r].proc = "LOCAL"
  BY <1>1, <1>2 DEF ChargeInv, Processed, RowType, Processing, Unpaid
<1>7. row[r].key /\ \A d \in Calls : Owns(d, r) => mix.kind[d] # "charge"
  BY <1>1, <1>6 DEF ChargeInv, Processed, Unpaid
<1>8. row[r].status # "NONE"
  BY <1>1 DEF Unpaid
<1> QED
  BY <1>3, <1>4, <1>5, <1>7, <1>8, TakesRow

(* The reservation: a new row under the free key, of one owner. *)
LEMMA ReserveKeeps == ASSUME ChargeInv, NEW c \in Calls, Reserve(c) PROVE ChargeInv'
<1> DEFINE kind == mix.kind[c]
           new  == Reserved(kind)
<1>1. /\ call[c].at \in {"start", "reserve"} /\ call[c].row = None
      /\ kind \in {"charge", "local", "first", "mp"}
      /\ remote' = remote /\ routine' = routine /\ mix' = mix
  BY DEF Reserve, At, ChargeInv, Control
<1>2. CASE row' = row /\ Goes(c, "done")
  <2>1. /\ call' \in [Calls -> CallType] /\ Alone(c) /\ call'[c].at = "done"
        /\ call'[c].row = call[c].row /\ call'[c].via = call[c].via
    BY <1>2, GoesOn DEF ChargeInv, Steps
  <2>2. ChargeTypeOK'
    BY <1>1, <1>2, <2>1 DEF ChargeInv, ChargeTypeOK, CallType
  <2>3. MovesOn(c) /\ MixStays /\ RemoteShrinks
    BY <1>1, <2>1 DEF MovesOn, Sent, MixStays, RemoteShrinks
  <2> QED
    BY <1>1, <1>2, <2>2, <2>3, MovesKeepsRows, ControlStays, RowsStay DEF ChargeInv
<1>3. ASSUME NEW r \in Rows, Holder = {}, row[r] = NoRow, Writes(c, r, new),
             call' = [call EXCEPT ![c].at = AfterReserve(kind), ![c].row = r,
                                  ![c].via = IF kind = "mp" THEN "MERCADOPAGO" ELSE "ASAAS"]
      PROVE  ChargeInv'
  <2>1. /\ new \in RowType /\ new.status = "OPEN" /\ new.key /\ new.charge = None /\ ~new.pref
        /\ new.proc = IF kind \in {"first", "local"} THEN "LOCAL" ELSE "PROCESSING"
        /\ new.ref = IF kind = "first" THEN "first" ELSE "inv"
    BY DEF Reserved, NoRow, RowType, Processing, Providers
  <2> HIDE DEF new
  <2>2. /\ row' \in [Rows -> RowType]
        /\ row'[r] = new /\ \A s \in Rows \ {r} : row'[s] = row[s]
    BY <1>3, <2>1, WritesOne DEF ChargeInv
  <2>3. /\ AfterReserve(kind) \in {"done", "attach", "post"}
        /\ AfterReserve(kind) = "post" => kind \in {"charge", "mp"}
    BY <1>1 DEF AfterReserve
  <2>4. /\ call' \in [Calls -> CallType] /\ Alone(c)
        /\ call'[c].at = AfterReserve(kind) /\ call'[c].row = r
        /\ call'[c].via = IF kind = "mp" THEN "MERCADOPAGO" ELSE "ASAAS"
    <3>1. /\ AfterReserve(kind) \in Steps /\ call \in [Calls -> CallType]
          /\ (IF kind = "mp" THEN "MERCADOPAGO" ELSE "ASAAS") \in Providers
      BY <2>3 DEF Steps, ChargeInv, ChargeTypeOK, CallType, Providers
    <3> QED
      BY <1>3, <3>1 DEF CallType, Alone
  <2>5. ChargeTypeOK'
    BY <1>1, <2>2, <2>4 DEF ChargeInv, ChargeTypeOK, CallType
  <2>6. MixKept'
    BY <1>1 DEF ChargeInv, MixKept
  <2>7. Control'
    BY <1>1, <2>3, <2>4, ChargeAssumption DEF ChargeInv, Control, Alone
  <2>8. row[r].status = "NONE"
    BY <1>3 DEF NoRow
  <2>9. \A d \in Calls : call[d].row # r
    BY <2>8, ChargeAssumption DEF ChargeInv, Unreserved
  <2>10. \A d \in Calls \ {c} : call'[d] = call[d]
    BY <2>4 DEF Alone
  <2>11. /\ \A d \in Calls : Owns(d, r)' <=> d = c
         /\ \A d \in Calls, s \in Rows \ {r} : Owns(d, s)' <=> Owns(d, s)
    BY <1>1, <2>4, <2>9, <2>10, ChargeAssumption DEF Owns
  <2>12. remote[r].made = 0 /\ remote[r].live = 0 /\ ~remote[r].pref
    BY <2>8 DEF ChargeInv, Unreserved
  <2>13. Unreserved'
    <3>1. ASSUME NEW s \in Rows, row'[s].status = "NONE"
          PROVE  row'[s] = NoRow /\ remote'[s].made = 0 /\ remote'[s].live = 0 /\ ~remote'[s].pref
      BY <1>1, <2>1, <2>2, <3>1 DEF ChargeInv, Unreserved
    <3>2. ASSUME NEW s \in Rows, row[s].status # "NONE" PROVE row'[s].status # "NONE"
      BY <2>1, <2>2, <3>2
    <3>3. ASSUME NEW d \in Calls, call'[d].row # None PROVE row'[call'[d].row].status # "NONE"
      <4>1. CASE d = c
        BY <2>1, <2>2, <2>4, <4>1
      <4>2. CASE d # c
        BY <2>10, <3>2, <3>3, <4>2 DEF ChargeInv, Unreserved, ChargeTypeOK
      <4> QED
        BY <4>1, <4>2
    <3>4. routine' # None => row'[routine'].status # "NONE"
      BY <1>1, <3>2 DEF ChargeInv, Unreserved, ChargeTypeOK
    <3> QED
      BY <3>1, <3>3, <3>4 DEF Unreserved
  <2>14. Ownership'
    <3>1. \A d, e \in Calls, s \in Rows : Owns(d, s)' /\ Owns(e, s)' => d = e
      BY <2>11 DEF ChargeInv, Ownership
    <3>2. \A d \in Calls, s \in Rows :
             mix'.kind[d] = "link" /\ call'[d].row = s => d # c /\ s # r /\ call[d].row = s
      BY <1>1, <2>9, <2>10
    <3>3. \A d, e \in Calls, s \in Rows :
             mix'.kind[d] = "link" /\ call'[d].row = s /\ Owns(e, s)' => mix'.kind[e] # "charge"
      BY <1>1, <2>11, <3>2 DEF ChargeInv, Ownership
    <3>4. ASSUME NEW d \in Calls, NEW s \in Rows
          PROVE  /\ Owns(d, s)' /\ call'[d].at # "done" => row'[s].key
                 /\ mix'.kind[d] = "link" /\ call'[d].row = s => row'[s].key
      <4>1. CASE s = r
        BY <2>1, <2>2, <4>1
      <4>2. CASE s # r
        <5>1. row'[s] = row[s] /\ (Owns(d, s)' => d # c /\ Owns(d, s))
          BY <1>1, <2>2, <2>4, <2>11, <4>2 DEF Owns
        <5> QED
          BY <1>1, <2>10, <3>2, <5>1 DEF ChargeInv, Ownership
      <4> QED
        BY <4>1, <4>2
    <3> QED
      BY <3>1, <3>3, <3>4 DEF Ownership
  <2>15. Processed'
    <3> SUFFICES ASSUME NEW s \in Rows
                 PROVE  /\ row'[s].proc = "LINK_READY" => row'[s].charge # None \/ row'[s].pref
                        /\ row'[s].proc = "LOCAL" /\ row'[s].status # "NONE" =>
                              /\ row'[s].key
                              /\ \A d \in Calls : Owns(d, s)' => mix'.kind[d] \notin {"charge", "mp"}
                        /\ row'[s].proc = "FAILED" =>
                              /\ row'[s].status = "CANCELED"
                              /\ remote'[s].made = 0 /\ ~remote'[s].pref
                              /\ \E d \in Calls : /\ Owns(d, s)' /\ mix'.kind[d] = "charge"
                                                  /\ call'[d].at = "done"
      BY DEF Processed
    <3>1. CASE s = r
      BY <1>1, <2>1, <2>2, <2>11, <3>1
    <3>2. CASE s # r
      <4>1. row'[s] = row[s] /\ \A d \in Calls : Owns(d, s) => d # c
        BY <1>1, <2>2, <3>2, ChargeAssumption DEF Owns
      <4> QED
        BY <1>1, <2>10, <2>11, <3>2, <4>1 DEF ChargeInv, Processed
    <3> QED
      BY <3>1, <3>2
  <2>16. Posted'
    <3>1. \A d \in Calls, s \in Rows : call[d].row = s =>
             call'[d] = call[d] /\ (Sent(d) => Sent(d)') /\ (Owns(d, s) => Owns(d, s)')
      BY <1>1, <2>10, ChargeAssumption DEF Sent, Owns
    <3> QED
      BY <1>1, <3>1 DEF ChargeInv, Posted, Owns
  <2>17. \A s \in Rows : ~row[s].key
    BY <1>3 DEF Holder
  <2>18. Keyed'
    BY <1>1, <2>1, <2>2, <2>17 DEF ChargeInv, Keyed, Payable
  <2>19. OneLink'
    BY <1>1 DEF ChargeInv, OneLink, LinksApart
  <2>20. OpenKeyed'
    BY <1>1, <2>1, <2>2 DEF ChargeInv, OpenKeyed, FirstUnseen
  <2> QED
    BY <2>5, <2>6, <2>7, <2>13, <2>14, <2>15, <2>16, <2>18, <2>19, <2>20 DEF ChargeInv
<1> QED
  BY <1>2, <1>3 DEF Reserve

-----------------------------------------------------------------------------
(* The post. *)

(* A request that posts for a row is its owner, or brings a link by hand: in *)
(* both cases nothing else was made that it would double.                    *)
LEMMA PostsAlone ==
    ASSUME ChargeInv, NEW c \in Calls, NEW r \in Rows, call[c].row = r, call[c].at = "post"
    PROVE  /\ row[r].key
           /\ row[r].proc # "FAILED"
           /\ call[c].via = "ASAAS" => /\ remote[r].made = 0
                                       /\ LinksApart => ~remote[r].pref
           /\ call[c].via # "ASAAS" /\ LinksApart => remote[r].made = 0
<1>1. mix.kind[c] \in {"charge", "mp", "first", "link"} /\ ~Sent(c) /\ r # None
  BY ChargeAssumption DEF ChargeInv, Control, Sent
<1>2. row[r].key
  BY <1>1 DEF ChargeInv, Ownership, Owns
<1>3. ASSUME row[r].proc = "FAILED" PROVE FALSE
  <2>1. PICK d \in Calls : Owns(d, r) /\ mix.kind[d] = "charge" /\ call[d].at = "done"
    BY <1>3 DEF ChargeInv, Processed
  <2> QED
    BY <1>1, <2>1 DEF ChargeInv, Ownership, Owns, Sent
<1>4. ASSUME call[c].via = "ASAAS" PROVE Owns(c, r) /\ mix.kind[c] \in {"charge", "first"}
  BY <1>1, <1>4 DEF ChargeInv, Control, Owns
<1>5. LinksApart => \A d, e \in Calls : ~(mix.kind[d] = "first" /\ mix.kind[e] = "link")
  BY DEF ChargeInv, MixKept, LinksApart
<1>6. ASSUME call[c].via = "ASAAS", LinksApart, remote[r].pref PROVE FALSE
  <2>1. PICK d \in Calls : /\ call[d].row = r /\ Sent(d)
                           /\ mix.kind[d] \in {"mp", "first", "link"}
    BY <1>6 DEF ChargeInv, Posted
  <2>2. CASE mix.kind[d] = "link"
    BY <1>4, <1>5, <1>6, <2>1, <2>2 DEF ChargeInv, Ownership
  <2>3. CASE mix.kind[d] # "link"
    <3>1. Owns(d, r)
      BY <2>1, <2>3 DEF Owns
    <3> QED
      BY <1>1, <1>4, <1>6, <2>1, <3>1 DEF ChargeInv, Ownership
  <2> QED
    BY <2>2, <2>3
<1>7. ASSUME call[c].via # "ASAAS", LinksApart, remote[r].made > 0 PROVE FALSE
  <2>1. PICK d \in Calls : Owns(d, r) /\ mix.kind[d] \in {"charge", "first"} /\ Sent(d)
    BY <1>7 DEF ChargeInv, Posted
  <2>2. CASE mix.kind[c] = "link"
    BY <1>5, <1>7, <2>1, <2>2 DEF ChargeInv, Ownership
  <2>3. CASE mix.kind[c] # "link"
    <3>1. Owns(c, r)
      BY <1>1, <2>3 DEF Owns
    <3> QED
      BY <1>1, <2>1, <3>1 DEF ChargeInv, Ownership
  <2> QED
    BY <2>2, <2>3
<1>8. remote[r].made \in Nat
  BY DEF ChargeInv, ChargeTypeOK
<1> QED
  BY <1>1, <1>2, <1>3, <1>4, <1>6, <1>7, <1>8, NothingPosted

(* Whatever becomes of the post, what exists belongs to a request that sent it. *)
LEMMA PostKeeps == ASSUME ChargeInv, NEW c \in Calls, Post(c) PROVE ChargeInv'
<1> DEFINE r   == call[c].row
           via == call[c].via
<1>1. /\ call[c].at = "post" /\ mix.kind[c] \in {"charge", "mp", "first", "link"}
      /\ row' = row /\ routine' = routine
  BY DEF Post, At, ChargeInv, Control
<1>2. r \in Rows /\ row[r].status # "NONE" /\ via \in Providers
  BY <1>1, HasRow DEF ChargeInv, ChargeTypeOK
<1>3. PICK step \in {"save", "undo", "unknown", "done"} :
         /\ Goes(c, step)
         /\ remote' = remote \/ (Created(r, via) /\ step # "undo")
         /\ mix' = mix \/ (Faulty /\ Fault)
  <2>1. OnError(mix.kind[c]) \in {"unknown", "done"}
    BY DEF OnError
  <2> QED
    BY <2>1 DEF Post
<1>4. /\ call' \in [Calls -> CallType] /\ Alone(c) /\ call'[c].at = step
      /\ call'[c].row = call[c].row /\ call'[c].via = call[c].via
  BY <1>3, GoesOn DEF ChargeInv, Steps
<1>5. MixStays /\ mix' \in [kind : [Calls -> Kinds], faults : Nat, events : BOOLEAN]
  BY <1>3, FaultCounts DEF MixStays, ChargeInv, ChargeTypeOK
<1>6. MovesOn(c) /\ RowsKept
  BY <1>1, <1>2, <1>4, ChargeAssumption, MovesKeepsRows DEF MovesOn, Sent
<1>7. CASE remote' = remote
  <2>1. ChargeTypeOK'
    BY <1>1, <1>4, <1>5, <1>7 DEF ChargeInv, ChargeTypeOK, CallType
  <2>2. RemoteShrinks
    BY <1>7 DEF RemoteShrinks
  <2> QED
    BY <1>1, <1>5, <1>6, <2>1, <2>2, ControlStays, RowsStay DEF ChargeInv
<1>8. CASE Created(r, via) /\ step # "undo"
  <2>1. /\ remote' \in [Rows -> [made : Nat, live : Nat, pref : BOOLEAN]]
        /\ \A s \in Rows \ {r} : remote'[s] = remote[s]
        /\ via = "ASAAS" => /\ remote'[r].made = remote[r].made + 1
                            /\ remote'[r].pref = remote[r].pref
        /\ via # "ASAAS" => /\ remote'[r].made = remote[r].made
                            /\ remote'[r].live = remote[r].live
                            /\ remote'[r].pref
    BY <1>2, <1>8, CreatedOne DEF ChargeInv
  <2>2. ChargeTypeOK'
    BY <1>1, <1>4, <1>5, <2>1 DEF ChargeInv, ChargeTypeOK, CallType
  <2>3. MixKept'
    BY <1>5 DEF ChargeInv, MixKept, MixStays
  <2>4. Control'
    BY <1>5, <1>6 DEF ChargeInv, Control, MixStays, MovesOn, Alone
  <2>5. /\ row[r].key /\ row[r].proc # "FAILED"
        /\ via = "ASAAS" => /\ remote[r].made = 0
                            /\ LinksApart => ~remote[r].pref
        /\ via # "ASAAS" /\ LinksApart => remote[r].made = 0
    BY <1>1, <1>2, PostsAlone
  <2>6. remote[r].made \in Nat
    BY <1>2 DEF ChargeInv, ChargeTypeOK
  <2>7. Unreserved'
    <3>1. ASSUME NEW s \in Rows, row[s].status = "NONE"
          PROVE  row[s] = NoRow /\ remote'[s].made = 0 /\ remote'[s].live = 0 /\ ~remote'[s].pref
      BY <1>2, <2>1, <3>1 DEF ChargeInv, Unreserved
    <3> QED
      BY <1>1, <1>6, <3>1 DEF ChargeInv, Unreserved, RowsKept
  <2>8. Ownership'
    BY <1>1, <1>5, <1>6 DEF ChargeInv, Ownership, Owns, RowsKept, MixStays
  <2>9. \A d \in Calls, s \in Rows : Owns(d, s)' <=> Owns(d, s)
    BY <1>5, <1>6 DEF Owns, RowsKept, MixStays
  <2>10. Processed'
    <3>1. \A s \in Rows : row[s].proc = "FAILED" => remote'[s] = remote[s]
      BY <2>1, <2>5
    <3> QED
      BY <1>1, <1>5, <1>6, <2>9, <3>1 DEF ChargeInv, Processed, RowsKept, MixStays
  <2>11. Sent(c)' /\ \A d \in Calls : Sent(d) => Sent(d)'
    BY <1>4, <1>6, <1>8 DEF MovesOn, Sent, Alone
  <2>12. /\ via = "ASAAS" => Owns(c, r) /\ mix.kind[c] \in {"charge", "first"}
         /\ via # "ASAAS" => mix.kind[c] \in {"mp", "first", "link"}
    BY <1>1, <1>2, ChargeAssumption DEF ChargeInv, Control, Owns
  <2>13. Posted'
    <3> SUFFICES ASSUME NEW s \in Rows
                 PROVE  /\ remote'[s].made = 0 => remote'[s].live = 0
                        /\ remote'[s].made > 0 =>
                              \E d \in Calls : /\ Owns(d, s)' /\ Sent(d)'
                                               /\ mix'.kind[d] \in {"charge", "first"}
                        /\ remote'[s].pref =>
                              \E d \in Calls : /\ call'[d].row = s /\ Sent(d)'
                                               /\ mix'.kind[d] \in {"mp", "first", "link"}
      BY DEF Posted
    <3>1. \/ remote'[s].made = remote[s].made /\ remote'[s].live = remote[s].live
          \/ s = r /\ via = "ASAAS" /\ remote'[s].made # 0
      BY <2>1, <2>6
    <3>2. ASSUME remote'[s].made > 0
          PROVE  \E d \in Calls : /\ Owns(d, s) /\ Sent(d)'
                                  /\ mix.kind[d] \in {"charge", "first"}
      BY <2>11, <2>12, <3>1, <3>2 DEF ChargeInv, Posted
    <3>3. ASSUME remote'[s].pref
          PROVE  \E d \in Calls : /\ call[d].row = s /\ Sent(d)'
                                  /\ mix.kind[d] \in {"mp", "first", "link"}
      <4>1. remote[s].pref \/ (s = r /\ via # "ASAAS")
        BY <2>1, <3>3
      <4> QED
        BY <2>11, <2>12, <4>1 DEF ChargeInv, Posted
    <3>4. remote'[s].made = 0 => remote'[s].live = 0
      BY <3>1 DEF ChargeInv, Posted
    <3> QED
      BY <1>5, <1>6, <2>9, <3>2, <3>3, <3>4 DEF MixStays, RowsKept
  <2>14. Keyed'
    <3>1. \A s \in Rows : Payable(s)' => Payable(s) \/ s = r
      BY <2>1 DEF Payable
    <3> QED
      BY <1>1, <2>5, <3>1 DEF ChargeInv, Keyed
  <2>15. OneLink'
    <3> SUFFICES ASSUME LinksApart, NEW s \in Rows
                 PROVE  remote'[s].made <= 1 /\ ~(remote'[s].live > 0 /\ remote'[s].pref)
      BY DEF OneLink, LinksApart
    <3>1. CASE s # r
      BY <2>1, <3>1 DEF ChargeInv, OneLink
    <3>2. CASE s = r /\ via = "ASAAS"
      BY <2>1, <2>5, <3>2
    <3>3. CASE s = r /\ via # "ASAAS"
      BY <2>1, <2>5, <3>3 DEF ChargeInv, Posted
    <3> QED
      BY <3>1, <3>2, <3>3
  <2>16. OpenKeyed'
    BY <1>1, <1>5 DEF ChargeInv, OpenKeyed, FirstUnseen, MixStays
  <2> QED
    BY <2>2, <2>3, <2>4, <2>7, <2>8, <2>10, <2>13, <2>14, <2>15, <2>16 DEF ChargeInv
<1> QED
  BY <1>3, <1>7, <1>8

-----------------------------------------------------------------------------
(* Repair. *)

(* The routine and the events leave the requests and the providers alone. *)
LEMMA OutsideKeeps ==
    ASSUME ChargeInv, ChargeTypeOK', call' = call, mix' = mix, remote' = remote
    PROVE  /\ MixKept' /\ Control' /\ Posted' /\ OneLink' /\ RowsKept /\ MixStays
           /\ RemoteShrinks
<1>1. MixKept' /\ Control' /\ RowsKept /\ MixStays /\ RemoteShrinks
  BY DEF ChargeInv, MixKept, Control, RowsKept, MixStays, RemoteShrinks
<1>2. Posted' /\ OneLink'
  BY DEF ChargeInv, Posted, OneLink, Owns, Sent, LinksApart
<1> QED
  BY <1>1, <1>2

(* The routine finds the charge of a row that is undecided. *)
LEMMA SearchKeeps == ASSUME ChargeInv, NEW r \in Rows, Search(r) PROVE ChargeInv'
<1>1. call' = call /\ mix' = mix /\ remote' = remote /\ row' = row /\ routine' = r
  BY DEF Search
<1>2. ChargeTypeOK'
  BY <1>1 DEF ChargeInv, ChargeTypeOK
<1>3. row[r].status # "NONE"
  BY DEF Search, ChargeInv, Unreserved
<1>4. Unreserved'
  BY <1>1, <1>3 DEF ChargeInv, Unreserved
<1>5. Ownership' /\ Processed' /\ Keyed' /\ OpenKeyed'
  BY <1>1 DEF ChargeInv, Ownership, Processed, Keyed, OpenKeyed, Owns, Payable, FirstUnseen
<1> QED
  BY <1>1, <1>2, <1>4, <1>5, OutsideKeeps DEF ChargeInv

(* A charge that is found becomes the charge of its row, which may learn its *)
(* status; only one that was unpaid or holds the key is unpaid after it.     *)
LEMMA LinkedKeeps ==
    ASSUME ChargeInv, NEW r \in Rows, row[r].status # "NONE",
           NEW new \in RowType, row' = [row EXCEPT ![r] = new],
           new.charge = r, new.proc = "LINK_READY", new.key = row[r].key, new.ref = row[r].ref,
           new.status # "NONE", new.status \in Unpaid => row[r].status \in Unpaid \/ row[r].key,
           call' = call, mix' = mix, remote' = remote, routine' \in {routine, None}
    PROVE  ChargeInv'
<1>1. /\ row' \in [Rows -> RowType]
      /\ row'[r] = new /\ \A s \in Rows \ {r} : row'[s] = row[s]
  BY DEF ChargeInv, ChargeTypeOK
<1>2. ChargeTypeOK'
  BY <1>1 DEF ChargeInv, ChargeTypeOK
<1>3. WritesWell(r)
  BY <1>1, ChargeAssumption DEF WritesWell
<1> QED
  BY <1>2, <1>3, OutsideKeeps, RowWritten DEF ChargeInv

(* The routine writes what it found. *)
LEMMA LinkKeeps == ASSUME ChargeInv, Link PROVE ChargeInv'
<1>1. routine \in Rows /\ row[routine].status # "NONE"
  BY DEF Link, ChargeInv, ChargeTypeOK, Unreserved
<1>2. /\ row' = [row EXCEPT ![routine] =
                    [row[routine] EXCEPT !.charge = routine, !.proc = "LINK_READY"]]
      /\ call' = call /\ mix' = mix /\ remote' = remote /\ routine' = None
  BY DEF Link
<1> DEFINE new == [row[routine] EXCEPT !.charge = routine, !.proc = "LINK_READY"]
<1>3. row[routine] \in RowType
  BY <1>1 DEF ChargeInv, ChargeTypeOK
<1>4. /\ new \in RowType /\ new.charge = routine /\ new.proc = "LINK_READY"
      /\ new.status = row[routine].status /\ new.key = row[routine].key
      /\ new.ref = row[routine].ref
  BY <1>1, <1>3 DEF RowType, Processing
<1>5. row' = [row EXCEPT ![routine] = new]
  BY <1>2
<1> HIDE DEF new
<1> QED
  BY <1>1, <1>2, <1>4, <1>5, LinkedKeeps

(* An event: the row its reference names takes the charge, and has the key   *)
(* as the charge is live; otherwise a new row without a key does, which only *)
(* a first invoice can bring about.                                          *)
LEMMA EventKeeps == ASSUME ChargeInv, NEW r \in Rows, Event(r) PROVE ChargeInv'
<1>1. call' = call /\ mix' = mix /\ remote' = remote /\ routine' = routine /\ mix.events
  BY DEF Event
<1>2. ASSUME NEW s \in Told(r),
             row' = [row EXCEPT ![r] = [row[r] EXCEPT !.status = s, !.charge = r,
                                                     !.proc = "LINK_READY"]]
      PROVE  ChargeInv'
  <2> DEFINE new == [row[r] EXCEPT !.status = s, !.charge = r, !.proc = "LINK_READY"]
  <2>1. row[r] \in RowType /\ s \in {"OPEN", "OVERDUE", "PAID"}
    BY DEF ChargeInv, ChargeTypeOK, Told
  <2>2. /\ new \in RowType /\ new.charge = r /\ new.proc = "LINK_READY" /\ new.status = s
        /\ new.key = row[r].key /\ new.ref = row[r].ref
    BY <2>1 DEF RowType, Processing
  <2>3. remote[r].live > 0 /\ remote[r].live # 0
    <3>1. remote[r].live \in Nat
      BY DEF ChargeInv, ChargeTypeOK
    <3>2. remote[r].live > 0
      BY DEF Event
    <3> QED
      BY <3>1, <3>2
  <2>4. row[r].key /\ row[r].status # "NONE"
    BY <2>3 DEF ChargeInv, Keyed, Unreserved, Payable
  <2>5. row' = [row EXCEPT ![r] = new]
    BY <1>2
  <2> HIDE DEF new
  <2> QED
    BY <1>1, <2>1, <2>2, <2>4, <2>5, LinkedKeeps
<1>3. ASSUME row[r].ref # "inv", NEW s \in Rows, row[s] = NoRow,
             NEW told \in {"OPEN", "OVERDUE", "PAID"},
             row' = [row EXCEPT ![s] = [NoRow EXCEPT !.status = told, !.charge = r,
                                                     !.proc = "LINK_READY"]]
      PROVE  ChargeInv'
  <2> DEFINE new == [NoRow EXCEPT !.status = told, !.charge = r, !.proc = "LINK_READY"]
  <2>1. /\ new \in RowType /\ new.status = told /\ new.charge = r /\ ~new.key
        /\ new.proc = "LINK_READY" /\ new.ref = "inv"
    BY DEF NoRow, RowType, Processing, Providers
  <2> HIDE DEF new
  <2>2. row' = [row EXCEPT ![s] = new]
    BY <1>3 DEF new
  <2>3. /\ row' \in [Rows -> RowType]
        /\ row'[s] = new /\ \A t \in Rows \ {s} : row'[t] = row[t]
    BY <2>1, <2>2 DEF ChargeInv, ChargeTypeOK
  <2>4. ChargeTypeOK'
    BY <1>1, <2>3 DEF ChargeInv, ChargeTypeOK
  <2>5. row[s].status = "NONE" /\ ~row[s].key
    BY <1>3 DEF NoRow
  <2>6. \A c \in Calls : call[c].row # s
    BY <2>5, ChargeAssumption DEF ChargeInv, Unreserved
  <2>7. Unreserved'
    <3>1. ASSUME NEW t \in Rows, row'[t].status = "NONE"
          PROVE  row'[t] = NoRow /\ remote'[t].made = 0 /\ remote'[t].live = 0 /\ ~remote'[t].pref
      BY <1>1, <2>1, <2>3, <3>1 DEF ChargeInv, Unreserved
    <3>2. ASSUME NEW t \in Rows, row[t].status # "NONE" PROVE row'[t].status # "NONE"
      BY <2>1, <2>3, <3>2
    <3>3. /\ \A c \in Calls : call'[c].row # None => row'[call'[c].row].status # "NONE"
          /\ routine' # None => row'[routine'].status # "NONE"
      BY <1>1, <3>2 DEF ChargeInv, Unreserved, ChargeTypeOK
    <3> QED
      BY <3>1, <3>3 DEF Unreserved
  <2>8. \A c \in Calls, t \in Rows : (Owns(c, t)' <=> Owns(c, t)) /\ ~Owns(c, s)
    BY <1>1, <2>6 DEF Owns
  <2>9. Ownership'
    BY <1>1, <2>3, <2>6, <2>8 DEF ChargeInv, Ownership
  <2>10. Processed'
    <3> SUFFICES ASSUME NEW t \in Rows
                 PROVE  /\ row'[t].proc = "LINK_READY" => row'[t].charge # None \/ row'[t].pref
                        /\ row'[t].proc = "LOCAL" /\ row'[t].status # "NONE" =>
                              /\ row'[t].key
                              /\ \A d \in Calls : Owns(d, t)' => mix'.kind[d] \notin {"charge", "mp"}
                        /\ row'[t].proc = "FAILED" =>
                              /\ row'[t].status = "CANCELED"
                              /\ remote'[t].made = 0 /\ ~remote'[t].pref
                              /\ \E d \in Calls : /\ Owns(d, t)' /\ mix'.kind[d] = "charge"
                                                  /\ call'[d].at = "done"
      BY DEF Processed
    <3>1. CASE t = s
      BY <2>1, <2>3, <3>1, ChargeAssumption
    <3>2. CASE t # s
      BY <1>1, <2>3, <2>8, <3>2 DEF ChargeInv, Processed
    <3> QED
      BY <3>1, <3>2
  <2>11. Keyed'
    BY <1>1, <2>1, <2>3, <2>5 DEF ChargeInv, Keyed, Payable
  <2>12. ~FirstUnseen
    BY <1>1, <1>3 DEF ChargeInv, OpenKeyed, MixKept, FirstUnseen
  <2>13. OpenKeyed'
    BY <1>1, <2>1, <2>3, <2>12 DEF ChargeInv, OpenKeyed, FirstUnseen
  <2> QED
    BY <1>1, <2>4, <2>7, <2>9, <2>10, <2>11, <2>13, OutsideKeeps DEF ChargeInv
<1> QED
  BY <1>2, <1>3 DEF Event

-----------------------------------------------------------------------------
(* The theorems. *)

(* Before any request, all rows are empty. *)
LEMMA ChargeInit == Init => ChargeInv
<1> SUFFICES ASSUME Init PROVE ChargeInv
  OBVIOUS
<1>1. NoRow \in RowType
  BY DEF NoRow, RowType, Processing, Providers
<1>2. ChargeTypeOK
  <2>1. row \in [Rows -> RowType] /\ routine \in Rows \cup {None}
    BY <1>1 DEF Init
  <2>2. remote \in [Rows -> [made : Nat, live : Nat, pref : BOOLEAN]]
    BY DEF Init
  <2>3. call \in [Calls -> [at : Steps, row : Rows \cup {None}, via : Providers, seen : RowType]]
    BY <1>1 DEF Init, Steps, Providers
  <2>4. mix \in [kind : [Calls -> Kinds], faults : Nat, events : BOOLEAN]
    BY ChargeAssumption DEF Init
  <2> QED
    BY <2>1, <2>2, <2>3, <2>4 DEF ChargeTypeOK
<1>3. /\ \A r \in Rows : row[r] = NoRow /\ remote[r] = [made |-> 0, live |-> 0, pref |-> FALSE]
      /\ \A c \in Calls : call[c].at = "start" /\ call[c].row = None /\ call[c].via = "ASAAS"
      /\ routine = None /\ mix \in Mixes
  BY DEF Init
<1>4. MixKept /\ Control
  BY <1>3 DEF MixKept, Control
<1>5. Unreserved /\ Ownership /\ Processed
  <2>1. /\ \A r \in Rows : /\ row[r].status = "NONE" /\ row[r].proc = "LOCAL"
                            /\ remote[r].made = 0 /\ remote[r].live = 0 /\ ~remote[r].pref
        /\ \A c \in Calls, r \in Rows : call[c].row # r /\ ~Owns(c, r)
    BY <1>3, ChargeAssumption DEF NoRow, Owns
  <2> QED
    BY <1>3, <2>1 DEF Unreserved, Ownership, Processed
<1>6. Posted /\ Keyed /\ OneLink /\ OpenKeyed
  BY <1>3 DEF Posted, Keyed, OneLink, OpenKeyed, NoRow, Payable, Unpaid
<1> QED
  BY <1>2, <1>4, <1>5, <1>6 DEF ChargeInv

(* Every step keeps the invariant. *)
LEMMA ChargeStep == ChargeInv /\ [Next]_chargeVars => ChargeInv'
<1> SUFFICES ASSUME ChargeInv, [Next]_chargeVars PROVE ChargeInv'
  OBVIOUS
<1>1. ASSUME NEW c \in Calls, Handle(c) PROVE ChargeInv'
  BY <1>1, LookKeeps, ReserveKeeps, AttachKeeps, ClaimKeeps, ReleaseKeeps, PostKeeps,
     SaveKeeps, UndoKeeps, UnknownKeeps, ManualLinkKeeps, RemoveKeeps, MpReleaseKeeps,
     DeleteKeeps, CancelKeeps DEF Handle
<1>2. ASSUME NEW c \in Calls, Die(c) PROVE ChargeInv'
  BY <1>2, DieKeeps
<1>3. ASSUME NEW r \in Rows, Search(r) \/ Event(r) PROVE ChargeInv'
  BY <1>3, SearchKeeps, EventKeeps
<1>4. CASE Link
  BY <1>4, LinkKeeps
<1>5. CASE UNCHANGED chargeVars
  BY <1>5 DEF chargeVars, ChargeInv, ChargeTypeOK, MixKept, Control, Unreserved, Ownership,
     Processed, Posted, Keyed, OneLink, OpenKeyed, Owns, Sent, Payable, LinksApart, FirstUnseen
<1> QED
  BY <1>1, <1>2, <1>3, <1>4, <1>5 DEF Next

(* So it holds in every reachable state. *)
LEMMA ChargeInvariant == ChargeSpec => []ChargeInv
  BY ChargeInit, ChargeStep, PTL DEF ChargeSpec

(* The rows, the providers and the requests keep their types, for any        *)
(* numbers of them.                                                          *)
THEOREM ChargeTypeCorrect == ChargeSpec => []ChargeTypeOK
<1>1. ChargeInv => ChargeTypeOK
  BY DEF ChargeInv
<1> QED
  BY <1>1, ChargeInvariant, PTL

(* An invoice is undone, and its key given back, only when nothing was       *)
(* created at a provider (platform-finance.service.ts:1388).                 *)
THEOREM UndoneOnlyUncharged == ChargeSpec => []RefusedIsUncharged
<1>1. ChargeInv => RefusedIsUncharged
  BY DEF ChargeInv, Processed, RefusedIsUncharged
<1> QED
  BY <1>1, ChargeInvariant, PTL

(* As long as nobody asks for a link by hand while the first invoice gets    *)
(* its own, a debt has one payable link (platform-finance.service.ts:237).   *)
THEOREM OneLinkForADebt == ASSUME LinksApart PROVE ChargeSpec => []OnePayableLink
<1>1. ChargeInv => OnePayableLink
  BY DEF ChargeInv, OneLink, Keyed, OnePayableLink
<1> QED
  BY <1>1, ChargeInvariant, PTL

(* As long as no event comes for the charge of a first invoice, a debt has   *)
(* one open invoice (trial-conversion.service.ts:33).                        *)
THEOREM OneInvoiceForADebt == ASSUME FirstUnseen PROVE ChargeSpec => []OneOpenInvoice
<1>1. ChargeInv => OneOpenInvoice
  BY DEF ChargeInv, OpenKeyed, Keyed, OneOpenInvoice
<1> QED
  BY <1>1, ChargeInvariant, PTL
=============================================================================
