---------------------------- MODULE SupportRefund ----------------------------
(***************************************************************************)
(* Refund tickets and their approval, on top of the refund service:        *)
(*   apps/api/src/modules/support/support-refund.service.ts                *)
(*   apps/api/src/modules/support/support-refund.policy.ts                 *)
(*                                                                         *)
(* A customer's ticket is approved by one person, or by two when its value *)
(* is above a threshold.  The approval claims the ticket with a            *)
(* conditional update and calls PaymentRefundService.request with the      *)
(* ticket's id as the key.  The ticket follows the refund through the      *)
(* listener registered with onSettled.  Here every key is a ticket.        *)
(***************************************************************************)
EXTENDS PaymentRefund

CONSTANTS
    Approvers,    \* DEV or CEO users, none of them the author of a ticket
    DualAbove     \* REFUND_DUAL_APPROVAL_ABOVE

Nobody == "nobody"
NoCall == [ticket |-> "none"]

ASSUME SupportAssumption ==
    /\ Nobody \notin Approvers
    /\ "none" \notin Keys
    /\ DualAbove \in Nat

VARIABLES
    ticket,     \* rows of SupportTicket
    call,       \* what an approve call has read and not acted upon yet
    dispatch    \* where the dispatch of a ticket to the refund service stands

supportVars == <<ticket, call, dispatch>>
allVars == <<vars, supportVars>>

TicketStatus == {"NONE", "DRAFT", "REQUESTED", "AWAITING_SECOND_APPROVAL",
                 "PROCESSING", "CONFIRMED", "FAILED", "REJECTED"}
Waiting == {"REQUESTED", "AWAITING_SECOND_APPROVAL"}
DispatchAt == {"idle", "announce", "request", "calling", "link", "settle"}

NoDispatch == [at |-> "idle", from |-> "NONE", got |-> "NONE"]
Person == Approvers \cup {Nobody}

SupportInit ==
    /\ Init
    /\ ticket = [k \in Keys |-> [status |-> "NONE", amount |-> 0, linked |-> FALSE,
                                 first |-> Nobody, second |-> Nobody]]
    /\ call = [a \in Approvers |-> NoCall]
    /\ dispatch = [k \in Keys |-> NoDispatch]

-----------------------------------------------------------------------------
(* createRequest(): reads the balance, applies the policy, then creates. *)

(* Tickets whose value is promised but not yet held by an operation. *)
Promised(i) ==
    {k \in Keys : /\ InvoiceOf[k] = i
                  /\ \/ ticket[k].status \in Waiting
                     \/ ticket[k].status = "PROCESSING" /\ ~ticket[k].linked}

AvailableForTicket(i) ==
    LET held     == [k \in Keys |-> op[k].amount]
        promised == [k \in Keys |-> ticket[k].amount]
    IN  Amount[i] - invoice[i].refunded - SumFunctionOnSet(held, ActiveOps(i))
                  - SumFunctionOnSet(promised, Promised(i))

(* Inside the window a total refund is worth what is available; a partial    *)
(* one what it asks for.  Outside of it the policy only refuses more.        *)
PolicyAmount(k, available) ==
    IF Ask[k] = 0 THEN available ELSE Ask[k]

ReadBalance(k) ==
    LET available == AvailableForTicket(InvoiceOf[k]) IN
    /\ ticket[k].status = "NONE"
    /\ invoice[InvoiceOf[k]].status = "PAID"
    /\ available > 0
    /\ PolicyAmount(k, available) <= available
    /\ ticket' = [ticket EXCEPT ![k].status = "DRAFT",
                                ![k].amount = PolicyAmount(k, available)]
    /\ UNCHANGED <<vars, call, dispatch>>

CreateTicket(k) ==
    /\ ticket[k].status = "DRAFT"
    /\ ticket' = [ticket EXCEPT ![k].status = "REQUESTED"]
    /\ UNCHANGED <<vars, call, dispatch>>

-----------------------------------------------------------------------------
(* approve(): the ticket is read, later a conditional update claims it. *)

LoadTicket(a, k) ==
    /\ call[a] = NoCall
    /\ ticket[k].status \in Waiting
    /\ call' = [call EXCEPT ![a] = [ticket |-> k, status |-> ticket[k].status,
                                    first |-> ticket[k].first]]
    /\ UNCHANGED <<vars, ticket, dispatch>>

Dual(k) == ticket[k].amount > DualAbove

(* where: { id, refundStatus: <the status that was read> } *)
Claims(a) == ticket[call[a].ticket].status = call[a].status

FirstApproval(a) ==
    LET k == call[a].ticket IN
    /\ call[a].status = "REQUESTED"
    /\ Dual(k)
    /\ ticket' = IF Claims(a)
                 THEN [ticket EXCEPT ![k].status = "AWAITING_SECOND_APPROVAL", ![k].first = a]
                 ELSE ticket
    /\ UNCHANGED dispatch

StartDispatch(k, from) ==
    dispatch' = [dispatch EXCEPT ![k] = [at |-> "announce", from |-> from, got |-> "NONE"]]

OnlyApproval(a) ==
    LET k == call[a].ticket IN
    /\ call[a].status = "REQUESTED"
    /\ ~Dual(k)
    /\ IF Claims(a)
       THEN /\ ticket' = [ticket EXCEPT ![k].status = "PROCESSING",
                             ![k].first = IF call[a].first = Nobody THEN a ELSE call[a].first]
            /\ StartDispatch(k, "REQUESTED")
       ELSE UNCHANGED <<ticket, dispatch>>

(* if (ticket.refundDecisionById === actor.sub) throw ... *)
MaySecond(a) == call[a].first # a

(* Slip: the second approval may come from anybody. *)
SecondApprovalByAnyone(a) ==
    LET k == call[a].ticket IN
    /\ call[a].status = "AWAITING_SECOND_APPROVAL"
    /\ IF Claims(a)
       THEN /\ ticket' = [ticket EXCEPT ![k].status = "PROCESSING", ![k].second = a]
            /\ StartDispatch(k, "AWAITING_SECOND_APPROVAL")
       ELSE UNCHANGED <<ticket, dispatch>>

SecondApproval(a) ==
    LET k == call[a].ticket IN
    /\ call[a].status = "AWAITING_SECOND_APPROVAL"
    /\ IF MaySecond(a) /\ Claims(a) /\ ticket[k].first # a
       THEN /\ ticket' = [ticket EXCEPT ![k].status = "PROCESSING", ![k].second = a]
            /\ StartDispatch(k, "AWAITING_SECOND_APPROVAL")
       ELSE UNCHANGED <<ticket, dispatch>>

Approve(a) ==
    /\ call[a] # NoCall
    /\ FirstApproval(a) \/ OnlyApproval(a) \/ SecondApproval(a)
    /\ call' = [call EXCEPT ![a] = NoCall]
    /\ UNCHANGED vars

(* Slip: a ticket can be rejected while it is processed. *)
RejectAnyOpen(k) ==
    /\ ticket[k].status \in Waiting \cup {"PROCESSING"}
    /\ ticket' = [ticket EXCEPT ![k].status = "REJECTED"]
    /\ UNCHANGED <<vars, call, dispatch>>

Reject(k) ==
    /\ ticket[k].status \in Waiting
    /\ ticket' = [ticket EXCEPT ![k].status = "REJECTED"]
    /\ UNCHANGED <<vars, call, dispatch>>

-----------------------------------------------------------------------------
(* dispatch(): the claimed ticket is sent to the refund service. *)

(* Slip: the catch block leaves the ticket alone. *)
RevertedNever(k) == ticket

(* The catch block: an unlinked ticket goes back to where it was. *)
Reverted(k) ==
    LET from == dispatch[k].from IN
    IF ticket[k].status # "PROCESSING" \/ ticket[k].linked THEN ticket
    ELSE [ticket EXCEPT ![k].status = from,
                        ![k].second = IF from = "REQUESTED" THEN @ ELSE Nobody]

Revert(k) ==
    /\ ticket' = Reverted(k)
    /\ dispatch' = [dispatch EXCEPT ![k] = NoDispatch]

(* Slip: only a ticket that already has its paymentRefundId is settled. *)
SettledIfLinked(k, status) ==
    IF ticket[k].status = "PROCESSING" /\ ticket[k].linked
    THEN [ticket EXCEPT ![k].status = status] ELSE ticket

(* settle(): where: { refundStatus: { in: ['PROCESSING', 'APPROVED'] } } *)
Settled(k, status) ==
    IF ticket[k].status = "PROCESSING" THEN [ticket EXCEPT ![k].status = status] ELSE ticket

(* The history event and the notice between the claim and the dispatch; a    *)
(* failure there is outside of the try block.                                *)
Announce(k) ==
    /\ dispatch[k].at = "announce"
    /\ \/ dispatch' = [dispatch EXCEPT ![k].at = "request"]
       \/ (Faults /\ dispatch' = [dispatch EXCEPT ![k] = NoDispatch])
    /\ UNCHANGED <<vars, ticket, call>>

DispatchRequest(k) ==
    /\ dispatch[k].at = "request"
    /\ Request(k)
    /\ dispatch' = [dispatch EXCEPT ![k].at = "calling"]
    /\ UNCHANGED <<ticket, call>>

(* request() refuses before it reserves anything. *)
RequestRefused(k) ==
    /\ dispatch[k].at = "request"
    /\ op[k].status = "NONE"
    /\ \A amount \in 1..Amount[InvoiceOf[k]] : ~MayReserve(k, amount)
    /\ Revert(k)
    /\ UNCHANGED <<vars, call>>

(* request() returns the operation, or throws. *)
RequestReturns(k) ==
    /\ dispatch[k].at = "calling"
    /\ TakeAnswer(k)
    /\ IF pc[k] = "returned"
       THEN /\ dispatch' = [dispatch EXCEPT ![k].at = "link", ![k].got = op[k].status]
            /\ UNCHANGED ticket
       ELSE Revert(k)
    /\ UNCHANGED call

Link(k) ==
    /\ dispatch[k].at = "link"
    /\ \/ /\ ticket' = [ticket EXCEPT ![k].linked = TRUE]
          /\ dispatch' = [dispatch EXCEPT ![k].at = "settle"]
       \/ Faults /\ Revert(k)
    /\ UNCHANGED <<vars, call>>

(* The status the operation had when request() returned is applied.          *)
SettleDispatch(k) ==
    /\ dispatch[k].at = "settle"
    /\ dispatch' = [dispatch EXCEPT ![k] = NoDispatch]
    /\ ticket' = IF dispatch[k].got \in {"CONFIRMED", "FAILED"}
                 THEN Settled(k, dispatch[k].got) ELSE ticket
    /\ UNCHANGED <<vars, call>>

(* handleSettled(): the listener; its errors are logged and forgotten.       *)
HandleSettled(p, e) ==
    /\ EmitSettled(p, e)
    /\ \/ ticket' = Settled(e.key, e.status)
       \/ Faults /\ UNCHANGED ticket
    /\ UNCHANGED <<call, dispatch>>

-----------------------------------------------------------------------------
(* A request runs inside of the dispatch that made it: they die together. *)
CrashTogether(p) ==
    /\ Crash(p) \/ (p \in Keys /\ CrashWhilePosting(p))
    /\ dispatch' = IF p \in Keys THEN [dispatch EXCEPT ![p] = NoDispatch] ELSE dispatch
    /\ UNCHANGED <<ticket, call>>

CrashDispatch(k) ==
    /\ Faults
    /\ dispatch[k].at \notin {"idle", "calling"}
    /\ dispatch' = [dispatch EXCEPT ![k] = NoDispatch]
    /\ UNCHANGED <<vars, ticket, call>>

RunDispatch(k) ==
    \/ Announce(k) \/ DispatchRequest(k) \/ RequestRefused(k) \/ RequestReturns(k)
    \/ Link(k) \/ SettleDispatch(k)

RefundStep ==
    /\ \/ \E k \in Keys : Serve(k) \/ Provide(k) \/ Age(k)
       \/ \E x \in PanelRefunds : PanelRefund(x)
       \/ \E p \in Proc : \/ \E i \in Invoices : ReadRemote(p, i)
                          \/ CommitReconcile(p)
       \/ \E i \in Invoices : Chargeback(i)
       \/ Reactivate
    /\ UNCHANGED supportVars

SupportNext ==
    \/ \E k \in Keys : ReadBalance(k) \/ CreateTicket(k) \/ Reject(k) \/ RunDispatch(k)
                       \/ CrashDispatch(k)
    \/ \E a \in Approvers : Approve(a) \/ \E k \in Keys : LoadTicket(a, k)
    \/ \E p \in Proc : CrashTogether(p) \/ \E e \in SettledEvents : HandleSettled(p, e)
    \/ RefundStep

SupportSpec == SupportInit /\ [][SupportNext]_allVars

(* As Fairness of the refund service; a dispatch that has begun runs on.     *)
(* Nobody is obliged to open or to decide a ticket.                          *)
SupportFairness ==
    /\ \A k \in Keys :
          /\ WF_allVars(RunDispatch(k))
          /\ WF_allVars(Serve(k) /\ UNCHANGED supportVars)
          /\ WF_allVars(Provide(k) /\ UNCHANGED supportVars)
          /\ SF_allVars(Age(k) /\ UNCHANGED supportVars)
    /\ \A p \in Proc :
          /\ WF_allVars(CommitReconcile(p) /\ UNCHANGED supportVars)
          /\ WF_allVars(\E e \in SettledEvents : HandleSettled(p, e))
    /\ \A p \in Reconcilers, i \in Invoices :
          SF_allVars(ReadRemote(p, i) /\ UNCHANGED supportVars)

FairSupportSpec == SupportSpec /\ SupportFairness

-----------------------------------------------------------------------------
(* Properties. *)

SupportTypeOK ==
    /\ TypeOK
    /\ ticket \in [Keys -> [status : TicketStatus, amount : Nat, linked : BOOLEAN,
                            first : Person, second : Person]]
    /\ call \in [Approvers -> {NoCall} \cup
                    [ticket : Keys, status : Waiting, first : Person]]
    /\ dispatch \in [Keys -> [at : DispatchAt, from : {"NONE"} \cup Waiting,
                              got : OpStatus]]

(* What the customer is told is what happened to the money: a confirmed      *)
(* ticket was paid out, a failed or rejected one was not and will not be.    *)
TicketTellsTheTruth ==
    \A k \in Keys :
        /\ ticket[k].status = "CONFIRMED" => remote[k] = "done"
        /\ ticket[k].status \in {"FAILED", "REJECTED"} => ~Committed(k)

(* A refund above the threshold is reserved only while its ticket bears the   *)
(* approval of two different people, however their calls interleave and fail. *)
TwoPeopleApproveLargeRefunds ==
    [][\A k \in Keys :
          op[k].status = "NONE" /\ op'[k].status # "NONE" /\ Dual(k) =>
              /\ Nobody \notin {ticket[k].first, ticket[k].second}
              /\ ticket[k].first # ticket[k].second]_allVars

(* "valor em R$ acima do qual o reembolso exige SEGUNDA aprovacao": the same  *)
(* of the money that is reserved, not of the value written on the ticket.     *)
LargePaymentsNeedTwoPeople ==
    [][\A k \in Keys :
          op[k].status = "NONE" /\ op'[k].status # "NONE" /\ op'[k].amount > DualAbove =>
              Nobody \notin {ticket[k].first, ticket[k].second}]_allVars

(* The person who opened the ticket learns the outcome of the refund. *)
RefundReachesTicket ==
    \A k \in Keys : op[k].status \in {"CONFIRMED", "FAILED"} ~>
                       ticket[k].status \in {"CONFIRMED", "FAILED"}

(* An approved ticket does not stay in processing. *)
ApprovedTicketIsDecided ==
    \A k \in Keys : ticket[k].status = "PROCESSING" ~> ticket[k].status # "PROCESSING"
=============================================================================
