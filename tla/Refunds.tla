------------------------------- MODULE Refunds -------------------------------
(***************************************************************************)
(* The refunds of one payment: RefundService (requestRefund, processRefund,*)
(* processProviderRefund), AutoRefundJob, RefundProcessorJob and the       *)
(* charge.refunded webhook.                                                *)
(*                                                                         *)
(* A refund is requested in one call, taken and paid out by the processor  *)
(* job in a later one, and reported by the provider in a webhook that may  *)
(* come before, after or without our own record of it.  The job reads the  *)
(* refund and the payment, marks the refund PROCESSING by primary key,     *)
(* asks the provider, and then records the result in a transaction: five   *)
(* points at which another run of the job, a webhook or a crash comes in.  *)
(*                                                                         *)
(* Two refunds of different payments share nothing.                        *)
(***************************************************************************)
EXTENDS Integers, FiniteSets

CONSTANTS
    Rows,        \* primary keys for rows of the table Refund
    Workers,     \* requests, webhook deliveries and job runs at once
    Paid,        \* Payment.amount, in the smallest amount that is refunded
    MaxCrashes   \* bound: crashes of the server in a behaviour

ASSUME RefundAssumption ==
    /\ Paid \in Nat \ {0}
    /\ MaxCrashes \in Nat
    /\ IsFiniteSet(Rows)

VARIABLES
    payment,    \* Payment.status
    refund,     \* the table Refund
    paidBack,   \* what the provider has paid back, for whatever reason
    payouts,    \* of that, what it paid for each row of ours
    notices,    \* charge.refunded: amount_refunded of the webhooks sent
    call,       \* the call each worker has open, and what it read
    twice,      \* history: rows marked PROCESSING after a stale read
    overlap,    \* history: a webhook or a record followed a stale read
    crashes

vars == <<payment, refund, paidBack, payouts, notices, call, twice, overlap, crashes>>

PaymentState == {"PAID", "PARTIALLY_REFUNDED", "REFUNDED"}
RefundStatus == {"REQUESTED", "PROCESSING", "COMPLETED", "FAILED"}

\* PaymentStateMachine, for the payments that can be refunded.
CanTransition(from, to) ==
    /\ from \in {"PAID", "PARTIALLY_REFUNDED"}
    /\ to \in {"PARTIALLY_REFUNDED", "REFUNDED"}

\* RefundStateMachine.
refundTransitions ==
    {<<"REQUESTED", "PROCESSING">>, <<"PROCESSING", "COMPLETED">>, <<"PROCESSING", "FAILED">>}

\* ref is providerRef: of the provider's refund, or of its charge.
NoRow == [status |-> "NONE", amount |-> 0, ref |-> "none", review |-> FALSE]
Row == [status : RefundStatus, amount : 1..Paid, ref : {"none", "refund", "charge"},
        review : BOOLEAN]

Idle == [op |-> "idle"]

\* Refunds with status COMPLETED, and SUM(amount) over them: one element for
\* each unit of money.
Completed(t) == {r \in Rows : t[r].status = "COMPLETED"}
Units(t, S) == {u \in S \X (1..Paid) : u[2] <= t[u[1]].amount}
Total(t) == Cardinality(Units(t, Completed(t)))

FromCharge == {r \in Rows : refund[r].ref = "charge"}

Open(w, c) ==
    /\ call[w] = Idle
    /\ call' = [call EXCEPT ![w] = c]

End(w) == call' = [call EXCEPT ![w] = Idle]
Advance(w, op) == call' = [call EXCEPT ![w].op = op]

OnlyCall == UNCHANGED <<payment, refund, paidBack, payouts, notices, twice, overlap, crashes>>

-----------------------------------------------------------------------------
(* Requesting a refund.                                                    *)

\* requestRefund counts COMPLETED refunds only, not those still on their way.
RequestRead(w, amount) ==
    /\ payment = "PAID"
    /\ amount <= Paid - Total(refund)
    /\ Open(w, [op |-> "request", amount |-> amount])
    /\ OnlyCall

\* AutoRefundJob looks for any refund alive, then requests the whole rest.
AutoRefundRead(w) ==
    /\ payment = "PAID"
    /\ \A r \in Rows : refund[r].status \notin {"REQUESTED", "PROCESSING", "COMPLETED"}
    /\ Open(w, [op |-> "auto"])
    /\ OnlyCall

AutoRefundRequest(w) ==
    /\ call[w].op = "auto"
    /\ IF payment = "PAID" /\ Paid > Total(refund)
       THEN call' = [call EXCEPT ![w] = [op |-> "request", amount |-> Paid - Total(refund)]]
       ELSE End(w)
    /\ OnlyCall

\* A customer under MANUAL_REVIEW gets a row that says requiresApproval.
RequestWrite(w) ==
    /\ call[w].op = "request"
    /\ \E r \in Rows, review \in BOOLEAN :
           /\ refund[r] = NoRow
           /\ refund' = [refund EXCEPT ![r] = [status |-> "REQUESTED", ref |-> "none",
                                               amount |-> call[w].amount, review |-> review]]
    /\ End(w)
    /\ UNCHANGED <<payment, paidBack, payouts, notices, twice, overlap, crashes>>

-----------------------------------------------------------------------------
(* Processing it.                                                          *)

\* Faulty variant: failed refunds are tried again.
ProcessReadRetriesFailed(w, r) ==
    /\ refund[r].status \in {"REQUESTED", "FAILED"}
    /\ Open(w, [op |-> "take", row |-> r, sawRow |-> refund[r].status, saw |-> payment])
    /\ OnlyCall

\* Faulty variant: refunds of payments that were refunded meanwhile are left alone.
ProcessReadPaidOnly(w, r) ==
    /\ refund[r].status = "REQUESTED"
    /\ payment = "PAID"
    /\ Open(w, [op |-> "take", row |-> r, sawRow |-> refund[r].status, saw |-> payment])
    /\ OnlyCall

ProcessRead(w, r) ==
    /\ refund[r].status = "REQUESTED"
    /\ Open(w, [op |-> "take", row |-> r, sawRow |-> refund[r].status, saw |-> payment])
    /\ OnlyCall

\* Faulty variant: a status that the enum RefundStatus does not have.
ProcessTakeApproved(w) ==
    /\ call[w].op = "take"
    /\ refund' = [refund EXCEPT ![call[w].row].status = "APPROVED"]
    /\ Advance(w, "pay")
    /\ UNCHANGED <<payment, paidBack, payouts, notices, twice, overlap, crashes>>

ProcessTake(w) ==
    /\ call[w].op = "take"
    /\ LET r == call[w].row
       IN  /\ refund' = [refund EXCEPT ![r].status = "PROCESSING"]
           /\ twice' = IF refund[r].status = call[w].sawRow THEN twice ELSE twice \union {r}
    /\ Advance(w, "pay")
    /\ UNCHANGED <<payment, paidBack, payouts, notices, overlap, crashes>>

\* The provider pays back no more than the rest of the charge; its answer may
\* be lost on the way, which the caller takes for a failure.
ProviderPays(w) ==
    /\ call[w].op = "pay"
    /\ LET r == call[w].row
       IN  /\ paidBack + refund[r].amount <= Paid
           /\ paidBack' = paidBack + refund[r].amount
           /\ payouts' = [payouts EXCEPT ![r] = @ + refund[r].amount]
           /\ notices' = notices \union {paidBack'}
    /\ \E next \in {"record", "fail"} : Advance(w, next)
    /\ UNCHANGED <<payment, refund, twice, overlap, crashes>>

ProviderRefuses(w) ==
    /\ call[w].op = "pay"
    /\ Advance(w, "fail")
    /\ OnlyCall

\* Faulty variant: a refund is recorded whether or not the provider paid.
RecordRefundUnpaid(w) ==
    /\ call[w].op \in {"pay", "record"}
    /\ LET r == call[w].row
           t == [refund EXCEPT ![r].status = "COMPLETED", ![r].ref = "refund"]
           to == IF Total(t) >= Paid THEN "REFUNDED" ELSE "PARTIALLY_REFUNDED"
       IN  /\ CanTransition(call[w].saw, to)
           /\ refund' = t
           /\ payment' = to
           /\ overlap' = (overlap \/ payment # call[w].saw)
    /\ End(w)
    /\ UNCHANGED <<paidBack, payouts, notices, twice, crashes>>

\* Faulty variant: the status is computed before this refund is added.
RecordRefundOldTotal(w) ==
    /\ call[w].op = "record"
    /\ LET r == call[w].row
           t == [refund EXCEPT ![r].status = "COMPLETED", ![r].ref = "refund"]
           to == IF Total(refund) >= Paid THEN "REFUNDED" ELSE "PARTIALLY_REFUNDED"
       IN  IF CanTransition(call[w].saw, to)
           THEN /\ refund' = t
                /\ payment' = to
                /\ overlap' = (overlap \/ payment # call[w].saw)
                /\ End(w)
           ELSE /\ Advance(w, "fail")
                /\ UNCHANGED <<refund, payment, overlap>>
    /\ UNCHANGED <<paidBack, payouts, notices, twice, crashes>>

\* The transition is checked from the status read before the refund was taken;
\* when it is not allowed the transaction is undone and the refund is FAILED.
RecordRefund(w) ==
    /\ call[w].op = "record"
    /\ LET r == call[w].row
           t == [refund EXCEPT ![r].status = "COMPLETED", ![r].ref = "refund"]
           to == IF Total(t) >= Paid THEN "REFUNDED" ELSE "PARTIALLY_REFUNDED"
       IN  IF CanTransition(call[w].saw, to)
           THEN /\ refund' = t
                /\ payment' = to
                /\ overlap' = (overlap \/ payment # call[w].saw)
                /\ End(w)
           ELSE /\ Advance(w, "fail")
                /\ UNCHANGED <<refund, payment, overlap>>
    /\ UNCHANGED <<paidBack, payouts, notices, twice, crashes>>

RecordFails(w) ==
    /\ call[w].op = "record"
    /\ Advance(w, "fail")
    /\ OnlyCall

RecordFailure(w) ==
    /\ call[w].op = "fail"
    /\ refund' = [refund EXCEPT ![call[w].row].status = "FAILED"]
    /\ End(w)
    /\ UNCHANGED <<payment, paidBack, payouts, notices, twice, overlap, crashes>>

-----------------------------------------------------------------------------
(* The provider: refunds made in its dashboard, and its webhooks.          *)

DashboardRefund(amount) ==
    /\ paidBack + amount <= Paid
    /\ paidBack' = paidBack + amount
    /\ notices' = notices \union {paidBack'}
    /\ UNCHANGED <<payment, refund, payouts, call, twice, overlap, crashes>>

\* Faulty variant: no look for an earlier record of the charge.
WebhookReadAlways(w, amount) ==
    /\ amount \in notices
    /\ Open(w, [op |-> "webhook", amount |-> amount, saw |-> payment,
                known |-> FromCharge # {}])
    /\ OnlyCall

\* amount_refunded is the sum over the charge, snapshot.id the charge.
WebhookRead(w, amount) ==
    /\ amount \in notices
    /\ FromCharge = {}
    /\ Open(w, [op |-> "webhook", amount |-> amount, saw |-> payment,
                known |-> FromCharge # {}])
    /\ OnlyCall

\* When the transition is not allowed everything is undone.
WebhookWrite(w) ==
    /\ call[w].op = "webhook"
    /\ \E r \in Rows :
           LET t == [refund EXCEPT ![r] = [status |-> "COMPLETED", ref |-> "charge",
                                           amount |-> call[w].amount, review |-> FALSE]]
               to == IF Total(t) >= Paid THEN "REFUNDED" ELSE "PARTIALLY_REFUNDED"
           IN  /\ refund[r] = NoRow
               /\ IF CanTransition(call[w].saw, to)
                  THEN /\ refund' = t
                       /\ payment' = to
                       /\ overlap' = \/ overlap
                                       \/ payment # call[w].saw
                                       \/ call[w].known # (FromCharge # {})
                  ELSE UNCHANGED <<refund, payment, overlap>>
    /\ End(w)
    /\ UNCHANGED <<paidBack, payouts, notices, twice, crashes>>

\* A database error ends the call where it is.
Abort(w) ==
    /\ call[w].op \in {"request", "auto", "take", "fail", "webhook"}
    /\ End(w)
    /\ OnlyCall

Crash ==
    /\ crashes < MaxCrashes
    /\ crashes' = crashes + 1
    /\ call' = [w \in Workers |-> Idle]
    /\ UNCHANGED <<payment, refund, paidBack, payouts, notices, twice, overlap>>

-----------------------------------------------------------------------------
Init ==
    /\ payment = "PAID"
    /\ refund = [r \in Rows |-> NoRow]
    /\ paidBack = 0
    /\ payouts = [r \in Rows |-> 0]
    /\ notices = {}
    /\ call = [w \in Workers |-> Idle]
    /\ twice = {}
    /\ overlap = FALSE
    /\ crashes = 0

WorkerStep(w) ==
    \/ \E amount \in 1..Paid : RequestRead(w, amount) \/ WebhookRead(w, amount)
    \/ AutoRefundRead(w)
    \/ AutoRefundRequest(w)
    \/ RequestWrite(w)
    \/ \E r \in Rows : ProcessRead(w, r)
    \/ ProcessTake(w)
    \/ ProviderPays(w)
    \/ ProviderRefuses(w)
    \/ RecordRefund(w)
    \/ RecordFails(w)
    \/ RecordFailure(w)
    \/ WebhookWrite(w)
    \/ Abort(w)

Next ==
    \/ \E w \in Workers : WorkerStep(w)
    \/ \E amount \in 1..Paid : DashboardRefund(amount)
    \/ Crash

Spec == Init /\ [][Next]_vars

\* What an open call does next, or its end.
CallGoesOn(w) ==
    \/ AutoRefundRequest(w) \/ RequestWrite(w) \/ ProviderPays(w) \/ ProviderRefuses(w)
    \/ RecordRefund(w) \/ RecordFailure(w) \/ WebhookWrite(w) \/ Abort(w)

\* The processor job runs every ten minutes and reaches every request in turn;
\* a call that is open goes on until it ends.
Fairness ==
    /\ \A r \in Rows : SF_vars(\E w \in Workers : ProcessRead(w, r))
    /\ \A w \in Workers : SF_vars(ProcessTake(w))
    /\ \A w \in Workers : WF_vars(CallGoesOn(w))

FairSpec == Spec /\ Fairness

-----------------------------------------------------------------------------
OpenCall ==
    [op : {"request"}, amount : 1..Paid]
    \union [op : {"auto"}]
    \union [op : {"take", "pay", "record", "fail"}, row : Rows, sawRow : RefundStatus,
            saw : PaymentState]
    \union [op : {"webhook"}, amount : 1..Paid, saw : PaymentState, known : BOOLEAN]

TypeOK ==
    /\ payment \in PaymentState
    /\ refund \in [Rows -> Row \union {NoRow}]
    /\ paidBack \in 0..Paid
    /\ payouts \in [Rows -> 0..Paid]
    /\ notices \subseteq 1..Paid
    /\ call \in [Workers -> OpenCall \union {Idle}]
    /\ twice \subseteq Rows
    /\ overlap \in BOOLEAN
    /\ crashes \in Nat

\* A refund of ours that is recorded COMPLETED has been paid by the provider,
\* whatever overlaps, fails or crashes.
CompletedIsPaid ==
    \A r \in Rows :
        refund[r].status = "COMPLETED" /\ refund[r].ref = "refund" => payouts[r] >= refund[r].amount

\* The provider is asked to pay a refund once, unless two runs of the job took
\* the row together: failures, lost answers and crashes never pay it again.
PaidOnce == \A r \in Rows \ twice : payouts[r] <= refund[r].amount

\* Payment.status tells what the COMPLETED refunds add up to, unless calls
\* overlapped.
StatusMatchesTotal ==
    twice = {} /\ ~overlap =>
        payment = CASE Total(refund) = 0            -> "PAID"
                    [] Total(refund) \in 1..(Paid - 1) -> "PARTIALLY_REFUNDED"
                    [] OTHER                         -> "REFUNDED"

\* The refunds of a charge that webhooks report are recorded in one row, unless
\* two deliveries overlapped.
ChargeRecordedOnce == ~overlap => Cardinality(FromCharge) <= 1

\* A refund moves along RefundStateMachine, and its amount stays what was asked.
RefundFollowsMachine ==
    [][\A r \in Rows \ twice' :
           refund[r] # NoRow /\ refund'[r] # refund[r] =>
               /\ <<refund[r].status, refund'[r].status>> \in refundTransitions
               /\ refund'[r].amount = refund[r].amount]_vars

\* A requested refund is taken up by the job, whatever fails on the way.
RequestTaken ==
    \A r \in Rows : refund[r].status = "REQUESTED" ~> refund[r].status # "REQUESTED"

\* The refunds on record are refunds that the provider made, at least while no
\* two calls overlap.
RecordedIsPaidBack == twice = {} /\ ~overlap => Total(refund) <= paidBack

\* "Create refund marked as requiring approval": it is not paid before that.
ReviewedFirst == \A r \in Rows : refund[r].review => payouts[r] = 0
=============================================================================
