----------------------------- MODULE OrderPayment -----------------------------
(***************************************************************************)
(* The life of an order and of its one payment (Payment.orderUuid is       *)
(* unique): PaymentService, PaymentCancellationService, the cashier's      *)
(* processPayment, OrderCancellationService, OrderStatusService and the    *)
(* cron jobs that poll, retry, expire and cancel.                          *)
(*                                                                         *)
(* Each call reads the payment or the order, checks what it read against   *)
(* the transition tables, and later writes by primary key in a transaction *)
(* that does not look again.  In between come the webhooks of the payment  *)
(* provider (at least once, late, in any order), other requests and jobs.  *)
(* What a transaction did is announced on an event bus that lives in the   *)
(* memory of the process: nobody waits for its handlers, and a crash       *)
(* forgets what they had not done.                                         *)
(*                                                                         *)
(* The order's stock is reduced to one state per order; module Inventory   *)
(* has the transactions that commitForOrder and releaseForOrder are.       *)
(***************************************************************************)
EXTENDS Integers

CONSTANTS
    Orders,
    Workers,      \* requests, webhook deliveries and jobs running at once
    Poller,       \* the process of PaymentPollingReconciliationJob
    MaxRetries,   \* Payment.maxRetries
    MaxCrashes    \* bound: crashes of the server in a behaviour

ASSUME PaymentAssumption ==
    /\ Poller \notin Workers
    /\ MaxRetries \in Nat
    /\ MaxCrashes \in Nat

VARIABLES
    status,         \* Order.status
    paymentStatus,  \* Order.paymentStatus
    payment,        \* Payment.status, "NONE" while there is no row
    retries,        \* Payment.retries
    intent,         \* the provider's payment intent: where the money is
    notices,        \* webhooks the provider has sent, and may send again
    stock,          \* the reservation of the order's lines
    bus,            \* events emitted and not yet handled
    call,           \* the call each process has open, and what it read
    stale,          \* history: orders for which a write followed a stale read
    crashes

vars == <<status, paymentStatus, payment, retries, intent, notices, stock, bus,
          call, stale, crashes>>

Processes == Workers \union {Poller}

PaymentState == {"PENDING", "PAID", "COMPLETED", "FAILED", "RETRYING", "CANCELLED"}
OrderStatus == {"PENDING", "PAID", "PREPARING", "READY", "COMPLETED",
                "PAYMENT_FAILED", "CANCELLED"}

\* PaymentStateMachine, without the states of refunds and authorizations.
transitions ==
    [s \in PaymentState \union {"NONE"} |->
        CASE s = "PENDING"  -> PaymentState \ {"PENDING"}
          [] s = "RETRYING" -> {"PAID", "COMPLETED", "FAILED", "CANCELLED"}
          [] s = "FAILED"   -> {"RETRYING", "CANCELLED"}
          [] OTHER          -> {}]

CanTransition(from, to) == to \in transitions[from]

ORDER_TRANSITIONS ==
    [s \in OrderStatus |->
        CASE s = "PENDING"   -> {"PAID", "CANCELLED"}
          [] s = "PAID"      -> {"PREPARING"}
          [] s = "PREPARING" -> {"READY"}
          [] s = "READY"     -> {"COMPLETED"}
          [] OTHER           -> {}]

Idle == [op |-> "idle"]
OpenCall == [op : {"start", "cashier", "confirm", "fail", "cancelPayment", "poll",
                   "retry", "lookup", "cancelOrder"},
             order : Orders,
             saw : PaymentState \union {"NONE"} \union OrderStatus]
OpenTransition == [op : {"transition"}, order : Orders, saw : OrderStatus, to : OrderStatus]

Begin(w, op, o, saw) ==
    /\ call[w] = Idle
    /\ call' = [call EXCEPT ![w] = [op |-> op, order |-> o, saw |-> saw]]

End(w) == call' = [call EXCEPT ![w] = Idle]

ReadOnly == UNCHANGED <<status, paymentStatus, payment, retries, intent, notices,
                        stock, bus, stale, crashes>>

\* The write of a call that read `saw` finds `now`.
NoteStale(o, saw, now) == stale' = IF saw = now THEN stale ELSE stale \union {o}

Emit(e, o) == bus' = bus \union {<<e, o>>}

\* Faulty variant: the order's column is not written.
SetBothPaymentOnly(o, p, s, column) ==
    /\ payment' = [payment EXCEPT ![o] = p]
    /\ status' = [status EXCEPT ![o] = s]
    /\ UNCHANGED paymentStatus

\* Faulty variant: the column is given the payment's own state.
SetBothSameWord(o, p, s, column) ==
    /\ payment' = [payment EXCEPT ![o] = p]
    /\ status' = [status EXCEPT ![o] = s]
    /\ paymentStatus' = [paymentStatus EXCEPT ![o] = p]

\* The transaction that writes Payment.status, Order.status and
\* Order.paymentStatus together.
SetBoth(o, p, s, column) ==
    /\ payment' = [payment EXCEPT ![o] = p]
    /\ status' = [status EXCEPT ![o] = s]
    /\ paymentStatus' = [paymentStatus EXCEPT ![o] = column]

-----------------------------------------------------------------------------
(* Starting a payment.                                                     *)

StartRead(w, o) ==
    /\ payment[o] = "NONE"
    /\ Begin(w, "start", o, "NONE")
    /\ ReadOnly

\* The intent is created first; when another call has created the payment the
\* unique key rejects this one, and its intent reaches no customer.
StartWrite(w) ==
    /\ call[w].op = "start"
    /\ LET o == call[w].order
       IN  IF payment[o] = "NONE"
           THEN /\ payment' = [payment EXCEPT ![o] = "PENDING"]
                /\ intent' = [intent EXCEPT ![o] = "open"]
           ELSE UNCHANGED <<payment, intent>>
    /\ End(w)
    /\ UNCHANGED <<status, paymentStatus, retries, notices, stock, bus, stale, crashes>>

CashierRead(w, o) ==
    /\ payment[o] = "NONE"
    /\ Begin(w, "cashier", o, "NONE")
    /\ ReadOnly

CashierWrite(w) ==
    /\ call[w].op = "cashier"
    /\ LET o == call[w].order
       IN  IF payment[o] = "NONE"
           THEN /\ SetBoth(o, "COMPLETED", "PAID", "COMPLETED")
                /\ Emit("CASHIER_PAYMENT_COMPLETED", o)
           ELSE UNCHANGED <<payment, status, paymentStatus, bus>>
    /\ End(w)
    /\ UNCHANGED <<retries, intent, notices, stock, stale, crashes>>

-----------------------------------------------------------------------------
(* The provider, and the customer in front of it.                          *)

Charge(o) ==
    /\ intent[o] = "open"
    /\ intent' = [intent EXCEPT ![o] = "succeeded"]
    /\ notices' = notices \union {<<"payment_intent.succeeded", o>>}
    /\ UNCHANGED <<status, paymentStatus, payment, retries, stock, bus, call, stale, crashes>>

\* A declined card leaves the intent open for another attempt.
Decline(o) ==
    /\ intent[o] = "open"
    /\ notices' = notices \union {<<"payment_intent.payment_failed", o>>}
    /\ UNCHANGED <<status, paymentStatus, payment, retries, intent, stock, bus,
                   call, stale, crashes>>

IntentCanceled(o) ==
    /\ intent[o] = "open"
    /\ intent' = [intent EXCEPT ![o] = "canceled"]
    /\ notices' = notices \union {<<"payment_intent.canceled", o>>}
    /\ UNCHANGED <<status, paymentStatus, payment, retries, stock, bus, call, stale, crashes>>

-----------------------------------------------------------------------------
(* confirmFromProviderEvent, markFailedFromProvider and the cancellations. *)

\* Faulty variant: confirms a payment whatever the provider said.
ConfirmReadAnyNotice(w, o) ==
    /\ \E n \in notices : n[2] = o
    /\ CanTransition(payment[o], "PAID")
    /\ Begin(w, "confirm", o, payment[o])
    /\ ReadOnly

\* Called by the webhook, and by confirmByPolling when the lookup says PAID.
\* A payment that is PAID is returned as it is.
ConfirmRead(w, o) ==
    /\ <<"payment_intent.succeeded", o>> \in notices
    /\ CanTransition(payment[o], "PAID")
    /\ Begin(w, "confirm", o, payment[o])
    /\ ReadOnly

ConfirmWrite(w) ==
    /\ call[w].op = "confirm"
    /\ LET o == call[w].order
       IN  /\ SetBoth(o, "PAID", "PAID", "COMPLETED")
           /\ Emit("PAYMENT_CONFIRMED", o)
           /\ NoteStale(o, call[w].saw, payment[o])
    /\ End(w)
    /\ UNCHANGED <<retries, intent, notices, stock, crashes>>

\* Faulty variant: a late failure is believed whatever the payment's state.
FailReadUnchecked(w, o) ==
    /\ <<"payment_intent.payment_failed", o>> \in notices \/ intent[o] = "canceled"
    /\ Begin(w, "fail", o, payment[o])
    /\ ReadOnly

FailRead(w, o) ==
    /\ <<"payment_intent.payment_failed", o>> \in notices \/ intent[o] = "canceled"
    /\ CanTransition(payment[o], "FAILED")
    /\ Begin(w, "fail", o, payment[o])
    /\ ReadOnly

FailWrite(w) ==
    /\ call[w].op = "fail"
    /\ LET o == call[w].order
       IN  /\ SetBoth(o, "FAILED", "PAYMENT_FAILED", "FAILED")
           /\ Emit("PAYMENT_FAILED", o)
           /\ NoteStale(o, call[w].saw, payment[o])
    /\ End(w)
    /\ UNCHANGED <<retries, intent, notices, stock, crashes>>

\* cancelFromProvider: the webhook of a canceled intent.
ProviderCancelRead(w, o) ==
    /\ <<"payment_intent.canceled", o>> \in notices
    /\ CanTransition(payment[o], "CANCELLED")
    /\ Begin(w, "cancelPayment", o, payment[o])
    /\ ReadOnly

\* PaymentCancellationService.cancel, for a user, an administrator or the job
\* that finds a payment expired.  The provider is not told.
CancelPaymentRead(w, o) ==
    /\ payment[o] \notin {"PAID", "COMPLETED"}
    /\ CanTransition(payment[o], "CANCELLED")
    /\ Begin(w, "cancelPayment", o, payment[o])
    /\ ReadOnly

\* PAYMENT_CANCELLED is emitted and nobody listens to it.
CancelPaymentWrite(w) ==
    /\ call[w].op = "cancelPayment"
    /\ LET o == call[w].order
       IN  /\ SetBoth(o, "CANCELLED", "CANCELLED", "CANCELLED")
           /\ NoteStale(o, call[w].saw, payment[o])
    /\ End(w)
    /\ UNCHANGED <<retries, intent, notices, stock, bus, crashes>>

-----------------------------------------------------------------------------
(* PaymentPollingReconciliationJob and PaymentRetryJob.                    *)

PollRead(o) ==
    /\ payment[o] \in {"PENDING", "RETRYING"}
    /\ Begin(Poller, "poll", o, payment[o])
    /\ ReadOnly

\* Faulty variant: only a failure is reconciled.
PollPaidSkipped ==
    /\ call[Poller].op = "poll"
    /\ intent[call[Poller].order] = "succeeded"
    /\ End(Poller)
    /\ ReadOnly

\* The lookup said PAID.  PAYMENT_RECONCILED only counts a metric.
PollPaid ==
    /\ call[Poller].op = "poll"
    /\ LET o == call[Poller].order
       IN  /\ intent[o] = "succeeded"
           /\ SetBoth(o, "PAID", "PAID", "COMPLETED")
           /\ NoteStale(o, call[Poller].saw, payment[o])
    /\ End(Poller)
    /\ UNCHANGED <<retries, intent, notices, stock, bus, crashes>>

\* The lookup said FAILED: the payment is written and the order is not.
PollFailed ==
    /\ call[Poller].op = "poll"
    /\ LET o == call[Poller].order
       IN  /\ intent[o] = "canceled"
           /\ payment' = [payment EXCEPT ![o] = "FAILED"]
           /\ Emit("PAYMENT_FAILED", o)
           /\ NoteStale(o, call[Poller].saw, payment[o])
    /\ End(Poller)
    /\ UNCHANGED <<status, paymentStatus, retries, intent, notices, stock, crashes>>

PollPending ==
    /\ call[Poller].op = "poll"
    /\ intent[call[Poller].order] = "open"
    /\ End(Poller)
    /\ ReadOnly

\* retryFailedPayment; a cashier payment has no provider to ask.
RetryRead(w, o) ==
    /\ CanTransition(payment[o], "RETRYING")
    /\ intent[o] # "none"
    /\ retries[o] < MaxRetries
    /\ Begin(w, "retry", o, payment[o])
    /\ ReadOnly

RetryWrite(w) ==
    /\ call[w].op = "retry"
    /\ LET o == call[w].order
       IN  /\ payment' = [payment EXCEPT ![o] = "RETRYING"]
           /\ retries' = [retries EXCEPT ![o] = @ + 1]
           /\ NoteStale(o, call[w].saw, payment[o])
    /\ call' = [call EXCEPT ![w].op = "lookup"]
    /\ UNCHANGED <<status, paymentStatus, intent, notices, stock, bus, crashes>>

\* confirmByPolling reads the payment again; a provider that is unavailable
\* fails a payment that has no retries left.
RetryLookup(w) ==
    /\ call[w].op = "lookup"
    /\ LET o == call[w].order
           Proceed(op) == call' = [call EXCEPT ![w].op = op, ![w].saw = payment[o]]
       IN  \/ /\ intent[o] = "succeeded"
              /\ CanTransition(payment[o], "PAID")
              /\ Proceed("confirm")
           \/ /\ intent[o] = "canceled" \/ retries[o] >= MaxRetries
              /\ CanTransition(payment[o], "FAILED")
              /\ Proceed("fail")
           \/ End(w)
    /\ ReadOnly

-----------------------------------------------------------------------------
(* OrderCancellationService and OrderStatusService.                        *)

\* cancelBeforePayment, for a customer or for one of the two jobs that cancel
\* orders older than 15 minutes.  Payment code never writes the "PAID" that
\* the first guard looks for.
CancelOrderRead(w, o) ==
    /\ paymentStatus[o] # "PAID"
    /\ status[o] = "PENDING"
    /\ Begin(w, "cancelOrder", o, status[o])
    /\ ReadOnly

CancelOrderWrite(w) ==
    /\ call[w].op = "cancelOrder"
    /\ LET o == call[w].order
       IN  /\ status' = [status EXCEPT ![o] = "CANCELLED"]
           /\ stock' = [stock EXCEPT ![o] = IF @ = "held" THEN "freed" ELSE @]
           /\ NoteStale(o, call[w].saw, status[o])
    /\ End(w)
    /\ UNCHANGED <<paymentStatus, payment, retries, intent, notices, bus, crashes>>

TransitionRead(w, o, to) ==
    /\ to \in ORDER_TRANSITIONS[status[o]]
    /\ call[w] = Idle
    /\ call' = [call EXCEPT ![w] = [op |-> "transition", order |-> o,
                                    saw |-> status[o], to |-> to]]
    /\ ReadOnly

TransitionWrite(w) ==
    /\ call[w].op = "transition"
    /\ LET o == call[w].order
       IN  /\ status' = [status EXCEPT ![o] = call[w].to]
           /\ NoteStale(o, call[w].saw, status[o])
    /\ End(w)
    /\ UNCHANGED <<paymentStatus, payment, retries, intent, notices, stock, bus, crashes>>

-----------------------------------------------------------------------------
(* The inventory handlers of the event bus, and the job that frees holds.  *)

\* commitForOrder and releaseForOrder change held lines only; a cashier sale
\* without a reservation is deducted.
SettledBy(e, s) ==
    CASE e = "CASHIER_PAYMENT_COMPLETED"       -> "sold"
      [] e = "PAYMENT_CONFIRMED" /\ s = "held" -> "sold"
      [] e = "PAYMENT_FAILED" /\ s = "held"    -> "freed"
      [] OTHER                                 -> s

HandleEvent(e, o) ==
    /\ <<e, o>> \in bus
    /\ bus' = bus \ {<<e, o>>}
    /\ stock' = [stock EXCEPT ![o] = SettledBy(e, @)]
    /\ UNCHANGED <<status, paymentStatus, payment, retries, intent, notices,
                   call, stale, crashes>>

ReservationExpires(o) ==
    /\ stock[o] = "held"
    /\ stock' = [stock EXCEPT ![o] = "freed"]
    /\ UNCHANGED <<status, paymentStatus, payment, retries, intent, notices, bus,
                   call, stale, crashes>>

\* One call fails (a database error, a timeout): its transaction is undone.
Abort(w) ==
    /\ call[w] # Idle
    /\ End(w)
    /\ ReadOnly

Crash ==
    /\ crashes < MaxCrashes
    /\ crashes' = crashes + 1
    /\ call' = [w \in Processes |-> Idle]
    /\ bus' = {}
    /\ UNCHANGED <<status, paymentStatus, payment, retries, intent, notices, stock, stale>>

-----------------------------------------------------------------------------
Events == {"PAYMENT_CONFIRMED", "PAYMENT_FAILED", "CASHIER_PAYMENT_COMPLETED"}

Init ==
    /\ status = [o \in Orders |-> "PENDING"]
    /\ paymentStatus = [o \in Orders |-> "PENDING"]
    /\ payment = [o \in Orders |-> "NONE"]
    /\ retries = [o \in Orders |-> 0]
    /\ intent = [o \in Orders |-> "none"]
    /\ notices = {}
    /\ stock = [o \in Orders |-> "held"]
    /\ bus = {}
    /\ call = [w \in Processes |-> Idle]
    /\ stale = {}
    /\ crashes = 0

ProviderStep(o) == Charge(o) \/ Decline(o) \/ IntentCanceled(o)

ReadStep(w, o) ==
    \/ StartRead(w, o)
    \/ CashierRead(w, o)
    \/ ConfirmRead(w, o)
    \/ FailRead(w, o)
    \/ ProviderCancelRead(w, o)
    \/ CancelPaymentRead(w, o)
    \/ RetryRead(w, o)
    \/ CancelOrderRead(w, o)
    \/ \E to \in OrderStatus : TransitionRead(w, o, to)

WriteStep(w) ==
    \/ StartWrite(w)
    \/ CashierWrite(w)
    \/ ConfirmWrite(w)
    \/ FailWrite(w)
    \/ CancelPaymentWrite(w)
    \/ RetryWrite(w)
    \/ RetryLookup(w)
    \/ CancelOrderWrite(w)
    \/ TransitionWrite(w)

PollWrite == PollPaid \/ PollFailed \/ PollPending

Next ==
    \/ \E o \in Orders :
           \/ ProviderStep(o)
           \/ PollRead(o)
           \/ ReservationExpires(o)
           \/ \E w \in Workers : ReadStep(w, o)
           \/ \E e \in Events : HandleEvent(e, o)
    \/ \E w \in Workers : WriteStep(w)
    \/ PollWrite
    \/ \E w \in Processes : Abort(w)
    \/ Crash

Spec == Init /\ [][Next]_vars

\* The poll job runs again and again and its queries are answered, events that
\* are not lost reach their handlers; nobody else has to act.
Fairness ==
    /\ \A o \in Orders : SF_vars(PollRead(o))
    /\ SF_vars(PollWrite)
    /\ \A o \in Orders, e \in Events : WF_vars(HandleEvent(e, o))

FairSpec == Spec /\ Fairness

-----------------------------------------------------------------------------
TypeOK ==
    /\ status \in [Orders -> OrderStatus]
    /\ paymentStatus \in [Orders -> {"PENDING", "COMPLETED", "FAILED", "CANCELLED"}]
    /\ payment \in [Orders -> PaymentState \union {"NONE"}]
    /\ retries \in [Orders -> Nat]
    /\ intent \in [Orders -> {"none", "open", "succeeded", "canceled"}]
    /\ notices \subseteq {"payment_intent.succeeded", "payment_intent.payment_failed",
                          "payment_intent.canceled"} \X Orders
    /\ stock \in [Orders -> {"held", "sold", "freed"}]
    /\ bus \subseteq Events \X Orders
    /\ call \in [Processes -> OpenCall \union OpenTransition \union {Idle}]
    /\ stale \subseteq Orders
    /\ crashes \in Nat

\* An order's stock leaves the shelf only when the money is there: charged by
\* the provider or taken at the till.  Late, repeated and reordered webhooks,
\* stale writes and crashes do not change that.
SoldOnlyIfCharged ==
    \A o \in Orders :
        stock[o] = "sold" => intent[o] = "succeeded" \/ payment[o] = "COMPLETED"

\* Order.paymentStatus and Payment.status, two columns in two tables, tell the
\* same story about money taken and about cancellation, unless a stale write
\* hit the order.
ColumnsAgree ==
    \A o \in Orders \ stale :
        /\ (paymentStatus[o] = "COMPLETED") = (payment[o] \in {"PAID", "COMPLETED"})
        /\ (paymentStatus[o] = "CANCELLED") = (payment[o] = "CANCELLED")

\* A payment moves along the edges of PaymentStateMachine, unless a stale write
\* hits it: a late payment_failed never undoes a PAID.
PaymentFollowsMachine ==
    [][\A o \in Orders \ stale' :
           payment[o] # "NONE" /\ payment'[o] # payment[o] =>
               CanTransition(payment[o], payment'[o])]_vars

\* A charge that our server has not recorded is noticed: the payment does not
\* stay PENDING or RETRYING, whatever webhooks were lost and calls crashed.
ChargeNoticed ==
    \A o \in Orders :
        intent[o] = "succeeded" /\ payment[o] \in {"PENDING", "RETRYING"}
            ~> payment[o] \notin {"PENDING", "RETRYING"}

\* ORDER_TRANSITIONS gives CANCELLED no successor: a cancelled order stays so.
CancelledIsFinal ==
    [][\A o \in Orders : status[o] = "CANCELLED" => status'[o] = "CANCELLED"]_vars

\* "Commit reservations (reserved -> sold)": the held stock of an order that is
\* paid through the provider is sold.
PaidGetsStock ==
    \A o \in Orders :
        payment[o] = "PAID" /\ stock[o] = "held" ~> stock[o] = "sold"
=============================================================================
