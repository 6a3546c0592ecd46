------------------------- MODULE OrderPayment_proofs -------------------------
(***************************************************************************)
(* Theorems about module OrderPayment for every set of orders and          *)
(* processes and every bound.                                              *)
(***************************************************************************)
EXTENDS OrderPayment, TLAPS

(* What CanTransition allows, read off the table once.                     *)
LEMMA Table ==
    ASSUME NEW s \in PaymentState \union {"NONE"}
    PROVE  /\ CanTransition(s, "PAID") <=> s \in {"PENDING", "RETRYING"}
           /\ CanTransition(s, "FAILED") <=> s \in {"PENDING", "RETRYING"}
           /\ CanTransition(s, "CANCELLED") <=> s \in {"PENDING", "RETRYING", "FAILED"}
           /\ CanTransition(s, "RETRYING") <=> s \in {"PENDING", "FAILED"}
    BY DEF CanTransition, transitions, PaymentState

LEMMA OrderTable ==
    ASSUME NEW s \in OrderStatus
    PROVE  ORDER_TRANSITIONS[s] \subseteq OrderStatus
    BY DEF ORDER_TRANSITIONS, OrderStatus

-----------------------------------------------------------------------------
(* Types.                                                                  *)

LEMMA TypeInit == Init => TypeOK
    BY PaymentAssumption DEF Init, TypeOK, PaymentState, OrderStatus, Idle

\* A step that only opens or closes a call.
LEMMA TypeReadOnly ==
    ASSUME TypeOK, ReadOnly,
           call' \in [Processes -> OpenCall \union OpenTransition \union {Idle}]
    PROVE  TypeOK'
    BY DEF TypeOK, ReadOnly

LEMMA TypeBegin ==
    ASSUME NEW w \in Processes, NEW o \in Orders, TypeOK,
           NEW op \in {"start", "cashier", "confirm", "fail", "cancelPayment", "poll",
                       "retry", "lookup", "cancelOrder"},
           NEW saw \in PaymentState \union {"NONE"} \union OrderStatus,
           Begin(w, op, o, saw)
    PROVE  call' \in [Processes -> OpenCall \union OpenTransition \union {Idle}]
  <1>1. [op |-> op, order |-> o, saw |-> saw] \in OpenCall
    BY DEF OpenCall
  <1>. QED
    BY <1>1 DEF TypeOK, Begin

LEMMA TypeEnd ==
    ASSUME NEW w \in Processes, TypeOK, End(w)
    PROVE  call' \in [Processes -> OpenCall \union OpenTransition \union {Idle}]
    BY DEF TypeOK, End

\* What the call of a process that is not idle says.
LEMMA CallShape ==
    ASSUME NEW w \in Processes, TypeOK, call[w] # Idle
    PROVE  /\ call[w].order \in Orders
           /\ call[w].op = "transition" => call[w] \in OpenTransition
           /\ call[w].op # "transition" => call[w] \in OpenCall
    BY DEF TypeOK, OpenCall, OpenTransition, Idle

LEMMA NotIdle ==
    ASSUME NEW w \in Processes, call[w].op # "idle"
    PROVE  call[w] # Idle
    BY DEF Idle

LEMMA TypeRead ==
    ASSUME NEW w \in Workers, NEW o \in Orders, TypeOK, ReadStep(w, o)
    PROVE  TypeOK'
  <1>w. w \in Processes
    BY DEF Processes
  <1>t. payment[o] \in PaymentState \union {"NONE"} /\ status[o] \in OrderStatus
    BY DEF TypeOK
  <1>1. CASE \E op \in {"start", "cashier", "confirm", "fail", "cancelPayment", "retry",
                        "cancelOrder"},
                saw \in PaymentState \union {"NONE"} \union OrderStatus :
                 Begin(w, op, o, saw) /\ ReadOnly
    <2>1. PICK op \in {"start", "cashier", "confirm", "fail", "cancelPayment", "retry",
                       "cancelOrder"},
               saw \in PaymentState \union {"NONE"} \union OrderStatus :
               Begin(w, op, o, saw) /\ ReadOnly
      BY <1>1
    <2>2. call' \in [Processes -> OpenCall \union OpenTransition \union {Idle}]
      BY <1>w, <2>1, TypeBegin
    <2>. QED
      BY <2>1, <2>2, TypeReadOnly
  <1>2. CASE \E to \in OrderStatus : TransitionRead(w, o, to)
    <2>1. PICK to \in OrderStatus : TransitionRead(w, o, to)
      BY <1>2
    <2>2. [op |-> "transition", order |-> o, saw |-> status[o], to |-> to] \in OpenTransition
      BY <1>t DEF OpenTransition
    <2>3. call' \in [Processes -> OpenCall \union OpenTransition \union {Idle}]
      BY <1>w, <2>1, <2>2 DEF TransitionRead, TypeOK
    <2>. QED
      BY <2>1, <2>3, TypeReadOnly DEF TransitionRead
  <1>. QED
    BY <1>1, <1>2, <1>t DEF ReadStep, StartRead, CashierRead, ConfirmRead, FailRead,
       ProviderCancelRead, CancelPaymentRead, RetryRead, CancelOrderRead

\* The transactions that end a call write values of the columns' types.
LEMMA TypeWrite ==
    ASSUME NEW w \in Workers, TypeOK, WriteStep(w)
    PROVE  TypeOK'
  <1>w. w \in Processes
    BY DEF Processes
  <1>n. call[w].op # "idle"
    BY DEF WriteStep, StartWrite, CashierWrite, ConfirmWrite, FailWrite, CancelPaymentWrite,
       RetryWrite, RetryLookup, CancelOrderWrite, TransitionWrite
  <1>o. call[w].order \in Orders
    BY <1>w, <1>n, NotIdle, CallShape
  <1>1. CASE StartWrite(w)
    <2>1. call' \in [Processes -> OpenCall \union OpenTransition \union {Idle}]
      BY <1>1, <1>w, TypeEnd DEF StartWrite
    <2>. QED
      BY <1>1, <1>o, <2>1 DEF StartWrite, TypeOK, PaymentState
  <1>2. CASE CashierWrite(w)
    <2>1. call' \in [Processes -> OpenCall \union OpenTransition \union {Idle}]
      BY <1>2, <1>w, TypeEnd DEF CashierWrite
    <2>. QED
      BY <1>2, <1>o, <2>1 DEF CashierWrite, SetBoth, Emit, Events, TypeOK, PaymentState, OrderStatus
  <1>3. CASE ConfirmWrite(w)
    <2>1. call' \in [Processes -> OpenCall \union OpenTransition \union {Idle}]
      BY <1>3, <1>w, TypeEnd DEF ConfirmWrite
    <2>. QED
      BY <1>3, <1>o, <2>1 DEF ConfirmWrite, SetBoth, Emit, NoteStale, Events, TypeOK,
         PaymentState, OrderStatus
  <1>4. CASE FailWrite(w)
    <2>1. call' \in [Processes -> OpenCall \union OpenTransition \union {Idle}]
      BY <1>4, <1>w, TypeEnd DEF FailWrite
    <2>. QED
      BY <1>4, <1>o, <2>1 DEF FailWrite, SetBoth, Emit, NoteStale, Events, TypeOK,
         PaymentState, OrderStatus
  <1>5. CASE CancelPaymentWrite(w)
    <2>1. call' \in [Processes -> OpenCall \union OpenTransition \union {Idle}]
      BY <1>5, <1>w, TypeEnd DEF CancelPaymentWrite
    <2>. QED
      BY <1>5, <1>o, <2>1 DEF CancelPaymentWrite, SetBoth, NoteStale, TypeOK,
         PaymentState, OrderStatus
  <1>6. CASE RetryWrite(w)
    <2>1. call[w] \in OpenCall
      BY <1>6, <1>w, <1>n, NotIdle, CallShape DEF RetryWrite
    <2>2. [call[w] EXCEPT !.op = "lookup"] \in OpenCall
      BY <2>1 DEF OpenCall
    <2>3. call' \in [Processes -> OpenCall \union OpenTransition \union {Idle}]
      BY <1>6, <1>w, <2>2 DEF RetryWrite, TypeOK
    <2>. QED
      BY <1>6, <1>o, <2>3 DEF RetryWrite, NoteStale, TypeOK, PaymentState
  <1>7. CASE RetryLookup(w)
    <2>1. call[w] \in OpenCall
      BY <1>7, <1>w, <1>n, NotIdle, CallShape DEF RetryLookup
    <2>2. \A op \in {"confirm", "fail"} :
             [call[w] EXCEPT !.op = op, !.saw = payment[call[w].order]] \in OpenCall
      BY <2>1, <1>o DEF OpenCall, TypeOK
    <2>3. call' \in [Processes -> OpenCall \union OpenTransition \union {Idle}]
      <3>1. CASE End(w)
        BY <3>1, <1>w, TypeEnd
      <3>2. CASE \E op \in {"confirm", "fail"} :
                   call' = [call EXCEPT ![w].op = op, ![w].saw = payment[call[w].order]]
        BY <3>2, <2>2, <1>w DEF TypeOK
      <3>. QED
        BY <1>7, <3>1, <3>2 DEF RetryLookup
    <2>. QED
      BY <1>7, <2>3, TypeReadOnly DEF RetryLookup
  <1>8. CASE CancelOrderWrite(w)
    <2>1. call' \in [Processes -> OpenCall \union OpenTransition \union {Idle}]
      BY <1>8, <1>w, TypeEnd DEF CancelOrderWrite
    <2>. QED
      BY <1>8, <1>o, <2>1 DEF CancelOrderWrite, NoteStale, TypeOK, OrderStatus
  <1>9. CASE TransitionWrite(w)
    <2>1. call' \in [Processes -> OpenCall \union OpenTransition \union {Idle}]
      BY <1>9, <1>w, TypeEnd DEF TransitionWrite
    <2>2. call[w].to \in OrderStatus
      BY <1>9, <1>w, <1>n, NotIdle, CallShape DEF TransitionWrite, OpenTransition
    <2>. QED
      BY <1>9, <1>o, <2>1, <2>2 DEF TransitionWrite, NoteStale, TypeOK
  <1>. QED
    BY <1>1, <1>2, <1>3, <1>4, <1>5, <1>6, <1>7, <1>8, <1>9 DEF WriteStep

LEMMA TypePoll ==
    ASSUME TypeOK, PollWrite
    PROVE  TypeOK'
  <1>w. Poller \in Processes
    BY DEF Processes
  <1>n. call[Poller].op # "idle"
    BY DEF PollWrite, PollPaid, PollFailed, PollPending
  <1>o. call[Poller].order \in Orders
    BY <1>w, <1>n, NotIdle, CallShape
  <1>c. call' \in [Processes -> OpenCall \union OpenTransition \union {Idle}]
    BY <1>w, TypeEnd DEF PollWrite, PollPaid, PollFailed, PollPending
  <1>1. CASE PollPaid
    BY <1>1, <1>o, <1>c DEF PollPaid, SetBoth, NoteStale, TypeOK, PaymentState, OrderStatus
  <1>2. CASE PollFailed
    BY <1>2, <1>o, <1>c DEF PollFailed, Emit, Events, NoteStale, TypeOK, PaymentState
  <1>3. CASE PollPending
    BY <1>3, <1>c, TypeReadOnly DEF PollPending
  <1>. QED
    BY <1>1, <1>2, <1>3 DEF PollWrite

\* The steps that no call of a worker takes.
LEMMA TypeOther ==
    ASSUME TypeOK,
           \/ \E o \in Orders : ProviderStep(o) \/ PollRead(o) \/ ReservationExpires(o)
           \/ \E o \in Orders, e \in Events : HandleEvent(e, o)
           \/ \E w \in Processes : Abort(w)
           \/ Crash
    PROVE  TypeOK'
  <1>1. CASE \E o \in Orders : ProviderStep(o)
    BY <1>1 DEF ProviderStep, Charge, Decline, IntentCanceled, TypeOK
  <1>2. CASE \E o \in Orders : PollRead(o)
    <2>1. PICK o \in Orders : PollRead(o)
      BY <1>2
    <2>2. call' \in [Processes -> OpenCall \union OpenTransition \union {Idle}]
      BY <2>1, TypeBegin DEF PollRead, TypeOK, Processes
    <2>. QED
      BY <2>1, <2>2, TypeReadOnly DEF PollRead
  <1>3. CASE \E o \in Orders : ReservationExpires(o)
    BY <1>3 DEF ReservationExpires, TypeOK
  <1>4. CASE \E o \in Orders, e \in Events : HandleEvent(e, o)
    BY <1>4 DEF HandleEvent, SettledBy, TypeOK
  <1>5. CASE \E w \in Processes : Abort(w)
    BY <1>5, TypeEnd, TypeReadOnly DEF Abort
  <1>6. CASE Crash
    BY <1>6 DEF Crash, TypeOK
  <1>. QED
    BY <1>1, <1>2, <1>3, <1>4, <1>5, <1>6

LEMMA TypeStep == TypeOK /\ [Next]_vars => TypeOK'
  <1>. SUFFICES ASSUME TypeOK, [Next]_vars PROVE TypeOK'
    OBVIOUS
  <1>1. CASE UNCHANGED vars
    BY <1>1 DEF TypeOK, vars
  <1>2. CASE Next
    BY <1>2, TypeRead, TypeWrite, TypePoll, TypeOther DEF Next
  <1>. QED
    BY <1>1, <1>2

(* Every column, call and message stays within its type: the table rows    *)
(* never hold a state the schema does not know, whatever calls overlap.    *)
THEOREM TypeCorrect == Spec => []TypeOK
  <1>. QED
    BY TypeInit, TypeStep, PTL DEF Spec
-----------------------------------------------------------------------------
(* Money.                                                                  *)

\* The provider only reports a success that happened.
NoticesTrue ==
    \A o \in Orders : <<"payment_intent.succeeded", o>> \in notices => intent[o] = "succeeded"

\* Before there is a payment there is no intent that a customer could pay.
Unstarted == \A o \in Orders : payment[o] = "NONE" => intent[o] = "none"

PaymentOps == {"confirm", "fail", "cancelPayment", "poll", "retry", "lookup"}

\* Calls that will write a provider payment read one, and neither a missing nor
\* a cashier payment can take its place; a confirmation knows of the charge.
CallsBacked ==
    \A w \in Processes :
        LET o == call[w].order
        IN  /\ call[w].op \in PaymentOps => payment[o] \notin {"NONE", "COMPLETED"}
            /\ call[w].op = "confirm" => intent[o] = "succeeded"

\* Events in flight that sell stock have their money.
EventsBacked ==
    \A o \in Orders :
        /\ <<"PAYMENT_CONFIRMED", o>> \in bus => intent[o] = "succeeded"
        /\ <<"CASHIER_PAYMENT_COMPLETED", o>> \in bus => payment[o] = "COMPLETED"

Money == NoticesTrue /\ Unstarted /\ CallsBacked /\ EventsBacked /\ SoldOnlyIfCharged

LEMMA MoneyInit == Init => Money
    BY DEF Init, Money, NoticesTrue, Unstarted, CallsBacked, EventsBacked, SoldOnlyIfCharged,
       PaymentOps, Idle

\* Ending a call takes nothing from the others.
LEMMA EndBacked ==
    ASSUME TypeOK, CallsBacked, NEW v \in Processes, End(v),
           \A o \in Orders : payment[o] \notin {"NONE", "COMPLETED"} =>
               payment'[o] \notin {"NONE", "COMPLETED"},
           \A o \in Orders : intent[o] = "succeeded" => intent'[o] = "succeeded"
    PROVE  CallsBacked'
  <1>. SUFFICES ASSUME NEW w \in Processes
                PROVE  LET o == call'[w].order
                       IN  /\ call'[w].op \in PaymentOps => payment'[o] \notin {"NONE", "COMPLETED"}
                           /\ call'[w].op = "confirm" => intent'[o] = "succeeded"
    BY DEF CallsBacked
  <1>1. CASE w = v
    <2>1. call'[w] = Idle
      BY <1>1 DEF End, TypeOK
    <2>. QED
      BY <2>1 DEF Idle, PaymentOps
  <1>2. CASE w # v
    <2>1. call'[w] = call[w]
      BY <1>2 DEF End
    <2>2. call[w].op \in PaymentOps => call[w].order \in Orders
      BY CallShape, NotIdle DEF PaymentOps
    <2>3. "confirm" \in PaymentOps
      BY DEF PaymentOps
    <2>. QED
      BY <2>1, <2>2, <2>3 DEF CallsBacked
  <1>. QED
    BY <1>1, <1>2

\* Opening a call on a provider payment, with the charge if it is to confirm.
LEMMA BeginBacked ==
    ASSUME TypeOK, CallsBacked, NEW v \in Processes, NEW o \in Orders, NEW op, NEW saw,
           Begin(v, op, o, saw), payment' = payment, intent' = intent,
           op \in PaymentOps => payment[o] \notin {"NONE", "COMPLETED"},
           op = "confirm" => intent[o] = "succeeded"
    PROVE  CallsBacked'
  <1>1. \A w \in Processes : call'[w] = IF w = v THEN [op |-> op, order |-> o, saw |-> saw]
                                        ELSE call[w]
    BY DEF Begin, TypeOK
  <1>. QED
    BY <1>1 DEF CallsBacked

LEMMA ReadOnlyMoney ==
    ASSUME Money, ReadOnly, CallsBacked'
    PROVE  Money'
    BY DEF Money, ReadOnly, NoticesTrue, Unstarted, EventsBacked, SoldOnlyIfCharged

LEMMA MoneyRead ==
    ASSUME NEW v \in Workers, NEW o \in Orders, TypeOK, Money, ReadStep(v, o)
    PROVE  Money'
  <1>w. v \in Processes
    BY DEF Processes
  <1>p. payment[o] \in PaymentState \union {"NONE"} /\ CallsBacked
    BY DEF TypeOK, Money
  <1>r. ReadOnly
    BY DEF ReadStep, StartRead, CashierRead, ConfirmRead, FailRead, ProviderCancelRead,
       CancelPaymentRead, RetryRead, CancelOrderRead, TransitionRead
  <1>u. payment' = payment /\ intent' = intent
    BY <1>r DEF ReadOnly
  <1>1. CASE StartRead(v, o) \/ CashierRead(v, o) \/ CancelOrderRead(v, o)
    <2>1. "start" \notin PaymentOps /\ "cashier" \notin PaymentOps /\ "cancelOrder" \notin PaymentOps
      BY DEF PaymentOps
    <2>2. CallsBacked'
      BY <1>1, <1>w, <1>p, <1>u, <2>1, BeginBacked DEF StartRead, CashierRead, CancelOrderRead
    <2>. QED
      BY <1>r, <2>2, ReadOnlyMoney
  <1>2. CASE ConfirmRead(v, o)
    <2>1. intent[o] = "succeeded"
      BY <1>2 DEF ConfirmRead, Money, NoticesTrue
    <2>2. CallsBacked'
      BY <1>2, <1>w, <1>p, <1>u, <2>1, Table, BeginBacked DEF ConfirmRead
    <2>. QED
      BY <1>r, <2>2, ReadOnlyMoney
  <1>3. CASE FailRead(v, o) \/ ProviderCancelRead(v, o) \/ CancelPaymentRead(v, o) \/ RetryRead(v, o)
    <2>1. payment[o] \notin {"NONE", "COMPLETED"}
      BY <1>3, <1>p, Table DEF FailRead, ProviderCancelRead, CancelPaymentRead, RetryRead
    <2>2. CallsBacked'
      BY <1>3, <1>w, <1>p, <1>u, <2>1, BeginBacked DEF FailRead, ProviderCancelRead,
         CancelPaymentRead, RetryRead
    <2>. QED
      BY <1>r, <2>2, ReadOnlyMoney
  <1>4. CASE \E to \in OrderStatus : TransitionRead(v, o, to)
    <2>1. PICK to \in OrderStatus : TransitionRead(v, o, to)
      BY <1>4
    <2>2. \A w \in Processes : call'[w] = IF w = v
              THEN [op |-> "transition", order |-> o, saw |-> status[o], to |-> to] ELSE call[w]
      BY <2>1, <1>w DEF TransitionRead, TypeOK
    <2>3. CallsBacked'
      BY <2>2, <1>p, <1>u DEF CallsBacked, PaymentOps
    <2>. QED
      BY <1>r, <2>3, ReadOnlyMoney
  <1>. QED
    BY <1>1, <1>2, <1>3, <1>4 DEF ReadStep

\* A transaction that writes a provider payment to p, neither NONE nor COMPLETED.
LEMMA ProviderWrite ==
    ASSUME NEW w \in Processes, NEW p \in PaymentState \ {"COMPLETED"}, TypeOK, Money,
           call[w].op \in PaymentOps, End(w),
           payment' = [payment EXCEPT ![call[w].order] = p],
           UNCHANGED <<intent, notices, stock>>,
           \A o \in Orders : <<"PAYMENT_CONFIRMED", o>> \in bus' =>
               <<"PAYMENT_CONFIRMED", o>> \in bus \/ intent[o] = "succeeded",
           \A o \in Orders : <<"CASHIER_PAYMENT_COMPLETED", o>> \in bus' =>
               <<"CASHIER_PAYMENT_COMPLETED", o>> \in bus
    PROVE  Money'
  <1>o. call[w].order \in Orders /\ payment[call[w].order] \notin {"NONE", "COMPLETED"}
    BY CallShape, NotIdle DEF Money, CallsBacked, PaymentOps
  <1>p. \A o \in Orders : /\ payment[o] \in {"NONE", "COMPLETED"} => payment'[o] = payment[o]
                          /\ payment'[o] = "NONE" => payment[o] = "NONE"
                          /\ payment[o] \notin {"NONE", "COMPLETED"} =>
                                 payment'[o] \notin {"NONE", "COMPLETED"}
    BY <1>o DEF TypeOK, PaymentState
  <1>1. CallsBacked'
    BY <1>p, EndBacked DEF Money
  <1>2. NoticesTrue' /\ Unstarted'
    BY <1>p DEF Money, NoticesTrue, Unstarted
  <1>3. EventsBacked' /\ SoldOnlyIfCharged'
    BY <1>p DEF Money, EventsBacked, SoldOnlyIfCharged
  <1>. QED
    BY <1>1, <1>2, <1>3 DEF Money

LEMMA MoneyWrite ==
    ASSUME NEW w \in Workers, TypeOK, Money, WriteStep(w)
    PROVE  Money'
  <1>w. w \in Processes
    BY DEF Processes
  <1>n. call[w].op # "idle"
    BY DEF WriteStep, StartWrite, CashierWrite, ConfirmWrite, FailWrite, CancelPaymentWrite,
       RetryWrite, RetryLookup, CancelOrderWrite, TransitionWrite
  <1>o. call[w].order \in Orders
    BY <1>w, <1>n, NotIdle, CallShape
  <1>b. CallsBacked
    BY DEF Money
  <1>1. CASE StartWrite(w)
    <2>1. \A o \in Orders : /\ payment[o] # "NONE" => payment'[o] = payment[o] /\ intent'[o] = intent[o]
                            /\ payment'[o] = "NONE" => payment[o] = "NONE" /\ intent'[o] = intent[o]
                            /\ intent[o] # "none" => intent'[o] = intent[o]
      BY <1>1, <1>o DEF StartWrite, TypeOK, Money, Unstarted
    <2>2. CallsBacked'
      BY <1>1, <1>w, <1>b, <2>1, EndBacked DEF StartWrite
    <2>3. NoticesTrue' /\ Unstarted'
      BY <1>1, <2>1 DEF StartWrite, Money, NoticesTrue, Unstarted
    <2>4. EventsBacked' /\ SoldOnlyIfCharged'
      BY <1>1, <2>1 DEF StartWrite, Money, EventsBacked, SoldOnlyIfCharged
    <2>. QED
      BY <2>2, <2>3, <2>4 DEF Money
  <1>2. CASE CashierWrite(w)
    <2>1. \A o \in Orders : /\ payment[o] # "NONE" => payment'[o] = payment[o]
                            /\ payment'[o] = "NONE" => payment[o] = "NONE"
      BY <1>2, <1>o DEF CashierWrite, SetBoth, TypeOK
    <2>2. CallsBacked'
      BY <1>2, <1>w, <1>b, <2>1, EndBacked DEF CashierWrite
    <2>3. NoticesTrue' /\ Unstarted'
      BY <1>2, <2>1 DEF CashierWrite, Money, NoticesTrue, Unstarted
    <2>4. EventsBacked'
      <3>1. \A o \in Orders : /\ <<"PAYMENT_CONFIRMED", o>> \in bus' => <<"PAYMENT_CONFIRMED", o>> \in bus
                              /\ <<"CASHIER_PAYMENT_COMPLETED", o>> \in bus' =>
                                     \/ <<"CASHIER_PAYMENT_COMPLETED", o>> \in bus
                                     \/ payment'[o] = "COMPLETED"
        BY <1>2, <1>o DEF CashierWrite, SetBoth, Emit, TypeOK
      <3>2. intent' = intent
        BY <1>2 DEF CashierWrite
      <3>. QED
        BY <2>1, <3>1, <3>2 DEF Money, EventsBacked
    <2>5. SoldOnlyIfCharged'
      BY <1>2, <2>1 DEF CashierWrite, Money, SoldOnlyIfCharged
    <2>. QED
      BY <2>2, <2>3, <2>4, <2>5 DEF Money
  <1>3. CASE ConfirmWrite(w)
    <2>1. intent[call[w].order] = "succeeded" /\ call[w].op \in PaymentOps
      BY <1>3, <1>w, <1>b DEF ConfirmWrite, CallsBacked, PaymentOps
    <2>2. /\ \A o \in Orders : <<"PAYMENT_CONFIRMED", o>> \in bus' =>
                 <<"PAYMENT_CONFIRMED", o>> \in bus \/ intent[o] = "succeeded"
          /\ \A o \in Orders : <<"CASHIER_PAYMENT_COMPLETED", o>> \in bus' =>
                 <<"CASHIER_PAYMENT_COMPLETED", o>> \in bus
      BY <1>3, <2>1 DEF ConfirmWrite, Emit
    <2>3. "PAID" \in PaymentState \ {"COMPLETED"}
      BY DEF PaymentState
    <2>. QED
      BY <1>3, <1>w, <2>1, <2>2, <2>3, ProviderWrite DEF ConfirmWrite, SetBoth
  <1>4. CASE FailWrite(w)
    <2>1. call[w].op \in PaymentOps
      BY <1>4 DEF FailWrite, PaymentOps
    <2>2. \A o \in Orders, e \in {"PAYMENT_CONFIRMED", "CASHIER_PAYMENT_COMPLETED"} :
              <<e, o>> \in bus' => <<e, o>> \in bus
      BY <1>4 DEF FailWrite, Emit
    <2>3. "FAILED" \in PaymentState \ {"COMPLETED"}
      BY DEF PaymentState
    <2>. QED
      BY <1>4, <1>w, <2>1, <2>2, <2>3, ProviderWrite DEF FailWrite, SetBoth
  <1>5. CASE CancelPaymentWrite(w)
    <2>1. call[w].op \in PaymentOps /\ "CANCELLED" \in PaymentState \ {"COMPLETED"}
      BY <1>5 DEF CancelPaymentWrite, PaymentOps, PaymentState
    <2>. QED
      BY <1>5, <1>w, <2>1, ProviderWrite DEF CancelPaymentWrite, SetBoth
  <1>6. CASE RetryWrite(w)
    <2>1. call[w].op \in PaymentOps
      BY <1>6 DEF RetryWrite, PaymentOps
    <2>2. payment[call[w].order] \notin {"NONE", "COMPLETED"}
      BY <1>b, <1>w, <2>1 DEF CallsBacked
    <2>3. \A o \in Orders : /\ payment[o] \in {"NONE", "COMPLETED"} => payment'[o] = payment[o]
                            /\ payment'[o] = "NONE" => payment[o] = "NONE"
                            /\ payment[o] \notin {"NONE", "COMPLETED"} =>
                                   payment'[o] \notin {"NONE", "COMPLETED"}
      BY <1>6, <1>o, <2>2 DEF RetryWrite, TypeOK
    <2>4. \A v \in Processes : call'[v].order = call[v].order /\
              (call'[v].op = call[v].op \/ (v = w /\ call'[v].op = "lookup"))
      BY <1>6, <1>w DEF RetryWrite, TypeOK, OpenCall, OpenTransition, Idle
    <2>5. CallsBacked'
      <3>. SUFFICES ASSUME NEW v \in Processes
                    PROVE  LET o == call'[v].order
                           IN  /\ call'[v].op \in PaymentOps =>
                                      payment'[o] \notin {"NONE", "COMPLETED"}
                               /\ call'[v].op = "confirm" => intent'[o] = "succeeded"
        BY DEF CallsBacked
      <3>1. CASE call'[v].op = call[v].op
        <4>1. call[v].op \in PaymentOps => call[v].order \in Orders
          BY CallShape, NotIdle DEF PaymentOps
        <4>2. "confirm" \in PaymentOps /\ intent' = intent
          BY <1>6 DEF PaymentOps, RetryWrite
        <4>. QED
          BY <3>1, <2>3, <2>4, <4>1, <4>2, <1>b DEF CallsBacked
      <3>2. CASE v = w /\ call'[v].op = "lookup"
        BY <3>2, <2>2, <2>3, <2>4, <1>o
      <3>. QED
        BY <3>1, <3>2, <2>4
    <2>6. NoticesTrue' /\ Unstarted'
      BY <1>6, <2>3 DEF RetryWrite, Money, NoticesTrue, Unstarted
    <2>7. EventsBacked' /\ SoldOnlyIfCharged'
      BY <1>6, <2>3 DEF RetryWrite, Money, EventsBacked, SoldOnlyIfCharged
    <2>. QED
      BY <2>5, <2>6, <2>7 DEF Money
  <1>7. CASE RetryLookup(w)
    <2>1. payment' = payment /\ intent' = intent /\ ReadOnly
      BY <1>7 DEF RetryLookup, ReadOnly
    <2>2. call[w].op \in PaymentOps /\ call[w] \in OpenCall
      BY <1>7, <1>w, <1>n, NotIdle, CallShape DEF RetryLookup, PaymentOps
    <2>3. payment[call[w].order] \notin {"NONE", "COMPLETED"}
      BY <1>b, <1>w, <2>2 DEF CallsBacked
    <2>4. CASE End(w)
      <3>1. CallsBacked'
        BY <1>w, <1>b, <2>1, <2>4, EndBacked
      <3>. QED
        BY <2>1, <3>1, ReadOnlyMoney
    <2>5. CASE \E op \in {"confirm", "fail"} :
                  /\ call' = [call EXCEPT ![w].op = op, ![w].saw = payment[call[w].order]]
                  /\ op = "confirm" => intent[call[w].order] = "succeeded"
      <3>1. PICK op \in {"confirm", "fail"} :
                  /\ call' = [call EXCEPT ![w].op = op, ![w].saw = payment[call[w].order]]
                  /\ op = "confirm" => intent[call[w].order] = "succeeded"
        BY <2>5
      <3>2. call'[w].op = op /\ call'[w].order = call[w].order
        BY <3>1, <1>w, <2>2 DEF OpenCall, TypeOK
      <3>3. \A v \in Processes \ {w} : call'[v] = call[v]
        BY <3>1, <1>w DEF TypeOK
      <3>4. CallsBacked'
        BY <3>1, <3>2, <3>3, <2>1, <2>3, <1>b DEF CallsBacked
      <3>. QED
        BY <2>1, <3>4, ReadOnlyMoney
    <2>. QED
      BY <1>7, <2>4, <2>5 DEF RetryLookup
  <1>8. CASE CancelOrderWrite(w)
    <2>1. CallsBacked'
      BY <1>8, <1>w, <1>b, EndBacked DEF CancelOrderWrite
    <2>2. \A o \in Orders : stock'[o] = "sold" => stock[o] = "sold"
      BY <1>8, <1>o DEF CancelOrderWrite, TypeOK
    <2>. QED
      BY <1>8, <2>1, <2>2 DEF CancelOrderWrite, Money, NoticesTrue, Unstarted, EventsBacked,
         SoldOnlyIfCharged
  <1>9. CASE TransitionWrite(w)
    <2>1. CallsBacked'
      BY <1>9, <1>w, <1>b, EndBacked DEF TransitionWrite
    <2>. QED
      BY <1>9, <2>1 DEF TransitionWrite, Money, NoticesTrue, Unstarted, EventsBacked,
         SoldOnlyIfCharged
  <1>. QED
    BY <1>1, <1>2, <1>3, <1>4, <1>5, <1>6, <1>7, <1>8, <1>9 DEF WriteStep

LEMMA MoneyPoll ==
    ASSUME TypeOK, Money, PollWrite
    PROVE  Money'
  <1>w. Poller \in Processes
    BY DEF Processes
  <1>1. CASE PollPaid
    <2>1. call[Poller].op \in PaymentOps /\ "PAID" \in PaymentState \ {"COMPLETED"}
      BY <1>1 DEF PollPaid, PaymentOps, PaymentState
    <2>. QED
      BY <1>1, <1>w, <2>1, ProviderWrite DEF PollPaid, SetBoth
  <1>2. CASE PollFailed
    <2>1. call[Poller].op \in PaymentOps /\ "FAILED" \in PaymentState \ {"COMPLETED"}
      BY <1>2 DEF PollFailed, PaymentOps, PaymentState
    <2>2. \A o \in Orders, e \in {"PAYMENT_CONFIRMED", "CASHIER_PAYMENT_COMPLETED"} :
              <<e, o>> \in bus' => <<e, o>> \in bus
      BY <1>2 DEF PollFailed, Emit
    <2>. QED
      BY <1>2, <1>w, <2>1, <2>2, ProviderWrite DEF PollFailed
  <1>3. CASE PollPending
    <2>1. CallsBacked'
      BY <1>3, <1>w, EndBacked DEF PollPending, ReadOnly, Money
    <2>. QED
      BY <1>3, <2>1, ReadOnlyMoney DEF PollPending
  <1>. QED
    BY <1>1, <1>2, <1>3 DEF PollWrite

LEMMA MoneyOther ==
    ASSUME TypeOK, Money,
           \/ \E o \in Orders : ProviderStep(o) \/ PollRead(o) \/ ReservationExpires(o)
           \/ \E o \in Orders, e \in Events : HandleEvent(e, o)
           \/ \E w \in Processes : Abort(w)
           \/ Crash
    PROVE  Money'
  <1>1. CASE \E o \in Orders : ProviderStep(o)
    <2>1. payment' = payment /\ call' = call /\ stock' = stock /\ bus' = bus
      BY <1>1 DEF ProviderStep, Charge, Decline, IntentCanceled
    <2>2. \A o \in Orders : /\ intent[o] \in {"none", "succeeded"} => intent'[o] = intent[o]
                            /\ <<"payment_intent.succeeded", o>> \in notices' =>
                                  \/ <<"payment_intent.succeeded", o>> \in notices
                                  \/ intent'[o] = "succeeded"
      BY <1>1 DEF ProviderStep, Charge, Decline, IntentCanceled, TypeOK
    <2>3. NoticesTrue' /\ Unstarted' /\ EventsBacked' /\ SoldOnlyIfCharged'
      BY <2>1, <2>2 DEF Money, NoticesTrue, Unstarted, EventsBacked, SoldOnlyIfCharged
    <2>4. \A w \in Processes : call[w].op = "confirm" => call[w].order \in Orders
      BY CallShape, NotIdle
    <2>5. CallsBacked'
      BY <2>1, <2>2, <2>4 DEF Money, CallsBacked
    <2>. QED
      BY <2>3, <2>5 DEF Money
  <1>2. CASE \E o \in Orders : PollRead(o)
    <2>1. CallsBacked'
      BY <1>2, BeginBacked DEF PollRead, ReadOnly, Money, Processes
    <2>. QED
      BY <1>2, <2>1, ReadOnlyMoney DEF PollRead
  <1>3. CASE \E o \in Orders : ReservationExpires(o)
    <2>1. \A o \in Orders : stock'[o] = "sold" => stock[o] = "sold"
      BY <1>3 DEF ReservationExpires, TypeOK
    <2>. QED
      BY <1>3, <2>1 DEF ReservationExpires, Money, NoticesTrue, Unstarted, CallsBacked,
         EventsBacked, SoldOnlyIfCharged
  <1>4. CASE \E o \in Orders, e \in Events : HandleEvent(e, o)
    <2>1. PICK o \in Orders, e \in Events : HandleEvent(e, o)
      BY <1>4
    <2>2. SoldOnlyIfCharged'
      <3>1. \A q \in Orders : stock'[q] = "sold" =>
                \/ stock[q] = "sold"
                \/ q = o /\ e \in {"CASHIER_PAYMENT_COMPLETED", "PAYMENT_CONFIRMED"}
        BY <2>1 DEF HandleEvent, SettledBy, TypeOK
      <3>2. intent' = intent /\ payment' = payment /\ <<e, o>> \in bus
        BY <2>1 DEF HandleEvent
      <3>. QED
        BY <3>1, <3>2 DEF Money, EventsBacked, SoldOnlyIfCharged
    <2>. QED
      BY <2>1, <2>2 DEF HandleEvent, Money, NoticesTrue, Unstarted, CallsBacked, EventsBacked
  <1>5. CASE \E w \in Processes : Abort(w)
    <2>1. CallsBacked'
      BY <1>5, EndBacked DEF Abort, ReadOnly, Money
    <2>. QED
      BY <1>5, <2>1, ReadOnlyMoney DEF Abort
  <1>6. CASE Crash
    <2>1. \A w \in Processes : call'[w].op \notin PaymentOps
      BY <1>6 DEF Crash, Idle, PaymentOps
    <2>2. CallsBacked'
      BY <2>1 DEF CallsBacked, PaymentOps
    <2>. QED
      BY <1>6, <2>2 DEF Crash, Money, NoticesTrue, Unstarted, EventsBacked, SoldOnlyIfCharged
  <1>. QED
    BY <1>1, <1>2, <1>3, <1>4, <1>5, <1>6

LEMMA MoneyStep == TypeOK /\ Money /\ [Next]_vars => Money'
  <1>. SUFFICES ASSUME TypeOK, Money, [Next]_vars PROVE Money'
    OBVIOUS
  <1>1. CASE UNCHANGED vars
    BY <1>1 DEF vars, Money, NoticesTrue, Unstarted, CallsBacked, EventsBacked, SoldOnlyIfCharged
  <1>2. CASE Next
    BY <1>2, MoneyRead, MoneyWrite, MoneyPoll, MoneyOther DEF Next
  <1>. QED
    BY <1>1, <1>2

\* Stock is sold only against money taken, for any number of orders, overlapping
\* calls, repeated webhooks and crashes.
THEOREM SoldIsCharged == Spec => []SoldOnlyIfCharged
  <1>1. Init => TypeOK /\ Money
    BY TypeInit, MoneyInit
  <1>2. TypeOK /\ Money /\ [Next]_vars => (TypeOK /\ Money)'
    BY TypeStep, MoneyStep
  <1>3. Money => SoldOnlyIfCharged
    BY DEF Money
  <1>. QED
    BY <1>1, <1>2, <1>3, PTL DEF Spec

-----------------------------------------------------------------------------
(* The state machine, and the order's column.                              *)

\* What each open call has read passed the check of that call.
ReadsChecked ==
    \A w \in Processes :
        /\ call[w].op \in {"confirm", "fail", "poll"} => call[w].saw \in {"PENDING", "RETRYING"}
        /\ call[w].op = "cancelPayment" => call[w].saw \in {"PENDING", "RETRYING", "FAILED"}
        /\ call[w].op = "retry" => call[w].saw \in {"PENDING", "FAILED"}

LEMMA ReadsBegin ==
    ASSUME TypeOK, ReadsChecked, NEW v \in Processes, NEW o \in Orders, NEW op, NEW saw,
           Begin(v, op, o, saw),
           op \in {"confirm", "fail", "poll"} => saw \in {"PENDING", "RETRYING"},
           op = "cancelPayment" => saw \in {"PENDING", "RETRYING", "FAILED"},
           op = "retry" => saw \in {"PENDING", "FAILED"}
    PROVE  ReadsChecked'
  <1>1. \A w \in Processes : call'[w] = IF w = v THEN [op |-> op, order |-> o, saw |-> saw]
                                        ELSE call[w]
    BY DEF Begin, TypeOK
  <1>. QED
    BY <1>1 DEF ReadsChecked

LEMMA ReadsEnd ==
    ASSUME TypeOK, ReadsChecked, NEW v \in Processes, End(v)
    PROVE  ReadsChecked'
  <1>1. \A w \in Processes : call'[w] = IF w = v THEN Idle ELSE call[w]
    BY DEF End, TypeOK
  <1>. QED
    BY <1>1 DEF ReadsChecked, Idle

LEMMA ReadsRead ==
    ASSUME NEW v \in Workers, NEW o \in Orders, TypeOK, ReadsChecked, ReadStep(v, o)
    PROVE  ReadsChecked'
  <1>w. v \in Processes
    BY DEF Processes
  <1>p. payment[o] \in PaymentState \union {"NONE"}
    BY DEF TypeOK
  <1>1. CASE StartRead(v, o) \/ CashierRead(v, o) \/ CancelOrderRead(v, o)
    BY <1>1, <1>w, ReadsBegin DEF StartRead, CashierRead, CancelOrderRead
  <1>2. CASE ConfirmRead(v, o) \/ FailRead(v, o)
    <2>1. payment[o] \in {"PENDING", "RETRYING"}
      BY <1>2, <1>p, Table DEF ConfirmRead, FailRead
    <2>. QED
      BY <1>2, <1>w, <2>1, ReadsBegin DEF ConfirmRead, FailRead
  <1>3. CASE ProviderCancelRead(v, o) \/ CancelPaymentRead(v, o)
    <2>1. payment[o] \in {"PENDING", "RETRYING", "FAILED"}
      BY <1>3, <1>p, Table DEF ProviderCancelRead, CancelPaymentRead
    <2>. QED
      BY <1>3, <1>w, <2>1, ReadsBegin DEF ProviderCancelRead, CancelPaymentRead
  <1>4. CASE RetryRead(v, o)
    <2>1. payment[o] \in {"PENDING", "FAILED"}
      BY <1>4, <1>p, Table DEF RetryRead
    <2>. QED
      BY <1>4, <1>w, <2>1, ReadsBegin DEF RetryRead
  <1>5. CASE \E to \in OrderStatus : TransitionRead(v, o, to)
    <2>1. PICK to \in OrderStatus : TransitionRead(v, o, to)
      BY <1>5
    <2>2. \A w \in Processes : call'[w] = IF w = v
              THEN [op |-> "transition", order |-> o, saw |-> status[o], to |-> to] ELSE call[w]
      BY <2>1, <1>w DEF TransitionRead, TypeOK
    <2>. QED
      BY <2>2 DEF ReadsChecked
  <1>. QED
    BY <1>1, <1>2, <1>3, <1>4, <1>5 DEF ReadStep

LEMMA ReadsWrite ==
    ASSUME NEW w \in Workers, TypeOK, ReadsChecked, WriteStep(w)
    PROVE  ReadsChecked'
  <1>w. w \in Processes
    BY DEF Processes
  <1>1. CASE End(w)
    BY <1>1, <1>w, ReadsEnd
  <1>2. CASE RetryWrite(w)
    <2>1. call[w] \in OpenCall
      BY <1>2, <1>w, NotIdle, CallShape DEF RetryWrite
    <2>2. \A v \in Processes : v # w => call'[v] = call[v]
      BY <1>2, <1>w DEF RetryWrite, TypeOK
    <2>3. call'[w].op = "lookup"
      BY <1>2, <1>w, <2>1 DEF RetryWrite, TypeOK, OpenCall
    <2>. QED
      BY <2>2, <2>3 DEF ReadsChecked
  <1>3. CASE RetryLookup(w) /\ ~End(w)
    <2>1. call[w] \in OpenCall
      BY <1>3, <1>w, NotIdle, CallShape DEF RetryLookup
    <2>2. payment[call[w].order] \in PaymentState \union {"NONE"}
      BY <2>1 DEF OpenCall, TypeOK
    <2>3. \E op \in {"confirm", "fail"} :
              /\ call' = [call EXCEPT ![w].op = op, ![w].saw = payment[call[w].order]]
              /\ payment[call[w].order] \in {"PENDING", "RETRYING"}
      BY <1>3, <2>2, Table DEF RetryLookup
    <2>4. call'[w].op \in {"confirm", "fail"} /\ call'[w].saw \in {"PENDING", "RETRYING"}
      BY <2>1, <2>3, <1>w DEF OpenCall, TypeOK
    <2>5. \A v \in Processes : v # w => call'[v] = call[v]
      BY <2>3, <1>w DEF TypeOK
    <2>. QED
      BY <2>4, <2>5 DEF ReadsChecked
  <1>. QED
    BY <1>1, <1>2, <1>3 DEF WriteStep, StartWrite, CashierWrite, ConfirmWrite, FailWrite,
       CancelPaymentWrite, CancelOrderWrite, TransitionWrite

LEMMA ReadsStep == TypeOK /\ ReadsChecked /\ [Next]_vars => ReadsChecked'
  <1>. SUFFICES ASSUME TypeOK, ReadsChecked, [Next]_vars PROVE ReadsChecked'
    OBVIOUS
  <1>1. CASE call' = call
    BY <1>1 DEF ReadsChecked
  <1>2. CASE \E o \in Orders, w \in Workers : ReadStep(w, o)
    BY <1>2, ReadsRead
  <1>3. CASE \E w \in Workers : WriteStep(w)
    BY <1>3, ReadsWrite
  <1>4. CASE \E o \in Orders : PollRead(o)
    BY <1>4, ReadsBegin DEF PollRead, Processes
  <1>5. CASE \E w \in Processes : End(w)
    BY <1>5, ReadsEnd
  <1>6. CASE Crash
    <2>1. \A w \in Processes : call'[w] = Idle
      BY <1>6 DEF Crash
    <2>. QED
      BY <2>1 DEF ReadsChecked, Idle
  <1>7. \/ call' = call
        \/ \E o \in Orders, w \in Workers : ReadStep(w, o)
        \/ \E w \in Workers : WriteStep(w)
        \/ \E o \in Orders : PollRead(o)
        \/ \E w \in Processes : End(w)
        \/ Crash
    BY DEF Next, vars, ProviderStep, Charge, Decline, IntentCanceled, ReservationExpires,
       HandleEvent, PollWrite, PollPaid, PollFailed, PollPending, Abort, Processes
  <1>. QED
    BY <1>1, <1>2, <1>3, <1>4, <1>5, <1>6, <1>7

\* What a step does to the payment of an order that no stale write has hit: it
\* follows the state machine, and the column is told of money and cancellation.
PaymentStep(o) ==
    \/ payment'[o] = payment[o] /\ paymentStatus'[o] = paymentStatus[o]
    \/ payment[o] = "NONE" /\ payment'[o] = "PENDING" /\ paymentStatus'[o] = paymentStatus[o]
    \/ payment[o] = "NONE" /\ payment'[o] = "COMPLETED" /\ paymentStatus'[o] = "COMPLETED"
    \/ /\ payment[o] \in {"PENDING", "RETRYING"}
       /\ \/ payment'[o] = "PAID" /\ paymentStatus'[o] = "COMPLETED"
          \/ payment'[o] = "FAILED" /\ paymentStatus'[o] \in {"FAILED", paymentStatus[o]}
    \/ /\ payment[o] \in {"PENDING", "RETRYING", "FAILED"}
       /\ payment'[o] = "CANCELLED" /\ paymentStatus'[o] = "CANCELLED"
    \/ /\ payment[o] \in {"PENDING", "FAILED"}
       /\ payment'[o] = "RETRYING" /\ paymentStatus'[o] = paymentStatus[o]

LEMMA StepShape ==
    ASSUME TypeOK, ReadsChecked, [Next]_vars, NEW o \in Orders \ stale'
    PROVE  PaymentStep(o)
  <1>1. CASE UNCHANGED <<payment, paymentStatus>>
    BY <1>1 DEF PaymentStep
  <1>2. CASE \E w \in Workers : WriteStep(w)
    <2>1. PICK w \in Workers : WriteStep(w)
      BY <1>2
    <2>2. w \in Processes
      BY DEF Processes
    <2>3. CASE StartWrite(w) \/ CashierWrite(w)
      BY <2>3 DEF StartWrite, CashierWrite, SetBoth, PaymentStep, TypeOK
    <2>4. CASE ConfirmWrite(w) \/ FailWrite(w)
      <3>1. call[w].saw \in {"PENDING", "RETRYING"}
        BY <2>2, <2>4 DEF ReadsChecked, ConfirmWrite, FailWrite
      <3>2. o = call[w].order => payment[o] = call[w].saw
        BY <2>4 DEF ConfirmWrite, FailWrite, NoteStale, TypeOK
      <3>. QED
        BY <2>4, <3>1, <3>2 DEF ConfirmWrite, FailWrite, SetBoth, PaymentStep, TypeOK
    <2>5. CASE CancelPaymentWrite(w)
      <3>1. call[w].saw \in {"PENDING", "RETRYING", "FAILED"}
        BY <2>2, <2>5 DEF ReadsChecked, CancelPaymentWrite
      <3>2. o = call[w].order => payment[o] = call[w].saw
        BY <2>5 DEF CancelPaymentWrite, NoteStale, TypeOK
      <3>. QED
        BY <2>5, <3>1, <3>2 DEF CancelPaymentWrite, SetBoth, PaymentStep, TypeOK
    <2>6. CASE RetryWrite(w)
      <3>1. call[w].saw \in {"PENDING", "FAILED"}
        BY <2>2, <2>6 DEF ReadsChecked, RetryWrite
      <3>2. o = call[w].order => payment[o] = call[w].saw
        BY <2>6 DEF RetryWrite, NoteStale, TypeOK
      <3>. QED
        BY <2>6, <3>1, <3>2 DEF RetryWrite, PaymentStep, TypeOK
    <2>7. CASE RetryLookup(w) \/ CancelOrderWrite(w) \/ TransitionWrite(w)
      BY <2>7 DEF RetryLookup, ReadOnly, CancelOrderWrite, TransitionWrite, PaymentStep
    <2>. QED
      BY <2>1, <2>3, <2>4, <2>5, <2>6, <2>7 DEF WriteStep
  <1>3. CASE PollPaid \/ PollFailed
    <2>1. call[Poller].saw \in {"PENDING", "RETRYING"}
      BY <1>3 DEF ReadsChecked, PollPaid, PollFailed, Processes
    <2>2. o = call[Poller].order => payment[o] = call[Poller].saw
      BY <1>3 DEF PollPaid, PollFailed, NoteStale, TypeOK
    <2>. QED
      BY <1>3, <2>1, <2>2 DEF PollPaid, PollFailed, SetBoth, PaymentStep, TypeOK
  <1>4. \/ UNCHANGED <<payment, paymentStatus>>
        \/ \E w \in Workers : WriteStep(w)
        \/ PollPaid \/ PollFailed
    <2>1. \A q \in Orders, w \in Workers : ReadStep(w, q) => ReadOnly
      BY DEF ReadStep, StartRead, CashierRead, ConfirmRead, FailRead, ProviderCancelRead,
         CancelPaymentRead, RetryRead, CancelOrderRead, TransitionRead
    <2>. QED
      BY <2>1 DEF Next, vars, ReadOnly, ProviderStep, Charge, Decline, IntentCanceled, PollRead,
         ReservationExpires, HandleEvent, PollWrite, PollPending, Abort, Crash
  <1>. QED
    BY <1>1, <1>2, <1>3, <1>4

\* Histories only grow.
LEMMA StaleStays == [Next]_vars => stale \subseteq stale'
    BY DEF Next, vars, ReadOnly, ProviderStep, Charge, Decline, IntentCanceled, PollRead,
       ReservationExpires, HandleEvent, PollWrite, PollPending, PollPaid, PollFailed, Abort, Crash,
       NoteStale, ReadStep, StartRead, CashierRead, ConfirmRead, FailRead, ProviderCancelRead,
       CancelPaymentRead, RetryRead, CancelOrderRead, TransitionRead, WriteStep, StartWrite,
       CashierWrite, ConfirmWrite, FailWrite, CancelPaymentWrite, RetryWrite, RetryLookup,
       CancelOrderWrite, TransitionWrite

LEMMA ReadsInvariant == Spec => [](TypeOK /\ ReadsChecked)
  <1>1. Init => TypeOK /\ ReadsChecked
    BY TypeInit DEF Init, ReadsChecked, Idle
  <1>2. TypeOK /\ ReadsChecked /\ [Next]_vars => (TypeOK /\ ReadsChecked)'
    BY TypeStep, ReadsStep
  <1>. QED
    BY <1>1, <1>2, PTL DEF Spec

\* The order's paymentStatus and the payment agree on money and on cancellation
\* for every order that no stale write has hit.
THEOREM ColumnsInStep == Spec => []ColumnsAgree
  <1>1. Init => ColumnsAgree
    <2>. SUFFICES ASSUME Init, NEW o \in Orders
                  PROVE  /\ (paymentStatus[o] = "COMPLETED") = (payment[o] \in {"PAID", "COMPLETED"})
                         /\ (paymentStatus[o] = "CANCELLED") = (payment[o] = "CANCELLED")
      BY DEF ColumnsAgree
    <2>1. paymentStatus[o] = "PENDING" /\ payment[o] = "NONE"
      BY DEF Init
    <2>. QED
      BY <2>1
  <1>2. TypeOK /\ ReadsChecked /\ ColumnsAgree /\ [Next]_vars => ColumnsAgree'
    <2>. SUFFICES ASSUME TypeOK, ReadsChecked, ColumnsAgree, [Next]_vars,
                         NEW o \in Orders \ stale'
                  PROVE  /\ (paymentStatus'[o] = "COMPLETED") = (payment'[o] \in {"PAID", "COMPLETED"})
                         /\ (paymentStatus'[o] = "CANCELLED") = (payment'[o] = "CANCELLED")
      BY DEF ColumnsAgree
    <2>1. PaymentStep(o)
      BY StepShape
    <2>2. o \in Orders \ stale
      BY StaleStays
    <2>. QED
      BY <2>1, <2>2 DEF PaymentStep, ColumnsAgree
  <1>. QED
    BY <1>1, <1>2, ReadsInvariant, PTL DEF Spec

\* Every change of a payment that no stale write has hit is an edge of the state
\* machine: late, repeated and reordered reports of the provider change nothing.
THEOREM MachineFollowed == Spec => PaymentFollowsMachine
  <1>1. TypeOK /\ ReadsChecked /\ [Next]_vars =>
            [\A o \in Orders \ stale' :
                payment[o] # "NONE" /\ payment'[o] # payment[o] =>
                    CanTransition(payment[o], payment'[o])]_vars
    <2>. SUFFICES ASSUME TypeOK, ReadsChecked, [Next]_vars, NEW o \in Orders \ stale',
                         payment[o] # "NONE", payment'[o] # payment[o]
                  PROVE  CanTransition(payment[o], payment'[o])
      OBVIOUS
    <2>1. PaymentStep(o) /\ payment[o] \in PaymentState
      BY StepShape DEF TypeOK
    <2>. QED
      BY <2>1, Table DEF PaymentStep
  <1>. QED
    BY <1>1, ReadsInvariant, PTL DEF Spec, PaymentFollowsMachine
=============================================================================
