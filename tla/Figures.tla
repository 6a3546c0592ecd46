-------------------------------- MODULE Figures --------------------------------
(***************************************************************************)
(* What the figures of a tenant say: StoreDailyMetrics, which the payment  *)
(* handlers keep up to date event by event; the tables that the nightly    *)
(* jobs compute from orders and payments; and the dashboards and reports   *)
(* that read them, in Reports.  A sale is an order with its payment.  Time *)
(* is in days; the jobs of the night run once in a day, at any moment of   *)
(* it.  A metrics row is changed by one statement, but its average is read *)
(* and written back.                                                       *)
(***************************************************************************)
EXTENDS Integers, FiniteSets, FiniteSetsExt, Pricing

CONSTANTS
    Stores,
    Sales,
    Offer,        \* of each sale: its total in cents, and where and how it may be made
    LastDay,      \* bound
    MaxLost,      \* bound: handlers that fail
    Tolerance     \* variance of a reconciliation that needs no review, 100 cents

FiguresAssumption ==
    /\ IsFiniteSet(Stores) /\ IsFiniteSet(Sales)
    /\ \A s \in Sales : /\ Offer[s].price \in Nat \ {0} /\ Offer[s].stores \subseteq Stores
                        /\ Offer[s].quantity \in Nat /\ Offer[s].subtotal \in Nat
    /\ LastDay \in Nat /\ MaxLost \in Nat /\ Tolerance \in Nat

VARIABLES
    now,
    sales,        \* [store, placed, order, pay, method, charged, back]
    call,         \* the handler of each event of a sale
    metrics,      \* StoreDailyMetrics of each store and day
    blurred,      \* rows whose average two handlers worked on at the same time
    orderDaily,   \* OrderDailyMetrics, NoRow where the job has not run
    reconciled    \* DailyReconciliation, likewise

figuresVars == <<now, sales, call, metrics, blurred, orderDaily, reconciled>>

Days == 0 .. LastDay
Kinds == {"sold", "failed", "voided", "refunded"}
TillMethods == {"CASH", "CARD_TERMINAL"}
Providers == {"STRIPE", "WALLET"}

NoSale == [store |-> "none", placed |-> 0, order |-> "none",
           pay |-> "none", method |-> "none", charged |-> 0, back |-> 0]
NoCall == [at |-> "idle", day |-> 0, avg |-> 0]
NoMetrics == [exists |-> FALSE, gross |-> 0, net |-> 0, refunded |-> 0,
              ok |-> 0, failed |-> 0, avg |-> 0]
NoRow == [exists |-> FALSE]

Placed == {s \in Sales : sales[s].order # "none"}
Revenue(S) == SumFunction([s \in S |-> Offer[s].price])
Tax(s) == Percent(10, Offer[s].price)

-----------------------------------------------------------------------------
\* The sale, as the order and payment services move it; each event calls its
\* handler.
Change(s, row) == sales' = [sales EXCEPT ![s] = row]
Emit(s, kind) == call' = [call EXCEPT ![s][kind].at = "due"]

Place(s, st) ==
    /\ sales[s].order = "none"
    /\ Change(s, [sales[s] EXCEPT !.store = st, !.placed = now, !.order = "PENDING"])
    /\ UNCHANGED <<now, call, metrics, blurred, orderDaily, reconciled>>

CancelOrder(s) ==
    /\ sales[s].order = "PENDING"
    /\ Change(s, [sales[s] EXCEPT !.order = "CANCELLED"])
    /\ UNCHANGED <<now, call, metrics, blurred, orderDaily, reconciled>>

\* The till takes an order with no payment, whatever its status.
PayAtTill(s, method) ==
    /\ s \in Placed /\ sales[s].pay = "none"
    /\ Change(s, [sales[s] EXCEPT !.order = "PAID", !.pay = "COMPLETED", !.method = method,
                              !.charged = now])
    /\ Emit(s, "sold")
    /\ UNCHANGED <<now, metrics, blurred, orderDaily, reconciled>>

StartPayment(s, method) ==
    /\ sales[s].order = "PENDING" /\ sales[s].pay = "none"
    /\ Change(s, [sales[s] EXCEPT !.pay = "PENDING", !.method = method, !.charged = now])
    /\ UNCHANGED <<now, call, metrics, blurred, orderDaily, reconciled>>

ConfirmPayment(s) ==
    /\ sales[s].pay = "PENDING"
    /\ Change(s, [sales[s] EXCEPT !.order = "PAID", !.pay = "PAID"])
    /\ Emit(s, "sold")
    /\ UNCHANGED <<now, metrics, blurred, orderDaily, reconciled>>

FailPayment(s) ==
    /\ sales[s].pay = "PENDING"
    /\ Change(s, [sales[s] EXCEPT !.order = "PAYMENT_FAILED", !.pay = "FAILED"])
    /\ Emit(s, "failed")
    /\ UNCHANGED <<now, metrics, blurred, orderDaily, reconciled>>

\* Kitchen steps between PAID and READY are those of OrderPayment.
Complete(s) ==
    /\ sales[s].order \in {"PAID", "READY"}
    /\ Change(s, [sales[s] EXCEPT !.order = "COMPLETED"])
    /\ UNCHANGED <<now, call, metrics, blurred, orderDaily, reconciled>>

Void(s) ==
    /\ sales[s].pay = "COMPLETED"
    /\ now - sales[s].charged <= 1
    /\ Change(s, [sales[s] EXCEPT !.order = "READY", !.pay = "VOIDED"])
    /\ Emit(s, "voided")
    /\ UNCHANGED <<now, metrics, blurred, orderDaily, reconciled>>

\* Only a provider's payment can be refunded; one refund for each sale here.
Refund(s, amount) ==
    /\ sales[s].pay = "PAID" /\ amount \in 1 .. Offer[s].price
    /\ Change(s, [sales[s] EXCEPT !.back = amount,
                  !.pay = IF amount = Offer[s].price THEN "REFUNDED" ELSE "PARTIALLY_REFUNDED"])
    /\ Emit(s, "refunded")
    /\ UNCHANGED <<now, metrics, blurred, orderDaily, reconciled>>

-----------------------------------------------------------------------------
\* recordPayment: one upsert of the row of the day the handler runs.
recordPayment(row, price) ==
    [row EXCEPT !.exists = TRUE, !.gross = @ + price, !.net = @ + price, !.ok = @ + 1,
                !.avg = IF row.exists THEN @ ELSE price]

recordFailedPayment(row) == [row EXCEPT !.exists = TRUE, !.failed = @ + 1]

recordRefund(row, amount) ==
    [row EXCEPT !.exists = TRUE, !.refunded = @ + amount, !.net = @ - amount]

\* Faulty variant: the event carries the amount.
recordVoidAmount(row, price) ==
    [row EXCEPT !.exists = TRUE, !.ok = @ - 1, !.gross = @ - price, !.net = @ - price]

\* PAYMENT_VOIDED carries no amount, so the handler passes 0; and a row that
\* the void has to create starts with no payments, not with one less.
recordVoid(row, price) ==
    [row EXCEPT !.exists = TRUE, !.ok = IF row.exists THEN @ - 1 ELSE @]

Upserted(row, s, kind) ==
    CASE kind = "sold" -> recordPayment(row, Offer[s].price)
      [] kind = "failed" -> recordFailedPayment(row)
      [] kind = "voided" -> recordVoid(row, Offer[s].price)
      [] kind = "refunded" -> recordRefund(row, sales[s].back)

Averaged(kind) == kind \in {"sold", "voided"}
Averaging(st, d) ==
    \E s \in Sales, k \in Kinds :
        sales[s].store = st /\ call[s][k].at = "averaging" /\ call[s][k].day = d

Record(s, k) ==
    LET st == sales[s].store
        d == now
        row == metrics[st][d]
    IN  /\ call[s][k].at = "due"
        /\ metrics' = [metrics EXCEPT ![st][d] = Upserted(row, s, k)]
        /\ call' = [call EXCEPT ![s][k].at = IF Averaged(k) THEN "recorded" ELSE "done",
                                ![s][k].day = d]
        /\ blurred' = IF Averaged(k) /\ Averaging(st, d) THEN blurred \union {<<st, d>>} ELSE blurred
        /\ UNCHANGED <<now, sales, orderDaily, reconciled>>

\* The statement fails: the handler logs it and the event is gone.
RecordFails(s, k) ==
    /\ call[s][k].at = "due"
    /\ Cardinality({x \in Sales \X Kinds : call[x[1]][x[2]].at = "lost"}) < MaxLost
    /\ call' = [call EXCEPT ![s][k].at = "lost"]
    /\ UNCHANGED <<now, sales, metrics, blurred, orderDaily, reconciled>>

AverageRead(s, k) ==
    LET row == metrics[sales[s].store][call[s][k].day]
    IN  /\ call[s][k].at = "recorded"
        /\ call' = IF row.ok > 0
                      THEN [call EXCEPT ![s][k].at = "averaging", ![s][k].avg = Round(row.gross, row.ok)]
                      ELSE [call EXCEPT ![s][k].at = "done"]
        /\ UNCHANGED <<now, sales, metrics, blurred, orderDaily, reconciled>>

AverageWrite(s, k) ==
    /\ call[s][k].at = "averaging"
    /\ metrics' = [metrics EXCEPT ![sales[s].store][call[s][k].day].avg = call[s][k].avg]
    /\ call' = [call EXCEPT ![s][k] = [NoCall EXCEPT !.at = "done"]]
    /\ UNCHANGED <<now, sales, blurred, orderDaily, reconciled>>

-----------------------------------------------------------------------------
PlacedOn(st, d) == {s \in Placed : sales[s].store = st /\ sales[s].placed = d}
InStatus(S, o) == {s \in S : sales[s].order = o}
TillTakings(st, d, method) ==
    Revenue({s \in Placed : /\ sales[s].store = st /\ sales[s].pay = "COMPLETED"
                            /\ sales[s].method = method /\ sales[s].charged = d})

\* Faulty variant: the day that has just begun.
MetricsDayToday == now

\* OrderMetricsCalculationJob takes the day before the one it runs on ...
MetricsDay == now - 1

calculateStoreMetrics(st) ==
    LET day == PlacedOn(st, MetricsDay)
        completed == InStatus(day, "COMPLETED")
    IN  [exists |-> TRUE, total |-> Cardinality(day), completed |-> Cardinality(completed),
         cancelled |-> Cardinality(InStatus(day, "CANCELLED")), revenue |-> Revenue(completed),
         average |-> IF completed = {} THEN 0 ELSE Round(Revenue(completed), Cardinality(completed))]

OrderMetricsJob ==
    /\ now >= 1
    /\ \A st \in Stores : ~orderDaily[st][MetricsDay].exists
    /\ orderDaily' = [st \in Stores |-> [orderDaily[st] EXCEPT ![MetricsDay] = calculateStoreMetrics(st)]]
    /\ UNCHANGED <<now, sales, call, metrics, blurred, reconciled>>

\* ... but DailyReconciliationJob, an hour earlier, the day it runs on.
ReconcileDay == now

reconcileStore(st) ==
    LET done == InStatus(PlacedOn(st, ReconcileDay), "COMPLETED")
        declared == TillTakings(st, ReconcileDay, "CASH") + TillTakings(st, ReconcileDay, "CARD_TERMINAL")
        variance == declared - Revenue(done)
        has == variance > Tolerance \/ -variance > Tolerance
    IN  [exists |-> TRUE, count |-> Cardinality(done), ordersTotal |-> Revenue(done),
         declared |-> declared, variance |-> variance, hasVariance |-> has,
         status |-> IF has THEN "NEEDS_REVIEW" ELSE "RECONCILED"]

ReconciliationJob ==
    /\ \A st \in Stores : ~reconciled[st][ReconcileDay].exists
    /\ reconciled' = [st \in Stores |-> [reconciled[st] EXCEPT ![ReconcileDay] = reconcileStore(st)]]
    /\ UNCHANGED <<now, sales, call, metrics, blurred, orderDaily>>

Tick ==
    /\ now < LastDay
    /\ now' = now + 1
    /\ UNCHANGED <<sales, call, metrics, blurred, orderDaily, reconciled>>

-----------------------------------------------------------------------------
Init ==
    /\ now = 0
    /\ sales = [s \in Sales |-> NoSale]
    /\ call = [s \in Sales |-> [k \in Kinds |-> NoCall]]
    /\ metrics = [st \in Stores |-> [d \in Days |-> NoMetrics]]
    /\ blurred = {}
    /\ orderDaily = [st \in Stores |-> [d \in Days |-> NoRow]]
    /\ reconciled = [st \in Stores |-> [d \in Days |-> NoRow]]

PaymentNext ==
    \E s \in Sales :
        \/ \E st \in Offer[s].stores : Place(s, st)
        \/ \E m \in TillMethods \intersect Offer[s].methods : PayAtTill(s, m)
        \/ \E m \in Providers \intersect Offer[s].methods : StartPayment(s, m)
        \/ ConfirmPayment(s) \/ FailPayment(s) \/ Void(s)
        \/ \E amount \in {1, Offer[s].price} : Refund(s, amount)

HandlerNext ==
    \E s \in Sales, k \in Kinds :
        Record(s, k) \/ RecordFails(s, k) \/ AverageRead(s, k) \/ AverageWrite(s, k)

OrderNext == \E s \in Sales : CancelOrder(s) \/ Complete(s)

JobNext == OrderMetricsJob \/ ReconciliationJob

Next == PaymentNext \/ HandlerNext \/ OrderNext \/ JobNext \/ Tick

Spec == Init /\ [][Next]_figuresVars
================================================================================
