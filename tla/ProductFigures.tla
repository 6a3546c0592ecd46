---------------------------- MODULE ProductFigures ----------------------------
(***************************************************************************)
(* What the figures say of products, categories and hours, over the sales  *)
(* of Figures: the counters of items sold, which the stock handlers of a   *)
(* payment's events keep; ProductDailyMetrics, which two nightly jobs      *)
(* write; HourlyRevenue; and the reports that read them.  A handler counts *)
(* an order for its store first and for its category in a later statement, *)
(* always in the rows of the day it runs on.                               *)
(*                                                                         *)
(* An Offer also names the category of its product.  A product is one      *)
(* store's, so it is known by the store and its name.                      *)
(***************************************************************************)
EXTENDS Reports

VARIABLES
    stage,        \* how far the stock handler of each event of a sale is
    items,        \* StoreDailyMetrics.itemsSold
    category,     \* CategoryDailyMetrics.itemsSold
    product,      \* ProductDailyMetrics, NoRow where no job wrote one
    hourly,       \* HourlyRevenue, likewise
    ran,          \* what the jobs have run for
    finished,     \* history: orders that were completed at some time
    late          \* history: orders completed after a job ran that counts them

productVars == <<stage, items, category, product, hourly, ran, finished, late>>

Categories == {Offer[s].category : s \in Sales}
Reversals == {"voided", "refunded"}
NoStage == [at |-> "idle", day |-> 0]
Empty == [exists |-> FALSE, sold |-> 0]

-----------------------------------------------------------------------------
\* The stock handlers of PAYMENT_CONFIRMED and CASHIER_PAYMENT_COMPLETED, of
\* PAYMENT_VOIDED and of REFUND_COMPLETED.
HandlerDue(s, k) ==
    /\ call[s][k].at # "idle" /\ stage[s][k].at = "idle"
    /\ k = "refunded" => sales[s].back >= Offer[s].price

Reached(s, k, at) == stage' = [stage EXCEPT ![s][k] = [at |-> at, day |-> now]]
Passed(s, k, at) == stage' = [stage EXCEPT ![s][k].at = at]

\* updateItemsSoldMetrics: upsert of the store's row, then of the category's.
ItemsSold(s) ==
    /\ HandlerDue(s, "sold")
    /\ items' = [items EXCEPT ![sales[s].store][now] =
                    [exists |-> TRUE, sold |-> @.sold + Offer[s].quantity]]
    /\ metrics' = [metrics EXCEPT ![sales[s].store][now].exists = TRUE]
    /\ Reached(s, "sold", "store")
    /\ UNCHANGED <<now, sales, call, blurred, orderDaily, reconciled,
                   category, product, hourly, ran, finished, late>>

\* Faulty variant: the second statement asks for the day once more.
CategorySoldToday(s) ==
    /\ stage[s]["sold"].at = "store"
    /\ category' = [category EXCEPT ![sales[s].store][Offer[s].category][now] =
                       [exists |-> TRUE, sold |-> @.sold + Offer[s].quantity]]
    /\ Passed(s, "sold", "done")
    /\ UNCHANGED <<figuresVars, items, product, hourly, ran, finished, late>>

CategorySold(s) ==
    /\ stage[s]["sold"].at = "store"
    /\ category' = [category EXCEPT ![sales[s].store][Offer[s].category][stage[s]["sold"].day] =
                       [exists |-> TRUE, sold |-> @.sold + Offer[s].quantity]]
    /\ Passed(s, "sold", "done")
    /\ UNCHANGED <<figuresVars, items, product, hourly, ran, finished, late>>

\* updateMany: of the row of today, if there is one.
Reversed(row, quantity) == [row EXCEPT !.sold = IF row.exists THEN @ - quantity ELSE @]

\* reverseItemsSoldMetrics.
ItemsReversed(s, k) ==
    LET st == sales[s].store
        there == metrics[st][now].exists
        row == [items[st][now] EXCEPT !.exists = there]
    IN  /\ HandlerDue(s, k)
        /\ items' = [items EXCEPT ![st][now] = Reversed(row, Offer[s].quantity)]
        /\ Reached(s, k, IF there THEN "store" ELSE "no store")
        /\ UNCHANGED <<figuresVars, category, product, hourly, ran, finished, late>>

CategoryReversed(s, k) ==
    LET st == sales[s].store
        d == stage[s][k].day
        row == category[st][Offer[s].category][d]
    IN  /\ stage[s][k].at \in {"store", "no store"}
        /\ category' = [category EXCEPT ![st][Offer[s].category][d] = Reversed(row, Offer[s].quantity)]
        /\ Passed(s, k, IF stage[s][k].at = "store" /\ row.exists THEN "done" ELSE "missed")
        /\ UNCHANGED <<figuresVars, items, product, hourly, ran, finished, late>>

\* The stock of the order is settled first in the same handler; when that or a
\* statement here fails, the rest is not done.
CountFails(s, k) ==
    /\ HandlerDue(s, k) \/ stage[s][k].at \in {"store", "no store"}
    /\ Cardinality({x \in Sales \X Kinds : stage[x[1]][x[2]].at = "lost"}) < MaxLost
    /\ stage' = [stage EXCEPT ![s][k] = [at |-> "lost", day |-> now]]
    /\ UNCHANGED <<figuresVars, items, category, product, hourly, ran, finished, late>>

-----------------------------------------------------------------------------
\* The lines of a product in completed orders of a day.
LinesOf(st, p, d) ==
    {s \in InStatus(PlacedOn(st, d), "COMPLETED") : Offer[s].product = p}

ProductsOf(st) == {Offer[s].product : s \in {x \in Sales : st \in Offer[x].stores}}

FirstRun(what) == what \notin ran /\ ran' = ran \union {what}

\* ProductMetricsCalculationJob, for the day before.  It multiplies a price that
\* a line does not have: the sums of a product that was sold are not numbers,
\* its row is refused, and the job goes on.
calculateProductMetrics(st, p) ==
    /\ now >= 1
    /\ FirstRun(<<"metrics", st, p, now - 1>>)
    /\ product' = IF LinesOf(st, p, now - 1) = {}
                    THEN [product EXCEPT ![st][p][now - 1] =
                             [exists |-> TRUE, quantity |-> 0, orders |-> 0, revenue |-> 0]]
                    ELSE product
    /\ UNCHANGED <<figuresVars, stage, items, category, hourly, finished, late>>

\* Faulty variant: orders in every status count.
SoldAnyStatus(st, d) ==
    [p \in {Offer[s].product : s \in PlacedOn(st, d)} |->
        LET S == {s \in PlacedOn(st, d) : Offer[s].product = p}
        IN  [exists |-> TRUE, quantity |-> Quantity(S), orders |-> Count(S), revenue |-> Subtotal(S)]]

SoldSoFar(st, d) ==
    [p \in {Offer[s].product : s \in InStatus(PlacedOn(st, d), "COMPLETED")} |->
        LET S == LinesOf(st, p, d)
        IN  [exists |-> TRUE, quantity |-> Quantity(S), orders |-> Count(S), revenue |-> Subtotal(S)]]

\* ProductPopularityJob: the day it runs on, as far as it has gone.
runDaily ==
    /\ FirstRun(<<"popularity", now>>)
    /\ product' = [st \in Stores |-> [p \in ProductsSold |->
                     IF p \in DOMAIN SoldSoFar(st, now)
                       THEN [product[st][p] EXCEPT ![now] = SoldSoFar(st, now)[p]]
                       ELSE product[st][p]]]
    /\ UNCHANGED <<figuresVars, stage, items, category, hourly, finished, late>>

InHour(st, h, d) == {s \in InStatus(PlacedOn(st, d), "COMPLETED") : Offer[s].hour = h}

\* HourlyRevenueJob runs five minutes into each hour, for that hour: before any
\* order of a later one.
HourlyRevenueJob(h) ==
    /\ \A s \in Placed : sales[s].placed = now => Offer[s].hour <= h
    /\ FirstRun(<<"hour", h, now>>)
    /\ hourly' = [st \in Stores |->
                    IF InHour(st, h, now) = {} THEN hourly[st]
                    ELSE [hourly[st] EXCEPT ![h][now] =
                             [exists |-> TRUE, revenue |-> Revenue(InHour(st, h, now)),
                              orders |-> Count(InHour(st, h, now))]]]
    /\ UNCHANGED <<figuresVars, stage, items, category, product, finished, late>>

-----------------------------------------------------------------------------
\* The reports, over the stores S and the days D.
ProductRows(S, p, D) == {x \in S \X D : product[x[1]][p][x[2]].exists}
ProductTotals(S, D) ==
    [p \in {q \in ProductsSold : ProductRows(S, q, D) # {}} |->
        LET rows == ProductRows(S, p, D)
        IN  [quantity |-> Sum(rows, LAMBDA r : product[r[1]][p][r[2]].quantity),
             revenue |-> Sum(rows, LAMBDA r : product[r[1]][p][r[2]].revenue),
             count |-> Count(rows)]]

getTopProducts(S, D) == ProductTotals(S, D)
getProductPerformance(st, D) == ProductTotals({st}, D)
generateProductReport(S, D) ==
    LET rows == ProductTotals(S, D)
    IN  [rows |-> rows, productCount |-> Count(DOMAIN rows),
         totalRevenue |-> SumOf(rows, LAMBDA r : r.revenue)]

getCategoryPerformance(S, D) ==
    [c \in Categories |-> Sum({r \in S \X D : category[r[1]][c][r[2]].exists},
                              LAMBDA r : category[r[1]][c][r[2]].sold)]
getAnalytics(c, D) == getCategoryPerformance(Stores, D)[c]

getHourlyRevenue(S, D) ==
    Sum({r \in S \X Hours \X D : hourly[r[1]][r[2]][r[3]].exists},
        LAMBDA r : hourly[r[1]][r[2]][r[3]].revenue)

-----------------------------------------------------------------------------
ProductInit ==
    /\ Init
    /\ stage = [s \in Sales |-> [k \in Kinds |-> NoStage]]
    /\ items = [st \in Stores |-> [d \in Days |-> Empty]]
    /\ category = [st \in Stores |-> [c \in Categories |-> [d \in Days |-> Empty]]]
    /\ product = [st \in Stores |-> [p \in ProductsSold |-> [d \in Days |-> NoRow]]]
    /\ hourly = [st \in Stores |-> [h \in Hours |-> [d \in Days |-> NoRow]]]
    /\ ran = {}
    /\ finished = {}
    /\ late = {}

JobsPast(s) ==
    {job \in {<<"popularity", sales[s].placed>>, <<"hour", Offer[s].hour, sales[s].placed>>} : job \in ran}

\* What happens to the sales themselves.
SaleStep ==
    /\ PaymentNext \/ OrderNext \/ Tick
    /\ LET done == {s \in Sales : sales'[s].order = "COMPLETED" /\ sales[s].order # "COMPLETED"}
       IN  /\ finished' = finished \union done
           /\ late' = late \union UNION {{s} \X JobsPast(s) : s \in done}
    /\ UNCHANGED <<stage, items, category, product, hourly, ran>>

ItemsNext ==
    \/ SaleStep
    \/ \E s \in Sales :
           \/ ItemsSold(s) \/ CategorySold(s)
           \/ \E k \in Reversals : ItemsReversed(s, k) \/ CategoryReversed(s, k)
           \/ \E k \in Reversals \union {"sold"} : CountFails(s, k)

ProductJobsNext ==
    \/ SaleStep
    \/ \E st \in Stores : \E p \in ProductsOf(st) : calculateProductMetrics(st, p)
    \/ runDaily
    \/ \E h \in Hours : HourlyRevenueJob(h)

ProductSpec == ProductInit /\ [][ItemsNext \/ ProductJobsNext]_<<figuresVars, productVars>>

-----------------------------------------------------------------------------
\* A handler of a sale of the store is under way, failed, found no row to
\* reverse, or ran on another day than the sale's own.
Settled(st) ==
    \A s \in Sales : sales[s].store = st =>
        /\ \A k \in Reversals \union {"sold"} :
              ~HandlerDue(s, k) /\ stage[s][k].at \in {"idle", "done"}
        /\ \A k \in Reversals : stage[s][k].at = "done" => stage[s][k].day = stage[s]["sold"].day

\* The items of a store and day are those of the payments counted that day that
\* still stand, and its categories divide them up, once all handlers are
\* through: in whatever order the handlers of a sale, its void and its refund
\* get to the same rows.
ItemsFollowSales ==
    \A st \in Stores : Settled(st) =>
        \A d \in Days :
            LET standing == {s \in Sales : /\ sales[s].store = st
                                           /\ sales[s].pay \in {"PAID", "COMPLETED", "PARTIALLY_REFUNDED"}
                                           /\ stage[s]["sold"] = [at |-> "done", day |-> d]}
            IN  /\ items[st][d].sold = Quantity(standing)
                /\ \A c \in Categories :
                      category[st][c][d].sold = Quantity({s \in standing : Offer[s].category = c})

\* A void takes an order back from COMPLETED; no row follows it.
NoneVoided(S) == \A s \in S : sales[s].pay # "VOIDED"

\* An order that was completed before the job came is in the row of its product
\* or hour, exactly once, and one completed after it never gets in: no later run
\* adds it, and the job of the next morning takes nothing away.
ProductsFollowOrders ==
    \A st \in Stores, p \in ProductsSold, d \in Days :
        LET sold == {s \in PlacedOn(st, d) : Offer[s].product = p /\ s \in finished}
            counted == {s \in sold : <<s, <<"popularity", d>>>> \notin late}
        IN  /\ product[st][p][d].exists => product[st][p][d].revenue <= Subtotal(sold)
            /\ <<"popularity", d>> \in ran /\ NoneVoided(sold) =>
                  IF product[st][p][d].exists
                    THEN /\ product[st][p][d].quantity = Quantity(counted)
                         /\ product[st][p][d].orders = Count(counted)
                    ELSE counted = {}

HoursFollowOrders ==
    \A st \in Stores, h \in Hours, d \in Days :
        LET sold == {s \in PlacedOn(st, d) : Offer[s].hour = h /\ s \in finished}
            counted == {s \in sold : <<s, <<"hour", h, d>>>> \notin late}
        IN  /\ hourly[st][h][d].exists => hourly[st][h][d].revenue <= Revenue(sold)
            /\ <<"hour", h, d>> \in ran /\ NoneVoided(sold) =>
                  IF hourly[st][h][d].exists THEN hourly[st][h][d].orders = Count(counted)
                                             ELSE counted = {}

\* The reports over these tables agree with each other, and none shows more than
\* the orders that were completed.
ProductReportsAgree ==
    LET report == generateProductReport(Stores, Days)
    IN  /\ \A p \in DOMAIN report.rows :
              /\ report.rows[p] = getTopProducts(Stores, Days)[p]
              /\ report.rows[p].quantity =
                    Sum({st \in Stores : p \in DOMAIN getProductPerformance(st, Days)},
                        LAMBDA st : getProductPerformance(st, Days)[p].quantity)
        /\ report.totalRevenue <= Subtotal(finished)
        /\ getHourlyRevenue(Stores, Days) <= Revenue(finished)
        /\ RevenueOf([d \in Days |-> [revenue |-> getHourlyRevenue(Stores, {d})]])
              = getHourlyRevenue(Stores, Days)

ProductFiguresAgree ==
    ItemsFollowSales /\ ProductsFollowOrders /\ HoursFollowOrders /\ ProductReportsAgree
================================================================================
