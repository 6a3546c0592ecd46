-------------------------------- MODULE Reports --------------------------------
(***************************************************************************)
(* The dashboards and reports over the sales of Figures, one operator for  *)
(* each query, with the filters of the query: which statuses count, whose  *)
(* date decides, from when to when.  The model has one tenant, so what the *)
(* super administrator sees of all tenants is what it sees of one.  Caches *)
(* and formats are left out: a report is what its query returns now.       *)
(*                                                                         *)
(* The second half has the screens that are put together from these, and   *)
(* the analyses by hour, weekday, customer and product.  An Offer also     *)
(* says at which hour of the day the order is placed, whose it is, and its *)
(* one line: which product, how many, and for how much before tax.  A list *)
(* cut to the first so many is longer than the sales of an instance, so no *)
(* list is cut here.                                                       *)
(***************************************************************************)
EXTENDS Figures

Midnight == now
Sum(S, f(_)) == SumFunction([x \in S |-> f(x)])

Orders(S, from) == {s \in Placed : sales[s].store \in S /\ sales[s].placed >= from}
Paid(S, from, statuses) ==
    {s \in Placed : sales[s].store \in S /\ sales[s].pay \in statuses /\ sales[s].charged >= from}
OfMethod(S, m) == {s \in S : sales[s].method = m}
Average(S) == IF S = {} THEN 0 ELSE Round(Revenue(S), Cardinality(S))
Methods == TillMethods \union Providers
Charged == {"PAID", "COMPLETED"}

-----------------------------------------------------------------------------
\* Reports that count orders.
StoreOverview(st) ==
    LET today == Orders({st}, Midnight)
    IN  [active |-> Cardinality({s \in Orders({st}, 0) : sales[s].order \in {"PENDING", "PAID", "READY"}}),
         today |-> Cardinality(today),
         completed |-> Cardinality(InStatus(today, "COMPLETED")),
         revenue |-> Revenue(InStatus(today, "COMPLETED"))]

getStoreStats(st) ==
    [todayOrders |-> Cardinality(Orders({st}, Midnight)),
     todayRevenue |-> Revenue(InStatus(Orders({st}, Midnight), "COMPLETED")),
     activeOrders |-> Cardinality({s \in Orders({st}, 0) : sales[s].order \in {"PAID", "READY"}})]

\* Faulty variant: the revenue of a cancelled order counts.
getStatsCancelled(S, from) ==
    LET where == Orders(S, from)
    IN  [total |-> Cardinality(where),
         completed |-> Cardinality(InStatus(where, "COMPLETED")),
         cancelled |-> Cardinality(InStatus(where, "CANCELLED")),
         pending |-> Cardinality({s \in where : sales[s].order \in {"PENDING", "READY"}}),
         revenue |-> Revenue(InStatus(where, "COMPLETED") \union InStatus(where, "CANCELLED")),
         average |-> Average(InStatus(where, "COMPLETED"))]

\* getStats leaves an order that is paid and not started out of every status.
getStats(S, from) ==
    LET where == Orders(S, from)
    IN  [total |-> Cardinality(where),
         completed |-> Cardinality(InStatus(where, "COMPLETED")),
         cancelled |-> Cardinality(InStatus(where, "CANCELLED")),
         pending |-> Cardinality({s \in where : sales[s].order \in {"PENDING", "READY"}}),
         revenue |-> Revenue(InStatus(where, "COMPLETED")),
         average |-> Average(InStatus(where, "COMPLETED"))]

AnalyticsOverview(S, from) ==
    LET where == Orders(S, from)
    IN  [revenue |-> Revenue(InStatus(where, "COMPLETED")),
         total |-> Cardinality(InStatus(where, "COMPLETED")),
         active |-> Cardinality({s \in where : sales[s].order \in {"PENDING", "PAID", "READY"}}),
         cancelled |-> Cardinality(InStatus(where, "CANCELLED"))]

\* The file lists the orders, and the answer counts them.
generateSalesReport(S, from) ==
    LET rows == InStatus(Orders(S, from), "COMPLETED")
    IN  [rows |-> rows, orderCount |-> Cardinality(rows), totalRevenue |-> Revenue(rows)]

-----------------------------------------------------------------------------
\* Reports that count payments with status COMPLETED, which only the till's are.
Completed(S, from) == Paid(S, from, {"COMPLETED"})

TenantOverview(from) ==
    [revenue |-> Revenue(Completed(Stores, from)),
     completedOrders |-> Cardinality(InStatus(Orders(Stores, from), "COMPLETED")),
     failed |-> Cardinality(Paid(Stores, from, {"FAILED"}))]

getRevenueAmount(from, to) == Revenue({s \in Completed(Stores, from) : sales[s].charged < to})

\* A method that is none of these is in no column, and so not in the total.
RevenueBreakdown(from) ==
    LET by(methods) == Sum(methods, LAMBDA m : Revenue(OfMethod(Completed(Stores, from), m)))
        cash == by({"CASH"})
        card == by({"CARD_TERMINAL", "STRIPE"} \intersect Methods)
        mobile == by({"WALLET"} \intersect Methods)
    IN  [cash |-> cash, card |-> card, mobileMoney |-> mobile, total |-> cash + card + mobile]

StoreSnapshots(from) ==
    [st \in Stores |-> [revenue |-> Revenue(Completed({st}, from)),
                        orderCount |-> Cardinality(Completed({st}, from))]]

\* The trends and breakdowns: by day, by method, by store, by flow.
DailyTrend(S, from) ==
    [d \in Days |-> Revenue({s \in Completed(S, from) : sales[s].charged = d})]
MethodBreakdown(S, from) == [m \in Methods |-> Revenue(OfMethod(Completed(S, from), m))]
StoreComparison(from) ==
    [st \in Stores |-> [revenue |-> Revenue(Completed({st}, from)),
                        orders |-> Cardinality(InStatus(Orders({st}, from), "COMPLETED"))]]

PlatformOverview(from) ==
    [total |-> Revenue(Completed(Stores, 0)), period |-> Revenue(Completed(Stores, from)),
     orders |-> Cardinality(InStatus(Orders(Stores, from), "COMPLETED"))]
PlatformByFlow(from) ==
    [flow \in {"CASHIER", "PROVIDER"} |->
        Revenue({s \in Completed(Stores, from) : (sales[s].method \in TillMethods) = (flow = "CASHIER")})]
GrowthMetrics(from, previous) ==
    [current |-> Revenue(Completed(Stores, from)), previous |-> getRevenueAmount(previous, from)]
KPIs(from, previous) ==
    [thisMonth |-> Revenue(Completed(Stores, from)), prevMonth |-> getRevenueAmount(previous, from),
     orders |-> Cardinality(InStatus(Orders(Stores, from), "COMPLETED"))]

-----------------------------------------------------------------------------
\* Reports that count payments with status PAID or COMPLETED.
PaymentMetrics(S, from) ==
    [total |-> Cardinality({s \in Placed : /\ sales[s].store \in S /\ sales[s].pay # "none"
                                           /\ sales[s].charged >= from}),
     successful |-> Cardinality(Paid(S, from, Charged)),
     amount |-> Revenue(Paid(S, from, Charged))]

TaxSummary(S, from) ==
    [tax |-> Sum(Paid(S, from, Charged), Tax), revenue |-> Revenue(Paid(S, from, Charged)),
     byStore |-> [st \in S |-> Sum(Paid({st}, from, Charged), Tax)]]

TaxByMethod(S, from) == [m \in Methods |-> Sum(OfMethod(Paid(S, from, Charged), m), Tax)]

\* The share of the tax in what was given back, over the refunds of the period.
TaxRefunds(S) ==
    Sum({s \in Placed : sales[s].store \in S /\ sales[s].back > 0},
        LAMBDA s : Round(sales[s].back * Tax(s), Offer[s].price))

\* A refunded payment is no longer among those the summary counts, and the tax
\* in its refund is taken off as well.
NetTaxLiability(S) == TaxSummary(S, 0).tax - TaxRefunds(S)

-----------------------------------------------------------------------------
\* Reports that read the daily metrics.
Rows(S, D) == {x \in S \X D : metrics[x[1]][x[2]].exists}
Gross(R) == Sum(R, LAMBDA r : metrics[r[1]][r[2]].gross)
Net(R) == Sum(R, LAMBDA r : metrics[r[1]][r[2]].net)
Refunded(R) == Sum(R, LAMBDA r : metrics[r[1]][r[2]].refunded)

\* One line for each row, with the payments of its store in the whole period.
DailySalesReport(S, D) ==
    [r \in Rows(S, D) |->
        [gross |-> metrics[r[1]][r[2]].gross, net |-> metrics[r[1]][r[2]].net,
         cash |-> Revenue(OfMethod(Paid({r[1]}, 0, Charged), "CASH")),
         card |-> Revenue(OfMethod(Paid({r[1]}, 0, Charged), "CARD_TERMINAL"))]]

\* A line for each store with its margin over the labor cost, and their total.
MonthlyPL(labor) ==
    LET line(S) == [gross |-> Gross(Rows(S, Days)), net |-> Net(Rows(S, Days)),
                    refunds |-> Refunded(Rows(S, Days)),
                    margin |-> Net(Rows(S, Days)) - Sum(S, LAMBDA st : labor[st])]
        stores == {st \in Stores : Rows({st}, Days) # {}}
    IN  [rows |-> [st \in stores |-> line({st})], total |-> line(stores)]

TenantSummary(d) == [gross |-> Gross(Rows(Stores, {d})), net |-> Net(Rows(Stores, {d}))]

\* The pace divides by the rows there are, one for each store and day, and not
\* by the days that have gone by.
Projection(S, days) ==
    LET rows == Rows(S, Days)
        elapsed == IF rows = {} THEN 1 ELSE Cardinality(rows)
        pace == Round(Gross(rows), elapsed)
    IN  [actual |-> Gross(rows), pace |-> pace, projected |-> Gross(rows) + pace * (days - elapsed)]

\* Tax and discount never reach recordPayment: by these rows no tax was taken.
TaxMonthlyTrend == [tax |-> 0, revenue |-> Gross(Rows(Stores, Days))]

-----------------------------------------------------------------------------
\* Reports that read what the jobs wrote.
DailyRevenueChart(st) ==
    [d \in {x \in Days : orderDaily[st][x].exists} |-> orderDaily[st][d].revenue]

Unresolved ==
    {x \in Stores \X Days :
        LET row == reconciled[x[1]][x[2]]
        IN  row.exists /\ row.hasVariance /\ row.status = "NEEDS_REVIEW"}

ReconciliationOverview ==
    LET day(d) == {st \in Stores : d \in Days /\ reconciled[st][d].exists}
    IN  [today |-> Cardinality(day(now)),
         yesterday |-> Sum(day(now - 1), LAMBDA st : reconciled[st][now - 1].declared),
         status |-> CASE Unresolved = {} -> "HEALTHY"
                      [] Cardinality(Unresolved) \in 1 .. 3 -> "ATTENTION"
                      [] OTHER -> "CRITICAL"]

ReconciliationReport(st, d) == reconciled[st][d].exists /\ ~reconciled[st][d].hasVariance

-----------------------------------------------------------------------------
Pending(S, kinds) ==
    \E s \in Placed, k \in kinds : sales[s].store \in S /\ call[s][k].at = "due"
Counted(S, k) == {s \in Placed : sales[s].store \in S /\ call[s][k].at \notin {"idle", "due", "lost"}}

\* The rows of a store say what its payments say, except for handlers that
\* failed: revenue is what was charged, a void takes nothing off it, the net is
\* what is left after refunds, and the payments counted are short of the voided
\* ones at most.  An average is right unless two handlers worked on it at once.
MetricsFollowPayments ==
    \A st \in Stores :
        LET R == Rows({st}, Days)
            sold == Counted({st}, "sold")
            counted == Sum(R, LAMBDA r : metrics[r[1]][r[2]].ok)
        IN  /\ Gross(R) = Revenue(sold)
            /\ Refunded(R) = Sum(Counted({st}, "refunded"), LAMBDA s : sales[s].back)
            /\ Net(R) = Gross(R) - Refunded(R)
            /\ counted \in Cardinality(sold) - Cardinality(Counted({st}, "voided")) .. Cardinality(sold)
            /\ \A d \in Days :
                   LET row == metrics[st][d]
                   IN  \/ row.ok <= 0 \/ <<st, d>> \in blurred
                       \/ row.avg = Round(row.gross, row.ok)
                       \/ \E s \in Sales, k \in Kinds :
                              /\ sales[s].store = st /\ call[s][k].day = d
                              /\ call[s][k].at \in {"recorded", "averaging"}

\* Two reports that should say the same do, whichever service makes them, and
\* where they differ it is by what their filters leave out: the dashboards by
\* the provider's payments, which the tax reports count, and the net tax by the
\* tax of every payment with a refund, which it no longer counts as taken.
ReportsAgree ==
    \A from \in {0, Midnight} :
        LET tenant == TenantOverview(from)
            tax == TaxSummary(Stores, from)
        IN  /\ \A st \in Stores :
                  /\ from = Midnight =>
                        /\ StoreOverview(st).revenue = getStoreStats(st).todayRevenue
                        /\ StoreOverview(st).revenue = getStats({st}, from).revenue
                        /\ StoreOverview(st).completed = generateSalesReport({st}, from).orderCount
                  /\ getStats({st}, from).revenue = AnalyticsOverview({st}, from).revenue
                  /\ getStats({st}, from).completed + getStats({st}, from).cancelled
                        + AnalyticsOverview({st}, from).active <= getStats({st}, from).total
            /\ tenant.revenue = RevenueBreakdown(from).total
            /\ tenant.revenue = Sum(Stores, LAMBDA st : StoreSnapshots(from)[st].revenue)
            /\ tenant.revenue = Sum(Days, LAMBDA d : DailyTrend(Stores, from)[d])
            /\ tenant.revenue = Sum(Methods, LAMBDA m : MethodBreakdown(Stores, from)[m])
            /\ tenant.revenue = Sum(Stores, LAMBDA st : StoreComparison(from)[st].revenue)
            /\ tenant.revenue = PlatformOverview(from).period
            /\ tenant.revenue = PlatformByFlow(from)["CASHIER"]
            /\ GrowthMetrics(from, 0).current + GrowthMetrics(from, 0).previous = PlatformOverview(0).period
            /\ KPIs(from, 0).thisMonth = tenant.revenue
            /\ PaymentMetrics(Stores, from).amount = tax.revenue
            /\ tax.revenue = tenant.revenue + Revenue(Paid(Stores, from, {"PAID"}))
            /\ tax.tax = Sum(Methods, LAMBDA m : TaxByMethod(Stores, from)[m])
            /\ tax.tax = Sum(Stores, LAMBDA st : tax.byStore[st])
            /\ NetTaxLiability(Stores) + Sum(Paid(Stores, 0, {"REFUNDED", "PARTIALLY_REFUNDED"}), Tax)
                  = Sum(Paid(Stores, 0, Charged \union {"REFUNDED", "PARTIALLY_REFUNDED"}), Tax)
                    - TaxRefunds(Stores)

\* What the nightly jobs wrote: a row of orderDaily counts every order of its
\* day, because that day was over; a reconciliation never more than were placed.
\* Reports over the daily metrics agree with each other and with the payments.
TablesAgree ==
    LET pl == MonthlyPL([st \in Stores |-> 0])
    IN  /\ \A st \in Stores, d \in Days :
              /\ orderDaily[st][d].exists => orderDaily[st][d].total = Cardinality(PlacedOn(st, d))
              /\ reconciled[st][d].exists => reconciled[st][d].count <= Cardinality(PlacedOn(st, d))
              /\ orderDaily[st][d].exists /\ reconciled[st][d].exists =>
                    reconciled[st][d].count <= orderDaily[st][d].total
        /\ pl.total.gross = Projection(Stores, 30).actual
        /\ pl.total.gross = Sum(Days, LAMBDA d : TenantSummary(d).gross)
        /\ pl.total.gross = Sum(DOMAIN pl.rows, LAMBDA st : pl.rows[st].gross)
        /\ pl.total.margin = Sum(Days, LAMBDA d : TenantSummary(d).net)
        /\ pl.total.gross = Sum(DOMAIN DailySalesReport(Stores, Days),
                                LAMBDA r : DailySalesReport(Stores, Days)[r].gross)
        /\ ~Pending(Stores, Kinds) /\ (\A s \in Sales, k \in Kinds : call[s][k].at # "lost") =>
              pl.total.gross = TaxSummary(Stores, 0).revenue
                  + Revenue(Paid(Stores, 0, {"VOIDED", "REFUNDED", "PARTIALLY_REFUNDED"}))

-----------------------------------------------------------------------------
(* The screens, and the analyses.                                          *)

Hours == {Offer[s].hour : s \in Sales}
Customers == {Offer[s].customer : s \in Sales}
ProductsSold == {Offer[s].product : s \in Sales}

Count(S) == Cardinality(S)
Quantity(S) == Sum(S, LAMBDA s : Offer[s].quantity)
Subtotal(S) == Sum(S, LAMBDA s : Offer[s].subtotal)
Finished(S, from) == InStatus(Orders(S, from), "COMPLETED")
Active(st, statuses) == {s \in Orders({st}, 0) : sales[s].order \in statuses}
Between(S, until) == {s \in S : sales[s].placed <= until}

\* One row for each key that some order has, as GROUP BY makes them.
Grouped(S, key(_)) ==
    [k \in {key(s) : s \in S} |->
        LET group == {s \in S : key(s) = k}
        IN  [orders |-> Count(group), revenue |-> Revenue(group), average |-> Average(group)]]

SumOf(rows, f(_)) == Sum(DOMAIN rows, LAMBDA k : f(rows[k]))
OrdersOf(rows) == SumOf(rows, LAMBDA r : r.orders)
RevenueOf(rows) == SumOf(rows, LAMBDA r : r.revenue)

-----------------------------------------------------------------------------
\* TenantAnalyticsService.
RevenueTrend(S, from) ==
    LET rows == Grouped(Completed(S, from), LAMBDA s : sales[s].charged)
    IN  [rows |-> rows, totalRevenue |-> RevenueOf(rows), totalOrders |-> OrdersOf(rows)]

PeakHours(S, from) ==
    LET rows == Grouped(Finished(S, from), LAMBDA s : Offer[s].hour)
        busiest == {h \in DOMAIN rows : \A k \in DOMAIN rows : rows[k].orders <= rows[h].orders}
    IN  [rows |-> rows, peak |-> IF busiest = {} THEN 0 ELSE Min(busiest)]

DayOfWeek(S, from) == Grouped(Finished(S, from), LAMBDA s : sales[s].placed % 7)

CustomerAnalytics(from) ==
    LET rows == Grouped(Finished(Stores, from), LAMBDA s : Offer[s].customer)
    IN  [unique |-> Count(DOMAIN rows), top |-> rows]

-----------------------------------------------------------------------------
\* TenantDashboardService.
percentChange(current, previous) ==
    IF previous = 0 THEN IF current > 0 THEN 100 ELSE 0
    ELSE ((current - previous) * 100) \div previous

\* As many whole days before the start of the range as have gone by since: on
\* the first day of a range that is none, and today is compared with nothing.
PreviousRange(start) == start - (now - start)

TopProducts(from) ==
    LET sold == Finished(Stores, from)
    IN  [p \in {Offer[s].product : s \in sold} |->
            LET lines == {s \in sold : Offer[s].product = p}
            IN  [quantity |-> Quantity(lines), revenue |-> Subtotal(lines)]]

RecentOrders == Placed

TenantDashboard(start) ==
    [overview |-> TenantOverview(start),
     revenueChange |-> percentChange(TenantOverview(start).revenue,
                                     getRevenueAmount(PreviousRange(start), start)),
     breakdown |-> RevenueBreakdown(start), stores |-> StoreSnapshots(start),
     topProducts |-> TopProducts(start), recentOrders |-> RecentOrders]

\* The overview of a period goes back by the length of the period, but what is
\* counted as its own goes on to the present.
TenantPeriod(since, until) ==
    [current |-> TenantOverview(since),
     previous |-> getRevenueAmount(since - (until - since), since)]

StorePerformance(since) == StoreSnapshots(since)

CustomerInsights(since, until) ==
    LET rows == Grouped(Between(Finished(Stores, since), until), LAMBDA s : Offer[s].customer)
    IN  [active |-> Count(DOMAIN rows), topSpenders |-> rows]

-----------------------------------------------------------------------------
\* StoreDashboardService, OrderQueryService and OrderCacheService.
StoreActiveOrders(st) == Active(st, {"PENDING", "PAID", "READY"})

\* Every order counts, cancelled ones too.
StorePeakHours(st, from) == Grouped(Orders({st}, from), LAMBDA s : Offer[s].hour)

StoreDashboard(st) ==
    [overview |-> StoreOverview(st), active |-> StoreActiveOrders(st),
     peakHours |-> StorePeakHours(st, 0)]

KitchenOrders(st) == Active(st, {"PAID", "READY"})

\* What the cache answers when it holds nothing.
CachedActiveOrders(st) == Active(st, {"PAID", "READY"})

OrderDetails(s) ==
    [order |-> sales[s].order, total |-> Offer[s].price,
     payments |-> IF sales[s].pay = "none" THEN {} ELSE {sales[s].pay},
     refunded |-> sales[s].back]

ListOrders(S, status, from, until) ==
    {s \in Between(Orders(S, from), until) : status = "any" \/ sales[s].order = status}

-----------------------------------------------------------------------------
\* RevenueForecastService.
YearOverYear(S, from, year) ==
    LET sums(D) == [revenue |-> Gross(Rows(S, D)), rows |-> Count(Rows(S, D)),
                    orders |-> Sum(Rows(S, D), LAMBDA r : metrics[r[1]][r[2]].ok)]
        current == sums({d \in Days : d >= from})
        last == sums({d \in Days : d >= from - year /\ d <= now - year})
        change == current.revenue - last.revenue
    IN  [current |-> current, lastYear |-> last, change |-> change,
         direction |-> CASE change > 0 -> "UP" [] change < 0 -> "DOWN" [] OTHER -> "FLAT"]

\* The recent days are those that have a row, the previous ones always `week`.
TrendVelocity(S, week) ==
    LET recent == Rows(S, {d \in Days : d >= now - week /\ d < now})
        previous == Rows(S, {d \in Days : d >= now - 2 * week /\ d < now - week})
        days == {r[2] : r \in recent}
        daily == Round(Gross(recent), IF days = {} THEN 1 ELSE Count(days))
        before == Round(Gross(previous), week)
        percent == IF before = 0 THEN 0 ELSE ((daily - before) * 100) \div before
    IN  [total |-> Gross(recent), days |-> days, dailyAverage |-> daily, before |-> before,
         trend |-> CASE percent > 5 -> "ACCELERATING" [] percent < -5 -> "DECELERATING"
                     [] OTHER -> "STABLE"]

ForecastSummary(S, month, year, week) ==
    [projection |-> Projection(S, month), yoy |-> YearOverYear(S, 0, year),
     velocity |-> TrendVelocity(S, week)]

-----------------------------------------------------------------------------
\* ReconciliationDashboardService, and the chart that picks its table.
Magnitude(n) == IF n < 0 THEN -n ELSE n

ReconciliationHistory(st, since) ==
    LET rows == {d \in Days : d >= since /\ reconciled[st][d].exists}
        off == {d \in rows : reconciled[st][d].hasVariance}
        total == Sum(rows, LAMBDA d : Magnitude(reconciled[st][d].variance))
    IN  [days |-> rows, daysWithVariance |-> off, totalVariance |-> total,
         average |-> IF rows = {} THEN 0 ELSE Round(total, Count(rows))]

\* By the hour it reads the table of HourlyRevenueJob, in ProductFigures.
RevenueChart(st, hourly, groupBy) ==
    IF groupBy = "hour" THEN hourly ELSE DailyRevenueChart(st)

-----------------------------------------------------------------------------
\* The same question put to two services gets one answer, whichever way the
\* sales are grouped: by day, hour, weekday, customer or product; the busiest
\* hour of a store differs, because there every order counts.  The change on
\* the dashboard of today is against nothing, while a period looks back.
DashboardsAgree ==
    /\ \A from \in {0, Midnight} :
          LET finished == Finished(Stores, from)
              trend == RevenueTrend(Stores, from)
              tenant == TenantOverview(from)
          IN  /\ trend.totalRevenue = tenant.revenue
              /\ trend.totalRevenue = RevenueOf(RevenueTrend(Stores, 0).rows)
                                      - getRevenueAmount(0, from)
              /\ trend.totalOrders = Sum(Stores, LAMBDA st : StorePerformance(from)[st].orderCount)
              /\ OrdersOf(PeakHours(Stores, from).rows) = tenant.completedOrders
              /\ RevenueOf(PeakHours(Stores, from).rows) = getStats(Stores, from).revenue
              /\ RevenueOf(DayOfWeek(Stores, from)) = RevenueOf(PeakHours(Stores, from).rows)
              /\ RevenueOf(CustomerAnalytics(from).top) = RevenueOf(DayOfWeek(Stores, from))
              /\ CustomerInsights(from, now).topSpenders = CustomerAnalytics(from).top
              /\ CustomerInsights(from, now).active = CustomerAnalytics(from).unique
              /\ SumOf(TopProducts(from), LAMBDA r : r.quantity) = Quantity(finished)
              /\ SumOf(TopProducts(from), LAMBDA r : r.revenue) <= RevenueOf(PeakHours(Stores, from).rows)
              /\ TenantPeriod(from, now).current = TenantDashboard(from).overview
              /\ \A st \in Stores :
                    /\ OrdersOf(StorePeakHours(st, from)) = getStats({st}, from).total
                    /\ OrdersOf(PeakHours({st}, from).rows) = getStats({st}, from).completed
                    /\ \A h \in DOMAIN PeakHours({st}, from).rows :
                          PeakHours({st}, from).rows[h].orders <= StorePeakHours(st, from)[h].orders
                    /\ Count(ListOrders({st}, "any", from, now)) = getStats({st}, from).total
                    /\ Count(ListOrders({st}, "COMPLETED", from, now)) = getStats({st}, from).completed
    /\ TenantDashboard(Midnight).revenueChange \in {0, 100}
    /\ \A st \in Stores :
          /\ KitchenOrders(st) = CachedActiveOrders(st)
          /\ Count(StoreDashboard(st).active) = StoreOverview(st).active
          /\ StoreActiveOrders(st) \ KitchenOrders(st) = ListOrders({st}, "PENDING", 0, now)
          /\ Count(KitchenOrders(st)) = getStoreStats(st).activeOrders
          /\ Count(ReconciliationHistory(st, 0).daysWithVariance)
                >= Count({r \in Unresolved : r[1] = st})
          /\ ReconciliationHistory(st, 0).totalVariance
                >= Tolerance * Count(ReconciliationHistory(st, 0).daysWithVariance)
    /\ \A s \in Placed : OrderDetails(s).refunded > 0 =>
          OrderDetails(s).payments \subseteq {"REFUNDED", "PARTIALLY_REFUNDED"}

\* The forecasts read the same rows: what is compared with last year is what
\* the projection starts from, and the pace of a day is never below that of a
\* row, because a day has one row for each store that sold something.
ForecastsAgree ==
    \A S \in (SUBSET Stores) \ {{}}, week \in 1 .. LastDay + 1 :
        LET forecast == ForecastSummary(S, 30, LastDay + 1, week)
            recent == Rows(S, {d \in Days : d >= now - week /\ d < now})
        IN  /\ forecast.yoy.current.revenue = forecast.projection.actual
            /\ forecast.yoy.lastYear.rows = 0
            /\ forecast.velocity.total <= forecast.projection.actual
            /\ forecast.velocity.dailyAverage
                  >= Round(forecast.velocity.total, Max({1, Count(recent)}))
            /\ week = 1 =>
                  YearOverYear(S, now, week).lastYear.revenue = forecast.velocity.total
================================================================================
