------------------------------ MODULE CashDrawer ------------------------------
(***************************************************************************)
(* The cash drawers of one store: the terminals' drawers with their running*)
(* counters (services/payment/cashier), the cashiers' drawers whose expected*)
(* cash is summed up when they close (services/staff), and the payments at *)
(* the till that feed both.                                                *)
(*                                                                         *)
(* Both services keep their rows in one table.  A sale looks for the open  *)
(* drawer of its terminal before its transaction and adds to it by primary *)
(* key; a void and a correction check the payment before theirs and look   *)
(* for the drawer inside.  A count reads the counter, and writes the       *)
(* variance in a later statement.                                          *)
(***************************************************************************)
EXTENDS Integers, FiniteSets, Functions

CONSTANTS
    Drawers,     \* primary keys for rows of the table CashDrawer
    Orders,      \* orders; Payment.orderUuid is unique, so also their payments
    Terminals, Cashiers,
    Callers,     \* requests that are handled at once
    Float,       \* openingBalance, startingCash
    MaxAmount,   \* bound: the largest amount of a payment or a drop
    MaxDrops,    \* bound: cash drops of a drawer, in money
    MaxRequests, \* bound: requests in a behaviour
    Threshold,   \* the variance that needs no second look, 500 cents
    Balanced,    \* the variance a shift report makes nothing of, 100 cents
    Errors,      \* what a count may be off by
    NoOne        \* null

DrawerAssumption ==
    /\ IsFiniteSet(Drawers) /\ IsFiniteSet(Orders)
    /\ Float \in Nat /\ MaxAmount \in Nat /\ MaxDrops \in Nat /\ MaxRequests \in Nat /\ Threshold \in Nat
    /\ Errors \subseteq Int
    /\ NoOne \notin Drawers \union Terminals \union Cashiers

VARIABLES
    drawer,      \* the table CashDrawer
    pay,         \* the payment of each order
    drops,       \* sum of the CashDrop rows of each drawer
    flagged,     \* drawers with an approval request or an alert
    tillCall,    \* the request each caller has open, and what it read
    misbooked,   \* history: a void, correction or override left its drawer off
    late,        \* history: booked in a drawer that was being counted, or was
    lost,        \* history: the server stopped between a count and its alert
    requests     \* how many requests there were

drawerVars == <<drawer, pay, drops, flagged, tillCall, misbooked, late, lost,
               requests>>

Methods == {"CASH", "CARD"}
Amounts == 1..MaxAmount
Abs(n) == IF n < 0 THEN -n ELSE n
ByMethod(cash, card) == [m \in Methods |-> IF m = "CASH" THEN cash ELSE card]

NoDrawer == [status |-> "NONE", term |-> NoOne, user |-> NoOne, exp |-> ByMethod(0, 0),
             act |-> ByMethod(0, 0), var |-> ByMethod(0, 0), counted |-> FALSE, approved |-> FALSE,
             count |-> ByMethod(0, 0), totalSales |-> 0]
NoPayment == [status |-> "NONE"]
NoCall == [op |-> "idle"]

OpenDrawers == {d \in Drawers : drawer[d].status = "OPEN"}
OpenAt(t) == {d \in OpenDrawers : drawer[d].term = t}
\* findFirst: any of the rows that match, or null.
FirstOf(S) == IF S = {} THEN {NoOne} ELSE S

Request == requests < MaxRequests /\ requests' = requests + 1
Begin(c, r) == Request /\ tillCall[c] = NoCall /\ tillCall' = [tillCall EXCEPT ![c] = r]
Continue(c, r) == tillCall' = [tillCall EXCEPT ![c] = r] /\ UNCHANGED requests
Done(c) == Continue(c, NoCall)
Reads == UNCHANGED <<drawer, pay, drops, flagged, misbooked, late, lost>>

\* increment: of a drawer, or of none.
Book(d, m, n, amount, sales) ==
    IF d = NoOne THEN UNCHANGED drawer
    ELSE LET row == drawer[d]
         IN  drawer' = [drawer EXCEPT ![d] =
                 [row EXCEPT !.exp[m] = @ + n, !.totalSales = @ + amount, !.count[m] = @ + sales]]

-----------------------------------------------------------------------------
(* Opening a drawer: at most one is open per terminal, or per cashier.     *)

OpenWrite(c) ==
    /\ tillCall[c].op = "open"
    /\ \E d \in Drawers :
           /\ drawer[d] = NoDrawer
           /\ drawer' = [drawer EXCEPT ![d] = [NoDrawer EXCEPT !.status = "OPEN",
                  !.term = tillCall[c].term, !.user = tillCall[c].user,
                  !.exp = ByMethod(IF tillCall[c].term = NoOne THEN 0 ELSE Float, 0)]]
    /\ Done(c)
    /\ UNCHANGED <<pay, drops, flagged, misbooked, late, lost>>

TerminalOpenRead(c, t) ==
    /\ OpenAt(t) = {}
    /\ Begin(c, [op |-> "open", term |-> t, user |-> NoOne])
    /\ Reads

StaffOpenRead(c, u) ==
    /\ \A d \in OpenDrawers : drawer[d].user # u
    /\ Begin(c, [op |-> "open", term |-> NoOne, user |-> u])
    /\ Reads

-----------------------------------------------------------------------------
(* Payments at the till.                                                   *)

SaleRead(c, o, t, m, n) ==
    /\ pay[o] = NoPayment
    /\ \E d \in FirstOf(OpenAt(t)) :
           Begin(c, [op |-> "sale", order |-> o, term |-> t, method |-> m, amount |-> n, drawer |-> d])
    /\ Reads

\* payment.create fails on the second payment of an order.  The drawer is
\* updated by uuid, whatever has become of it.
SaleWrite(c) ==
    LET s == tillCall[c]
    IN  /\ s.op = "sale"
        /\ IF pay[s.order] # NoPayment
           THEN UNCHANGED <<drawer, pay, late>>
           ELSE /\ pay' = [pay EXCEPT ![s.order] =
                       [status |-> "COMPLETED", term |-> s.term, method |-> s.method, home |-> s.drawer,
                        amount |-> s.amount, net |-> s.amount,
                        after |-> {d \in Drawers : drawer[d] # NoDrawer},
                        during |-> {d \in Drawers : drawer[d] # NoDrawer /\ ~drawer[d].counted}]]
                /\ Book(s.drawer, s.method, s.amount, s.amount, 1)
                /\ late' = late \union ({s.drawer} \ (OpenDrawers \union {NoOne}))
        /\ Done(c)
        /\ UNCHANGED <<drops, flagged, misbooked, lost>>

PaymentRead(c, o, op, n) ==
    /\ pay[o] # NoPayment /\ pay[o].status = "COMPLETED"
    /\ Begin(c, [op |-> op, order |-> o, saw |-> pay[o], amount |-> n])
    /\ Reads

VoidRead(c, o) == PaymentRead(c, o, "void", 0)
CorrectRead(c, o, n) == PaymentRead(c, o, "correct", n) /\ n # pay[o].amount

\* The drawers that no longer agree with their payments once the payment of
\* order o, read as saw, is booked in drawer d.
OffBy(o, saw, d, clean) == IF pay[o] = saw /\ d = saw.home /\ clean THEN {} ELSE {d, saw.home} \ {NoOne}

\* A void takes what was tendered less the change for cash, the amount for
\* cards: after a correction only the latter is what the drawer holds.
VoidWrite(c) ==
    LET v == tillCall[c]
        back == IF v.saw.method = "CASH" THEN v.saw.net ELSE v.saw.amount
    IN  /\ v.op = "void"
        /\ pay' = [pay EXCEPT ![v.order].status = "VOIDED"]
        /\ \E d \in FirstOf(OpenAt(v.saw.term)) :
               /\ Book(d, v.saw.method, -back, -v.saw.amount, -1)
               /\ misbooked' = misbooked \union OffBy(v.order, v.saw, d, back = v.saw.amount)
        /\ Done(c)
        /\ UNCHANGED <<drops, flagged, late, lost>>

\* Faulty variant: the drawer is given the new amount instead of the difference.
CorrectWriteWhole(c) ==
    LET v == tillCall[c]
    IN  /\ v.op = "correct"
        /\ pay' = [pay EXCEPT ![v.order].amount = v.amount]
        /\ \E d \in FirstOf(OpenAt(v.saw.term)) :
               /\ Book(d, v.saw.method, v.amount, v.amount, 0)
               /\ misbooked' = misbooked \union OffBy(v.order, v.saw, d, TRUE)
        /\ Done(c)
        /\ UNCHANGED <<drops, flagged, late, lost>>

CorrectWrite(c) ==
    LET v == tillCall[c]
    IN  /\ v.op = "correct"
        /\ pay' = [pay EXCEPT ![v.order].amount = v.amount]
        /\ \E d \in FirstOf(OpenAt(v.saw.term)) :
               /\ Book(d, v.saw.method, v.amount - v.saw.amount, v.amount - v.saw.amount, 0)
               /\ misbooked' = misbooked \union OffBy(v.order, v.saw, d, TRUE)
        /\ Done(c)
        /\ UNCHANGED <<drops, flagged, late, lost>>

\* forceState asks for no status and leaves the drawer alone.
Override(o, to) ==
    /\ Request
    /\ pay[o] # NoPayment
    /\ pay' = [pay EXCEPT ![o].status = to]
    /\ misbooked' = misbooked \union ({pay[o].home} \ {NoOne})
    /\ UNCHANGED <<drawer, drops, flagged, tillCall, late, lost>>

-----------------------------------------------------------------------------
(* Counting a terminal's drawer.                                           *)

TerminalCloseRead(c, d) ==
    /\ d \in OpenDrawers
    /\ \E e \in Errors :
           Begin(c, [op |-> "count", drawer |-> d, saw |-> drawer[d].exp,
                     act |-> [m \in Methods |-> IF m = "CASH" THEN drawer[d].exp[m] + e
                                                              ELSE drawer[d].exp[m]]])
    /\ Reads

TerminalCloseWrite(c) ==
    LET k == tillCall[c]
        var == [m \in Methods |-> k.act[m] - k.saw[m]]
    IN  /\ k.op = "count"
        /\ drawer' = [drawer EXCEPT ![k.drawer].status = "CLOSED", ![k.drawer].counted = TRUE,
                                    ![k.drawer].act = k.act, ![k.drawer].var = var]
        /\ late' = IF drawer[k.drawer].exp = k.saw THEN late ELSE late \union {k.drawer}
        /\ IF \E m \in Methods : Abs(var[m]) > Threshold
           THEN Continue(c, [op |-> "flag", drawer |-> k.drawer])
           ELSE Done(c)
        /\ UNCHANGED <<pay, drops, flagged, misbooked, lost>>

\* The approval request, or the alert, of a variance: a statement of its own.
Flag(c) ==
    /\ tillCall[c].op = "flag"
    /\ flagged' = flagged \union {tillCall[c].drawer}
    /\ Done(c)
    /\ UNCHANGED <<drawer, pay, drops, misbooked, late, lost>>

-----------------------------------------------------------------------------
(* Counting a cashier's drawer.  The two sums go over the store's payments *)
(* since the drawer was opened.  A terminal's drawer has no openedAt, and  *)
(* the query is refused.                                                   *)

StaffCloseRead(c, d) ==
    /\ d \in OpenDrawers /\ drawer[d].user # NoOne
    /\ Begin(c, [op |-> "sales", drawer |-> d, expected |-> Float - drops[d]])
    /\ Reads

Since(d, status) ==
    {o \in Orders : /\ pay[o] # NoPayment
                    /\ pay[o].status = status /\ pay[o].method = "CASH" /\ d \in pay[o].after}
Sum(S) == SumFunction([o \in S |-> pay[o].amount])

StaffCloseSales(c) ==
    LET k == tillCall[c]
    IN  /\ k.op = "sales"
        /\ Continue(c, [op |-> "refunds", drawer |-> k.drawer,
                        expected |-> k.expected + Sum(Since(k.drawer, "COMPLETED"))])
        /\ Reads

StaffCloseRefunds(c) ==
    LET k == tillCall[c]
        expected == k.expected - Sum(Since(k.drawer, "REFUNDED"))
    IN  /\ k.op = "refunds"
        /\ \E e \in Errors : Continue(c, [op |-> "close", drawer |-> k.drawer, expected |-> expected,
                                          actual |-> expected + e])
        /\ Reads

\* Faulty variant: a drawer is closed whatever the variance.
StaffCloseAnyway(c) ==
    LET k == tillCall[c]
    IN  /\ k.op = "close"
        /\ drawer' = [drawer EXCEPT ![k.drawer] =
               [@ EXCEPT !.status = "CLOSED", !.counted = TRUE,
                         !.exp["CASH"] = k.expected, !.act["CASH"] = k.actual,
                         !.var["CASH"] = k.actual - k.expected]]
        /\ Done(c)
        /\ UNCHANGED <<pay, drops, flagged, misbooked, late, lost>>

StaffCloseWrite(c) ==
    LET k == tillCall[c]
        review == Abs(k.actual - k.expected) > Threshold
    IN  /\ k.op = "close"
        /\ drawer' = [drawer EXCEPT ![k.drawer] =
               [@ EXCEPT !.status = IF review THEN "RECONCILING" ELSE "CLOSED", !.counted = TRUE,
                         !.exp["CASH"] = k.expected, !.act["CASH"] = k.actual,
                         !.var["CASH"] = k.actual - k.expected]]
        /\ IF review THEN Continue(c, [op |-> "flag", drawer |-> k.drawer]) ELSE Done(c)
        /\ UNCHANGED <<pay, drops, flagged, misbooked, late, lost>>

DropRead(c, d, n) ==
    /\ d \in OpenDrawers
    /\ drops[d] + n <= MaxDrops
    /\ Begin(c, [op |-> "drop", drawer |-> d, amount |-> n])
    /\ Reads

DropWrite(c) ==
    /\ tillCall[c].op = "drop"
    /\ drops' = [drops EXCEPT ![tillCall[c].drawer] = @ + tillCall[c].amount]
    /\ Done(c)
    /\ UNCHANGED <<drawer, pay, flagged, misbooked, late, lost>>

\* approveCashVariance asks for no status.
ApproveVariance(d) ==
    /\ Request
    /\ drawer[d] # NoDrawer
    /\ drawer' = [drawer EXCEPT ![d].status = "CLOSED", ![d].approved = TRUE]
    /\ UNCHANGED <<pay, drops, flagged, tillCall, misbooked, late, lost>>

\* CashDrawerReminderJob: an alert for a drawer that is open too long, one a
\* day and tenant.
Remind(d) ==
    /\ Request
    /\ d \in OpenDrawers /\ drawer[d].term # NoOne
    /\ flagged = {}
    /\ flagged' = {d}
    /\ UNCHANGED <<drawer, pay, drops, tillCall, misbooked, late, lost>>

\* A request ends early: an error, a timeout, the server stops.
Drop(c) ==
    /\ tillCall[c] # NoCall
    /\ lost' = IF tillCall[c].op = "flag" THEN lost \union {tillCall[c].drawer} ELSE lost
    /\ Done(c)
    /\ UNCHANGED <<drawer, pay, drops, flagged, misbooked, late>>

-----------------------------------------------------------------------------
Init ==
    /\ drawer = [d \in Drawers |-> NoDrawer]
    /\ pay = [o \in Orders |-> NoPayment]
    /\ drops = [d \in Drawers |-> 0]
    /\ flagged = {}
    /\ tillCall = [c \in Callers |-> NoCall]
    /\ misbooked = {}
    /\ late = {}
    /\ lost = {}
    /\ requests = 0

CallerStep(c) ==
    \/ \E t \in Terminals : TerminalOpenRead(c, t)
    \/ \E u \in Cashiers : StaffOpenRead(c, u)
    \/ OpenWrite(c)
    \/ \E o \in Orders, t \in Terminals, m \in Methods, n \in Amounts : SaleRead(c, o, t, m, n)
    \/ SaleWrite(c)
    \/ \E o \in Orders : VoidRead(c, o) \/ \E n \in Amounts : CorrectRead(c, o, n)
    \/ VoidWrite(c) \/ CorrectWrite(c)
    \/ \E d \in Drawers : TerminalCloseRead(c, d) \/ StaffCloseRead(c, d)
    \/ TerminalCloseWrite(c)
    \/ StaffCloseSales(c) \/ StaffCloseRefunds(c) \/ StaffCloseWrite(c)
    \/ Flag(c)
    \/ \E d \in Drawers, n \in Amounts : DropRead(c, d, n)
    \/ DropWrite(c)
    \/ Drop(c)

Next ==
    \/ \E c \in Callers : CallerStep(c)
    \/ \E o \in Orders, to \in {"PAID", "FAILED", "CANCELLED", "REFUNDED"} : Override(o, to)
    \/ \E d \in Drawers : ApproveVariance(d) \/ Remind(d)

Spec == Init /\ [][Next]_drawerVars

-----------------------------------------------------------------------------
Sold(d, m) ==
    {o \in Orders : /\ pay[o] # NoPayment
                    /\ pay[o].home = d /\ pay[o].method = m /\ pay[o].status = "COMPLETED"}

\* The counters of a terminal's drawer are its float and the payments booked in
\* it that still stand.  Only a void or correction of a payment that changed
\* after it was read, or that was sold from another drawer, or a void after a
\* correction, or an admin's override can break that.
CounterExplained ==
    \A d \in Drawers \ misbooked, m \in Methods :
        drawer[d].term # NoOne =>
            drawer[d].exp[m] = Sum(Sold(d, m)) + IF m = "CASH" THEN Float ELSE 0

\* The variance of a counted drawer is what was counted less the counter, as it
\* is now and not only as it was read: a sale that ends after the count is the
\* one thing that comes between.
VarianceCurrent ==
    \A d \in Drawers \ late :
        drawer[d].counted => drawer[d].var["CASH"] = drawer[d].act["CASH"] - drawer[d].exp["CASH"]

DrawerBooks == CounterExplained /\ VarianceCurrent

\* A drawer that was short or over by more than the threshold is approved, or
\* someone is asked to look at it, whatever closes and approvals overlap; unless
\* the server stopped after the count.
NoSilentShortage ==
    \A d \in Drawers \ lost :
        drawer[d].counted /\ Abs(drawer[d].var["CASH"]) > Threshold =>
            \/ drawer[d].approved
            \/ d \in flagged
            \/ \E c \in Callers : tillCall[c].op = "flag" /\ tillCall[c].drawer = d

-----------------------------------------------------------------------------
(* The reports: what the shift report, the session history, the terminals' *)
(* performance, the day's summary and the export say of the drawers of a   *)
(* store.  Each queries the drawers or the payments once more.  All take   *)
(* the drawers by sessionStart, which only the terminals' drawers have;    *)
(* the behaviours are those of one day, so that no report's window leaves  *)
(* a session out.                                                          *)

Sessions == {d \in Drawers : drawer[d].term # NoOne}
Closed == {d \in Sessions : drawer[d].status = "CLOSED"}

Sales(S) == SumFunction([d \in S |-> drawer[d].totalSales])
Variance(S, m) == SumFunction([d \in S |-> drawer[d].var[m]])
AbsVariance(S, m) == SumFunction([d \in S |-> Abs(drawer[d].var[m])])

-----------------------------------------------------------------------------
(* One session: the payments of its terminal between its start and end.    *)

Taken(d) ==
    {o \in Orders : /\ pay[o] # NoPayment /\ pay[o].term = drawer[d].term
                    /\ d \in pay[o].during /\ pay[o].status \in {"COMPLETED", "VOIDED"}}

\* Faulty variant: what was voided counts as sold.
ActiveOrVoided(d) == {o \in Taken(d) : TRUE}

Active(d) == {o \in Taken(d) : pay[o].status = "COMPLETED"}
Voided(d) == Taken(d) \ Active(d)
ActiveBy(d, m) == {o \in Active(d) : pay[o].method = m}

VarianceStatus(n) ==
    IF Abs(n) <= Balanced THEN "BALANCED"
    ELSE IF Abs(n) <= Threshold THEN "MINOR_VARIANCE" ELSE "SIGNIFICANT_VARIANCE"

getShiftReport(d) ==
    [expected |-> drawer[d].exp,
     actual |-> drawer[d].act,
     count |-> [m \in Methods |-> Cardinality(ActiveBy(d, m))],
     total |-> [m \in Methods |-> Sum(ActiveBy(d, m))],
     transactions |-> Cardinality(Active(d)),
     voided |-> Sum(Voided(d)),
     totalSales |-> Sum(ActiveBy(d, "CASH")) + Sum(ActiveBy(d, "CARD")),
     variance |-> drawer[d].var["CASH"] + drawer[d].var["CARD"],
     status |-> VarianceStatus(drawer[d].var["CASH"] + drawer[d].var["CARD"])]

-----------------------------------------------------------------------------
(* Many sessions.                                                          *)

getSessionHistory(S) ==
    LET closed == S \intersect Closed
    IN  [totalSessions |-> Cardinality(S),
         openSessions |-> Cardinality(S \intersect OpenDrawers),
         closedSessions |-> Cardinality(closed),
         sessionsWithVariance |->
             Cardinality({d \in closed : \E m \in Methods : Abs(drawer[d].var[m]) > Balanced}),
         totalSalesVolume |-> Sales(closed),
         totalCashVariance |-> AbsVariance(closed, "CASH")]

getTerminalPerformance ==
    [t \in {drawer[d].term : d \in Closed} |->
        LET S == {d \in Closed : drawer[d].term = t}
        IN  [sessions |-> Cardinality(S),
             totalSales |-> Sales(S),
             transactions |-> SumFunction([d \in S |-> drawer[d].count["CASH"] + drawer[d].count["CARD"]]),
             totalVariance |-> AbsVariance(S, "CASH") + AbsVariance(S, "CARD")]]

getDailySummary ==
    [totalSessions |-> Cardinality(Sessions),
     openSessions |-> Cardinality(Sessions \intersect OpenDrawers),
     closedSessions |-> Cardinality(Closed),
     totalSales |-> Sales(Closed),
     totalCashVariance |-> Variance(Closed, "CASH"),
     totalCardVariance |-> Variance(Closed, "CARD"),
     hasOpenDrawers |-> Sessions \intersect OpenDrawers # {}]

generateDrawerSummaryReport ==
    {[drawer |-> d, terminal |-> drawer[d].term, opening |-> Float, expected |-> drawer[d].exp,
      actual |-> drawer[d].act, variance |-> drawer[d].var, count |-> drawer[d].count,
      totalSales |-> drawer[d].totalSales] : d \in Closed}

\* The drawers of one cashier, or all of the store's: terminals' drawers have no
\* cashier and no openedAt, but the list is not filtered by it.
getDrawerHistory(u) == {d \in Drawers : drawer[d] # NoDrawer /\ (u # NoOne => drawer[d].user = u)}

-----------------------------------------------------------------------------
\* A payment of the terminal that was made while the drawer was open, and is
\* booked in no drawer or another: it looked before this one was opened, or two
\* are open at the terminal.
Straddled(d) == \E o \in Orders : /\ pay[o] # NoPayment /\ pay[o].term = drawer[d].term
                                  /\ d \in pay[o].during /\ pay[o].home # d

\* The shift report sums the payments up by terminal and time, and the drawer
\* counted them one by one as they came: both say the same of cash, cards and
\* sales, unless a request straddled the session's start or end or a void,
\* correction or override was booked elsewhere.
ShiftExplained ==
    \A d \in Sessions \ (misbooked \union late) :
        LET r == getShiftReport(d)
        IN  ~Straddled(d) =>
                /\ \A m \in Methods : r.total[m] + (IF m = "CASH" THEN Float ELSE 0) = r.expected[m]
                /\ r.count = drawer[d].count
                /\ r.totalSales = drawer[d].totalSales

\* The history, the terminals' performance, the day's summary and the export
\* tell the same of the closed sessions, whatever requests overlap: the signed
\* variance of the day hides no more than the terminals' absolute one shows.
SummariesAgree ==
    LET history == getSessionHistory(Sessions)
        perf == getTerminalPerformance
        day == getDailySummary
    IN  /\ history.totalSalesVolume = day.totalSales
        /\ day.totalSales = SumFunction([t \in DOMAIN perf |-> perf[t].totalSales])
        /\ history.closedSessions = SumFunction([t \in DOMAIN perf |-> perf[t].sessions])
        /\ Cardinality(generateDrawerSummaryReport) = day.closedSessions
        /\ Abs(day.totalCashVariance) <= history.totalCashVariance
        /\ day.hasOpenDrawers <=> history.openSessions # 0
        /\ Sessions \subseteq getDrawerHistory(NoOne)

\* A shift the report calls significantly off is approved, or someone was told or
\* is about to be, unless the server stopped after the count.
ShiftStatusFollowed ==
    \A d \in Sessions \ lost :
        getShiftReport(d).status = "SIGNIFICANT_VARIANCE" =>
            \/ drawer[d].approved
            \/ d \in flagged
            \/ \E c \in Callers : tillCall[c].op = "flag" /\ tillCall[c].drawer = d

ShiftReportsAgree == ShiftExplained /\ SummariesAgree /\ ShiftStatusFollowed
=============================================================================
