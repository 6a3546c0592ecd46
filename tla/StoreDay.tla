-------------------------------- MODULE StoreDay --------------------------------
(***************************************************************************)
(* What a day leaves on a store's books: the stock under clerks, tills and *)
(* the nightly recount and the alerts about it, the hours, breaks, cost    *)
(* and planning of the staff, what they may do, who is credited with an    *)
(* order, and the figures that handlers and jobs keep of the sales, in     *)
(* four parts by the tables that are written.  These share no state; a     *)
(* behaviour follows one of them, named by focus.                          *)
(***************************************************************************)
EXTENDS Integers, Sequences, FiniteSets

CONSTANTS
    Hands,                 \* requests, members of staff, devices and jobs at once
    Cards,                 \* rows: of time entries and of shifts
    Slips, Shelf,          \* orders, and the products in stock
    NoOne,                 \* null
    Links, Ordered, OnTheShelf, MaxQty, Amounts, MaxAdjust,   \* of StockUpkeep
    ShiftStart, ShiftEnd, LongestDay, UsualDay, ClockEnd,     \* of TimeClock
    Punches, BreakRows, Tills, Lengths, LastHour,             \* of Breaks
    Wage, Budgeted, HoursPerDay, LaborEnd, MaxSales,          \* of LaborCost
    Crew, Houses, Times,                                      \* of Roster
    RoleGrants,                                               \* of Permissions
    Bill, Tips,                                               \* of OrderCredit
    Branch, ItemTaken, Adjusters, Checks,
    Start, ReorderPoint, Delta, MaxMoves,                     \* of StockAlerts
    Branches, SalesMade, ForSale, LastDay, MaxLost, Tolerance \* of ProductFigures

VARIABLES
    focus,
    currentStock, reservedStock, availableStock, resv, committed, released,
    conn, returned, staleSettle, staleReserve, clerk, job, rungUp,
    adjustments, moved, overwrote, clamped, lostRecount,
    clockHour, entry, shift, clockCall, doubled, crossed, noShowLate,
    breakHour, clockedOut, policies, break, violations, breakCall, monitor,
    twice, lookedTwice,
    halfHour, laborEntry, sold, budgets, laborCall, snapshot, wanted, broken,
    access, planned, rosterCall, overlapped, left,
    role, active, custom, temporary, cached, rightsCall, behind, wrong,
    sale, pool, commission, creditCall, credited, lapped, retaken, tippedLate,
    item, holdOf, alertClerk, run, added, cut, saleUnits, told, lost,
    oversold, outdated,
    now, sales, call, metrics, blurred, orderDaily, reconciled, stage, items,
    category, product, hourly, ran, finished, late

productVars == <<stage, items, category, product, hourly, ran, finished, late>>

Upkeep == INSTANCE StockUpkeep WITH
    Orders <- Slips, Products <- Shelf, Connections <- Links, Clerks <- Hands,
    Qty <- Ordered, InitialStock <- OnTheShelf

Clock == INSTANCE TimeClock WITH
    Entries <- Cards, Devices <- Hands, LastTime <- ClockEnd, now <- clockHour,
    call <- clockCall

Pauses == INSTANCE Breaks WITH
    Entries <- Punches, Rows <- BreakRows, Callers <- Tills, Monitors <- Hands,
    hour <- breakHour, call <- breakCall

Labor == INSTANCE LaborCost WITH
    Entries <- Punches, Rate <- Wage, Callers <- Hands, Limits <- Budgeted,
    LastTime <- LaborEnd, now <- halfHour, entry <- laborEntry, call <- laborCall

Plan == INSTANCE Roster WITH
    Staff <- Crew, Stores <- Houses, Shifts <- Cards, Managers <- Hands,
    shift <- planned, call <- rosterCall

Rights == INSTANCE Permissions WITH
    Callers <- Hands, access <- active, call <- rightsCall

Credit == INSTANCE OrderCredit WITH
    Orders <- Slips, Staff <- Hands, Callers <- Hands, Price <- Bill,
    call <- creditCall

Alerts == INSTANCE StockAlerts WITH
    Items <- Shelf, StoreOf <- Branch, Orders <- Slips, Takes <- ItemTaken,
    Clerks <- Adjusters, Runs <- Checks, order <- holdOf, clerk <- alertClerk,
    sold <- saleUnits

Books == INSTANCE ProductFigures WITH
    Stores <- Branches, Sales <- SalesMade, Offer <- ForSale

ASSUME StoreDayAssumption ==
    /\ Labor!LaborAssumption /\ Credit!CreditAssumption /\ Books!FiguresAssumption
    /\ IsFiniteSet(Slips) /\ IsFiniteSet(Shelf) /\ MaxQty \in Nat
    /\ Ordered \in [Slips -> [Shelf -> 0 .. MaxQty]]
    /\ OnTheShelf \in [Shelf -> Nat] /\ Amounts \subseteq Int
    /\ ItemTaken \in [Slips -> [item : Shelf, quantity : 1 .. MaxQty]]
    /\ Start \in Nat /\ ReorderPoint \in Nat /\ Delta \subseteq Int
    /\ {ShiftStart, ShiftEnd, UsualDay, LastHour} \subseteq Int
    /\ Lengths \subseteq Nat /\ Times \subseteq Int \X Int

-----------------------------------------------------------------------------
upkeepVars == <<currentStock, reservedStock, availableStock, resv, committed,
                released, conn, returned, staleSettle, staleReserve, clerk,
                job, rungUp, adjustments, moved, overwrote, clamped,
                lostRecount>>
clockVars == <<clockHour, entry, shift, clockCall, doubled, crossed,
               noShowLate>>
pausesVars == <<breakHour, clockedOut, policies, break, violations, breakCall,
                monitor, twice, lookedTwice>>
laborVars == <<halfHour, laborEntry, sold, budgets, laborCall, snapshot,
               wanted, broken>>
planVars == <<access, planned, rosterCall, overlapped, left>>
rightsVars == <<role, active, custom, temporary, cached, rightsCall, behind,
                wrong>>
creditVars == <<sale, pool, commission, creditCall, credited, lapped, retaken,
                tippedLate>>
alertsVars == <<item, holdOf, alertClerk, run, added, cut, saleUnits, told,
                lost, oversold, outdated>>
booksVars == <<now, sales, call, metrics, blurred, orderDaily, reconciled,
               stage, items, category, product, hourly, ran, finished, late>>

\* The variables of a component that is not followed hold nothing.
UpkeepOff ==
    /\ currentStock = 0 /\ reservedStock = 0 /\ availableStock = 0 /\ resv = 0
    /\ committed = 0 /\ released = 0 /\ conn = 0 /\ returned = 0
    /\ staleSettle = 0 /\ staleReserve = 0 /\ clerk = 0 /\ job = 0
    /\ rungUp = 0 /\ adjustments = 0 /\ moved = 0 /\ overwrote = 0
    /\ clamped = 0 /\ lostRecount = 0

ClockOff ==
    /\ clockHour = 0 /\ entry = 0 /\ shift = 0 /\ clockCall = 0
    /\ doubled = 0 /\ crossed = 0 /\ noShowLate = 0

PausesOff ==
    /\ breakHour = 0 /\ clockedOut = 0 /\ policies = 0 /\ break = 0
    /\ violations = 0 /\ breakCall = 0 /\ monitor = 0 /\ twice = 0
    /\ lookedTwice = 0

LaborOff ==
    /\ halfHour = 0 /\ laborEntry = 0 /\ sold = 0 /\ budgets = 0
    /\ laborCall = 0 /\ snapshot = 0 /\ wanted = 0 /\ broken = 0

PlanOff ==
    /\ access = 0 /\ planned = 0 /\ rosterCall = 0 /\ overlapped = 0
    /\ left = 0

RightsOff ==
    /\ role = 0 /\ active = 0 /\ custom = 0 /\ temporary = 0
    /\ cached = 0 /\ rightsCall = 0 /\ behind = 0 /\ wrong = 0

CreditOff ==
    /\ sale = 0 /\ pool = 0 /\ commission = 0 /\ creditCall = 0
    /\ credited = 0 /\ lapped = 0 /\ retaken = 0 /\ tippedLate = 0

AlertsOff ==
    /\ item = 0 /\ holdOf = 0 /\ alertClerk = 0 /\ run = 0
    /\ added = 0 /\ cut = 0 /\ saleUnits = 0 /\ told = 0
    /\ lost = 0 /\ oversold = 0 /\ outdated = 0

BooksOff ==
    /\ now = 0 /\ sales = 0 /\ call = 0 /\ metrics = 0
    /\ blurred = 0 /\ orderDaily = 0 /\ reconciled = 0 /\ stage = 0
    /\ items = 0 /\ category = 0 /\ product = 0 /\ hourly = 0
    /\ ran = 0 /\ finished = 0 /\ late = 0

Init ==
    \/ /\ focus = "stock" /\ Upkeep!UpkeepInit
       /\ ClockOff /\ PausesOff /\ LaborOff /\ PlanOff /\ RightsOff
       /\ CreditOff /\ AlertsOff /\ BooksOff
    \/ /\ focus = "clock" /\ Clock!Init
       /\ UpkeepOff /\ PausesOff /\ LaborOff /\ PlanOff /\ RightsOff
       /\ CreditOff /\ AlertsOff /\ BooksOff
    \/ /\ focus = "breaks" /\ Pauses!Init
       /\ UpkeepOff /\ ClockOff /\ LaborOff /\ PlanOff /\ RightsOff
       /\ CreditOff /\ AlertsOff /\ BooksOff
    \/ /\ focus = "labor" /\ Labor!Init
       /\ UpkeepOff /\ ClockOff /\ PausesOff /\ PlanOff /\ RightsOff
       /\ CreditOff /\ AlertsOff /\ BooksOff
    \/ /\ focus = "roster" /\ Plan!Init
       /\ UpkeepOff /\ ClockOff /\ PausesOff /\ LaborOff /\ RightsOff
       /\ CreditOff /\ AlertsOff /\ BooksOff
    \/ /\ focus = "rights" /\ Rights!Init
       /\ UpkeepOff /\ ClockOff /\ PausesOff /\ LaborOff /\ PlanOff
       /\ CreditOff /\ AlertsOff /\ BooksOff
    \/ /\ focus \in {"prepared", "tips", "commission"} /\ Credit!Init
       /\ UpkeepOff /\ ClockOff /\ PausesOff /\ LaborOff /\ PlanOff
       /\ RightsOff /\ AlertsOff /\ BooksOff
    \/ /\ focus = "alerts" /\ Alerts!Init
       /\ UpkeepOff /\ ClockOff /\ PausesOff /\ LaborOff /\ PlanOff
       /\ RightsOff /\ CreditOff /\ BooksOff
    \/ /\ focus \in {"events", "tables", "items", "products"} /\ Books!ProductInit
       /\ UpkeepOff /\ ClockOff /\ PausesOff /\ LaborOff /\ PlanOff
       /\ RightsOff /\ CreditOff /\ AlertsOff

Next ==
    \/ /\ focus = "stock" /\ Upkeep!UpkeepNext
       /\ UNCHANGED <<focus, clockVars, pausesVars, laborVars, planVars,
                    rightsVars, creditVars, alertsVars, booksVars>>
    \/ /\ focus = "clock" /\ Clock!Next
       /\ UNCHANGED <<focus, upkeepVars, pausesVars, laborVars, planVars,
                    rightsVars, creditVars, alertsVars, booksVars>>
    \/ /\ focus = "breaks" /\ Pauses!Next
       /\ UNCHANGED <<focus, upkeepVars, clockVars, laborVars, planVars,
                    rightsVars, creditVars, alertsVars, booksVars>>
    \/ /\ focus = "labor" /\ Labor!Next
       /\ UNCHANGED <<focus, upkeepVars, clockVars, pausesVars, planVars,
                    rightsVars, creditVars, alertsVars, booksVars>>
    \/ /\ focus = "roster" /\ Plan!Next
       /\ UNCHANGED <<focus, upkeepVars, clockVars, pausesVars, laborVars,
                    rightsVars, creditVars, alertsVars, booksVars>>
    \/ /\ focus = "rights" /\ Rights!Next
       /\ UNCHANGED <<focus, upkeepVars, clockVars, pausesVars, laborVars,
                    planVars, creditVars, alertsVars, booksVars>>
    \/ /\ focus = "prepared" /\ Credit!PreparedNext
       /\ UNCHANGED <<focus, upkeepVars, clockVars, pausesVars, laborVars,
                    planVars, rightsVars, alertsVars, booksVars>>
    \/ /\ focus = "tips" /\ Credit!TipsNext
       /\ UNCHANGED <<focus, upkeepVars, clockVars, pausesVars, laborVars,
                    planVars, rightsVars, alertsVars, booksVars>>
    \/ /\ focus = "commission" /\ Credit!CommissionNext
       /\ UNCHANGED <<focus, upkeepVars, clockVars, pausesVars, laborVars,
                    planVars, rightsVars, alertsVars, booksVars>>
    \/ /\ focus = "alerts" /\ Alerts!Next
       /\ UNCHANGED <<focus, upkeepVars, clockVars, pausesVars, laborVars,
                    planVars, rightsVars, creditVars, booksVars>>
    \/ /\ focus = "events" /\ (Books!PaymentNext \/ Books!HandlerNext \/ Books!Tick) /\ UNCHANGED productVars
       /\ UNCHANGED <<focus, upkeepVars, clockVars, pausesVars, laborVars,
                    planVars, rightsVars, creditVars, alertsVars>>
    \/ /\ focus = "tables" /\ (Books!PaymentNext \/ Books!OrderNext \/ Books!JobNext \/ Books!Tick) /\ UNCHANGED productVars
       /\ UNCHANGED <<focus, upkeepVars, clockVars, pausesVars, laborVars,
                    planVars, rightsVars, creditVars, alertsVars>>
    \/ /\ focus = "items" /\ Books!ItemsNext
       /\ UNCHANGED <<focus, upkeepVars, clockVars, pausesVars, laborVars,
                    planVars, rightsVars, creditVars, alertsVars>>
    \/ /\ focus = "products" /\ Books!ProductJobsNext
       /\ UNCHANGED <<focus, upkeepVars, clockVars, pausesVars, laborVars,
                    planVars, rightsVars, creditVars, alertsVars>>

everyVar == <<focus, upkeepVars, clockVars, pausesVars, laborVars, planVars,
             rightsVars, creditVars, alertsVars, booksVars>>
Spec == Init /\ [][Next]_everyVar

-----------------------------------------------------------------------------
\* availableStock is what checkStock computes, while no write was stale or cut.
AvailableUnlessOverwritten == focus = "stock" => Upkeep!AvailableUnlessOverwritten

\* The shelf count follows the movements and reservedStock the reservations; an
\* item that ran out is marked so, and whoever should know was told.
StockAccounted ==
    /\ focus = "stock" => Upkeep!ShelfAccounted /\ Upkeep!HoldsAccounted
    /\ focus = "alerts" => Alerts!AlertsSound

\* What is paid, and what is reported as a missed break, follows from the two
\* times of an entry, however it was closed; one budget judges the cost of labor.
\* Nobody is planned twice at once or after they left, nobody may do what was
\* taken from them, whoever was told so is among those who prepared an order, and
\* a pool holds the tips that were given.
StaffAccounted ==
    /\ focus = "clock" => Clock!TimeAccounted
    /\ focus = "breaks" => Pauses!BreaksKept
    /\ focus = "labor" => Labor!OneBudget
    /\ focus = "roster" => Plan!RosterKept
    /\ focus = "rights" => Rights!PermissionsKept
    /\ focus \in {"prepared", "tips", "commission"} => Credit!PreparedKept /\ Credit!TipsPooled

\* The daily metrics of a store and of its items follow the payments, through
\* handlers that are late, fail or overlap.
MetricsFollowPayments ==
    /\ focus = "events" => Books!MetricsFollowPayments
    /\ focus \in {"items", "products"} => Books!ProductFiguresAgree

\* Dashboards, reports and forecasts agree with each other on the same sales, up
\* to what their filters leave out; the cost of labor of a day with that of its
\* hours, and the commissions with the list of performers.
ReportsAgree ==
    /\ focus = "tables" => Books!ReportsAgree /\ Books!DashboardsAgree /\ Books!ForecastsAgree
    /\ focus \in {"events", "tables"} => Books!TablesAgree
    /\ focus = "labor" => Labor!HoursAddUp
    /\ focus \in {"prepared", "tips", "commission"} => Credit!CommissionOnce
=================================================================================
