------------------------------ MODULE BackOffice ------------------------------
(***************************************************************************)
(* The parts of the shop that share no state with each other: the drawers  *)
(* of the till and the reports about them, the risk score, sign-in         *)
(* sessions, the items of an order, the price of a basket, settlements,    *)
(* payroll, the cached menu and the catalogue behind it, opening hours and *)
(* the rules on when a product is on sale, and the checks an order has to  *)
(* pass.  A behaviour follows one of them, named by focus.                 *)
(***************************************************************************)
EXTENDS Integers, Sequences, FiniteSets

CONSTANTS
    Hands,                 \* requests, event handlers and administrators at once
    Cards,                 \* rows: of drawers, tokens, orders, charges, products
    NoOne, None,           \* null
    Receipts, Terminals, Cashiers, Float, MaxAmount, MaxDrops, MaxRequests,
    CashThreshold, Balanced, Errors,                          \* of CashDrawer
    Deltas, MaxEvents, MaxCalls,                              \* of RiskScore
    MaxVersion,                                               \* of Sessions
    ItemBaskets, ItemCoupons, TaxRate, ServiceRate,           \* of OrderItems
    Baskets, Coupons, TaxRates, ServiceRates,                 \* of Pricing
    Page, Window, MaxFailures,                                \* of Settlements
    Staff, Stores, Entries, Timesheet, FirstClosed,           \* of Payroll
    Readers, MaxChanges,                                      \* of MenuCache
    Names, Leaves, Root, MaxNumber, MaxToggles,               \* of Catalogue
    Schedules, Rules, RuleData, Weekdays, Times, LastDate,    \* of OpeningHours
    OpenWeek, LastOrderDate, LastTime, Products, OrderBaskets, Limits,
    OnTheMenu, OptionGroups, Choices                          \* of OrderChecks

VARIABLES
    focus,
    drawer, pay, drops, flagged, tillCall, misbooked, late, lost, requests,
    score, level, restriction, riskCall, events, calls,
    account, token, session, authRequest, authLapped, reported,
    order, key, request, lapped, repeated,
    quote,
    settlement, confirmed, handling, payout, syncing, ran, failures,
    closed, period, record, export, wagesCall, exact,
    menuItem, menuCategory, changes, version, cache, menuCall, reading,
    announced, orphaned, behind,
    branch, leaf, treeCall, misplaced, strayed, favourite, toggle, toggled,
    hours, update, settled, rules,
    hour, offered, menuRead, placed, orderCall, asked, checkLapped

\* The store whose orders are checked opens by the rows of OpenWeek.
OpenHours ==
    /\ hours = [d \in 0 .. Weekdays - 1 |-> OpenWeek[d + 1]]
    /\ update = 0 /\ settled = 0 /\ rules = 0
FirstAsked == [groups |-> CHOOSE g \in OptionGroups : TRUE, chosen |-> CHOOSE c \in Choices : TRUE]

Till == INSTANCE CashDrawer WITH
    Drawers <- Cards, Orders <- Receipts, Callers <- Hands, Threshold <- CashThreshold

Risk == INSTANCE RiskScore WITH Handlers <- Hands

Auth == INSTANCE Sessions WITH
    Tokens <- Cards, Requests <- Hands, request <- authRequest, lapped <- authLapped

Items == INSTANCE OrderItems WITH
    Orders <- Cards, Requests <- Hands, Baskets <- ItemBaskets, Coupons <- ItemCoupons

Prices == INSTANCE Pricing

NoQuote == [finals |-> <<>>, taxes |-> <<>>, subtotal |-> 0, discount |-> 0,
            service |-> 0, total |-> 0, tax |-> 0, priced |-> FALSE]

AskPrice ==
    /\ quote = NoQuote
    /\ \E basket \in Baskets, coupon \in Coupons, taxRate \in TaxRates, serviceRate \in ServiceRates :
           LET q == Prices!Quote(basket, coupon, taxRate, serviceRate)
           IN  Prices!CouponApplies(coupon, q.subtotal) /\ q.priced /\ quote' = q

Payouts == INSTANCE Settlements WITH Payments <- Cards

Wages == INSTANCE Payroll WITH Callers <- Hands, call <- wagesCall

Shown == INSTANCE MenuCache WITH
    Products <- Cards, Admins <- Hands,
    product <- menuItem, category <- menuCategory, call <- menuCall

Tree == INSTANCE Catalogue WITH
    Categories <- Cards, Products <- Leaves, Admins <- Hands, Customers <- Hands,
    category <- branch, product <- leaf, call <- treeCall

Opening == INSTANCE OpeningHours WITH Managers <- Hands

Checks == INSTANCE OrderChecks WITH
    Managers <- Hands, Schedules <- {OpenWeek}, RuleData <- {}, Times <- 0 .. 0,
    LastDate <- LastOrderDate, Customers <- Hands, Orders <- Cards, Baskets <- OrderBaskets,
    Window <- OnTheMenu, Category <- <<0, 0>>, Groups <- OptionGroups,
    Selections <- Choices, now <- hour, product <- offered, menu <- menuRead,
    call <- orderCall, order <- placed, lapped <- checkLapped

ASSUME BackOfficeAssumption ==
    /\ Till!DrawerAssumption /\ Risk!RiskAssumption
    /\ Payouts!SettlementAssumption /\ Wages!TimesheetAssumption
    /\ Shown!MenuAssumption /\ Tree!CatalogueAssumption
    /\ Opening!HoursAssumption /\ Checks!ChecksAssumption
    /\ Items!ItemsAssumption
    /\ Baskets \subseteq Seq(Prices!Lines) /\ \A c \in Coupons : Prices!IsCoupon(c)
    /\ TaxRates \subseteq Nat /\ ServiceRates \subseteq Nat

-----------------------------------------------------------------------------
tillVars == <<drawer, pay, drops, flagged, tillCall, misbooked, late, lost,
              requests>>
riskVars == <<score, level, restriction, riskCall, events, calls>>
authVars == <<account, token, session, authRequest, authLapped, reported>>
itemsVars == <<order, key, request, lapped, repeated>>
pricesVars == <<quote>>
payoutsVars == <<settlement, confirmed, handling, payout, syncing, ran,
                 failures>>
wagesVars == <<closed, period, record, export, wagesCall, exact>>
shownVars == <<menuItem, menuCategory, changes, version, cache, menuCall,
               reading, announced, orphaned, behind>>
treeVars == <<branch, leaf, treeCall, misplaced, strayed, favourite, toggle,
              toggled>>
openingVars == <<hours, update, settled, rules>>
checksVars == <<hour, offered, menuRead, placed, orderCall, asked,
                checkLapped>>

\* The variables of a component that is not followed hold nothing.
TillOff ==
    /\ drawer = 0 /\ pay = 0 /\ drops = 0 /\ flagged = 0
    /\ tillCall = 0 /\ misbooked = 0 /\ late = 0 /\ lost = 0
    /\ requests = 0

RiskOff ==
    /\ score = 0 /\ level = 0 /\ restriction = 0 /\ riskCall = 0
    /\ events = 0 /\ calls = 0

AuthOff ==
    /\ account = 0 /\ token = 0 /\ session = 0 /\ authRequest = 0
    /\ authLapped = 0 /\ reported = 0

ItemsOff ==
    /\ order = 0 /\ key = 0 /\ request = 0 /\ lapped = 0
    /\ repeated = 0

PricesOff ==
    /\ quote = 0

PayoutsOff ==
    /\ settlement = 0 /\ confirmed = 0 /\ handling = 0 /\ payout = 0
    /\ syncing = 0 /\ ran = 0 /\ failures = 0

WagesOff ==
    /\ closed = 0 /\ period = 0 /\ record = 0 /\ export = 0
    /\ wagesCall = 0 /\ exact = 0

ShownOff ==
    /\ menuItem = 0 /\ menuCategory = 0 /\ changes = 0 /\ version = 0
    /\ cache = 0 /\ menuCall = 0 /\ reading = 0 /\ announced = 0
    /\ orphaned = 0 /\ behind = 0

TreeOff ==
    /\ branch = 0 /\ leaf = 0 /\ treeCall = 0 /\ misplaced = 0
    /\ strayed = 0 /\ favourite = 0 /\ toggle = 0 /\ toggled = 0

OpeningOff ==
    /\ hours = 0 /\ update = 0 /\ settled = 0 /\ rules = 0

ChecksOff ==
    /\ hour = 0 /\ offered = 0 /\ menuRead = 0 /\ placed = 0
    /\ orderCall = 0 /\ asked = 0 /\ checkLapped = 0

Init ==
    \/ /\ focus = "till" /\ Till!Init
       /\ RiskOff /\ AuthOff /\ ItemsOff /\ PricesOff /\ PayoutsOff
       /\ WagesOff /\ ShownOff /\ TreeOff /\ OpeningOff /\ ChecksOff
    \/ /\ focus = "risk" /\ Risk!Init
       /\ TillOff /\ AuthOff /\ ItemsOff /\ PricesOff /\ PayoutsOff
       /\ WagesOff /\ ShownOff /\ TreeOff /\ OpeningOff /\ ChecksOff
    \/ /\ focus = "auth" /\ Auth!Init
       /\ TillOff /\ RiskOff /\ ItemsOff /\ PricesOff /\ PayoutsOff
       /\ WagesOff /\ ShownOff /\ TreeOff /\ OpeningOff /\ ChecksOff
    \/ /\ focus = "items" /\ Items!Init
       /\ TillOff /\ RiskOff /\ AuthOff /\ PricesOff /\ PayoutsOff
       /\ WagesOff /\ ShownOff /\ TreeOff /\ OpeningOff /\ ChecksOff
    \/ /\ focus = "price" /\ quote = NoQuote
       /\ TillOff /\ RiskOff /\ AuthOff /\ ItemsOff /\ PayoutsOff
       /\ WagesOff /\ ShownOff /\ TreeOff /\ OpeningOff /\ ChecksOff
    \/ /\ focus = "payout" /\ Payouts!Init
       /\ TillOff /\ RiskOff /\ AuthOff /\ ItemsOff /\ PricesOff
       /\ WagesOff /\ ShownOff /\ TreeOff /\ OpeningOff /\ ChecksOff
    \/ /\ focus = "wages" /\ Wages!Init
       /\ TillOff /\ RiskOff /\ AuthOff /\ ItemsOff /\ PricesOff
       /\ PayoutsOff /\ ShownOff /\ TreeOff /\ OpeningOff /\ ChecksOff
    \/ /\ focus = "menu" /\ Shown!Init
       /\ TillOff /\ RiskOff /\ AuthOff /\ ItemsOff /\ PricesOff
       /\ PayoutsOff /\ WagesOff /\ TreeOff /\ OpeningOff /\ ChecksOff
    \/ /\ focus \in {"catalogue", "favourites"} /\ Tree!Init
       /\ TillOff /\ RiskOff /\ AuthOff /\ ItemsOff /\ PricesOff
       /\ PayoutsOff /\ WagesOff /\ ShownOff /\ OpeningOff /\ ChecksOff
    \/ /\ focus \in {"hours", "rules"} /\ Opening!OpeningInit
       /\ TillOff /\ RiskOff /\ AuthOff /\ ItemsOff /\ PricesOff
       /\ PayoutsOff /\ WagesOff /\ ShownOff /\ TreeOff /\ ChecksOff
    \/ /\ focus = "orders" /\ Checks!ChecksInit /\ OpenHours /\ asked = FirstAsked
       /\ TillOff /\ RiskOff /\ AuthOff /\ ItemsOff /\ PricesOff
       /\ PayoutsOff /\ WagesOff /\ ShownOff /\ TreeOff
    \/ /\ focus = "options" /\ Checks!ChecksInit /\ OpenHours
       /\ TillOff /\ RiskOff /\ AuthOff /\ ItemsOff /\ PricesOff
       /\ PayoutsOff /\ WagesOff /\ ShownOff /\ TreeOff

Next ==
    \/ /\ focus = "till" /\ Till!Next
       /\ UNCHANGED <<focus, riskVars, authVars, itemsVars, pricesVars,
                    payoutsVars, wagesVars, shownVars, treeVars, openingVars,
                    checksVars>>
    \/ /\ focus = "risk" /\ Risk!Next
       /\ UNCHANGED <<focus, tillVars, authVars, itemsVars, pricesVars,
                    payoutsVars, wagesVars, shownVars, treeVars, openingVars,
                    checksVars>>
    \/ /\ focus = "auth" /\ Auth!Next
       /\ UNCHANGED <<focus, tillVars, riskVars, itemsVars, pricesVars,
                    payoutsVars, wagesVars, shownVars, treeVars, openingVars,
                    checksVars>>
    \/ /\ focus = "items" /\ Items!Next
       /\ UNCHANGED <<focus, tillVars, riskVars, authVars, pricesVars,
                    payoutsVars, wagesVars, shownVars, treeVars, openingVars,
                    checksVars>>
    \/ /\ focus = "price" /\ AskPrice
       /\ UNCHANGED <<focus, tillVars, riskVars, authVars, itemsVars,
                    payoutsVars, wagesVars, shownVars, treeVars, openingVars,
                    checksVars>>
    \/ /\ focus = "payout" /\ Payouts!Next
       /\ UNCHANGED <<focus, tillVars, riskVars, authVars, itemsVars,
                    pricesVars, wagesVars, shownVars, treeVars, openingVars,
                    checksVars>>
    \/ /\ focus = "wages" /\ Wages!Next
       /\ UNCHANGED <<focus, tillVars, riskVars, authVars, itemsVars,
                    pricesVars, payoutsVars, shownVars, treeVars, openingVars,
                    checksVars>>
    \/ /\ focus = "menu" /\ Shown!Next
       /\ UNCHANGED <<focus, tillVars, riskVars, authVars, itemsVars,
                    pricesVars, payoutsVars, wagesVars, treeVars, openingVars,
                    checksVars>>
    \/ /\ focus = "catalogue" /\ Tree!CatalogueNext
       /\ UNCHANGED <<focus, tillVars, riskVars, authVars, itemsVars,
                    pricesVars, payoutsVars, wagesVars, shownVars,
                    openingVars, checksVars>>
    \/ /\ focus = "favourites" /\ Tree!FavouriteNext
       /\ UNCHANGED <<focus, tillVars, riskVars, authVars, itemsVars,
                    pricesVars, payoutsVars, wagesVars, shownVars,
                    openingVars, checksVars>>
    \/ /\ focus = "hours" /\ Opening!HoursNext
       /\ UNCHANGED <<focus, tillVars, riskVars, authVars, itemsVars,
                    pricesVars, payoutsVars, wagesVars, shownVars, treeVars,
                    checksVars>>
    \/ /\ focus = "rules" /\ Opening!RulesNext
       /\ UNCHANGED <<focus, tillVars, riskVars, authVars, itemsVars,
                    pricesVars, payoutsVars, wagesVars, shownVars, treeVars,
                    checksVars>>
    \/ /\ focus = "orders" /\ Checks!ChecksNext
       /\ UNCHANGED <<focus, tillVars, riskVars, authVars, itemsVars,
                    pricesVars, payoutsVars, wagesVars, shownVars, treeVars>>
    \/ /\ focus = "options" /\ Checks!Ask
       /\ UNCHANGED <<focus, tillVars, riskVars, authVars, itemsVars,
                    pricesVars, payoutsVars, wagesVars, shownVars, treeVars>>

everyVar == <<focus, tillVars, riskVars, authVars, itemsVars, pricesVars,
             payoutsVars, wagesVars, shownVars, treeVars, openingVars,
             checksVars>>
Spec == Init /\ [][Next]_everyVar

-----------------------------------------------------------------------------
\* The cash in a drawer is what its history says, a shortage does not close
\* unseen, and the reports on a shift and a day agree with the drawer.
DrawersAccounted ==
    focus = "till" => Till!DrawerBooks /\ Till!NoSilentShortage /\ Till!ShiftReportsAgree

\* A restriction is the one that the level of risk calls for.
RiskPolicy == focus = "risk" => Risk!RiskPolicy

\* A token that was rotated, revoked or superseded stays dead.
TokensInOrder == focus = "auth" => Auth!TokensInOrder

\* One key makes one order, the totals follow the items, and a receipt adds up
\* to a cent a line.
OrdersSound ==
    /\ focus = "items" => Items!OrdersSound
    /\ focus = "price" /\ quote # NoQuote => Prices!AddsUp(quote)

\* A payout the sync job no longer sees has settled its charges.
SettledInTime == focus = "payout" => Payouts!SettledInTime

\* A period pays the hours that were worked, once, and the export the same.
PayAddsUp == focus = "wages" => Wages!PayAddsUp

\* A customer never reads a menu older than the last change that was announced,
\* the tree of categories behind it keeps its names and places apart, and every
\* toggle of a favourite turns it.
MenuSound ==
    /\ focus = "menu" => Shown!MenuSound
    /\ focus = "catalogue" => Tree!CatalogueSound
    /\ focus = "favourites" => Tree!FavouriteTurned

\* No more is sold a day than the limit, a customer is told beforehand what the
\* order will say and cost, and the hours of a week are the last that were sent.
ChecksSound ==
    /\ focus = "orders" => Checks!LimitKept
    /\ focus = "options" => Checks!CustomersTold
    /\ focus = "hours" => Opening!HoursSettled

\* An exception that is added takes a product off sale and never puts it on, and
\* so on: see module OpeningHours.
RulesSound ==
    [][focus = "rules" => \A r \in Rules : rules'[r] # rules[r] => Opening!RuleChange(r)]_everyVar
================================================================================
