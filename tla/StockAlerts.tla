------------------------------- MODULE StockAlerts -------------------------------
(***************************************************************************)
(* The status of an InventoryItem and the alerts about it: what orders,    *)
(* the till, the back office and returns write into the status, what       *)
(* LowStockCheckJob finds in rows it read before, and the flags that keep  *)
(* an alert from being sent twice.  That the counters themselves are right *)
(* is in modules Inventory and StockUpkeep: here every writer reads and    *)
(* writes them at once, the back office and the job their flags later.     *)
(***************************************************************************)
EXTENDS Integers, FiniteSets, FiniteSetsExt

CONSTANTS
    Items,         \* rows of InventoryItem
    StoreOf,       \* their stores
    Orders, Takes, \* orders, each of a number of units of one item
    Clerks,        \* adjustments of the back office
    Runs,          \* runs of the half-hourly job
    Start, ReorderPoint, Delta,
    MaxMoves       \* bound: units that are added, and walk-in sales

VARIABLES
    item,          \* the columns of each item
    order,         \* its reservation: "none", "active", "committed" or "released"
    clerk, run,
    added, cut,    \* units added, and walk-in sales larger than the stock
    sold,          \* movements of type SALE, by item
    told,          \* items somebody was told about since their flag was last reset
    lost,          \* items with a flag that was set by a run that did not end
    oversold,      \* items of which units on hold were sold or written off
    outdated       \* items whose status was written from a row read before it changed

alertVars == <<item, order, clerk, run, added, cut, sold, told, lost, oversold, outdated>>

Idle == [op |-> "idle"]
NotBelowZero(n) == IF n < 0 THEN 0 ELSE n

StatusFor(stock) ==
    IF stock <= 0 THEN "OUT_OF_STOCK" ELSE IF stock <= ReorderPoint THEN "LOW_STOCK" ELSE "IN_STOCK"

\* The row of an item with other counters and another status: its flags stay.
Row(i, current, reserved, available, status) ==
    [current |-> current, reserved |-> reserved, available |-> available, status |-> status,
     lowSent |-> item[i].lowSent, outSent |-> item[i].outSent]

\* A row changes, and with it the status; what a run has read of it is old.
Write(i, current, reserved, available, status) ==
    /\ item' = [item EXCEPT ![i] = Row(i, current, reserved, available, status)]
    /\ outdated' = outdated \ {i}
    /\ oversold' = IF current < reserved THEN oversold \union {i} ELSE oversold

Flags == UNCHANGED <<clerk, run, told, lost>>
Counts == UNCHANGED <<added, cut, sold>>

Take(o) == Takes[o].quantity
Of(o) == item[Takes[o].item]

-----------------------------------------------------------------------------
(* InventoryOrderService.                                                  *)

\* A hold changes the counters and leaves the status.
reserveForOrder(o) ==
    /\ order[o] = "none" /\ Of(o).available >= Take(o)
    /\ item' = [item EXCEPT ![Takes[o].item] =
           Row(Takes[o].item, Of(o).current, Of(o).reserved + Take(o),
               Of(o).available - Take(o), Of(o).status)]
    /\ order' = [order EXCEPT ![o] = "active"]
    /\ UNCHANGED <<oversold, outdated>> /\ Flags /\ Counts

\* A sale: the item is out, or in stock however little is left.
\* Faulty variant: in stock, whatever is left.
SaleStatusIn(stock) == "IN_STOCK"
SaleStatus(stock) == IF stock <= 0 THEN "OUT_OF_STOCK" ELSE "IN_STOCK"

commitForOrder(o) ==
    LET row == Of(o)
        new == row.current - Take(o)
    IN  /\ order[o] = "active"
        /\ Write(Takes[o].item, new, row.reserved - Take(o), row.available, SaleStatus(new))
        /\ order' = [order EXCEPT ![o] = "committed"]
        /\ sold' = [sold EXCEPT ![Takes[o].item] = @ + Take(o)]
        /\ UNCHANGED <<added, cut>> /\ Flags

\* The hold of an order that is cancelled, or was not paid in time, is given up:
\* the status says what is available, not what is there.
releaseForOrder(o) ==
    LET row == Of(o)
        new == row.available + Take(o)
    IN  /\ order[o] = "active"
        /\ Write(Takes[o].item, row.current, row.reserved - Take(o), new,
                 IF new > 0 THEN "IN_STOCK" ELSE "OUT_OF_STOCK")
        /\ order' = [order EXCEPT ![o] = "released"]
        /\ Flags /\ Counts

\* A walk-in sale is booked in full, and the stock is cut at zero.
deductForOrder(i, quantity) ==
    LET row == item[i]
        new == NotBelowZero(row.current - quantity)
    IN  /\ sold[i] + quantity <= MaxMoves
        /\ Write(i, new, row.reserved, NotBelowZero(new - row.reserved), SaleStatus(new))
        /\ sold' = [sold EXCEPT ![i] = @ + quantity]
        /\ cut' = [cut EXCEPT ![i] = @ + quantity - (row.current - new)]
        /\ UNCHANGED <<order, added>> /\ Flags

\* PAYMENT_VOIDED and a full REFUND_COMPLETED put the units back.
returnStock(o) ==
    LET row == Of(o)
    IN  /\ order[o] = "committed"
        /\ Write(Takes[o].item, row.current + Take(o), row.reserved,
                 row.available + Take(o), "IN_STOCK")
        /\ order' = [order EXCEPT ![o] = "returned"]
        /\ added' = [added EXCEPT ![Takes[o].item] = @ + Take(o)]
        /\ UNCHANGED <<cut, sold>> /\ Flags

-----------------------------------------------------------------------------
(* InventoryService.adjustStock: the counters, and the flags from the row  *)
(* that was read before.                                                   *)

adjustStock(c, i, quantity) ==
    LET row == item[i]
        new == row.current + quantity
    IN  /\ clerk[c] = Idle /\ new >= 0 /\ added[i] + quantity <= MaxMoves
        /\ Write(i, new, row.reserved, NotBelowZero(new - row.reserved), StatusFor(new))
        /\ added' = [added EXCEPT ![i] = @ + quantity]
        /\ clerk' = [clerk EXCEPT ![c] =
               IF new <= ReorderPoint /\ ~row.lowSent THEN [op |-> "tell", of |-> i]
               ELSE IF new > ReorderPoint /\ row.lowSent THEN [op |-> "reset", of |-> i]
               ELSE Idle]
        /\ UNCHANGED <<order, run, cut, sold, told, lost>>

\* INVENTORY_LOW_STOCK goes out, and then the flag is set.
TellLow(c) ==
    /\ clerk[c].op = "tell"
    /\ told' = told \union {clerk[c].of}
    /\ clerk' = [clerk EXCEPT ![c] = [op |-> "flag", of |-> @.of]]
    /\ UNCHANGED <<item, order, run, lost, oversold, outdated>> /\ Counts

FlagLow(c) ==
    /\ clerk[c].op = "flag"
    /\ item' = [item EXCEPT ![clerk[c].of].lowSent = TRUE]
    /\ clerk' = [clerk EXCEPT ![c] = Idle]
    /\ told' = told \union {clerk[c].of}
    /\ UNCHANGED <<order, run, lost, oversold, outdated>> /\ Counts

\* The flags of rows are taken back, and with them what anybody was told.
ResetFlags(is) ==
    /\ item' = [i \in Items |->
           [current |-> item[i].current, reserved |-> item[i].reserved,
            available |-> item[i].available, status |-> item[i].status,
            lowSent |-> item[i].lowSent /\ i \notin is,
            outSent |-> item[i].outSent /\ i \notin is]]
    /\ told' = told \ is
    /\ lost' = lost \ is

ResetBoth(c) ==
    /\ clerk[c].op = "reset"
    /\ ResetFlags({clerk[c].of})
    /\ clerk' = [clerk EXCEPT ![c] = Idle]
    /\ UNCHANGED <<order, run, oversold, outdated>> /\ Counts

\* The end of InventoryReconciliationJob: the flag of an item that went straight
\* to zero is not reset, as only items with the other flag are.
NightlyReset ==
    /\ ResetFlags({i \in Items : item[i].lowSent /\ item[i].status = "IN_STOCK"})
    /\ UNCHANGED <<order, clerk, run, oversold, outdated>> /\ Counts

-----------------------------------------------------------------------------
(* LowStockCheckJob: checkStoreLevels reads every item, writes them one by *)
(* one from what it read, and raises one alert at the end.                 *)

checkStoreLevels(r) ==
    /\ run[r] = Idle
    /\ run' = [run EXCEPT ![r] = [op |-> "check", rows |-> item, todo |-> Items, found |-> {}]]
    /\ UNCHANGED <<item, order, clerk, told, lost, oversold, outdated>> /\ Counts

FoundOut(row) == row.available <= 0 /\ ~row.outSent
FoundLow(row) == row.available > 0 /\ row.available <= ReorderPoint /\ ~row.lowSent

\* Faulty variant: the item is put on the list after the flags were tested again.
ListAfterWrite(i, r) == run[r].found

\* The item is on the list of the alert.
ListItem(i, r) == run[r].found \union {i}

CheckItem(r) ==
    /\ run[r].op = "check"
    /\ \E i \in run[r].todo :
           LET row == run[r].rows[i]
               finds == FoundOut(row) \/ FoundLow(row)
           IN  /\ run' = [run EXCEPT ![r] =
                      [op |-> "check", rows |-> @.rows, todo |-> @.todo \ {i},
                       found |-> IF finds THEN ListItem(i, r) ELSE @.found]]
               /\ item' = [item EXCEPT ![i] =
                      [current |-> @.current, reserved |-> @.reserved,
                       available |-> @.available,
                       status |-> IF FoundOut(row) THEN "OUT_OF_STOCK"
                                  ELSE IF FoundLow(row) THEN "LOW_STOCK" ELSE @.status,
                       lowSent |-> @.lowSent \/ FoundLow(row),
                       outSent |-> @.outSent \/ FoundOut(row)]]
               /\ outdated' = IF finds /\ item[i] # row THEN outdated \union {i} ELSE outdated
    /\ UNCHANGED <<order, clerk, told, lost, oversold>> /\ Counts

\* The alert, or nothing when none was found.
RaiseAlert(r) ==
    /\ run[r].op = "check" /\ run[r].todo = {}
    /\ told' = told \union run[r].found
    /\ run' = [run EXCEPT ![r] = Idle]
    /\ UNCHANGED <<item, order, clerk, lost, oversold, outdated>> /\ Counts

\* The alert cannot be written, or the server stops: the flags stay.
RunDies(r) ==
    /\ run[r].op = "check"
    /\ lost' = lost \union run[r].found
    /\ run' = [run EXCEPT ![r] = Idle]
    /\ UNCHANGED <<item, order, clerk, told, oversold, outdated>> /\ Counts

-----------------------------------------------------------------------------
(* What the dashboards show of it.                                         *)

Kept(s) == {i \in Items : StoreOf[i] = s}
WithStatus(is, status) == {i \in is : item[i].status = status}

\* getStoreInventoryHealth.
StoreHealth(s) ==
    LET low == Cardinality(WithStatus(Kept(s), "LOW_STOCK"))
        out == Cardinality(WithStatus(Kept(s), "OUT_OF_STOCK"))
    IN  [total |-> Cardinality(Kept(s)), low |-> low, out |-> out,
         status |-> IF out > 0 THEN "CRITICAL" ELSE IF low > 0 THEN "WARNING" ELSE "HEALTHY"]

\* getTenantInventoryHealth: the rows are grouped by store and status, and the
\* items that are out are listed.
TenantHealth ==
    LET Summary(s) == StoreHealth(s)
        stores == {StoreOf[i] : i \in Items}
    IN  [low |-> MapThenSumSet(LAMBDA s : Summary(s).low, stores),
         out |-> MapThenSumSet(LAMBDA s : Summary(s).out, stores),
         storesWithIssues |-> {s \in stores : Summary(s).low > 0 \/ Summary(s).out > 0},
         critical |-> WithStatus(Items, "OUT_OF_STOCK")]

\* getLowStockItems.
LowStockItems == {i \in Items : item[i].status \in {"LOW_STOCK", "OUT_OF_STOCK"}}

\* getInventoryTurnover: units sold by the movements; an item of which none was
\* sold is shown to last for ever.
Turnover(i) ==
    [unitsSold |-> sold[i], lasting |-> sold[i] = 0 /\ item[i].current > 0]

-----------------------------------------------------------------------------
Init ==
    /\ item = [i \in Items |-> [current |-> Start, reserved |-> 0, available |-> Start,
                                status |-> StatusFor(Start), lowSent |-> FALSE, outSent |-> FALSE]]
    /\ order = [o \in Orders |-> "none"]
    /\ clerk = [c \in Clerks |-> Idle]
    /\ run = [r \in Runs |-> Idle]
    /\ added = [i \in Items |-> 0] /\ cut = [i \in Items |-> 0] /\ sold = [i \in Items |-> 0]
    /\ told = {} /\ lost = {} /\ oversold = {} /\ outdated = {}

Next ==
    \/ \E o \in Orders : reserveForOrder(o) \/ commitForOrder(o) \/ releaseForOrder(o) \/ returnStock(o)
    \/ \E i \in Items, q \in {d \in Delta : d > 0} : deductForOrder(i, q)
    \/ \E c \in Clerks :
           \/ \E i \in Items, q \in Delta : adjustStock(c, i, q)
           \/ TellLow(c) \/ FlagLow(c) \/ ResetBoth(c)
    \/ NightlyReset
    \/ \E r \in Runs : checkStoreLevels(r) \/ CheckItem(r) \/ RaiseAlert(r) \/ RunDies(r)

Spec == Init /\ [][Next]_alertVars

-----------------------------------------------------------------------------
\* An item of which nothing is left is shown as out of stock by the dashboards
\* of its store and of the tenant and is on the list to reorder, whichever of its writers was the last, unless a
\* check wrote over a change it had not seen, or units on hold went to a walk-in
\* customer and the hold was given up afterwards.
EmptyIsOut ==
    \A i \in Items \ (outdated \union oversold) : item[i].current = 0 =>
        /\ i \in LowStockItems
        /\ StoreHealth(StoreOf[i]).status = "CRITICAL"
        /\ i \in TenantHealth.critical /\ StoreOf[i] \in TenantHealth.storesWithIssues

\* A flag that keeps an alert from being sent is up only when somebody was told,
\* is about to be by a run under way, or a run died before it could tell.
FlaggedIsTold ==
    \A i \in Items : item[i].lowSent \/ item[i].outSent =>
        \/ i \in told \union lost
        \/ \E r \in Runs : run[r].op = "check" /\ i \in run[r].found

\* The units the turnover report counts as sold explain the stock that is left,
\* but for walk-in sales of more than there was.
TurnoverExplains ==
    \A i \in Items :
        /\ Start + added[i] - Turnover(i).unitsSold + cut[i] = item[i].current
        /\ Turnover(i).lasting => item[i].current = Start + added[i]

AlertsSound == EmptyIsOut /\ FlaggedIsTold /\ TurnoverExplains

=============================================================================
