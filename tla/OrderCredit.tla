------------------------------ MODULE OrderCredit ------------------------------
(***************************************************************************)
(* Who took, prepared and served the orders of a store, and what it earns  *)
(* them: OrderAttributionService, TipsAndCommissionService and the job     *)
(* that runs it.                                                           *)
(*                                                                         *)
(* Adding a name to those who prepared an order, counting the tips and     *)
(* computing a commission each read in one statement and write in another. *)
(* The nightly job for tips names a database client that it does not       *)
(* import, so that only requests count a pool.                             *)
(* Sharing out a pool always fails: the rows lack fields that the schema   *)
(* requires; and no request pays a commission.                             *)
(***************************************************************************)
EXTENDS Integers, FiniteSets, Functions

CONSTANTS
    Orders, Staff,
    Callers,      \* requests and jobs, each with a call of its own
    Price,        \* Orders -> cents
    Tips,         \* amounts a tip may have
    NoOne

CreditAssumption ==
    /\ IsFiniteSet(Orders) /\ IsFiniteSet(Staff)
    /\ \A o \in Orders : Price[o] \in Nat

VARIABLES
    sale,         \* rows of Order: completed, takenBy, preparedBy, servedBy, tipAmount
    pool,         \* the row of TipPool
    commission,   \* rows of Commission, by member of staff
    call,
    credited,     \* who was told that they are among those who prepared an order
    lapped,       \* orders where one write to preparedBy passed over another
    retaken,      \* an order changed hands after or while a commission was computed
    tippedLate    \* a tip was recorded after or while the pool was counted

creditVars == <<sale, pool, commission, call, credited, lapped, retaken, tippedLate>>

Idle == [op |-> "idle"]
NoPool == [status |-> "none", tips |-> 0]
NoCommission == [sales |-> 0, amount |-> 0]

Begin(c, what) == call[c] = Idle /\ call' = [call EXCEPT ![c] = what]
Done(c) == call' = [call EXCEPT ![c] = Idle]
Busy(op) == \E c \in Callers : call[c].op = op

Round(n, d) == (2 * n + d) \div (2 * d)
Sum(S, f(_)) == SumFunction([x \in S |-> f(x)])
Total(os) == Sum(os, LAMBDA o : Price[o])

-----------------------------------------------------------------------------
(* OrderAttributionService.                                                *)

Counted == \E u \in Staff : commission[u] # NoCommission

ChangeHands(o, u) ==
    retaken' = (retaken \/ (sale[o].takenBy # u /\ (Busy("commission") \/ Counted)))

\* attributeOrder: whoever is left out is left alone, but for preparedBy.
attributeOrder(o, taken, prepared, served) ==
    /\ sale' = [sale EXCEPT ![o] =
           [completed |-> @.completed, tipAmount |-> @.tipAmount, preparedBy |-> prepared,
            takenBy |-> IF taken = NoOne THEN @.takenBy ELSE taken,
            servedBy |-> IF served = NoOne THEN @.servedBy ELSE served]]
    /\ ChangeHands(o, sale'[o].takenBy)
    /\ credited' = [credited EXCEPT ![o] = prepared]
    /\ lapped' = IF \E c \in Callers : call[c].op = "prepared" /\ call[c].of = o
                 THEN lapped \union {o} ELSE lapped
    /\ UNCHANGED <<pool, commission, call, tippedLate>>

setTakenBy(o, u) ==
    /\ sale' = [sale EXCEPT ![o].takenBy = u]
    /\ ChangeHands(o, u)
    /\ UNCHANGED <<pool, commission, call, credited, lapped, tippedLate>>

setServedBy(o, u) ==
    /\ sale' = [sale EXCEPT ![o].servedBy = u]
    /\ UNCHANGED <<pool, commission, call, credited, lapped, retaken, tippedLate>>

addPreparedBy(c, o, u) ==
    /\ Begin(c, [op |-> "prepared", of |-> o, by |-> u, names |-> sale[o].preparedBy])
    /\ UNCHANGED <<sale, pool, commission, credited, lapped, retaken, tippedLate>>

\* Faulty variant: the name replaces the names that were read.
PreparedAlone(c) ==
    LET k == call[c] IN
    /\ k.op = "prepared"
    /\ sale' = [sale EXCEPT ![k.of].preparedBy = {k.by}]
    /\ credited' = [credited EXCEPT ![k.of] = @ \union {k.by}]
    /\ Done(c)
    /\ UNCHANGED <<pool, commission, lapped, retaken, tippedLate>>

PreparedWrite(c) ==
    LET k == call[c] IN
    /\ k.op = "prepared"
    /\ sale' = [sale EXCEPT ![k.of].preparedBy = k.names \union {k.by}]
    /\ credited' = [credited EXCEPT ![k.of] = @ \union {k.by}]
    /\ lapped' = IF sale[k.of].preparedBy # k.names THEN lapped \union {k.of} ELSE lapped
    /\ Done(c)
    /\ UNCHANGED <<pool, commission, retaken, tippedLate>>

\* The order is completed (OrderPayment).
Complete(o) ==
    /\ ~sale[o].completed
    /\ sale' = [sale EXCEPT ![o].completed = TRUE]
    /\ UNCHANGED <<pool, commission, call, credited, lapped, retaken, tippedLate>>

\* getStaffOrderStats and getTopPerformers: the same orders, of one or by taker.
OrdersTaken(u) == {o \in Orders : sale[o].completed /\ sale[o].takenBy = u}
getStaffOrderStats(u) ==
    [taken |-> Total(OrdersTaken(u)),
     tips |-> Sum(OrdersTaken(u), LAMBDA o : sale[o].tipAmount)]
getTopPerformers == [u \in Staff |-> getStaffOrderStats(u)]

-----------------------------------------------------------------------------
(* Tips.                                                                   *)

TipsGiven == SumFunction([o \in Orders |-> sale[o].tipAmount])

recordTip(o, amount) ==
    /\ sale' = [sale EXCEPT ![o].tipAmount = amount]
    /\ tippedLate' = (tippedLate \/ pool # NoPool \/ Busy("tips"))
    /\ UNCHANGED <<pool, commission, call, credited, lapped, retaken>>

\* calculateTipPool finds or creates the row, and counts.
CountTips(c) ==
    /\ Begin(c, [op |-> "tips", tips |-> TipsGiven])
    /\ pool' = IF pool = NoPool THEN [status |-> "OPEN", tips |-> 0] ELSE pool
    /\ UNCHANGED <<sale, commission, credited, lapped, retaken, tippedLate>>

\* The count is kept, and then the request fails.
StoreCount(c) ==
    /\ call[c].op = "tips"
    /\ pool' = [status |-> "CALCULATED", tips |-> call[c].tips]
    /\ Done(c)
    /\ UNCHANGED <<sale, commission, credited, lapped, retaken, tippedLate>>

\* distributeTips: no shares are there to pay; the pool is closed in any state.
distributeTips ==
    /\ pool # NoPool
    /\ pool' = [status |-> "DISTRIBUTED", tips |-> pool.tips]
    /\ UNCHANGED <<sale, commission, call, credited, lapped, retaken, tippedLate>>

-----------------------------------------------------------------------------
(* calculateCommission, for a request or CommissionCalculationJob: 2.5 per  *)
(* cent, and a tenth more when a target is met.                            *)

CommissionOn(sales, target) ==
    LET amount == Round(25 * sales, 1000)
    IN  [sales |-> sales,
         amount |-> amount + IF target > 0 /\ sales >= target THEN Round(amount, 10) ELSE 0]

ReadSales(c, u, target) ==
    /\ Begin(c, [op |-> "commission", of |-> u, target |-> target, sales |-> getStaffOrderStats(u).taken])
    /\ UNCHANGED <<sale, pool, commission, credited, lapped, retaken, tippedLate>>

StoreCommission(c) ==
    LET k == call[c] IN
    /\ k.op = "commission"
    /\ commission' = [commission EXCEPT ![k.of] = CommissionOn(k.sales, k.target)]
    /\ Done(c)
    /\ UNCHANGED <<sale, pool, credited, lapped, retaken, tippedLate>>

-----------------------------------------------------------------------------

\* The request fails, or the server stops.
Fail(c) ==
    /\ call[c] # Idle /\ Done(c)
    /\ UNCHANGED <<sale, pool, commission, credited, lapped, retaken, tippedLate>>

Init ==
    /\ sale = [o \in Orders |-> [completed |-> FALSE, takenBy |-> NoOne, preparedBy |-> {},
                                 servedBy |-> NoOne, tipAmount |-> 0]]
    /\ pool = NoPool /\ commission = [u \in Staff |-> NoCommission]
    /\ call = [c \in Callers |-> Idle]
    /\ credited = [o \in Orders |-> {}] /\ lapped = {}
    /\ retaken = FALSE /\ tippedLate = FALSE

\* The three parts write different columns, so each can be followed by itself.
PreparedNext ==
    \/ \E o \in Orders, u \in Staff : setServedBy(o, u) \/ \E c \in Callers : addPreparedBy(c, o, u)
    \/ \E o \in Orders, us \in SUBSET Staff : attributeOrder(o, NoOne, us, NoOne)
    \/ \E c \in Callers : PreparedWrite(c) \/ Fail(c)

TipsNext ==
    \/ \E o \in Orders, amount \in Tips : recordTip(o, amount)
    \/ \E c \in Callers : CountTips(c) \/ StoreCount(c) \/ Fail(c)
    \/ distributeTips

CommissionNext ==
    \/ \E o \in Orders, u \in Staff :
           setTakenBy(o, u) \/ Complete(o) \/ attributeOrder(o, u, sale[o].preparedBy, u)
    \/ \E c \in Callers :
           \/ \E u \in Staff, target \in {0, 50} : ReadSales(c, u, target)
           \/ StoreCommission(c) \/ Fail(c)

Next == PreparedNext \/ TipsNext \/ CommissionNext

Spec == Init /\ [][Next]_creditVars

-----------------------------------------------------------------------------

\* Everybody who was told so is among those who prepared the order, unless one
\* write passed over another.
PreparedKept == \A o \in Orders \ lapped : credited[o] \subseteq sale[o].preparedBy

\* The pool holds the tips of its orders, once it is counted and until a tip is
\* changed behind its back.
TipsPooled ==
    pool.status = "CALCULATED" /\ ~tippedLate => pool.tips = TipsGiven

\* No order earns two commissions: together they rest on no more than the sales
\* of the performers' list, unless an order changed hands behind their back, and
\* they are a fortieth of it, and a tenth of that, up to two roundings each.
CommissionOnce ==
    LET listed == Sum(Staff, LAMBDA u : getTopPerformers[u].taken)
        rested == Sum(Staff, LAMBDA u : commission[u].sales)
        paid == Sum(Staff, LAMBDA u : commission[u].amount)
    IN  /\ ~retaken => rested <= listed
        /\ 4000 * paid <= 110 * rested + 4200 * Cardinality(Staff)

================================================================================
