------------------------------- MODULE MCStoreDay -------------------------------
(* Stock: one item with two units, an order of two and one of one, so that   *)
(* holds, sales and the cut at zero meet, two clerks and a restock of one    *)
(* unit.  Everywhere two requests are under way at once.                     *)
EXTENDS StoreDay, TLC

CONSTANTS o1, o2, latte, c1, a, b, x1, x2

TwoHands == {a, b}
TwoCards == {x1, x2}
TwoSlips == {o1, o2}
OneLatte == (o1 :> (latte :> 2)) @@ (o2 :> (latte :> 1))
TwoUnits == latte :> 2
Fifteen == "shift" :> 15
TwoPrices == (o1 :> 30) @@ (o2 :> 41)
Center == latte :> "center"
TwoTakes ==
    (o1 :> [item |-> latte, quantity |-> 2]) @@ (o2 :> [item |-> latte, quantity |-> 1])
Overlapping == {<<1, 3>>, <<2, 4>>}

\* One sale in cash, and one by card at either store, at the till or through
\* the provider.
TwoSales ==
    [s1 |-> [price |-> 30, stores |-> {"center"}, methods |-> {"CASH"}, hour |-> 8,
             customer |-> "ann", product |-> "latte", category |-> "coffee",
             quantity |-> 2, subtotal |-> 27],
     s2 |-> [price |-> 41, stores |-> {"center", "harbor"}, methods |-> {"CARD_TERMINAL", "STRIPE"},
             hour |-> 9, customer |-> "ann", product |-> "tea", category |-> "hot",
             quantity |-> 1, subtotal |-> 37]]

\* A behaviour is followed until requests that overlap spoil its books: all that
\* is checked is about the time before.  The bounds: a clerk adjusts the stock or
\* the night job runs, or both orders are rung up at the till; the requests about
\* the cost of labor are over after the first hour; the sale by card is at the
\* other store for the reports, that take both stores together, and at the same
\* store where two sales meet in one row; it is paid through the provider, but
\* for the jobs on products, that run on the first day, and for one hour of it.
BooksIntact ==
    /\ focus = "stock" =>
           /\ ~overwrote /\ ~clamped /\ ~staleSettle /\ ~lostRecount
           /\ rungUp = Slips => adjustments = 0 /\ job = Upkeep!JobIdle
    /\ focus = "clock" => ~doubled /\ ~noShowLate /\ crossed = {}
    /\ focus = "breaks" => twice = {} /\ lookedTwice = {}
    /\ focus = "prepared" => lapped = {}
    /\ focus = "commission" => ~retaken
    /\ focus = "labor" =>
           /\ ~broken
           /\ halfHour > 1 =>
                  /\ budgets = {} /\ snapshot = Labor!NoSnapshot
                  /\ \A h \in Hands : laborCall[h] = Labor!Idle
    /\ focus = "tables" => sales["s2"].store # "center"
    /\ focus \in {"events", "items", "products"} => sales["s2"].store # "harbor"
    /\ focus \in {"events", "tables", "items"} => sales["s2"].method # "CARD_TERMINAL"
    /\ focus = "events" /\ sales["s1"].pay = "VOIDED" => sales["s2"].pay # "PARTIALLY_REFUNDED"
    /\ focus = "items" =>
           \A s \in SalesMade : /\ sales[s].order \notin {"COMPLETED", "CANCELLED"}
                           /\ sales[s].pay \notin {"FAILED", "PARTIALLY_REFUNDED"}
    /\ focus = "products" =>
           /\ sales["s2"].method # "STRIPE"
           /\ \E s \in SalesMade : sales[s].pay # "VOIDED"
           /\ <<"hour", 9, 0>> \notin ran
           /\ \A w \in ran : w[Len(w)] = 0

Symmetry == Permutations({a, b}) \union Permutations({x1, x2})
=================================================================================
