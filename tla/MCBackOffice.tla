------------------------------ MODULE MCBackOffice ------------------------------
(* Two requests at once everywhere, and the values and bounds of each part.  *)
EXTENDS BackOffice, TLC

CONSTANTS a, b, x1, x2, r1, r2, o1, t1, u1

TwoHands == {a, b}
TwoCards == {x1, x2}
TwoRules == {r1, r2}
CountErrors == {0, -2}
OneMenu == {<<[unitPrice |-> 5, quantity |-> 2], [unitPrice |-> 7, quantity |-> 1]>>}
OneOffer == {[type |-> "FIXED_AMOUNT", amountOff |-> 3, minimumAmount |-> 10]}

\* Two weeks of one member of staff, of which the second is not over, and one of
\* another at the other store.
Sheet ==
    ("e1" :> [by |-> "ann", store |-> "center", year |-> 1, week |-> 1, hours |-> 30, rate |-> 15])
    @@ ("e2" :> [by |-> "ann", store |-> "center", year |-> 1, week |-> 2, hours |-> 25, rate |-> 15])
    @@ ("e3" :> [by |-> "bo", store |-> "harbor", year |-> 1, week |-> 2, hours |-> 10, rate |-> 15])

\* Two days a week: a schedule that names each day once, and one that names a
\* day twice, first with hours past midnight.
Day(d, shut, always, window) ==
    [day |-> d, isClosed |-> shut, is24Hours |-> always, window |-> window]
TwoWeeks ==
    {<<Day(0, FALSE, FALSE, <<1, 2>>), Day(1, TRUE, FALSE, <<1, 2>>)>>,
     <<Day(1, FALSE, TRUE, <<2, 2>>), Day(0, FALSE, FALSE, <<2, 1>>), Day(0, FALSE, FALSE, <<1, 1>>)>>}
Rulings ==
    [type : {"SPECIFIC_DATE", "RECURRING"}, on : {0, 1}, isException : BOOLEAN,
     allDay : {FALSE}, window : {<<1, 1>>, <<1, 2>>}, effective : {{0, 1, 2}, {1, 2}}]

\* An order is of one tea or two, and two are sold a day.  The first day the store
\* is open all the time, the second by its hours.
OpenAlways == <<Day(0, FALSE, TRUE, <<0, 0>>), Day(1, FALSE, FALSE, <<0, 0>>)>>
Teas(n) == <<[product |-> "tea", quantity |-> n]>>
TeasAsked == {Teas(1), Teas(2)}
TeaLimit == [tea |-> [min |-> 1, max |-> 2, daily |-> 2]]
TeaOnMenu == [tea |-> <<0, 0>>]

\* A group of two options whose settings all differ, and one that may be taken
\* twice; choices that name an option twice, and one of the other group.
Option(n, c, on) == [name |-> n, cost |-> c, on |-> on]
TwoGroups ==
    [milk : {[isActive |-> active, isRequired |-> required, min |-> least, max |-> most,
              options |-> {Option("oat", 5, oat), Option("soy", 4, TRUE)}] :
             active \in BOOLEAN, required \in BOOLEAN, least \in {1, 2}, most \in {0, 1}, oat \in BOOLEAN},
     syrup : {[isActive |-> TRUE, isRequired |-> FALSE, min |-> 1, max |-> 2,
               options |-> {Option("rum", 5, TRUE)}]}]
TwoChoices ==
    [milk : {<<>>, <<"oat">>, <<"soy", "oat">>, <<"soy", "soy">>, <<"rum">>},
     syrup : {<<>>, <<"rum">>, <<"rum", "rum">>}]

\* Baskets of up to three lines with prices, quantities, coupons and rates that
\* make every share round up, round down and vanish.
SomeLines == [unitPrice : {1, 5, 333}, quantity : 1 .. 2]
SomeBaskets == UNION {[1 .. n -> SomeLines] : n \in 1 .. 3}
SomeCoupons ==
    {[type |-> "none", minimumAmount |-> 0]}
    \union [type : {"FIXED_AMOUNT"}, amountOff : {1, 7}, minimumAmount : {0, 8}]
    \union [type : {"PERCENTAGE"}, percentOff : {15, 100}, maxDiscount : {0, 5}, minimumAmount : {0}]

\* Once the account is banned, or a reuse was dealt with after an overlap, only
\* one request is still under way, and a period is exported once.  The menu, the
\* catalogue and the checks are followed until overlapping changes leave a
\* product, a category or a second order past the limit behind: what is checked
\* is about the time before.
Bounded ==
    /\ focus = "auth" =>
           /\ account.banned => authLapped = {}
           /\ account.banned \/ (authLapped # {} /\ reported # {}) =>
                  \E h \in Hands : authRequest[h] = Auth!NoRequest
    /\ focus = "wages" /\ export # Wages!NoExport =>
           \A h \in Hands : wagesCall[h].op \notin {"export", "exported"}
    /\ focus = "catalogue" =>
           /\ ~misplaced /\ strayed = {}
           /\ leaf["scone"].category # Root =>
                  \A h \in Hands : treeCall[h].op \in {"idle", "delete"}
    /\ focus = "orders" => Cardinality(checkLapped) <= 1 /\ offered["tea"] = "offered"
    /\ focus = "menu" => ~orphaned

Symmetry == Permutations({a, b}) \union Permutations({x1, x2}) \union Permutations({r1, r2})
=================================================================================
