------------------------------ MODULE OrderChecks ------------------------------
(***************************************************************************)
(* What is checked before an order is taken: OrderController.create calls  *)
(* OrderValidationService, which reads the hours, the products and what    *)
(* was sold that day one after the other, and then createOrder, which      *)
(* reads the hours again and prices from a menu that may be a few minutes  *)
(* old.  MenuService.validateOrder, getProduct and searchMenu are what     *)
(* customers see before.                                                   *)
(*                                                                         *)
(* The stock check of the validation gets an object for an answer and      *)
(* rejects nothing; that createOrder reserves stock or fails is in module  *)
(* Inventory, and how the menu is cached in MenuCache.                     *)
(***************************************************************************)
EXTENDS OpeningHours, FiniteSets, Functions, SequencesExt

CONSTANTS
    Customers,     \* requests to order
    Orders,        \* keys for rows of Order
    Products,
    Baskets,       \* what a request asks for: sequences of [product, quantity]
    Limits,        \* per product: [min, max, daily], zero for no limit
    Window,        \* per product: the hours it is on the menu
    Category,      \* the hours their category is
    Groups,        \* the groups of options a product can have, by name
    Selections,       \* sequences of options, by group
    LastTime       \* bound: hours that pass

\* The options of a product have keys of their own; a request names options for
\* any group there is.
ChecksAssumption ==
    /\ IsFiniteSet(Orders) /\ LastTime \in Nat
    /\ Baskets \subseteq Seq([product : Products, quantity : Nat])
    /\ \A p \in Products : Limits[p].daily \in Nat
    /\ \A groups \in Groups : \A g \in DOMAIN groups :
           /\ IsFiniteSet(DOMAIN groups) /\ IsFiniteSet(groups[g].options)
           /\ \A o \in groups[g].options :
                  /\ o.cost \in Nat
                  /\ \A h \in DOMAIN groups : \A q \in groups[h].options : o.name = q.name => o = q
           /\ \A chosen \in Selections : IsFiniteSet(DOMAIN chosen[g])

VARIABLES
    now,           \* hours since the first midnight
    product,       \* "offered", "unavailable", "inactive" or "deleted"
    menu,          \* the cached menu: its products, and when it was built
    order, call,
    asked,         \* options a customer asks the price of, and their groups
    lapped         \* orders whose limit was read while another order was open,
                   \* or that were created on a later day

checkVars == <<now, product, menu, order, call, asked, lapped>>

Sum(S, f(_)) == SumFunction([x \in S |-> f(x)])

Hours == Cardinality(Times)
Date(t) == t \div Hours
Hour(t) == t % Hours
OpenNow == isStoreOpen(Date(now), Hour(now))
Active(p) == product[p] \in {"offered", "unavailable"}

-----------------------------------------------------------------------------
(* What customers see.                                                     *)

\* checkAvailability of one entity.
checkAvailability(window, t) == Within(Hour(t), window)

\* getStoreMenu shows a product while its category and itself are on.
Menu ==
    [at |-> now,
     products |-> {p \in Products : /\ product[p] = "offered"
                                    /\ checkAvailability(Category, now)
                                    /\ checkAvailability(Window[p], now)}]

\* getProduct finds whatever has a row, and does not ask about the category.
getProduct(p) == [isActive |-> Active(p), isAvailable |-> checkAvailability(Window[p], now)]

searchMenu == {p \in Products : product[p] = "offered"}

-----------------------------------------------------------------------------
(* Options of a product: groups with options, as the menu and              *)
(* validateOrder read them.  An option has a cost and may be off; a group  *)
(* that is not active is left out of the menu only.                        *)

OptionsOf(group) == {o \in group.options : o.on}

\* The number of options is counted with those named twice, the cost is not.
GroupErrors(group, chosen) ==
    LET count == Len(chosen)
        names == {o.name : o \in OptionsOf(group)}
    IN  \/ group.isRequired /\ count = 0
        \/ count > 0 /\ count < group.min
        \/ group.max > 0 /\ count > group.max
        \/ ~(ToSet(chosen) \subseteq names)

validateOptions(groups, chosen) ==
    IF \E g \in DOMAIN groups : GroupErrors(groups[g], chosen[g]) THEN [valid |-> FALSE, cost |-> 0]
    ELSE [valid |-> TRUE,
          cost |-> Sum(DOMAIN groups, LAMBDA g :
                       Sum({o \in OptionsOf(groups[g]) : o.name \in ToSet(chosen[g])}, LAMBDA o : o.cost))]

\* Faulty variant: the cost of an option is added once, however often it is named.
ResolveOnce(groups, chosen) ==
    LET on == UNION {OptionsOf(groups[g]) : g \in {h \in DOMAIN groups : groups[h].isActive}}
        named == UNION {ToSet(chosen[g]) : g \in DOMAIN groups}
    IN  IF ~(named \subseteq {o.name : o \in on}) THEN [valid |-> FALSE, cost |-> 0]
        ELSE [valid |-> TRUE, cost |-> Sum({o \in on : o.name \in named}, LAMBDA o : o.cost)]

\* resolveItems of createOrder adds the cost of every modifier, whatever its
\* group requires, and fails when one is not on the menu.
resolveOptions(groups, chosen) ==
    LET on == UNION {OptionsOf(groups[g]) : g \in {h \in DOMAIN groups : groups[h].isActive}}
        CostOf(name) == (CHOOSE o \in on : o.name = name).cost
        named == UNION {ToSet(chosen[g]) : g \in DOMAIN groups}
    IN  IF ~(named \subseteq {o.name : o \in on}) THEN [valid |-> FALSE, cost |-> 0]
        ELSE [valid |-> TRUE,
              cost |-> Sum(DOMAIN groups, LAMBDA g :
                           Sum(DOMAIN chosen[g], LAMBDA i : CostOf(chosen[g][i])))]

-----------------------------------------------------------------------------
(* Taking an order.                                                        *)

Quantity(basket, p) ==
    Sum({i \in DOMAIN basket : basket[i].product = p}, LAMBDA i : basket[i].quantity)

Containing(p) == {o \in Orders : order[o].status # "none" /\ Quantity(order[o].basket, p) > 0}

\* Only orders that were completed count, by the day they were created on.
SoldToday(p) ==
    Sum({o \in Containing(p) : order[o].status = "COMPLETED" /\ Date(order[o].at) = Date(now)},
        LAMBDA o : Quantity(order[o].basket, p))

\* Faulty variant: the limit is one of each order.
WholeLimit(p) == Limits[p].daily

Remaining(p) == Limits[p].daily - SoldToday(p)

ItemErrors(item) ==
    LET limit == Limits[item.product]
    IN  \/ ~Active(item.product)
        \/ item.quantity < limit.min
        \/ limit.max > 0 /\ item.quantity > limit.max
        \/ limit.daily > 0 /\ item.quantity > Remaining(item.product)

Duplicates(basket) == \E i, j \in DOMAIN basket : i # j /\ basket[i].product = basket[j].product

Set(c, value) == call' = [call EXCEPT ![c] = value]
Idle == [op |-> "idle"]

\* create: validateOrderCreation asks for the hours first.
create(c, basket) ==
    /\ call[c] = Idle
    /\ Set(c, [op |-> "check", basket |-> basket, next |-> 1, errors |-> ~OpenNow,
               since |-> now, lapped |-> FALSE])
    /\ UNCHANGED <<now, product, menu, order, asked, lapped>>

\* An order of the product that is not settled, or a request that has read its
\* limit and has not created its order.
OpenFor(p, c) ==
    \/ \E o \in Containing(p) : order[o].status = "PENDING"
    \/ \E d \in Customers \ {c} :
           /\ call[d].op # "idle"
           /\ \E i \in 1 .. call[d].next - 1 : call[d].basket[i].product = p

\* One item of the order.
CheckItem(c) ==
    /\ call[c].op = "check" /\ call[c].next <= Len(call[c].basket)
    /\ LET item == call[c].basket[call[c].next]
       IN  Set(c, [call[c] EXCEPT !.next = @ + 1,
                                  !.errors = @ \/ ItemErrors(item),
                                  !.lapped = @ \/ OpenFor(item.product, c)])
    /\ UNCHANGED <<now, product, menu, order, asked, lapped>>

\* The request is turned down, or createOrder begins with the hours.
Checked(c) ==
    /\ call[c].op = "check" /\ call[c].next > Len(call[c].basket)
    /\ IF call[c].errors \/ Duplicates(call[c].basket) \/ ~OpenNow
       THEN Set(c, Idle)
       ELSE Set(c, [call[c] EXCEPT !.op = "create"])
    /\ UNCHANGED <<now, product, menu, order, asked, lapped>>

\* createOrder: the transaction, with a menu that was cached or is built now.
CreateOrder(c) ==
    /\ call[c].op = "create"
    /\ \E m \in {menu, Menu} :
           /\ menu' = m
           /\ m.at >= now - 1
           /\ IF \A i \in DOMAIN call[c].basket : call[c].basket[i].product \in m.products
              THEN \E o \in Orders :
                       /\ order[o].status = "none"
                       /\ order' = [order EXCEPT ![o] = [status |-> "PENDING", basket |-> call[c].basket, at |-> now]]
                       /\ lapped' = IF call[c].lapped \/ Date(call[c].since) # Date(now)
                                    THEN lapped \union {o} ELSE lapped
              ELSE UNCHANGED <<order, lapped>>
    /\ Set(c, Idle)
    /\ UNCHANGED <<now, product, asked>>

\* What becomes of an order.
Settle(o, status) ==
    /\ order[o].status = "PENDING"
    /\ order' = [order EXCEPT ![o].status = status]
    /\ UNCHANGED <<now, product, menu, call, asked, lapped>>

\* An administrator changes a product.
ChangeProduct(p, value) ==
    /\ product[p] # value /\ product[p] # "deleted"
    /\ product' = [product EXCEPT ![p] = value]
    /\ UNCHANGED <<now, menu, order, call, asked, lapped>>

Tick ==
    /\ now < LastTime
    /\ now' = now + 1
    /\ UNCHANGED <<product, menu, order, call, asked, lapped>>

ChecksInit ==
    /\ now = 0
    /\ product = [p \in Products |-> "offered"]
    /\ menu = [at |-> -2, products |-> {}]
    /\ order = [o \in Orders |-> [status |-> "none"]]
    /\ call = [c \in Customers |-> Idle]
    /\ asked \in [groups : Groups, chosen : Selections]
    /\ lapped = {}

ChecksNext ==
    /\ \/ \E c \in Customers :
              \/ \E basket \in Baskets : create(c, basket)
              \/ CheckItem(c) \/ Checked(c) \/ CreateOrder(c)
       \/ \E o \in Orders, status \in {"COMPLETED", "CANCELLED"} : Settle(o, status)
       \/ \E p \in Products, value \in {"unavailable", "deleted"} : ChangeProduct(p, value)
       \/ Tick
    /\ UNCHANGED <<hoursVars, rules>>

\* The customer changes the choice.
Ask ==
    /\ \E choice \in Selections : choice # asked.chosen /\ asked' = [asked EXCEPT !.chosen = choice]
    /\ UNCHANGED <<now, product, menu, order, call, lapped, hoursVars, rules>>

\* The limit of a day holds for the orders that were checked while no other
\* was open and created on the day they were checked on: a completed one counts
\* in every check that follows.  Any other order may pass the limit, as the sum
\* is over completed orders only and is read before the order is created.
LimitKept ==
    \A p \in Products : Limits[p].daily > 0 =>
        \A day \in 0 .. Date(LastTime) :
            Sum({o \in Containing(p) \ lapped : order[o].status = "COMPLETED" /\ Date(order[o].at) = day},
                LAMBDA o : Quantity(order[o].basket, p)) <= Limits[p].daily

\* What the customer was told is what the order does.  Options that
\* validateOrder accepts, createOrder finds and prices the same, unless a group
\* is inactive; one with a price that is named twice costs twice in the order and
\* once before.
OptionsAgree ==
    LET told == validateOptions(asked.groups, asked.chosen)
        paid == resolveOptions(asked.groups, asked.chosen)
        twice == \E g \in DOMAIN asked.groups : \E i, j \in DOMAIN asked.chosen[g] :
                     /\ i # j /\ asked.chosen[g][i] = asked.chosen[g][j]
                     /\ \E o \in OptionsOf(asked.groups[g]) : o.name = asked.chosen[g][i] /\ o.cost > 0
    IN  told.valid /\ (\A g \in DOMAIN asked.groups : asked.groups[g].isActive) =>
            /\ paid.valid
            /\ IF twice THEN paid.cost > told.cost ELSE paid.cost = told.cost

\* The menu that orders are priced from is what the search finds and the page of
\* the product calls available, while the category is on: three queries with
\* filters of their own.
ReadersAgree ==
    Menu.products = {p \in searchMenu : /\ getProduct(p).isActive /\ getProduct(p).isAvailable
                                         /\ checkAvailability(Category, now)}

CustomersTold == OptionsAgree /\ ReadersAgree

=============================================================================
