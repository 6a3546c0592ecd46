------------------------------- MODULE OrderItems -------------------------------
(***************************************************************************)
(* Taking an order and changing it before it is paid: OrderCommandService, *)
(* OrderModificationService and the idempotency key of POST /orders.       *)
(*                                                                         *)
(* The key is looked up before the order is created and stored after its   *)
(* transaction, and a change computes the totals from the order it read    *)
(* before its own: requests that overlap can create twice or lose a change.*)
(* addItem, and an increase of a quantity, call InventoryService.          *)
(* reserveStock, which that class does not have: their transactions roll   *)
(* back.  What stock the order holds is the subject of Inventory.          *)
(***************************************************************************)
EXTENDS Pricing, FiniteSets

CONSTANTS
    Orders,       \* keys of order rows
    Requests,     \* requests served at once; all orders are one customer's retries
    Baskets,      \* sequences of [unitPrice, quantity]
    Coupons,
    TaxRate, ServiceRate   \* of the store, in percent

\* An order has an item.
ItemsAssumption ==
    /\ IsFiniteSet(Orders) /\ "none" \notin Orders
    /\ Baskets \subseteq Seq(Lines) \ {<<>>} /\ \A c \in Coupons : IsCoupon(c)
    /\ TaxRate \in Nat /\ ServiceRate \in Nat

VARIABLES
    order,        \* rows of Order with their items, or NoOrder
    key,          \* the order in the row of IdempotencyKey, or "none"
    request,
    lapped,       \* orders whose changes, or payment, overlapped a change
    repeated      \* the key had no say: creates overlapped, its row was not stored or expired

itemVars == <<order, key, request, lapped, repeated>>

NoOrder == [paymentStatus |-> "none"]
NoRequest == [op |-> "idle"]
Created == {o \in Orders : order[o] # NoOrder}

Begin(r, c) == request[r] = NoRequest /\ request' = [request EXCEPT ![r] = c]
Done(r) == request' = [request EXCEPT ![r] = NoRequest]

-----------------------------------------------------------------------------
(* Creation.                                                               *)

\* createOrder answers a known key with the order that was stored.
CheckKey(r) ==
    /\ key = "none"
    /\ Begin(r, [op |-> "create"])
    /\ repeated' = (repeated \/ \E q \in Requests : request[q].op \in {"create", "store"})
    /\ UNCHANGED <<order, key, lapped>>

\* One transaction: the basket is priced, the rows are written and the stock is
\* reserved.  A closed store, an unknown product, a coupon that does not apply
\* or a lack of stock ends the request with nothing written.
CreateOrder(r) ==
    /\ request[r].op = "create"
    /\ \E o \in Orders \ Created, basket \in Baskets, coupon \in Coupons :
          LET q == Quote(basket, coupon, TaxRate, ServiceRate)
          IN  /\ CouponApplies(coupon, q.subtotal) /\ q.priced
              /\ order' = [order EXCEPT ![o] =
                     [items |-> [i \in DOMAIN basket |-> basket[i]], subtotal |-> q.subtotal,
                      tax |-> q.tax, total |-> q.total, quoted |-> q.total,
                      changed |-> FALSE, paymentStatus |-> "PENDING", charged |-> 0]]
              /\ request' = [request EXCEPT ![r] = [op |-> "store", made |-> o]]
    /\ UNCHANGED <<key, lapped, repeated>>

\* The row of the key is unique: the second of two overlapping requests fails
\* here, after its order was created.
StoreKey(r) ==
    /\ request[r].op = "store"
    /\ key' = IF key = "none" THEN request[r].made ELSE key
    /\ Done(r)
    /\ UNCHANGED <<order, lapped, repeated>>

\* A day later check deletes the row, and the nightly clean-up does.
KeyExpires ==
    /\ key # "none"
    /\ key' = "none" /\ repeated' = TRUE
    /\ UNCHANGED <<order, request, lapped>>

-----------------------------------------------------------------------------
(* Changes.                                                                *)

Changing(o) == \E r \in Requests : request[r].op = "change" /\ request[r].of = o

\* removeItem and updateItemQuantity read the order with its items.  The last
\* item is not removed; quantity 0 stands for the removal.
ChangeRead(r, o, i, quantity) ==
    /\ o \in Created /\ order[o].paymentStatus = "PENDING"
    /\ i \in DOMAIN order[o].items
    /\ quantity < order[o].items[i].quantity
    /\ quantity = 0 => Cardinality(DOMAIN order[o].items) > 1
    /\ Begin(r, [op |-> "change", of |-> o, item |-> i, saw |-> order[o].items[i],
                 subtotal |-> order[o].subtotal, quantity |-> quantity])
    /\ lapped' = IF Changing(o) THEN lapped \union {o} ELSE lapped
    /\ UNCHANGED <<order, key, repeated>>

\* Faulty variant: the totals go down by the price of one unit.
NewSubtotalOne(c) == c.subtotal - c.saw.unitPrice

NewSubtotal(c) == c.subtotal - (c.saw.quantity - c.quantity) * c.saw.unitPrice

\* The item is deleted or updated by its key, which fails when it is gone, and
\* the totals are set from what was read: a tenth for the tax, and neither the
\* discount nor the service charge.
ChangeWrite(r) ==
    LET c == request[r]
        row == order[c.of]
        subtotal == NewSubtotal(c)
        tax == Percent(10, subtotal)
        kept == IF c.quantity = 0 THEN DOMAIN row.items \ {c.item} ELSE DOMAIN row.items
    IN  /\ c.op = "change"
        /\ c.item \in DOMAIN row.items
        /\ order' = [order EXCEPT ![c.of] =
               [row EXCEPT !.items = [i \in kept |-> IF i = c.item
                                          THEN [row.items[i] EXCEPT !.quantity = c.quantity]
                                          ELSE row.items[i]],
                           !.subtotal = subtotal, !.tax = tax, !.total = subtotal + tax,
                           !.changed = TRUE]]
        /\ Done(r)
        /\ UNCHANGED <<key, lapped, repeated>>

\* The order is paid by some caller, for the total it has then.
Pay(o) ==
    /\ o \in Created /\ order[o].paymentStatus = "PENDING"
    /\ order' = [order EXCEPT ![o] = [@ EXCEPT !.paymentStatus = "PAID", !.charged = order[o].total]]
    /\ lapped' = IF Changing(o) THEN lapped \union {o} ELSE lapped
    /\ UNCHANGED <<key, request, repeated>>

\* A request fails, or the server stops: the transactions that did not commit
\* write nothing.  addItem always ends here.
Fail(r) ==
    /\ request[r] # NoRequest
    /\ repeated' = (repeated \/ request[r].op = "store")
    /\ Done(r)
    /\ UNCHANGED <<order, key, lapped>>

Init ==
    /\ order = [o \in Orders |-> NoOrder]
    /\ key = "none"
    /\ request = [r \in Requests |-> NoRequest]
    /\ lapped = {}
    /\ repeated = FALSE

Next ==
    \/ \E r \in Requests :
           \/ CheckKey(r) \/ CreateOrder(r) \/ StoreKey(r) \/ ChangeWrite(r) \/ Fail(r)
           \/ \E o \in Created : \E i \in DOMAIN order[o].items : \E n \in {0, 1} : ChangeRead(r, o, i, n)
    \/ \E o \in Orders : Pay(o)
    \/ KeyExpires

Spec == Init /\ [][Next]_itemVars

-----------------------------------------------------------------------------

\* One key makes one order, unless its requests overlapped, the key could not be
\* stored after the order or a day went by.
KeyedOnce == Cardinality(Created) > 1 => repeated

SumOf(items) == Total(Subtotals(items))

\* Until two changes overlap, or a change overlaps the payment: the order has an
\* item, its totals follow from its items, and what was paid is its total.
OrderAddsUp ==
    \A o \in Created \ lapped :
        LET row == order[o]
        IN  /\ DOMAIN row.items # {}
            /\ row.subtotal = SumOf(row.items)
            /\ IF row.changed THEN row.total = row.subtotal + Percent(10, row.subtotal)
                              ELSE row.total = row.quoted
            /\ row.paymentStatus = "PAID" => row.charged = row.total

OrdersSound == KeyedOnce /\ OrderAddsUp
================================================================================
