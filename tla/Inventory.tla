------------------------------ MODULE Inventory ------------------------------
(***************************************************************************)
(* Stock reservations of one store: InventoryOrderService (reserveForOrder,*)
(* commitForOrder, releaseForOrder) and the event handlers that give stock *)
(* back after a void or a full refund.                                     *)
(*                                                                         *)
(* Every service call is one interactive PostgreSQL transaction at READ    *)
(* COMMITTED.  It is split in two: a step that READS (findFirst, findMany) *)
(* and keeps what it saw, and a step that WRITES and commits.  Anything    *)
(* may happen in between, because no write repeats the check made on the   *)
(* read: the updates say `where: { uuid }` and nothing else.  The counters *)
(* move by increment and decrement, which apply to the latest committed    *)
(* row, so the write step is atomic and row locks only order the writes.   *)
(*                                                                         *)
(* Connections stand for the requests, event handlers and cron jobs that   *)
(* have such a call open at the same time.                                 *)
(***************************************************************************)
EXTENDS Integers, FiniteSets

CONSTANTS
    Orders,        \* orders that may reserve stock
    Products,      \* tracked products, one InventoryItem each
    Connections,   \* concurrent calls
    Qty,           \* Qty[o][p]: units of p on order o, 0 when it is not on it
    MaxQty,        \* largest quantity of an order line
    InitialStock   \* InitialStock[p]: units on the shelf at the start

ASSUME QtyAssumption ==
    /\ MaxQty \in Nat
    /\ Qty \in [Orders -> [Products -> 0..MaxQty]]
    /\ InitialStock \in [Products -> Nat]

ASSUME OrdersFinite == IsFiniteSet(Orders)

VARIABLES
    currentStock,    \* InventoryItem.currentStock
    reservedStock,   \* InventoryItem.reservedStock
    availableStock,  \* InventoryItem.availableStock
    resv,            \* InventoryReservation.status of each order line
    committed,       \* orders with inventoryCommitted = true
    released,        \* orders with inventoryReleased = true
    conn,            \* the call each connection has open, and what it has read
    returned,        \* history: lines whose units a void or refund gave back
    staleSettle,     \* history: a commit or release wrote a line that was no
                     \* longer ACTIVE
    staleReserve     \* history: a reserve took units of a product that another
                     \* open reserve had already checked

counters == <<currentStock, reservedStock, availableStock>>
history == <<returned, staleSettle, staleReserve>>
vars == <<counters, resv, committed, released, conn, history>>

ReservationStatus == {"NONE", "ACTIVE", "COMMITTED", "RELEASED", "EXPIRED"}

Idle == [op |-> "idle"]
OpenCall == [op : {"reserve", "commit", "release", "return"},
             order : Orders,
             lines : SUBSET Products]

Lines(o) == {p \in Products : Qty[o][p] > 0}
\* Faulty variant: the filter `status: "ACTIVE"` is missing.
EveryLine(o) == {p \in Lines(o) : resv[o][p] # "NONE"}
ActiveLines(o) == {p \in Lines(o) : resv[o][p] = "ACTIVE"}

\* The units of p on the orders W, one element per unit: the aggregate
\* SUM(quantity) of those order lines is the set's cardinality.
UnitsOn(W, p) == {u \in W \X (1..MaxQty) : u[2] <= Qty[u[1]][p]}

With(p, s) == {o \in Orders : resv[o][p] = s}
GivenBack(p) == {o \in Orders : p \in returned[o]}
SumQuantity(p, s) == Cardinality(UnitsOn(With(p, s), p))
Held(p) == SumQuantity(p, "ACTIVE")
Sold(p) == SumQuantity(p, "COMMITTED")
Returned(p) == Cardinality(UnitsOn(GivenBack(p), p))

\* A stock counter after q[p] units were added (taken) for every line p of S.
Add(f, S, q) == [p \in Products |-> IF p \in S THEN f[p] + q[p] ELSE f[p]]
Sub(f, S, q) == [p \in Products |-> IF p \in S THEN f[p] - q[p] ELSE f[p]]

Open(c, op, o, lines) ==
    /\ conn[c] = Idle
    /\ conn' = [conn EXCEPT ![c] = [op |-> op, order |-> o, lines |-> lines]]

Close(c) == conn' = [conn EXCEPT ![c] = Idle]

\* Faulty variant: a status that is not in the enum.
SetForeignStatus(o, S, s) ==
    resv' = [resv EXCEPT ![o] =
                 [p \in Products |-> IF p \in S /\ s = "RELEASED" THEN "CANCELLED"
                                     ELSE IF p \in S THEN s ELSE resv[o][p]]]

SetStatus(o, S, s) ==
    resv' = [resv EXCEPT ![o] =
                 [p \in Products |-> IF p \in S THEN s ELSE resv[o][p]]]

-----------------------------------------------------------------------------
(* reserveForOrder: one check per line, all lines written or none.         *)

ReserveBegin(c, o) ==
    /\ Lines(o) # {}
    /\ \A p \in Lines(o) : resv[o][p] = "NONE"
    /\ \A d \in Connections : conn[d] # Idle =>
           ~(conn[d].op = "reserve" /\ conn[d].order = o)
    /\ Open(c, "reserve", o, {})
    /\ UNCHANGED <<counters, resv, committed, released, history>>

\* Faulty variant: checks the shelf instead of what is still free on it.
ReserveLineChecksShelf(c, p) ==
    /\ conn[c].op = "reserve"
    /\ p \in Lines(conn[c].order) \ conn[c].lines
    /\ currentStock[p] >= Qty[conn[c].order][p]
    /\ conn' = [conn EXCEPT ![c].lines = @ \union {p}]
    /\ UNCHANGED <<counters, resv, committed, released, history>>

\* findFirst of the item of one line, and the check on availableStock.
ReserveLine(c, p) ==
    /\ conn[c].op = "reserve"
    /\ p \in Lines(conn[c].order) \ conn[c].lines
    /\ availableStock[p] >= Qty[conn[c].order][p]
    /\ conn' = [conn EXCEPT ![c].lines = @ \union {p}]
    /\ UNCHANGED <<counters, resv, committed, released, history>>

\* Faulty variant: not in a transaction, so the lines before it stay reserved.
ReserveRejectKeepsLines(c, p) ==
    /\ conn[c].op = "reserve"
    /\ LET o == conn[c].order
           S == conn[c].lines
       IN  /\ p \in Lines(o) \ S
           /\ availableStock[p] < Qty[o][p]
           /\ reservedStock' = Add(reservedStock, S, Qty[o])
           /\ availableStock' = Sub(availableStock, S, Qty[o])
           /\ SetStatus(o, S, "ACTIVE")
    /\ Close(c)
    /\ UNCHANGED <<currentStock, committed, released, history>>

\* INSUFFICIENT_STOCK: the exception rolls the lines before it back.
ReserveReject(c, p) ==
    /\ conn[c].op = "reserve"
    /\ p \in Lines(conn[c].order) \ conn[c].lines
    /\ availableStock[p] < Qty[conn[c].order][p]
    /\ Close(c)
    /\ UNCHANGED <<counters, resv, committed, released, history>>

\* Faulty variant: no reservation record is created.
ReserveWriteNoRecord(c) ==
    /\ conn[c].op = "reserve"
    /\ LET o == conn[c].order
       IN  /\ conn[c].lines = Lines(o)
           /\ reservedStock' = Add(reservedStock, Lines(o), Qty[o])
           /\ availableStock' = Sub(availableStock, Lines(o), Qty[o])
    /\ Close(c)
    /\ UNCHANGED <<currentStock, resv, committed, released, history>>

ReserveWrite(c) ==
    /\ conn[c].op = "reserve"
    /\ LET o == conn[c].order
           S == conn[c].lines
       IN  /\ S = Lines(o)
           /\ reservedStock' = Add(reservedStock, S, Qty[o])
           /\ availableStock' = Sub(availableStock, S, Qty[o])
           /\ SetStatus(o, S, "ACTIVE")
           /\ staleReserve' = (staleReserve \/ \E d \in Connections \ {c} :
                  conn[d].op = "reserve" /\ conn[d].lines \cap S # {})
    /\ Close(c)
    /\ UNCHANGED <<currentStock, committed, released, returned, staleSettle>>

-----------------------------------------------------------------------------
(* commitForOrder and releaseForOrder: findMany of the ACTIVE reservations *)
(* (none: return without a change), then one update of each of them.       *)

CommitRead(c, o) ==
    /\ ActiveLines(o) # {}
    /\ Open(c, "commit", o, ActiveLines(o))
    /\ UNCHANGED <<counters, resv, committed, released, history>>

\* Faulty variant: a sale leaves the units reserved.
CommitWriteKeepsHold(c) ==
    /\ conn[c].op = "commit"
    /\ LET o == conn[c].order
           S == conn[c].lines
       IN  /\ currentStock' = Sub(currentStock, S, Qty[o])
           /\ availableStock' = Sub(availableStock, S, Qty[o])
           /\ SetStatus(o, S, "COMMITTED")
           /\ committed' = committed \union {o}
           /\ staleSettle' = (staleSettle \/ ~(S \subseteq ActiveLines(o)))
    /\ Close(c)
    /\ UNCHANGED <<reservedStock, released, returned, staleReserve>>

CommitWrite(c) ==
    /\ conn[c].op = "commit"
    /\ LET o == conn[c].order
           S == conn[c].lines
       IN  /\ currentStock' = Sub(currentStock, S, Qty[o])
           /\ reservedStock' = Sub(reservedStock, S, Qty[o])
           /\ SetStatus(o, S, "COMMITTED")
           /\ committed' = committed \union {o}
           /\ staleSettle' = (staleSettle \/ ~(S \subseteq ActiveLines(o)))
    /\ Close(c)
    /\ UNCHANGED <<availableStock, released, returned, staleReserve>>

ReleaseRead(c, o) ==
    /\ ActiveLines(o) # {}
    /\ Open(c, "release", o, ActiveLines(o))
    /\ UNCHANGED <<counters, resv, committed, released, history>>

\* Faulty variant: the units are no longer reserved but not offered again.
ReleaseWriteForgetsAvailable(c) ==
    /\ conn[c].op = "release"
    /\ LET o == conn[c].order
           S == conn[c].lines
       IN  /\ reservedStock' = Sub(reservedStock, S, Qty[o])
           /\ SetStatus(o, S, "RELEASED")
           /\ released' = released \union {o}
           /\ staleSettle' = (staleSettle \/ ~(S \subseteq ActiveLines(o)))
    /\ Close(c)
    /\ UNCHANGED <<currentStock, availableStock, committed, returned, staleReserve>>

ReleaseWrite(c) ==
    /\ conn[c].op = "release"
    /\ LET o == conn[c].order
           S == conn[c].lines
       IN  /\ reservedStock' = Sub(reservedStock, S, Qty[o])
           /\ availableStock' = Add(availableStock, S, Qty[o])
           /\ SetStatus(o, S, "RELEASED")
           /\ released' = released \union {o}
           /\ staleSettle' = (staleSettle \/ ~(S \subseteq ActiveLines(o)))
    /\ Close(c)
    /\ UNCHANGED <<currentStock, committed, returned, staleReserve>>

-----------------------------------------------------------------------------
(* The PAYMENT_VOIDED and REFUND_COMPLETED handlers: outside a transaction, *)
(* one increment per order item, whatever the reservation says.  A payment  *)
(* is voided or refunded in full once, so an order is returned once.        *)

ReturnBegin(c, o) ==
    /\ \E p \in Lines(o) : resv[o][p] # "NONE"
    /\ returned[o] = {}
    /\ \A d \in Connections : conn[d] # Idle =>
           ~(conn[d].op = "return" /\ conn[d].order = o)
    /\ Open(c, "return", o, {})
    /\ UNCHANGED <<counters, resv, committed, released, history>>

ReturnLine(c, p) ==
    /\ conn[c].op = "return"
    /\ LET o == conn[c].order
           S == conn[c].lines \union {p}
       IN  /\ p \in Lines(o) \ conn[c].lines
           /\ currentStock' = Add(currentStock, {p}, Qty[o])
           /\ availableStock' = Add(availableStock, {p}, Qty[o])
           /\ returned' = [returned EXCEPT ![o] = @ \union {p}]
           /\ IF S = Lines(o) THEN Close(c)
              ELSE conn' = [conn EXCEPT ![c].lines = S]
    /\ UNCHANGED <<reservedStock, resv, committed, released,
                   staleSettle, staleReserve>>

-----------------------------------------------------------------------------
\* A deadlock abort, a transaction timeout or a crash: what was not committed
\* is gone (and a return stops between two items).
Abort(c) ==
    /\ conn[c] # Idle
    /\ Close(c)
    /\ UNCHANGED <<counters, resv, committed, released, history>>

Init ==
    /\ currentStock = InitialStock
    /\ reservedStock = [p \in Products |-> 0]
    /\ availableStock = InitialStock
    /\ resv = [o \in Orders |-> [p \in Products |-> "NONE"]]
    /\ committed = {}
    /\ released = {}
    /\ conn = [c \in Connections |-> Idle]
    /\ returned = [o \in Orders |-> {}]
    /\ staleSettle = FALSE
    /\ staleReserve = FALSE

Next ==
    \E c \in Connections :
        \/ \E o \in Orders :
               \/ ReserveBegin(c, o)
               \/ CommitRead(c, o)
               \/ ReleaseRead(c, o)
               \/ ReturnBegin(c, o)
        \/ \E p \in Products :
               \/ ReserveLine(c, p)
               \/ ReserveReject(c, p)
               \/ ReturnLine(c, p)
        \/ ReserveWrite(c)
        \/ CommitWrite(c)
        \/ ReleaseWrite(c)
        \/ Abort(c)

Spec == Init /\ [][Next]_vars

-----------------------------------------------------------------------------
TypeOK ==
    /\ currentStock \in [Products -> Int]
    /\ reservedStock \in [Products -> Int]
    /\ availableStock \in [Products -> Int]
    /\ resv \in [Orders -> [Products -> ReservationStatus]]
    /\ committed \in SUBSET Orders
    /\ released \in SUBSET Orders
    /\ conn \in [Connections -> OpenCall \union {Idle}]
    /\ returned \in [Orders -> SUBSET Products]
    /\ staleSettle \in BOOLEAN
    /\ staleReserve \in BOOLEAN

\* checkStock answers from availableStock and calls it "currentStock -
\* reservedStock" (inventory.service.ts:147): reserve, commit, release and
\* return keep the three counters in step however their reads and writes
\* interleave.
AvailableIsFree ==
    \A p \in Products : availableStock[p] = currentStock[p] - reservedStock[p]

\* No unit stays held for nobody: reservedStock never exceeds what the ACTIVE
\* reservations ask for, even when a commit races a release.
NoPhantomHold ==
    \A p \in Products : reservedStock[p] <= Held(p)

\* Unless a commit or a release wrote from a stale read, every unit is
\* accounted for: held units are the ACTIVE reservations, and the shelf lost
\* exactly what was sold and not given back.
LedgerExact ==
    ~staleSettle =>
        \A p \in Products :
            /\ reservedStock[p] = Held(p)
            /\ currentStock[p] = InitialStock[p] - Sold(p) + Returned(p)

\* The shop sells what it does not have only when two reserves of one product
\* overlap between check and write; commits, releases, returns and aborts in
\* between never bring it about.
OversellOnlyFromOverlap ==
    ~staleReserve => \A p \in Products : availableStock[p] >= 0

\* All lines of an order are in the same state: a reserve that fails at its
\* second line keeps nothing of the first.
OrderLinesTogether ==
    \A o \in Orders : \A p, q \in Lines(o) : resv[o][p] = resv[o][q]

\* An order is recorded as sold and as given back only after a stale write.
SoldXorReleased == ~staleSettle => committed \cap released = {}

\* A reservation that was settled stays settled the same way, unless a stale
\* write turns it over.
SettledForGood ==
    [][\A o \in Orders, p \in Products :
           resv[o][p] \in {"COMMITTED", "RELEASED"} /\ resv'[o][p] # resv[o][p]
               => staleSettle']_vars
=============================================================================
