------------------------ MODULE StockUpkeep_proofs ------------------------
(* Theorems about the stock of a store, for any orders, products,          *)
(* quantities, clerks and number of concurrent calls: first about the      *)
(* reservations alone, as Inventory has them, then about the stock under   *)
(* clerks, tills and the nightly recount.  The latter hold of UpkeepSpec,  *)
(* so whatever the nightly job is given time for.                          *)
EXTENDS StockUpkeep, FiniteSetTheorems, TLAPS

-----------------------------------------------------------------------------
(* The operators the actions are built from.                               *)

\* Adding or taking the quantities of an order keeps a counter integral.
LEMMA CountersStayInt ==
    ASSUME NEW f \in [Products -> Int], NEW S, NEW o \in Orders
    PROVE  /\ Add(f, S, Qty[o]) \in [Products -> Int]
           /\ Sub(f, S, Qty[o]) \in [Products -> Int]
<1>1. \A p \in Products : Qty[o][p] \in Int
  BY QtyAssumption
<1>2. QED
  BY <1>1 DEF Add, Sub

\* The lines of an order are products, with a positive quantity.
LEMMA LinesAreProducts ==
    ASSUME NEW o \in Orders
    PROVE  Lines(o) \subseteq Products
BY DEF Lines

\* Opening a call leaves every connection with a well-formed call.
LEMMA OpenType ==
    ASSUME TypeOK, NEW c \in Connections, NEW o \in Orders,
           NEW op \in {"reserve", "commit", "release", "return"},
           NEW S \in SUBSET Products, Open(c, op, o, S)
    PROVE  conn' \in [Connections -> OpenCall \union {Idle}]
<1>1. [op |-> op, order |-> o, lines |-> S] \in OpenCall
  BY DEF OpenCall
<1>2. QED
  BY <1>1 DEF TypeOK, Open

\* A connection with an operation open is not idle.
LEMMA OpenIsOpen ==
    ASSUME TypeOK, NEW c \in Connections,
           conn[c].op \in {"reserve", "commit", "release", "return"}
    PROVE  /\ conn[c] \in OpenCall
           /\ conn[c].order \in Orders
           /\ conn[c].lines \in SUBSET Products
<1>1. conn[c] \in OpenCall
  BY DEF TypeOK, Idle
<1>2. QED
  BY <1>1 DEF OpenCall

\* Closing a call keeps the connections well formed.
LEMMA CloseType ==
    ASSUME TypeOK, NEW c \in Connections, Close(c)
    PROVE  conn' \in [Connections -> OpenCall \union {Idle}]
BY DEF TypeOK, Close

\* Setting lines to a status keeps the reservations well formed.
LEMMA SetStatusType ==
    ASSUME TypeOK, NEW o \in Orders, NEW S, NEW s \in ReservationStatus,
           SetStatus(o, S, s)
    PROVE  resv' \in [Orders -> [Products -> ReservationStatus]]
BY DEF TypeOK, SetStatus

\* A call that only grows its set of lines stays well formed.
LEMMA GrowType ==
    ASSUME TypeOK, NEW c \in Connections, conn[c] \in OpenCall,
           NEW S \in SUBSET Products,
           conn' = [conn EXCEPT ![c].lines = S]
    PROVE  conn' \in [Connections -> OpenCall \union {Idle}]
<1>1. [conn[c] EXCEPT !.lines = S] \in OpenCall
  BY DEF OpenCall
<1>2. conn' = [conn EXCEPT ![c] = [conn[c] EXCEPT !.lines = S]]
  OBVIOUS
<1>3. QED
  BY <1>1, <1>2 DEF TypeOK

-----------------------------------------------------------------------------
(* Type correctness.                                                       *)

LEMMA TypeStep == TypeOK /\ [Next]_vars => TypeOK'
<1> SUFFICES ASSUME TypeOK, [Next]_vars
             PROVE  TypeOK'
  OBVIOUS
<1>1. CASE UNCHANGED vars
  BY <1>1 DEF TypeOK, vars, counters, history
<1>2. ASSUME NEW c \in Connections, NEW o \in Orders,
             \/ ReserveBegin(c, o)
             \/ CommitRead(c, o)
             \/ ReleaseRead(c, o)
             \/ ReturnBegin(c, o)
      PROVE  TypeOK'
  <2>1. ActiveLines(o) \subseteq Products
    BY LinesAreProducts DEF ActiveLines
  <2>2. \E op \in {"reserve", "commit", "release", "return"},
           S \in SUBSET Products : Open(c, op, o, S)
    BY <1>2, <2>1 DEF ReserveBegin, CommitRead, ReleaseRead, ReturnBegin
  <2>3. conn' \in [Connections -> OpenCall \union {Idle}]
    BY <2>2, OpenType
  <2>4. QED
    BY <1>2, <2>3 DEF TypeOK, ReserveBegin, CommitRead, ReleaseRead,
                      ReturnBegin, counters, history
<1>3. ASSUME NEW c \in Connections, NEW p \in Products, ReserveLine(c, p)
      PROVE  TypeOK'
  <2>1. conn[c] \in OpenCall /\ conn[c].lines \union {p} \in SUBSET Products
    BY <1>3, OpenIsOpen DEF ReserveLine
  <2>2. conn' = [conn EXCEPT ![c].lines = conn[c].lines \union {p}]
    BY <1>3 DEF ReserveLine
  <2>3. conn' \in [Connections -> OpenCall \union {Idle}]
    BY <2>1, <2>2, GrowType
  <2>4. QED
    BY <1>3, <2>3 DEF TypeOK, ReserveLine, counters, history
<1>4. ASSUME NEW c \in Connections,
             Abort(c) \/ \E p \in Products : ReserveReject(c, p)
      PROVE  TypeOK'
  <2>1. conn' \in [Connections -> OpenCall \union {Idle}]
    BY <1>4, CloseType DEF Abort, ReserveReject
  <2>2. QED
    BY <1>4, <2>1 DEF TypeOK, Abort, ReserveReject, counters, history
<1>5. ASSUME NEW c \in Connections, NEW p \in Products, ReturnLine(c, p)
      PROVE  TypeOK'
  <2> DEFINE o == conn[c].order
             S == conn[c].lines \union {p}
  <2>1. conn[c] \in OpenCall /\ o \in Orders /\ S \in SUBSET Products
    BY <1>5, OpenIsOpen DEF ReturnLine
  <2>2. conn' \in [Connections -> OpenCall \union {Idle}]
    <3>1. CASE S = Lines(o)
      BY <1>5, <3>1, CloseType DEF ReturnLine
    <3>2. CASE S # Lines(o)
      BY <1>5, <2>1, <3>2, GrowType DEF ReturnLine
    <3>3. QED
      BY <3>1, <3>2
  <2>3. currentStock' \in [Products -> Int] /\ availableStock' \in [Products -> Int]
    BY <1>5, <2>1, CountersStayInt DEF ReturnLine, TypeOK
  <2>4. returned' \in [Orders -> SUBSET Products]
    BY <1>5, <2>1 DEF ReturnLine, TypeOK
  <2>5. QED
    BY <1>5, <2>2, <2>3, <2>4 DEF ReturnLine, TypeOK
<1>6. ASSUME NEW c \in Connections,
             ReserveWrite(c) \/ CommitWrite(c) \/ ReleaseWrite(c)
      PROVE  TypeOK'
  <2> DEFINE o == conn[c].order
             S == conn[c].lines
  <2>1. o \in Orders /\ S \in SUBSET Products
    BY <1>6, OpenIsOpen DEF ReserveWrite, CommitWrite, ReleaseWrite
  <2>2. conn' \in [Connections -> OpenCall \union {Idle}]
    BY <1>6, CloseType DEF ReserveWrite, CommitWrite, ReleaseWrite
  <2>3. resv' \in [Orders -> [Products -> ReservationStatus]]
    <3>1. \E s \in ReservationStatus : SetStatus(o, S, s)
      BY <1>6 DEF ReserveWrite, CommitWrite, ReleaseWrite, ReservationStatus
    <3>2. QED
      BY <2>1, <3>1, SetStatusType
  <2>4. /\ currentStock' \in [Products -> Int]
        /\ reservedStock' \in [Products -> Int]
        /\ availableStock' \in [Products -> Int]
    <3>1. /\ currentStock' = currentStock \/ currentStock' = Sub(currentStock, S, Qty[o])
          /\ \/ reservedStock' = Add(reservedStock, S, Qty[o])
             \/ reservedStock' = Sub(reservedStock, S, Qty[o])
          /\ \/ availableStock' = availableStock
             \/ availableStock' = Add(availableStock, S, Qty[o])
             \/ availableStock' = Sub(availableStock, S, Qty[o])
      BY <1>6 DEF ReserveWrite, CommitWrite, ReleaseWrite
    <3>2. /\ currentStock \in [Products -> Int]
          /\ reservedStock \in [Products -> Int]
          /\ availableStock \in [Products -> Int]
      BY DEF TypeOK
    <3>3. \A f \in [Products -> Int] : /\ Add(f, S, Qty[o]) \in [Products -> Int]
                                       /\ Sub(f, S, Qty[o]) \in [Products -> Int]
      BY <2>1, CountersStayInt
    <3> HIDE DEF o, S
    <3>4. QED
      BY <3>1, <3>2, <3>3
  <2>5. committed' \in SUBSET Orders /\ released' \in SUBSET Orders
    BY <1>6, <2>1 DEF TypeOK, ReserveWrite, CommitWrite, ReleaseWrite
  <2>6. staleSettle' \in BOOLEAN /\ staleReserve' \in BOOLEAN
    BY <1>6 DEF TypeOK, ReserveWrite, CommitWrite, ReleaseWrite
  <2>7. returned' \in [Orders -> SUBSET Products]
    BY <1>6 DEF TypeOK, ReserveWrite, CommitWrite, ReleaseWrite
  <2>8. QED
    BY <2>2, <2>3, <2>4, <2>5, <2>6, <2>7 DEF TypeOK
<1>7. QED
  BY <1>1, <1>2, <1>3, <1>4, <1>5, <1>6 DEF Next

\* Every counter starts as a whole number and every call as idle.
LEMMA TypeInit == Init => TypeOK
<1> SUFFICES ASSUME Init
             PROVE  TypeOK
  OBVIOUS
<1>1. InitialStock \in [Products -> Int]
  BY QtyAssumption
<1>2. /\ currentStock \in [Products -> Int]
      /\ reservedStock \in [Products -> Int]
      /\ availableStock \in [Products -> Int]
  BY <1>1 DEF Init
<1>3. resv \in [Orders -> [Products -> ReservationStatus]]
  BY DEF Init, ReservationStatus
<1>4. conn \in [Connections -> OpenCall \union {Idle}]
  BY DEF Init
<1>5. QED
  BY <1>2, <1>3, <1>4 DEF Init, TypeOK

\* Every state of every behaviour has the types of the schema, whatever the
\* calls of InventoryOrderService read before they wrote.
THEOREM TypeCorrect == Spec => []TypeOK
BY TypeInit, TypeStep, PTL DEF Spec

-----------------------------------------------------------------------------
(* What the open calls have in common: an order is reserved and returned   *)
(* by one call at a time, its reservation starts from nothing, and a       *)
(* settling call has read the whole order.                                 *)

ReservesFresh ==
    \A c \in Connections : conn[c].op = "reserve" =>
        \A p \in Lines(conn[c].order) : resv[conn[c].order][p] = "NONE"

OneCall(op) ==
    \A c, d \in Connections :
        conn[c].op = op /\ conn[d].op = op /\ conn[c].order = conn[d].order
            => c = d

SettlesWhole ==
    \A c \in Connections : conn[c].op \in {"commit", "release"} =>
        /\ conn[c].lines = Lines(conn[c].order)
        /\ conn[c].lines # {}
        /\ \A p \in conn[c].lines : resv[conn[c].order][p] # "NONE"

ReturnsRecorded ==
    \A c \in Connections : conn[c].op = "return" =>
        returned[conn[c].order] = conn[c].lines

Calls ==
    /\ ReservesFresh
    /\ OneCall("reserve")
    /\ OneCall("return")
    /\ SettlesWhole
    /\ ReturnsRecorded
    /\ OrderLinesTogether

\* What opening a call changes.
LEMMA OpenEffect ==
    ASSUME TypeOK, NEW c \in Connections, NEW op, NEW o, NEW S, Open(c, op, o, S)
    PROVE  /\ conn'[c].op = op /\ conn'[c].order = o /\ conn'[c].lines = S
           /\ \A d \in Connections \ {c} : conn'[d] = conn[d]
BY DEF TypeOK, Open

\* What closing a call changes.
LEMMA CloseEffect ==
    ASSUME TypeOK, NEW c \in Connections, Close(c)
    PROVE  /\ conn'[c].op = "idle"
           /\ \A d \in Connections \ {c} : conn'[d] = conn[d]
BY DEF TypeOK, Close, Idle

\* What a write of one status to some lines of an order changes.
LEMMA SetStatusEffect ==
    ASSUME TypeOK, NEW o \in Orders, NEW S, NEW s, SetStatus(o, S, s)
    PROVE  /\ \A n \in Orders \ {o} : resv'[n] = resv[n]
           /\ \A p \in Products : resv'[o][p] = IF p \in S THEN s ELSE resv[o][p]
BY DEF TypeOK, SetStatus

\* A commit or release that finds one line ACTIVE finds them all.
LEMMA ActiveIsAll ==
    ASSUME OrderLinesTogether, NEW o \in Orders, ActiveLines(o) # {}
    PROVE  ActiveLines(o) = Lines(o)
BY DEF OrderLinesTogether, ActiveLines

LEMMA CallsStep == TypeOK /\ Calls /\ [Next]_vars => Calls'
<1> SUFFICES ASSUME TypeOK, Calls, [Next]_vars
             PROVE  Calls'
  OBVIOUS
<1> USE DEF Calls
<1>1. CASE UNCHANGED vars
  BY <1>1 DEF vars, counters, history, ReservesFresh, OneCall, SettlesWhole,
              ReturnsRecorded, OrderLinesTogether
<1>2. ASSUME NEW c \in Connections, NEW o \in Orders, ReserveBegin(c, o)
      PROVE  Calls'
  <2>1. /\ conn'[c].op = "reserve" /\ conn'[c].order = o
        /\ \A d \in Connections \ {c} : conn'[d] = conn[d]
    BY <1>2, OpenEffect DEF ReserveBegin
  <2>2. /\ resv' = resv /\ returned' = returned
        /\ \A p \in Lines(o) : resv[o][p] = "NONE"
        /\ \A d \in Connections : conn[d] # Idle =>
               ~(conn[d].op = "reserve" /\ conn[d].order = o)
    BY <1>2 DEF ReserveBegin, history
  <2>3. ReservesFresh'
    BY <2>1, <2>2 DEF ReservesFresh
  <2>4. OneCall("reserve")'
    BY <2>1, <2>2 DEF OneCall, Idle
  <2>5. OneCall("return")' /\ SettlesWhole' /\ ReturnsRecorded'
    BY <2>1, <2>2 DEF OneCall, SettlesWhole, ReturnsRecorded
  <2>6. OrderLinesTogether'
    BY <2>2 DEF OrderLinesTogether
  <2>7. QED
    BY <2>3, <2>4, <2>5, <2>6
<1>3. ASSUME NEW c \in Connections, NEW o \in Orders,
             CommitRead(c, o) \/ ReleaseRead(c, o)
      PROVE  Calls'
  <2>1. /\ conn'[c].op \in {"commit", "release"} /\ conn'[c].order = o
        /\ conn'[c].lines = Lines(o) /\ Lines(o) # {}
        /\ \A d \in Connections \ {c} : conn'[d] = conn[d]
    BY <1>3, OpenEffect, ActiveIsAll DEF CommitRead, ReleaseRead
  <2>2. /\ resv' = resv /\ returned' = returned
        /\ \A p \in Lines(o) : resv[o][p] # "NONE"
    BY <1>3, ActiveIsAll DEF CommitRead, ReleaseRead, history, ActiveLines
  <2>3. SettlesWhole'
    BY <2>1, <2>2 DEF SettlesWhole
  <2>4. ReservesFresh' /\ ReturnsRecorded'
    BY <2>1, <2>2 DEF ReservesFresh, ReturnsRecorded
  <2>5. OneCall("reserve")' /\ OneCall("return")'
    BY <2>1 DEF OneCall
  <2>6. OrderLinesTogether'
    BY <2>2 DEF OrderLinesTogether
  <2>7. QED
    BY <2>3, <2>4, <2>5, <2>6
<1>4. ASSUME NEW c \in Connections, NEW o \in Orders, ReturnBegin(c, o)
      PROVE  Calls'
  <2>1. /\ conn'[c].op = "return" /\ conn'[c].order = o /\ conn'[c].lines = {}
        /\ \A d \in Connections \ {c} : conn'[d] = conn[d]
    BY <1>4, OpenEffect DEF ReturnBegin
  <2>2. /\ resv' = resv /\ returned' = returned /\ returned[o] = {}
        /\ \A d \in Connections : conn[d] # Idle =>
               ~(conn[d].op = "return" /\ conn[d].order = o)
    BY <1>4 DEF ReturnBegin, history
  <2>3. ReturnsRecorded'
    BY <2>1, <2>2 DEF ReturnsRecorded
  <2>4. OneCall("return")'
    BY <2>1, <2>2 DEF OneCall, Idle
  <2>5. OneCall("reserve")' /\ SettlesWhole' /\ ReservesFresh'
    BY <2>1, <2>2 DEF OneCall, SettlesWhole, ReservesFresh
  <2>6. OrderLinesTogether'
    BY <2>2 DEF OrderLinesTogether
  <2>7. QED
    BY <2>3, <2>4, <2>5, <2>6
<1>5. ASSUME NEW c \in Connections, NEW p \in Products, ReserveLine(c, p)
      PROVE  Calls'
  <2>1. /\ conn[c].op = "reserve" /\ conn[c] \in OpenCall
        /\ resv' = resv /\ returned' = returned
    BY <1>5, OpenIsOpen DEF ReserveLine, history
  <2>2. /\ conn'[c].op = "reserve" /\ conn'[c].order = conn[c].order
        /\ \A d \in Connections \ {c} : conn'[d] = conn[d]
    BY <1>5, <2>1 DEF ReserveLine, TypeOK, OpenCall
  <2>3. ReservesFresh' /\ SettlesWhole' /\ ReturnsRecorded'
    BY <2>1, <2>2 DEF ReservesFresh, SettlesWhole, ReturnsRecorded
  <2>4. OneCall("reserve")' /\ OneCall("return")'
    BY <2>1, <2>2 DEF OneCall
  <2>5. OrderLinesTogether'
    BY <2>1 DEF OrderLinesTogether
  <2>6. QED
    BY <2>3, <2>4, <2>5
<1>6. ASSUME NEW c \in Connections,
             Abort(c) \/ \E p \in Products : ReserveReject(c, p)
      PROVE  Calls'
  <2>1. /\ conn'[c].op = "idle"
        /\ \A d \in Connections \ {c} : conn'[d] = conn[d]
    BY <1>6, CloseEffect DEF Abort, ReserveReject
  <2>2. resv' = resv /\ returned' = returned
    BY <1>6 DEF Abort, ReserveReject, history
  <2>3. ReservesFresh' /\ SettlesWhole' /\ ReturnsRecorded'
    BY <2>1, <2>2 DEF ReservesFresh, SettlesWhole, ReturnsRecorded
  <2>4. OneCall("reserve")' /\ OneCall("return")'
    BY <2>1, <2>2 DEF OneCall
  <2>5. OrderLinesTogether'
    BY <2>2 DEF OrderLinesTogether
  <2>6. QED
    BY <2>3, <2>4, <2>5
<1>7. ASSUME NEW c \in Connections, NEW p \in Products, ReturnLine(c, p)
      PROVE  Calls'
  <2> DEFINE o == conn[c].order
             S == conn[c].lines \union {p}
  <2>1. /\ conn[c].op = "return" /\ conn[c] \in OpenCall /\ o \in Orders
        /\ resv' = resv
    BY <1>7, OpenIsOpen DEF ReturnLine
  <2>2. returned' = [returned EXCEPT ![o] = S]
    BY <1>7, <2>1 DEF ReturnLine, ReturnsRecorded
  <2>3. /\ conn'[c].op \in {"idle", "return"}
        /\ conn'[c].op = "return" => conn'[c].order = o /\ conn'[c].lines = S
        /\ \A d \in Connections \ {c} : conn'[d] = conn[d]
    BY <1>7, <2>1, CloseEffect DEF ReturnLine, TypeOK, OpenCall
  <2>4. \A d \in Connections \ {c} : conn[d].op = "return" => conn[d].order # o
    BY <2>1 DEF OneCall
  <2>5. returned'[o] = S /\ \A n \in Orders \ {o} : returned'[n] = returned[n]
    BY <2>1, <2>2 DEF TypeOK
  <2>6. ReturnsRecorded'
    <3> SUFFICES ASSUME NEW d \in Connections, conn'[d].op = "return"
                 PROVE  returned'[conn'[d].order] = conn'[d].lines
      BY DEF ReturnsRecorded
    <3>1. CASE d = c
      BY <2>1, <2>3, <2>5, <3>1 DEF ReturnsRecorded
    <3>2. CASE d # c
      <4>1. conn[d].op = "return" /\ conn'[d] = conn[d] /\ conn[d].order \in Orders
        BY <2>3, <3>2, OpenIsOpen
      <4>2. QED
        BY <2>1, <2>4, <2>5, <3>2, <4>1 DEF ReturnsRecorded
    <3>3. QED
      BY <3>1, <3>2
  <2>7. ReservesFresh' /\ SettlesWhole'
    BY <2>1, <2>3 DEF ReservesFresh, SettlesWhole
  <2>8. OneCall("reserve")' /\ OneCall("return")'
    BY <2>1, <2>3 DEF OneCall
  <2>9. OrderLinesTogether'
    BY <2>1 DEF OrderLinesTogether
  <2>10. QED
    BY <2>6, <2>7, <2>8, <2>9
<1>8. ASSUME NEW c \in Connections,
             ReserveWrite(c) \/ CommitWrite(c) \/ ReleaseWrite(c)
      PROVE  Calls'
  <2> DEFINE o == conn[c].order
  <2>1. /\ o \in Orders /\ conn[c].lines = Lines(o)
        /\ conn[c].op \in {"reserve", "commit", "release"}
    BY <1>8, OpenIsOpen DEF ReserveWrite, CommitWrite, ReleaseWrite, SettlesWhole
  <2>2. \E s \in {"ACTIVE", "COMMITTED", "RELEASED"} : SetStatus(o, Lines(o), s)
    BY <1>8, <2>1 DEF ReserveWrite, CommitWrite, ReleaseWrite
  <2>3. /\ \A n \in Orders \ {o} : resv'[n] = resv[n]
        /\ \E s \in {"ACTIVE", "COMMITTED", "RELEASED"} :
               \A p \in Lines(o) : resv'[o][p] = s
    BY <2>1, <2>2, SetStatusEffect, LinesAreProducts
  <2>4. /\ conn'[c].op = "idle"
        /\ \A d \in Connections \ {c} : conn'[d] = conn[d]
    BY <1>8, CloseEffect DEF ReserveWrite, CommitWrite, ReleaseWrite
  <2>5. returned' = returned
    BY <1>8 DEF ReserveWrite, CommitWrite, ReleaseWrite
  <2>6. ReservesFresh'
    <3> SUFFICES ASSUME NEW d \in Connections, conn'[d].op = "reserve",
                        NEW p \in Lines(conn'[d].order)
                 PROVE  resv'[conn'[d].order][p] = "NONE"
      BY DEF ReservesFresh
    <3>1. d # c /\ conn'[d] = conn[d] /\ conn[d].order \in Orders
      BY <2>4, OpenIsOpen
    <3>2. resv[conn[d].order][p] = "NONE"
      BY <3>1 DEF ReservesFresh
    <3>3. conn[d].order # o
      <4>1. CASE conn[c].op = "reserve"
        BY <3>1, <4>1 DEF OneCall
      <4>2. CASE conn[c].op \in {"commit", "release"}
        BY <2>1, <3>1, <3>2, <4>2 DEF SettlesWhole
      <4>3. QED
        BY <2>1, <4>1, <4>2
    <3>4. QED
      BY <2>3, <3>1, <3>2, <3>3
  <2>7. SettlesWhole'
    <3> SUFFICES ASSUME NEW d \in Connections, conn'[d].op \in {"commit", "release"}
                 PROVE  /\ conn'[d].lines = Lines(conn'[d].order)
                        /\ conn'[d].lines # {}
                        /\ \A p \in conn'[d].lines : resv'[conn'[d].order][p] # "NONE"
      BY DEF SettlesWhole
    <3>1. d # c /\ conn'[d] = conn[d] /\ conn[d].order \in Orders
      BY <2>4, OpenIsOpen
    <3>2. QED
      BY <2>3, <3>1 DEF SettlesWhole
  <2>8. ReturnsRecorded'
    <3> SUFFICES ASSUME NEW d \in Connections, conn'[d].op = "return"
                 PROVE  returned'[conn'[d].order] = conn'[d].lines
      BY DEF ReturnsRecorded
    <3>1. d # c /\ conn'[d] = conn[d] /\ conn[d].order \in Orders
      BY <2>4, OpenIsOpen
    <3>2. QED
      BY <2>3, <2>5, <3>1 DEF ReturnsRecorded
  <2>9. OneCall("reserve")' /\ OneCall("return")'
    BY <2>4 DEF OneCall
  <2>10. OrderLinesTogether'
    BY <2>3 DEF OrderLinesTogether
  <2>11. QED
    BY <2>6, <2>7, <2>8, <2>9, <2>10
<1>9. QED
  BY <1>1, <1>2, <1>3, <1>4, <1>5, <1>6, <1>7, <1>8 DEF Next

LEMMA CallsInit == Init => Calls
<1> SUFFICES ASSUME Init
             PROVE  Calls
  OBVIOUS
<1>1. \A c \in Connections : conn[c].op = "idle"
  BY DEF Init, Idle
<1>2. ReservesFresh /\ OneCall("reserve") /\ OneCall("return")
  BY <1>1 DEF ReservesFresh, OneCall
<1>3. SettlesWhole /\ ReturnsRecorded
  BY <1>1 DEF SettlesWhole, ReturnsRecorded
<1>4. OrderLinesTogether
  BY LinesAreProducts DEF Init, OrderLinesTogether
<1>5. QED
  BY <1>2, <1>3, <1>4 DEF Calls

\* A failed reservation keeps nothing: the lines of an order are always in the
\* same state, however reserves, commits and releases of it interleave.
THEOREM LinesTogether == Spec => []OrderLinesTogether
<1>1. TypeOK /\ Calls /\ [Next]_vars => Calls'
  BY CallsStep
<1>2. Calls => OrderLinesTogether
  BY DEF Calls
<1>3. QED
  BY CallsInit, TypeCorrect, <1>1, <1>2, PTL DEF Spec

-----------------------------------------------------------------------------
(* availableStock is what is on the shelf and not reserved.                *)

\* What a step does to the three counters: nothing, or it reserves, sells,
\* frees or takes back some lines of one order.
LEMMA CountersStep ==
    ASSUME TypeOK, [Next]_vars
    PROVE  \/ UNCHANGED counters
           \/ \E o \in Orders, S \in SUBSET Products :
                 \/ /\ currentStock' = currentStock
                    /\ reservedStock' = Add(reservedStock, S, Qty[o])
                    /\ availableStock' = Sub(availableStock, S, Qty[o])
                 \/ /\ currentStock' = Sub(currentStock, S, Qty[o])
                    /\ reservedStock' = Sub(reservedStock, S, Qty[o])
                    /\ availableStock' = availableStock
                 \/ /\ currentStock' = currentStock
                    /\ reservedStock' = Sub(reservedStock, S, Qty[o])
                    /\ availableStock' = Add(availableStock, S, Qty[o])
                 \/ /\ currentStock' = Add(currentStock, S, Qty[o])
                    /\ reservedStock' = reservedStock
                    /\ availableStock' = Add(availableStock, S, Qty[o])
<1>1. CASE UNCHANGED vars
  BY <1>1 DEF vars
<1>2. ASSUME NEW c \in Connections,
             \/ \E o \in Orders : \/ ReserveBegin(c, o) \/ CommitRead(c, o)
                                  \/ ReleaseRead(c, o) \/ ReturnBegin(c, o)
             \/ \E q \in Products : ReserveLine(c, q) \/ ReserveReject(c, q)
             \/ Abort(c)
      PROVE  UNCHANGED counters
  BY <1>2 DEF ReserveBegin, CommitRead, ReleaseRead, ReturnBegin, ReserveLine,
              ReserveReject, Abort
<1>3. ASSUME NEW c \in Connections,
             conn[c].op \in {"reserve", "commit", "release", "return"}
      PROVE  conn[c].order \in Orders /\ conn[c].lines \in SUBSET Products
  BY <1>3, OpenIsOpen
<1>4. ASSUME NEW c \in Connections, ReserveWrite(c)
      PROVE  /\ conn[c].order \in Orders /\ conn[c].lines \in SUBSET Products
             /\ currentStock' = currentStock
             /\ reservedStock' = Add(reservedStock, conn[c].lines, Qty[conn[c].order])
             /\ availableStock' = Sub(availableStock, conn[c].lines, Qty[conn[c].order])
  BY <1>3, <1>4 DEF ReserveWrite
<1>5. ASSUME NEW c \in Connections, CommitWrite(c)
      PROVE  /\ conn[c].order \in Orders /\ conn[c].lines \in SUBSET Products
             /\ currentStock' = Sub(currentStock, conn[c].lines, Qty[conn[c].order])
             /\ reservedStock' = Sub(reservedStock, conn[c].lines, Qty[conn[c].order])
             /\ availableStock' = availableStock
  BY <1>3, <1>5 DEF CommitWrite
<1>6. ASSUME NEW c \in Connections, ReleaseWrite(c)
      PROVE  /\ conn[c].order \in Orders /\ conn[c].lines \in SUBSET Products
             /\ currentStock' = currentStock
             /\ reservedStock' = Sub(reservedStock, conn[c].lines, Qty[conn[c].order])
             /\ availableStock' = Add(availableStock, conn[c].lines, Qty[conn[c].order])
  BY <1>3, <1>6 DEF ReleaseWrite
<1>7. ASSUME NEW c \in Connections, NEW q \in Products, ReturnLine(c, q)
      PROVE  /\ conn[c].order \in Orders /\ {q} \in SUBSET Products
             /\ currentStock' = Add(currentStock, {q}, Qty[conn[c].order])
             /\ reservedStock' = reservedStock
             /\ availableStock' = Add(availableStock, {q}, Qty[conn[c].order])
  BY <1>3, <1>7 DEF ReturnLine
<1>8. QED
  BY <1>1, <1>2, <1>4, <1>5, <1>6, <1>7 DEF Next

LEMMA AvailableStep == TypeOK /\ AvailableIsFree /\ [Next]_vars => AvailableIsFree'
<1> SUFFICES ASSUME TypeOK, AvailableIsFree, [Next]_vars, NEW p \in Products
             PROVE  availableStock'[p] = currentStock'[p] - reservedStock'[p]
  BY DEF AvailableIsFree
<1>1. availableStock[p] = currentStock[p] - reservedStock[p]
  BY DEF AvailableIsFree
<1>2. /\ currentStock \in [Products -> Int]
      /\ reservedStock \in [Products -> Int]
      /\ availableStock \in [Products -> Int]
  BY DEF TypeOK
<1>3. CASE UNCHANGED counters
  BY <1>1, <1>3 DEF counters
<1>4. ASSUME NEW o \in Orders, NEW S \in SUBSET Products
      PROVE  \A f \in [Products -> Int] :
                 /\ Add(f, S, Qty[o])[p] = IF p \in S THEN f[p] + Qty[o][p] ELSE f[p]
                 /\ Sub(f, S, Qty[o])[p] = IF p \in S THEN f[p] - Qty[o][p] ELSE f[p]
                 /\ f[p] \in Int /\ Qty[o][p] \in Nat
  BY QtyAssumption DEF Add, Sub
<1>5. CASE ~UNCHANGED counters
  <2>1. PICK o \in Orders, S \in SUBSET Products :
                 \/ /\ currentStock' = currentStock
                    /\ reservedStock' = Add(reservedStock, S, Qty[o])
                    /\ availableStock' = Sub(availableStock, S, Qty[o])
                 \/ /\ currentStock' = Sub(currentStock, S, Qty[o])
                    /\ reservedStock' = Sub(reservedStock, S, Qty[o])
                    /\ availableStock' = availableStock
                 \/ /\ currentStock' = currentStock
                    /\ reservedStock' = Sub(reservedStock, S, Qty[o])
                    /\ availableStock' = Add(availableStock, S, Qty[o])
                 \/ /\ currentStock' = Add(currentStock, S, Qty[o])
                    /\ reservedStock' = reservedStock
                    /\ availableStock' = Add(availableStock, S, Qty[o])
    BY <1>5, CountersStep
  <2>2. /\ Add(currentStock, S, Qty[o])[p] =
               IF p \in S THEN currentStock[p] + Qty[o][p] ELSE currentStock[p]
        /\ Sub(currentStock, S, Qty[o])[p] =
               IF p \in S THEN currentStock[p] - Qty[o][p] ELSE currentStock[p]
        /\ Add(reservedStock, S, Qty[o])[p] =
               IF p \in S THEN reservedStock[p] + Qty[o][p] ELSE reservedStock[p]
        /\ Sub(reservedStock, S, Qty[o])[p] =
               IF p \in S THEN reservedStock[p] - Qty[o][p] ELSE reservedStock[p]
        /\ Add(availableStock, S, Qty[o])[p] =
               IF p \in S THEN availableStock[p] + Qty[o][p] ELSE availableStock[p]
        /\ Sub(availableStock, S, Qty[o])[p] =
               IF p \in S THEN availableStock[p] - Qty[o][p] ELSE availableStock[p]
        /\ currentStock[p] \in Int /\ reservedStock[p] \in Int
        /\ Qty[o][p] \in Nat
    BY <1>2, <1>4
  <2>3. QED
    BY <1>1, <2>1, <2>2
<1>6. QED
  BY <1>3, <1>5

\* What checkStock calls available is, at every moment, what is on the shelf
\* and not reserved, however reserves, commits, releases and returns interleave.
THEOREM AvailableFree == Spec => []AvailableIsFree
<1>1. Init => AvailableIsFree
  BY QtyAssumption DEF Init, AvailableIsFree
<1>2. QED
  BY <1>1, AvailableStep, TypeCorrect, PTL DEF Spec

-----------------------------------------------------------------------------
(* Sums of quantities as cardinalities.                                    *)

\* The units on a set of orders are finitely many.
LEMMA UnitsFinite ==
    ASSUME NEW W \in SUBSET Orders, NEW p \in Products
    PROVE  IsFiniteSet(UnitsOn(W, p)) /\ Cardinality(UnitsOn(W, p)) \in Nat
<1>1. IsFiniteSet(W)
  BY OrdersFinite, FS_Subset
<1>2. IsFiniteSet(1..MaxQty)
  BY QtyAssumption, FS_Interval
<1>3. IsFiniteSet(W \X (1..MaxQty))
  BY <1>1, <1>2, FS_Product
<1>4. UnitsOn(W, p) \in SUBSET (W \X (1..MaxQty))
  BY DEF UnitsOn
<1>5. IsFiniteSet(UnitsOn(W, p))
  BY <1>3, <1>4, FS_Subset
<1>6. QED
  BY <1>5, FS_CardinalityType

\* One order line holds as many units as its quantity says.
LEMMA UnitsOfOne ==
    ASSUME NEW o \in Orders, NEW p \in Products
    PROVE  /\ IsFiniteSet({o} \X (1..Qty[o][p]))
           /\ Cardinality({o} \X (1..Qty[o][p])) = Qty[o][p]
<1>1. Qty[o][p] \in Nat
  BY QtyAssumption
<1>2. /\ IsFiniteSet(1..Qty[o][p])
      /\ Cardinality(1..Qty[o][p]) = Qty[o][p]
  <2>1. /\ IsFiniteSet(1..Qty[o][p])
        /\ Cardinality(1..Qty[o][p]) =
              IF 1 > Qty[o][p] THEN 0 ELSE Qty[o][p] - 1 + 1
    BY <1>1, FS_Interval
  <2>2. QED
    BY <1>1, <2>1
<1>3. IsFiniteSet({o}) /\ Cardinality({o}) = 1
  BY FS_Singleton
<1>4. /\ IsFiniteSet({o} \X (1..Qty[o][p]))
      /\ Cardinality({o} \X (1..Qty[o][p])) = 1 * Qty[o][p]
  BY <1>2, <1>3, FS_Product
<1>5. QED
  BY <1>1, <1>4

\* One more order adds its quantity to the sum.
LEMMA UnitsAdd ==
    ASSUME NEW W \in SUBSET Orders, NEW o \in Orders \ W, NEW p \in Products
    PROVE  Cardinality(UnitsOn(W \union {o}, p)) =
               Cardinality(UnitsOn(W, p)) + Qty[o][p]
<1> DEFINE One == {o} \X (1..Qty[o][p])
<1>1. Qty[o][p] \in 0..MaxQty /\ MaxQty \in Nat
  BY QtyAssumption
<1>2. UnitsOn(W \union {o}, p) = UnitsOn(W, p) \union One
  BY <1>1 DEF UnitsOn
<1>3. UnitsOn(W, p) \cap One = {}
  BY DEF UnitsOn
<1>4. /\ IsFiniteSet(UnitsOn(W, p)) /\ Cardinality(UnitsOn(W, p)) \in Nat
      /\ IsFiniteSet(One) /\ Cardinality(One) = Qty[o][p]
  BY UnitsFinite, UnitsOfOne
<1> HIDE DEF One
<1>5. Cardinality(UnitsOn(W, p) \union One) =
        Cardinality(UnitsOn(W, p)) + Cardinality(One)
                                  - Cardinality(UnitsOn(W, p) \cap One)
  BY <1>4, FS_Union
<1>6. Cardinality(UnitsOn(W, p) \cap One) = 0
  BY <1>3, FS_EmptySet
<1>7. Cardinality(UnitsOn(W \union {o}, p)) = Cardinality(UnitsOn(W, p) \union One)
  BY <1>2
<1>8. Qty[o][p] \in Int
  BY <1>1
<1>9. QED
  BY <1>4, <1>5, <1>6, <1>7, <1>8

\* One order less takes its quantity off the sum.
LEMMA UnitsRemove ==
    ASSUME NEW W \in SUBSET Orders, NEW o \in W, NEW p \in Products
    PROVE  Cardinality(UnitsOn(W \ {o}, p)) =
               Cardinality(UnitsOn(W, p)) - Qty[o][p]
<1> DEFINE V == W \ {o}
<1>1. V \in SUBSET Orders /\ o \in Orders \ V /\ V \union {o} = W
  OBVIOUS
<1>2. Cardinality(UnitsOn(V, p)) \in Nat
  BY <1>1, UnitsFinite
<1>3. Qty[o][p] \in Nat
  BY <1>1, QtyAssumption
<1>4. Cardinality(UnitsOn(V \union {o}, p)) = Cardinality(UnitsOn(V, p)) + Qty[o][p]
  BY <1>1, UnitsAdd
<1>5. Cardinality(UnitsOn(V \union {o}, p)) = Cardinality(UnitsOn(W, p))
  BY <1>1
<1> HIDE DEF V
<1>6. Cardinality(UnitsOn(V, p)) = Cardinality(UnitsOn(W, p)) - Qty[o][p]
  BY <1>2, <1>3, <1>4, <1>5
<1>7. QED
  BY <1>6 DEF V

\* What a write of status s to the lines S of an order does to the quantity
\* on lines with status t.
LEMMA SumAfter ==
    ASSUME TypeOK, NEW o \in Orders, NEW S \in SUBSET Products,
           NEW s \in ReservationStatus, NEW t \in ReservationStatus,
           NEW p \in Products, SetStatus(o, S, s)
    PROVE  /\ SumQuantity(p, t) \in Nat
           /\ p \in S /\ t = s /\ resv[o][p] # t
                => SumQuantity(p, t)' = SumQuantity(p, t) + Qty[o][p]
           /\ p \in S /\ t # s /\ resv[o][p] = t
                => SumQuantity(p, t)' = SumQuantity(p, t) - Qty[o][p]
           /\ (p \notin S \/ (t = s <=> resv[o][p] = t))
                => SumQuantity(p, t)' = SumQuantity(p, t)
<1>1. With(p, t) \in SUBSET Orders
  BY DEF With
<1>2. /\ \A n \in Orders \ {o} : resv'[n] = resv[n]
      /\ resv'[o][p] = IF p \in S THEN s ELSE resv[o][p]
  BY SetStatusEffect
<1>3. o \in With(p, t) <=> resv[o][p] = t
  BY DEF With
<1>4. SumQuantity(p, t) \in Nat
  BY <1>1, UnitsFinite DEF SumQuantity
<1>5. ASSUME p \in S, t = s, resv[o][p] # t
      PROVE  SumQuantity(p, t)' = SumQuantity(p, t) + Qty[o][p]
  <2>1. With(p, t)' = With(p, t) \union {o}
    BY <1>2, <1>5 DEF With
  <2>2. QED
    BY <1>1, <1>3, <1>5, <2>1, UnitsAdd DEF SumQuantity
<1>6. ASSUME p \in S, t # s, resv[o][p] = t
      PROVE  SumQuantity(p, t)' = SumQuantity(p, t) - Qty[o][p]
  <2>1. With(p, t)' = With(p, t) \ {o}
    BY <1>2, <1>6 DEF With
  <2>2. QED
    BY <1>1, <1>3, <1>6, <2>1, UnitsRemove DEF SumQuantity
<1>7. ASSUME p \notin S \/ (t = s <=> resv[o][p] = t)
      PROVE  SumQuantity(p, t)' = SumQuantity(p, t)
  <2>1. With(p, t)' = With(p, t)
    BY <1>2, <1>7 DEF With
  <2>2. QED
    BY <2>1 DEF SumQuantity
<1>8. QED
  BY <1>4, <1>5, <1>6, <1>7

-----------------------------------------------------------------------------
(* The books: reserved, sold and given-back units of one product.          *)

\* A reserve writes lines that nobody held.
LEMMA ReserveBooks ==
    ASSUME TypeOK, Calls, NEW c \in Connections, ReserveWrite(c), NEW p \in Products
    PROVE  \E n \in Nat : /\ reservedStock'[p] = reservedStock[p] + n
                          /\ Held(p)' = Held(p) + n
                          /\ Sold(p)' = Sold(p)
                          /\ currentStock'[p] = currentStock[p]
                          /\ returned' = returned
                          /\ staleSettle' = staleSettle
<1> DEFINE o == conn[c].order
           S == conn[c].lines
<1>1. /\ o \in Orders /\ S \in SUBSET Products
      /\ \A q \in S : resv[o][q] = "NONE"
  BY OpenIsOpen DEF ReserveWrite, Calls, ReservesFresh
<1>2. SetStatus(o, S, "ACTIVE") /\ reservedStock' = Add(reservedStock, S, Qty[o])
  BY DEF ReserveWrite
<1>3. Qty[o][p] \in Nat /\ reservedStock \in [Products -> Int] /\ reservedStock[p] \in Int
  BY <1>1, QtyAssumption DEF TypeOK
<1>4. reservedStock'[p] = IF p \in S THEN reservedStock[p] + Qty[o][p]
                          ELSE reservedStock[p]
  BY <1>2 DEF Add
<1>5. "ACTIVE" \in ReservationStatus /\ "COMMITTED" \in ReservationStatus
  BY DEF ReservationStatus
<1> HIDE DEF o, S
<1>6. /\ Held(p) \in Nat
      /\ p \in S => Held(p)' = Held(p) + Qty[o][p]
      /\ p \notin S => Held(p)' = Held(p)
  <2>1. /\ SumQuantity(p, "ACTIVE") \in Nat
        /\ p \in S => SumQuantity(p, "ACTIVE")' = SumQuantity(p, "ACTIVE") + Qty[o][p]
        /\ p \notin S => SumQuantity(p, "ACTIVE")' = SumQuantity(p, "ACTIVE")
    BY <1>1, <1>2, <1>5, SumAfter
  <2>2. QED
    BY <2>1 DEF Held
<1>7. Sold(p)' = Sold(p)
  <2>1. SumQuantity(p, "COMMITTED")' = SumQuantity(p, "COMMITTED")
    BY <1>1, <1>2, <1>5, SumAfter
  <2>2. QED
    BY <2>1 DEF Sold
<1>8. /\ currentStock'[p] = currentStock[p] /\ returned' = returned
      /\ staleSettle' = staleSettle
  BY DEF ReserveWrite
<1>9. CASE p \in S
  BY <1>3, <1>4, <1>6, <1>7, <1>8, <1>9
<1>10. CASE p \notin S
  <2>1. /\ reservedStock'[p] = reservedStock[p] + 0
        /\ Held(p)' = Held(p) + 0
    BY <1>3, <1>4, <1>6, <1>10
  <2>2. QED
    BY <1>7, <1>8, <2>1
<1>11. QED
  BY <1>9, <1>10

\* A commit takes its units off the reserved ones; off those held as well
\* unless the line was settled meanwhile.
LEMMA CommitBooks ==
    ASSUME TypeOK, Calls, NEW c \in Connections, CommitWrite(c), NEW p \in Products
    PROVE  \E n \in Nat : /\ reservedStock'[p] = reservedStock[p] - n
                          /\ currentStock'[p] = currentStock[p] - n
                          /\ Held(p)' \in {Held(p), Held(p) - n}
                          /\ ~staleSettle' => /\ Held(p)' = Held(p) - n
                                              /\ Sold(p)' = Sold(p) + n
                          /\ returned' = returned
                          /\ ~staleSettle' => ~staleSettle
<1> DEFINE o == conn[c].order
           S == conn[c].lines
<1>1. o \in Orders /\ S \in SUBSET Products
  BY OpenIsOpen DEF CommitWrite
<1>2. /\ SetStatus(o, S, "COMMITTED")
      /\ reservedStock' = Sub(reservedStock, S, Qty[o])
      /\ currentStock' = Sub(currentStock, S, Qty[o])
      /\ staleSettle' = (staleSettle \/ ~(S \subseteq ActiveLines(o)))
      /\ returned' = returned
  BY DEF CommitWrite
<1>3. /\ Qty[o][p] \in Nat
      /\ reservedStock \in [Products -> Int] /\ reservedStock[p] \in Int
      /\ currentStock \in [Products -> Int] /\ currentStock[p] \in Int
  BY <1>1, QtyAssumption DEF TypeOK
<1>4. /\ reservedStock'[p] = IF p \in S THEN reservedStock[p] - Qty[o][p]
                             ELSE reservedStock[p]
      /\ currentStock'[p] = IF p \in S THEN currentStock[p] - Qty[o][p]
                            ELSE currentStock[p]
  BY <1>2 DEF Sub
<1>5. "ACTIVE" \in ReservationStatus /\ "COMMITTED" \in ReservationStatus
  BY DEF ReservationStatus
<1>6. ~staleSettle' /\ p \in S => resv[o][p] = "ACTIVE"
  BY <1>2 DEF ActiveLines
<1> HIDE DEF o, S
<1>7. /\ Held(p) \in Nat
      /\ p \in S /\ resv[o][p] = "ACTIVE" => Held(p)' = Held(p) - Qty[o][p]
      /\ p \notin S \/ resv[o][p] # "ACTIVE" => Held(p)' = Held(p)
  <2> DEFINE H == SumQuantity(p, "ACTIVE")
  <2>1. /\ H \in Nat
        /\ p \in S /\ resv[o][p] = "ACTIVE" => H' = H - Qty[o][p]
        /\ p \notin S \/ resv[o][p] # "ACTIVE" => H' = H
    BY <1>1, <1>2, <1>5, SumAfter
  <2>2. QED
    BY <2>1 DEF Held
<1>8. /\ Sold(p) \in Nat
      /\ p \in S /\ resv[o][p] = "ACTIVE" => Sold(p)' = Sold(p) + Qty[o][p]
      /\ p \notin S => Sold(p)' = Sold(p)
  <2> DEFINE H == SumQuantity(p, "COMMITTED")
  <2>1. /\ H \in Nat
        /\ p \in S /\ resv[o][p] = "ACTIVE" => H' = H + Qty[o][p]
        /\ p \notin S => H' = H
    BY <1>1, <1>2, <1>5, SumAfter
  <2>2. QED
    BY <2>1 DEF Sold
<1>9. CASE p \in S
  BY <1>2, <1>3, <1>4, <1>6, <1>7, <1>8, <1>9
<1>10. CASE p \notin S
  <2>1. /\ reservedStock'[p] = reservedStock[p] - 0
        /\ currentStock'[p] = currentStock[p] - 0
        /\ Held(p)' = Held(p) - 0 /\ Sold(p)' = Sold(p) + 0
    BY <1>3, <1>4, <1>7, <1>8, <1>10
  <2>2. QED
    BY <1>2, <2>1
<1>11. QED
  BY <1>9, <1>10

\* A release does the same and offers the units again.
LEMMA ReleaseBooks ==
    ASSUME TypeOK, Calls, NEW c \in Connections, ReleaseWrite(c), NEW p \in Products
    PROVE  \E n \in Nat : /\ reservedStock'[p] = reservedStock[p] - n
                          /\ currentStock'[p] = currentStock[p]
                          /\ Held(p)' \in {Held(p), Held(p) - n}
                          /\ ~staleSettle' => /\ Held(p)' = Held(p) - n
                                              /\ Sold(p)' = Sold(p)
                          /\ returned' = returned
                          /\ ~staleSettle' => ~staleSettle
<1> DEFINE o == conn[c].order
           S == conn[c].lines
<1>1. o \in Orders /\ S \in SUBSET Products
  BY OpenIsOpen DEF ReleaseWrite
<1>2. /\ SetStatus(o, S, "RELEASED")
      /\ reservedStock' = Sub(reservedStock, S, Qty[o])
      /\ currentStock' = currentStock
      /\ staleSettle' = (staleSettle \/ ~(S \subseteq ActiveLines(o)))
      /\ returned' = returned
  BY DEF ReleaseWrite
<1>3. /\ Qty[o][p] \in Nat
      /\ reservedStock \in [Products -> Int] /\ reservedStock[p] \in Int
  BY <1>1, QtyAssumption DEF TypeOK
<1>4. reservedStock'[p] = IF p \in S THEN reservedStock[p] - Qty[o][p]
                          ELSE reservedStock[p]
  BY <1>2 DEF Sub
<1>5. /\ "ACTIVE" \in ReservationStatus /\ "COMMITTED" \in ReservationStatus
      /\ "RELEASED" \in ReservationStatus
  BY DEF ReservationStatus
<1>6. ~staleSettle' /\ p \in S => resv[o][p] = "ACTIVE"
  BY <1>2 DEF ActiveLines
<1> HIDE DEF o, S
<1>7. /\ Held(p) \in Nat
      /\ p \in S /\ resv[o][p] = "ACTIVE" => Held(p)' = Held(p) - Qty[o][p]
      /\ p \notin S \/ resv[o][p] # "ACTIVE" => Held(p)' = Held(p)
  <2> DEFINE H == SumQuantity(p, "ACTIVE")
  <2>1. H \in Nat /\ (p \in S /\ resv[o][p] = "ACTIVE" => H' = H - Qty[o][p])
    BY <1>1, <1>2, <1>5, SumAfter
  <2>2. p \notin S \/ resv[o][p] # "ACTIVE" => H' = H
    BY <1>1, <1>2, <1>5, SumAfter
  <2>3. QED
    BY <2>1, <2>2 DEF Held
<1>8. /\ Sold(p) \in Nat
      /\ p \in S /\ resv[o][p] = "ACTIVE" => Sold(p)' = Sold(p)
      /\ p \notin S => Sold(p)' = Sold(p)
  <2> DEFINE H == SumQuantity(p, "COMMITTED")
  <2>1. /\ H \in Nat
        /\ p \in S /\ resv[o][p] = "ACTIVE" => H' = H
        /\ p \notin S => H' = H
    BY <1>1, <1>2, <1>5, SumAfter
  <2>2. QED
    BY <2>1 DEF Sold
<1>9. CASE p \in S
  BY <1>2, <1>3, <1>4, <1>6, <1>7, <1>8, <1>9
<1>10. CASE p \notin S
  <2>1. /\ reservedStock'[p] = reservedStock[p] - 0
        /\ Held(p)' = Held(p) - 0 /\ Sold(p)' = Sold(p)
    BY <1>3, <1>4, <1>7, <1>8, <1>10
  <2>2. QED
    BY <1>2, <2>1
<1>11. QED
  BY <1>9, <1>10

\* A return gives each line back once.
LEMMA ReturnBooks ==
    ASSUME TypeOK, Calls, NEW c \in Connections, NEW q \in Products,
           ReturnLine(c, q), NEW p \in Products
    PROVE  \E n \in Nat : /\ reservedStock'[p] = reservedStock[p]
                          /\ currentStock'[p] = currentStock[p] + n
                          /\ Returned(p)' = Returned(p) + n
                          /\ Held(p)' = Held(p) /\ Sold(p)' = Sold(p)
                          /\ staleSettle' = staleSettle
<1> DEFINE o == conn[c].order
<1>1. o \in Orders /\ conn[c].op = "return" /\ q \notin conn[c].lines
  BY OpenIsOpen DEF ReturnLine
<1>2. /\ returned[o] = conn[c].lines
      /\ returned' = [returned EXCEPT ![o] = @ \union {q}]
      /\ returned \in [Orders -> SUBSET Products]
  BY <1>1 DEF ReturnLine, Calls, ReturnsRecorded, TypeOK
<1>3. currentStock' = Add(currentStock, {q}, Qty[o]) /\ reservedStock' = reservedStock
  BY DEF ReturnLine
<1>4. /\ Qty[o][p] \in Nat
      /\ currentStock \in [Products -> Int] /\ currentStock[p] \in Int
  BY <1>1, QtyAssumption DEF TypeOK
<1>5. currentStock'[p] = IF p = q THEN currentStock[p] + Qty[o][p] ELSE currentStock[p]
  BY <1>3 DEF Add
<1>6. resv' = resv /\ staleSettle' = staleSettle
  BY DEF ReturnLine
<1>7. Held(p)' = Held(p) /\ Sold(p)' = Sold(p)
  BY <1>6 DEF Held, Sold, SumQuantity, With
<1>8. GivenBack(p) \in SUBSET Orders /\ (p = q => o \notin GivenBack(p))
  BY <1>1, <1>2 DEF GivenBack
<1>9. Returned(p) \in Nat
  BY <1>8, UnitsFinite DEF Returned
<1>10. CASE p = q
  <2>1. GivenBack(p)' = GivenBack(p) \union {o}
    BY <1>1, <1>2, <1>10 DEF GivenBack
  <2>2. Returned(p)' = Returned(p) + Qty[o][p]
    <3>1. Returned(p)' = Cardinality(UnitsOn(GivenBack(p) \union {o}, p))
      BY <2>1 DEF Returned
    <3>2. Cardinality(UnitsOn(GivenBack(p) \union {o}, p))
            = Cardinality(UnitsOn(GivenBack(p), p)) + Qty[o][p]
      BY <1>1, <1>8, <1>10, UnitsAdd
    <3>3. QED
      BY <3>1, <3>2 DEF Returned
  <2>3. QED
    BY <1>3, <1>4, <1>5, <1>6, <1>7, <1>10, <2>2
<1>11. CASE p # q
  <2>1. GivenBack(p)' = GivenBack(p)
    BY <1>1, <1>2, <1>11 DEF GivenBack
  <2>2. Returned(p)' = Returned(p) + 0 /\ currentStock'[p] = currentStock[p] + 0
    BY <1>4, <1>5, <1>9, <1>11, <2>1 DEF Returned
  <2>3. QED
    BY <1>3, <1>6, <1>7, <2>2
<1>12. QED
  BY <1>10, <1>11

\* No other step touches the books.
LEMMA OtherBooks ==
    ASSUME [Next]_vars
    PROVE  \/ \E c \in Connections : \/ ReserveWrite(c) \/ CommitWrite(c)
                                     \/ ReleaseWrite(c)
                                     \/ \E q \in Products : ReturnLine(c, q)
           \/ UNCHANGED <<counters, resv, returned, staleSettle>>
BY DEF Next, vars, history, ReserveBegin, CommitRead, ReleaseRead, ReturnBegin,
       ReserveLine, ReserveReject, Abort

\* The sums are natural numbers and depend on resv and returned only.
LEMMA BooksType ==
    ASSUME TypeOK, NEW p \in Products
    PROVE  /\ reservedStock[p] \in Int /\ currentStock[p] \in Int
           /\ Held(p) \in Nat /\ Sold(p) \in Nat /\ Returned(p) \in Nat
           /\ InitialStock[p] \in Nat
<1>1. /\ With(p, "ACTIVE") \in SUBSET Orders
      /\ With(p, "COMMITTED") \in SUBSET Orders
      /\ GivenBack(p) \in SUBSET Orders
  BY DEF With, GivenBack
<1>2. Held(p) \in Nat /\ Sold(p) \in Nat /\ Returned(p) \in Nat
  BY <1>1, UnitsFinite DEF Held, Sold, SumQuantity, Returned
<1>3. QED
  BY <1>2, QtyAssumption DEF TypeOK

LEMMA PhantomStep == TypeOK /\ Calls /\ NoPhantomHold /\ [Next]_vars => NoPhantomHold'
<1> SUFFICES ASSUME TypeOK, Calls, NoPhantomHold, [Next]_vars, NEW p \in Products
             PROVE  reservedStock'[p] <= Held(p)'
  BY DEF NoPhantomHold
<1>1. reservedStock[p] <= Held(p) /\ reservedStock[p] \in Int /\ Held(p) \in Nat
  BY BooksType DEF NoPhantomHold
<1>2. CASE UNCHANGED <<counters, resv, returned, staleSettle>>
  <2>1. Held(p)' = Held(p) /\ reservedStock' = reservedStock
    BY <1>2 DEF Held, SumQuantity, With, counters
  <2>2. QED
    BY <1>1, <2>1
<1>3. ASSUME NEW c \in Connections, ReserveWrite(c)
      PROVE  reservedStock'[p] <= Held(p)'
  BY <1>1, <1>3, ReserveBooks
<1>4. ASSUME NEW c \in Connections, CommitWrite(c)
      PROVE  reservedStock'[p] <= Held(p)'
  BY <1>1, <1>4, CommitBooks
<1>5. ASSUME NEW c \in Connections, ReleaseWrite(c)
      PROVE  reservedStock'[p] <= Held(p)'
  BY <1>1, <1>5, ReleaseBooks
<1>6. ASSUME NEW c \in Connections, NEW q \in Products, ReturnLine(c, q)
      PROVE  reservedStock'[p] <= Held(p)'
  BY <1>1, <1>6, ReturnBooks
<1>7. QED
  BY <1>2, <1>3, <1>4, <1>5, <1>6, OtherBooks

LEMMA LedgerStep == TypeOK /\ Calls /\ LedgerExact /\ [Next]_vars => LedgerExact'
<1> SUFFICES ASSUME TypeOK, Calls, LedgerExact, [Next]_vars, ~staleSettle',
                    NEW p \in Products
             PROVE  /\ reservedStock'[p] = Held(p)'
                    /\ currentStock'[p] = InitialStock[p] - Sold(p)' + Returned(p)'
  BY DEF LedgerExact
<1> DEFINE Balanced ==
             /\ reservedStock[p] = Held(p)
             /\ currentStock[p] = InitialStock[p] - Sold(p) + Returned(p)
<1>1. /\ reservedStock[p] \in Int /\ currentStock[p] \in Int
      /\ Held(p) \in Nat /\ Sold(p) \in Nat /\ Returned(p) \in Nat
      /\ InitialStock[p] \in Nat
  BY BooksType
<1>2. ~staleSettle => Balanced
  BY DEF LedgerExact
<1>3. returned' = returned => Returned(p)' = Returned(p)
  BY DEF Returned, GivenBack
<1>4. CASE UNCHANGED <<counters, resv, returned, staleSettle>>
  <2>1. /\ Held(p)' = Held(p) /\ Sold(p)' = Sold(p)
        /\ reservedStock' = reservedStock /\ currentStock' = currentStock
    BY <1>4 DEF Held, Sold, SumQuantity, With, counters
  <2>2. QED
    BY <1>2, <1>3, <1>4, <2>1
<1>5. ASSUME NEW c \in Connections, ReserveWrite(c)
      PROVE  Balanced'
  BY <1>1, <1>2, <1>3, <1>5, ReserveBooks
<1>6. ASSUME NEW c \in Connections, CommitWrite(c)
      PROVE  Balanced'
  BY <1>1, <1>2, <1>3, <1>6, CommitBooks
<1>7. ASSUME NEW c \in Connections, ReleaseWrite(c)
      PROVE  Balanced'
  BY <1>1, <1>2, <1>3, <1>7, ReleaseBooks
<1>8. ASSUME NEW c \in Connections, NEW q \in Products, ReturnLine(c, q)
      PROVE  Balanced'
  BY <1>1, <1>2, <1>8, ReturnBooks
<1>9. QED
  BY <1>4, <1>5, <1>6, <1>7, <1>8, OtherBooks

\* No unit is ever held for nobody: reservedStock stays within what the ACTIVE
\* reservations ask for, however commits and releases of an order race.
THEOREM NoPhantom == Spec => []NoPhantomHold
<1>1. Init => NoPhantomHold
  <2> SUFFICES ASSUME Init, NEW p \in Products
               PROVE  reservedStock[p] <= Held(p)
    BY DEF NoPhantomHold
  <2>1. With(p, "ACTIVE") = {}
    BY DEF Init, With
  <2>2. Held(p) \in Nat
    BY <2>1, UnitsFinite DEF Held, SumQuantity
  <2>3. QED
    BY <2>2 DEF Init
<1>2. QED
  BY <1>1, PhantomStep, CallsInit, CallsStep, TypeCorrect, PTL DEF Spec

\* Unless a commit or release wrote from a stale read, every unit is accounted
\* for: reserved units are the ACTIVE reservations, and the shelf lost exactly
\* what was sold and not given back.
THEOREM Ledger == Spec => []LedgerExact
<1>1. Init => LedgerExact
  <2> SUFFICES ASSUME Init, NEW p \in Products
               PROVE  /\ reservedStock[p] = Held(p)
                      /\ currentStock[p] = InitialStock[p] - Sold(p) + Returned(p)
    BY DEF LedgerExact
  <2>1. With(p, "ACTIVE") = {} /\ With(p, "COMMITTED") = {} /\ GivenBack(p) = {}
    BY DEF Init, With, GivenBack
  <2>2. UnitsOn({}, p) = {}
    BY DEF UnitsOn
  <2>3. Held(p) = 0 /\ Sold(p) = 0 /\ Returned(p) = 0
    BY <2>1, <2>2, FS_EmptySet DEF Held, Sold, SumQuantity, Returned
  <2>4. QED
    BY <2>3, QtyAssumption DEF Init
<1>2. QED
  BY <1>1, LedgerStep, CallsInit, CallsStep, TypeCorrect, PTL DEF Spec

-----------------------------------------------------------------------------
(* A line is settled once.                                                 *)

\* Which steps write reservations, and what they write.
LEMMA StatusStep ==
    ASSUME TypeOK, Calls, [Next]_vars
    PROVE  \/ UNCHANGED <<resv, committed, released, staleSettle>>
           \/ \E o \in Orders :
                 /\ SetStatus(o, Lines(o), "ACTIVE")
                 /\ \A p \in Lines(o) : resv[o][p] = "NONE"
                 /\ UNCHANGED <<committed, released, staleSettle>>
           \/ \E o \in Orders :
                 /\ Lines(o) # {}
                 /\ staleSettle' = (staleSettle \/ ~(Lines(o) \subseteq ActiveLines(o)))
                 /\ \/ /\ SetStatus(o, Lines(o), "COMMITTED")
                       /\ committed' = committed \union {o} /\ released' = released
                    \/ /\ SetStatus(o, Lines(o), "RELEASED")
                       /\ released' = released \union {o} /\ committed' = committed
<1>1. CASE UNCHANGED vars
  BY <1>1 DEF vars, history
<1>2. ASSUME NEW c \in Connections,
             \/ \E o \in Orders : \/ ReserveBegin(c, o) \/ CommitRead(c, o)
                                  \/ ReleaseRead(c, o) \/ ReturnBegin(c, o)
             \/ \E q \in Products : \/ ReserveLine(c, q) \/ ReserveReject(c, q)
                                    \/ ReturnLine(c, q)
             \/ Abort(c)
      PROVE  UNCHANGED <<resv, committed, released, staleSettle>>
  BY <1>2 DEF ReserveBegin, CommitRead, ReleaseRead, ReturnBegin, ReserveLine,
              ReserveReject, ReturnLine, Abort, history
<1>3. ASSUME NEW c \in Connections, ReserveWrite(c)
      PROVE  \E o \in Orders :
                 /\ SetStatus(o, Lines(o), "ACTIVE")
                 /\ \A p \in Lines(o) : resv[o][p] = "NONE"
                 /\ UNCHANGED <<committed, released, staleSettle>>
  <2>1. conn[c].order \in Orders /\ conn[c].op = "reserve"
    BY <1>3, OpenIsOpen DEF ReserveWrite
  <2>2. QED
    BY <1>3, <2>1 DEF ReserveWrite, Calls, ReservesFresh
<1>4. ASSUME NEW c \in Connections, CommitWrite(c) \/ ReleaseWrite(c)
      PROVE  \E o \in Orders :
                 /\ Lines(o) # {}
                 /\ staleSettle' = (staleSettle \/ ~(Lines(o) \subseteq ActiveLines(o)))
                 /\ \/ /\ SetStatus(o, Lines(o), "COMMITTED")
                       /\ committed' = committed \union {o} /\ released' = released
                    \/ /\ SetStatus(o, Lines(o), "RELEASED")
                       /\ released' = released \union {o} /\ committed' = committed
  <2>1. /\ conn[c].order \in Orders /\ conn[c].op \in {"commit", "release"}
        /\ conn[c].lines = Lines(conn[c].order) /\ conn[c].lines # {}
    BY <1>4, OpenIsOpen DEF CommitWrite, ReleaseWrite, Calls, SettlesWhole
  <2>2. QED
    BY <1>4, <2>1 DEF CommitWrite, ReleaseWrite
<1>5. QED
  BY <1>1, <1>2, <1>3, <1>4 DEF Next

\* Without stale writes an order flagged as committed (released) has all its
\* lines COMMITTED (RELEASED), and has some.
FlagsTrue ==
    ~staleSettle =>
        /\ \A o \in committed : /\ Lines(o) # {}
                                /\ \A p \in Lines(o) : resv[o][p] = "COMMITTED"
        /\ \A o \in released : /\ Lines(o) # {}
                               /\ \A p \in Lines(o) : resv[o][p] = "RELEASED"

LEMMA FlagsStep == TypeOK /\ Calls /\ FlagsTrue /\ [Next]_vars => FlagsTrue'
<1> SUFFICES ASSUME TypeOK, Calls, FlagsTrue, [Next]_vars
             PROVE  FlagsTrue'
  OBVIOUS
<1>1. committed \subseteq Orders /\ released \subseteq Orders
  BY DEF TypeOK
<1>2. CASE UNCHANGED <<resv, committed, released, staleSettle>>
  BY <1>2 DEF FlagsTrue
<1>3. ASSUME NEW o \in Orders, SetStatus(o, Lines(o), "ACTIVE"),
             \A p \in Lines(o) : resv[o][p] = "NONE",
             UNCHANGED <<committed, released, staleSettle>>
      PROVE  FlagsTrue'
  <2>1. \A n \in Orders \ {o} : resv'[n] = resv[n]
    BY <1>3, SetStatusEffect
  <2>2. QED
    BY <1>1, <1>3, <2>1 DEF FlagsTrue
<1>4. ASSUME NEW o \in Orders, NEW s \in {"COMMITTED", "RELEASED"}, Lines(o) # {},
             SetStatus(o, Lines(o), s),
             staleSettle' = (staleSettle \/ ~(Lines(o) \subseteq ActiveLines(o))),
             \/ s = "COMMITTED" /\ committed' = committed \union {o} /\ released' = released
             \/ s = "RELEASED" /\ released' = released \union {o} /\ committed' = committed
      PROVE  FlagsTrue'
  <2>1. /\ \A n \in Orders \ {o} : resv'[n] = resv[n]
        /\ \A p \in Lines(o) : resv'[o][p] = s
    BY <1>4, SetStatusEffect, LinesAreProducts
  <2>2. ~staleSettle' => /\ ~staleSettle
                         /\ \A p \in Lines(o) : resv[o][p] = "ACTIVE"
    BY <1>4 DEF ActiveLines
  <2>3. ~staleSettle' => o \notin committed /\ o \notin released
    BY <1>4, <2>2 DEF FlagsTrue
  <2>4. QED
    BY <1>1, <1>4, <2>1, <2>2, <2>3 DEF FlagsTrue
<1>5. QED
  BY <1>2, <1>3, <1>4, StatusStep

\* An order is recorded both as sold and as given back only after a commit or a
\* release wrote from a stale read.
THEOREM SoldOrReleased == Spec => []SoldXorReleased
<1>1. Init => FlagsTrue
  BY DEF Init, FlagsTrue
<1>2. FlagsTrue => SoldXorReleased
  BY DEF FlagsTrue, SoldXorReleased
<1>3. QED
  BY <1>1, <1>2, FlagsStep, CallsInit, CallsStep, TypeCorrect, PTL DEF Spec

\* A settled line stays settled the same way unless a stale write turns it over.
THEOREM Settled == Spec => SettledForGood
<1> DEFINE Keeps == \A o \in Orders, p \in Products :
               resv[o][p] \in {"COMMITTED", "RELEASED"} /\ resv'[o][p] # resv[o][p]
                   => staleSettle'
<1>1. TypeOK /\ Calls /\ [Next]_vars => Keeps
  <2> SUFFICES ASSUME TypeOK, Calls, [Next]_vars,
                      NEW n \in Orders, NEW p \in Products,
                      resv[n][p] \in {"COMMITTED", "RELEASED"},
                      resv'[n][p] # resv[n][p]
               PROVE  staleSettle'
    OBVIOUS
  <2>1. ASSUME NEW o \in Orders, NEW s, SetStatus(o, Lines(o), s)
        PROVE  n = o /\ p \in Lines(o)
    BY <2>1, SetStatusEffect
  <2>2. CASE UNCHANGED <<resv, committed, released, staleSettle>>
    BY <2>2
  <2>3. ASSUME NEW o \in Orders, SetStatus(o, Lines(o), "ACTIVE"),
               \A q \in Lines(o) : resv[o][q] = "NONE"
        PROVE  staleSettle'
    BY <2>1, <2>3
  <2>4. ASSUME NEW o \in Orders,
               SetStatus(o, Lines(o), "COMMITTED") \/ SetStatus(o, Lines(o), "RELEASED"),
               staleSettle' = (staleSettle \/ ~(Lines(o) \subseteq ActiveLines(o)))
        PROVE  staleSettle'
    <3>1. n = o /\ p \in Lines(o)
      BY <2>1, <2>4
    <3>2. p \notin ActiveLines(o)
      BY <3>1 DEF ActiveLines
    <3>3. QED
      BY <2>4, <3>1, <3>2
  <2>5. QED
    BY <2>2, <2>3, <2>4, StatusStep
<1>2. TypeOK /\ Calls /\ [Next]_vars => [Keeps]_vars
  BY <1>1
<1>3. QED
  BY <1>2, CallsInit, CallsStep, TypeCorrect, PTL DEF Spec, SettledForGood

-----------------------------------------------------------------------------
(* Overselling.                                                            *)

\* While no reserve took checked units away from another, the lines an open
\* reserve has checked are still there.
Covered ==
    ~staleReserve =>
        /\ \A p \in Products : availableStock[p] >= 0
        /\ \A c \in Connections : conn[c].op = "reserve" =>
               \A p \in conn[c].lines :
                   availableStock[p] >= Qty[conn[c].order][p]

\* A step that takes no stock and checks none keeps what was checked.
LEMMA CoveredKept ==
    ASSUME TypeOK, Covered, staleReserve' = staleReserve,
           \A p \in Products :
               availableStock'[p] \in Int /\ availableStock'[p] >= availableStock[p],
           \A d \in Connections : conn'[d].op = "reserve" =>
               /\ conn[d].op = "reserve"
               /\ conn'[d].order = conn[d].order
               /\ conn'[d].lines = conn[d].lines
    PROVE  Covered'
<1> SUFFICES ASSUME ~staleReserve'
             PROVE  /\ \A p \in Products : availableStock'[p] >= 0
                    /\ \A c \in Connections : conn'[c].op = "reserve" =>
                           \A p \in conn'[c].lines :
                               availableStock'[p] >= Qty[conn'[c].order][p]
  BY DEF Covered
<1>1. \A p \in Products : availableStock[p] \in Int
  BY DEF TypeOK
<1>2. \A p \in Products : availableStock'[p] >= 0
  BY <1>1 DEF Covered
<1>3. ASSUME NEW c \in Connections, conn'[c].op = "reserve", NEW p \in conn'[c].lines
      PROVE  availableStock'[p] >= Qty[conn'[c].order][p]
  <2>1. /\ conn[c].op = "reserve" /\ conn'[c].order = conn[c].order
        /\ p \in conn[c].lines
    BY <1>3
  <2>2. conn[c].order \in Orders /\ p \in Products
    BY <2>1, OpenIsOpen
  <2>3. Qty[conn[c].order][p] \in Int
    BY <2>2, QtyAssumption
  <2>4. availableStock[p] >= Qty[conn[c].order][p]
    BY <2>1 DEF Covered
  <2>5. QED
    BY <1>1, <2>1, <2>2, <2>3, <2>4
<1>4. QED
  BY <1>2, <1>3

LEMMA CoveredStep == TypeOK /\ TypeOK' /\ Covered /\ [Next]_vars => Covered'
<1> SUFFICES ASSUME TypeOK, TypeOK', Covered, [Next]_vars
             PROVE  Covered'
  OBVIOUS
<1>1. /\ availableStock \in [Products -> Int] /\ availableStock' \in [Products -> Int]
      /\ \A o \in Orders, p \in Products : Qty[o][p] \in Nat
  BY QtyAssumption DEF TypeOK
<1>2. CASE UNCHANGED vars
  BY <1>1, <1>2, CoveredKept DEF vars, counters, history
<1>3. ASSUME NEW c \in Connections, NEW o \in Orders,
             \/ ReserveBegin(c, o) \/ CommitRead(c, o)
             \/ ReleaseRead(c, o) \/ ReturnBegin(c, o)
      PROVE  Covered'
  <2>1. availableStock' = availableStock /\ staleReserve' = staleReserve
    BY <1>3 DEF ReserveBegin, CommitRead, ReleaseRead, ReturnBegin, counters, history
  <2>2. \A d \in Connections \ {c} : conn'[d] = conn[d]
    BY <1>3, OpenEffect DEF ReserveBegin, CommitRead, ReleaseRead, ReturnBegin
  <2>3. conn'[c].op = "reserve" => conn'[c].lines = {}
    BY <1>3, OpenEffect DEF ReserveBegin, CommitRead, ReleaseRead, ReturnBegin
  <2>4. QED
    BY <2>1, <2>2, <2>3 DEF Covered
<1>4. ASSUME NEW c \in Connections, NEW p \in Products, ReserveLine(c, p)
      PROVE  Covered'
  <2>1. /\ conn[c].op = "reserve" /\ conn[c] \in OpenCall
        /\ availableStock' = availableStock /\ staleReserve' = staleReserve
        /\ availableStock[p] >= Qty[conn[c].order][p]
    BY <1>4, OpenIsOpen DEF ReserveLine, counters, history
  <2>2. /\ conn'[c].order = conn[c].order /\ conn'[c].lines = conn[c].lines \union {p}
        /\ \A d \in Connections \ {c} : conn'[d] = conn[d]
    BY <1>4, <2>1 DEF ReserveLine, TypeOK, OpenCall
  <2>3. QED
    BY <2>1, <2>2 DEF Covered
<1>5. ASSUME NEW c \in Connections,
             Abort(c) \/ \E p \in Products : ReserveReject(c, p)
      PROVE  Covered'
  <2>1. /\ conn'[c].op = "idle"
        /\ \A d \in Connections \ {c} : conn'[d] = conn[d]
    BY <1>5, CloseEffect DEF Abort, ReserveReject
  <2>2. availableStock' = availableStock /\ staleReserve' = staleReserve
    BY <1>5 DEF Abort, ReserveReject, counters, history
  <2>3. QED
    BY <2>1, <2>2 DEF Covered
<1>6. ASSUME NEW c \in Connections, CommitWrite(c) \/ ReleaseWrite(c)
      PROVE  Covered'
  <2>1. /\ conn'[c].op = "idle"
        /\ \A d \in Connections \ {c} : conn'[d] = conn[d]
    BY <1>6, CloseEffect DEF CommitWrite, ReleaseWrite
  <2>2. staleReserve' = staleReserve
    BY <1>6 DEF CommitWrite, ReleaseWrite
  <2>3. conn[c].order \in Orders
    BY <1>6, OpenIsOpen DEF CommitWrite, ReleaseWrite
  <2>4. \A p \in Products : availableStock'[p] >= availableStock[p]
    BY <1>1, <1>6, <2>3 DEF CommitWrite, ReleaseWrite, Add
  <2>5. QED
    BY <1>1, <2>1, <2>2, <2>4, CoveredKept
<1>7. ASSUME NEW c \in Connections, NEW q \in Products, ReturnLine(c, q)
      PROVE  Covered'
  <2>1. conn[c].order \in Orders /\ conn[c] \in OpenCall /\ conn[c].op = "return"
    BY <1>7, OpenIsOpen DEF ReturnLine
  <2>2. /\ conn'[c].op \in {"idle", "return"}
        /\ \A d \in Connections \ {c} : conn'[d] = conn[d]
    BY <1>7, <2>1, CloseEffect DEF ReturnLine, TypeOK, OpenCall
  <2>3. staleReserve' = staleReserve
    BY <1>7 DEF ReturnLine
  <2>4. \A p \in Products : availableStock'[p] >= availableStock[p]
    BY <1>1, <1>7, <2>1 DEF ReturnLine, Add
  <2>5. QED
    BY <1>1, <2>2, <2>3, <2>4, CoveredKept
<1>8. ASSUME NEW c \in Connections, ReserveWrite(c)
      PROVE  Covered'
  <2> DEFINE o == conn[c].order
             S == conn[c].lines
  <2>1. o \in Orders /\ conn[c].op = "reserve" /\ S \in SUBSET Products
    BY <1>8, OpenIsOpen DEF ReserveWrite
  <2>2. /\ conn'[c].op = "idle"
        /\ \A d \in Connections \ {c} : conn'[d] = conn[d]
    BY <1>8, CloseEffect DEF ReserveWrite
  <2>3. staleReserve' = (staleReserve \/ \E d \in Connections \ {c} :
                             conn[d].op = "reserve" /\ conn[d].lines \cap S # {})
    BY <1>8 DEF ReserveWrite
  <2>4. \A p \in Products : availableStock'[p] =
            IF p \in S THEN availableStock[p] - Qty[o][p] ELSE availableStock[p]
    BY <1>8 DEF ReserveWrite, Sub
  <2>5. ~staleReserve' => \A p \in Products : availableStock'[p] >= 0
    <3> SUFFICES ASSUME ~staleReserve', NEW p \in Products
                 PROVE  availableStock'[p] >= 0
      OBVIOUS
    <3>1. ~staleReserve
      BY <2>3
    <3>2. CASE p \in S
      <4>1. availableStock[p] >= Qty[o][p]
        BY <2>1, <3>1, <3>2 DEF Covered
      <4>2. QED
        BY <1>1, <2>1, <2>4, <3>2, <4>1
    <3>3. CASE p \notin S
      BY <2>4, <3>1, <3>3 DEF Covered
    <3>4. QED
      BY <3>2, <3>3
  <2>6. ASSUME ~staleReserve', NEW d \in Connections, conn'[d].op = "reserve",
               NEW p \in conn'[d].lines
        PROVE  availableStock'[p] >= Qty[conn'[d].order][p]
    <3>1. d # c /\ conn'[d] = conn[d] /\ p \in Products
      BY <2>2, <2>6, OpenIsOpen
    <3>2. ~staleReserve /\ p \notin S
      BY <2>3, <2>6, <3>1
    <3>3. availableStock'[p] = availableStock[p]
      BY <2>4, <3>1, <3>2
    <3>4. QED
      BY <2>6, <3>1, <3>2, <3>3 DEF Covered
  <2>7. QED
    BY <2>5, <2>6 DEF Covered
<1>9. QED
  BY <1>2, <1>3, <1>4, <1>5, <1>6, <1>7, <1>8 DEF Next

\* The shop promises units it does not have only when two reserves of a product
\* overlap between check and write: commits, releases, returns and aborts in
\* between never bring it about, for any number of concurrent calls.
THEOREM Oversell == Spec => []OversellOnlyFromOverlap
<1>1. Init => Covered
  <2>1. Init => \A c \in Connections : conn[c].op = "idle"
    BY DEF Init, Idle
  <2>2. QED
    BY <2>1, QtyAssumption DEF Init, Covered
<1>2. Covered => OversellOnlyFromOverlap
  BY DEF Covered, OversellOnlyFromOverlap
<1>3. QED
  BY <1>1, <1>2, CoveredStep, TypeCorrect, PTL DEF Spec

\* A manual adjustment is of whole units.
UpkeepAssumption == Amounts \subseteq Int

-----------------------------------------------------------------------------
(* What the clerks and the job have open.                                  *)

AdjustCall == [op : {"adjust"}, product : Products, quantity : Int, cur : Int, res : Int]
TillCommitCall == [op : {"commit"}, order : Orders]
Reading == [cur : Int, res : Int]

\* A deduction has read the rows it changed, and a row at a time.
IsDeduct(r) ==
    /\ r = [op |-> "deduct", order |-> r.order, seen |-> r.seen, staged |-> r.staged]
    /\ r.order \in Orders
    /\ r.staged \subseteq DOMAIN r.seen
    /\ DOMAIN r.seen \subseteq Products
    /\ \A p \in DOMAIN r.seen : r.seen[p] \in Reading

IsClerkCall(r) == r = Idle \/ r \in AdjustCall \/ r \in TillCommitCall \/ IsDeduct(r)

ClerksOpen ==
    /\ clerk = [t \in Clerks |-> clerk[t]]
    /\ \A t \in Clerks : IsClerkCall(clerk[t])

JobOpen ==
    /\ job.todo \subseteq Products
    /\ job.pc \in {"idle", "expire"} => job.todo = {}
    /\ job.pc \in {"read", "write"} => job.item \in Products /\ job.sum \in Int
    /\ job.pc = "write" => job.cur \in Int

UpkeepType ==
    /\ TypeOK
    /\ ClerksOpen
    /\ JobOpen
    /\ moved \in [Products -> Int]
    /\ overwrote \in BOOLEAN /\ clamped \in BOOLEAN /\ lostRecount \in BOOLEAN

\* A call is told apart by its op.
LEMMA ClerkCases ==
    ASSUME ClerksOpen, NEW t \in Clerks
    PROVE  /\ clerk[t].op = "adjust" => clerk[t] \in AdjustCall
           /\ clerk[t].op = "commit" => clerk[t] \in TillCommitCall
           /\ clerk[t].op = "deduct" => IsDeduct(clerk[t])
           /\ clerk[t] = Idle => clerk[t].op = "idle"
<1>1. IsClerkCall(clerk[t])
  BY DEF ClerksOpen
<1>2. clerk[t] = Idle => clerk[t].op = "idle"
  BY DEF Idle
<1>3. clerk[t] \in AdjustCall => clerk[t].op = "adjust"
  BY DEF AdjustCall
<1>4. clerk[t] \in TillCommitCall => clerk[t].op = "commit"
  BY DEF TillCommitCall
<1>5. IsDeduct(clerk[t]) => clerk[t].op = "deduct"
  BY DEF IsDeduct
<1>6. QED
  BY <1>1, <1>2, <1>3, <1>4, <1>5 DEF IsClerkCall

\* A clerk's step leaves the calls of the others alone.
LEMMA ClerkMoves ==
    ASSUME ClerksOpen, NEW t \in Clerks, NEW r, IsClerkCall(r),
           clerk' = [clerk EXCEPT ![t] = r]
    PROVE  /\ ClerksOpen' /\ clerk'[t] = r
           /\ \A u \in Clerks \ {t} : clerk'[u] = clerk[u]
<1>1. /\ clerk' = [u \in Clerks |-> IF u = t THEN r ELSE clerk[u]]
  BY DEF ClerksOpen
<1>2. clerk'[t] = r /\ \A u \in Clerks \ {t} : clerk'[u] = clerk[u]
  BY <1>1
<1>3. \A u \in Clerks : IsClerkCall(clerk'[u])
  BY <1>2 DEF ClerksOpen
<1>4. ClerksOpen'
  BY <1>1, <1>2, <1>3 DEF ClerksOpen
<1>5. QED
  BY <1>2, <1>4

LEMMA FinishMoves ==
    ASSUME ClerksOpen, NEW t \in Clerks, Finish(t)
    PROVE  /\ ClerksOpen' /\ clerk'[t].op = "idle"
           /\ \A u \in Clerks \ {t} : clerk'[u] = clerk[u]
<1>1. IsClerkCall(Idle)
  BY DEF IsClerkCall
<1>2. ClerksOpen' /\ clerk'[t] = Idle /\ \A u \in Clerks \ {t} : clerk'[u] = clerk[u]
  BY <1>1, ClerkMoves DEF Finish
<1>3. QED
  BY <1>2 DEF Idle

\* What a read of one more line, and an update of it, make of a deduction.
LEMMA DeductReads ==
    ASSUME UpkeepType, NEW t \in Clerks, NEW p \in Products, DeductRead(t, p)
    PROVE  /\ ClerksOpen' /\ clerk[t].op = "deduct" /\ clerk'[t].op = "deduct"
           /\ clerk'[t].order = clerk[t].order
           /\ clerk'[t].staged = clerk[t].staged
           /\ \A q \in clerk[t].staged : clerk'[t].seen[q] = clerk[t].seen[q]
           /\ \A u \in Clerks \ {t} : clerk'[u] = clerk[u]
<1> DEFINE r == clerk[t]
           now == [cur |-> currentStock[p], res |-> reservedStock[p]]
           more == [q \in r.staged \union {p} |-> IF q = p THEN now ELSE r.seen[q]]
           r2 == [op |-> "deduct", order |-> r.order, seen |-> more, staged |-> r.staged]
<1>1. /\ r.op = "deduct" /\ IsDeduct(r) /\ DOMAIN r.seen = r.staged
  BY ClerkCases DEF DeductRead, UpkeepType
<1>2. now \in Reading
  BY DEF UpkeepType, TypeOK, Reading
<1>3. DOMAIN more = r.staged \union {p}
  OBVIOUS
<1>4. p \notin r.staged => \A q \in r.staged : more[q] = r.seen[q]
  OBVIOUS
<1>5. p \notin r.staged /\ more[p] = now
  BY DEF DeductRead
<1>6. clerk' = [clerk EXCEPT ![t].seen = more]
  BY DEF DeductRead
<1> HIDE DEF more, now
<1>7. clerk' = [clerk EXCEPT ![t] = r2]
  <2>1. r = [op |-> "deduct", order |-> r.order, seen |-> r.seen, staged |-> r.staged]
    BY <1>1 DEF IsDeduct
  <2>2. [r EXCEPT !.seen = more] = r2
    BY <2>1
  <2>3. QED
    BY <1>6, <2>2
<1>8. IsDeduct(r2)
  BY <1>1, <1>2, <1>3, <1>4, <1>5 DEF IsDeduct
<1>9. IsClerkCall(r2)
  BY <1>8 DEF IsClerkCall
<1>10. /\ ClerksOpen' /\ clerk'[t] = r2
       /\ \A u \in Clerks \ {t} : clerk'[u] = clerk[u]
  <2> HIDE DEF r2
  <2>1. QED
    BY <1>7, <1>9, ClerkMoves DEF UpkeepType
<1>11. QED
  BY <1>1, <1>4, <1>5, <1>10

LEMMA DeductStages ==
    ASSUME UpkeepType, NEW t \in Clerks, NEW p \in Products, DeductUpdate(t, p)
    PROVE  /\ ClerksOpen' /\ clerk[t].op = "deduct" /\ clerk'[t].op = "deduct"
           /\ clerk'[t].order = clerk[t].order
           /\ clerk'[t].staged = clerk[t].staged \union {p}
           /\ clerk'[t].seen = clerk[t].seen
           /\ \A u \in Clerks \ {t} : clerk'[u] = clerk[u]
<1> DEFINE r == clerk[t]
           S == r.staged \union {p}
           r2 == [op |-> "deduct", order |-> r.order, seen |-> r.seen, staged |-> S]
<1>1. r.op = "deduct" /\ IsDeduct(r) /\ p \in DOMAIN r.seen
  BY ClerkCases DEF DeductUpdate, UpkeepType
<1>2. clerk' = [clerk EXCEPT ![t].staged = S]
  BY DEF DeductUpdate
<1>3. clerk' = [clerk EXCEPT ![t] = r2]
  <2>1. r = [op |-> "deduct", order |-> r.order, seen |-> r.seen, staged |-> r.staged]
    BY <1>1 DEF IsDeduct
  <2> HIDE DEF S
  <2>2. [r EXCEPT !.staged = S] = r2
    BY <2>1
  <2>3. QED
    BY <1>2, <2>2
<1>4. IsDeduct(r2)
  BY <1>1 DEF IsDeduct
<1>5. IsClerkCall(r2)
  BY <1>4 DEF IsClerkCall
<1>6. /\ ClerksOpen' /\ clerk'[t] = r2
      /\ \A u \in Clerks \ {t} : clerk'[u] = clerk[u]
  <2> HIDE DEF r2
  <2>1. QED
    BY <1>3, <1>5, ClerkMoves DEF UpkeepType
<1>7. QED
  BY <1>1, <1>6

-----------------------------------------------------------------------------
(* Type correctness, and what the open reservation calls have in common.   *)

\* The sums of quantities are whole.
LEMMA HeldType ==
    ASSUME NEW p \in Products
    PROVE  Held(p) \in Nat /\ Sold(p) \in Nat /\ Returned(p) \in Nat
<1>1. /\ With(p, "ACTIVE") \in SUBSET Orders
      /\ With(p, "COMMITTED") \in SUBSET Orders
      /\ GivenBack(p) \in SUBSET Orders
  BY DEF With, GivenBack
<1>2. QED
  BY <1>1, UnitsFinite DEF Held, Sold, SumQuantity, Returned

LEMMA AvailableType ==
    ASSUME NEW n \in Int, NEW m \in Int
    PROVE  NotBelowZero(n) \in Int /\ AvailableFor(n, m) \in Int
BY DEF NotBelowZero, AvailableFor

\* What the upkeep does not write keeps its type and its calls.
LEMMA UpkeepKeeps ==
    ASSUME TypeOK, Calls, Upkeep,
           currentStock' \in [Products -> Int],
           reservedStock' \in [Products -> Int],
           availableStock' \in [Products -> Int]
    PROVE  TypeOK' /\ Calls'
<1>1. TypeOK'
  BY DEF Upkeep, TypeOK, history
<1>2. Calls'
  BY DEF Upkeep, Calls, ReservesFresh, OneCall, SettlesWhole, ReturnsRecorded,
         OrderLinesTogether, history
<1>3. QED
  BY <1>1, <1>2

\* Nothing to do with the reservations changed.
LEMMA VarsKeep ==
    ASSUME TypeOK, Calls, UNCHANGED vars
    PROVE  TypeOK' /\ Calls'
BY TypeStep, CallsStep

\* The clerks' steps.
LEMMA ClerkTypes ==
    ASSUME UpkeepAssumption, UpkeepType, Calls, NEW t \in Clerks,
           \/ \E p \in Products, q \in Amounts : AdjustRead(t, p, q)
           \/ AdjustWrite(t)
           \/ \E o \in Orders : TillCheck(t, o)
           \/ \E p \in Products : DeductRead(t, p) \/ DeductUpdate(t, p)
           \/ DeductCommit(t)
           \/ ClerkAbort(t)
    PROVE  UpkeepType' /\ Calls'
<1>1. /\ TypeOK /\ ClerksOpen /\ JobOpen /\ moved \in [Products -> Int]
      /\ overwrote \in BOOLEAN /\ clamped \in BOOLEAN /\ lostRecount \in BOOLEAN
      /\ currentStock \in [Products -> Int] /\ reservedStock \in [Products -> Int]
      /\ availableStock \in [Products -> Int]
  BY DEF UpkeepType, TypeOK
<1>2. job' = job => JobOpen'
  BY <1>1 DEF JobOpen
<1>3. ASSUME Upkeep, UNCHANGED counters
      PROVE  TypeOK' /\ Calls'
  BY <1>1, <1>3, UpkeepKeeps DEF counters
<1>4. ASSUME NEW p \in Products, NEW q \in Amounts, AdjustRead(t, p, q)
      PROVE  UpkeepType' /\ Calls'
  <2> DEFINE r == [op |-> "adjust", product |-> p, quantity |-> q,
                   cur |-> currentStock[p], res |-> reservedStock[p]]
  <2>1. r \in AdjustCall
    BY <1>1 DEF AdjustCall, UpkeepAssumption
  <2>2. IsClerkCall(r) /\ clerk' = [clerk EXCEPT ![t] = r]
    BY <1>4, <2>1 DEF IsClerkCall, AdjustRead
  <2> HIDE DEF r
  <2>3. ClerksOpen'
    BY <1>1, <2>2, ClerkMoves
  <2>4. Upkeep /\ UNCHANGED <<counters, job, moved, overwrote, clamped, lostRecount>>
    BY <1>4 DEF AdjustRead
  <2>5. QED
    BY <1>1, <1>2, <1>3, <2>3, <2>4 DEF UpkeepType
<1>5. ASSUME AdjustWrite(t)
      PROVE  UpkeepType' /\ Calls'
  <2> DEFINE p == clerk[t].product
             new == clerk[t].cur + clerk[t].quantity
  <2>1. clerk[t] \in AdjustCall
    BY <1>1, <1>5, ClerkCases DEF AdjustWrite
  <2>2. /\ p \in Products /\ new \in Int /\ clerk[t].res \in Int
        /\ clerk[t].quantity \in Int
    BY <2>1 DEF AdjustCall
  <2>3. /\ currentStock' = [currentStock EXCEPT ![p] = new]
        /\ availableStock' = [availableStock EXCEPT ![p] = AvailableFor(new, clerk[t].res)]
        /\ moved' = [moved EXCEPT ![p] = @ + clerk[t].quantity]
        /\ reservedStock' = reservedStock /\ job' = job /\ lostRecount' = lostRecount
        /\ overwrote' \in BOOLEAN /\ clamped' \in BOOLEAN
        /\ Upkeep /\ Finish(t)
    BY <1>5 DEF AdjustWrite
  <2>4. AvailableFor(new, clerk[t].res) \in Int
    BY <2>2, AvailableType
  <2> HIDE DEF p, new
  <2>5. /\ currentStock' \in [Products -> Int] /\ availableStock' \in [Products -> Int]
        /\ moved' \in [Products -> Int] /\ reservedStock' \in [Products -> Int]
    BY <1>1, <2>2, <2>3, <2>4
  <2>6. TypeOK' /\ Calls'
    BY <1>1, <2>3, <2>5, UpkeepKeeps
  <2>7. ClerksOpen'
    BY <1>1, <2>3, FinishMoves
  <2>8. QED
    BY <1>1, <1>2, <2>3, <2>5, <2>6, <2>7 DEF UpkeepType
<1>6. ASSUME NEW o \in Orders, TillCheck(t, o)
      PROVE  UpkeepType' /\ Calls'
  <2> DEFINE r == [op |-> "commit", order |-> o]
             d == [op |-> "deduct", order |-> o, seen |-> << >>, staged |-> {}]
  <2>1. r \in TillCommitCall
    BY DEF TillCommitCall
  <2>2. IsDeduct(d)
    BY DEF IsDeduct
  <2>3. IsClerkCall(r) /\ IsClerkCall(d)
    BY <2>1, <2>2 DEF IsClerkCall
  <2>4. clerk' = [clerk EXCEPT ![t] = r] \/ clerk' = [clerk EXCEPT ![t] = d]
    BY <1>6 DEF TillCheck
  <2> HIDE DEF r, d
  <2>5. ClerksOpen'
    BY <1>1, <2>3, <2>4, ClerkMoves
  <2>6. Upkeep /\ UNCHANGED <<counters, job, moved, overwrote, clamped, lostRecount>>
    BY <1>6 DEF TillCheck, upkeepHistory
  <2>7. QED
    BY <1>1, <1>2, <1>3, <2>5, <2>6 DEF UpkeepType
<1>7. ASSUME NEW p \in Products, DeductRead(t, p)
      PROVE  UpkeepType' /\ Calls'
  <2>1. ClerksOpen'
    BY <1>7, DeductReads
  <2>2. Upkeep /\ UNCHANGED <<counters, job, moved, overwrote, clamped, lostRecount>>
    BY <1>7 DEF DeductRead, upkeepHistory
  <2>3. QED
    BY <1>1, <1>2, <1>3, <2>1, <2>2 DEF UpkeepType
<1>8. ASSUME NEW p \in Products, DeductUpdate(t, p)
      PROVE  UpkeepType' /\ Calls'
  <2>1. ClerksOpen'
    BY <1>8, DeductStages
  <2>2. /\ Upkeep /\ UNCHANGED <<counters, job, moved, clamped, lostRecount>>
        /\ overwrote' \in BOOLEAN
    BY <1>8 DEF DeductUpdate
  <2>3. QED
    BY <1>1, <1>2, <1>3, <2>1, <2>2 DEF UpkeepType
<1>9. ASSUME DeductCommit(t)
      PROVE  UpkeepType' /\ Calls'
  <2> DEFINE o == clerk[t].order
             S == clerk[t].staged
             left(p) == clerk[t].seen[p].cur - Qty[o][p]
             new(p) == NotBelowZero(left(p))
             avail(p) == AvailableFor(new(p), clerk[t].seen[p].res)
  <2>1. IsDeduct(clerk[t])
    BY <1>1, <1>9, ClerkCases DEF DeductCommit
  <2>2. o \in Orders /\ S \subseteq Products
    BY <2>1 DEF IsDeduct
  <2>3. \A p \in S : left(p) \in Int /\ clerk[t].seen[p].res \in Int
    BY <2>1, <2>2, QtyAssumption DEF IsDeduct, Reading
  <2>4. \A p \in S : new(p) \in Int
    BY <2>3, AvailableType
  <2>5. \A p \in S : avail(p) \in Int
    BY <2>3, <2>4, AvailableType
  <2>6. /\ currentStock' = [p \in Products |-> IF p \in S THEN new(p) ELSE currentStock[p]]
        /\ availableStock' = [p \in Products |-> IF p \in S THEN avail(p)
                                                 ELSE availableStock[p]]
        /\ moved' = Sub(moved, S, Qty[o])
        /\ committed' = committed \union {o} /\ Finish(t)
        /\ UNCHANGED <<reservedStock, resv, released, conn, history, job, overwrote,
                       lostRecount>>
        /\ clamped' \in BOOLEAN
    BY <1>9 DEF DeductCommit
  <2>7. moved' \in [Products -> Int]
    BY <1>1, <2>2, <2>6, CountersStayInt
  <2> HIDE DEF S, new, left, avail, o
  <2>8. currentStock' \in [Products -> Int] /\ availableStock' \in [Products -> Int]
    BY <1>1, <2>4, <2>5, <2>6
  <2>9. TypeOK'
    BY <1>1, <2>2, <2>6, <2>8 DEF TypeOK, history
  <2>10. Calls'
    BY <2>6 DEF Calls, ReservesFresh, OneCall, SettlesWhole, ReturnsRecorded,
                OrderLinesTogether, history
  <2>11. ClerksOpen'
    BY <1>1, <2>6, FinishMoves
  <2>12. QED
    BY <1>1, <1>2, <2>6, <2>7, <2>9, <2>10, <2>11 DEF UpkeepType
<1>10. ASSUME ClerkAbort(t)
       PROVE  UpkeepType' /\ Calls'
  <2>1. ClerksOpen'
    BY <1>1, <1>10, FinishMoves DEF ClerkAbort
  <2>2. Upkeep /\ UNCHANGED <<counters, job, moved, overwrote, clamped, lostRecount>>
    BY <1>10 DEF ClerkAbort, upkeepHistory
  <2>3. QED
    BY <1>1, <1>2, <1>3, <2>1, <2>2 DEF UpkeepType
<1>11. QED
  BY <1>4, <1>5, <1>6, <1>7, <1>8, <1>9, <1>10

\* A step of the reservations, whether a customer's or the till's.
LEMMA ReservationTypes ==
    ASSUME UpkeepType, Calls,
           ReservationStep \/ \E t \in Clerks : TillCommit(t)
    PROVE  /\ UpkeepType' /\ Calls'
           /\ [Next]_vars /\ RespectsLocks
           /\ UNCHANGED <<job, upkeepHistory>>
           /\ \A u \in Clerks : clerk'[u] = clerk[u] \/ clerk'[u].op = "idle"
<1>1. TypeOK /\ ClerksOpen /\ JobOpen
  BY DEF UpkeepType
<1>2. CASE ReservationStep
  <2>1. /\ [Next]_vars /\ RespectsLocks
        /\ UNCHANGED <<clerk, job, upkeepHistory>>
    BY <1>2 DEF ReservationStep, upkeepVars
  <2>2. TypeOK' /\ Calls'
    BY <1>1, <2>1, TypeStep, CallsStep
  <2>3. ClerksOpen' /\ JobOpen'
    BY <1>1, <2>1 DEF ClerksOpen, JobOpen
  <2>4. QED
    BY <2>1, <2>2, <2>3 DEF UpkeepType, upkeepHistory
<1>3. ASSUME NEW t \in Clerks, TillCommit(t)
      PROVE  /\ UpkeepType' /\ Calls'
             /\ [Next]_vars /\ RespectsLocks
             /\ UNCHANGED <<job, upkeepHistory>>
             /\ \A u \in Clerks : clerk'[u] = clerk[u] \/ clerk'[u].op = "idle"
  <2> DEFINE o == clerk[t].order
  <2>1. o \in Orders
    BY <1>1, <1>3, ClerkCases DEF TillCommit, TillCommitCall
  <2>2. /\ UNCHANGED vars \/ \E c \in Connections : CommitRead(c, o)
        /\ Finish(t) /\ UNCHANGED <<job, upkeepHistory>>
    BY <1>3 DEF TillCommit
  <2>3. [Next]_vars
    BY <2>1, <2>2 DEF Next
  <2>4. UNCHANGED counters
    BY <2>2 DEF CommitRead, vars
  <2>5. RespectsLocks
    BY <2>4 DEF RespectsLocks, counters
  <2>6. TypeOK' /\ Calls'
    BY <1>1, <2>3, TypeStep, CallsStep
  <2>7. /\ ClerksOpen'
        /\ \A u \in Clerks : clerk'[u] = clerk[u] \/ clerk'[u].op = "idle"
    BY <1>1, <2>2, FinishMoves
  <2>8. JobOpen'
    BY <1>1, <2>2 DEF JobOpen
  <2>9. QED
    BY <2>2, <2>3, <2>5, <2>6, <2>7, <2>8 DEF UpkeepType, upkeepHistory
<1>4. QED
  BY <1>2, <1>3

\* The return of a sale that never had a reservation.
LEMMA WalkInTypes ==
    ASSUME UpkeepType, Calls, NEW c \in Connections, NEW o \in Orders, WalkInReturn(c, o)
    PROVE  UpkeepType' /\ Calls'
<1>1. /\ Open(c, "return", o, {}) /\ returned[o] = {}
      /\ \A d \in Connections : conn[d].op = "return" => conn[d].order # o
      /\ UNCHANGED <<counters, resv, committed, released, history, upkeepVars>>
  BY DEF WalkInReturn
<1>2. conn' \in [Connections -> OpenCall \union {Idle}]
  BY <1>1, OpenType DEF UpkeepType
<1>3. TypeOK'
  BY <1>1, <1>2 DEF UpkeepType, TypeOK, counters, history
<1>4. /\ conn'[c].op = "return" /\ conn'[c].order = o /\ conn'[c].lines = {}
      /\ \A d \in Connections \ {c} : conn'[d] = conn[d]
  BY <1>1, OpenEffect DEF UpkeepType
<1>5. OneCall("return")' /\ ReturnsRecorded'
  <2>1. OneCall("return")'
    BY <1>1, <1>4 DEF Calls, OneCall
  <2>2. returned' = returned
    BY <1>1 DEF history
  <2>3. ReturnsRecorded'
    BY <1>1, <1>4, <2>2 DEF Calls, ReturnsRecorded
  <2>4. QED
    BY <2>1, <2>3
<1>6. OneCall("reserve")' /\ SettlesWhole' /\ ReservesFresh' /\ OrderLinesTogether'
  BY <1>1, <1>4 DEF Calls, OneCall, SettlesWhole, ReservesFresh, OrderLinesTogether
<1>7. ClerksOpen' /\ JobOpen'
  BY <1>1 DEF UpkeepType, ClerksOpen, JobOpen, upkeepVars
<1>8. QED
  BY <1>1, <1>3, <1>5, <1>6, <1>7 DEF UpkeepType, Calls, upkeepVars, upkeepHistory

\* What is left to recount is a set of products.
LEMMA RecountOpen ==
    ASSUME NEW rest \in SUBSET Products, job' = RecountNext(rest)
    PROVE  JobOpen' /\ job'.todo = rest
BY DEF RecountNext, JobIdle, JobOpen

\* The steps of the nightly job.
LEMMA JobTypes ==
    ASSUME UpkeepType, Calls, JobStep \/ JobCrash
    PROVE  UpkeepType' /\ Calls'
<1>1. /\ TypeOK /\ ClerksOpen /\ JobOpen /\ moved \in [Products -> Int]
      /\ overwrote \in BOOLEAN /\ clamped \in BOOLEAN /\ lostRecount \in BOOLEAN
      /\ currentStock \in [Products -> Int] /\ reservedStock \in [Products -> Int]
      /\ availableStock \in [Products -> Int]
  BY DEF UpkeepType, TypeOK
<1>2. clerk' = clerk => ClerksOpen'
  BY <1>1 DEF ClerksOpen
<1>3. CASE JobDrift
  <2>1. \A p \in Products : Repair(p) \in Int
    BY <1>1, AvailableType DEF Repair
  <2>2. /\ availableStock' = [p \in Products |-> Repair(p)]
        /\ job' = [pc |-> "expire", todo |-> {}, old |-> {o \in Orders : ActiveLines(o) # {}}]
        /\ UNCHANGED <<currentStock, reservedStock, clerk, moved, overwrote, lostRecount>>
        /\ clamped' \in BOOLEAN /\ Upkeep
    BY <1>3 DEF JobDrift
  <2>3. /\ availableStock' \in [Products -> Int] /\ currentStock' \in [Products -> Int]
        /\ reservedStock' \in [Products -> Int]
    BY <1>1, <2>1, <2>2
  <2>4. TypeOK' /\ Calls'
    BY <1>1, <2>2, <2>3, UpkeepKeeps
  <2>5. JobOpen'
    BY <2>2 DEF JobOpen
  <2>6. QED
    BY <1>1, <1>2, <2>2, <2>4, <2>5 DEF UpkeepType
<1>4. ASSUME NEW W \in SUBSET Orders, JobExpire(W)
      PROVE  UpkeepType' /\ Calls'
  <2>1. /\ resv' = [o \in Orders |-> [p \in Products |->
               IF o \in W /\ resv[o][p] = "ACTIVE" THEN "EXPIRED" ELSE resv[o][p]]]
        /\ job' = RecountNext(UNION {ActiveLines(o) : o \in W})
        /\ UNCHANGED <<counters, committed, released, conn, history, clerk, upkeepHistory>>
    BY <1>4 DEF JobExpire
  <2>2. resv' \in [Orders -> [Products -> ReservationStatus]]
    BY <1>1, <2>1 DEF TypeOK, ReservationStatus
  <2>3. TypeOK'
    BY <1>1, <2>1, <2>2 DEF TypeOK, counters, history
  <2>4. \A o \in Orders, p \in Products : (resv'[o][p] = "NONE") <=> (resv[o][p] = "NONE")
    BY <2>1
  <2>5. ReservesFresh' /\ SettlesWhole'
    <3>1. \A c \in Connections : conn[c].op \in {"reserve", "commit", "release", "return"} =>
              conn[c].order \in Orders /\ conn[c].lines \in SUBSET Products
      BY <1>1, OpenIsOpen
    <3>2. \A o \in Orders : Lines(o) \subseteq Products
      BY LinesAreProducts
    <3>3. ReservesFresh'
      BY <2>1, <2>4, <3>1, <3>2 DEF Calls, ReservesFresh
    <3>4. SettlesWhole'
      BY <2>1, <2>4, <3>1 DEF Calls, SettlesWhole
    <3>5. QED
      BY <3>3, <3>4
  <2>6. OrderLinesTogether'
    <3>1. \A o \in Orders : \A p \in Lines(o) : resv'[o][p] =
              IF o \in W /\ resv[o][p] = "ACTIVE" THEN "EXPIRED" ELSE resv[o][p]
      BY <2>1, LinesAreProducts
    <3>2. QED
      BY <3>1 DEF Calls, OrderLinesTogether
  <2>7. OneCall("reserve")' /\ OneCall("return")' /\ ReturnsRecorded'
    BY <2>1 DEF Calls, OneCall, ReturnsRecorded, history
  <2>8. UNION {ActiveLines(o) : o \in W} \in SUBSET Products
    BY LinesAreProducts DEF ActiveLines
  <2>9. JobOpen'
    BY <2>1, <2>8, RecountOpen
  <2>10. QED
    BY <1>1, <1>2, <2>1, <2>3, <2>5, <2>6, <2>7, <2>9 DEF UpkeepType, Calls, upkeepHistory
<1>5. ASSUME NEW p \in Products, JobSum(p)
      PROVE  UpkeepType' /\ Calls'
  <2>1. /\ job' = [pc |-> "read", todo |-> job.todo, item |-> p, sum |-> Held(p)]
        /\ UNCHANGED <<vars, clerk, upkeepHistory>>
    BY <1>5 DEF JobSum
  <2>2. Held(p) \in Int
    BY HeldType
  <2>3. JobOpen'
    BY <1>1, <2>1, <2>2 DEF JobOpen
  <2>4. TypeOK' /\ Calls'
    BY <1>1, <2>1, VarsKeep
  <2>5. QED
    BY <1>1, <1>2, <2>1, <2>3, <2>4 DEF UpkeepType, upkeepHistory
<1>6. CASE JobRead
  <2>1. /\ job.pc = "read"
        /\ job' = [pc |-> "write", todo |-> job.todo, item |-> job.item,
                    sum |-> job.sum, cur |-> currentStock[job.item]]
        /\ UNCHANGED <<vars, clerk, upkeepHistory>>
    BY <1>6 DEF JobRead
  <2>2. job.item \in Products /\ job.sum \in Int /\ currentStock[job.item] \in Int
    BY <1>1, <2>1 DEF JobOpen
  <2>3. JobOpen'
    BY <1>1, <2>1, <2>2 DEF JobOpen
  <2>4. TypeOK' /\ Calls'
    BY <1>1, <2>1, VarsKeep
  <2>5. QED
    BY <1>1, <1>2, <2>1, <2>3, <2>4 DEF UpkeepType, upkeepHistory
<1>7. CASE JobWrite
  <2> DEFINE p == job.item
  <2>1. p \in Products /\ job.sum \in Int /\ job.cur \in Int
    BY <1>1, <1>7 DEF JobWrite, JobOpen
  <2>2. AvailableFor(job.cur, job.sum) \in Int
    BY <2>1, AvailableType
  <2>3. /\ reservedStock' = [reservedStock EXCEPT ![p] = job.sum]
        /\ availableStock' = [availableStock EXCEPT ![p] = AvailableFor(job.cur, job.sum)]
        /\ job' = RecountNext(job.todo \ {p})
        /\ UNCHANGED <<currentStock, clerk, moved, lostRecount>> /\ Upkeep
        /\ overwrote' \in BOOLEAN /\ clamped' \in BOOLEAN
    BY <1>7 DEF JobWrite
  <2> HIDE DEF p
  <2>4. /\ reservedStock' \in [Products -> Int] /\ availableStock' \in [Products -> Int]
        /\ currentStock' \in [Products -> Int]
    BY <1>1, <2>1, <2>2, <2>3
  <2>5. TypeOK' /\ Calls'
    BY <1>1, <2>3, <2>4, UpkeepKeeps
  <2>6. job.todo \ {p} \in SUBSET Products
    BY <1>1 DEF JobOpen
  <2>7. JobOpen'
    BY <2>3, <2>6, RecountOpen
  <2>8. QED
    BY <1>1, <1>2, <2>3, <2>5, <2>7 DEF UpkeepType
<1>8. CASE JobCrash
  <2>1. /\ job' = JobIdle /\ lostRecount' \in BOOLEAN
        /\ UNCHANGED <<vars, clerk, moved, overwrote, clamped>>
    BY <1>8 DEF JobCrash
  <2>2. JobOpen'
    BY <2>1 DEF JobOpen, JobIdle
  <2>3. TypeOK' /\ Calls'
    BY <1>1, <2>1, VarsKeep
  <2>4. QED
    BY <1>1, <1>2, <2>1, <2>2, <2>3 DEF UpkeepType
<1>9. QED
  BY <1>3, <1>4, <1>5, <1>6, <1>7, <1>8 DEF JobStep

-----------------------------------------------------------------------------
(* Row locks: what a deduction read of the rows it changed stays current   *)
(* until it commits, and no two deductions change the same row.            *)

RowsApart ==
    \A t, u \in Clerks :
        t # u /\ clerk[t].op = "deduct" /\ clerk[u].op = "deduct"
            => clerk[t].staged \cap clerk[u].staged = {}

RowsCurrent ==
    ~overwrote =>
        \A t \in Clerks : clerk[t].op = "deduct" =>
            \A p \in clerk[t].staged : /\ clerk[t].seen[p].cur = currentStock[p]
                                       /\ clerk[t].seen[p].res = reservedStock[p]

Rows == RowsApart /\ RowsCurrent

\* A step that stages no row and respects the locks.
LEMMA RowsKept ==
    ASSUME Rows, ~overwrote' => ~overwrote,
           \A u \in Clerks : \/ clerk'[u] = clerk[u]
                             \/ clerk'[u].op # "deduct"
                             \/ clerk'[u].staged = {},
           \A u \in Clerks : clerk[u].op = "deduct" /\ clerk'[u] = clerk[u] =>
               \A p \in clerk[u].staged : /\ currentStock'[p] = currentStock[p]
                                          /\ reservedStock'[p] = reservedStock[p]
    PROVE  Rows'
<1>1. RowsApart'
  BY DEF Rows, RowsApart
<1>2. RowsCurrent'
  BY DEF Rows, RowsCurrent
<1>3. QED
  BY <1>1, <1>2 DEF Rows

LEMMA LockedRows ==
    ASSUME RespectsLocks
    PROVE  \A u \in Clerks : clerk[u].op = "deduct" =>
               \A p \in clerk[u].staged : /\ currentStock'[p] = currentStock[p]
                                          /\ reservedStock'[p] = reservedStock[p]
BY DEF RespectsLocks, Locked

\* A history flag that was set stays set.
LEMMA FlagsGrow ==
    ASSUME [UpkeepNext]_allVars
    PROVE  /\ overwrote => overwrote'
           /\ clamped => clamped'
           /\ lostRecount => lostRecount'
<1> DEFINE Grow == /\ overwrote => overwrote'
                   /\ clamped => clamped'
                   /\ lostRecount => lostRecount'
<1>1. ASSUME UNCHANGED allVars \/ ReservationStep
      PROVE  Grow
  BY <1>1 DEF allVars, ReservationStep, upkeepVars, upkeepHistory
<1>2. ASSUME NEW t \in Clerks,
             \/ \E p \in Products, q \in Amounts : AdjustRead(t, p, q)
             \/ \E o \in Orders : TillCheck(t, o)
             \/ TillCommit(t) \/ ClerkAbort(t)
             \/ \E p \in Products : DeductRead(t, p)
      PROVE  Grow
  <2>1. UNCHANGED <<overwrote, clamped, lostRecount>>
    BY <1>2 DEF AdjustRead, TillCheck, TillCommit, ClerkAbort, DeductRead, upkeepHistory
  <2>2. QED
    BY <2>1
<1>3. ASSUME NEW t \in Clerks, AdjustWrite(t)
      PROVE  Grow
  <2>1. lostRecount' = lostRecount
    BY <1>3 DEF AdjustWrite
  <2>2. overwrote => overwrote'
    BY <1>3, Zenon DEF AdjustWrite
  <2>3. clamped => clamped'
    BY <1>3, Zenon DEF AdjustWrite
  <2>4. QED
    BY <2>1, <2>2, <2>3
<1>4. ASSUME NEW t \in Clerks, NEW p \in Products, DeductUpdate(t, p)
      PROVE  Grow
  BY <1>4 DEF DeductUpdate
<1>5. ASSUME NEW t \in Clerks, DeductCommit(t)
      PROVE  Grow
  BY <1>5 DEF DeductCommit
<1>6. ASSUME NEW c \in Connections, NEW o \in Orders, WalkInReturn(c, o)
      PROVE  Grow
  BY <1>6 DEF WalkInReturn, upkeepVars, upkeepHistory
<1>7. ASSUME JobDrift
      PROVE  Grow
  BY <1>7 DEF JobDrift
<1>8. ASSUME JobWrite
      PROVE  Grow
  BY <1>8 DEF JobWrite
<1>9. ASSUME JobCrash
      PROVE  Grow
  BY <1>9 DEF JobCrash
<1>10. ASSUME \/ \E W \in SUBSET Orders : JobExpire(W)
              \/ \E p \in Products : JobSum(p)
              \/ JobRead
       PROVE  Grow
  <2>1. UNCHANGED <<overwrote, clamped, lostRecount>>
    BY <1>10 DEF JobExpire, JobSum, JobRead, upkeepHistory
  <2>2. QED
    BY <2>1
<1> HIDE DEF Grow
<1>11. Grow
  BY <1>1, <1>2, <1>3, <1>4, <1>5, <1>6, <1>7, <1>8, <1>9, <1>10, Zenon
     DEF UpkeepNext, ClerkStep, JobStep
<1>12. QED
  BY <1>11 DEF Grow

LEMMA RowsStep ==
    ASSUME UpkeepType, Calls, Rows, [UpkeepNext]_allVars
    PROVE  Rows'
<1>1. ClerksOpen
  BY DEF UpkeepType
<1>2. CASE UNCHANGED allVars
  <2>1. UNCHANGED <<clerk, currentStock, reservedStock, overwrote>>
    BY <1>2 DEF allVars, vars, counters, upkeepVars, upkeepHistory
  <2>2. QED
    BY <2>1, RowsKept
<1>3. CASE ReservationStep \/ \E t \in Clerks : TillCommit(t)
  <2>1. /\ RespectsLocks /\ UNCHANGED upkeepHistory
        /\ \A u \in Clerks : clerk'[u] = clerk[u] \/ clerk'[u].op = "idle"
    BY <1>3, ReservationTypes
  <2>2. QED
    BY <2>1, LockedRows, RowsKept DEF upkeepHistory
<1>4. ASSUME NEW t \in Clerks,
             \/ \E p \in Products, q \in Amounts : AdjustRead(t, p, q)
             \/ \E o \in Orders : TillCheck(t, o)
             \/ ClerkAbort(t)
      PROVE  Rows'
  <2>1. UNCHANGED <<counters, overwrote>>
    BY <1>4 DEF AdjustRead, TillCheck, ClerkAbort, upkeepHistory
  <2>2. \A u \in Clerks : \/ clerk'[u] = clerk[u]
                          \/ clerk'[u].op # "deduct"
                          \/ clerk'[u].staged = {}
    <3>1. CASE ClerkAbort(t)
      BY <1>1, <3>1, FinishMoves DEF ClerkAbort
    <3>2. ASSUME NEW r, clerk' = [clerk EXCEPT ![t] = r], r.op # "deduct" \/ r.staged = {}
          PROVE  \A u \in Clerks : \/ clerk'[u] = clerk[u]
                                   \/ clerk'[u].op # "deduct"
                                   \/ clerk'[u].staged = {}
      BY <1>1, <3>2 DEF ClerksOpen
    <3>3. ASSUME NEW p \in Products, NEW q \in Amounts, AdjustRead(t, p, q)
          PROVE  \A u \in Clerks : \/ clerk'[u] = clerk[u]
                                   \/ clerk'[u].op # "deduct"
                                   \/ clerk'[u].staged = {}
      <4> DEFINE r == [op |-> "adjust", product |-> p, quantity |-> q,
                       cur |-> currentStock[p], res |-> reservedStock[p]]
      <4>1. clerk' = [clerk EXCEPT ![t] = r] /\ r.op # "deduct"
        BY <3>3 DEF AdjustRead
      <4> HIDE DEF r
      <4>2. QED
        BY <3>2, <4>1
    <3>4. ASSUME NEW o \in Orders, TillCheck(t, o)
          PROVE  \A u \in Clerks : \/ clerk'[u] = clerk[u]
                                   \/ clerk'[u].op # "deduct"
                                   \/ clerk'[u].staged = {}
      <4> DEFINE r == [op |-> "commit", order |-> o]
                 d == [op |-> "deduct", order |-> o, seen |-> << >>, staged |-> {}]
      <4>1. /\ clerk' = [clerk EXCEPT ![t] = r] \/ clerk' = [clerk EXCEPT ![t] = d]
            /\ r.op # "deduct" /\ d.staged = {}
        BY <3>4 DEF TillCheck
      <4> HIDE DEF r, d
      <4>2. QED
        BY <3>2, <4>1
    <3>5. QED
      BY <1>4, <3>1, <3>3, <3>4
  <2>3. QED
    BY <2>1, <2>2, RowsKept DEF counters
<1>5. ASSUME NEW t \in Clerks, AdjustWrite(t)
      PROVE  Rows'
  <2>1. RespectsLocks /\ (~overwrote' => ~overwrote) /\ Finish(t)
    BY <1>5 DEF AdjustWrite
  <2>2. \A u \in Clerks : clerk'[u] = clerk[u] \/ clerk'[u].op = "idle"
    BY <1>1, <2>1, FinishMoves
  <2>3. QED
    BY <2>1, <2>2, LockedRows, RowsKept
<1>6. ASSUME NEW t \in Clerks, NEW p \in Products, DeductRead(t, p)
      PROVE  Rows'
  <2>1. /\ clerk[t].op = "deduct" /\ clerk'[t].op = "deduct"
        /\ clerk'[t].staged = clerk[t].staged
        /\ \A q \in clerk[t].staged : clerk'[t].seen[q] = clerk[t].seen[q]
        /\ \A u \in Clerks \ {t} : clerk'[u] = clerk[u]
    BY <1>6, DeductReads
  <2>2. UNCHANGED <<currentStock, reservedStock, overwrote>>
    BY <1>6 DEF DeductRead, counters, upkeepHistory
  <2>3. RowsApart'
    BY <2>1 DEF Rows, RowsApart
  <2>4. RowsCurrent'
    BY <2>1, <2>2 DEF Rows, RowsCurrent
  <2>5. QED
    BY <2>3, <2>4 DEF Rows
<1>7. ASSUME NEW t \in Clerks, NEW p \in Products, DeductUpdate(t, p)
      PROVE  Rows'
  <2>1. /\ clerk[t].op = "deduct" /\ clerk'[t].op = "deduct"
        /\ clerk'[t].staged = clerk[t].staged \union {p}
        /\ clerk'[t].seen = clerk[t].seen
        /\ \A u \in Clerks \ {t} : clerk'[u] = clerk[u]
    BY <1>7, DeductStages
  <2>2. \A u \in Clerks \ {t} : clerk[u].op = "deduct" => p \notin clerk[u].staged
    BY <1>7 DEF DeductUpdate, Locked
  <2>3. RowsApart'
    BY <2>1, <2>2 DEF Rows, RowsApart
  <2>4. /\ UNCHANGED <<currentStock, reservedStock>> /\ (~overwrote' => ~overwrote)
        /\ ~overwrote' =>
               clerk[t].seen[p] = [cur |-> currentStock[p], res |-> reservedStock[p]]
    BY <1>7 DEF DeductUpdate, counters
  <2>5. RowsCurrent'
    <3> SUFFICES ASSUME ~overwrote', NEW u \in Clerks, clerk'[u].op = "deduct",
                        NEW q \in clerk'[u].staged
                 PROVE  /\ clerk'[u].seen[q].cur = currentStock'[q]
                        /\ clerk'[u].seen[q].res = reservedStock'[q]
      BY DEF RowsCurrent
    <3>1. CASE u = t /\ q = p
      BY <2>1, <2>4, <3>1
    <3>2. CASE u # t \/ q # p
      <4>1. /\ clerk[u].op = "deduct" /\ q \in clerk[u].staged
            /\ clerk'[u].seen = clerk[u].seen
        BY <2>1, <3>2
      <4>2. QED
        BY <2>4, <4>1 DEF Rows, RowsCurrent
    <3>3. QED
      BY <3>1, <3>2
  <2>6. QED
    BY <2>3, <2>5 DEF Rows
<1>8. ASSUME NEW t \in Clerks, DeductCommit(t)
      PROVE  Rows'
  <2>1. /\ clerk[t].op = "deduct" /\ Finish(t) /\ overwrote' = overwrote
        /\ reservedStock' = reservedStock
        /\ \A p \in Products \ clerk[t].staged : currentStock'[p] = currentStock[p]
    BY <1>8 DEF DeductCommit
  <2>2. clerk'[t].op = "idle" /\ \A u \in Clerks \ {t} : clerk'[u] = clerk[u]
    BY <1>1, <2>1, FinishMoves
  <2>3. \A u \in Clerks : clerk[u].op = "deduct" => clerk[u].staged \subseteq Products
    BY <1>1, ClerkCases DEF IsDeduct
  <2>4. \A u \in Clerks : clerk[u].op = "deduct" /\ clerk'[u] = clerk[u] =>
            \A p \in clerk[u].staged : currentStock'[p] = currentStock[p]
    BY <2>1, <2>2, <2>3 DEF Rows, RowsApart
  <2>5. QED
    BY <2>1, <2>2, <2>4, RowsKept
<1>9. ASSUME NEW c \in Connections, NEW o \in Orders, WalkInReturn(c, o)
      PROVE  Rows'
  <2>1. UNCHANGED <<counters, clerk, overwrote>>
    BY <1>9 DEF WalkInReturn, upkeepVars, upkeepHistory
  <2>2. QED
    BY <2>1, RowsKept DEF counters
<1>10. CASE JobStep \/ JobCrash
  <2>1. clerk' = clerk /\ (~overwrote' => ~overwrote)
    BY <1>10, FlagsGrow DEF JobStep, JobDrift, JobExpire, JobSum, JobRead, JobWrite,
                            JobCrash, UpkeepNext
  <2>2. RespectsLocks \/ UNCHANGED counters
    BY <1>10 DEF JobStep, JobDrift, JobExpire, JobSum, JobRead, JobWrite, JobCrash, vars
  <2>3. QED
    BY <2>1, <2>2, LockedRows, RowsKept DEF counters
<1>11. QED
  BY <1>2, <1>3, <1>4, <1>5, <1>6, <1>7, <1>8, <1>9, <1>10 DEF UpkeepNext, ClerkStep

-----------------------------------------------------------------------------
(* availableStock after each write.                                        *)

\* Nothing is cut: the value is the difference.
LEMMA NotCut ==
    ASSUME NEW n \in Int, NEW m \in Int, ~(n < m)
    PROVE  AvailableFor(n, m) = n - m
BY DEF AvailableFor, NotBelowZero

LEMMA UncutStep ==
    ASSUME UpkeepAssumption, UpkeepType, Calls, Rows, AvailableUnlessOverwritten,
           [UpkeepNext]_allVars
    PROVE  AvailableUnlessOverwritten'
<1> SUFFICES ASSUME ~overwrote', ~clamped', NEW p \in Products
             PROVE  availableStock'[p] = currentStock'[p] - reservedStock'[p]
  BY DEF AvailableUnlessOverwritten, AvailableIsFree
<1>1. ~overwrote /\ ~clamped
  BY FlagsGrow
<1>2. /\ AvailableIsFree /\ TypeOK /\ ClerksOpen /\ JobOpen
      /\ availableStock[p] = currentStock[p] - reservedStock[p]
      /\ currentStock \in [Products -> Int] /\ reservedStock \in [Products -> Int]
      /\ availableStock \in [Products -> Int]
  BY <1>1 DEF AvailableUnlessOverwritten, AvailableIsFree, UpkeepType, TypeOK
<1>3. CASE UNCHANGED counters
  BY <1>2, <1>3 DEF counters
<1>4. CASE ReservationStep \/ \E t \in Clerks : TillCommit(t)
  <2>1. [Next]_vars
    BY <1>4, ReservationTypes
  <2>2. AvailableIsFree'
    BY <1>2, <2>1, AvailableStep
  <2>3. QED
    BY <2>2 DEF AvailableIsFree
<1>5. ASSUME NEW t \in Clerks, AdjustWrite(t)
      PROVE  availableStock'[p] = currentStock'[p] - reservedStock'[p]
  <2> DEFINE q == clerk[t].product
             new == clerk[t].cur + clerk[t].quantity
  <2>1. clerk[t] \in AdjustCall
    BY <1>2, <1>5, ClerkCases DEF AdjustWrite
  <2>2. /\ q \in Products /\ new \in Int /\ clerk[t].res \in Int
    BY <2>1 DEF AdjustCall
  <2>3. /\ currentStock' = [currentStock EXCEPT ![q] = new]
        /\ availableStock' = [availableStock EXCEPT ![q] = AvailableFor(new, clerk[t].res)]
        /\ reservedStock' = reservedStock
        /\ reservedStock[q] = clerk[t].res /\ ~(new < clerk[t].res)
    BY <1>5 DEF AdjustWrite
  <2>4. AvailableFor(new, clerk[t].res) = new - clerk[t].res
    BY <2>2, <2>3, NotCut
  <2> HIDE DEF q, new
  <2>5. CASE p = q
    BY <1>2, <2>2, <2>3, <2>4, <2>5
  <2>6. CASE p # q
    BY <1>2, <2>3, <2>6
  <2>7. QED
    BY <2>5, <2>6
<1>6. ASSUME NEW t \in Clerks, DeductCommit(t)
      PROVE  availableStock'[p] = currentStock'[p] - reservedStock'[p]
  <2> DEFINE o == clerk[t].order
             S == clerk[t].staged
             left == clerk[t].seen[p].cur - Qty[o][p]
             new == NotBelowZero(left)
  <2>1. IsDeduct(clerk[t]) /\ clerk[t].op = "deduct"
    BY <1>2, <1>6, ClerkCases DEF DeductCommit
  <2>2. /\ currentStock'[p] = IF p \in S THEN new ELSE currentStock[p]
        /\ availableStock'[p] = IF p \in S THEN AvailableFor(new, clerk[t].seen[p].res)
                                ELSE availableStock[p]
        /\ reservedStock' = reservedStock
        /\ p \in S => ~(left < 0) /\ ~(new < clerk[t].seen[p].res)
    BY <1>6 DEF DeductCommit
  <2>3. CASE p \in S
    <3>1. left \in Int /\ clerk[t].seen[p].res \in Int
      BY <2>1, <2>3, QtyAssumption DEF IsDeduct, Reading
    <3>2. clerk[t].seen[p].res = reservedStock[p]
      BY <1>1, <2>1, <2>3 DEF Rows, RowsCurrent
    <3> HIDE DEF left
    <3>3. new \in Int
      BY <3>1, AvailableType
    <3>4. AvailableFor(new, clerk[t].seen[p].res) = new - clerk[t].seen[p].res
      BY <2>2, <2>3, <3>1, <3>3, NotCut
    <3> HIDE DEF new, S
    <3>5. QED
      BY <2>2, <2>3, <3>2, <3>4
  <2>4. CASE p \notin S
    BY <1>2, <2>2, <2>4
  <2>5. QED
    BY <2>3, <2>4
<1>7. CASE JobDrift
  <2>1. /\ availableStock'[p] = AvailableFor(currentStock[p], reservedStock[p])
        /\ UNCHANGED <<currentStock, reservedStock>>
        /\ ~(currentStock[p] < reservedStock[p])
    BY <1>7 DEF JobDrift, Repair
  <2>2. QED
    BY <1>2, <2>1, NotCut
<1>8. CASE JobWrite
  <2> DEFINE q == job.item
  <2>1. q \in Products /\ job.sum \in Int /\ job.cur \in Int
    BY <1>2, <1>8 DEF JobWrite, JobOpen
  <2>2. /\ reservedStock' = [reservedStock EXCEPT ![q] = job.sum]
        /\ availableStock' = [availableStock EXCEPT ![q] = AvailableFor(job.cur, job.sum)]
        /\ currentStock' = currentStock
        /\ currentStock[q] = job.cur /\ ~(job.cur < job.sum)
    BY <1>8 DEF JobWrite
  <2>3. AvailableFor(job.cur, job.sum) = job.cur - job.sum
    BY <2>1, <2>2, NotCut
  <2> HIDE DEF q
  <2>4. CASE p = q
    BY <1>2, <2>2, <2>3, <2>4
  <2>5. CASE p # q
    BY <1>2, <2>2, <2>5
  <2>6. QED
    BY <2>4, <2>5
<1>9. ASSUME ~(ReservationStep \/ \E t \in Clerks : TillCommit(t)),
             ~(\E t \in Clerks : AdjustWrite(t) \/ DeductCommit(t)),
             ~JobDrift, ~JobWrite
      PROVE  UNCHANGED counters
  BY <1>9 DEF UpkeepNext, ClerkStep, AdjustRead, TillCheck, DeductRead, DeductUpdate,
              ClerkAbort, WalkInReturn, JobStep, JobExpire, JobSum, JobRead, JobCrash,
              allVars, vars
<1>10. QED
  BY <1>3, <1>4, <1>5, <1>6, <1>7, <1>8, <1>9

-----------------------------------------------------------------------------
(* The books: the shelf count follows the movements, reservedStock the     *)
(* reservations.                                                           *)

\* Unless it writes from a stale read, a step of the reservations moves the
\* counters of a product with its sums.
LEMMA BooksMove ==
    ASSUME TypeOK, Calls, [Next]_vars, ~staleSettle', NEW p \in Products
    PROVE  /\ ~staleSettle
           /\ reservedStock[p] = Held(p) => reservedStock'[p] = Held(p)'
           /\ \E n \in Int : /\ currentStock'[p] = currentStock[p] + n
                            /\ Returned(p)' - Sold(p)' = Returned(p) - Sold(p) + n
<1> DEFINE Goal == /\ ~staleSettle
                   /\ reservedStock[p] = Held(p) => reservedStock'[p] = Held(p)'
                   /\ \E n \in Int :
                         /\ currentStock'[p] = currentStock[p] + n
                         /\ Returned(p)' - Sold(p)' = Returned(p) - Sold(p) + n
<1>1. /\ reservedStock[p] \in Int /\ currentStock[p] \in Int
      /\ Held(p) \in Nat /\ Sold(p) \in Nat /\ Returned(p) \in Nat
  BY BooksType
<1>2. returned' = returned => Returned(p)' = Returned(p)
  BY DEF Returned, GivenBack
<1>3. ASSUME UNCHANGED <<counters, resv, returned, staleSettle>>
      PROVE  Goal
  <2>1. /\ Held(p)' = Held(p) /\ Sold(p)' = Sold(p)
        /\ reservedStock' = reservedStock /\ currentStock' = currentStock
    BY <1>3 DEF Held, Sold, SumQuantity, With, counters
  <2>2. currentStock'[p] = currentStock[p] + 0
    BY <1>1, <2>1
  <2>3. Returned(p)' - Sold(p)' = Returned(p) - Sold(p) + 0
    BY <1>1, <1>2, <1>3, <2>1
  <2>4. ~staleSettle
    BY <1>3
  <2>5. QED
    BY <2>1, <2>2, <2>3, <2>4
<1>4. ASSUME NEW c \in Connections, ReserveWrite(c)
      PROVE  Goal
  <2>1. PICK n \in Nat : /\ reservedStock'[p] = reservedStock[p] + n
                         /\ Held(p)' = Held(p) + n
                         /\ Sold(p)' = Sold(p)
                         /\ currentStock'[p] = currentStock[p]
                         /\ returned' = returned
                         /\ staleSettle' = staleSettle
    BY <1>4, ReserveBooks
  <2>2. currentStock'[p] = currentStock[p] + 0
    BY <1>1, <2>1
  <2>3. Returned(p)' - Sold(p)' = Returned(p) - Sold(p) + 0
    BY <1>1, <1>2, <2>1
  <2>4. ~staleSettle
    BY <2>1
  <2>5. QED
    BY <2>1, <2>2, <2>3, <2>4
<1>5. ASSUME NEW c \in Connections, CommitWrite(c)
      PROVE  Goal
  <2>1. PICK n \in Nat : /\ reservedStock'[p] = reservedStock[p] - n
                         /\ currentStock'[p] = currentStock[p] - n
                         /\ ~staleSettle' => /\ Held(p)' = Held(p) - n
                                             /\ Sold(p)' = Sold(p) + n
                         /\ returned' = returned
                         /\ ~staleSettle' => ~staleSettle
    BY <1>5, CommitBooks
  <2>2. -n \in Int /\ currentStock'[p] = currentStock[p] + (-n)
    BY <1>1, <2>1
  <2>3. Returned(p)' - Sold(p)' = Returned(p) - Sold(p) + (-n)
    BY <1>1, <1>2, <2>1
  <2>4. QED
    BY <2>1, <2>2, <2>3
<1>6. ASSUME NEW c \in Connections, ReleaseWrite(c)
      PROVE  Goal
  <2>1. PICK n \in Nat : /\ reservedStock'[p] = reservedStock[p] - n
                         /\ currentStock'[p] = currentStock[p]
                         /\ ~staleSettle' => /\ Held(p)' = Held(p) - n
                                             /\ Sold(p)' = Sold(p)
                         /\ returned' = returned
                         /\ ~staleSettle' => ~staleSettle
    BY <1>6, ReleaseBooks
  <2>2. currentStock'[p] = currentStock[p] + 0
    BY <1>1, <2>1
  <2>3. Returned(p)' - Sold(p)' = Returned(p) - Sold(p) + 0
    BY <1>1, <1>2, <2>1
  <2>4. QED
    BY <2>1, <2>2, <2>3
<1>7. ASSUME NEW c \in Connections, NEW q \in Products, ReturnLine(c, q)
      PROVE  Goal
  <2>1. PICK n \in Nat : /\ reservedStock'[p] = reservedStock[p]
                         /\ currentStock'[p] = currentStock[p] + n
                         /\ Returned(p)' = Returned(p) + n
                         /\ Held(p)' = Held(p) /\ Sold(p)' = Sold(p)
                         /\ staleSettle' = staleSettle
    BY <1>7, ReturnBooks
  <2>2. Returned(p)' - Sold(p)' = Returned(p) - Sold(p) + n
    BY <1>1, <2>1
  <2>3. ~staleSettle
    BY <2>1
  <2>4. QED
    BY <2>1, <2>2, <2>3
<1> HIDE DEF Goal
<1>8. Goal
  BY <1>3, <1>4, <1>5, <1>6, <1>7, OtherBooks
<1>9. QED
  BY <1>8 DEF Goal

\* Units that expire were held on a line the job will recount.
LEMMA ExpireBooks ==
    ASSUME UpkeepType, NEW W \in SUBSET Orders, JobExpire(W), NEW p \in Products
    PROVE  /\ Sold(p)' = Sold(p) /\ Returned(p)' = Returned(p)
           /\ p \notin job'.todo => Held(p)' = Held(p)
<1>1. /\ resv' = [o \in Orders |-> [q \in Products |->
              IF o \in W /\ resv[o][q] = "ACTIVE" THEN "EXPIRED" ELSE resv[o][q]]]
      /\ job' = RecountNext(UNION {ActiveLines(o) : o \in W})
      /\ returned' = returned
  BY DEF JobExpire, history
<1>2. Sold(p)' = Sold(p)
  <2>1. With(p, "COMMITTED")' = With(p, "COMMITTED")
    BY <1>1 DEF With
  <2>2. QED
    BY <2>1 DEF Sold, SumQuantity
<1>3. Returned(p)' = Returned(p)
  BY <1>1 DEF Returned, GivenBack
<1>4. ASSUME p \notin job'.todo
      PROVE  Held(p)' = Held(p)
  <2>1. UNION {ActiveLines(o) : o \in W} \in SUBSET Products
    BY LinesAreProducts DEF ActiveLines
  <2>2. job'.todo = UNION {ActiveLines(o) : o \in W}
    BY <1>1, <2>1, RecountOpen
  <2>3. \A o \in W : p \notin ActiveLines(o)
    BY <1>4, <2>2
  <2>4. \A o \in W : resv[o][p] = "ACTIVE" => Qty[o][p] = 0
    <3>1. \A o \in W : Qty[o][p] \in Nat
      BY QtyAssumption
    <3>2. QED
      BY <2>3, <3>1 DEF ActiveLines, Lines
  <2>5. \A o \in Orders : o \in With(p, "ACTIVE")' <=> o \in With(p, "ACTIVE") /\ o \notin W
    BY <1>1 DEF With
  <2>6. \A o \in Orders, k \in 1 .. MaxQty :
            k <= Qty[o][p] => (o \in With(p, "ACTIVE")' <=> o \in With(p, "ACTIVE"))
    BY <2>4, <2>5, QtyAssumption DEF With
  <2>7. UnitsOn(With(p, "ACTIVE")', p) = UnitsOn(With(p, "ACTIVE"), p)
    <3>1. With(p, "ACTIVE")' \subseteq Orders /\ With(p, "ACTIVE") \subseteq Orders
      BY DEF With
    <3> DEFINE A == With(p, "ACTIVE")
               B == With(p, "ACTIVE")'
    <3> HIDE DEF A, B
    <3>2. \A u \in Orders \X (1 .. MaxQty) :
              u[2] <= Qty[u[1]][p] => (u[1] \in B <=> u[1] \in A)
      BY <2>6 DEF A, B
    <3>3. A \subseteq Orders /\ B \subseteq Orders
      BY <3>1 DEF A, B
    <3>4. UnitsOn(B, p) = UnitsOn(A, p)
      BY <3>2, <3>3 DEF UnitsOn
    <3>5. QED
      BY <3>4 DEF A, B
  <2>8. QED
    BY <2>7 DEF Held, SumQuantity
<1>5. QED
  BY <1>2, <1>3, <1>4

\* The sums depend on resv and returned only.
LEMMA SumsKeep ==
    ASSUME resv' = resv, returned' = returned, NEW p \in Products
    PROVE  /\ Held(p)' = Held(p) /\ Sold(p)' = Sold(p) /\ Returned(p)' = Returned(p)
BY DEF Held, Sold, SumQuantity, With, Returned, GivenBack

\* Steps that leave the counters and the sums alone.
LEMMA IdleSteps ==
    ASSUME [UpkeepNext]_allVars,
           ~(ReservationStep \/ \E t \in Clerks : TillCommit(t)),
           ~(\E t \in Clerks : AdjustWrite(t) \/ DeductCommit(t)),
           ~(\E W \in SUBSET Orders : JobExpire(W)), ~JobWrite
    PROVE  UNCHANGED <<currentStock, reservedStock, resv, returned, staleSettle, moved>>
BY DEF UpkeepNext, ClerkStep, AdjustRead, TillCheck, DeductRead, DeductUpdate, ClerkAbort,
       WalkInReturn, JobStep, JobDrift, JobSum, JobRead, JobCrash, allVars, vars, counters,
       history, Upkeep, upkeepVars, upkeepHistory

LEMMA ShelfStep ==
    ASSUME UpkeepAssumption, UpkeepType, Calls, Rows, ShelfAccounted, [UpkeepNext]_allVars
    PROVE  ShelfAccounted'
<1> SUFFICES ASSUME ~overwrote', ~clamped', ~staleSettle', NEW p \in Products
             PROVE  (currentStock[p] = InitialStock[p] - Sold(p) + Returned(p) + moved[p])'
  BY DEF ShelfAccounted
<1> DEFINE Balanced == currentStock[p] = InitialStock[p] - Sold(p) + Returned(p) + moved[p]
<1>1. ~overwrote /\ ~clamped
  BY FlagsGrow
<1>2. /\ TypeOK /\ ClerksOpen /\ JobOpen
      /\ currentStock \in [Products -> Int] /\ moved \in [Products -> Int]
      /\ currentStock[p] \in Int /\ moved[p] \in Int /\ InitialStock[p] \in Nat
      /\ Held(p) \in Nat /\ Sold(p) \in Nat /\ Returned(p) \in Nat
  BY HeldType, QtyAssumption DEF UpkeepType, TypeOK
<1>3. ~staleSettle => Balanced
  BY <1>1 DEF ShelfAccounted
<1>4. ASSUME UNCHANGED <<currentStock, reservedStock, resv, returned, staleSettle, moved>>
      PROVE  Balanced'
  BY <1>3, <1>4, SumsKeep
<1>5. ASSUME ReservationStep \/ \E t \in Clerks : TillCommit(t)
      PROVE  Balanced'
  <2>1. [Next]_vars /\ moved' = moved
    BY <1>5, ReservationTypes DEF upkeepHistory
  <2>2. ~staleSettle
    BY <1>2, <2>1, BooksMove
  <2>3. PICK n \in Int : /\ currentStock'[p] = currentStock[p] + n
                         /\ Returned(p)' - Sold(p)' = Returned(p) - Sold(p) + n
    BY <1>2, <2>1, BooksMove
  <2>4. Sold(p)' \in Nat /\ Returned(p)' \in Nat
    <3>1. TypeOK'
      BY <1>5, ReservationTypes DEF UpkeepType
    <3>2. /\ With(p, "COMMITTED")' \in SUBSET Orders
          /\ GivenBack(p)' \in SUBSET Orders
      BY DEF With, GivenBack
    <3>3. QED
      BY <3>2, UnitsFinite DEF Sold, SumQuantity, Returned
  <2>5. QED
    BY <1>2, <1>3, <2>1, <2>2, <2>3, <2>4
<1>6. ASSUME NEW t \in Clerks, AdjustWrite(t)
      PROVE  Balanced'
  <2> DEFINE q == clerk[t].product
  <2>1. clerk[t] \in AdjustCall
    BY <1>2, <1>6, ClerkCases DEF AdjustWrite
  <2>2. q \in Products /\ clerk[t].quantity \in Int /\ clerk[t].cur \in Int
    BY <2>1 DEF AdjustCall
  <2>3. /\ currentStock' = [currentStock EXCEPT ![q] = clerk[t].cur + clerk[t].quantity]
        /\ moved' = [moved EXCEPT ![q] = @ + clerk[t].quantity]
        /\ currentStock[q] = clerk[t].cur
        /\ resv' = resv /\ returned' = returned /\ staleSettle' = staleSettle
    BY <1>6 DEF AdjustWrite, Upkeep, history
  <2>4. Sold(p)' = Sold(p) /\ Returned(p)' = Returned(p) /\ Balanced
    BY <1>3, <2>3, SumsKeep
  <2> HIDE DEF q
  <2>5. CASE p = q
    <3>1. /\ currentStock'[p] = currentStock[p] + clerk[t].quantity
          /\ moved'[p] = moved[p] + clerk[t].quantity
      BY <1>2, <2>3, <2>5
    <3>2. QED
      BY <1>2, <2>2, <2>4, <3>1
  <2>6. CASE p # q
    <3>1. currentStock'[p] = currentStock[p] /\ moved'[p] = moved[p]
      BY <1>2, <2>3, <2>6
    <3>2. QED
      BY <2>4, <3>1
  <2>7. QED
    BY <2>5, <2>6
<1>7. ASSUME NEW t \in Clerks, DeductCommit(t)
      PROVE  Balanced'
  <2> DEFINE o == clerk[t].order
             S == clerk[t].staged
             left == clerk[t].seen[p].cur - Qty[o][p]
  <2>1. IsDeduct(clerk[t]) /\ clerk[t].op = "deduct"
    BY <1>2, <1>7, ClerkCases DEF DeductCommit
  <2>2. /\ currentStock'[p] = IF p \in S THEN NotBelowZero(left) ELSE currentStock[p]
        /\ moved'[p] = IF p \in S THEN moved[p] - Qty[o][p] ELSE moved[p]
        /\ resv' = resv /\ returned' = returned /\ staleSettle' = staleSettle
        /\ p \in S => ~(left < 0)
    BY <1>7 DEF DeductCommit, Sub, history
  <2>3. Sold(p)' = Sold(p) /\ Returned(p)' = Returned(p) /\ Balanced
    BY <1>3, <2>2, SumsKeep
  <2>4. CASE p \in S
    <3>1. /\ clerk[t].seen[p].cur = currentStock[p]
      BY <1>1, <2>1, <2>4 DEF Rows, RowsCurrent
    <3>2. Qty[o][p] \in Nat
      BY <2>1, QtyAssumption DEF IsDeduct
    <3>3. left = currentStock[p] - Qty[o][p] /\ left \in Int
      BY <1>2, <3>1, <3>2
    <3> HIDE DEF left, o, S
    <3>4. currentStock'[p] = left
      BY <2>2, <2>4, <3>3 DEF NotBelowZero
    <3>5. QED
      BY <1>2, <2>2, <2>3, <2>4, <3>2, <3>3, <3>4
  <2>5. CASE p \notin S
    BY <2>2, <2>3, <2>5
  <2>6. QED
    BY <2>4, <2>5
<1>8. ASSUME NEW W \in SUBSET Orders, JobExpire(W)
      PROVE  Balanced'
  <2>1. UNCHANGED <<currentStock, moved, staleSettle>>
    BY <1>8 DEF JobExpire, counters, history, upkeepHistory
  <2>2. Sold(p)' = Sold(p) /\ Returned(p)' = Returned(p)
    BY <1>8, ExpireBooks
  <2>3. QED
    BY <1>3, <2>1, <2>2
<1>9. ASSUME JobWrite
      PROVE  Balanced'
  <2>1. UNCHANGED <<currentStock, moved, resv, returned, staleSettle>>
    BY <1>9 DEF JobWrite, Upkeep, history
  <2>2. QED
    BY <1>3, <2>1, SumsKeep
<1> HIDE DEF Balanced
<1>10. Balanced'
  BY <1>4, <1>5, <1>6, <1>7, <1>8, <1>9, IdleSteps
<1>11. QED
  BY <1>10 DEF Balanced

LEMMA HoldsStep ==
    ASSUME UpkeepType, Calls, HoldsAccounted, [UpkeepNext]_allVars
    PROVE  HoldsAccounted'
<1> SUFFICES ASSUME ~overwrote', ~staleSettle', ~lostRecount',
                    NEW p \in Products, p \notin job'.todo
             PROVE  (reservedStock[p] = Held(p))'
  BY DEF HoldsAccounted
<1> DEFINE Exact == reservedStock[p] = Held(p)
<1>1. ~overwrote /\ ~lostRecount
  BY FlagsGrow
<1>2. /\ TypeOK /\ ClerksOpen /\ JobOpen
      /\ reservedStock \in [Products -> Int]
  BY DEF UpkeepType, TypeOK
<1>3. ~staleSettle /\ p \notin job.todo => Exact
  BY <1>1 DEF HoldsAccounted
<1>4. ASSUME UNCHANGED <<currentStock, reservedStock, resv, returned, staleSettle, moved>>,
             p \notin job.todo
      PROVE  Exact'
  BY <1>3, <1>4, SumsKeep
<1>5. ASSUME ReservationStep \/ \E t \in Clerks : TillCommit(t)
      PROVE  Exact'
  <2>1. [Next]_vars /\ job' = job
    BY <1>5, ReservationTypes
  <2>2. ~staleSettle /\ (Exact => Exact')
    BY <1>2, <2>1, BooksMove
  <2>3. QED
    BY <1>3, <2>1, <2>2
<1>6. ASSUME NEW t \in Clerks, AdjustWrite(t) \/ DeductCommit(t)
      PROVE  Exact'
  <2>1. UNCHANGED <<reservedStock, resv, returned, staleSettle, job>>
    BY <1>6 DEF AdjustWrite, DeductCommit, Upkeep, history
  <2>2. QED
    BY <1>3, <2>1, SumsKeep
<1>7. ASSUME NEW W \in SUBSET Orders, JobExpire(W)
      PROVE  Exact'
  <2>1. UNCHANGED <<reservedStock, staleSettle>> /\ job.pc = "expire"
    BY <1>7 DEF JobExpire, counters, history
  <2>2. p \notin job.todo
    BY <1>2, <2>1 DEF JobOpen
  <2>3. Held(p)' = Held(p)
    BY <1>7, ExpireBooks
  <2>4. QED
    BY <1>3, <2>1, <2>2, <2>3
<1>8. ASSUME JobWrite
      PROVE  Exact'
  <2> DEFINE q == job.item
  <2>1. /\ reservedStock' = [reservedStock EXCEPT ![q] = job.sum]
        /\ Held(q) = job.sum
        /\ job' = RecountNext(job.todo \ {q})
        /\ UNCHANGED <<resv, returned, staleSettle>>
        /\ job.pc = "write"
    BY <1>8 DEF JobWrite, Upkeep, history
  <2>2. q \in Products /\ job.todo \ {q} \in SUBSET Products
    BY <1>2, <2>1 DEF JobOpen
  <2>3. job'.todo = job.todo \ {q}
    BY <2>1, <2>2, RecountOpen
  <2>4. Held(p)' = Held(p)
    BY <2>1, SumsKeep
  <2> HIDE DEF q
  <2>5. CASE p = q
    BY <1>2, <2>1, <2>2, <2>4, <2>5
  <2>6. CASE p # q
    BY <1>2, <1>3, <2>1, <2>3, <2>4, <2>6
  <2>7. QED
    BY <2>5, <2>6
<1>9. CASE ~JobWrite /\ ~(\E W \in SUBSET Orders : JobExpire(W))
           /\ ~(ReservationStep \/ \E t \in Clerks : TillCommit(t))
  <2>1. job'.todo = job.todo \/ (JobCrash /\ job.todo = {})
    <3>1. CASE JobCrash
      BY <3>1 DEF JobCrash
    <3>2. CASE JobDrift \/ (\E q \in Products : JobSum(q)) \/ JobRead
      <4>1. CASE JobDrift
        BY <4>1 DEF JobDrift, JobIdle
      <4>2. CASE \E q \in Products : JobSum(q)
        BY <4>2 DEF JobSum
      <4>3. CASE JobRead
        BY <4>3 DEF JobRead
      <4>4. QED
        BY <3>2, <4>1, <4>2, <4>3
    <3>3. CASE ClerkStep
      <4>1. job' = job
        BY <1>9, <3>3 DEF ClerkStep, AdjustRead, AdjustWrite, TillCheck, DeductRead,
           DeductUpdate, DeductCommit, ClerkAbort
      <4>2. QED
        BY <4>1
    <3>4. CASE \/ \E c \in Connections, o \in Orders : WalkInReturn(c, o)
               \/ UNCHANGED allVars
      BY <3>4 DEF WalkInReturn, allVars, upkeepVars
    <3>5. QED
      BY <1>9, <3>1, <3>2, <3>3, <3>4 DEF UpkeepNext, JobStep
  <2>2. p \notin job.todo
    BY <2>1
  <2>3. QED
    BY <1>4, <1>6, <1>9, <2>2, IdleSteps
<1>10. QED
  BY <1>5, <1>7, <1>8, <1>9

-----------------------------------------------------------------------------
(* The theorems.                                                           *)

UpkeepInductive ==
    /\ UpkeepType /\ Calls /\ Rows
    /\ AvailableUnlessOverwritten /\ ShelfAccounted /\ HoldsAccounted

LEMMA UpkeepStarts == UpkeepInit => UpkeepInductive
<1> SUFFICES ASSUME UpkeepInit
             PROVE  UpkeepInductive
  OBVIOUS
<1>1. Init
  BY DEF UpkeepInit
<1>2. /\ clerk = [t \in Clerks |-> Idle] /\ job = JobIdle
      /\ moved = [p \in Products |-> 0]
      /\ overwrote = FALSE /\ clamped = FALSE /\ lostRecount = FALSE
  BY DEF UpkeepInit
<1>3. TypeOK /\ Calls
  BY <1>1, TypeInit, CallsInit
<1>4. ClerksOpen
  BY <1>2 DEF ClerksOpen, IsClerkCall
<1>5. JobOpen
  BY <1>2 DEF JobOpen, JobIdle
<1>6. UpkeepType
  <2>1. moved \in [Products -> Int]
    BY <1>2
  <2>2. overwrote \in BOOLEAN /\ clamped \in BOOLEAN /\ lostRecount \in BOOLEAN
    BY <1>2
  <2>3. QED
    BY <1>3, <1>4, <1>5, <2>1, <2>2 DEF UpkeepType
<1>7. Rows
  <2>1. \A t \in Clerks : clerk[t].op # "deduct"
    BY <1>2 DEF Idle
  <2>2. QED
    BY <2>1 DEF Rows, RowsApart, RowsCurrent
<1>8. AvailableUnlessOverwritten
  BY <1>1, QtyAssumption DEF Init, AvailableUnlessOverwritten, AvailableIsFree
<1>9. ShelfAccounted /\ HoldsAccounted
  <2> SUFFICES ASSUME NEW p \in Products
               PROVE  /\ currentStock[p] = InitialStock[p] - Sold(p) + Returned(p) + moved[p]
                      /\ reservedStock[p] = Held(p)
    BY DEF ShelfAccounted, HoldsAccounted
  <2>1. With(p, "ACTIVE") = {} /\ With(p, "COMMITTED") = {} /\ GivenBack(p) = {}
    BY <1>1 DEF Init, With, GivenBack
  <2>2. UnitsOn({}, p) = {}
    BY DEF UnitsOn
  <2>3. Held(p) = 0 /\ Sold(p) = 0 /\ Returned(p) = 0
    BY <2>1, <2>2, FS_EmptySet DEF Held, Sold, SumQuantity, Returned
  <2>4. QED
    BY <1>1, <1>2, <2>3, QtyAssumption DEF Init
<1>10. QED
  BY <1>3, <1>6, <1>7, <1>8, <1>9 DEF UpkeepInductive

LEMMA UpkeepMoves ==
    ASSUME UpkeepAssumption, UpkeepInductive, [UpkeepNext]_allVars
    PROVE  UpkeepInductive'
<1>1. /\ UpkeepType /\ Calls /\ Rows
      /\ AvailableUnlessOverwritten /\ ShelfAccounted /\ HoldsAccounted
  BY DEF UpkeepInductive
<1>2. UpkeepType' /\ Calls'
  <2>1. CASE UNCHANGED allVars
    <3>1. UNCHANGED <<vars, clerk, job, moved, overwrote, clamped, lostRecount>>
      BY <2>1 DEF allVars, upkeepVars, upkeepHistory
    <3>2. TypeOK' /\ Calls'
      BY <1>1, <3>1, VarsKeep DEF UpkeepType
    <3>3. ClerksOpen' /\ JobOpen'
      BY <1>1, <3>1 DEF UpkeepType, ClerksOpen, JobOpen
    <3>4. QED
      BY <1>1, <3>1, <3>2, <3>3 DEF UpkeepType
  <2>2. CASE UpkeepNext
    <3>1. CASE ReservationStep \/ \E t \in Clerks : TillCommit(t)
      BY <1>1, <3>1, ReservationTypes
    <3>2. CASE ClerkStep /\ ~\E t \in Clerks : TillCommit(t)
      <4>1. PICK t \in Clerks :
                \/ \E p \in Products, q \in Amounts : AdjustRead(t, p, q)
                \/ AdjustWrite(t)
                \/ \E o \in Orders : TillCheck(t, o)
                \/ \E p \in Products : DeductRead(t, p) \/ DeductUpdate(t, p)
                \/ DeductCommit(t)
                \/ ClerkAbort(t)
        BY <3>2 DEF ClerkStep
      <4>2. QED
        BY <1>1, <4>1, ClerkTypes
    <3>3. CASE \E c \in Connections, o \in Orders : WalkInReturn(c, o)
      BY <1>1, <3>3, WalkInTypes
    <3>4. CASE JobStep \/ JobCrash
      BY <1>1, <3>4, JobTypes
    <3>5. QED
      BY <2>2, <3>1, <3>2, <3>3, <3>4 DEF UpkeepNext
  <2>3. QED
    BY <2>1, <2>2
<1>3. Rows'
  BY <1>1, RowsStep
<1>4. AvailableUnlessOverwritten'
  BY <1>1, UncutStep
<1>5. ShelfAccounted' /\ HoldsAccounted'
  BY <1>1, ShelfStep, HoldsStep
<1>6. QED
  BY <1>2, <1>3, <1>4, <1>5 DEF UpkeepInductive

\* While no write was stale or cut at zero, availableStock is what checkStock
\* calls it, whatever clerks, tills, reservations and the nightly job do.
THEOREM UncutIsFree ==
    UpkeepAssumption => (UpkeepSpec => []AvailableUnlessOverwritten)
<1> SUFFICES ASSUME UpkeepAssumption
             PROVE  UpkeepSpec => []AvailableUnlessOverwritten
  OBVIOUS
<1>1. UpkeepInductive /\ [UpkeepNext]_allVars => UpkeepInductive'
  BY UpkeepMoves
<1>2. UpkeepInductive => AvailableUnlessOverwritten
  BY DEF UpkeepInductive
<1>3. QED
  BY UpkeepStarts, <1>1, <1>2, PTL DEF UpkeepSpec

\* The shelf count is what the movements left, and reservedStock what the
\* reservations hold, unless a write was stale, cut at zero or never made.
THEOREM StockBooksKept ==
    UpkeepAssumption => (UpkeepSpec => [](ShelfAccounted /\ HoldsAccounted))
<1> SUFFICES ASSUME UpkeepAssumption
             PROVE  UpkeepSpec => [](ShelfAccounted /\ HoldsAccounted)
  OBVIOUS
<1>1. UpkeepInductive /\ [UpkeepNext]_allVars => UpkeepInductive'
  BY UpkeepMoves
<1>2. UpkeepInductive => ShelfAccounted /\ HoldsAccounted
  BY DEF UpkeepInductive
<1>3. QED
  BY UpkeepStarts, <1>1, <1>2, PTL DEF UpkeepSpec
=============================================================================
