--------------------------- MODULE StoreDay_proofs ---------------------------
(***************************************************************************)
(* Theorems about what a day leaves of the books of a store, as module     *)
(* StoreDay has them, for any products, orders, clerks, staff, devices and *)
(* jobs at once: the stock, and the staff with their clock, breaks, cost,  *)
(* roster, rights and credit.  A behaviour follows one part, so each       *)
(* invariant is that of a component, under its focus.                      *)
(***************************************************************************)
EXTENDS StoreDay, Sums

\* What is proved of the stock under clerks, tills and the nightly recount.
Facts == INSTANCE StockUpkeep_proofs WITH
    Orders <- Slips, Products <- Shelf, Connections <- Links, Clerks <- Hands,
    Qty <- Ordered, InitialStock <- OnTheShelf

-----------------------------------------------------------------------------
(* The stock: the invariant of StockUpkeep_proofs.                         *)

\* The two instances of module StockUpkeep are one.
LEMMA SameUpkeep ==
    /\ Upkeep!UpkeepInit = Facts!UpkeepInit
    /\ Upkeep!UpkeepNext = Facts!UpkeepNext
    /\ Upkeep!AvailableUnlessOverwritten = Facts!AvailableUnlessOverwritten
    /\ Upkeep!ShelfAccounted = Facts!ShelfAccounted
    /\ Upkeep!HoldsAccounted = Facts!HoldsAccounted
<1>1. Upkeep!UpkeepInit = Facts!UpkeepInit
  BY Zenon DEF Upkeep!UpkeepInit, Facts!UpkeepInit, Upkeep!Init, Facts!Init,
      Upkeep!Idle, Facts!Idle, Upkeep!JobIdle, Facts!JobIdle
<1>2. Upkeep!UpkeepNext = Facts!UpkeepNext
  BY Zenon DEF Upkeep!UpkeepNext, Facts!UpkeepNext, Upkeep!ReservationStep,
      Facts!ReservationStep, Upkeep!ClerkStep, Facts!ClerkStep, Upkeep!JobStep,
      Facts!JobStep, Upkeep!AdjustRead, Facts!AdjustRead, Upkeep!AdjustWrite,
      Facts!AdjustWrite, Upkeep!TillCheck, Facts!TillCheck, Upkeep!TillCommit,
      Facts!TillCommit, Upkeep!DeductRead, Facts!DeductRead, Upkeep!DeductUpdate,
      Facts!DeductUpdate, Upkeep!DeductCommit, Facts!DeductCommit,
      Upkeep!ClerkAbort, Facts!ClerkAbort, Upkeep!WalkInReturn, Facts!WalkInReturn,
      Upkeep!JobDrift, Facts!JobDrift, Upkeep!JobExpire, Facts!JobExpire,
      Upkeep!JobSum, Facts!JobSum, Upkeep!JobRead, Facts!JobRead, Upkeep!JobWrite,
      Facts!JobWrite, Upkeep!JobCrash, Facts!JobCrash, Upkeep!Next, Facts!Next,
      Upkeep!ReserveBegin, Facts!ReserveBegin, Upkeep!ReserveLine,
      Facts!ReserveLine, Upkeep!ReserveReject, Facts!ReserveReject,
      Upkeep!ReserveWrite, Facts!ReserveWrite, Upkeep!CommitRead, Facts!CommitRead,
      Upkeep!CommitWrite, Facts!CommitWrite, Upkeep!ReleaseRead, Facts!ReleaseRead,
      Upkeep!ReleaseWrite, Facts!ReleaseWrite, Upkeep!ReturnBegin,
      Facts!ReturnBegin, Upkeep!ReturnLine, Facts!ReturnLine, Upkeep!Abort,
      Facts!Abort, Upkeep!Upkeep, Facts!Upkeep, Upkeep!Free, Facts!Free,
      Upkeep!Finish, Facts!Finish, Upkeep!Locked, Facts!Locked,
      Upkeep!RespectsLocks, Facts!RespectsLocks, Upkeep!Repair, Facts!Repair,
      Upkeep!JobIdle, Facts!JobIdle, Upkeep!RecountNext, Facts!RecountNext,
      Upkeep!NotBelowZero, Facts!NotBelowZero, Upkeep!AvailableFor,
      Facts!AvailableFor, Upkeep!Open, Facts!Open, Upkeep!Close, Facts!Close,
      Upkeep!SetStatus, Facts!SetStatus, Upkeep!Add, Facts!Add, Upkeep!Sub,
      Facts!Sub, Upkeep!Idle, Facts!Idle, Upkeep!EveryLine, Facts!EveryLine,
      Upkeep!Lines, Facts!Lines, Upkeep!ActiveLines, Facts!ActiveLines, Upkeep!Held,
      Facts!Held, Upkeep!SumQuantity, Facts!SumQuantity, Upkeep!With, Facts!With,
      Upkeep!UnitsOn, Facts!UnitsOn, Upkeep!Cardinality, Facts!Cardinality,
      Upkeep!counters, Facts!counters, Upkeep!history, Facts!history,
      Upkeep!upkeepHistory, Facts!upkeepHistory, Upkeep!upkeepVars,
      Facts!upkeepVars, Upkeep!vars, Facts!vars
<1>3. Upkeep!AvailableUnlessOverwritten = Facts!AvailableUnlessOverwritten
  BY Zenon DEF Upkeep!AvailableUnlessOverwritten, Facts!AvailableUnlessOverwritten,
      Upkeep!AvailableIsFree, Facts!AvailableIsFree
<1>4. Upkeep!ShelfAccounted = Facts!ShelfAccounted
  BY Zenon DEF Upkeep!ShelfAccounted, Facts!ShelfAccounted, Upkeep!Sold, Facts!Sold,
      Upkeep!Returned, Facts!Returned, Upkeep!GivenBack, Facts!GivenBack,
      Upkeep!SumQuantity, Facts!SumQuantity, Upkeep!With, Facts!With,
      Upkeep!UnitsOn, Facts!UnitsOn, Upkeep!Lines, Facts!Lines, Upkeep!Cardinality,
      Facts!Cardinality
<1>5. Upkeep!HoldsAccounted = Facts!HoldsAccounted
  BY Zenon DEF Upkeep!HoldsAccounted, Facts!HoldsAccounted, Upkeep!Held, Facts!Held,
      Upkeep!SumQuantity, Facts!SumQuantity, Upkeep!With, Facts!With,
      Upkeep!UnitsOn, Facts!UnitsOn, Upkeep!Lines, Facts!Lines, Upkeep!Cardinality,
      Facts!Cardinality
<1>6. QED
  BY <1>1, <1>2, <1>3, <1>4, <1>5

\* What StockUpkeep assumes of its constants.
LEMMA FewSlips ==
    /\ MaxQty \in Nat /\ Ordered \in [Slips -> [Shelf -> 0 .. MaxQty]]
    /\ OnTheShelf \in [Shelf -> Nat] /\ Facts!IsFiniteSet(Slips)
BY StoreDayAssumption DEF IsFiniteSet, Facts!IsFiniteSet

StockInductive == focus = "stock" => Facts!UpkeepInductive

\* A step of another part leaves the stock alone.
LEMMA StockKept == Spec => []StockInductive
<1>1. Init => StockInductive
  BY Facts!UpkeepStarts, SameUpkeep, FewSlips
     DEF Init, StockInductive
<1>2. StockInductive /\ [Next]_everyVar => StockInductive'
  <2> SUFFICES ASSUME StockInductive, [Next]_everyVar, focus' = "stock"
               PROVE  Facts!UpkeepInductive'
    BY DEF StockInductive
  <2>1. focus = "stock" /\ [Upkeep!UpkeepNext]_upkeepVars
    BY DEF Next, everyVar
  <2>2. [Facts!UpkeepNext]_Facts!allVars
    BY <2>1, SameUpkeep DEF upkeepVars, Facts!allVars, Facts!vars, Facts!counters,
       Facts!history, Facts!upkeepVars, Facts!upkeepHistory
  <2>3. Facts!UpkeepAssumption
    BY StoreDayAssumption DEF Facts!UpkeepAssumption
  <2>4. Facts!UpkeepInductive
    BY <2>1 DEF StockInductive
  <2>5. QED
    BY <2>2, <2>3, <2>4, Facts!UpkeepMoves, FewSlips
<1>3. QED
  BY <1>1, <1>2, PTL DEF Spec

\* availableStock is what checkStock computes, while no absolute write used a
\* value no longer current and none was cut at zero (AvailableUnlessOverwritten).
THEOREM AvailableIsWhatIsFree == Spec => []AvailableUnlessOverwritten
<1>1. StockInductive => AvailableUnlessOverwritten
  BY SameUpkeep DEF StockInductive, AvailableUnlessOverwritten, Facts!UpkeepInductive
<1>2. QED
  BY <1>1, StockKept, PTL

-----------------------------------------------------------------------------
(* The alerts: what is held of an item is the quantities of the orders     *)
(* that hold it, summed as the lines of a reservation are.                *)

TakenOf == [o \in Slips |-> [i \in Shelf |->
    IF ItemTaken[o].item = i THEN ItemTaken[o].quantity ELSE 0]]

Takings == INSTANCE StockUpkeep_proofs WITH
    Orders <- Slips, Products <- Shelf, Connections <- Links, Clerks <- Hands,
    Qty <- TakenOf, InitialStock <- OnTheShelf

Holding == {o \in Slips : holdOf[o] = "active"}
HeldOf(i) == Takings!Cardinality(Takings!UnitsOn(Holding, i))

AlertRow == [current : Int, reserved : Int, available : Int,
             status : {"IN_STOCK", "LOW_STOCK", "OUT_OF_STOCK"},
             lowSent : BOOLEAN, outSent : BOOLEAN]
TellCall == [op : {"tell", "flag", "reset"}, of : Shelf]
CheckRun == [op : {"check"}, rows : [Shelf -> AlertRow], todo : SUBSET Shelf,
             found : SUBSET Shelf]

AlertsType ==
    /\ item \in [Shelf -> AlertRow]
    /\ holdOf \in [Slips -> {"none", "active", "committed", "released", "returned"}]
    /\ alertClerk \in [Adjusters -> TellCall \union {Alerts!Idle}]
    /\ run \in [Checks -> CheckRun \union {Alerts!Idle}]
    /\ added \in [Shelf -> Int] /\ cut \in [Shelf -> Int] /\ saleUnits \in [Shelf -> Int]

\* While no unit on hold was sold, what is available is what is not on hold.
HoldsFit ==
    \A i \in Shelf :
        /\ item[i].reserved = HeldOf(i)
        /\ i \notin oversold => /\ item[i].available = item[i].current - item[i].reserved
                               /\ item[i].current >= item[i].reserved

EmptyIsMarked ==
    \A i \in Shelf \ (outdated \union oversold) :
        item[i].current = 0 => item[i].status = "OUT_OF_STOCK"

\* More than there was is only sold by a sale.
UnitsExplained ==
    \A i \in Shelf :
        /\ Start + added[i] - saleUnits[i] + cut[i] = item[i].current
        /\ saleUnits[i] >= 0
        /\ saleUnits[i] = 0 => cut[i] = 0

AlertsInductive ==
    /\ AlertsType /\ HoldsFit /\ EmptyIsMarked /\ Alerts!FlaggedIsTold /\ UnitsExplained

\* The orders that hold are counted with their quantities.
LEMMA TakenUnits ==
    /\ MaxQty \in Nat /\ TakenOf \in [Slips -> [Shelf -> 0 .. MaxQty]]
    /\ OnTheShelf \in [Shelf -> Nat] /\ Takings!IsFiniteSet(Slips)
<1>1. /\ MaxQty \in Nat /\ ItemTaken \in [Slips -> [item : Shelf, quantity : 1 .. MaxQty]]
      /\ OnTheShelf \in [Shelf -> Nat] /\ IsFiniteSet(Slips)
  BY StoreDayAssumption
<1>2. TakenOf \in [Slips -> [Shelf -> 0 .. MaxQty]]
  BY <1>1 DEF TakenOf
<1>3. Takings!IsFiniteSet(Slips)
  BY <1>1 DEF IsFiniteSet, Takings!IsFiniteSet
<1>4. QED
  BY <1>1, <1>2, <1>3

LEMMA HeldIsCounted == \A i \in Shelf : HeldOf(i) \in Nat /\ HeldOf(i)' \in Nat
<1>1. Holding \in SUBSET Slips /\ Holding' \in SUBSET Slips
  BY DEF Holding
<1>2. QED
  BY <1>1, TakenUnits, Takings!UnitsFinite DEF HeldOf, Takings!UnitsOn

\* An order takes a hold, gives it up, or had none and gets none.
LEMMA HoldTaken ==
    ASSUME AlertsType, NEW o \in Slips, holdOf[o] = "none",
           holdOf' = [holdOf EXCEPT ![o] = "active"]
    PROVE  \A i \in Shelf : HeldOf(i)' = HeldOf(i) + TakenOf[o][i]
<1>1. Holding \in SUBSET Slips /\ o \in Slips \ Holding /\ Holding' = Holding \union {o}
  BY DEF AlertsType, Holding
<1>2. QED
  BY <1>1, TakenUnits, Takings!UnitsAdd DEF HeldOf, Takings!UnitsOn

LEMMA HoldGivenUp ==
    ASSUME AlertsType, NEW o \in Slips, holdOf[o] = "active",
           NEW s, s # "active", holdOf' = [holdOf EXCEPT ![o] = s]
    PROVE  \A i \in Shelf : HeldOf(i)' = HeldOf(i) - TakenOf[o][i]
<1>1. Holding \in SUBSET Slips /\ o \in Holding /\ Holding' = Holding \ {o}
  BY DEF AlertsType, Holding
<1>2. QED
  BY <1>1, TakenUnits, Takings!UnitsRemove DEF HeldOf, Takings!UnitsOn

LEMMA HoldUntouched ==
    ASSUME AlertsType, NEW o \in Slips, holdOf[o] # "active",
           NEW s, s # "active", holdOf' = [holdOf EXCEPT ![o] = s]
    PROVE  \A i \in Shelf : HeldOf(i)' = HeldOf(i)
<1>1. Holding' = Holding
  BY DEF AlertsType, Holding
<1>2. QED
  BY <1>1 DEF HeldOf, Takings!UnitsOn

\* A clerk's call and a run are told apart by their op.
LEMMA AlertCalls ==
    ASSUME AlertsType
    PROVE  /\ \A c \in Adjusters :
                  /\ alertClerk[c].op \in {"tell", "flag", "reset"} => alertClerk[c] \in TellCall
                  /\ alertClerk[c] # Alerts!Idle => alertClerk[c] \in TellCall
           /\ \A r \in Checks : /\ run[r].op = "check" => run[r] \in CheckRun
                                /\ run[r] = Alerts!Idle => run[r].op = "idle"
BY DEF AlertsType, Alerts!Idle

\* What is ordered of an item.
LEMMA TakesUnits ==
    ASSUME NEW o \in Slips
    PROVE  /\ ItemTaken[o].item \in Shelf /\ Alerts!Take(o) \in Nat /\ Alerts!Take(o) > 0
           /\ Alerts!Of(o) = item[ItemTaken[o].item]
           /\ \A i \in Shelf : TakenOf[o][i] = IF ItemTaken[o].item = i THEN Alerts!Take(o) ELSE 0
<1>1. MaxQty \in Nat /\ ItemTaken \in [Slips -> [item : Shelf, quantity : 1 .. MaxQty]]
  BY StoreDayAssumption
<1>2. QED
  BY <1>1 DEF Alerts!Take, Alerts!Of, TakenOf

\* What the writers of a row make of it.
Rewritten(i, c, h, a, s) ==
    /\ c \in Int /\ h \in Int /\ a \in Int
    /\ s \in {"IN_STOCK", "LOW_STOCK", "OUT_OF_STOCK"}
    /\ item' = [item EXCEPT ![i] = Alerts!Row(i, c, h, a, s)]

LEMMA RowRewritten ==
    ASSUME AlertsType, NEW i \in Shelf, NEW c, NEW h, NEW a, NEW s, Rewritten(i, c, h, a, s)
    PROVE  /\ item' \in [Shelf -> AlertRow]
           /\ item'[i].current = c /\ item'[i].reserved = h /\ item'[i].available = a
           /\ item'[i].status = s
           /\ \A j \in Shelf : /\ j # i => item'[j] = item[j]
                               /\ item'[j].lowSent = item[j].lowSent
                               /\ item'[j].outSent = item[j].outSent
<1>1. item \in [Shelf -> AlertRow]
  BY DEF AlertsType
<1>2. item[i].lowSent \in BOOLEAN /\ item[i].outSent \in BOOLEAN
  BY <1>1 DEF AlertRow
<1>3. Alerts!Row(i, c, h, a, s) \in AlertRow
  BY <1>2 DEF Rewritten, Alerts!Row, AlertRow
<1>4. item'[i] = Alerts!Row(i, c, h, a, s) /\ \A j \in Shelf : j # i => item'[j] = item[j]
  BY <1>1 DEF Rewritten
<1>5. item' \in [Shelf -> AlertRow]
  BY <1>1, <1>3 DEF Rewritten
<1>6. QED
  BY <1>4, <1>5 DEF Alerts!Row

LEMMA RowTyped ==
    ASSUME AlertsType, NEW i \in Shelf
    PROVE  /\ item[i].current \in Int /\ item[i].reserved \in Int /\ item[i].available \in Int
           /\ item[i].status \in {"IN_STOCK", "LOW_STOCK", "OUT_OF_STOCK"}
           /\ item[i].lowSent \in BOOLEAN /\ item[i].outSent \in BOOLEAN
<1>1. item[i] \in AlertRow
  BY DEF AlertsType
<1>2. QED
  BY <1>1 DEF AlertRow

\* What each writer of the counters makes of the row of its item.
LEMMA OrderRewrites ==
    ASSUME AlertsType, NEW o \in Slips
    PROVE  LET i == ItemTaken[o].item
               r == item[i]
               q == Alerts!Take(o)
           IN  /\ Alerts!reserveForOrder(o) =>
                      Rewritten(i, r.current, r.reserved + q, r.available - q, r.status)
               /\ Alerts!commitForOrder(o) =>
                      Rewritten(i, r.current - q, r.reserved - q, r.available,
                                Alerts!SaleStatus(r.current - q))
               /\ Alerts!releaseForOrder(o) =>
                      Rewritten(i, r.current, r.reserved - q, r.available + q,
                                IF r.available + q > 0 THEN "IN_STOCK" ELSE "OUT_OF_STOCK")
               /\ Alerts!returnStock(o) =>
                      Rewritten(i, r.current + q, r.reserved, r.available + q, "IN_STOCK")
<1> DEFINE i == ItemTaken[o].item
           q == Alerts!Take(o)
<1>1. i \in Shelf /\ q \in Nat /\ Alerts!Of(o) = item[i]
  BY TakesUnits
<1>2. /\ item[i].current \in Int /\ item[i].reserved \in Int /\ item[i].available \in Int
      /\ item[i].status \in {"IN_STOCK", "LOW_STOCK", "OUT_OF_STOCK"}
  BY <1>1, RowTyped
<1> HIDE DEF q
<1>3. QED
  BY <1>1, <1>2 DEF Rewritten, Alerts!reserveForOrder, Alerts!commitForOrder,
     Alerts!releaseForOrder, Alerts!returnStock, Alerts!Write, Alerts!SaleStatus, q

LEMMA ShelfRewrites ==
    ASSUME AlertsType, NEW i \in Shelf, NEW q \in Int
    PROVE  LET r == item[i]
               rest == Alerts!NotBelowZero(r.current - q)
               new == r.current + q
           IN  /\ Alerts!deductForOrder(i, q) =>
                      Rewritten(i, rest, r.reserved, Alerts!NotBelowZero(rest - r.reserved),
                                Alerts!SaleStatus(rest))
               /\ \A c \in Adjusters : Alerts!adjustStock(c, i, q) =>
                      Rewritten(i, new, r.reserved, Alerts!NotBelowZero(new - r.reserved),
                                Alerts!StatusFor(new))
<1>1. /\ item[i].current \in Int /\ item[i].reserved \in Int /\ item[i].available \in Int
      /\ item[i].status \in {"IN_STOCK", "LOW_STOCK", "OUT_OF_STOCK"}
  BY RowTyped
<1>2. ReorderPoint \in Int
  BY StoreDayAssumption
<1>3. QED
  BY <1>1, <1>2 DEF Rewritten, Alerts!deductForOrder, Alerts!adjustStock, Alerts!Write,
     Alerts!SaleStatus, Alerts!StatusFor, Alerts!NotBelowZero

\* The flags, and who set them, are left alone by the writers of the counters.
LEMMA FlagsKept ==
    ASSUME Alerts!FlaggedIsTold, UNCHANGED <<run, told, lost>>,
           \A i \in Shelf : /\ item'[i].lowSent = item[i].lowSent
                            /\ item'[i].outSent = item[i].outSent
    PROVE  Alerts!FlaggedIsTold'
BY DEF Alerts!FlaggedIsTold

\* An order takes a hold, sells what it held, gives it up or brings it back.
LEMMA OrderStep ==
    ASSUME AlertsInductive, NEW o \in Slips,
           \/ Alerts!reserveForOrder(o) \/ Alerts!commitForOrder(o)
           \/ Alerts!releaseForOrder(o) \/ Alerts!returnStock(o)
    PROVE  AlertsInductive'
<1> DEFINE x == ItemTaken[o].item
           q == Alerts!Take(o)
<1>1. /\ AlertsType /\ HoldsFit /\ EmptyIsMarked /\ Alerts!FlaggedIsTold /\ UnitsExplained
  BY DEF AlertsInductive
<1>2. /\ x \in Shelf /\ q \in Nat /\ q > 0 /\ Alerts!Of(o) = item[x]
      /\ \A i \in Shelf : TakenOf[o][i] = IF x = i THEN q ELSE 0
  BY TakesUnits
<1>3. /\ item \in [Shelf -> AlertRow]
      /\ holdOf \in [Slips -> {"none", "active", "committed", "released", "returned"}]
      /\ added \in [Shelf -> Int] /\ cut \in [Shelf -> Int] /\ saleUnits \in [Shelf -> Int]
  BY <1>1 DEF AlertsType
<1>4. /\ \A i \in Shelf : /\ item[i].current \in Int /\ item[i].reserved \in Int
                          /\ item[i].available \in Int
      /\ Start \in Int
  BY <1>1, RowTyped, StoreDayAssumption
<1>5. UNCHANGED <<alertClerk, run, told, lost>>
  BY DEF Alerts!reserveForOrder, Alerts!commitForOrder, Alerts!releaseForOrder,
     Alerts!returnStock, Alerts!Flags
<1>6. \E c, h, a, s : Rewritten(x, c, h, a, s)
  BY <1>1, OrderRewrites
<1>7. PICK c, h, a, s : Rewritten(x, c, h, a, s)
  BY <1>6
<1>8. /\ item' \in [Shelf -> AlertRow]
      /\ \A j \in Shelf : /\ j # x => item'[j] = item[j]
                          /\ item'[j].lowSent = item[j].lowSent
                          /\ item'[j].outSent = item[j].outSent
  BY <1>1, <1>2, <1>7, RowRewritten
<1> HIDE DEF q
<1>9. \E s2 \in {"active", "committed", "released", "returned"} :
          holdOf' = [holdOf EXCEPT ![o] = s2]
  BY DEF Alerts!reserveForOrder, Alerts!commitForOrder, Alerts!releaseForOrder,
     Alerts!returnStock
<1>10. AlertsType'
  <2>1. /\ added' \in [Shelf -> Int] /\ cut' \in [Shelf -> Int] /\ saleUnits' \in [Shelf -> Int]
    BY <1>2, <1>3 DEF Alerts!reserveForOrder, Alerts!commitForOrder,
       Alerts!releaseForOrder, Alerts!returnStock, Alerts!Counts, q
  <2>2. holdOf' \in [Slips -> {"none", "active", "committed", "released", "returned"}]
    BY <1>3, <1>9
  <2>3. QED
    BY <1>1, <1>5, <1>8, <2>1, <2>2 DEF AlertsType
<1>11. Alerts!FlaggedIsTold'
  BY <1>1, <1>5, <1>8, FlagsKept
<1>12. CASE Alerts!reserveForOrder(o)
  <2>1. Rewritten(x, item[x].current, item[x].reserved + q, item[x].available - q, item[x].status)
    BY <1>1, <1>12, OrderRewrites DEF q
  <2>2. /\ item'[x].current = item[x].current /\ item'[x].reserved = item[x].reserved + q
        /\ item'[x].available = item[x].available - q /\ item'[x].status = item[x].status
    BY <1>1, <1>2, <2>1, RowRewritten
  <2>3. /\ holdOf[o] = "none" /\ item[x].available >= q
        /\ holdOf' = [holdOf EXCEPT ![o] = "active"]
        /\ UNCHANGED <<oversold, outdated, added, cut, saleUnits>>
    BY <1>2, <1>12 DEF Alerts!reserveForOrder, Alerts!Counts, q
  <2>4. \A i \in Shelf : HeldOf(i) \in Nat /\ HeldOf(i)' = HeldOf(i) + TakenOf[o][i]
    BY <1>1, <2>3, HoldTaken, HeldIsCounted
  <2>5. HoldsFit'
    BY <1>1, <1>2, <1>4, <1>8, <2>2, <2>3, <2>4 DEF HoldsFit
  <2>6. EmptyIsMarked' /\ UnitsExplained'
    BY <1>1, <1>2, <1>8, <2>2, <2>3 DEF EmptyIsMarked, UnitsExplained
  <2>7. QED
    BY <1>10, <1>11, <2>5, <2>6 DEF AlertsInductive
<1>13. CASE Alerts!commitForOrder(o)
  <2>1. Rewritten(x, item[x].current - q, item[x].reserved - q, item[x].available,
                  Alerts!SaleStatus(item[x].current - q))
    BY <1>1, <1>13, OrderRewrites DEF q
  <2>2. /\ item'[x].current = item[x].current - q /\ item'[x].reserved = item[x].reserved - q
        /\ item'[x].available = item[x].available
        /\ item'[x].status = Alerts!SaleStatus(item[x].current - q)
    BY <1>1, <1>2, <2>1, RowRewritten
  <2>3. /\ holdOf[o] = "active" /\ holdOf' = [holdOf EXCEPT ![o] = "committed"]
        /\ outdated' = outdated \ {x}
        /\ oversold' = IF item[x].current - q < item[x].reserved - q
                       THEN oversold \union {x} ELSE oversold
        /\ saleUnits' = [saleUnits EXCEPT ![x] = @ + q] /\ UNCHANGED <<added, cut>>
    BY <1>2, <1>13 DEF Alerts!commitForOrder, Alerts!Write, q
  <2>4. \A i \in Shelf : HeldOf(i) \in Nat /\ HeldOf(i)' = HeldOf(i) - TakenOf[o][i]
    BY <1>1, <2>3, HoldGivenUp, HeldIsCounted
  <2>5. HoldsFit'
    BY <1>1, <1>2, <1>4, <1>8, <2>2, <2>3, <2>4 DEF HoldsFit
  <2>6. EmptyIsMarked'
    BY <1>1, <1>2, <1>4, <1>8, <2>2, <2>3 DEF EmptyIsMarked, Alerts!SaleStatus
  <2>7. UnitsExplained'
    BY <1>1, <1>2, <1>3, <1>4, <1>8, <2>2, <2>3 DEF UnitsExplained
  <2>8. QED
    BY <1>10, <1>11, <2>5, <2>6, <2>7 DEF AlertsInductive
<1>14. CASE Alerts!releaseForOrder(o)
  <2>1. Rewritten(x, item[x].current, item[x].reserved - q, item[x].available + q,
                  IF item[x].available + q > 0 THEN "IN_STOCK" ELSE "OUT_OF_STOCK")
    BY <1>1, <1>14, OrderRewrites DEF q
  <2>2. /\ item'[x].current = item[x].current /\ item'[x].reserved = item[x].reserved - q
        /\ item'[x].available = item[x].available + q
        /\ item'[x].status = IF item[x].available + q > 0 THEN "IN_STOCK" ELSE "OUT_OF_STOCK"
    BY <1>1, <1>2, <2>1, RowRewritten
  <2>3. /\ holdOf[o] = "active" /\ holdOf' = [holdOf EXCEPT ![o] = "released"]
        /\ outdated' = outdated \ {x}
        /\ oversold' = IF item[x].current < item[x].reserved - q
                       THEN oversold \union {x} ELSE oversold
        /\ UNCHANGED <<added, cut, saleUnits>>
    BY <1>2, <1>14 DEF Alerts!releaseForOrder, Alerts!Write, Alerts!Counts, q
  <2>4. \A i \in Shelf : /\ HeldOf(i) \in Nat /\ HeldOf(i)' \in Nat
                         /\ HeldOf(i)' = HeldOf(i) - TakenOf[o][i]
    BY <1>1, <2>3, HoldGivenUp, HeldIsCounted
  <2>5. HoldsFit'
    BY <1>1, <1>2, <1>4, <1>8, <2>2, <2>3, <2>4 DEF HoldsFit
  <2>6. item'[x].reserved >= 0
    BY <1>2, <2>4, <2>5 DEF HoldsFit
  <2>7. EmptyIsMarked'
    BY <1>1, <1>2, <1>4, <1>8, <2>2, <2>3, <2>5, <2>6 DEF EmptyIsMarked, HoldsFit
  <2>8. UnitsExplained'
    BY <1>1, <1>2, <1>8, <2>2, <2>3 DEF UnitsExplained
  <2>9. QED
    BY <1>10, <1>11, <2>5, <2>7, <2>8 DEF AlertsInductive
<1>15. CASE Alerts!returnStock(o)
  <2>1. Rewritten(x, item[x].current + q, item[x].reserved, item[x].available + q, "IN_STOCK")
    BY <1>1, <1>15, OrderRewrites DEF q
  <2>2. /\ item'[x].current = item[x].current + q /\ item'[x].reserved = item[x].reserved
        /\ item'[x].available = item[x].available + q /\ item'[x].status = "IN_STOCK"
    BY <1>1, <1>2, <2>1, RowRewritten
  <2>3. /\ holdOf[o] = "committed" /\ holdOf' = [holdOf EXCEPT ![o] = "returned"]
        /\ outdated' = outdated \ {x}
        /\ oversold' = IF item[x].current + q < item[x].reserved
                       THEN oversold \union {x} ELSE oversold
        /\ added' = [added EXCEPT ![x] = @ + q] /\ UNCHANGED <<cut, saleUnits>>
    BY <1>2, <1>15 DEF Alerts!returnStock, Alerts!Write, q
  <2>4. \A i \in Shelf : HeldOf(i) \in Nat /\ HeldOf(i)' = HeldOf(i)
    BY <1>1, <2>3, HoldUntouched, HeldIsCounted
  <2>5. HoldsFit'
    BY <1>1, <1>2, <1>4, <1>8, <2>2, <2>3, <2>4 DEF HoldsFit
  <2>6. item[x].reserved >= 0
    BY <1>1, <1>2, <2>4 DEF HoldsFit
  <2>7. EmptyIsMarked'
    BY <1>1, <1>2, <1>4, <1>8, <2>2, <2>3, <2>6 DEF EmptyIsMarked, HoldsFit
  <2>8. UnitsExplained'
    BY <1>1, <1>2, <1>3, <1>4, <1>8, <2>2, <2>3 DEF UnitsExplained
  <2>9. QED
    BY <1>10, <1>11, <2>5, <2>7, <2>8 DEF AlertsInductive
<1>16. QED
  BY <1>12, <1>13, <1>14, <1>15

\* A walk-in sale, booked in full.
LEMMA DeductStep ==
    ASSUME AlertsInductive, NEW x \in Shelf, NEW q \in Int, q > 0, Alerts!deductForOrder(x, q)
    PROVE  AlertsInductive'
<1> DEFINE rest == Alerts!NotBelowZero(item[x].current - q)
<1>1. /\ AlertsType /\ HoldsFit /\ EmptyIsMarked /\ Alerts!FlaggedIsTold /\ UnitsExplained
  BY DEF AlertsInductive
<1>2. /\ added \in [Shelf -> Int] /\ cut \in [Shelf -> Int] /\ saleUnits \in [Shelf -> Int]
      /\ item \in [Shelf -> AlertRow]
  BY <1>1 DEF AlertsType
<1>3. /\ item[x].current \in Int /\ item[x].reserved \in Int /\ item[x].available \in Int
      /\ Start \in Int
  BY <1>1, RowTyped, StoreDayAssumption
<1>4. /\ rest \in Int /\ rest >= 0
  BY <1>3 DEF Alerts!NotBelowZero
<1>5. Rewritten(x, rest, item[x].reserved, Alerts!NotBelowZero(rest - item[x].reserved),
                Alerts!SaleStatus(rest))
  BY <1>1, ShelfRewrites
<1>6. /\ outdated' = outdated \ {x}
      /\ oversold' = IF rest < item[x].reserved THEN oversold \union {x} ELSE oversold
      /\ saleUnits' = [saleUnits EXCEPT ![x] = @ + q]
      /\ cut' = [cut EXCEPT ![x] = @ + q - (item[x].current - rest)]
      /\ UNCHANGED <<holdOf, added, alertClerk, run, told, lost>>
  BY DEF Alerts!deductForOrder, Alerts!Write, Alerts!Flags
<1> HIDE DEF rest
<1>7. /\ item' \in [Shelf -> AlertRow]
      /\ item'[x].current = rest /\ item'[x].reserved = item[x].reserved
      /\ item'[x].available = Alerts!NotBelowZero(rest - item[x].reserved)
      /\ item'[x].status = Alerts!SaleStatus(rest)
      /\ \A j \in Shelf : /\ j # x => item'[j] = item[j]
                          /\ item'[j].lowSent = item[j].lowSent
                          /\ item'[j].outSent = item[j].outSent
  BY <1>1, <1>5, RowRewritten
<1>8. cut' \in [Shelf -> Int] /\ saleUnits' \in [Shelf -> Int]
  BY <1>2, <1>3, <1>4, <1>6
<1>9. AlertsType'
  BY <1>1, <1>6, <1>7, <1>8 DEF AlertsType
<1>10. \A i \in Shelf : HeldOf(i)' = HeldOf(i)
  BY <1>6 DEF HeldOf, Holding, Takings!UnitsOn
<1>11. HoldsFit'
  BY <1>1, <1>3, <1>4, <1>6, <1>7, <1>10 DEF HoldsFit, Alerts!NotBelowZero
<1>12. EmptyIsMarked'
  BY <1>1, <1>6, <1>7 DEF EmptyIsMarked, Alerts!SaleStatus
<1>13. UnitsExplained'
  BY <1>1, <1>2, <1>3, <1>4, <1>6, <1>7 DEF UnitsExplained
<1>14. Alerts!FlaggedIsTold'
  BY <1>1, <1>6, <1>7, FlagsKept
<1>15. QED
  BY <1>9, <1>11, <1>12, <1>13, <1>14 DEF AlertsInductive

\* The back office adds units, or takes some away.
LEMMA AdjustStep ==
    ASSUME AlertsInductive, NEW c \in Adjusters, NEW x \in Shelf, NEW q \in Int,
           Alerts!adjustStock(c, x, q)
    PROVE  AlertsInductive'
<1> DEFINE new == item[x].current + q
<1>1. /\ AlertsType /\ HoldsFit /\ EmptyIsMarked /\ Alerts!FlaggedIsTold /\ UnitsExplained
  BY DEF AlertsInductive
<1>2. /\ added \in [Shelf -> Int] /\ cut \in [Shelf -> Int] /\ saleUnits \in [Shelf -> Int]
      /\ item \in [Shelf -> AlertRow]
      /\ alertClerk \in [Adjusters -> TellCall \union {Alerts!Idle}]
  BY <1>1 DEF AlertsType
<1>3. /\ item[x].current \in Int /\ item[x].reserved \in Int /\ item[x].available \in Int
      /\ Start \in Int /\ ReorderPoint \in Int
  BY <1>1, RowTyped, StoreDayAssumption
<1>4. /\ new \in Int /\ new >= 0
  BY <1>3 DEF Alerts!adjustStock
<1>5. Rewritten(x, new, item[x].reserved, Alerts!NotBelowZero(new - item[x].reserved),
                Alerts!StatusFor(new))
  BY <1>1, ShelfRewrites
<1>6. /\ outdated' = outdated \ {x}
      /\ oversold' = IF new < item[x].reserved THEN oversold \union {x} ELSE oversold
      /\ added' = [added EXCEPT ![x] = @ + q]
      /\ UNCHANGED <<holdOf, cut, saleUnits, run, told, lost>>
  BY DEF Alerts!adjustStock, Alerts!Write
<1>7. \E r \in TellCall \union {Alerts!Idle} : alertClerk' = [alertClerk EXCEPT ![c] = r]
  <2>1. /\ [op |-> "tell", of |-> x] \in TellCall
        /\ [op |-> "reset", of |-> x] \in TellCall
    BY DEF TellCall
  <2>2. QED
    BY <2>1 DEF Alerts!adjustStock
<1> HIDE DEF new
<1>8. /\ item' \in [Shelf -> AlertRow]
      /\ item'[x].current = new /\ item'[x].reserved = item[x].reserved
      /\ item'[x].available = Alerts!NotBelowZero(new - item[x].reserved)
      /\ item'[x].status = Alerts!StatusFor(new)
      /\ \A j \in Shelf : /\ j # x => item'[j] = item[j]
                          /\ item'[j].lowSent = item[j].lowSent
                          /\ item'[j].outSent = item[j].outSent
  BY <1>1, <1>5, RowRewritten
<1>9. AlertsType'
  <2>1. alertClerk' \in [Adjusters -> TellCall \union {Alerts!Idle}]
    BY <1>2, <1>7
  <2>2. added' \in [Shelf -> Int]
    BY <1>2, <1>6
  <2>3. QED
    BY <1>1, <1>6, <1>8, <2>1, <2>2 DEF AlertsType
<1>10. \A i \in Shelf : HeldOf(i)' = HeldOf(i)
  BY <1>6 DEF HeldOf, Holding, Takings!UnitsOn
<1>11. HoldsFit'
  BY <1>1, <1>3, <1>4, <1>6, <1>8, <1>10 DEF HoldsFit, Alerts!NotBelowZero
<1>12. EmptyIsMarked'
  BY <1>1, <1>6, <1>8 DEF EmptyIsMarked, Alerts!StatusFor
<1>13. UnitsExplained'
  <2>1. item'[x].current = item[x].current + q
    BY <1>8 DEF new
  <2>2. QED
    BY <1>1, <1>2, <1>3, <1>6, <1>8, <2>1 DEF UnitsExplained
<1>14. Alerts!FlaggedIsTold'
  BY <1>1, <1>6, <1>8, FlagsKept
<1>15. QED
  BY <1>9, <1>11, <1>12, <1>13, <1>14 DEF AlertsInductive

\* A step that leaves the counters of every row alone.
CountersKept ==
    /\ \A i \in Shelf : /\ item'[i].current = item[i].current
                        /\ item'[i].reserved = item[i].reserved
                        /\ item'[i].available = item[i].available
    /\ UNCHANGED <<holdOf, added, cut, saleUnits, oversold>>

LEMMA CountersStay ==
    ASSUME HoldsFit, UnitsExplained, CountersKept
    PROVE  HoldsFit' /\ UnitsExplained'
<1>1. \A i \in Shelf : HeldOf(i)' = HeldOf(i)
  BY DEF CountersKept, HeldOf, Holding, Takings!UnitsOn
<1>2. HoldsFit'
  BY <1>1 DEF HoldsFit, CountersKept
<1>3. UnitsExplained'
  BY DEF UnitsExplained, CountersKept
<1>4. QED
  BY <1>2, <1>3

\* A clerk tells of a low item and sets its flag.
LEMMA TellStep ==
    ASSUME AlertsInductive, NEW c \in Adjusters, Alerts!TellLow(c) \/ Alerts!FlagLow(c)
    PROVE  AlertsInductive'
<1> DEFINE x == alertClerk[c].of
<1>1. /\ AlertsType /\ HoldsFit /\ EmptyIsMarked /\ Alerts!FlaggedIsTold /\ UnitsExplained
  BY DEF AlertsInductive
<1>2. /\ item \in [Shelf -> AlertRow]
      /\ alertClerk \in [Adjusters -> TellCall \union {Alerts!Idle}]
  BY <1>1 DEF AlertsType
<1>3. alertClerk[c] \in TellCall /\ x \in Shelf
  <2>1. alertClerk[c].op \in {"tell", "flag", "reset"}
    BY DEF Alerts!TellLow, Alerts!FlagLow
  <2>2. QED
    BY <1>1, <2>1, AlertCalls DEF TellCall
<1>4. /\ UNCHANGED <<holdOf, run, lost, oversold, outdated, added, cut, saleUnits>>
      /\ told' = told \union {x}
  BY DEF Alerts!TellLow, Alerts!FlagLow, Alerts!Counts
<1>5. item' = item \/ item' = [item EXCEPT ![x].lowSent = TRUE]
  BY DEF Alerts!TellLow, Alerts!FlagLow
<1> HIDE DEF x
<1>6. /\ item' \in [Shelf -> AlertRow]
      /\ \A i \in Shelf : /\ item'[i].current = item[i].current
                          /\ item'[i].reserved = item[i].reserved
                          /\ item'[i].available = item[i].available
                          /\ item'[i].status = item[i].status
                          /\ item'[i].outSent = item[i].outSent
                          /\ i # x => item'[i].lowSent = item[i].lowSent
  <2>1. CASE item' = item
    BY <1>2, <2>1
  <2>2. CASE item' = [item EXCEPT ![x].lowSent = TRUE]
    <3>1. /\ item'[x] = [item[x] EXCEPT !.lowSent = TRUE]
          /\ \A i \in Shelf : i # x => item'[i] = item[i]
      BY <1>2, <1>3, <2>2
    <3>2. item[x] \in AlertRow
      BY <1>2, <1>3
    <3>3. /\ [item[x] EXCEPT !.lowSent = TRUE] \in AlertRow
          /\ [item[x] EXCEPT !.lowSent = TRUE].current = item[x].current
          /\ [item[x] EXCEPT !.lowSent = TRUE].reserved = item[x].reserved
          /\ [item[x] EXCEPT !.lowSent = TRUE].available = item[x].available
          /\ [item[x] EXCEPT !.lowSent = TRUE].status = item[x].status
          /\ [item[x] EXCEPT !.lowSent = TRUE].outSent = item[x].outSent
      BY <3>2 DEF AlertRow
    <3>4. item' \in [Shelf -> AlertRow]
      BY <1>2, <1>3, <2>2, <3>3
    <3>5. QED
      BY <3>1, <3>3, <3>4
  <2>3. QED
    BY <1>5, <2>1, <2>2
<1>7. \E r \in TellCall \union {Alerts!Idle} : alertClerk' = [alertClerk EXCEPT ![c] = r]
  <2>1. CASE Alerts!TellLow(c)
    <3>1. [op |-> "flag", of |-> x] \in TellCall
      BY <1>3 DEF TellCall
    <3>2. alertClerk' = [alertClerk EXCEPT ![c] = [op |-> "flag", of |-> x]]
      BY <2>1 DEF Alerts!TellLow, x
    <3>3. QED
      BY <3>1, <3>2
  <2>2. CASE Alerts!FlagLow(c)
    BY <2>2 DEF Alerts!FlagLow
  <2>3. QED
    BY <2>1, <2>2
<1>8. AlertsType'
  BY <1>1, <1>2, <1>4, <1>6, <1>7 DEF AlertsType
<1>9. HoldsFit' /\ UnitsExplained'
  BY <1>1, <1>4, <1>6, CountersStay DEF CountersKept
<1>10. EmptyIsMarked'
  BY <1>1, <1>4, <1>6 DEF EmptyIsMarked
<1>11. Alerts!FlaggedIsTold'
  BY <1>1, <1>4, <1>6 DEF Alerts!FlaggedIsTold
<1>12. QED
  BY <1>8, <1>9, <1>10, <1>11 DEF AlertsInductive

\* Flags are taken back, and with them what anybody was told.
LEMMA ResetStep ==
    ASSUME AlertsInductive,
           (\E c \in Adjusters : Alerts!ResetBoth(c)) \/ Alerts!NightlyReset
    PROVE  AlertsInductive'
<1>1. /\ AlertsType /\ HoldsFit /\ EmptyIsMarked /\ Alerts!FlaggedIsTold /\ UnitsExplained
  BY DEF AlertsInductive
<1>2. PICK S : Alerts!ResetFlags(S)
  BY DEF Alerts!ResetBoth, Alerts!NightlyReset
<1>3. UNCHANGED <<holdOf, run, oversold, outdated, added, cut, saleUnits>>
  BY DEF Alerts!ResetBoth, Alerts!NightlyReset, Alerts!Counts
<1>4. /\ item \in [Shelf -> AlertRow]
      /\ alertClerk \in [Adjusters -> TellCall \union {Alerts!Idle}]
  BY <1>1 DEF AlertsType
<1>5. told' = told \ S /\ lost' = lost \ S
  BY <1>2 DEF Alerts!ResetFlags
<1>6. /\ item' \in [Shelf -> AlertRow]
      /\ \A i \in Shelf : /\ item'[i].current = item[i].current
                          /\ item'[i].reserved = item[i].reserved
                          /\ item'[i].available = item[i].available
                          /\ item'[i].status = item[i].status
                          /\ item'[i].lowSent => item[i].lowSent /\ i \notin S
                          /\ item'[i].outSent => item[i].outSent /\ i \notin S
  BY <1>2, <1>4 DEF AlertRow, Alerts!ResetFlags
<1>7. alertClerk' \in [Adjusters -> TellCall \union {Alerts!Idle}]
  BY <1>4 DEF Alerts!ResetBoth, Alerts!NightlyReset
<1>8. AlertsType'
  BY <1>1, <1>3, <1>6, <1>7 DEF AlertsType
<1>9. HoldsFit' /\ UnitsExplained'
  BY <1>1, <1>3, <1>6, CountersStay DEF CountersKept
<1>10. EmptyIsMarked'
  BY <1>1, <1>3, <1>6 DEF EmptyIsMarked
<1>11. Alerts!FlaggedIsTold'
  BY <1>1, <1>3, <1>5, <1>6 DEF Alerts!FlaggedIsTold
<1>12. QED
  BY <1>8, <1>9, <1>10, <1>11 DEF AlertsInductive

\* A run reads every row, raises its alert, or dies before it could.
LEMMA RunStep ==
    ASSUME AlertsInductive, NEW r \in Checks,
           Alerts!checkStoreLevels(r) \/ Alerts!RaiseAlert(r) \/ Alerts!RunDies(r)
    PROVE  AlertsInductive'
<1>1. /\ AlertsType /\ HoldsFit /\ EmptyIsMarked /\ Alerts!FlaggedIsTold /\ UnitsExplained
  BY DEF AlertsInductive
<1>2. UNCHANGED <<item, holdOf, alertClerk, oversold, outdated, added, cut, saleUnits>>
  BY DEF Alerts!checkStoreLevels, Alerts!RaiseAlert, Alerts!RunDies, Alerts!Counts
<1>3. /\ item \in [Shelf -> AlertRow] /\ run \in [Checks -> CheckRun \union {Alerts!Idle}]
  BY <1>1 DEF AlertsType
<1>4. /\ run' \in [Checks -> CheckRun \union {Alerts!Idle}]
      /\ \A d \in Checks : d # r => run'[d] = run[d]
  <2>1. [op |-> "check", rows |-> item, todo |-> Shelf, found |-> {}] \in CheckRun
    BY <1>3 DEF CheckRun
  <2>2. \E x \in CheckRun \union {Alerts!Idle} : run' = [run EXCEPT ![r] = x]
    BY <2>1 DEF Alerts!checkStoreLevels, Alerts!RaiseAlert, Alerts!RunDies
  <2>3. QED
    BY <1>3, <2>2
<1>5. /\ told \subseteq told' /\ lost \subseteq lost'
      /\ run[r].op = "check" => run[r].found \subseteq told' \union lost'
  BY <1>1, AlertCalls DEF Alerts!checkStoreLevels, Alerts!RaiseAlert, Alerts!RunDies
<1>6. AlertsType'
  BY <1>1, <1>2, <1>4 DEF AlertsType
<1>7. HoldsFit' /\ UnitsExplained'
  BY <1>1, <1>2, CountersStay DEF CountersKept
<1>8. EmptyIsMarked'
  BY <1>1, <1>2 DEF EmptyIsMarked
<1>9. Alerts!FlaggedIsTold'
  BY <1>1, <1>2, <1>4, <1>5 DEF Alerts!FlaggedIsTold
<1>10. QED
  BY <1>6, <1>7, <1>8, <1>9 DEF AlertsInductive

\* A run writes one row from what it read of it.
LEMMA CheckStep ==
    ASSUME AlertsInductive, NEW r \in Checks, Alerts!CheckItem(r)
    PROVE  AlertsInductive'
<1>1. /\ AlertsType /\ HoldsFit /\ EmptyIsMarked /\ Alerts!FlaggedIsTold /\ UnitsExplained
  BY DEF AlertsInductive
<1>2. /\ item \in [Shelf -> AlertRow] /\ run \in [Checks -> CheckRun \union {Alerts!Idle}]
  BY <1>1 DEF AlertsType
<1>3. run[r] \in CheckRun /\ run[r].op = "check"
  BY <1>1, AlertCalls DEF Alerts!CheckItem
<1>4. PICK x \in run[r].todo :
          LET row == run[r].rows[x]
              finds == Alerts!FoundOut(row) \/ Alerts!FoundLow(row)
          IN  /\ run' = [run EXCEPT ![r] =
                     [op |-> "check", rows |-> @.rows, todo |-> @.todo \ {x},
                      found |-> IF finds THEN Alerts!ListItem(x, r) ELSE @.found]]
              /\ item' = [item EXCEPT ![x] =
                     [current |-> @.current, reserved |-> @.reserved,
                      available |-> @.available,
                      status |-> IF Alerts!FoundOut(row) THEN "OUT_OF_STOCK"
                                 ELSE IF Alerts!FoundLow(row) THEN "LOW_STOCK" ELSE @.status,
                      lowSent |-> @.lowSent \/ Alerts!FoundLow(row),
                      outSent |-> @.outSent \/ Alerts!FoundOut(row)]]
              /\ outdated' = IF finds /\ item[x] # row THEN outdated \union {x} ELSE outdated
  BY DEF Alerts!CheckItem
<1> DEFINE row == run[r].rows[x]
           out == Alerts!FoundOut(row)
           low == Alerts!FoundLow(row)
           new == [current |-> item[x].current, reserved |-> item[x].reserved,
                   available |-> item[x].available,
                   status |-> IF out THEN "OUT_OF_STOCK"
                              ELSE IF low THEN "LOW_STOCK" ELSE item[x].status,
                   lowSent |-> item[x].lowSent \/ low,
                   outSent |-> item[x].outSent \/ out]
           next == [op |-> "check", rows |-> run[r].rows, todo |-> run[r].todo \ {x},
                    found |-> IF out \/ low THEN run[r].found \union {x} ELSE run[r].found]
<1>5. UNCHANGED <<holdOf, alertClerk, told, lost, oversold, added, cut, saleUnits>>
  BY DEF Alerts!CheckItem, Alerts!Counts
<1>6. /\ x \in Shelf /\ row \in AlertRow
      /\ run[r].rows \in [Shelf -> AlertRow] /\ run[r].todo \subseteq Shelf
      /\ run[r].found \subseteq Shelf
  BY <1>3 DEF CheckRun
<1>7. /\ run' = [run EXCEPT ![r] = next] /\ item' = [item EXCEPT ![x] = new]
      /\ outdated' = IF (out \/ low) /\ item[x] # row THEN outdated \union {x} ELSE outdated
  BY <1>4 DEF Alerts!ListItem
<1>8. /\ out \in BOOLEAN /\ low \in BOOLEAN
      /\ out => row.available <= 0
      /\ low => row.available > 0
      /\ ~out /\ ~low /\ row.available <= 0 => row.outSent
  BY DEF Alerts!FoundOut, Alerts!FoundLow
<1> HIDE DEF out, low
<1>9. /\ new \in AlertRow
      /\ new.current = item[x].current /\ new.reserved = item[x].reserved
      /\ new.available = item[x].available
      /\ new.status = IF out THEN "OUT_OF_STOCK" ELSE IF low THEN "LOW_STOCK" ELSE item[x].status
  <2>1. (item[x].lowSent \/ low) \in BOOLEAN /\ (item[x].outSent \/ out) \in BOOLEAN
    OBVIOUS
  <2>2. QED
    BY <1>1, <1>6, <2>1, RowTyped DEF AlertRow
<1>10. /\ new.lowSent => item[x].lowSent \/ low
       /\ new.outSent => item[x].outSent \/ out
  OBVIOUS
<1>11. /\ next \in CheckRun /\ next.op = "check" /\ run[r].found \subseteq next.found
       /\ out \/ low => x \in next.found
  <2>1. (IF out \/ low THEN run[r].found \union {x} ELSE run[r].found) \in SUBSET Shelf
    BY <1>6
  <2>2. QED
    BY <1>6, <2>1 DEF CheckRun
<1> HIDE DEF new, next
<1>12. /\ item' \in [Shelf -> AlertRow] /\ item'[x] = new
       /\ \A i \in Shelf : i # x => item'[i] = item[i]
       /\ run' \in [Checks -> CheckRun \union {Alerts!Idle}] /\ run'[r] = next
       /\ \A d \in Checks : d # r => run'[d] = run[d]
  BY <1>2, <1>6, <1>7, <1>9, <1>11
<1>13. AlertsType'
  BY <1>1, <1>5, <1>12 DEF AlertsType
<1>14. HoldsFit' /\ UnitsExplained'
  BY <1>1, <1>5, <1>9, <1>12, CountersStay DEF CountersKept
<1>15. EmptyIsMarked'
  <2> SUFFICES ASSUME NEW i \in Shelf, i \notin outdated', i \notin oversold,
                      item'[i].current = 0
               PROVE  item'[i].status = "OUT_OF_STOCK"
    BY <1>5 DEF EmptyIsMarked
  <2>1. i \notin outdated /\ item[i].current = 0
    BY <1>7, <1>9, <1>12
  <2>2. item[i].status = "OUT_OF_STOCK"
    BY <1>1, <2>1 DEF EmptyIsMarked
  <2>3. CASE i # x \/ ~(out \/ low)
    BY <1>9, <1>12, <2>2, <2>3
  <2>4. CASE i = x /\ (out \/ low)
    <3>1. item[x] = row
      BY <1>7, <2>4
    <3>2. item[x].available <= 0
      <4>1. item[x].reserved \in Nat
        BY <1>1, <1>6, HeldIsCounted DEF HoldsFit
      <4>2. item[x].available = 0 - item[x].reserved
        BY <1>1, <1>6, <2>1, <2>4 DEF HoldsFit
      <4>3. QED
        BY <4>1, <4>2
    <3>3. out
      BY <1>1, <1>6, <1>8, <2>4, <3>1, <3>2, RowTyped
    <3>4. QED
      BY <1>9, <1>12, <2>4, <3>3
  <2>5. QED
    BY <2>3, <2>4
<1>16. Alerts!FlaggedIsTold'
  <2> SUFFICES ASSUME NEW i \in Shelf, item'[i].lowSent \/ item'[i].outSent
               PROVE  \/ i \in told \union lost
                      \/ \E d \in Checks : run'[d].op = "check" /\ i \in run'[d].found
    BY <1>5 DEF Alerts!FlaggedIsTold
  <2>1. CASE i = x /\ (out \/ low)
    BY <1>11, <1>12, <2>1
  <2>2. CASE ~(i = x /\ (out \/ low))
    <3>1. item[i].lowSent \/ item[i].outSent
      BY <1>10, <1>12, <2>2
    <3>2. \/ i \in told \union lost
          \/ \E d \in Checks : run[d].op = "check" /\ i \in run[d].found
      BY <1>1, <3>1 DEF Alerts!FlaggedIsTold
    <3>3. QED
      BY <1>11, <1>12, <3>2
  <2>3. QED
    BY <2>1, <2>2
<1>17. QED
  BY <1>13, <1>14, <1>15, <1>16 DEF AlertsInductive

LEMMA AlertsStart == Alerts!Init => AlertsInductive
<1> SUFFICES ASSUME Alerts!Init
             PROVE  AlertsInductive
  OBVIOUS
<1>1. Start \in Nat /\ ReorderPoint \in Nat
  BY StoreDayAssumption
<1>2. Alerts!StatusFor(Start) \in {"IN_STOCK", "LOW_STOCK", "OUT_OF_STOCK"}
  BY DEF Alerts!StatusFor
<1>3. \A i \in Shelf : item[i] = [current |-> Start, reserved |-> 0, available |-> Start,
          status |-> Alerts!StatusFor(Start), lowSent |-> FALSE, outSent |-> FALSE]
  BY DEF Alerts!Init
<1>4. AlertsType
  BY <1>1, <1>2 DEF Alerts!Init, AlertsType, AlertRow
<1>5. HoldsFit
  <2>1. Holding = {}
    BY DEF Alerts!Init, Holding
  <2>2. \A i \in Shelf : Takings!UnitsOn(Holding, i) = {}
    BY <2>1 DEF Takings!UnitsOn
  <2>3. \A i \in Shelf : HeldOf(i) = 0
    <3>1. Cardinality({}) = 0
      BY FS_EmptySet
    <3>2. Takings!Cardinality({}) = 0
      BY <3>1 DEF Cardinality, Takings!Cardinality
    <3>3. QED
      BY <2>2, <3>2 DEF HeldOf
  <2>4. QED
    BY <1>1, <1>3, <2>3 DEF HoldsFit
<1>6. EmptyIsMarked
  BY <1>1, <1>3 DEF EmptyIsMarked, Alerts!StatusFor
<1>7. Alerts!FlaggedIsTold
  BY <1>3 DEF Alerts!FlaggedIsTold
<1>8. UnitsExplained
  BY <1>1, <1>3 DEF Alerts!Init, UnitsExplained
<1>9. QED
  BY <1>4, <1>5, <1>6, <1>7, <1>8 DEF AlertsInductive

LEMMA AlertsMove ==
    ASSUME AlertsInductive, [Alerts!Next]_alertsVars
    PROVE  AlertsInductive'
<1>1. CASE UNCHANGED alertsVars
  BY <1>1 DEF alertsVars, AlertsInductive, AlertsType, HoldsFit, EmptyIsMarked,
     Alerts!FlaggedIsTold, UnitsExplained, HeldOf, Holding, Takings!UnitsOn
<1>2. Delta \subseteq Int
  BY StoreDayAssumption
<1>3. CASE Alerts!Next
  BY <1>2, <1>3, OrderStep, DeductStep, AdjustStep, TellStep, ResetStep, RunStep, CheckStep
     DEF Alerts!Next
<1>4. QED
  BY <1>1, <1>3

\* What the invariant says, as the dashboards and the turnover report show it.
LEMMA AlertsHold == AlertsInductive => Alerts!AlertsSound
<1> SUFFICES ASSUME AlertsInductive
             PROVE  Alerts!AlertsSound
  OBVIOUS
<1>1. /\ AlertsType /\ HoldsFit /\ EmptyIsMarked /\ Alerts!FlaggedIsTold /\ UnitsExplained
  BY DEF AlertsInductive
<1>2. Alerts!EmptyIsOut
  <2> SUFFICES ASSUME NEW i \in Shelf \ (outdated \union oversold), item[i].current = 0
               PROVE  /\ i \in Alerts!LowStockItems
                      /\ Alerts!StoreHealth(Branch[i]).status = "CRITICAL"
                      /\ i \in Alerts!TenantHealth.critical
                      /\ Branch[i] \in Alerts!TenantHealth.storesWithIssues
    BY DEF Alerts!EmptyIsOut
  <2> DEFINE outs == Alerts!WithStatus(Alerts!Kept(Branch[i]), "OUT_OF_STOCK")
  <2>1. item[i].status = "OUT_OF_STOCK"
    BY <1>1 DEF EmptyIsMarked
  <2>2. i \in outs /\ outs \subseteq Shelf
    BY <2>1 DEF Alerts!WithStatus, Alerts!Kept
  <2>3. Alerts!Cardinality(outs) > 0
    <3> HIDE DEF outs
    <3>1. IsFiniteSet(outs)
      BY <2>2, StoreDayAssumption, FS_Subset
    <3>2. Cardinality(outs) \in Nat /\ Cardinality(outs) # 0
      BY <2>2, <3>1, FS_CardinalityType, FS_EmptySet
    <3>3. Alerts!Cardinality(outs) = Cardinality(outs)
      BY DEF Cardinality, Alerts!Cardinality
    <3>4. QED
      BY <3>2, <3>3
  <2>4. /\ Alerts!StoreHealth(Branch[i]).status = "CRITICAL"
        /\ Alerts!StoreHealth(Branch[i]).out > 0
    BY <2>3 DEF Alerts!StoreHealth
  <2>5. i \in Alerts!LowStockItems
    BY <2>1 DEF Alerts!LowStockItems
  <2>6. /\ i \in Alerts!TenantHealth.critical
        /\ Branch[i] \in Alerts!TenantHealth.storesWithIssues
    BY <2>1, <2>4 DEF Alerts!TenantHealth, Alerts!WithStatus
  <2>7. QED
    BY <2>4, <2>5, <2>6
<1>3. Alerts!TurnoverExplains
  <2> SUFFICES ASSUME NEW i \in Shelf
               PROVE  /\ Start + added[i] - Alerts!Turnover(i).unitsSold + cut[i] = item[i].current
                      /\ Alerts!Turnover(i).lasting => item[i].current = Start + added[i]
    BY DEF Alerts!TurnoverExplains
  <2>1. /\ Alerts!Turnover(i).unitsSold = saleUnits[i]
        /\ Alerts!Turnover(i).lasting => saleUnits[i] = 0
    BY DEF Alerts!Turnover
  <2>2. /\ Start \in Int /\ added[i] \in Int /\ cut[i] \in Int /\ saleUnits[i] \in Int
    BY <1>1, StoreDayAssumption DEF AlertsType
  <2>3. /\ Start + added[i] - saleUnits[i] + cut[i] = item[i].current
        /\ saleUnits[i] = 0 => cut[i] = 0
    BY <1>1 DEF UnitsExplained
  <2>4. QED
    BY <2>1, <2>2, <2>3
<1>4. QED
  BY <1>1, <1>2, <1>3 DEF Alerts!AlertsSound

AlertsFollowed == focus = "alerts" => AlertsInductive

LEMMA AlertsKept == Spec => []AlertsFollowed
<1>1. Init => AlertsFollowed
  BY AlertsStart DEF Init, AlertsFollowed
<1>2. AlertsFollowed /\ [Next]_everyVar => AlertsFollowed'
  <2> SUFFICES ASSUME AlertsFollowed, [Next]_everyVar, focus' = "alerts"
               PROVE  AlertsInductive'
    BY DEF AlertsFollowed
  <2>1. focus = "alerts" /\ [Alerts!Next]_alertsVars
    BY DEF Next, everyVar
  <2>2. AlertsInductive
    BY <2>1 DEF AlertsFollowed
  <2>3. QED
    BY <2>1, <2>2, AlertsMove
<1>3. QED
  BY <1>1, <1>2, PTL DEF Spec

\* The shelf count follows the movements and reservedStock the reservations,
\* while nothing stale was written; an item that ran out is shown so and is on
\* the list to reorder, and an alert is kept back only when somebody was told
\* (StockAccounted).
THEOREM StockIsAccounted == Spec => []StockAccounted
<1>1. StockInductive /\ AlertsFollowed => StockAccounted
  BY SameUpkeep, AlertsHold
     DEF StockInductive, AlertsFollowed, StockAccounted, Facts!UpkeepInductive
<1>2. QED
  BY <1>1, StockKept, AlertsKept, PTL

-----------------------------------------------------------------------------
(* The time clock.                                                         *)

EntryRow == [in : Int, open : BOOLEAN, out : Int, hours : Int, pay : Int,
             scheduled : BOOLEAN, review : BOOLEAN]
Arrival == [op : {"in"}, at : {"create"}, stamp : Int, scheduled : BOOLEAN]
Arrived == [op : {"in"}, at : {"shift", "stamp"}, stamp : Int, scheduled : BOOLEAN, of : Cards]
Leaving == [op : {"out"}, at : {"write", "shift"}, of : Cards, in : Int, scheduled : BOOLEAN]
Closing == [op : {"auto"}, of : Cards, in : Int, scheduled : BOOLEAN]
Absence == [op : {"missed"}]

ClockType ==
    /\ clockHour \in Nat
    /\ entry \in [Cards -> EntryRow \union {Clock!NoEntry}]
    /\ clockCall \in [Hands -> UNION {Arrival, Arrived, Leaving, Closing, Absence, {Clock!NoCall}}]

Arriving == {d \in Hands : clockCall[d] \in Arrival}
Clocked(d) == clockCall[d] \in Arrived
\* A call that closes the entry of a card.
Closes(d) == clockCall[d] \in Leaving \union Closing

\* The time of an entry that a call is to close is the one the call read.
TimesRead ==
    /\ \A e \in Clock!Rows : entry[e].open => entry[e].pay = -1
    /\ \A d \in Hands :
           /\ Clocked(d) => clockCall[d].of \in Clock!Rows
           /\ Closes(d) =>
                  /\ clockCall[d].of \in Clock!Rows
                  /\ \/ clockCall[d].of \in crossed
                     \/ clockCall[d].in = entry[clockCall[d].of].in

\* While no two clock-ins overlapped, whoever is about to create an entry is
\* alone, and no entry is open.
OneArrives ==
    \/ doubled
    \/ /\ \A d, q \in Arriving : d = q
       /\ \A d \in Arriving : Clock!Open = {}
       /\ \A e, f \in Clock!Open : e = f

\* Whoever has an entry for the shift of a no-show is about to start the shift.
AbsentOrStarting ==
    shift = "NO_SHOW" =>
        \/ noShowLate
        \/ \A e \in Clock!Rows : entry[e].scheduled =>
               \E d \in Hands : /\ Clocked(d) /\ clockCall[d].at = "shift"
                                /\ clockCall[d].scheduled /\ clockCall[d].of = e

ClockInductive ==
    ClockType /\ TimesRead /\ Clock!HoursFollowTimes /\ OneArrives /\ AbsentOrStarting

LEMMA ClockRows ==
    ASSUME ClockType
    PROVE  /\ \A e \in Cards : /\ e \in Clock!Rows <=> entry[e] \in EntryRow
                               /\ e \notin Clock!Rows <=> entry[e] = Clock!NoEntry
           /\ Clock!Rows \subseteq Cards /\ Clock!Open \subseteq Clock!Rows
<1>1. Clock!NoEntry \notin EntryRow
  <2>1. "in" \notin DOMAIN Clock!NoEntry
    BY DEF Clock!NoEntry
  <2>2. \A r \in EntryRow : "in" \in DOMAIN r
    BY DEF EntryRow
  <2>3. QED
    BY <2>1, <2>2
<1>2. QED
  BY <1>1 DEF ClockType, Clock!Rows, Clock!Open

\* The calls are told apart by what they do and where they are.
LEMMA ClockCalls ==
    ASSUME ClockType, NEW d \in Hands
    PROVE  /\ clockCall[d].op = "in" /\ clockCall[d].at = "create" => d \in Arriving
           /\ clockCall[d].op = "in" /\ clockCall[d].at \in {"shift", "stamp"} => Clocked(d)
           /\ clockCall[d].op = "out" => clockCall[d] \in Leaving
           /\ clockCall[d].op = "auto" => clockCall[d] \in Closing
           /\ d \in Arriving => clockCall[d].op = "in" /\ clockCall[d].at = "create"
           /\ Clocked(d) => clockCall[d].op = "in" /\ clockCall[d].at \in {"shift", "stamp"}
           /\ clockCall[d] \in Leaving => clockCall[d].op = "out"
           /\ clockCall[d] \in Closing => clockCall[d].op = "auto"
           /\ clockCall[d] = Clock!NoCall => clockCall[d].op = "idle"
BY DEF ClockType, Arriving, Clocked, Arrival, Arrived, Leaving, Closing, Absence, Clock!NoCall

ClockCalling == UNION {Arrival, Arrived, Leaving, Closing, Absence, {Clock!NoCall}}

\* What writing one row makes of the rows, and one call of the calls.
LEMMA EntryWritten ==
    ASSUME ClockType, NEW e \in Cards, NEW r \in EntryRow,
           entry' = [entry EXCEPT ![e] = r]
    PROVE  /\ entry' \in [Cards -> EntryRow \union {Clock!NoEntry}]
           /\ entry'[e] = r /\ \A f \in Cards \ {e} : entry'[f] = entry[f]
           /\ Clock!Rows' = Clock!Rows \union {e}
           /\ Clock!Open' = IF r.open THEN Clock!Open \union {e} ELSE Clock!Open \ {e}
<1>1. /\ entry' \in [Cards -> EntryRow \union {Clock!NoEntry}]
      /\ entry'[e] = r /\ \A f \in Cards \ {e} : entry'[f] = entry[f]
  BY DEF ClockType
<1>2. r # Clock!NoEntry
  <2>1. "in" \in DOMAIN r /\ "in" \notin DOMAIN Clock!NoEntry
    BY DEF EntryRow, Clock!NoEntry
  <2>2. QED
    BY <2>1
<1>3. Clock!Rows' = Clock!Rows \union {e}
  BY <1>1, <1>2 DEF Clock!Rows
<1>4. QED
  BY <1>1, <1>3 DEF Clock!Open

LEMMA ClockCallMade ==
    ASSUME ClockType, NEW d \in Hands, NEW c \in ClockCalling,
           clockCall' = [clockCall EXCEPT ![d] = c]
    PROVE  /\ clockCall' \in [Hands -> ClockCalling]
           /\ clockCall'[d] = c
           /\ \A q \in Hands \ {d} : clockCall'[q] = clockCall[q]
BY DEF ClockType, ClockCalling

LEMMA ClockInStep ==
    ASSUME ClockInductive, NEW d \in Hands, NEW stamp \in 0 .. clockHour,
           NEW scheduled \in BOOLEAN,
           \/ Clock!ClockInRead(d, stamp, scheduled) \/ Clock!CreateEntry(d)
    PROVE  ClockInductive'
<1>0. /\ ClockType /\ TimesRead /\ Clock!HoursFollowTimes /\ OneArrives
      /\ AbsentOrStarting
  BY DEF ClockInductive
<1>1. CASE Clock!ClockInRead(d, stamp, scheduled)
  <2> DEFINE c == [op |-> "in", at |-> "create", stamp |-> stamp, scheduled |-> scheduled]
  <2>1. /\ UNCHANGED <<clockHour, entry, shift, crossed, noShowLate>>
        /\ Clock!Open = {} /\ clockCall[d] = Clock!NoCall
        /\ clockCall' = [clockCall EXCEPT ![d] = c]
        /\ doubled' = (doubled \/ \E q \in Hands : clockCall[q].op = "in" /\ clockCall[q].at = "create")
    BY <1>1 DEF Clock!ClockInRead, Clock!Begin
  <2>2. c \in Arrival /\ c \notin Arrived \union Leaving \union Closing
    BY <1>0 DEF Arrival, Arrived, Leaving, Closing, ClockType
  <2>3. c \in ClockCalling
    BY <2>2 DEF ClockCalling
  <2> HIDE DEF c
  <2>4. /\ clockCall' \in [Hands -> ClockCalling] /\ clockCall'[d] = c
        /\ \A q \in Hands \ {d} : clockCall'[q] = clockCall[q]
    BY <1>0, <2>1, <2>3, ClockCallMade
  <2>5. ClockType'
    BY <1>0, <2>1, <2>4 DEF ClockType, ClockCalling
  <2>6. Clock!Rows' = Clock!Rows /\ Clock!Open' = Clock!Open
    BY <2>1 DEF Clock!Rows, Clock!Open
  <2>7. TimesRead' /\ Clock!HoursFollowTimes'
    BY <1>0, <2>1, <2>2, <2>4, <2>6 DEF TimesRead, Clock!HoursFollowTimes, Clocked, Closes
  <2>8. OneArrives'
    <3>1. CASE doubled'
      BY <3>1 DEF OneArrives
    <3>2. CASE ~doubled'
      <4>1. Arriving = {}
        BY <1>0, <2>1, <3>2, ClockCalls DEF Arriving
      <4>2. Arriving' \subseteq {d}
        BY <4>1, <2>4 DEF Arriving
      <4>3. QED
        BY <2>1, <2>6, <4>2 DEF OneArrives
    <3>3. QED
      BY <3>1, <3>2
  <2>9. AbsentOrStarting'
    <3>1. ~Clocked(d)
      BY <1>0, <2>1, ClockCalls
    <3>2. QED
      BY <1>0, <2>1, <2>4, <2>6, <3>1 DEF AbsentOrStarting, Clocked
  <2>10. QED
    BY <2>5, <2>7, <2>8, <2>9 DEF ClockInductive
<1>2. CASE Clock!CreateEntry(d)
  <2>1. d \in Arriving /\ UNCHANGED <<clockHour, shift, doubled, crossed, noShowLate>>
    BY <1>0, <1>2, ClockCalls DEF Clock!CreateEntry
  <2>2. PICK e \in Cards \ Clock!Rows :
           /\ entry' = [entry EXCEPT ![e] =
                  [in |-> clockHour, open |-> TRUE, out |-> 0, hours |-> 0, pay |-> -1,
                   scheduled |-> clockCall[d].scheduled,
                   review |-> clockCall[d].scheduled /\ clockHour > ShiftStart]]
           /\ clockCall' = [clockCall EXCEPT ![d] =
                  [op |-> "in", at |-> "shift", stamp |-> clockCall[d].stamp,
                   scheduled |-> clockCall[d].scheduled, of |-> e]]
    BY <1>2 DEF Clock!CreateEntry, Clock!Continue
  <2> DEFINE r == [in |-> clockHour, open |-> TRUE, out |-> 0, hours |-> 0, pay |-> -1,
                   scheduled |-> clockCall[d].scheduled,
                   review |-> clockCall[d].scheduled /\ clockHour > ShiftStart]
             c == [op |-> "in", at |-> "shift", stamp |-> clockCall[d].stamp,
                   scheduled |-> clockCall[d].scheduled, of |-> e]
  <2>3. clockCall[d] \in Arrival /\ clockCall[d].stamp \in Int /\ clockCall[d].scheduled \in BOOLEAN
    BY <2>1 DEF Arriving, Arrival
  <2>4. /\ c \in Arrived /\ c \notin Arrival \union Leaving \union Closing
        /\ c.of = e /\ c.at = "shift" /\ c.scheduled = clockCall[d].scheduled
    BY <2>3 DEF Arrival, Arrived, Leaving, Closing
  <2>5. (clockCall[d].scheduled /\ clockHour > ShiftStart) \in BOOLEAN
    OBVIOUS
  <2>6. r \in EntryRow /\ r.open /\ r.pay = -1 /\ r.scheduled = clockCall[d].scheduled
    BY <1>0, <2>3, <2>5 DEF EntryRow, ClockType
  <2>7. c \in ClockCalling
    BY <2>4 DEF ClockCalling
  <2>8. entry' = [entry EXCEPT ![e] = r] /\ clockCall' = [clockCall EXCEPT ![d] = c]
    BY <2>2
  <2> HIDE DEF r, c
  <2>9. /\ entry' \in [Cards -> EntryRow \union {Clock!NoEntry}]
        /\ entry'[e] = r /\ \A f \in Cards \ {e} : entry'[f] = entry[f]
        /\ Clock!Rows' = Clock!Rows \union {e}
        /\ Clock!Open' = Clock!Open \union {e}
    BY <1>0, <2>6, <2>8, EntryWritten
  <2>10. /\ clockCall' \in [Hands -> ClockCalling] /\ clockCall'[d] = c
         /\ \A q \in Hands \ {d} : clockCall'[q] = clockCall[q]
    BY <1>0, <2>7, <2>8, ClockCallMade
  <2>11. ClockType'
    BY <1>0, <2>1, <2>9, <2>10 DEF ClockType, ClockCalling
  <2>12. TimesRead' /\ Clock!HoursFollowTimes'
    BY <1>0, <2>1, <2>2, <2>4, <2>6, <2>9, <2>10
       DEF TimesRead, Clock!HoursFollowTimes, Clocked, Closes, ClockType, Clock!Rows
  <2>13. OneArrives'
    <3>1. Arriving' = Arriving \ {d}
      BY <2>4, <2>10 DEF Arriving
    <3>2. CASE doubled
      <4>1. doubled'
        BY <2>1, <3>2
      <4>2. QED
        BY <4>1 DEF OneArrives
    <3>3. CASE ~doubled
      <4>1. Clock!Open = {} /\ \A q \in Arriving : q = d
        BY <1>0, <2>1, <3>3 DEF OneArrives
      <4>2. Arriving' = {} /\ Clock!Open' = {e}
        BY <2>9, <3>1, <4>1
      <4>3. QED
        BY <4>2 DEF OneArrives
    <3>4. QED
      BY <3>2, <3>3
  <2>14. AbsentOrStarting'
    <3>1. ~Clocked(d)
      BY <1>0, <2>1, ClockCalls
    <3>2. \A f \in Clock!Rows : entry'[f].scheduled = entry[f].scheduled
      BY <2>2, <2>9, <1>0, ClockRows
    <3>3. entry'[e].scheduled => Clocked(d)' /\ clockCall'[d].at = "shift"
                                 /\ clockCall'[d].scheduled /\ clockCall'[d].of = e
      BY <2>4, <2>6, <2>9, <2>10 DEF Clocked
    <3>4. QED
      BY <1>0, <2>1, <2>9, <2>10, <3>1, <3>2, <3>3 DEF AbsentOrStarting, Clocked
  <2>15. QED
    BY <2>11, <2>12, <2>13, <2>14 DEF ClockInductive
<1>3. QED
  BY <1>1, <1>2

\* What a step must leave as it is for the last two parts.
LEMMA ArrivalsKept ==
    ASSUME OneArrives, doubled' = doubled, Arriving' \subseteq Arriving,
           Clock!Open' \subseteq Clock!Open
    PROVE  OneArrives'
<1>1. CASE doubled
  <2>1. doubled'
    BY <1>1
  <2>2. QED
    BY <2>1 DEF OneArrives
<1>2. CASE ~doubled
  <2>1. /\ \A d, q \in Arriving : d = q
        /\ \A d \in Arriving : Clock!Open = {}
        /\ \A e, f \in Clock!Open : e = f
    BY <1>2 DEF OneArrives
  <2>2. QED
    BY <2>1 DEF OneArrives
<1>3. QED
  BY <1>1, <1>2

Starting(d, e) == /\ Clocked(d) /\ clockCall[d].at = "shift"
                  /\ clockCall[d].scheduled /\ clockCall[d].of = e

LEMMA AbsenceKept ==
    ASSUME AbsentOrStarting, shift' \in {shift, "IN_PROGRESS", "COMPLETED", "CANCELLED"},
           noShowLate' = noShowLate, Clock!Rows' = Clock!Rows,
           \A e \in Clock!Rows : entry'[e].scheduled = entry[e].scheduled,
           \A d \in Hands : \A e \in Clock!Rows :
               Starting(d, e) => Starting(d, e)' \/ shift' # "NO_SHOW"
    PROVE  AbsentOrStarting'
<1>1. CASE noShowLate
  <2>1. noShowLate'
    BY <1>1
  <2>2. QED
    BY <2>1 DEF AbsentOrStarting
<1>2. CASE ~noShowLate
  <2> SUFFICES ASSUME shift' = "NO_SHOW", NEW e \in Clock!Rows, entry'[e].scheduled
               PROVE  \E d \in Hands : Starting(d, e)'
    BY DEF AbsentOrStarting, Starting, Clocked
  <2>1. \E d \in Hands : Starting(d, e)
    BY <1>2 DEF AbsentOrStarting, Starting
  <2>2. QED
    BY <2>1
<1>3. QED
  BY <1>1, <1>2

\* A call that creates nothing changes, and the rows stay: every part but the
\* last, for which shift matters.
LEMMA ClockFrame ==
    ASSUME ClockInductive, NEW d \in Hands, NEW c \in ClockCalling \ Arrival,
           clockCall' = [clockCall EXCEPT ![d] = c],
           UNCHANGED <<clockHour, entry, doubled, crossed>>,
           c \in Arrived => c.of \in Clock!Rows,
           c \in Leaving \union Closing =>
               c.of \in Clock!Rows /\ (c.of \in crossed \/ c.in = entry[c.of].in)
    PROVE  /\ ClockType' /\ TimesRead' /\ Clock!HoursFollowTimes' /\ OneArrives'
           /\ Clock!Rows' = Clock!Rows
           /\ \A q \in Hands \ {d} : clockCall'[q] = clockCall[q]
           /\ clockCall'[d] = c
<1>0. /\ ClockType /\ TimesRead /\ Clock!HoursFollowTimes /\ OneArrives
  BY DEF ClockInductive
<1>1. /\ clockCall' \in [Hands -> ClockCalling] /\ clockCall'[d] = c
      /\ \A q \in Hands \ {d} : clockCall'[q] = clockCall[q]
  BY <1>0, ClockCallMade
<1>2. ClockType'
  BY <1>0, <1>1 DEF ClockType, ClockCalling
<1>3. Clock!Rows' = Clock!Rows /\ Clock!Open' = Clock!Open
  BY DEF Clock!Rows, Clock!Open
<1>4. TimesRead' /\ Clock!HoursFollowTimes'
  BY <1>0, <1>1, <1>3 DEF TimesRead, Clock!HoursFollowTimes, Clocked, Closes
<1>5. Arriving' \subseteq Arriving
  BY <1>1 DEF Arriving
<1>6. OneArrives'
  BY <1>0, <1>3, <1>5, ArrivalsKept
<1>7. QED
  BY <1>1, <1>2, <1>3, <1>4, <1>6

\* The steps that write no entry.
LEMMA ClockCallStep ==
    ASSUME ClockInductive, NEW d \in Hands,
           \/ Clock!StartShift(d) \/ Clock!CompleteShift(d)
           \/ \E e \in Cards : Clock!ClockOutRead(d, e) \/ Clock!AutoRead(d, e)
           \/ Clock!MissedRead(d) \/ Clock!MissedWrite(d) \/ Clock!Fail(d)
    PROVE  ClockInductive'
<1>0. /\ ClockType /\ TimesRead /\ AbsentOrStarting
  BY DEF ClockInductive
<1>1. Clock!NoCall \in ClockCalling \ (Arrival \union Arrived \union Leaving \union Closing)
  BY DEF ClockCalling, Arrival, Arrived, Leaving, Closing, Clock!NoCall
<1>2. CASE Clock!StartShift(d)
  <2>1. /\ Clocked(d) /\ clockCall[d].at = "shift"
        /\ UNCHANGED <<clockHour, entry, doubled, crossed, noShowLate>>
        /\ shift' = IF clockCall[d].scheduled THEN "IN_PROGRESS" ELSE shift
    BY <1>0, <1>2, ClockCalls DEF Clock!StartShift
  <2>2. /\ [clockCall[d] EXCEPT !.at = "stamp"] \in Arrived
        /\ [clockCall[d] EXCEPT !.at = "stamp"].of = clockCall[d].of
    BY <2>1 DEF Clocked, Arrived
  <2>3. PICK c \in ClockCalling \ Arrival :
           /\ clockCall' = [clockCall EXCEPT ![d] = c]
           /\ c \in Arrived => c.of \in Clock!Rows
           /\ c \notin Leaving \union Closing
    <3>1. CASE clockCall[d].stamp < clockHour
      <4> DEFINE c == [clockCall[d] EXCEPT !.at = "stamp"]
      <4>1. clockCall' = [clockCall EXCEPT ![d] = c]
        BY <1>2, <3>1 DEF Clock!StartShift, Clock!Continue
      <4>2. c \in Arrived /\ c \in ClockCalling /\ c.of \in Clock!Rows
        BY <1>0, <2>1, <2>2 DEF ClockCalling, TimesRead
      <4> HIDE DEF c
      <4>3. c \notin Arrival \union Leaving \union Closing
        BY <4>2 DEF Arrival, Arrived, Leaving, Closing
      <4>4. QED
        BY <4>1, <4>2, <4>3
    <3>2. CASE ~(clockCall[d].stamp < clockHour)
      <4>1. clockCall' = [clockCall EXCEPT ![d] = Clock!NoCall]
        BY <1>2, <3>2 DEF Clock!StartShift, Clock!Continue, Clock!Done
      <4>2. QED
        BY <1>1, <4>1
    <3>3. QED
      BY <3>1, <3>2
  <2>4. /\ ClockType' /\ TimesRead' /\ Clock!HoursFollowTimes' /\ OneArrives'
        /\ Clock!Rows' = Clock!Rows
        /\ \A q \in Hands \ {d} : clockCall'[q] = clockCall[q]
    BY <2>1, <2>3, ClockFrame
  <2>5. AbsentOrStarting'
    <3>1. \A q \in Hands : \A e \in Clock!Rows :
             Starting(q, e) => Starting(q, e)' \/ shift' # "NO_SHOW"
      BY <2>1, <2>4 DEF Starting, Clocked
    <3>2. QED
      BY <1>0, <2>1, <2>4, <3>1, AbsenceKept
  <2>6. QED
    BY <2>4, <2>5 DEF ClockInductive
<1>3. CASE Clock!CompleteShift(d)
  <2>1. /\ clockCall[d] \in Leaving
        /\ UNCHANGED <<clockHour, entry, doubled, crossed, noShowLate>>
        /\ shift' = IF clockCall[d].scheduled THEN "COMPLETED" ELSE shift
        /\ clockCall' = [clockCall EXCEPT ![d] = Clock!NoCall]
    BY <1>0, <1>3, ClockCalls DEF Clock!CompleteShift, Clock!Done, Clock!Continue
  <2>2. /\ ClockType' /\ TimesRead' /\ Clock!HoursFollowTimes' /\ OneArrives'
        /\ Clock!Rows' = Clock!Rows
        /\ \A q \in Hands \ {d} : clockCall'[q] = clockCall[q]
    BY <1>1, <2>1, ClockFrame
  <2>3. \A q \in Hands : \A e \in Clock!Rows : Starting(q, e) => Starting(q, e)'
    BY <1>0, <2>1, <2>2, ClockCalls DEF Starting, Clocked
  <2>4. AbsentOrStarting'
    BY <1>0, <2>1, <2>2, <2>3, AbsenceKept
  <2>5. QED
    BY <2>2, <2>4 DEF ClockInductive
<1>4. CASE \E e \in Cards : Clock!ClockOutRead(d, e) \/ Clock!AutoRead(d, e)
  <2>1. PICK e \in Clock!Open : Clock!ClockOutRead(d, e) \/ Clock!AutoRead(d, e)
    BY <1>4 DEF Clock!ClockOutRead, Clock!AutoRead
  <2>2. e \in Clock!Rows /\ entry[e] \in EntryRow
    BY <1>0, <2>1, ClockRows
  <2>3. entry[e].in \in Int /\ entry[e].scheduled \in BOOLEAN
    BY <2>2 DEF EntryRow
  <2>4. /\ clockCall[d] = Clock!NoCall
        /\ UNCHANGED <<clockHour, entry, shift, doubled, crossed, noShowLate>>
    BY <2>1 DEF Clock!ClockOutRead, Clock!AutoRead, Clock!Begin
  <2>5. PICK c \in ClockCalling \ Arrival :
           /\ clockCall' = [clockCall EXCEPT ![d] = c]
           /\ c \notin Arrived
           /\ c.of \in Clock!Rows /\ c.in = entry[c.of].in
    <3>1. CASE Clock!ClockOutRead(d, e)
      <4> DEFINE c == [op |-> "out", at |-> "write", of |-> e, in |-> entry[e].in,
                       scheduled |-> entry[e].scheduled]
      <4>1. clockCall' = [clockCall EXCEPT ![d] = c]
        BY <3>1 DEF Clock!ClockOutRead, Clock!Begin
      <4>2. c \in Leaving /\ c \notin Arrival \union Arrived /\ c.of = e /\ c.in = entry[e].in
        BY <1>0, <2>2, <2>3, ClockRows DEF Leaving, Arrival, Arrived
      <4> HIDE DEF c
      <4>3. QED
        BY <2>2, <4>1, <4>2 DEF ClockCalling
    <3>2. CASE Clock!AutoRead(d, e)
      <4> DEFINE c == [op |-> "auto", of |-> e, in |-> entry[e].in,
                       scheduled |-> entry[e].scheduled]
      <4>1. clockCall' = [clockCall EXCEPT ![d] = c]
        BY <3>2 DEF Clock!AutoRead, Clock!Begin
      <4>2. c \in Closing /\ c \notin Arrival \union Arrived /\ c.of = e /\ c.in = entry[e].in
        BY <1>0, <2>2, <2>3, ClockRows DEF Closing, Arrival, Arrived
      <4> HIDE DEF c
      <4>3. QED
        BY <2>2, <4>1, <4>2 DEF ClockCalling
    <3>3. QED
      BY <2>1, <3>1, <3>2
  <2>6. /\ ClockType' /\ TimesRead' /\ Clock!HoursFollowTimes' /\ OneArrives'
        /\ Clock!Rows' = Clock!Rows
        /\ \A q \in Hands \ {d} : clockCall'[q] = clockCall[q]
    BY <2>4, <2>5, ClockFrame
  <2>7. \A q \in Hands : \A f \in Clock!Rows : Starting(q, f) => Starting(q, f)'
    BY <1>1, <2>4, <2>6 DEF Starting, Clocked
  <2>8. AbsentOrStarting'
    BY <1>0, <2>4, <2>6, <2>7, AbsenceKept
  <2>9. QED
    BY <2>6, <2>8 DEF ClockInductive
<1>5. CASE Clock!MissedRead(d)
  <2> DEFINE c == [op |-> "missed"]
  <2>1. /\ clockCall[d] = Clock!NoCall
        /\ UNCHANGED <<clockHour, entry, shift, doubled, crossed, noShowLate>>
        /\ clockCall' = [clockCall EXCEPT ![d] = c]
    BY <1>5 DEF Clock!MissedRead, Clock!Begin
  <2>2. c \in ClockCalling \ (Arrival \union Arrived \union Leaving \union Closing)
    BY DEF ClockCalling, Arrival, Arrived, Leaving, Closing, Absence
  <2> HIDE DEF c
  <2>3. /\ ClockType' /\ TimesRead' /\ Clock!HoursFollowTimes' /\ OneArrives'
        /\ Clock!Rows' = Clock!Rows
        /\ \A q \in Hands \ {d} : clockCall'[q] = clockCall[q]
    BY <2>1, <2>2, ClockFrame
  <2>4. \A q \in Hands : \A e \in Clock!Rows : Starting(q, e) => Starting(q, e)'
    BY <1>1, <2>1, <2>3 DEF Starting, Clocked
  <2>5. AbsentOrStarting'
    BY <1>0, <2>1, <2>3, <2>4, AbsenceKept
  <2>6. QED
    BY <2>3, <2>5 DEF ClockInductive
<1>6. CASE Clock!MissedWrite(d)
  <2>1. /\ UNCHANGED <<clockHour, entry, doubled, crossed>>
        /\ noShowLate' = (noShowLate \/ \E e \in Clock!Rows : entry[e].scheduled)
        /\ clockCall' = [clockCall EXCEPT ![d] = Clock!NoCall]
    BY <1>6 DEF Clock!MissedWrite, Clock!Done, Clock!Continue
  <2>2. /\ ClockType' /\ TimesRead' /\ Clock!HoursFollowTimes' /\ OneArrives'
        /\ Clock!Rows' = Clock!Rows
    BY <1>1, <2>1, ClockFrame
  <2>3. AbsentOrStarting'
    BY <2>1, <2>2 DEF AbsentOrStarting
  <2>4. QED
    BY <2>2, <2>3 DEF ClockInductive
<1>7. CASE Clock!Fail(d)
  <2>1. /\ UNCHANGED <<clockHour, entry, shift, doubled, crossed>>
        /\ noShowLate' = (noShowLate \/ clockCall[d].op = "in")
        /\ clockCall' = [clockCall EXCEPT ![d] = Clock!NoCall]
    BY <1>7 DEF Clock!Fail, Clock!Done, Clock!Continue
  <2>2. /\ ClockType' /\ TimesRead' /\ Clock!HoursFollowTimes' /\ OneArrives'
        /\ Clock!Rows' = Clock!Rows
        /\ \A q \in Hands \ {d} : clockCall'[q] = clockCall[q]
    BY <1>1, <2>1, ClockFrame
  <2>3. AbsentOrStarting'
    <3>1. CASE clockCall[d].op = "in"
      BY <2>1, <3>1 DEF AbsentOrStarting
    <3>2. CASE clockCall[d].op # "in"
      <4>1. ~Clocked(d)
        BY <1>0, <3>2, ClockCalls
      <4>2. \A q \in Hands : \A e \in Clock!Rows : Starting(q, e) => Starting(q, e)'
        BY <2>2, <4>1 DEF Starting, Clocked
      <4>3. CASE noShowLate
        BY <2>1, <4>3 DEF AbsentOrStarting
      <4>4. CASE ~noShowLate
        BY <1>0, <2>1, <2>2, <3>2, <4>2, <4>4 DEF AbsentOrStarting, Starting
      <4>5. QED
        BY <4>3, <4>4
    <3>3. QED
      BY <3>1, <3>2
  <2>4. QED
    BY <2>2, <2>3 DEF ClockInductive
<1>8. QED
  BY <1>2, <1>3, <1>4, <1>5, <1>6, <1>7

\* A row is written again, for the same shift.
LEMMA RowStep ==
    ASSUME ClockInductive, NEW e \in Clock!Rows, NEW r \in EntryRow,
           entry' = [entry EXCEPT ![e] = r],
           r.scheduled = entry[e].scheduled, r.open => entry[e].open /\ r.pay = entry[e].pay,
           ~r.open /\ e \notin crossed' => r.hours = r.out - r.in /\ r.pay \in {-1, r.hours},
           crossed \subseteq crossed', UNCHANGED <<clockHour, doubled, noShowLate>>,
           clockCall' \in [Hands -> ClockCalling],
           \A q \in Hands : \/ clockCall'[q] = clockCall[q]
                            \/ clockCall'[q] = Clock!NoCall
                            \/ /\ clockCall[q] \in Leaving /\ clockCall'[q] \in Leaving
                               /\ clockCall'[q].of = clockCall[q].of
                               /\ clockCall'[q].in = clockCall[q].in,
           \A q \in Hands : Closes(q) /\ clockCall[q].of = e =>
                               e \in crossed' \/ r.in = entry[e].in,
           shift' = shift,
           \A q \in Hands : Clocked(q) /\ clockCall[q].at = "shift" => clockCall'[q] = clockCall[q]
    PROVE  ClockInductive'
<1>0. /\ ClockType /\ TimesRead /\ Clock!HoursFollowTimes /\ OneArrives /\ AbsentOrStarting
  BY DEF ClockInductive
<1>1. e \in Cards
  BY <1>0, ClockRows
<1>2. /\ entry' \in [Cards -> EntryRow \union {Clock!NoEntry}]
      /\ entry'[e] = r /\ \A f \in Cards \ {e} : entry'[f] = entry[f]
      /\ Clock!Rows' = Clock!Rows \union {e}
      /\ Clock!Open' = IF r.open THEN Clock!Open \union {e} ELSE Clock!Open \ {e}
  BY <1>0, <1>1, EntryWritten
<1>3. Clock!Rows' = Clock!Rows /\ Clock!Open' \subseteq Clock!Open
  <2>1. r.open => e \in Clock!Open
    BY DEF Clock!Open
  <2>2. QED
    BY <1>2, <2>1
<1>4. ClockType'
  BY <1>0, <1>2 DEF ClockType, ClockCalling
<1>5. \A q \in Hands : /\ Clocked(q)' => Clocked(q) /\ clockCall'[q].of = clockCall[q].of
                       /\ Closes(q)' => /\ Closes(q) /\ clockCall'[q].of = clockCall[q].of
                                        /\ clockCall'[q].in = clockCall[q].in
                       /\ q \in Arriving' => q \in Arriving
  <2>1. Clock!NoCall \notin Arrival \union Arrived \union Leaving \union Closing
    BY DEF Arrival, Arrived, Leaving, Closing, Clock!NoCall
  <2>2. \A c \in Leaving : c \notin Arrived /\ c \notin Arrival
    BY DEF Arrival, Arrived, Leaving
  <2>3. QED
    BY <2>1, <2>2 DEF Clocked, Closes, Arriving
<1>6. TimesRead'
  <2>1. ASSUME NEW f \in Clock!Rows', entry'[f].open
        PROVE  entry'[f].pay = -1
    <3>1. CASE f = e
      BY <1>0, <1>2, <2>1, <3>1 DEF TimesRead
    <3>2. CASE f # e
      BY <1>0, <1>2, <1>3, <2>1, <3>2, ClockRows DEF TimesRead
    <3>3. QED
      BY <3>1, <3>2
  <2>2. ASSUME NEW q \in Hands, Closes(q)'
        PROVE  /\ clockCall'[q].of \in Clock!Rows'
               /\ \/ clockCall'[q].of \in crossed'
                  \/ clockCall'[q].in = entry'[clockCall'[q].of].in
    <3>1. /\ Closes(q) /\ clockCall'[q].of = clockCall[q].of
          /\ clockCall'[q].in = clockCall[q].in
      BY <1>5, <2>2
    <3>2. /\ clockCall[q].of \in Clock!Rows
          /\ \/ clockCall[q].of \in crossed
             \/ clockCall[q].in = entry[clockCall[q].of].in
      BY <1>0, <3>1 DEF TimesRead
    <3>3. CASE clockCall[q].of = e
      BY <1>2, <1>3, <3>1, <3>2, <3>3
    <3>4. CASE clockCall[q].of # e
      BY <1>0, <1>2, <1>3, <3>1, <3>2, <3>4, ClockRows
    <3>5. QED
      BY <3>3, <3>4
  <2>3. \A q \in Hands : Clocked(q)' => clockCall'[q].of \in Clock!Rows'
    BY <1>0, <1>3, <1>5 DEF TimesRead
  <2>4. QED
    BY <2>1, <2>2, <2>3 DEF TimesRead
<1>7. Clock!HoursFollowTimes'
  <2> SUFFICES ASSUME NEW f \in (Clock!Rows \ (Clock!Open \union crossed))'
               PROVE  /\ entry'[f].hours = entry'[f].out - entry'[f].in
                      /\ entry'[f].pay \in {-1, entry'[f].hours}
    BY DEF Clock!HoursFollowTimes
  <2>1. f \in Clock!Rows /\ f \in Cards
    BY <1>0, <1>3, ClockRows
  <2>2. CASE f = e
    <3>1. ~r.open
      BY <1>2, <2>2
    <3>2. QED
      BY <1>2, <2>2, <3>1
  <2>3. CASE f # e
    <3>1. entry'[f] = entry[f] /\ f \notin Clock!Open
      BY <1>2, <2>1, <2>3
    <3>2. QED
      BY <1>0, <2>1, <3>1 DEF Clock!HoursFollowTimes
  <2>4. QED
    BY <2>2, <2>3
<1>8. OneArrives'
  <2>1. doubled' = doubled /\ Arriving' \subseteq Arriving
    BY <1>5 DEF Arriving
  <2>2. QED
    BY <1>0, <1>3, <2>1, ArrivalsKept
<1>9. AbsentOrStarting'
  <2>1. \A f \in Clock!Rows : entry'[f].scheduled = entry[f].scheduled
    BY <1>0, <1>2, ClockRows
  <2>2. \A q \in Hands : \A f \in Clock!Rows : Starting(q, f) => Starting(q, f)'
    BY DEF Starting, Clocked
  <2>3. QED
    BY <1>0, <1>3, <2>1, <2>2, AbsenceKept
<1>10. QED
  BY <1>4, <1>6, <1>7, <1>8, <1>9 DEF ClockInductive

LEMMA ClockWriteStep ==
    ASSUME ClockInductive,
           \/ \E d \in Hands : Clock!Stamp(d) \/ Clock!ClockOutWrite(d) \/ Clock!AutoWrite(d)
           \/ \E e \in Cards : Clock!Approve(e) \/ \E stamp \in 0 .. clockHour : Clock!SyncConflict(e, stamp)
    PROVE  ClockInductive'
<1>0. /\ ClockType /\ TimesRead /\ Clock!HoursFollowTimes
  BY DEF ClockInductive
<1>1. \A e \in Clock!Rows : /\ entry[e] \in EntryRow /\ e \in Cards
                            /\ entry[e].in \in Int /\ entry[e].out \in Int
                            /\ entry[e].hours \in Int /\ entry[e].pay \in Int
                            /\ entry[e].open \in BOOLEAN /\ entry[e].scheduled \in BOOLEAN
                            /\ entry[e].review \in BOOLEAN
  BY <1>0, ClockRows DEF EntryRow
<1>2. Clock!NoCall \in ClockCalling
  BY DEF ClockCalling
<1>3. ASSUME NEW d \in Hands, Clock!Stamp(d)
      PROVE  ClockInductive'
  <2>1. Clocked(d) /\ clockCall[d].at = "stamp"
    BY <1>0, <1>3, ClockCalls DEF Clock!Stamp
  <2>2. clockCall[d].of \in Clock!Rows /\ clockCall[d].stamp \in Int
    BY <1>0, <2>1 DEF TimesRead, Clocked, Arrived
  <2> DEFINE e == clockCall[d].of
             r == [entry[e] EXCEPT !.in = clockCall[d].stamp]
  <2>3. /\ entry' = [entry EXCEPT ![e].in = clockCall[d].stamp]
        /\ crossed' = IF \/ ~entry[e].open
                         \/ \E q \in Hands : clockCall[q].op \in {"out", "auto"} /\ clockCall[q].of = e
                      THEN crossed \union {e} ELSE crossed
        /\ clockCall' = [clockCall EXCEPT ![d] = Clock!NoCall]
        /\ UNCHANGED <<clockHour, shift, doubled, noShowLate>>
    BY <1>3 DEF Clock!Stamp, Clock!Done, Clock!Continue
  <2>4. entry' = [entry EXCEPT ![e] = r]
    BY <2>3
  <2>5. /\ r \in EntryRow /\ r.open = entry[e].open /\ r.pay = entry[e].pay
        /\ r.scheduled = entry[e].scheduled
    BY <1>1, <2>2 DEF EntryRow
  <2>6. /\ clockCall' \in [Hands -> ClockCalling]
        /\ \A q \in Hands \ {d} : clockCall'[q] = clockCall[q]
        /\ clockCall'[d] = Clock!NoCall
    BY <1>0, <1>2, <2>3, ClockCallMade
  <2>7. \A q \in Hands : Closes(q) /\ clockCall[q].of = e => e \in crossed'
    <3>1. \A q \in Hands : Closes(q) => clockCall[q].op \in {"out", "auto"}
      BY DEF Closes, Leaving, Closing
    <3>2. QED
      BY <2>3, <3>1
  <2>8. ~r.open => e \in crossed'
    BY <2>3, <2>5
  <2>9. crossed \subseteq crossed'
    BY <2>3
  <2> HIDE DEF e, r
  <2>10. e \in Clock!Rows
    BY <2>2 DEF e
  <2>11. /\ \A q \in Hands : Clocked(q) /\ clockCall[q].at = "shift" => clockCall'[q] = clockCall[q]
         /\ \A q \in Hands : clockCall'[q] = clockCall[q] \/ clockCall'[q] = Clock!NoCall
    BY <2>1, <2>6
  <2>12. /\ r.open => entry[e].open /\ r.pay = entry[e].pay
         /\ ~r.open /\ e \notin crossed' => r.hours = r.out - r.in /\ r.pay \in {-1, r.hours}
    BY <2>5, <2>8
  <2>13. \A q \in Hands : Closes(q) /\ clockCall[q].of = e => e \in crossed' \/ r.in = entry[e].in
    BY <2>7
  <2>14. UNCHANGED <<clockHour, doubled, noShowLate>> /\ shift' = shift
    BY <2>3
  <2>15. QED
    BY <2>4, <2>5, <2>6, <2>9, <2>10, <2>11, <2>12, <2>13, <2>14, RowStep
<1>4. ASSUME NEW d \in Hands, Clock!ClockOutWrite(d)
      PROVE  ClockInductive'
  <2> DEFINE c == clockCall[d]
             e == clockCall[d].of
             r == Clock!Closed(entry[e], clockHour, clockHour - c.in, clockHour - c.in, entry[e].review)
             n == [clockCall[d] EXCEPT !.at = "shift"]
  <2>1. /\ c \in Leaving
        /\ entry' = [entry EXCEPT ![e] = r]
        /\ clockCall' = [clockCall EXCEPT ![d] = n]
        /\ UNCHANGED <<clockHour, shift, doubled, crossed, noShowLate>>
    BY <1>0, <1>4, ClockCalls DEF Clock!ClockOutWrite, Clock!Continue
  <2>2. c.in \in Int /\ e \in Clock!Rows /\ (e \in crossed \/ c.in = entry[e].in)
    BY <1>0, <2>1 DEF Leaving, TimesRead, Closes
  <2>3. clockHour - c.in \in Int
    BY <1>0, <2>2 DEF ClockType
  <2>4. /\ r \in EntryRow /\ ~r.open /\ r.scheduled = entry[e].scheduled
        /\ r.in = entry[e].in /\ r.out = clockHour
        /\ r.hours = clockHour - c.in /\ r.pay = r.hours
    BY <1>0, <1>1, <2>2, <2>3 DEF EntryRow, Clock!Closed, ClockType
  <2>5. e \notin crossed => r.hours = r.out - r.in
    BY <2>2, <2>4
  <2>6. n \in Leaving /\ n.of = c.of /\ n.in = c.in
    BY <2>1 DEF Leaving
  <2>7. n \in ClockCalling
    BY <2>6 DEF ClockCalling
  <2> HIDE DEF n
  <2>8. /\ clockCall' \in [Hands -> ClockCalling]
        /\ \A q \in Hands \ {d} : clockCall'[q] = clockCall[q]
        /\ clockCall'[d] = n
    BY <1>0, <2>1, <2>7, ClockCallMade
  <2>9. \A q \in Hands : Clocked(q) => clockCall'[q] = clockCall[q]
    BY <1>0, <2>1, <2>8, ClockCalls
  <2>10. \A q \in Hands : \/ clockCall'[q] = clockCall[q]
                          \/ clockCall'[q] = Clock!NoCall
                          \/ /\ clockCall[q] \in Leaving /\ clockCall'[q] \in Leaving
                             /\ clockCall'[q].of = clockCall[q].of
                             /\ clockCall'[q].in = clockCall[q].in
    BY <2>1, <2>6, <2>8
  <2> HIDE DEF e, r, c
  <2>11. QED
    BY <2>1, <2>2, <2>4, <2>5, <2>8, <2>9, <2>10, RowStep
<1>5. ASSUME NEW d \in Hands, Clock!AutoWrite(d)
      PROVE  ClockInductive'
  <2> DEFINE c == clockCall[d]
             e == clockCall[d].of
             out == IF c.scheduled THEN ShiftEnd ELSE c.in + UsualDay
             r == Clock!Closed(entry[e], out, out - c.in, entry[e].pay, TRUE)
  <2>1. /\ c \in Closing
        /\ entry' = [entry EXCEPT ![e] = r]
        /\ crossed' = IF entry[e].open THEN crossed ELSE crossed \union {e}
        /\ clockCall' = [clockCall EXCEPT ![d] = Clock!NoCall]
        /\ UNCHANGED <<clockHour, shift, doubled, noShowLate>>
    BY <1>0, <1>5, ClockCalls DEF Clock!AutoWrite, Clock!Done, Clock!Continue
  <2>2. c.in \in Int /\ e \in Clock!Rows /\ (e \in crossed \/ c.in = entry[e].in)
    BY <1>0, <2>1 DEF Closing, TimesRead, Closes
  <2>3. out \in Int
    BY <2>2, StoreDayAssumption
  <2> HIDE DEF out
  <2>4. out - c.in \in Int
    BY <2>2, <2>3
  <2>5. /\ r \in EntryRow /\ ~r.open /\ r.scheduled = entry[e].scheduled
        /\ r.in = entry[e].in /\ r.out = out
        /\ r.hours = out - c.in /\ r.pay = entry[e].pay
    BY <1>1, <2>2, <2>3, <2>4 DEF EntryRow, Clock!Closed
  <2>6. e \notin crossed' => r.hours = r.out - r.in /\ r.pay = -1
    BY <1>0, <2>1, <2>2, <2>5 DEF TimesRead
  <2>7. /\ clockCall' \in [Hands -> ClockCalling]
        /\ \A q \in Hands \ {d} : clockCall'[q] = clockCall[q]
        /\ clockCall'[d] = Clock!NoCall
    BY <1>0, <1>2, <2>1, ClockCallMade
  <2>8. \A q \in Hands : Clocked(q) => clockCall'[q] = clockCall[q]
    BY <1>0, <2>1, <2>7, ClockCalls
  <2>9. crossed \subseteq crossed'
    BY <2>1
  <2> HIDE DEF e, r, c
  <2>10. QED
    BY <2>1, <2>2, <2>5, <2>6, <2>7, <2>8, <2>9, RowStep
<1>6. ASSUME NEW e \in Cards,
             Clock!Approve(e) \/ \E stamp \in 0 .. clockHour : Clock!SyncConflict(e, stamp)
      PROVE  ClockInductive'
  <2>1. e \in Clock!Rows /\ UNCHANGED <<clockHour, shift, clockCall, doubled, crossed, noShowLate>>
    BY <1>6 DEF Clock!Approve, Clock!SyncConflict, Clock!Open
  <2>2. PICK b \in BOOLEAN : entry' = [entry EXCEPT ![e].review = b]
    BY <1>6 DEF Clock!Approve, Clock!SyncConflict
  <2> DEFINE r == [entry[e] EXCEPT !.review = b]
  <2>3. entry' = [entry EXCEPT ![e] = r]
    BY <2>2
  <2>4. /\ r \in EntryRow /\ r.open = entry[e].open /\ r.pay = entry[e].pay
        /\ r.scheduled = entry[e].scheduled /\ r.in = entry[e].in
        /\ r.hours = entry[e].hours /\ r.out = entry[e].out
    BY <1>1, <2>1 DEF EntryRow
  <2>5. ~r.open /\ e \notin crossed => r.hours = r.out - r.in /\ r.pay \in {-1, r.hours}
    BY <1>0, <2>1, <2>4 DEF Clock!HoursFollowTimes, Clock!Open
  <2>6. clockCall' \in [Hands -> ClockCalling]
    BY <1>0, <2>1 DEF ClockType, ClockCalling
  <2> HIDE DEF r
  <2>7. r.open => entry[e].open /\ r.pay = entry[e].pay
    BY <2>4
  <2>8. e \notin crossed' => e \notin crossed
    BY <2>1
  <2>9. \A q \in Hands : clockCall'[q] = clockCall[q]
    BY <2>1
  <2>10. UNCHANGED <<clockHour, doubled, noShowLate>> /\ shift' = shift /\ crossed \subseteq crossed'
    BY <2>1
  <2>11. QED
    BY <2>1, <2>3, <2>4, <2>5, <2>6, <2>7, <2>8, <2>9, <2>10, RowStep
<1>7. QED
  BY <1>3, <1>4, <1>5, <1>6

LEMMA ClockMoves == ClockInductive /\ [Clock!Next]_clockVars => ClockInductive'
<1> SUFFICES ASSUME ClockInductive, [Clock!Next]_clockVars PROVE ClockInductive'
  OBVIOUS
<1>0. /\ ClockType /\ TimesRead /\ Clock!HoursFollowTimes /\ OneArrives /\ AbsentOrStarting
  BY DEF ClockInductive
<1>1. ASSUME UNCHANGED <<entry, clockCall, doubled, crossed, noShowLate>>, clockHour' \in Nat,
             shift' \in {shift, "CANCELLED"}
      PROVE  ClockInductive'
  <2>1. Clock!Rows' = Clock!Rows /\ Clock!Open' = Clock!Open /\ Arriving' = Arriving
    BY <1>1 DEF Clock!Rows, Clock!Open, Arriving
  <2>2. ClockType' /\ TimesRead' /\ Clock!HoursFollowTimes'
    BY <1>0, <1>1, <2>1 DEF ClockType, TimesRead, Clock!HoursFollowTimes, Clocked, Closes
  <2>3. OneArrives'
    BY <1>0, <1>1, <2>1, ArrivalsKept
  <2>4. AbsentOrStarting'
    BY <1>0, <1>1, <2>1, AbsenceKept DEF Starting, Clocked
  <2>5. QED
    BY <2>2, <2>3, <2>4 DEF ClockInductive
<1>2. CASE UNCHANGED clockVars
  BY <1>0, <1>1, <1>2 DEF clockVars, ClockType
<1>3. CASE Clock!Tick \/ Clock!cancelShift
  <2>1. clockHour + 1 \in Nat
    BY <1>0 DEF ClockType
  <2>2. QED
    BY <1>0, <1>1, <1>3, <2>1 DEF Clock!Tick, Clock!cancelShift, ClockType
<1>4. ASSUME NEW d \in Hands, NEW stamp \in 0 .. clockHour, NEW scheduled \in BOOLEAN,
             Clock!ClockInRead(d, stamp, scheduled)
      PROVE  ClockInductive'
  BY <1>4, ClockInStep
<1>5. ASSUME NEW d \in Hands, Clock!CreateEntry(d)
      PROVE  ClockInductive'
  <2>1. 0 \in 0 .. clockHour /\ FALSE \in BOOLEAN
    BY <1>0 DEF ClockType
  <2>2. QED
    BY <1>5, <2>1, ClockInStep
<1>6. QED
  BY <1>2, <1>3, <1>4, <1>5, ClockCallStep, ClockWriteStep DEF Clock!Next

LEMMA ClockStarts == Clock!Init => ClockInductive
<1> SUFFICES ASSUME Clock!Init PROVE ClockInductive
  OBVIOUS
<1>1. ClockType
  BY DEF Clock!Init, ClockType
<1>2. Clock!Rows = {} /\ Clock!Open = {}
  BY DEF Clock!Init, Clock!Rows, Clock!Open
<1>3. \A d \in Hands : ~Clocked(d) /\ ~Closes(d) /\ d \notin Arriving
  BY <1>1, ClockCalls DEF Clock!Init, Clocked, Closes
<1>4. doubled = FALSE /\ shift = "SCHEDULED"
  BY DEF Clock!Init
<1>5. TimesRead /\ Clock!HoursFollowTimes
  BY <1>2, <1>3 DEF TimesRead, Clock!HoursFollowTimes
<1>6. OneArrives
  <2>1. Arriving = {}
    BY <1>3 DEF Arriving
  <2>2. QED
    BY <1>2, <2>1 DEF OneArrives
<1>7. AbsentOrStarting
  BY <1>4 DEF AbsentOrStarting
<1>8. QED
  BY <1>1, <1>5, <1>6, <1>7 DEF ClockInductive

LEMMA ClockHolds == ClockInductive => Clock!TimeAccounted
<1> SUFFICES ASSUME ClockInductive PROVE Clock!TimeAccounted
  OBVIOUS
<1>0. /\ ClockType /\ Clock!HoursFollowTimes /\ OneArrives /\ AbsentOrStarting
  BY DEF ClockInductive
<1>1. Clock!OneClock
  <2>1. CASE doubled
    BY <2>1 DEF Clock!OneClock
  <2>2. CASE ~doubled
    <3>1. \A e, f \in Clock!Open : e = f
      BY <1>0, <2>2 DEF OneArrives
    <3>2. Cardinality(Clock!Open) \in {0, 1}
      <4>1. CASE Clock!Open = {}
        BY <4>1, FS_EmptySet
      <4>2. CASE Clock!Open # {}
        <5>1. PICK e : Clock!Open = {e}
          BY <3>1, <4>2
        <5>2. QED
          BY <5>1, FS_Singleton
      <4>3. QED
        BY <4>1, <4>2
    <3>3. Clock!Cardinality(Clock!Open) = Cardinality(Clock!Open)
      BY DEF Cardinality, Clock!Cardinality
    <3>4. QED
      BY <3>2, <3>3 DEF Clock!OneClock
  <2>3. QED
    BY <2>1, <2>2
<1>2. Clock!NoShowIsAbsent
  <2>1. \A d \in Hands : Clocked(d) => clockCall[d].op = "in"
    BY <1>0, ClockCalls
  <2>2. QED
    BY <1>0, <2>1 DEF AbsentOrStarting, Clock!NoShowIsAbsent
<1>3. QED
  BY <1>0, <1>1, <1>2 DEF Clock!TimeAccounted

ClockFollowed == focus = "clock" => ClockInductive

LEMMA ClockKept == Spec => []ClockFollowed
<1>1. Init => ClockFollowed
  BY ClockStarts DEF Init, ClockFollowed
<1>2. ClockFollowed /\ [Next]_everyVar => ClockFollowed'
  BY ClockMoves DEF ClockFollowed, Next, everyVar
<1>3. QED
  BY <1>1, <1>2, PTL DEF Spec

-----------------------------------------------------------------------------
(* The cost of labor.                                                      *)

\* While no two requests for a budget met, the one that is about to create it
\* is alone, finds none, and writes the limit asked for last.
LaborInductive ==
    /\ laborCall = [c \in Hands |-> laborCall[c]]
    /\ \/ broken
       \/ \A c \in Labor!Setting :
              /\ budgets = {} /\ laborCall[c].limit = wanted
              /\ \A d \in Labor!Setting : d = c
    /\ Labor!OneBudget

\* A call that is not about a budget changes.
LEMMA NotSetting ==
    ASSUME LaborInductive, NEW c \in Hands, NEW k, c \notin Labor!Setting, k.op # "create",
           laborCall' = [laborCall EXCEPT ![c] = k],
           UNCHANGED <<budgets, wanted>>, broken' <=> broken
    PROVE  LaborInductive'
<1>1. /\ laborCall' = [q \in Hands |-> laborCall'[q]]
      /\ laborCall'[c] = k /\ \A q \in Hands \ {c} : laborCall'[q] = laborCall[q]
  BY DEF LaborInductive
<1>2. Labor!Setting' = Labor!Setting /\ Labor!Setting \subseteq Hands
  BY <1>1 DEF Labor!Setting
<1>3. \A q \in Labor!Setting : laborCall'[q] = laborCall[q]
  BY <1>1, <1>2
<1>4. CASE broken
  <2>1. broken'
    BY <1>4
  <2>2. QED
    BY <1>1, <2>1 DEF LaborInductive, Labor!OneBudget
<1>5. CASE ~broken
  <2>1. /\ \A q \in Labor!Setting :
              /\ budgets = {} /\ laborCall[q].limit = wanted
              /\ \A d \in Labor!Setting : d = q
        /\ wanted = -1 \/ Labor!Setting # {} \/ budgets = {wanted}
    BY <1>5 DEF LaborInductive, Labor!OneBudget
  <2>2. QED
    BY <1>1, <1>2, <1>3, <2>1 DEF LaborInductive, Labor!OneBudget
<1>6. QED
  BY <1>4, <1>5

LEMMA LaborMoves == LaborInductive /\ [Labor!Next]_laborVars => LaborInductive'
<1> SUFFICES ASSUME LaborInductive, [Labor!Next]_laborVars PROVE LaborInductive'
  OBVIOUS
<1>1. laborCall = [c \in Hands |-> laborCall[c]] /\ Labor!Idle.op = "idle"
  BY DEF LaborInductive, Labor!Idle
<1>2. ASSUME UNCHANGED <<laborCall, budgets, wanted, broken>>
      PROVE  LaborInductive'
  BY <1>2 DEF LaborInductive, Labor!OneBudget, Labor!Setting
<1>3. ASSUME NEW c \in Hands,
             \/ Labor!getLaborDashboard(c) \/ Labor!LaborCostSnapshotJob(c)
             \/ Labor!calculateSnapshot(c) \/ Labor!ReadOrders(c) \/ Labor!JudgeAndStore(c)
      PROVE  LaborInductive'
  <2>1. /\ UNCHANGED <<budgets, wanted>> /\ (broken' <=> broken)
        /\ laborCall[c].op \in {"idle", "entries", "orders", "budget"}
    BY <1>1, <1>3 DEF Labor!getLaborDashboard, Labor!LaborCostSnapshotJob, Labor!Snapshots,
       Labor!calculateSnapshot, Labor!ReadOrders, Labor!JudgeAndStore
  <2>2. laborCall' = [laborCall EXCEPT ![c] = laborCall'[c]] /\ laborCall'[c].op # "create"
    <3>1. CASE Labor!getLaborDashboard(c) \/ Labor!LaborCostSnapshotJob(c)
      BY <1>1, <3>1 DEF Labor!getLaborDashboard, Labor!LaborCostSnapshotJob, Labor!Snapshots, Labor!Goto
    <3>2. CASE Labor!calculateSnapshot(c)
      BY <1>1, <3>2 DEF Labor!calculateSnapshot, Labor!Goto
    <3>3. CASE Labor!ReadOrders(c)
      BY <1>1, <3>3 DEF Labor!ReadOrders, Labor!Goto
    <3>4. CASE Labor!JudgeAndStore(c)
      BY <1>1, <3>4 DEF Labor!JudgeAndStore, Labor!Goto
    <3>5. QED
      BY <1>3, <3>1, <3>2, <3>3, <3>4
  <2>3. c \notin Labor!Setting
    BY <2>1 DEF Labor!Setting
  <2>4. PICK k : k = laborCall'[c]
    OBVIOUS
  <2>5. QED
    BY <2>1, <2>2, <2>3, <2>4, NotSetting
<1>4. ASSUME NEW c \in Hands, Labor!CreateBudget(c)
      PROVE  LaborInductive'
  <2>1. /\ c \in Labor!Setting /\ wanted' = wanted /\ broken' = broken
        /\ budgets' = budgets \union {laborCall[c].limit}
        /\ laborCall' = [laborCall EXCEPT ![c] = Labor!Idle]
    BY <1>4 DEF Labor!CreateBudget, Labor!Goto, Labor!Setting
  <2>2. laborCall' = [q \in Hands |-> laborCall'[q]] /\ Labor!Setting' = Labor!Setting \ {c}
    BY <1>1, <2>1 DEF Labor!Setting
  <2>3. CASE broken
    <3>1. broken'
      BY <2>1, <2>3
    <3>2. QED
      BY <2>2, <3>1 DEF LaborInductive, Labor!OneBudget
  <2>4. CASE ~broken
    <3>1. budgets = {} /\ laborCall[c].limit = wanted /\ \A d \in Labor!Setting : d = c
      BY <2>1, <2>4 DEF LaborInductive
    <3>2. budgets' = {wanted} /\ Labor!Setting' = {}
      BY <2>1, <2>2, <3>1
    <3>3. QED
      BY <2>1, <2>2, <3>2 DEF LaborInductive, Labor!OneBudget
  <2>5. QED
    BY <2>3, <2>4
<1>5. ASSUME NEW c \in Hands, NEW limit \in Budgeted, Labor!EndBudgets(c, limit)
      PROVE  LaborInductive'
  <2> DEFINE k == [op |-> "create", limit |-> limit]
  <2>1. /\ budgets' = {} /\ wanted' = limit /\ broken' = (broken \/ Labor!Setting # {})
        /\ laborCall' = [laborCall EXCEPT ![c] = k]
    BY <1>5 DEF Labor!EndBudgets, Labor!Goto
  <2>2. k.op = "create" /\ k.limit = limit
    OBVIOUS
  <2> HIDE DEF k
  <2>3. /\ laborCall' = [q \in Hands |-> laborCall'[q]] /\ laborCall'[c] = k
        /\ Labor!Setting' = Labor!Setting \union {c}
    BY <1>1, <2>1, <2>2 DEF Labor!Setting
  <2>4. CASE broken'
    BY <2>3, <2>4 DEF LaborInductive, Labor!OneBudget
  <2>5. CASE ~broken'
    <3>1. Labor!Setting = {}
      BY <2>1, <2>5
    <3>2. QED
      BY <2>1, <2>2, <2>3, <3>1 DEF LaborInductive, Labor!OneBudget
  <2>6. QED
    BY <2>4, <2>5
<1>6. ASSUME NEW c \in Hands, Labor!Fail(c)
      PROVE  LaborInductive'
  <2>1. /\ UNCHANGED <<budgets, wanted>> /\ broken' = (broken \/ laborCall[c].op = "create")
        /\ laborCall' = [laborCall EXCEPT ![c] = Labor!Idle]
    BY <1>6 DEF Labor!Fail, Labor!Goto
  <2>2. CASE broken'
    <3>1. laborCall' = [q \in Hands |-> laborCall'[q]]
      BY <1>1, <2>1
    <3>2. QED
      BY <2>2, <3>1 DEF LaborInductive, Labor!OneBudget
  <2>3. CASE ~broken'
    <3>1. c \notin Labor!Setting /\ ~broken
      BY <2>1, <2>3 DEF Labor!Setting
    <3>2. broken' <=> broken
      BY <2>3, <3>1
    <3>3. QED
      BY <1>1, <2>1, <3>1, <3>2, NotSetting
  <2>4. QED
    BY <2>2, <2>3
<1>7. CASE UNCHANGED laborVars
  BY <1>2, <1>7 DEF laborVars
<1>8. CASE (\E e \in Punches : Labor!ClockIn(e) \/ Labor!ClockOut(e)) \/ Labor!Sell \/ Labor!Tick
  BY <1>2, <1>8 DEF Labor!ClockIn, Labor!ClockOut, Labor!Sell, Labor!Tick
<1>9. QED
  BY <1>3, <1>4, <1>5, <1>6, <1>7, <1>8 DEF Labor!Next

LaborFollowed == focus = "labor" => LaborInductive

LEMMA LaborKept == Spec => []LaborFollowed
<1>1. Labor!Init => LaborInductive
  BY DEF Labor!Init, LaborInductive, Labor!OneBudget, Labor!Setting, Labor!Idle
<1>2. Init => LaborFollowed
  BY <1>1 DEF Init, LaborFollowed
<1>3. LaborFollowed /\ [Next]_everyVar => LaborFollowed'
  BY LaborMoves DEF LaborFollowed, Next, everyVar
<1>4. QED
  BY <1>2, <1>3, PTL DEF Spec

-----------------------------------------------------------------------------
(* The roster.                                                             *)

ShiftRow == [status : Plan!Statuses, by : Crew, store : Houses, time : Times]
PlanCall == [op : {"plan"}, by : Crew, store : Houses, time : Times, knew : BOOLEAN]
CreateCall == [op : {"create"}, by : Crew, store : Houses, time : Times, knew : BOOLEAN,
               outdated : BOOLEAN]
MoveCall == [op : {"move"}, of : Cards, by : Crew, time : Times, outdated : BOOLEAN]
GrantCall == [op : {"grant"}, by : Crew, store : Houses, found : {"none", "active", "inactive"}]
LeaveCall == [op : {"access", "shifts"}, by : Crew]
RosterCalling == UNION {PlanCall, CreateCall, MoveCall, GrantCall, LeaveCall, {Plan!Idle}}

RosterType ==
    /\ access \in [Crew -> [Houses -> {"none", "active", "inactive"}]]
    /\ planned \in [Cards -> ShiftRow \union {Plan!NoShift}]
    /\ rosterCall \in [Hands -> RosterCalling]
    /\ left \subseteq Crew

\* The shift a call is to move is that of its owner.
MovesOwn ==
    \A m \in Hands : rosterCall[m] \in MoveCall =>
        /\ Plan!Planned(rosterCall[m].of)
        /\ planned[rosterCall[m].of].by = rosterCall[m].by

\* Of the shifts of a person but those to be moved, none is in the way of t.
FreeAt(u, t, but) ==
    \A s \in Cards \ but : Plan!Booked(u, s) => ~Plan!InTheWay(t, planned[s].time)

\* What a call that is not outdated found is so still.
FreeStill ==
    \A m \in Hands :
        /\ rosterCall[m] \in CreateCall =>
               \/ rosterCall[m].outdated \/ rosterCall[m].by \in overlapped
               \/ FreeAt(rosterCall[m].by, rosterCall[m].time, {})
        /\ rosterCall[m] \in MoveCall =>
               \/ rosterCall[m].outdated \/ rosterCall[m].by \in overlapped
               \/ FreeAt(rosterCall[m].by, rosterCall[m].time, {rosterCall[m].of})

\* A shift is planned only for somebody who had not left.
NotKnown ==
    \A m \in Hands : rosterCall[m] \in PlanCall \union CreateCall => rosterCall[m].knew = FALSE

RosterInductive ==
    RosterType /\ MovesOwn /\ FreeStill /\ NotKnown /\ Plan!NoDoubleBooking /\ Plan!GoneForGood

LEMMA ShiftRows ==
    ASSUME RosterType
    PROVE  \A s \in Cards : /\ Plan!Planned(s) <=> planned[s] \in ShiftRow
                            /\ ~Plan!Planned(s) <=> planned[s] = Plan!NoShift
<1>1. Plan!NoShift \notin ShiftRow
  <2>1. "by" \notin DOMAIN Plan!NoShift
    BY DEF Plan!NoShift
  <2>2. \A r \in ShiftRow : "by" \in DOMAIN r
    BY DEF ShiftRow
  <2>3. QED
    BY <2>1, <2>2
<1>2. QED
  BY <1>1 DEF RosterType, Plan!Planned

LEMMA RosterCalls ==
    ASSUME RosterType, NEW m \in Hands
    PROVE  /\ rosterCall[m].op = "plan" <=> rosterCall[m] \in PlanCall
           /\ rosterCall[m].op = "create" <=> rosterCall[m] \in CreateCall
           /\ rosterCall[m].op = "move" <=> rosterCall[m] \in MoveCall
           /\ rosterCall[m].op = "grant" <=> rosterCall[m] \in GrantCall
           /\ rosterCall[m].op \in {"access", "shifts"} <=> rosterCall[m] \in LeaveCall
           /\ rosterCall[m] = Plan!Idle => rosterCall[m].op = "idle"
BY DEF RosterType, RosterCalling, PlanCall, CreateCall, MoveCall, GrantCall, LeaveCall, Plan!Idle

\* Of two times that last, one is in the way of the other when the other is.
LEMMA BothInTheWay ==
    ASSUME NEW t \in Times, NEW o \in Times, t[1] <= t[2], o[1] <= o[2],
           Plan!InTheWay(o, t)
    PROVE  Plan!InTheWay(t, o)
<1>1. /\ t[1] \in Int /\ t[2] \in Int /\ o[1] \in Int /\ o[2] \in Int
  BY StoreDayAssumption
<1>2. QED
  BY <1>1 DEF Plan!InTheWay

LEMMA RosterCallMade ==
    ASSUME RosterType, NEW m \in Hands, NEW c \in RosterCalling,
           rosterCall' = [rosterCall EXCEPT ![m] = c]
    PROVE  /\ rosterCall' \in [Hands -> RosterCalling] /\ rosterCall'[m] = c
           /\ \A n \in Hands \ {m} : rosterCall'[n] = rosterCall[n]
BY DEF RosterType

\* A request begins, goes on or ends; no row is written.
LEMMA RosterCallStep ==
    ASSUME RosterInductive, NEW m \in Hands, NEW c \in RosterCalling,
           rosterCall' = [rosterCall EXCEPT ![m] = c],
           UNCHANGED <<access, planned, overlapped, left>>,
           c \in PlanCall \union CreateCall => c.knew = FALSE,
           c \in CreateCall => FreeAt(c.by, c.time, {}),
           c \in MoveCall => /\ Plan!Planned(c.of) /\ planned[c.of].by = c.by
                             /\ FreeAt(c.by, c.time, {c.of})
    PROVE  RosterInductive'
<1>0. RosterType /\ MovesOwn /\ FreeStill /\ NotKnown /\ Plan!NoDoubleBooking /\ Plan!GoneForGood
  BY DEF RosterInductive
<1>1. /\ rosterCall' \in [Hands -> RosterCalling] /\ rosterCall'[m] = c
      /\ \A n \in Hands \ {m} : rosterCall'[n] = rosterCall[n]
  BY <1>0, RosterCallMade
<1>2. /\ \A s : Plan!Planned(s)' <=> Plan!Planned(s)
      /\ \A u, t, but : FreeAt(u, t, but)' <=> FreeAt(u, t, but)
  BY DEF Plan!Planned, FreeAt, Plan!Booked
<1>3. RosterType'
  BY <1>0, <1>1 DEF RosterType
<1>4. MovesOwn'
  BY <1>0, <1>1, <1>2 DEF MovesOwn
<1>5. FreeStill'
  <2> SUFFICES ASSUME NEW n \in Hands
               PROVE  /\ rosterCall'[n] \in CreateCall =>
                             \/ rosterCall'[n].outdated \/ rosterCall'[n].by \in overlapped
                             \/ FreeAt(rosterCall'[n].by, rosterCall'[n].time, {})
                      /\ rosterCall'[n] \in MoveCall =>
                             \/ rosterCall'[n].outdated \/ rosterCall'[n].by \in overlapped
                             \/ FreeAt(rosterCall'[n].by, rosterCall'[n].time, {rosterCall'[n].of})
    BY <1>2 DEF FreeStill
  <2>1. CASE n = m
    BY <1>1, <2>1
  <2>2. CASE n # m
    BY <1>0, <1>1, <2>2 DEF FreeStill
  <2>3. QED
    BY <2>1, <2>2
<1>6. NotKnown'
  BY <1>0, <1>1 DEF NotKnown
<1>7. Plan!NoDoubleBooking' /\ Plan!GoneForGood'
  BY <1>0 DEF Plan!NoDoubleBooking, Plan!GoneForGood, Plan!Booked, Plan!Planned, Plan!Lasts
<1>8. QED
  BY <1>3, <1>4, <1>5, <1>6, <1>7 DEF RosterInductive

\* Whoever writes a shift of u leaves the other requests about u outdated.
LEMMA OthersOutdated ==
    ASSUME RosterType, NEW m \in Hands, NEW u \in Crew, Plan!Written(m, u)
    PROVE  /\ rosterCall' \in [Hands -> RosterCalling]
           /\ \A n \in Hands :
                  /\ rosterCall'[n] \in PlanCall => rosterCall'[n] = rosterCall[n]
                  /\ rosterCall'[n] \in CreateCall =>
                         /\ rosterCall[n] \in CreateCall
                         /\ rosterCall'[n].knew = rosterCall[n].knew
                         /\ rosterCall'[n].outdated \/ (rosterCall'[n] = rosterCall[n] /\ rosterCall[n].by # u)
                  /\ rosterCall'[n] \in MoveCall =>
                         /\ rosterCall[n] \in MoveCall
                         /\ rosterCall'[n].of = rosterCall[n].of
                         /\ rosterCall'[n].by = rosterCall[n].by
                         /\ rosterCall'[n].outdated \/ (rosterCall'[n] = rosterCall[n] /\ rosterCall[n].by # u)
<1>1. rosterCall' = [n \in Hands |->
           IF n = m THEN Plan!Idle
           ELSE IF rosterCall[n].op \in {"create", "move"} /\ rosterCall[n].by = u
           THEN [rosterCall[n] EXCEPT !.outdated = TRUE] ELSE rosterCall[n]]
  BY DEF Plan!Written
<1> SUFFICES ASSUME NEW n \in Hands
             PROVE  /\ rosterCall'[n] \in RosterCalling
                    /\ rosterCall'[n] \in PlanCall => rosterCall'[n] = rosterCall[n]
                    /\ rosterCall'[n] \in CreateCall =>
                           /\ rosterCall[n] \in CreateCall
                           /\ rosterCall'[n].knew = rosterCall[n].knew
                           /\ rosterCall'[n].outdated \/ (rosterCall'[n] = rosterCall[n] /\ rosterCall[n].by # u)
                    /\ rosterCall'[n] \in MoveCall =>
                           /\ rosterCall[n] \in MoveCall
                           /\ rosterCall'[n].of = rosterCall[n].of
                           /\ rosterCall'[n].by = rosterCall[n].by
                           /\ rosterCall'[n].outdated \/ (rosterCall'[n] = rosterCall[n] /\ rosterCall[n].by # u)
  <2>1. rosterCall' = [n \in Hands |-> rosterCall'[n]]
    BY <1>1
  <2>2. QED
    BY <2>1
<1>2. CASE n = m
  <2>1. rosterCall'[n] = Plan!Idle
    BY <1>1, <1>2
  <2>2. Plan!Idle \in RosterCalling
    BY DEF RosterCalling
  <2>3. Plan!Idle \notin PlanCall \union CreateCall \union MoveCall
    BY DEF Plan!Idle, PlanCall, CreateCall, MoveCall
  <2>4. QED
    BY <2>1, <2>2, <2>3
<1>3. CASE n # m /\ rosterCall[n].op = "create" /\ rosterCall[n].by = u
  <2> DEFINE c == [rosterCall[n] EXCEPT !.outdated = TRUE]
  <2>1. rosterCall'[n] = c /\ rosterCall[n] \in CreateCall
    BY <1>1, <1>3, RosterCalls
  <2>2. c \in CreateCall /\ c.outdated /\ c.knew = rosterCall[n].knew
    BY <2>1 DEF CreateCall
  <2> HIDE DEF c
  <2>3. c \notin PlanCall \union MoveCall /\ c \in RosterCalling
    BY <2>2 DEF CreateCall, PlanCall, MoveCall, RosterCalling
  <2>4. QED
    BY <2>1, <2>2, <2>3
<1>4. CASE n # m /\ rosterCall[n].op = "move" /\ rosterCall[n].by = u
  <2> DEFINE c == [rosterCall[n] EXCEPT !.outdated = TRUE]
  <2>1. rosterCall'[n] = c /\ rosterCall[n] \in MoveCall
    BY <1>1, <1>4, RosterCalls
  <2>2. c \in MoveCall /\ c.outdated /\ c.of = rosterCall[n].of /\ c.by = rosterCall[n].by
    BY <2>1 DEF MoveCall
  <2> HIDE DEF c
  <2>3. c \notin PlanCall \union CreateCall /\ c \in RosterCalling
    BY <2>2 DEF CreateCall, PlanCall, MoveCall, RosterCalling
  <2>4. QED
    BY <2>1, <2>2, <2>3
<1>5. CASE n # m /\ ~(rosterCall[n].op \in {"create", "move"} /\ rosterCall[n].by = u)
  <2>1. rosterCall'[n] = rosterCall[n]
    BY <1>1, <1>5
  <2>2. rosterCall[n] \in CreateCall \union MoveCall => rosterCall[n].by # u
    BY <1>5, RosterCalls
  <2>3. QED
    BY <2>1, <2>2 DEF RosterType
<1>6. QED
  BY <1>2, <1>3, <1>4, <1>5

\* A request writes a shift of u that it knows to be free, or that is not its own
\* to vouch for.
LEMMA ShiftWritten ==
    ASSUME RosterInductive, NEW m \in Hands, NEW u \in Crew, NEW s \in Cards,
           NEW row \in ShiftRow, row.by = u, planned' = [planned EXCEPT ![s] = row],
           Plan!Written(m, u), access' = access, left' \subseteq left,
           Plan!Planned(s) => planned[s].by = u,
           rosterCall[m].outdated \/ u \in overlapped \/ FreeAt(u, row.time, {s}),
           u \in left' /\ row.status = "SCHEDULED" =>
               Plan!Planned(s) /\ planned[s].status = "SCHEDULED"
    PROVE  RosterInductive'
<1>0. RosterType /\ MovesOwn /\ FreeStill /\ NotKnown /\ Plan!NoDoubleBooking /\ Plan!GoneForGood
  BY DEF RosterInductive
<1>1. /\ rosterCall' \in [Hands -> RosterCalling]
      /\ \A n \in Hands :
             /\ rosterCall'[n] \in PlanCall => rosterCall'[n] = rosterCall[n]
             /\ rosterCall'[n] \in CreateCall =>
                    /\ rosterCall[n] \in CreateCall
                    /\ rosterCall'[n].knew = rosterCall[n].knew
                    /\ rosterCall'[n].outdated \/ (rosterCall'[n] = rosterCall[n] /\ rosterCall[n].by # u)
             /\ rosterCall'[n] \in MoveCall =>
                    /\ rosterCall[n] \in MoveCall
                    /\ rosterCall'[n].of = rosterCall[n].of
                    /\ rosterCall'[n].by = rosterCall[n].by
                    /\ rosterCall'[n].outdated \/ (rosterCall'[n] = rosterCall[n] /\ rosterCall[n].by # u)
  BY <1>0, OthersOutdated
<1>2. /\ planned' \in [Cards -> ShiftRow \union {Plan!NoShift}] /\ planned'[s] = row
      /\ \A r \in Cards \ {s} : planned'[r] = planned[r]
  BY <1>0 DEF RosterType
<1>3. RosterType'
  BY <1>0, <1>1, <1>2 DEF RosterType
<1>4. /\ Plan!Planned(s)' /\ \A r \in Cards \ {s} : Plan!Planned(r)' <=> Plan!Planned(r)
      /\ \A v : \A r \in Cards \ {s} : Plan!Booked(v, r)' <=> Plan!Booked(v, r)
      /\ \A v : Plan!Booked(v, s)' => v = u
  <2>1. row # Plan!NoShift
    <3>1. "by" \in DOMAIN row /\ "by" \notin DOMAIN Plan!NoShift
      BY DEF ShiftRow, Plan!NoShift
    <3>2. QED
      BY <3>1
  <2>2. QED
    BY <1>2, <2>1 DEF Plan!Planned, Plan!Booked
<1>5. overlapped \subseteq overlapped' /\ (u \notin overlapped' => FreeAt(u, row.time, {s}))
  <2>1. overlapped' = IF rosterCall[m].outdated THEN overlapped \union {u} ELSE overlapped
    BY DEF Plan!Written
  <2>2. QED
    BY <2>1
<1>6. MovesOwn'
  <2>1. ASSUME NEW n \in Hands, rosterCall'[n] \in MoveCall
        PROVE  /\ planned'[rosterCall'[n].of] # Plan!NoShift
               /\ planned'[rosterCall'[n].of].by = rosterCall'[n].by
    <3>1. /\ rosterCall[n] \in MoveCall
          /\ rosterCall'[n].of = rosterCall[n].of /\ rosterCall'[n].by = rosterCall[n].by
      BY <1>1, <2>1
    <3>2. /\ Plan!Planned(rosterCall[n].of) /\ rosterCall[n].of \in Cards
          /\ planned[rosterCall[n].of].by = rosterCall[n].by
      BY <1>0, <3>1 DEF MovesOwn, MoveCall
    <3>3. PICK r \in Cards : r = rosterCall[n].of
      BY <3>2
    <3>4. Plan!Planned(r)' /\ planned'[r].by = planned[r].by
      BY <1>2, <1>4, <3>2, <3>3
    <3>5. QED
      BY <3>1, <3>2, <3>3, <3>4 DEF Plan!Planned
  <2>2. QED
    BY <2>1 DEF MovesOwn, Plan!Planned
<1>7. \A v, t, but : v # u /\ FreeAt(v, t, but) => FreeAt(v, t, but)'
  BY <1>2, <1>4 DEF FreeAt
<1>8. FreeStill'
  <2> SUFFICES ASSUME NEW n \in Hands
               PROVE  /\ rosterCall'[n] \in CreateCall =>
                             \/ rosterCall'[n].outdated \/ rosterCall'[n].by \in overlapped'
                             \/ /\ rosterCall'[n] = rosterCall[n]
                                /\ FreeAt(rosterCall[n].by, rosterCall[n].time, {})'
                      /\ rosterCall'[n] \in MoveCall =>
                             \/ rosterCall'[n].outdated \/ rosterCall'[n].by \in overlapped'
                             \/ /\ rosterCall'[n] = rosterCall[n]
                                /\ FreeAt(rosterCall[n].by, rosterCall[n].time, {rosterCall[n].of})'
    BY DEF FreeStill, FreeAt, Plan!Booked, Plan!Planned
  <2>1. ASSUME rosterCall'[n] \in CreateCall, ~rosterCall'[n].outdated, rosterCall'[n].by \notin overlapped'
        PROVE  /\ rosterCall'[n] = rosterCall[n]
               /\ FreeAt(rosterCall[n].by, rosterCall[n].time, {})'
    <3>1. /\ rosterCall[n] \in CreateCall /\ rosterCall'[n] = rosterCall[n]
          /\ rosterCall[n].by # u
      BY <1>1, <2>1
    <3>2. FreeAt(rosterCall[n].by, rosterCall[n].time, {})
      BY <1>0, <1>5, <2>1, <3>1 DEF FreeStill
    <3>3. PICK v, t : v = rosterCall[n].by /\ t = rosterCall[n].time
      OBVIOUS
    <3>4. FreeAt(v, t, {})'
      BY <1>7, <3>1, <3>2, <3>3
    <3>5. QED
      BY <3>1, <3>3, <3>4 DEF FreeAt
  <2>2. ASSUME rosterCall'[n] \in MoveCall, ~rosterCall'[n].outdated, rosterCall'[n].by \notin overlapped'
        PROVE  /\ rosterCall'[n] = rosterCall[n]
               /\ FreeAt(rosterCall[n].by, rosterCall[n].time, {rosterCall[n].of})'
    <3>1. /\ rosterCall[n] \in MoveCall /\ rosterCall'[n] = rosterCall[n]
          /\ rosterCall[n].by # u
      BY <1>1, <2>2
    <3>2. FreeAt(rosterCall[n].by, rosterCall[n].time, {rosterCall[n].of})
      BY <1>0, <1>5, <2>2, <3>1 DEF FreeStill
    <3>3. PICK v, t, but : v = rosterCall[n].by /\ t = rosterCall[n].time /\ but = {rosterCall[n].of}
      OBVIOUS
    <3>4. FreeAt(v, t, but)'
      BY <1>7, <3>1, <3>2, <3>3
    <3>5. QED
      BY <3>1, <3>3, <3>4 DEF FreeAt
  <2>3. QED
    BY <2>1, <2>2
<1>9. NotKnown'
  BY <1>0, <1>1 DEF NotKnown
<1>10. Plan!NoDoubleBooking'
  <2> SUFFICES ASSUME NEW v \in Crew, v \notin overlapped', NEW a \in Cards, NEW b \in Cards, a # b,
                      Plan!Booked(v, a)', Plan!Booked(v, b)', Plan!Lasts(a)', Plan!Lasts(b)'
               PROVE  ~Plan!InTheWay(planned'[a].time, planned'[b].time)
    BY DEF Plan!NoDoubleBooking, Plan!InTheWay
  <2>1. CASE a # s /\ b # s
    BY <1>0, <1>2, <1>4, <1>5, <2>1 DEF Plan!NoDoubleBooking, Plan!Lasts
  <2>2. ASSUME NEW r \in Cards, r # s, Plan!Booked(u, r)', u \notin overlapped'
        PROVE  ~Plan!InTheWay(row.time, planned'[r].time)
    BY <1>2, <1>4, <1>5, <2>2 DEF FreeAt
  <2>3. CASE a = s
    BY <1>2, <1>4, <2>2, <2>3
  <2>4. CASE b = s
    <3>1. /\ planned'[a].time \in Times /\ row.time \in Times
      <4>1. planned'[a] \in ShiftRow
        BY <1>3, ShiftRows, <1>2, <1>4, <2>4 DEF RosterType, Plan!Booked, Plan!Planned
      <4>2. QED
        BY <4>1 DEF ShiftRow
    <3>2. /\ planned'[a].time[1] <= planned'[a].time[2] /\ row.time[1] <= row.time[2]
      BY <1>2, <2>4 DEF Plan!Lasts
    <3>3. ~Plan!InTheWay(row.time, planned'[a].time)
      BY <1>4, <2>2, <2>4
    <3>4. PICK t \in Times, o \in Times : t = row.time /\ o = planned'[a].time
      BY <3>1
    <3>5. ~Plan!InTheWay(o, t)
      BY <3>2, <3>3, <3>4, BothInTheWay
    <3>6. QED
      BY <1>2, <2>4, <3>4, <3>5
  <2>5. QED
    BY <2>1, <2>3, <2>4
<1>11. Plan!GoneForGood'
  <2> SUFFICES ASSUME NEW v \in left'
               PROVE  /\ \A st \in Houses : access'[v][st] # "active"
                      /\ \A r \in Cards : ~(Plan!Booked(v, r)' /\ planned'[r].status = "SCHEDULED")
    BY DEF Plan!GoneForGood
  <2>1. /\ \A st \in Houses : access[v][st] # "active"
        /\ \A r \in Cards : ~(Plan!Booked(v, r) /\ planned[r].status = "SCHEDULED")
    BY <1>0 DEF Plan!GoneForGood
  <2>2. ASSUME NEW r \in Cards, Plan!Booked(v, r)', planned'[r].status = "SCHEDULED"
        PROVE  FALSE
    <3>1. CASE r # s
      BY <1>2, <1>4, <2>1, <2>2, <3>1
    <3>2. CASE r = s
      <4>1. v = u /\ row.status = "SCHEDULED"
        BY <1>2, <1>4, <2>2, <3>2
      <4>2. Plan!Planned(s) /\ planned[s].status = "SCHEDULED" /\ planned[s].by = u
        BY <4>1
      <4>3. QED
        BY <2>1, <4>1, <4>2 DEF Plan!Booked
    <3>3. QED
      BY <3>1, <3>2
  <2>3. QED
    BY <2>1, <2>2
<1>12. QED
  BY <1>3, <1>6, <1>8, <1>9, <1>10, <1>11 DEF RosterInductive

\* Access changes, or the status of shifts; a shift that is taken up again leaves
\* its owner overlapped.
LEMMA RosterRest ==
    ASSUME RosterInductive, RosterType', Plan!GoneForGood', overlapped \subseteq overlapped',
           \A n \in Hands : rosterCall'[n] \in {rosterCall[n], Plan!Idle} \union GrantCall \union LeaveCall,
           \A s \in Cards :
               /\ Plan!Planned(s) => Plan!Planned(s)' /\ planned'[s].by = planned[s].by
                                     /\ planned'[s].time = planned[s].time
               /\ \A u \in Crew : Plan!Booked(u, s)' => Plan!Booked(u, s) \/ u \in overlapped'
    PROVE  RosterInductive'
<1>0. RosterType /\ MovesOwn /\ FreeStill /\ NotKnown /\ Plan!NoDoubleBooking
  BY DEF RosterInductive
<1>1. \A n \in Hands : /\ rosterCall'[n] \in MoveCall => rosterCall'[n] = rosterCall[n]
                       /\ rosterCall'[n] \in PlanCall \union CreateCall => rosterCall'[n] = rosterCall[n]
  <2>1. \A c \in GrantCall \union LeaveCall \union {Plan!Idle} :
            c \notin PlanCall \union CreateCall \union MoveCall
    BY DEF PlanCall, CreateCall, MoveCall, GrantCall, LeaveCall, Plan!Idle
  <2>2. QED
    BY <2>1
<1>2. MovesOwn'
  <2>1. ASSUME NEW n \in Hands, rosterCall'[n] \in MoveCall
        PROVE  /\ planned'[rosterCall'[n].of] # Plan!NoShift
               /\ planned'[rosterCall'[n].of].by = rosterCall'[n].by
    <3>1. /\ rosterCall[n] \in MoveCall /\ rosterCall'[n] = rosterCall[n]
      BY <1>1, <2>1
    <3>2. /\ Plan!Planned(rosterCall[n].of) /\ rosterCall[n].of \in Cards
          /\ planned[rosterCall[n].of].by = rosterCall[n].by
      BY <1>0, <3>1 DEF MovesOwn, MoveCall
    <3>3. PICK r \in Cards : r = rosterCall[n].of
      BY <3>2
    <3>4. Plan!Planned(r)' /\ planned'[r].by = planned[r].by
      BY <3>2, <3>3
    <3>5. QED
      BY <3>1, <3>2, <3>3, <3>4 DEF Plan!Planned
  <2>2. QED
    BY <2>1 DEF MovesOwn, Plan!Planned
<1>3. \A u \in Crew \ overlapped' : \A t, but : FreeAt(u, t, but) => FreeAt(u, t, but)'
  <2> SUFFICES ASSUME NEW u \in Crew \ overlapped', NEW t, NEW but, FreeAt(u, t, but),
                      NEW s \in Cards \ but, Plan!Booked(u, s)'
               PROVE  ~Plan!InTheWay(t, planned'[s].time)
    BY DEF FreeAt, Plan!InTheWay
  <2>1. Plan!Booked(u, s) /\ planned'[s].time = planned[s].time
    BY DEF Plan!Booked
  <2>2. QED
    BY <2>1 DEF FreeAt
<1>4. FreeStill'
  <2> SUFFICES ASSUME NEW n \in Hands
               PROVE  /\ rosterCall'[n] \in CreateCall =>
                             \/ rosterCall'[n].outdated \/ rosterCall'[n].by \in overlapped'
                             \/ /\ rosterCall'[n] = rosterCall[n]
                                /\ FreeAt(rosterCall[n].by, rosterCall[n].time, {})'
                      /\ rosterCall'[n] \in MoveCall =>
                             \/ rosterCall'[n].outdated \/ rosterCall'[n].by \in overlapped'
                             \/ /\ rosterCall'[n] = rosterCall[n]
                                /\ FreeAt(rosterCall[n].by, rosterCall[n].time, {rosterCall[n].of})'
    BY DEF FreeStill, FreeAt, Plan!Booked, Plan!Planned
  <2>1. ASSUME rosterCall'[n] \in CreateCall, ~rosterCall'[n].outdated, rosterCall'[n].by \notin overlapped'
        PROVE  /\ rosterCall'[n] = rosterCall[n]
               /\ FreeAt(rosterCall[n].by, rosterCall[n].time, {})'
    <3>1. rosterCall[n] \in CreateCall /\ rosterCall'[n] = rosterCall[n]
      BY <1>1, <2>1
    <3>2. FreeAt(rosterCall[n].by, rosterCall[n].time, {}) /\ rosterCall[n].by \in Crew
      BY <1>0, <2>1, <3>1 DEF FreeStill, CreateCall
    <3>3. PICK v, t : v \in Crew /\ v = rosterCall[n].by /\ t = rosterCall[n].time
      BY <3>2
    <3>4. FreeAt(v, t, {})'
      BY <1>3, <2>1, <3>1, <3>2, <3>3
    <3>5. QED
      BY <3>1, <3>3, <3>4 DEF FreeAt
  <2>2. ASSUME rosterCall'[n] \in MoveCall, ~rosterCall'[n].outdated, rosterCall'[n].by \notin overlapped'
        PROVE  /\ rosterCall'[n] = rosterCall[n]
               /\ FreeAt(rosterCall[n].by, rosterCall[n].time, {rosterCall[n].of})'
    <3>1. rosterCall[n] \in MoveCall /\ rosterCall'[n] = rosterCall[n]
      BY <1>1, <2>2
    <3>2. /\ FreeAt(rosterCall[n].by, rosterCall[n].time, {rosterCall[n].of})
          /\ rosterCall[n].by \in Crew
      BY <1>0, <2>2, <3>1 DEF FreeStill, MoveCall
    <3>3. PICK v, t, but : /\ v \in Crew /\ v = rosterCall[n].by
                            /\ t = rosterCall[n].time /\ but = {rosterCall[n].of}
      BY <3>2
    <3>4. FreeAt(v, t, but)'
      BY <1>3, <2>2, <3>1, <3>2, <3>3
    <3>5. QED
      BY <3>1, <3>3, <3>4 DEF FreeAt
  <2>3. QED
    BY <2>1, <2>2
<1>5. NotKnown'
  BY <1>0, <1>1 DEF NotKnown
<1>6. Plan!NoDoubleBooking'
  <2> SUFFICES ASSUME NEW v \in Crew, v \notin overlapped', NEW a \in Cards, NEW b \in Cards, a # b,
                      Plan!Booked(v, a)', Plan!Booked(v, b)', Plan!Lasts(a)', Plan!Lasts(b)'
               PROVE  ~Plan!InTheWay(planned'[a].time, planned'[b].time)
    BY DEF Plan!NoDoubleBooking, Plan!InTheWay
  <2>1. /\ Plan!Booked(v, a) /\ Plan!Booked(v, b)
        /\ planned'[a].time = planned[a].time /\ planned'[b].time = planned[b].time
    BY DEF Plan!Booked
  <2>2. QED
    BY <1>0, <2>1 DEF Plan!NoDoubleBooking, Plan!Lasts
<1>7. QED
  BY <1>2, <1>4, <1>5, <1>6 DEF RosterInductive

LEMMA PlanStep ==
    ASSUME RosterInductive,
           \E m \in Hands :
               \/ \E u \in Crew, st \in Houses, t \in Times : Plan!createShift(m, u, st, t)
               \/ Plan!LookForConflicts(m)
               \/ \E s \in Cards, t \in Times : Plan!updateShift(m, s, t)
               \/ \E u \in Crew : \/ \E st \in Houses : Plan!grantStoreAccess(m, u, st)
                                  \/ Plan!terminateStaff(m, u)
               \/ Plan!Fail(m)
    PROVE  RosterInductive'
<1>0. RosterType /\ NotKnown /\ Plan!GoneForGood
  BY DEF RosterInductive
<1>1. Plan!Idle \in RosterCalling \ (PlanCall \union CreateCall \union MoveCall)
  BY DEF RosterCalling, PlanCall, CreateCall, MoveCall, Plan!Idle
<1>2. ASSUME NEW m \in Hands, NEW u \in Crew, NEW st \in Houses, NEW t \in Times,
             Plan!createShift(m, u, st, t)
      PROVE  RosterInductive'
  <2> DEFINE c == [op |-> "plan", by |-> u, store |-> st, time |-> t, knew |-> u \in left]
  <2>1. /\ access[u][st] = "active" /\ UNCHANGED <<access, planned, overlapped, left>>
        /\ rosterCall' = [rosterCall EXCEPT ![m] = c]
    BY <1>2 DEF Plan!createShift, Plan!Begin, Plan!Goto
  <2>2. (u \in left) = FALSE
    BY <1>0, <2>1 DEF Plan!GoneForGood
  <2>3. c \in PlanCall /\ c.knew = FALSE
    BY <2>2 DEF PlanCall
  <2> HIDE DEF c
  <2>4. c \notin CreateCall \union MoveCall /\ c \in RosterCalling
    BY <2>3 DEF PlanCall, CreateCall, MoveCall, RosterCalling
  <2>5. QED
    BY <2>1, <2>3, <2>4, RosterCallStep
<1>3. ASSUME NEW m \in Hands, Plan!LookForConflicts(m)
      PROVE  RosterInductive'
  <2>1. /\ rosterCall[m] \in PlanCall /\ UNCHANGED <<access, planned, overlapped, left>>
    BY <1>0, <1>3, RosterCalls DEF Plan!LookForConflicts
  <2>2. /\ rosterCall[m].by \in Crew /\ rosterCall[m].store \in Houses
        /\ rosterCall[m].time \in Times /\ rosterCall[m].knew = FALSE
    BY <1>0, <2>1 DEF PlanCall, NotKnown
  <2>3. CASE Plan!checkShiftConflicts(rosterCall[m].by, rosterCall[m].time, {}) # {}
    <3>1. rosterCall' = [rosterCall EXCEPT ![m] = Plan!Idle]
      BY <1>3, <2>3 DEF Plan!LookForConflicts, Plan!Goto
    <3>2. QED
      BY <1>1, <2>1, <3>1, RosterCallStep
  <2>4. CASE Plan!checkShiftConflicts(rosterCall[m].by, rosterCall[m].time, {}) = {}
    <3> DEFINE c == [op |-> "create", by |-> rosterCall[m].by, store |-> rosterCall[m].store,
                     time |-> rosterCall[m].time, knew |-> rosterCall[m].knew, outdated |-> FALSE]
    <3>1. rosterCall' = [rosterCall EXCEPT ![m] = c]
      BY <1>3, <2>4 DEF Plan!LookForConflicts, Plan!Goto
    <3>2. /\ c \in CreateCall /\ c.knew = FALSE /\ c.by = rosterCall[m].by
          /\ c.time = rosterCall[m].time
      BY <2>2 DEF CreateCall
    <3> HIDE DEF c
    <3>3. c \notin PlanCall \union MoveCall /\ c \in RosterCalling
      BY <3>2 DEF PlanCall, CreateCall, MoveCall, RosterCalling
    <3>4. FreeAt(c.by, c.time, {})
      BY <2>4, <3>2 DEF FreeAt, Plan!checkShiftConflicts
    <3>5. QED
      BY <2>1, <3>1, <3>2, <3>3, <3>4, RosterCallStep
  <2>5. QED
    BY <2>3, <2>4
<1>4. ASSUME NEW m \in Hands, NEW s \in Cards, NEW t \in Times, Plan!updateShift(m, s, t)
      PROVE  RosterInductive'
  <2> DEFINE c == [op |-> "move", of |-> s, by |-> planned[s].by, time |-> t, outdated |-> FALSE]
  <2>1. /\ Plan!Planned(s) /\ UNCHANGED <<access, planned, overlapped, left>>
        /\ Plan!checkShiftConflicts(planned[s].by, t, {s}) = {}
        /\ rosterCall' = [rosterCall EXCEPT ![m] = c]
    BY <1>4 DEF Plan!updateShift, Plan!Begin, Plan!Goto
  <2>2. planned[s].by \in Crew
    BY <1>0, <2>1, ShiftRows DEF ShiftRow
  <2>3. c \in MoveCall /\ c.of = s /\ c.by = planned[s].by /\ c.time = t
    BY <2>2 DEF MoveCall
  <2> HIDE DEF c
  <2>4. c \notin PlanCall \union CreateCall /\ c \in RosterCalling
    BY <2>3 DEF PlanCall, CreateCall, MoveCall, RosterCalling
  <2>5. FreeAt(c.by, c.time, {c.of})
    BY <2>1, <2>3 DEF FreeAt, Plan!checkShiftConflicts
  <2>6. QED
    BY <2>1, <2>3, <2>4, <2>5, RosterCallStep
<1>5. ASSUME NEW m \in Hands, NEW u \in Crew,
             \/ \E st \in Houses : Plan!grantStoreAccess(m, u, st)
             \/ Plan!terminateStaff(m, u)
      PROVE  RosterInductive'
  <2>1. UNCHANGED <<access, planned, overlapped, left>>
    BY <1>5 DEF Plan!grantStoreAccess, Plan!terminateStaff
  <2>2. PICK c \in GrantCall \union LeaveCall : rosterCall' = [rosterCall EXCEPT ![m] = c]
    <3>1. CASE Plan!terminateStaff(m, u)
      <4>1. [op |-> "access", by |-> u] \in LeaveCall
        BY DEF LeaveCall
      <4>2. rosterCall' = [rosterCall EXCEPT ![m] = [op |-> "access", by |-> u]]
        BY <3>1 DEF Plan!terminateStaff, Plan!Begin, Plan!Goto
      <4>3. QED
        BY <4>1, <4>2
    <3>2. ASSUME NEW st \in Houses, Plan!grantStoreAccess(m, u, st)
          PROVE  \E c \in GrantCall : rosterCall' = [rosterCall EXCEPT ![m] = c]
      <4> DEFINE c == [op |-> "grant", by |-> u, store |-> st, found |-> access[u][st]]
      <4>1. access[u][st] \in {"none", "active", "inactive"}
        BY <1>0 DEF RosterType
      <4>2. c \in GrantCall
        BY <4>1 DEF GrantCall
      <4>3. rosterCall' = [rosterCall EXCEPT ![m] = c]
        BY <3>2 DEF Plan!grantStoreAccess, Plan!Begin, Plan!Goto
      <4> HIDE DEF c
      <4>4. QED
        BY <4>2, <4>3
    <3>3. QED
      BY <1>5, <3>1, <3>2
  <2>3. c \notin UNION {PlanCall, CreateCall, MoveCall} /\ c \in RosterCalling
    BY DEF PlanCall, CreateCall, MoveCall, GrantCall, LeaveCall, RosterCalling
  <2>4. QED
    BY <2>1, <2>2, <2>3, RosterCallStep
<1>6. ASSUME NEW m \in Hands, Plan!Fail(m)
      PROVE  RosterInductive'
  <2>1. /\ UNCHANGED <<access, planned, overlapped, left>>
        /\ rosterCall' = [rosterCall EXCEPT ![m] = Plan!Idle]
    BY <1>6 DEF Plan!Fail, Plan!Goto
  <2>2. QED
    BY <1>1, <2>1, RosterCallStep
<1>7. QED
  BY <1>2, <1>3, <1>4, <1>5, <1>6

LEMMA WriteShiftStep ==
    ASSUME RosterInductive, NEW m \in Hands, Plan!WriteShift(m)
    PROVE  RosterInductive'
<1>0. RosterType /\ FreeStill /\ NotKnown /\ Plan!GoneForGood
  BY DEF RosterInductive
<1> DEFINE c == rosterCall[m]
           row == [status |-> "SCHEDULED", by |-> c.by, store |-> c.store, time |-> c.time]
<1>1. c \in CreateCall /\ Plan!Written(m, c.by) /\ access' = access
  BY <1>0, RosterCalls DEF Plan!WriteShift
<1>2. c.by \in Crew /\ c.store \in Houses /\ c.time \in Times /\ c.knew = FALSE
  BY <1>0, <1>1 DEF CreateCall, NotKnown
<1>3. PICK s \in Cards : ~Plan!Planned(s) /\ planned' = [planned EXCEPT ![s] = row]
  BY DEF Plan!WriteShift
<1>4. row \in ShiftRow /\ row.by = c.by /\ row.time = c.time
  BY <1>2 DEF ShiftRow, Plan!Statuses
<1>5. left' = left \ {c.by}
  BY <1>2 DEF Plan!WriteShift
<1>6. rosterCall[m].outdated \/ c.by \in overlapped \/ FreeAt(c.by, c.time, {s})
  BY <1>0, <1>1 DEF FreeStill, FreeAt
<1> HIDE DEF row
<1>7. PICK u \in Crew : u = c.by
  BY <1>2
<1>8. QED
  BY <1>1, <1>3, <1>4, <1>5, <1>6, <1>7, ShiftWritten

LEMMA MoveShiftStep ==
    ASSUME RosterInductive, NEW m \in Hands, Plan!MoveShift(m)
    PROVE  RosterInductive'
<1>0. RosterType /\ FreeStill /\ MovesOwn /\ Plan!GoneForGood
  BY DEF RosterInductive
<1> DEFINE c == rosterCall[m]
           row == [planned[c.of] EXCEPT !.time = c.time]
<1>1. /\ c \in MoveCall /\ Plan!Written(m, c.by) /\ access' = access /\ left' = left
      /\ planned' = [planned EXCEPT ![c.of].time = c.time]
  BY <1>0, RosterCalls DEF Plan!MoveShift
<1>2. /\ c.of \in Cards /\ c.by \in Crew /\ c.time \in Times
      /\ Plan!Planned(c.of) /\ planned[c.of].by = c.by
  BY <1>0, <1>1 DEF MoveCall, MovesOwn
<1>3. planned[c.of] \in ShiftRow
  BY <1>0, <1>2, ShiftRows
<1>4. /\ row \in ShiftRow /\ row.by = c.by /\ row.time = c.time
      /\ row.status = planned[c.of].status
  BY <1>2, <1>3 DEF ShiftRow
<1>5. planned' = [planned EXCEPT ![c.of] = row]
  BY <1>1
<1>6. rosterCall[m].outdated \/ c.by \in overlapped \/ FreeAt(c.by, c.time, {c.of})
  BY <1>0, <1>1 DEF FreeStill
<1> HIDE DEF row
<1>7. PICK u \in Crew, s \in Cards : u = c.by /\ s = c.of
  BY <1>2
<1>8. /\ row.by = u /\ planned' = [planned EXCEPT ![s] = row] /\ Plan!Written(m, u)
      /\ left' \subseteq left /\ Plan!Planned(s) /\ planned[s].by = u
      /\ rosterCall[m].outdated \/ u \in overlapped \/ FreeAt(u, row.time, {s})
      /\ row.status = "SCHEDULED" => planned[s].status = "SCHEDULED"
  BY <1>1, <1>2, <1>4, <1>5, <1>6, <1>7
<1>9. QED
  BY <1>1, <1>4, <1>8, ShiftWritten

\* The status of shifts is written, and no other field.
LEMMA StatusStep ==
    ASSUME RosterInductive,
           \/ \E s \in Cards : Plan!cancelShift(s) \/ \E status \in Plan!Statuses : Plan!setStatus(s, status)
           \/ \E m \in Hands : Plan!CancelShifts(m)
    PROVE  RosterInductive'
<1>0. RosterType /\ Plan!GoneForGood
  BY DEF RosterInductive
<1>1. ASSUME NEW s \in Cards, NEW status \in Plan!Statuses, Plan!Planned(s),
             planned' = [planned EXCEPT ![s].status = status]
      PROVE  /\ planned' \in [Cards -> ShiftRow \union {Plan!NoShift}]
             /\ \A r \in Cards : Plan!Planned(r) =>
                    /\ Plan!Planned(r)' /\ planned'[r].by = planned[r].by
                    /\ planned'[r].time = planned[r].time
             /\ \A r \in Cards : Plan!Planned(r)' => Plan!Planned(r)
             /\ planned'[s].status = status
             /\ \A r \in Cards \ {s} : planned'[r] = planned[r]
  <2> DEFINE row == [planned[s] EXCEPT !.status = status]
  <2>1. planned[s] \in ShiftRow /\ planned' = [planned EXCEPT ![s] = row]
    BY <1>0, <1>1, ShiftRows
  <2>2. /\ row \in ShiftRow /\ row.by = planned[s].by /\ row.time = planned[s].time
        /\ row.status = status
    BY <2>1 DEF ShiftRow
  <2> HIDE DEF row
  <2>3. /\ planned' \in [Cards -> ShiftRow \union {Plan!NoShift}] /\ planned'[s] = row
        /\ \A r \in Cards \ {s} : planned'[r] = planned[r]
    BY <1>0, <2>1, <2>2 DEF RosterType
  <2>4. row # Plan!NoShift
    <3>1. "by" \in DOMAIN row /\ "by" \notin DOMAIN Plan!NoShift
      BY <2>2 DEF ShiftRow, Plan!NoShift
    <3>2. QED
      BY <3>1
  <2>5. QED
    BY <1>1, <2>2, <2>3, <2>4 DEF Plan!Planned
<1>2. ASSUME NEW s \in Cards, Plan!cancelShift(s)
      PROVE  RosterInductive'
  <2>1. /\ Plan!Planned(s) /\ planned' = [planned EXCEPT ![s].status = "CANCELLED"]
        /\ UNCHANGED <<access, rosterCall, overlapped, left>> /\ "CANCELLED" \in Plan!Statuses
    BY <1>2 DEF Plan!cancelShift, Plan!Statuses
  <2>2. /\ planned' \in [Cards -> ShiftRow \union {Plan!NoShift}]
        /\ \A r \in Cards : Plan!Planned(r) =>
               /\ Plan!Planned(r)' /\ planned'[r].by = planned[r].by
               /\ planned'[r].time = planned[r].time
        /\ \A r \in Cards : Plan!Planned(r)' => Plan!Planned(r)
        /\ planned'[s].status = "CANCELLED"
        /\ \A r \in Cards \ {s} : planned'[r] = planned[r]
    BY <1>1, <2>1
  <2>3. RosterType'
    BY <1>0, <2>1, <2>2 DEF RosterType
  <2>4. \A u : \A r \in Cards : Plan!Booked(u, r)' => Plan!Booked(u, r)
    BY <2>2 DEF Plan!Booked, Plan!Planned
  <2>5. Plan!GoneForGood'
    <3>1. \A r \in Cards : planned'[r].status = "SCHEDULED" => planned[r].status = "SCHEDULED"
      BY <2>2
    <3>2. QED
      BY <1>0, <2>1, <2>4, <3>1 DEF Plan!GoneForGood
  <2>6. QED
    BY <2>1, <2>2, <2>3, <2>4, <2>5, RosterRest
<1>3. ASSUME NEW s \in Cards, NEW status \in Plan!Statuses, Plan!setStatus(s, status)
      PROVE  RosterInductive'
  <2>1. /\ Plan!Planned(s) /\ planned' = [planned EXCEPT ![s].status = status]
        /\ UNCHANGED <<access, rosterCall>>
        /\ overlapped' = IF planned[s].status = "CANCELLED" /\ status # "CANCELLED"
                         THEN overlapped \union {planned[s].by} ELSE overlapped
        /\ left' = IF status = "SCHEDULED" THEN left \ {planned[s].by} ELSE left
    BY <1>3 DEF Plan!setStatus
  <2>2. /\ planned' \in [Cards -> ShiftRow \union {Plan!NoShift}]
        /\ \A r \in Cards : Plan!Planned(r) =>
               /\ Plan!Planned(r)' /\ planned'[r].by = planned[r].by
               /\ planned'[r].time = planned[r].time
        /\ \A r \in Cards : Plan!Planned(r)' => Plan!Planned(r)
        /\ planned'[s].status = status
        /\ \A r \in Cards \ {s} : planned'[r] = planned[r]
    BY <1>1, <2>1
  <2>3. RosterType'
    BY <1>0, <2>1, <2>2 DEF RosterType
  <2>4. \A u : \A r \in Cards : Plan!Booked(u, r)' => Plan!Booked(u, r) \/ u \in overlapped'
    <3>1. \A u : \A r \in Cards \ {s} : Plan!Booked(u, r)' => Plan!Booked(u, r)
      BY <2>2 DEF Plan!Booked, Plan!Planned
    <3>2. ASSUME NEW u, Plan!Booked(u, s)'
          PROVE  Plan!Booked(u, s) \/ u \in overlapped'
      <4>1. planned[s].by = u /\ status # "CANCELLED"
        BY <2>1, <2>2, <3>2 DEF Plan!Booked
      <4>2. QED
        BY <2>1, <4>1 DEF Plan!Booked
    <3>3. QED
      BY <3>1, <3>2
  <2>5. Plan!GoneForGood'
    <3> SUFFICES ASSUME NEW u \in left'
                 PROVE  /\ \A st \in Houses : access[u][st] # "active"
                        /\ \A r \in Cards : ~(Plan!Booked(u, r)' /\ planned'[r].status = "SCHEDULED")
      BY <2>1 DEF Plan!GoneForGood
    <3>1. /\ u \in left /\ \A st \in Houses : access[u][st] # "active"
          /\ \A r \in Cards : ~(Plan!Booked(u, r) /\ planned[r].status = "SCHEDULED")
      BY <1>0, <2>1 DEF Plan!GoneForGood
    <3>2. \A r \in Cards \ {s} : ~(Plan!Booked(u, r)' /\ planned'[r].status = "SCHEDULED")
      BY <2>2, <3>1 DEF Plan!Booked, Plan!Planned
    <3>3. ~(Plan!Booked(u, s)' /\ planned'[s].status = "SCHEDULED")
      BY <2>1, <2>2 DEF Plan!Booked
    <3>4. QED
      BY <3>1, <3>2, <3>3
  <2>6. overlapped \subseteq overlapped'
    BY <2>1
  <2>7. QED
    BY <2>1, <2>2, <2>3, <2>4, <2>5, <2>6, RosterRest
<1>4. ASSUME NEW m \in Hands, Plan!CancelShifts(m)
      PROVE  RosterInductive'
  <2> DEFINE u == rosterCall[m].by
  <2>1. /\ planned' = [s \in Cards |->
               IF Plan!Booked(u, s) /\ planned[s].status = "SCHEDULED"
               THEN [planned[s] EXCEPT !.status = "CANCELLED"] ELSE planned[s]]
        /\ left' = IF \A st \in Houses : access[u][st] # "active" THEN left \union {u} ELSE left
        /\ rosterCall' = [rosterCall EXCEPT ![m] = Plan!Idle]
        /\ UNCHANGED <<access, overlapped>>
    BY <1>4 DEF Plan!CancelShifts, Plan!Goto
  <2> HIDE DEF u
  <2>2. \A s \in Cards :
            /\ planned'[s] \in ShiftRow \union {Plan!NoShift}
            /\ Plan!Planned(s) => /\ planned'[s] # Plan!NoShift /\ planned'[s].by = planned[s].by
                                  /\ planned'[s].time = planned[s].time
            /\ planned'[s].status \in {planned[s].status, "CANCELLED"}
            /\ ~Plan!Planned(s) => planned'[s] = planned[s]
            /\ Plan!Booked(u, s) => planned'[s].status # "SCHEDULED"
    <3> SUFFICES ASSUME NEW s \in Cards
                 PROVE  /\ planned'[s] \in ShiftRow \union {Plan!NoShift}
                        /\ Plan!Planned(s) => /\ planned'[s] # Plan!NoShift /\ planned'[s].by = planned[s].by
                                              /\ planned'[s].time = planned[s].time
                        /\ planned'[s].status \in {planned[s].status, "CANCELLED"}
                        /\ ~Plan!Planned(s) => planned'[s] = planned[s]
                        /\ Plan!Booked(u, s) => planned'[s].status # "SCHEDULED"
      OBVIOUS
    <3>1. CASE Plan!Booked(u, s) /\ planned[s].status = "SCHEDULED"
      <4> DEFINE row == [planned[s] EXCEPT !.status = "CANCELLED"]
      <4>1. planned'[s] = row /\ Plan!Planned(s) /\ planned[s] \in ShiftRow
        BY <1>0, <2>1, <3>1, ShiftRows DEF Plan!Booked
      <4>2. /\ row \in ShiftRow /\ row.by = planned[s].by /\ row.time = planned[s].time
            /\ row.status = "CANCELLED"
        BY <4>1 DEF ShiftRow, Plan!Statuses
      <4> HIDE DEF row
      <4>3. row # Plan!NoShift
        <5>1. "by" \in DOMAIN row /\ "by" \notin DOMAIN Plan!NoShift
          BY <4>2 DEF ShiftRow, Plan!NoShift
        <5>2. QED
          BY <5>1
      <4>4. QED
        BY <4>1, <4>2, <4>3
    <3>2. CASE ~(Plan!Booked(u, s) /\ planned[s].status = "SCHEDULED")
      <4>1. planned'[s] = planned[s]
        BY <2>1, <3>2
      <4>2. QED
        BY <1>0, <3>2, <4>1 DEF RosterType, Plan!Planned
    <3>3. QED
      BY <3>1, <3>2
  <2>3. rosterCall' \in [Hands -> RosterCalling] /\ \A n \in Hands : rosterCall'[n] \in {rosterCall[n], Plan!Idle}
    <3>1. Plan!Idle \in RosterCalling
      BY DEF RosterCalling
    <3>2. QED
      BY <1>0, <2>1, <3>1, RosterCallMade
  <2>4. RosterType'
    <3>1. planned' \in [Cards -> ShiftRow \union {Plan!NoShift}]
      BY <2>1, <2>2
    <3>2. u \in Crew
      BY <1>0, <1>4, RosterCalls DEF Plan!CancelShifts, LeaveCall, u
    <3>3. left' \subseteq Crew
      BY <1>0, <2>1, <3>2 DEF RosterType
    <3>4. QED
      BY <1>0, <2>1, <2>3, <3>1, <3>3 DEF RosterType
  <2>5. \A v : \A s \in Cards : Plan!Booked(v, s)' => Plan!Booked(v, s)
    BY <2>2 DEF Plan!Booked, Plan!Planned
  <2>6. Plan!GoneForGood'
    <3> SUFFICES ASSUME NEW v \in left'
                 PROVE  /\ \A st \in Houses : access[v][st] # "active"
                        /\ \A s \in Cards : ~(Plan!Booked(v, s)' /\ planned'[s].status = "SCHEDULED")
      BY <2>1 DEF Plan!GoneForGood
    <3>1. CASE v \in left
      BY <1>0, <2>2, <2>5, <3>1 DEF Plan!GoneForGood
    <3>2. CASE v \notin left
      <4>1. v = u /\ \A st \in Houses : access[u][st] # "active"
        BY <2>1, <3>2
      <4>2. QED
        BY <2>2, <2>5, <4>1
    <3>3. QED
      BY <3>1, <3>2
  <2>7. \A s \in Cards : Plan!Planned(s) => Plan!Planned(s)' /\ planned'[s].by = planned[s].by
                                            /\ planned'[s].time = planned[s].time
    BY <2>2 DEF Plan!Planned
  <2>8. QED
    BY <2>1, <2>3, <2>4, <2>5, <2>6, <2>7, RosterRest
<1>5. QED
  BY <1>2, <1>3, <1>4

LEMMA AccessStep ==
    ASSUME RosterInductive,
           \/ \E m \in Hands : Plan!WriteAccess(m) \/ Plan!EndAccess(m)
           \/ \E u \in Crew, st \in Houses : Plan!revokeStoreAccess(u, st)
    PROVE  RosterInductive'
<1>0. RosterType /\ Plan!GoneForGood
  BY DEF RosterInductive
<1>1. Plan!Idle \in RosterCalling
  BY DEF RosterCalling
<1>2. ASSUME RosterType', UNCHANGED <<planned, overlapped>>, Plan!GoneForGood',
             \A n \in Hands : rosterCall'[n] \in {rosterCall[n], Plan!Idle} \union LeaveCall
      PROVE  RosterInductive'
  <2>1. \A s \in Cards :
            /\ Plan!Planned(s) => Plan!Planned(s)' /\ planned'[s].by = planned[s].by
                                  /\ planned'[s].time = planned[s].time
            /\ \A u \in Crew : Plan!Booked(u, s)' => Plan!Booked(u, s)
    BY <1>2 DEF Plan!Planned, Plan!Booked
  <2>2. overlapped \subseteq overlapped'
    BY <1>2
  <2>3. QED
    BY <1>2, <2>1, <2>2, RosterRest
<1>3. ASSUME NEW m \in Hands, Plan!WriteAccess(m)
      PROVE  RosterInductive'
  <2> DEFINE c == rosterCall[m]
  <2>1. /\ c \in GrantCall /\ UNCHANGED <<planned, overlapped>>
        /\ rosterCall' = [rosterCall EXCEPT ![m] = Plan!Idle]
        /\ \/ UNCHANGED <<access, left>>
           \/ /\ access' = [access EXCEPT ![c.by][c.store] = "active"]
              /\ left' = left \ {c.by}
    BY <1>0, <1>3, RosterCalls DEF Plan!WriteAccess, Plan!Goto
  <2>2. c.by \in Crew /\ c.store \in Houses
    BY <2>1 DEF GrantCall
  <2>3. /\ rosterCall' \in [Hands -> RosterCalling]
        /\ \A n \in Hands : rosterCall'[n] \in {rosterCall[n], Plan!Idle}
    BY <1>0, <1>1, <2>1, RosterCallMade
  <2>4. /\ access' \in [Crew -> [Houses -> {"none", "active", "inactive"}]]
        /\ \A u \in Crew : u # c.by => access'[u] = access[u]
        /\ left' \subseteq left /\ (c.by \in left' => access' = access)
    <3>1. CASE UNCHANGED <<access, left>>
      BY <1>0, <3>1 DEF RosterType
    <3>2. CASE /\ access' = [access EXCEPT ![c.by][c.store] = "active"]
               /\ left' = left \ {c.by}
      BY <1>0, <2>2, <3>2 DEF RosterType
    <3>3. QED
      BY <2>1, <3>1, <3>2
  <2>5. RosterType'
    BY <1>0, <2>1, <2>3, <2>4 DEF RosterType
  <2>6. Plan!GoneForGood'
    BY <1>0, <2>1, <2>4 DEF RosterType, Plan!GoneForGood, Plan!Booked, Plan!Planned
  <2>7. QED
    BY <1>2, <2>1, <2>3, <2>5, <2>6
<1>4. ASSUME NEW m \in Hands, Plan!EndAccess(m)
      PROVE  RosterInductive'
  <2> DEFINE c == rosterCall[m]
             next == [c EXCEPT !.op = "shifts"]
  <2>1. /\ c \in LeaveCall /\ UNCHANGED <<planned, overlapped, left>>
        /\ rosterCall' = [rosterCall EXCEPT ![m] = next]
        /\ access' = [access EXCEPT ![c.by] =
               [st \in Houses |-> IF @[st] = "none" THEN "none" ELSE "inactive"]]
    BY <1>0, <1>4, RosterCalls DEF Plan!EndAccess, Plan!Goto
  <2>2. c.by \in Crew /\ next \in LeaveCall
    BY <2>1 DEF LeaveCall
  <2> HIDE DEF next
  <2>3. /\ rosterCall' \in [Hands -> RosterCalling]
        /\ \A n \in Hands : rosterCall'[n] \in {rosterCall[n]} \union LeaveCall
    <3>1. next \in RosterCalling
      BY <2>2 DEF RosterCalling
    <3>2. QED
      BY <1>0, <2>1, <2>2, <3>1, RosterCallMade
  <2>4. /\ access' \in [Crew -> [Houses -> {"none", "active", "inactive"}]]
        /\ \A u \in Crew : \A st \in Houses : access'[u][st] = "active" => access[u][st] = "active"
        /\ \A u \in Crew : u # c.by => access'[u] = access[u]
    BY <1>0, <2>1, <2>2 DEF RosterType
  <2>5. RosterType'
    BY <1>0, <2>1, <2>3, <2>4 DEF RosterType
  <2>6. Plan!GoneForGood'
    BY <1>0, <2>1, <2>2, <2>4 DEF RosterType, Plan!GoneForGood, Plan!Booked, Plan!Planned
  <2>7. QED
    BY <1>2, <2>1, <2>3, <2>5, <2>6
<1>5. ASSUME NEW u \in Crew, NEW st \in Houses, Plan!revokeStoreAccess(u, st)
      PROVE  RosterInductive'
  <2>1. /\ UNCHANGED <<planned, rosterCall, overlapped, left>>
        /\ access' = [access EXCEPT ![u][st] = "inactive"]
    BY <1>5 DEF Plan!revokeStoreAccess
  <2>2. /\ access' \in [Crew -> [Houses -> {"none", "active", "inactive"}]]
        /\ \A v \in Crew : \A h \in Houses : access'[v][h] = "active" => access[v][h] = "active"
        /\ \A v \in Crew : v # u => access'[v] = access[v]
    BY <1>0, <2>1 DEF RosterType
  <2>3. RosterType'
    BY <1>0, <2>1, <2>2 DEF RosterType
  <2>4. Plan!GoneForGood'
    BY <1>0, <2>1, <2>2 DEF RosterType, Plan!GoneForGood, Plan!Booked, Plan!Planned
  <2>5. QED
    BY <1>2, <2>1, <2>3, <2>4
<1>6. QED
  BY <1>3, <1>4, <1>5

LEMMA RosterMoves == RosterInductive /\ [Plan!Next]_planVars => RosterInductive'
<1> SUFFICES ASSUME RosterInductive, [Plan!Next]_planVars PROVE RosterInductive'
  OBVIOUS
<1>1. CASE UNCHANGED planVars
  BY <1>1 DEF planVars, RosterInductive, RosterType, MovesOwn, FreeStill, FreeAt, NotKnown,
     Plan!NoDoubleBooking, Plan!GoneForGood, Plan!Booked, Plan!Planned, Plan!Lasts
<1>2. CASE Plan!ShiftNext
  BY <1>2, PlanStep, WriteShiftStep, MoveShiftStep, StatusStep DEF Plan!ShiftNext
<1>3. CASE Plan!AccessNext
  BY <1>3, PlanStep, StatusStep, AccessStep DEF Plan!AccessNext
<1>4. CASE \E m \in Hands : Plan!Fail(m)
  BY <1>4, PlanStep
<1>5. QED
  BY <1>1, <1>2, <1>3, <1>4 DEF Plan!Next

LEMMA RosterStarts == Plan!Init => RosterInductive
<1> SUFFICES ASSUME Plan!Init PROVE RosterInductive
  OBVIOUS
<1>1. RosterType
  <2>1. access \in [Crew -> [Houses -> {"none", "active", "inactive"}]]
    <3>1. [Houses -> {"none", "active"}] \subseteq [Houses -> {"none", "active", "inactive"}]
      OBVIOUS
    <3>2. QED
      BY <3>1 DEF Plan!Init
  <2>2. QED
    BY <2>1 DEF Plan!Init, RosterType, RosterCalling
<1>2. /\ \A m \in Hands : rosterCall[m].op = "idle"
      /\ \A s \in Cards : ~Plan!Planned(s)
      /\ left = {}
  BY <1>1, RosterCalls DEF Plan!Init, Plan!Planned
<1>3. \A m \in Hands : rosterCall[m] \notin UNION {PlanCall, CreateCall, MoveCall}
  BY <1>2 DEF PlanCall, CreateCall, MoveCall
<1>4. MovesOwn /\ FreeStill /\ NotKnown
  BY <1>3 DEF MovesOwn, FreeStill, NotKnown
<1>5. Plan!NoDoubleBooking /\ Plan!GoneForGood
  BY <1>2 DEF Plan!NoDoubleBooking, Plan!GoneForGood, Plan!Booked
<1>6. QED
  BY <1>1, <1>4, <1>5 DEF RosterInductive

RosterFollowed == focus = "roster" => RosterInductive

LEMMA RosterIsKept == Spec => []RosterFollowed
<1>1. Init => RosterFollowed
  BY RosterStarts DEF Init, RosterFollowed
<1>2. RosterFollowed /\ [Next]_everyVar => RosterFollowed'
  BY RosterMoves DEF RosterFollowed, Next, everyVar
<1>3. QED
  BY <1>1, <1>2, PTL DEF Spec

-----------------------------------------------------------------------------
(* Breaks, and those who missed one.                                       *)

BreakRow == [entry : Punches, type : {"PAID", "MEAL"}, minutes : Int, ended : Int]
StartCall == [op : {"start"}, entry : Punches, type : {"PAID", "MEAL"}]
EndCall == [op : {"end"}, row : BreakRows]
EntriesRun == [op : {"entries"}, todo : SUBSET Punches]
MissedRun == [op : {"missed"}, todo : SUBSET Punches, entry : Punches,
              missed : SUBSET Pauses!Policies]
WriteRun == [op : {"write"}, todo : SUBSET Punches, entry : Punches,
             missed : SUBSET Pauses!Policies, policy : Pauses!Policies]
MonitorRuns == UNION {EntriesRun, MissedRun, WriteRun, {Pauses!Idle}}

BreaksType ==
    /\ breakHour \in Int
    /\ policies \subseteq Pauses!Policies
    /\ break \in [BreakRows -> BreakRow \union {Pauses!NoBreak}]
    /\ violations \in [Punches -> [Pauses!Policies -> Nat]]
    /\ breakCall \in [Tills -> StartCall \union EndCall \union {Pauses!Idle}]
    /\ monitor \in [Hands -> MonitorRuns]
    /\ \A c \in Tills : breakCall[c] \in EndCall => break[breakCall[c].row] \in BreakRow

\* The hour of a policy has passed, and no break that ended before will do.
Overdue(e, p) ==
    /\ Pauses!minShiftHours[p] <= breakHour
    /\ ~\E r \in BreakRows :
           /\ Pauses!Taken(r) /\ break[r].entry = e
           /\ break[r].ended < Pauses!minShiftHours[p]
           /\ Pauses!Satisfies(break[r], p)

\* What is reported, or is to be, is overdue.
AllOverdue ==
    /\ \A e \in Punches, p \in Pauses!Policies : violations[e][p] > 0 => Overdue(e, p)
    /\ \A m \in Hands :
           /\ monitor[m] \in MissedRun \union WriteRun =>
                  \A p \in monitor[m].missed : Overdue(monitor[m].entry, p)
           /\ monitor[m] \in WriteRun => Overdue(monitor[m].entry, monitor[m].policy)

\* Whoever is to write a violation found none, unless two looked it up at once.
NoneWritten ==
    /\ \A m \in Hands : monitor[m] \in WriteRun =>
           \/ <<monitor[m].entry, monitor[m].policy>> \in lookedTwice
           \/ violations[monitor[m].entry][monitor[m].policy] = 0
    /\ \A e \in Punches, p \in Pauses!Policies :
           <<e, p>> \in lookedTwice \/ violations[e][p] <= 1

\* An entry has one open break, unless two were begun at once.
OneAtATime ==
    \A e \in Punches : e \in twice \/ \A r, q \in Pauses!OnBreak(e) : r = q

BreaksInductive == BreaksType /\ AllOverdue /\ NoneWritten /\ OneAtATime

LEMMA BreakNumbers ==
    \A p \in Pauses!Policies : Pauses!breakDuration[p] \in {15, 30}
BY DEF Pauses!breakDuration

LEMMA PolicyNumbers ==
    ASSUME NEW p \in Pauses!Policies
    PROVE  Pauses!minShiftHours[p] \in Int
<1>1. Pauses!minShiftHours[p] =
          CASE p = "4-Hour Break" -> 4 [] p = "6-Hour Break" -> 6 [] OTHER -> 8
  BY DEF Pauses!minShiftHours
<1>3. CASE p = "4-Hour Break"
  <2>1. Pauses!minShiftHours[p] = 4
    BY <1>1, <1>3
  <2>2. QED
    BY <2>1
<1>4. CASE p # "4-Hour Break" /\ p = "6-Hour Break"
  <2>1. Pauses!minShiftHours[p] = 6
    BY Zenon, <1>1, <1>4
  <2>2. QED
    BY <2>1
<1>5. CASE p # "4-Hour Break" /\ p # "6-Hour Break"
  <2>1. Pauses!minShiftHours[p] = 8
    BY <1>1, <1>5
  <2>2. QED
    BY <2>1
<1>6. QED
  BY <1>3, <1>4, <1>5

LEMMA BreakRowsTyped ==
    ASSUME BreaksType
    PROVE  \A r \in BreakRows : /\ Pauses!Taken(r) <=> break[r] \in BreakRow
                                /\ ~Pauses!Taken(r) <=> break[r] = Pauses!NoBreak
<1>1. Pauses!NoBreak \notin BreakRow
  <2>1. "ended" \notin DOMAIN Pauses!NoBreak
    BY DEF Pauses!NoBreak
  <2>2. \A b \in BreakRow : "ended" \in DOMAIN b
    BY DEF BreakRow
  <2>3. QED
    BY <2>1, <2>2
<1>2. QED
  BY <1>1 DEF BreaksType, Pauses!Taken

LEMMA BreakCalls ==
    ASSUME BreaksType
    PROVE  /\ \A c \in Tills :
                  /\ breakCall[c].op = "start" => breakCall[c] \in StartCall
                  /\ breakCall[c].op = "end" => breakCall[c] \in EndCall
           /\ \A m \in Hands :
                  /\ monitor[m].op = "entries" <=> monitor[m] \in EntriesRun
                  /\ monitor[m].op = "missed" <=> monitor[m] \in MissedRun
                  /\ monitor[m].op = "write" <=> monitor[m] \in WriteRun
BY DEF BreaksType, StartCall, EndCall, EntriesRun, MissedRun, WriteRun, MonitorRuns, Pauses!Idle

\* The runs that are not at a policy have nothing to show for.
LEMMA RunsApart ==
    \A k \in EntriesRun \union {Pauses!Idle} : k \notin MissedRun \union WriteRun /\ k \in MonitorRuns
BY DEF EntriesRun, MissedRun, WriteRun, MonitorRuns, Pauses!Idle

LEMMA OnwardRuns ==
    ASSUME NEW k \in MissedRun
    PROVE  Pauses!Onward(k) \in {k} \union EntriesRun \union {Pauses!Idle}
<1>1. k.todo \in SUBSET Punches
  BY DEF MissedRun
<1>2. [op |-> "entries", todo |-> k.todo] \in EntriesRun
  BY <1>1 DEF EntriesRun
<1>3. QED
  BY <1>2 DEF Pauses!Onward

\* A run of the monitor goes on.
LEMMA MonitorStep ==
    ASSUME BreaksInductive, NEW m \in Hands, NEW k \in MonitorRuns,
           monitor' = [monitor EXCEPT ![m] = k],
           UNCHANGED <<breakHour, policies, break, violations, breakCall, twice, lookedTwice>>,
           k \in MissedRun \union WriteRun => \A p \in k.missed : Overdue(k.entry, p),
           k \in WriteRun => Overdue(k.entry, k.policy) /\ violations[k.entry][k.policy] = 0
    PROVE  BreaksInductive'
<1>0. BreaksType /\ AllOverdue /\ NoneWritten /\ OneAtATime
  BY DEF BreaksInductive
<1>1. /\ monitor' \in [Hands -> MonitorRuns] /\ monitor'[m] = k
      /\ \A n \in Hands \ {m} : monitor'[n] = monitor[n]
  BY <1>0 DEF BreaksType
<1>2. BreaksType'
  BY <1>0, <1>1 DEF BreaksType
<1>3. \A e, p : Overdue(e, p)' <=> Overdue(e, p)
  BY DEF Overdue, Pauses!Taken, Pauses!Satisfies
<1>4. AllOverdue'
  <2>1. ASSUME NEW n \in Hands
        PROVE  /\ monitor'[n] \in MissedRun \union WriteRun =>
                      \A p \in monitor'[n].missed : Overdue(monitor'[n].entry, p)
               /\ monitor'[n] \in WriteRun => Overdue(monitor'[n].entry, monitor'[n].policy)
    <3>1. CASE n = m
      BY <1>1, <3>1
    <3>2. CASE n # m
      BY <1>0, <1>1, <3>2 DEF AllOverdue
    <3>3. QED
      BY <3>1, <3>2
  <2>2. \A e \in Punches, p \in Pauses!Policies : violations'[e][p] > 0 => Overdue(e, p)
    BY <1>0 DEF AllOverdue
  <2>3. QED
    BY <2>1, <2>2 DEF AllOverdue, Overdue, Pauses!Taken, Pauses!Satisfies
<1>5. NoneWritten'
  BY <1>0, <1>1 DEF NoneWritten
<1>6. OneAtATime'
  BY <1>0 DEF OneAtATime, Pauses!OnBreak, Pauses!Taken
<1>7. QED
  BY <1>2, <1>4, <1>5, <1>6 DEF BreaksInductive

LEMMA MonitorMoves ==
    ASSUME BreaksInductive, NEW m \in Hands,
           Pauses!monitorActiveEntries(m) \/ Pauses!CheckEntry(m) \/ Pauses!LookUp(m)
    PROVE  BreaksInductive'
<1>0. BreaksType /\ AllOverdue /\ NoneWritten
  BY DEF BreaksInductive
<1>1. UNCHANGED <<breakHour, policies, break, violations, breakCall, twice, lookedTwice>>
  BY DEF Pauses!monitorActiveEntries, Pauses!CheckEntry, Pauses!LookUp
<1>2. CASE Pauses!monitorActiveEntries(m)
  <2> DEFINE k == [op |-> "entries", todo |-> Punches \ clockedOut]
  <2>1. monitor' = [monitor EXCEPT ![m] = k]
    BY <1>2 DEF Pauses!monitorActiveEntries
  <2>2. k \in EntriesRun
    BY DEF EntriesRun
  <2> HIDE DEF k
  <2>3. QED
    BY <1>1, <2>1, <2>2, RunsApart, MonitorStep
<1>3. CASE Pauses!CheckEntry(m)
  <2>1. monitor[m] \in EntriesRun /\ monitor[m].todo \in SUBSET Punches
    BY <1>0, <1>3, BreakCalls DEF Pauses!CheckEntry, EntriesRun
  <2>2. PICK e \in monitor[m].todo :
           monitor' = [monitor EXCEPT ![m] = Pauses!Onward(
               [op |-> "missed", todo |-> monitor[m].todo \ {e}, entry |-> e,
                missed |-> Pauses!checkBreakRequirement(e)])]
    BY <1>3 DEF Pauses!CheckEntry
  <2> DEFINE k == [op |-> "missed", todo |-> monitor[m].todo \ {e}, entry |-> e,
                   missed |-> Pauses!checkBreakRequirement(e)]
  <2>3. /\ Pauses!checkBreakRequirement(e) \subseteq Pauses!Policies
        /\ \A p \in Pauses!checkBreakRequirement(e) : Overdue(e, p)
    BY <1>0 DEF BreaksType, Pauses!checkBreakRequirement, Overdue, Pauses!BreaksOf
  <2>4. k \in MissedRun /\ k.entry = e /\ k.missed = Pauses!checkBreakRequirement(e)
    BY <2>1, <2>2, <2>3 DEF MissedRun
  <2>5. k \in MonitorRuns /\ k \notin WriteRun
    BY <2>4 DEF MonitorRuns, MissedRun, WriteRun
  <2>6. monitor' = [monitor EXCEPT ![m] = Pauses!Onward(k)]
    BY <2>2
  <2> HIDE DEF k
  <2>7. CASE Pauses!Onward(k) = k
    <3>1. monitor' = [monitor EXCEPT ![m] = k]
      BY <2>6, <2>7
    <3>2. QED
      BY <1>1, <2>3, <2>4, <2>5, <3>1, MonitorStep
  <2>8. CASE Pauses!Onward(k) # k
    <3>1. PICK n \in EntriesRun \union {Pauses!Idle} : n = Pauses!Onward(k)
      BY <2>4, <2>8, OnwardRuns
    <3>2. monitor' = [monitor EXCEPT ![m] = n]
      BY <2>6, <3>1
    <3>3. QED
      BY <1>1, <3>2, RunsApart, MonitorStep
  <2>9. QED
    BY <2>7, <2>8
<1>4. CASE Pauses!LookUp(m)
  <2>1. /\ monitor[m] \in MissedRun /\ monitor[m].todo \in SUBSET Punches
        /\ monitor[m].entry \in Punches /\ monitor[m].missed \in SUBSET Pauses!Policies
    BY <1>0, <1>4, BreakCalls DEF Pauses!LookUp, MissedRun
  <2>2. \A p \in monitor[m].missed : Overdue(monitor[m].entry, p)
    BY <1>0, <2>1 DEF AllOverdue
  <2>3. PICK p \in monitor[m].missed :
           monitor' = [monitor EXCEPT ![m] =
               IF violations[monitor[m].entry][p] > 0
               THEN Pauses!Onward([monitor[m] EXCEPT !.missed = @ \ {p}])
               ELSE [op |-> "write", todo |-> monitor[m].todo, entry |-> monitor[m].entry,
                     missed |-> monitor[m].missed \ {p}, policy |-> p]]
    BY <1>4 DEF Pauses!LookUp
  <2>4. CASE violations[monitor[m].entry][p] > 0
    <3> DEFINE k == [monitor[m] EXCEPT !.missed = @ \ {p}]
    <3>1. monitor' = [monitor EXCEPT ![m] = Pauses!Onward(k)]
      BY <2>3, <2>4
    <3>2. /\ k \in MissedRun /\ k.entry = monitor[m].entry
          /\ k.missed = monitor[m].missed \ {p}
      BY <2>1 DEF MissedRun
    <3> HIDE DEF k
    <3>3. k \in MonitorRuns /\ k \notin WriteRun
      BY <3>2 DEF MonitorRuns, MissedRun, WriteRun
    <3>4. CASE Pauses!Onward(k) = k
      <4>1. monitor' = [monitor EXCEPT ![m] = k]
        BY <3>1, <3>4
      <4>2. \A q \in k.missed : Overdue(k.entry, q)
        BY <2>2, <3>2
      <4>3. QED
        BY <1>1, <3>3, <4>1, <4>2, MonitorStep
    <3>5. CASE Pauses!Onward(k) # k
      <4>1. PICK n \in EntriesRun \union {Pauses!Idle} : n = Pauses!Onward(k)
        BY <3>2, <3>5, OnwardRuns
      <4>2. monitor' = [monitor EXCEPT ![m] = n]
        BY <3>1, <4>1
      <4>3. QED
        BY <1>1, <4>2, RunsApart, MonitorStep
    <3>6. QED
      BY <3>4, <3>5
  <2>5. CASE ~(violations[monitor[m].entry][p] > 0)
    <3> DEFINE k == [op |-> "write", todo |-> monitor[m].todo, entry |-> monitor[m].entry,
                     missed |-> monitor[m].missed \ {p}, policy |-> p]
    <3>1. monitor' = [monitor EXCEPT ![m] = k]
      BY <2>3, <2>5
    <3>2. /\ k \in WriteRun /\ k.entry = monitor[m].entry /\ k.policy = p
          /\ k.missed = monitor[m].missed \ {p}
      BY <2>1 DEF WriteRun
    <3> HIDE DEF k
    <3>3. k \in MonitorRuns
      BY <3>2 DEF MonitorRuns
    <3>4. violations[k.entry][k.policy] = 0
      <4>1. violations[monitor[m].entry][p] \in Nat
        BY <1>0, <2>1 DEF BreaksType
      <4>2. QED
        BY <2>5, <3>2, <4>1
    <3>5. /\ \A q \in k.missed : Overdue(k.entry, q)
          /\ Overdue(k.entry, k.policy)
      BY <2>2, <3>2
    <3>6. QED
      BY <1>1, <3>1, <3>3, <3>4, <3>5, MonitorStep
  <2>6. QED
    BY <2>4, <2>5
<1>5. QED
  BY <1>2, <1>3, <1>4

\* createViolation: by one run, the first for its policy, or by two at once.
LEMMA ViolationStep ==
    ASSUME BreaksInductive, NEW m \in Hands, Pauses!createViolation(m)
    PROVE  BreaksInductive'
<1>0. BreaksType /\ AllOverdue /\ NoneWritten /\ OneAtATime
  BY DEF BreaksInductive
<1> DEFINE e == monitor[m].entry
           p == monitor[m].policy
           k == [op |-> "missed", todo |-> monitor[m].todo, entry |-> e, missed |-> monitor[m].missed]
<1>1. /\ monitor[m] \in WriteRun
      /\ violations' = [violations EXCEPT ![e][p] = @ + 1]
      /\ lookedTwice' = lookedTwice \union {<<e, p>> : n \in {n \in Hands \ {m} :
             monitor[n].op = "write" /\ monitor[n].entry = e /\ monitor[n].policy = p}}
      /\ monitor' = [monitor EXCEPT ![m] = Pauses!Onward(k)]
      /\ UNCHANGED <<breakHour, policies, break, breakCall, twice>>
  BY <1>0, BreakCalls DEF Pauses!createViolation
<1>2. /\ e \in Punches /\ p \in Pauses!Policies
      /\ monitor[m].todo \in SUBSET Punches /\ monitor[m].missed \in SUBSET Pauses!Policies
  BY <1>1 DEF WriteRun
<1>3. k \in MissedRun /\ k.entry = e /\ k.missed = monitor[m].missed
  BY <1>2 DEF MissedRun
<1> HIDE DEF k
<1>4. PICK n \in MonitorRuns \ WriteRun :
         /\ monitor' = [monitor EXCEPT ![m] = n]
         /\ n = k \/ n \notin MissedRun
  <2>1. k \in MonitorRuns \ WriteRun
    BY <1>3 DEF MonitorRuns, MissedRun, WriteRun
  <2>2. Pauses!Onward(k) \in {k} \union EntriesRun \union {Pauses!Idle}
    BY <1>3, OnwardRuns
  <2>3. QED
    BY <1>1, <2>1, <2>2, RunsApart
<1>5. /\ monitor' \in [Hands -> MonitorRuns] /\ monitor'[m] = n
      /\ \A q \in Hands \ {m} : monitor'[q] = monitor[q]
  BY <1>0, <1>4 DEF BreaksType
<1>6. /\ violations' \in [Punches -> [Pauses!Policies -> Nat]]
      /\ violations'[e][p] = violations[e][p] + 1
      /\ \A f \in Punches, q \in Pauses!Policies :
             <<f, q>> # <<e, p>> => violations'[f][q] = violations[f][q]
  <2>1. violations[e] \in [Pauses!Policies -> Nat] /\ violations[e][p] \in Nat
    BY <1>0, <1>2 DEF BreaksType
  <2>2. [violations[e] EXCEPT ![p] = @ + 1] \in [Pauses!Policies -> Nat]
    BY <1>2, <2>1
  <2>3. violations' = [violations EXCEPT ![e] = [violations[e] EXCEPT ![p] = @ + 1]]
    BY <1>1
  <2> HIDE DEF e, p
  <2>4. QED
    BY <1>0, <1>2, <2>1, <2>2, <2>3 DEF BreaksType
<1>7. BreaksType'
  BY <1>0, <1>1, <1>5, <1>6 DEF BreaksType
<1>8. Overdue(e, p) /\ \A q \in monitor[m].missed : Overdue(e, q)
  BY <1>0, <1>1 DEF AllOverdue
<1>9. AllOverdue'
  <2>1. ASSUME NEW q \in Hands
        PROVE  /\ monitor'[q] \in MissedRun \union WriteRun =>
                      \A x \in monitor'[q].missed : Overdue(monitor'[q].entry, x)
               /\ monitor'[q] \in WriteRun => Overdue(monitor'[q].entry, monitor'[q].policy)
    <3>1. CASE q = m
      BY <1>3, <1>4, <1>5, <1>8, <3>1
    <3>2. CASE q # m
      BY <1>0, <1>5, <3>2 DEF AllOverdue
    <3>3. QED
      BY <3>1, <3>2
  <2>2. \A f \in Punches, q \in Pauses!Policies : violations'[f][q] > 0 => Overdue(f, q)
    BY <1>0, <1>6, <1>8 DEF AllOverdue
  <2>3. QED
    BY <1>1, <2>1, <2>2 DEF AllOverdue, Overdue, Pauses!Taken, Pauses!Satisfies
<1>10. NoneWritten'
  <2>1. lookedTwice \subseteq lookedTwice'
    BY <1>1
  <2>2. ASSUME NEW q \in Hands, monitor'[q] \in WriteRun
        PROVE  \/ <<monitor'[q].entry, monitor'[q].policy>> \in lookedTwice'
               \/ violations'[monitor'[q].entry][monitor'[q].policy] = 0
    <3>1. q # m /\ monitor'[q] = monitor[q]
      BY <1>4, <1>5, <2>2
    <3>2. /\ monitor[q].entry \in Punches /\ monitor[q].policy \in Pauses!Policies
          /\ monitor[q].op = "write"
      BY <2>2, <3>1 DEF WriteRun
    <3>3. CASE <<monitor[q].entry, monitor[q].policy>> = <<e, p>>
      <4>1. monitor[q].entry = e /\ monitor[q].policy = p
        BY <3>3
      <4>2. <<e, p>> \in lookedTwice'
        BY <1>1, <3>1, <3>2, <4>1
      <4>3. QED
        BY <3>1, <3>3, <4>2
    <3>4. CASE <<monitor[q].entry, monitor[q].policy>> # <<e, p>>
      BY <1>0, <1>6, <2>1, <2>2, <3>1, <3>2, <3>4 DEF NoneWritten
    <3>5. QED
      BY <3>3, <3>4
  <2>3. ASSUME NEW f \in Punches, NEW q \in Pauses!Policies
        PROVE  <<f, q>> \in lookedTwice' \/ violations'[f][q] <= 1
    <3>1. CASE <<f, q>> = <<e, p>>
      <4>1. <<e, p>> \in lookedTwice \/ violations[e][p] = 0
        BY <1>0, <1>1 DEF NoneWritten
      <4>2. <<e, p>> \in lookedTwice' \/ violations'[e][p] <= 1
        BY <1>6, <2>1, <4>1
      <4>3. f = e /\ q = p
        BY <3>1
      <4>4. QED
        BY <4>2, <4>3
    <3>2. CASE <<f, q>> # <<e, p>>
      BY <1>0, <1>6, <2>1, <3>2 DEF NoneWritten
    <3>3. QED
      BY <3>1, <3>2
  <2>4. QED
    BY <2>2, <2>3 DEF NoneWritten
<1>11. OneAtATime'
  BY <1>0, <1>1 DEF OneAtATime, Pauses!OnBreak, Pauses!Taken
<1>12. QED
  BY <1>7, <1>9, <1>10, <1>11 DEF BreaksInductive

\* Breaks are written, time passes, or the server stops: no run of the monitor
\* goes on, and nothing is overdue no longer.
LEMMA BreaksRest ==
    ASSUME BreaksInductive, BreaksType', OneAtATime',
           UNCHANGED <<violations, lookedTwice>>,
           monitor' = monitor \/ \A m \in Hands : monitor'[m] = Pauses!Idle,
           \A e \in Punches, p \in Pauses!Policies : Overdue(e, p) => Overdue(e, p)'
    PROVE  BreaksInductive'
<1>0. BreaksType /\ AllOverdue /\ NoneWritten
  BY DEF BreaksInductive
<1>1. \A m \in Hands : monitor'[m] \in MissedRun \union WriteRun => monitor'[m] = monitor[m]
  BY RunsApart
<1>2. AllOverdue'
  <2>1. ASSUME NEW m \in Hands, monitor'[m] \in MissedRun \union WriteRun
        PROVE  /\ monitor'[m] = monitor[m] /\ monitor[m].entry \in Punches
               /\ monitor[m].missed \subseteq Pauses!Policies
               /\ monitor[m] \in WriteRun => monitor[m].policy \in Pauses!Policies
    BY <1>1, <2>1 DEF MissedRun, WriteRun
  <2>2. ASSUME NEW m \in Hands, monitor'[m] \in MissedRun \union WriteRun, NEW p \in monitor'[m].missed
        PROVE  Overdue(monitor[m].entry, p)'
    <3>1. PICK e \in Punches, q \in Pauses!Policies :
              e = monitor[m].entry /\ q = p /\ monitor'[m] = monitor[m]
      BY <2>1, <2>2
    <3>2. Overdue(e, q)
      BY <1>0, <2>2, <3>1 DEF AllOverdue
    <3>3. Overdue(e, q)'
      BY <3>2
    <3>4. QED
      BY <3>1, <3>3 DEF Overdue, Pauses!Taken, Pauses!Satisfies
  <2>3. ASSUME NEW m \in Hands, monitor'[m] \in WriteRun
        PROVE  Overdue(monitor[m].entry, monitor[m].policy)'
    <3>1. PICK e \in Punches, q \in Pauses!Policies :
              /\ e = monitor[m].entry /\ q = monitor[m].policy /\ monitor'[m] = monitor[m]
      BY <2>1, <2>3
    <3>2. Overdue(e, q)
      BY <1>0, <2>3, <3>1 DEF AllOverdue
    <3>3. Overdue(e, q)'
      BY <3>2
    <3>4. QED
      BY <3>1, <3>3 DEF Overdue, Pauses!Taken, Pauses!Satisfies
  <2>4. \A e \in Punches, p \in Pauses!Policies : violations'[e][p] > 0 => Overdue(e, p)'
    BY <1>0 DEF AllOverdue
  <2>5. QED
    BY <2>2, <2>3, <2>4 DEF AllOverdue
<1>3. NoneWritten'
  BY <1>0, <1>1 DEF NoneWritten
<1>4. QED
  BY <1>2, <1>3 DEF BreaksInductive

\* One break is written: it ends now, if at all, and so in time for nothing that
\* is overdue.
LEMMA BreakWritten ==
    ASSUME BreaksInductive, NEW r \in BreakRows, NEW b \in BreakRow,
           break' = [break EXCEPT ![r] = b],
           UNCHANGED <<breakHour, policies, violations, monitor, lookedTwice>>,
           breakCall' \in [Tills -> StartCall \union EndCall \union {Pauses!Idle}],
           \A c \in Tills : breakCall'[c] \in EndCall => breakCall'[c] = breakCall[c],
           b.minutes = -1 \/ b.ended = breakHour,
           twice \subseteq twice',
           b.minutes = -1 => b.entry \in twice' \/ Pauses!OnBreak(b.entry) \subseteq {r}
    PROVE  BreaksInductive'
<1>0. BreaksType /\ AllOverdue /\ NoneWritten /\ OneAtATime
  BY DEF BreaksInductive
<1>1. /\ break' \in [BreakRows -> BreakRow \union {Pauses!NoBreak}] /\ break'[r] = b
      /\ \A q \in BreakRows \ {r} : break'[q] = break[q]
  BY <1>0 DEF BreaksType
<1>2. BreaksType'
  <2>1. ASSUME NEW c \in Tills, breakCall'[c] \in EndCall
        PROVE  break'[breakCall'[c].row] \in BreakRow
    <3>1. breakCall'[c] = breakCall[c] /\ break[breakCall[c].row] \in BreakRow
      BY <1>0, <2>1 DEF BreaksType
    <3>2. breakCall[c].row \in BreakRows
      BY <2>1, <3>1 DEF EndCall
    <3>3. QED
      BY <1>1, <3>1, <3>2
  <2>2. QED
    BY <1>0, <1>1, <2>1 DEF BreaksType
<1>3. ASSUME NEW e \in Punches, NEW p \in Pauses!Policies, Overdue(e, p)
      PROVE  Overdue(e, p)'
  <2>1. ~(b.ended < Pauses!minShiftHours[p] /\ Pauses!Satisfies(b, p))
    <3>1. CASE b.minutes = -1
      BY <3>1, BreakNumbers DEF Pauses!Satisfies
    <3>2. CASE b.ended = breakHour
      BY <1>0, <1>3, <3>2, PolicyNumbers DEF Overdue, BreaksType
    <3>3. QED
      BY <3>1, <3>2
  <2>2. ASSUME NEW q \in BreakRows, Pauses!Taken(q)', break'[q].entry = e,
               break'[q].ended < Pauses!minShiftHours[p], Pauses!Satisfies(break[q], p)'
        PROVE  FALSE
    <3>1. q # r
      BY <1>1, <2>1, <2>2 DEF Pauses!Satisfies
    <3>2. break'[q] = break[q]
      BY <1>1, <3>1
    <3>3. QED
      BY <1>3, <2>2, <3>2 DEF Overdue, Pauses!Taken, Pauses!Satisfies
  <2>3. Pauses!minShiftHours[p] <= breakHour'
    BY <1>3 DEF Overdue
  <2>4. QED
    BY <2>2, <2>3 DEF Overdue, Pauses!Satisfies
<1>4. OneAtATime'
  <2> SUFFICES ASSUME NEW e \in Punches, e \notin twice', NEW x \in Pauses!OnBreak(e)',
                      NEW y \in Pauses!OnBreak(e)'
               PROVE  x = y
    BY DEF OneAtATime, Pauses!OnBreak
  <2>1. \A z \in Pauses!OnBreak(e)' : z \in Pauses!OnBreak(e) \/ (z = r /\ b.entry = e /\ b.minutes = -1)
    BY <1>1 DEF Pauses!OnBreak, Pauses!Taken
  <2>2. CASE b.entry = e /\ b.minutes = -1
    <3>1. Pauses!OnBreak(e) \subseteq {r}
      BY <2>2
    <3>2. QED
      BY <2>1, <3>1
  <2>3. CASE ~(b.entry = e /\ b.minutes = -1)
    <3>1. \A z, w \in Pauses!OnBreak(e) : z = w
      BY <1>0 DEF OneAtATime
    <3>2. QED
      BY <2>1, <2>3, <3>1
  <2>4. QED
    BY <2>2, <2>3
<1>5. QED
  BY <1>2, <1>3, <1>4, BreaksRest

LEMMA BreakStep ==
    ASSUME BreaksInductive, NEW c \in Tills,
           \/ \E e \in Punches, type \in {"PAID", "MEAL"} : Pauses!startBreak(c, e, type)
           \/ \E r \in BreakRows : Pauses!endBreak(c, r)
           \/ Pauses!WriteBreak(c) \/ Pauses!EndOfBreak(c)
    PROVE  BreaksInductive'
<1>0. BreaksType /\ AllOverdue /\ NoneWritten /\ OneAtATime
  BY DEF BreaksInductive
<1>1. \A k \in StartCall \union EndCall \union {Pauses!Idle} :
          [breakCall EXCEPT ![c] = k] \in [Tills -> StartCall \union EndCall \union {Pauses!Idle}]
  BY <1>0 DEF BreaksType
<1>2. ASSUME NEW k \in StartCall \union EndCall, breakCall' = [breakCall EXCEPT ![c] = k],
             k \in EndCall => break[k.row] \in BreakRow,
             UNCHANGED <<breakHour, policies, break, violations, monitor, twice, lookedTwice>>
      PROVE  BreaksInductive'
  <2>1. BreaksType'
    <3>1. ASSUME NEW t \in Tills, breakCall'[t] \in EndCall
          PROVE  break'[breakCall'[t].row] \in BreakRow
      <4>1. breakCall'[t] = k \/ breakCall'[t] = breakCall[t]
        BY <1>0, <1>2 DEF BreaksType
      <4>2. QED
        BY <1>0, <1>2, <3>1, <4>1 DEF BreaksType
    <3>2. QED
      BY <1>0, <1>1, <1>2, <3>1 DEF BreaksType
  <2>2. OneAtATime' /\ \A e, p : Overdue(e, p) => Overdue(e, p)'
    BY <1>0, <1>2 DEF OneAtATime, Pauses!OnBreak, Pauses!Taken, Overdue, Pauses!Satisfies
  <2>3. QED
    BY <1>2, <2>1, <2>2, BreaksRest
<1>3. ASSUME NEW e \in Punches, NEW type \in {"PAID", "MEAL"}, Pauses!startBreak(c, e, type)
      PROVE  BreaksInductive'
  <2>1. /\ [op |-> "start", entry |-> e, type |-> type] \in StartCall
        /\ [op |-> "start", entry |-> e, type |-> type] \notin EndCall
    BY DEF StartCall, EndCall
  <2>2. QED
    BY <1>2, <1>3, <2>1 DEF Pauses!startBreak
<1>4. ASSUME NEW r \in BreakRows, Pauses!endBreak(c, r)
      PROVE  BreaksInductive'
  <2>1. [op |-> "end", row |-> r] \in EndCall /\ [op |-> "end", row |-> r].row = r
    BY DEF EndCall
  <2>2. break[r] \in BreakRow
    BY <1>0, <1>4, BreakRowsTyped DEF Pauses!endBreak
  <2>3. QED
    BY <1>2, <1>4, <2>1, <2>2 DEF Pauses!endBreak
<1>5. CASE Pauses!WriteBreak(c)
  <2>1. /\ breakCall[c] \in StartCall /\ breakCall' = [breakCall EXCEPT ![c] = Pauses!Idle]
        /\ UNCHANGED <<breakHour, policies, violations, monitor, lookedTwice>>
        /\ twice' = IF Pauses!OnBreak(breakCall[c].entry) # {}
                    THEN twice \union {breakCall[c].entry} ELSE twice
    BY <1>0, <1>5, BreakCalls DEF Pauses!WriteBreak
  <2> DEFINE b == [entry |-> breakCall[c].entry, type |-> breakCall[c].type, minutes |-> -1,
                   ended |-> LastHour]
  <2>2. PICK r \in BreakRows : break' = [break EXCEPT ![r] = b]
    BY <1>5 DEF Pauses!WriteBreak
  <2>3. /\ b \in BreakRow /\ b.minutes = -1 /\ b.entry = breakCall[c].entry
    <3>1. breakCall[c].entry \in Punches /\ breakCall[c].type \in {"PAID", "MEAL"}
      BY <2>1 DEF StartCall
    <3>2. LastHour \in Int
      BY StoreDayAssumption
    <3>3. QED
      BY <3>1, <3>2 DEF BreakRow
  <2> HIDE DEF b
  <2>4. /\ breakCall' \in [Tills -> StartCall \union EndCall \union {Pauses!Idle}]
        /\ \A t \in Tills : breakCall'[t] \in EndCall => breakCall'[t] = breakCall[t]
    BY <1>0, <1>1, <2>1 DEF BreaksType, EndCall, Pauses!Idle
  <2>5. /\ twice \subseteq twice'
        /\ b.entry \in twice' \/ Pauses!OnBreak(b.entry) \subseteq {r}
    BY <2>1, <2>3
  <2>6. QED
    BY <2>1, <2>2, <2>3, <2>4, <2>5, BreakWritten
<1>6. CASE Pauses!EndOfBreak(c)
  <2>1. /\ breakCall[c] \in EndCall /\ breakCall' = [breakCall EXCEPT ![c] = Pauses!Idle]
        /\ UNCHANGED <<breakHour, policies, violations, monitor, twice, lookedTwice>>
    BY <1>0, <1>6, BreakCalls DEF Pauses!EndOfBreak
  <2>2. PICK m \in Lengths : break' = [break EXCEPT ![breakCall[c].row] =
           [entry |-> break[breakCall[c].row].entry, type |-> break[breakCall[c].row].type,
            minutes |-> m, ended |-> breakHour]]
    BY <1>6 DEF Pauses!EndOfBreak
  <2>3. breakCall[c].row \in BreakRows
    BY <2>1 DEF EndCall
  <2>4. PICK r \in BreakRows : r = breakCall[c].row
    BY <2>3
  <2>5. m \in Nat
    BY StoreDayAssumption
  <2> DEFINE b == [entry |-> break[r].entry, type |-> break[r].type, minutes |-> m,
                   ended |-> breakHour]
  <2>6. break' = [break EXCEPT ![r] = b]
    BY <2>2, <2>4
  <2>7. break[r].entry \in Punches /\ break[r].type \in {"PAID", "MEAL"}
    BY <1>0, <2>1, <2>4 DEF BreakRow, BreaksType
  <2>8. b \in BreakRow /\ b.minutes = m /\ b.ended = breakHour
    BY <1>0, <2>5, <2>7 DEF BreakRow, BreaksType
  <2>9. b.minutes # -1
    BY <2>5, <2>8
  <2> HIDE DEF b
  <2>10. /\ breakCall' \in [Tills -> StartCall \union EndCall \union {Pauses!Idle}]
         /\ \A t \in Tills : breakCall'[t] \in EndCall => breakCall'[t] = breakCall[t]
    BY <1>0, <1>1, <2>1 DEF BreaksType, EndCall, Pauses!Idle
  <2>11. QED
    BY <2>1, <2>6, <2>8, <2>9, <2>10, BreakWritten
<1>7. QED
  BY <1>3, <1>4, <1>5, <1>6

LEMMA BreaksMoves ==
    ASSUME BreaksInductive, [Pauses!Next]_pausesVars
    PROVE  BreaksInductive'
<1>0. BreaksType /\ AllOverdue /\ NoneWritten /\ OneAtATime
  BY DEF BreaksInductive
<1>1. ASSUME NEW c \in Tills,
             \/ \E e \in Punches, type \in {"PAID", "MEAL"} : Pauses!startBreak(c, e, type)
             \/ \E r \in BreakRows : Pauses!endBreak(c, r)
             \/ Pauses!WriteBreak(c) \/ Pauses!EndOfBreak(c)
      PROVE  BreaksInductive'
  BY <1>1, BreakStep
<1>2. ASSUME NEW m \in Hands,
             Pauses!monitorActiveEntries(m) \/ Pauses!CheckEntry(m) \/ Pauses!LookUp(m)
      PROVE  BreaksInductive'
  BY <1>2, MonitorMoves
<1>3. ASSUME NEW m \in Hands, Pauses!createViolation(m)
      PROVE  BreaksInductive'
  BY <1>3, ViolationStep
<1>4. ASSUME UNCHANGED <<break, violations, twice, lookedTwice>>,
             policies' \subseteq Pauses!Policies,
             breakHour' \in Int, breakHour <= breakHour',
             /\ breakCall' = breakCall \/ breakCall' = [c \in Tills |-> Pauses!Idle]
             /\ monitor' = monitor \/ monitor' = [m \in Hands |-> Pauses!Idle]
      PROVE  BreaksInductive'
  <2>1. breakCall' \in [Tills -> StartCall \union EndCall \union {Pauses!Idle}]
    BY <1>0, <1>4 DEF BreaksType
  <2>2. monitor' \in [Hands -> MonitorRuns]
    BY <1>0, <1>4, RunsApart DEF BreaksType
  <2>3. \A c \in Tills : breakCall'[c] \in EndCall => breakCall'[c] = breakCall[c]
    BY <1>4 DEF EndCall, Pauses!Idle
  <2>4. BreaksType'
    BY <1>0, <1>4, <2>1, <2>2, <2>3 DEF BreaksType
  <2>5. OneAtATime'
    BY <1>0, <1>4 DEF OneAtATime, Pauses!OnBreak, Pauses!Taken
  <2>6. ASSUME NEW e \in Punches, NEW p \in Pauses!Policies, Overdue(e, p)
        PROVE  Overdue(e, p)'
    <3>1. Pauses!minShiftHours[p] <= breakHour'
      BY <1>0, <1>4, <2>6, PolicyNumbers DEF Overdue, BreaksType
    <3>2. QED
      BY <1>4, <2>6, <3>1 DEF Overdue, Pauses!Taken, Pauses!Satisfies
  <2>7. monitor' = monitor \/ \A m \in Hands : monitor'[m] = Pauses!Idle
    BY <1>4
  <2>8. QED
    BY <1>4, <2>4, <2>5, <2>6, <2>7, BreaksRest
<1>5. breakHour \in Int /\ policies \subseteq Pauses!Policies
  BY <1>0 DEF BreaksType
<1>6. CASE Pauses!createStandardPolicies
  <2>1. policies' \subseteq Pauses!Policies
    BY <1>5, <1>6 DEF Pauses!createStandardPolicies, Pauses!Policies
  <2>2. UNCHANGED <<breakHour, break, violations, breakCall, monitor, twice, lookedTwice>>
    BY <1>6 DEF Pauses!createStandardPolicies
  <2>3. QED
    BY <1>4, <1>5, <2>1, <2>2
<1>7. CASE \E e \in Punches : Pauses!ClockOut(e)
  BY <1>4, <1>5, <1>7 DEF Pauses!ClockOut
<1>8. CASE Pauses!Tick
  BY <1>4, <1>5, <1>8 DEF Pauses!Tick
<1>9. CASE Pauses!Crash
  BY <1>4, <1>5, <1>9 DEF Pauses!Crash
<1>10. CASE UNCHANGED pausesVars
  BY <1>4, <1>5, <1>10 DEF pausesVars
<1>11. QED
  BY <1>1, <1>2, <1>3, <1>6, <1>7, <1>8, <1>9, <1>10 DEF Pauses!Next

LEMMA BreaksStart == ASSUME Pauses!Init PROVE BreaksInductive
<1>1. \A m \in Hands : monitor[m] = Pauses!Idle /\ monitor[m] \notin MissedRun \union WriteRun
  BY RunsApart DEF Pauses!Init
<1>2. \A c \in Tills : breakCall[c] = Pauses!Idle /\ breakCall[c] \notin EndCall
  BY DEF Pauses!Init, EndCall, Pauses!Idle
<1>3. monitor \in [Hands -> MonitorRuns]
  BY RunsApart DEF Pauses!Init
<1>4. /\ violations \in [Punches -> [Pauses!Policies -> Nat]]
      /\ \A e \in Punches, p \in Pauses!Policies : violations[e][p] = 0
  BY DEF Pauses!Init
<1>5. BreaksType
  BY <1>2, <1>3, <1>4 DEF BreaksType, Pauses!Init
<1>6. \A r \in BreakRows : ~Pauses!Taken(r)
  BY DEF Pauses!Init, Pauses!Taken
<1>7. AllOverdue /\ NoneWritten
  BY <1>1, <1>4 DEF AllOverdue, NoneWritten
<1>8. OneAtATime
  BY <1>6 DEF OneAtATime, Pauses!OnBreak
<1>9. QED
  BY <1>5, <1>7, <1>8 DEF BreaksInductive

LEMMA BreaksHold == BreaksInductive => Pauses!BreaksKept
<1> SUFFICES ASSUME BreaksInductive
             PROVE  Pauses!BreaksKept
  OBVIOUS
<1>0. BreaksType /\ AllOverdue /\ NoneWritten /\ OneAtATime
  BY DEF BreaksInductive
<1>1. Pauses!ReportsJust
  <2> SUFFICES ASSUME NEW e \in Punches, NEW p \in Pauses!Policies
               PROVE  /\ violations[e][p] > 0 =>
                             ~\E b \in Pauses!BreaksOf(e) :
                                  b.ended < Pauses!minShiftHours[p] /\ Pauses!Satisfies(b, p)
                      /\ <<e, p>> \in lookedTwice \/ violations[e][p] <= 1
    BY DEF Pauses!ReportsJust
  <2>1. ASSUME violations[e][p] > 0, NEW b \in Pauses!BreaksOf(e),
               b.ended < Pauses!minShiftHours[p], Pauses!Satisfies(b, p)
        PROVE  FALSE
    <3>1. Overdue(e, p)
      BY <1>0, <2>1 DEF AllOverdue
    <3>2. PICK r \in BreakRows : Pauses!Taken(r) /\ break[r].entry = e /\ b = break[r]
      BY <2>1 DEF Pauses!BreaksOf
    <3>3. QED
      BY <2>1, <3>1, <3>2 DEF Overdue
  <2>2. <<e, p>> \in lookedTwice \/ violations[e][p] <= 1
    BY <1>0 DEF NoneWritten
  <2>3. QED
    BY <2>1, <2>2
<1>2. Pauses!OneBreakEach
  <2>1. ASSUME NEW e \in Punches, e \notin twice
        PROVE  Pauses!Cardinality(Pauses!OnBreak(e)) <= 1
    <3>1. \A r, q \in Pauses!OnBreak(e) : r = q
      BY <1>0, <2>1 DEF OneAtATime
    <3> DEFINE S == Pauses!OnBreak(e)
    <3> HIDE DEF S
    <3>2. Cardinality(S) \in {0, 1}
      <4>1. CASE S = {}
        BY <4>1, FS_EmptySet
      <4>2. CASE S # {}
        <5>1. PICK r : S = {r}
          BY <3>1, <4>2 DEF S
        <5>2. QED
          BY <5>1, FS_Singleton
      <4>3. QED
        BY <4>1, <4>2
    <3>3. Pauses!Cardinality(S) = Cardinality(S)
      BY DEF Cardinality, Pauses!Cardinality
    <3>4. QED
      BY <3>2, <3>3 DEF S
  <2>2. QED
    BY <2>1 DEF Pauses!OneBreakEach
<1>3. QED
  BY <1>1, <1>2 DEF Pauses!BreaksKept

BreaksFollowed == focus = "breaks" => BreaksInductive

LEMMA BreaksAreKept == Spec => []BreaksFollowed
<1>1. Init => BreaksFollowed
  BY BreaksStart DEF BreaksFollowed, Init
<1>2. BreaksFollowed /\ [Next]_everyVar => BreaksFollowed'
  BY BreaksMoves DEF BreaksFollowed, Next, everyVar
<1>3. QED
  BY <1>1, <1>2, PTL DEF Spec

-----------------------------------------------------------------------------
(* What is granted, and what a check makes of it.                          *)

CheckCall == [op : {"check"}, at : {"temporary", "custom", "role"}, seen : SUBSET BOOLEAN,
              once : BOOLEAN, torn : BOOLEAN]
ListCall == [op : {"list"}, on : BOOLEAN, around : BOOLEAN]
DropCall == [op |-> "drop"]
RightsCalls == UNION {CheckCall, ListCall, {DropCall}, {Rights!Idle}}

RightsType ==
    /\ role \in Rights!Roles /\ active \in BOOLEAN /\ temporary \in BOOLEAN
    /\ custom \in {"none", "granted", "revoked"}
    /\ cached \in {"none", "on", "off"} /\ behind \in BOOLEAN
    /\ rightsCall \in [Hands -> RightsCalls]

\* What a check may still go by: all rows, all but the grant for a time, the role.
ByRole == active /\ role \in RoleGrants
ByName == custom = "granted" \/ (custom = "none" /\ ByRole)
ByAll == temporary \/ ByName

Says(answers, allowed) == (allowed /\ TRUE \in answers) \/ (~allowed /\ FALSE \in answers)

\* What is left for a check to look at gives an answer that the rows gave since
\* it began; while they have not changed, what it has looked at is as it was.
CheckSees(k) ==
    /\ Says(k.seen, ByAll)
    /\ k.at = "custom" /\ ~k.torn => Says(k.seen, ByName) /\ (~k.once => ~temporary)
    /\ k.at = "role" /\ ~k.torn =>
           Says(k.seen, ByRole) /\ (~k.once => ~temporary /\ custom = "none")

CallsSee ==
    \A d \in Hands :
        /\ rightsCall[d] \in CheckCall => CheckSees(rightsCall[d])
        /\ rightsCall[d] \in ListCall /\ ~rightsCall[d].around =>
               (rightsCall[d].on <=> Rights!Lists(Rights!Rows))

RightsInductive == RightsType /\ CallsSee /\ Rights!ListsCurrent /\ ~wrong

LEMMA AllowsByAll == Rights!Allows(Rights!Rows) <=> ByAll
BY DEF Rights!Allows, Rights!Rows, ByAll, ByName, ByRole

LEMMA RightsCallsApart ==
    \A k \in RightsCalls :
        /\ k.op = "check" <=> k \in CheckCall
        /\ k.op = "list" <=> k \in ListCall
        /\ k.op = "drop" <=> k = DropCall
        /\ k = Rights!Idle => k.op = "idle"
BY DEF RightsCalls, CheckCall, ListCall, DropCall, Rights!Idle

\* One of the rows changes, if any: who is under way has seen it both ways.
LEMMA RowsChange ==
    ASSUME RightsInductive,
           role' \in Rights!Roles, active' \in BOOLEAN, temporary' \in BOOLEAN,
           custom' \in {"none", "granted", "revoked"},
           \/ UNCHANGED <<active, temporary, custom>> \/ UNCHANGED <<role, temporary, custom>>
           \/ UNCHANGED <<role, active, custom>> \/ UNCHANGED <<role, active, temporary>>,
           NEW n \in [Hands -> RightsCalls],
           \A d \in Hands : n[d] = rightsCall[d] \/ n[d] = DropCall,
           rightsCall' = [d \in Hands |-> Rights!Seen(n[d],
               [role |-> role', access |-> active', custom |-> custom', temporary |-> temporary'])]
    PROVE  /\ rightsCall' \in [Hands -> RightsCalls]
           /\ CallsSee'
           /\ \A d \in Hands : n[d] = DropCall => rightsCall'[d] = DropCall
<1>0. RightsType /\ CallsSee
  BY DEF RightsInductive
<1> DEFINE r == [role |-> role', access |-> active', custom |-> custom', temporary |-> temporary']
<1>1. ASSUME NEW d \in Hands
      PROVE  rightsCall'[d] = Rights!Seen(n[d], r)
  OBVIOUS
<1>2. Rights!Allows(r) <=> ByAll'
  BY DEF Rights!Allows, ByAll, ByName, ByRole
<1>3. r = Rights!Rows <=> UNCHANGED <<role, active, temporary, custom>>
  BY <1>0 DEF Rights!Rows, RightsType
<1> HIDE DEF r
<1>4. ASSUME NEW d \in Hands, n[d] \in CheckCall
      PROVE  rightsCall'[d] \in CheckCall /\ CheckSees(rightsCall[d])' /\ n[d] # DropCall
  <2>1. n[d].op = "check" /\ n[d] # DropCall
    BY <1>4 DEF CheckCall, DropCall
  <2>2. PICK k \in CheckCall : k = rightsCall[d] /\ k = n[d] /\ CheckSees(k)
    BY <1>0, <1>4, <2>1 DEF CallsSee
  <2>3. /\ k.at \in {"temporary", "custom", "role"} /\ k.seen \in SUBSET BOOLEAN
        /\ k.once \in BOOLEAN /\ k.torn \in BOOLEAN
    BY <2>2 DEF CheckCall
  <2>4. PICK a \in BOOLEAN : a = Rights!Allows(r)
    BY DEF Rights!Allows
  <2>5. PICK changed \in BOOLEAN : changed = (r # Rights!Rows)
    OBVIOUS
  <2> DEFINE q == [op |-> "check", at |-> k.at, seen |-> k.seen \union {a},
                   once |-> k.once \/ changed, torn |-> k.torn \/ (k.once /\ changed)]
  <2>6. rightsCall'[d] = q
    BY <1>1, <2>1, <2>2, <2>4, <2>5 DEF Rights!Seen
  <2>7. /\ q \in CheckCall /\ q.at = k.at /\ q.seen = k.seen \union {a}
        /\ q.once <=> k.once \/ changed
        /\ q.torn <=> k.torn \/ (k.once /\ changed)
    BY <2>3 DEF CheckCall
  <2>8. PICK z : z = q
    OBVIOUS
  <2> HIDE DEF q
  <2>9. Says(k.seen \union {a}, ByAll')
    BY <1>2, <2>4 DEF Says
  <2>10. CASE ~changed
    <3>1. UNCHANGED <<role, active, temporary, custom>>
      BY <1>3, <2>5, <2>10
    <3>2. (ByAll' <=> ByAll) /\ (ByName' <=> ByName) /\ (ByRole' <=> ByRole)
      BY <3>1 DEF ByAll, ByName, ByRole
    <3>3. (z.once <=> k.once) /\ (z.torn <=> k.torn) /\ z.at = k.at /\ k.seen \subseteq z.seen
      BY <2>7, <2>8, <2>10
    <3>4. /\ Says(z.seen, ByAll')
          /\ z.at = "custom" /\ ~z.torn => Says(z.seen, ByName') /\ (~z.once => ~temporary')
          /\ z.at = "role" /\ ~z.torn =>
                 Says(z.seen, ByRole') /\ (~z.once => ~temporary' /\ custom' = "none")
      BY <2>2, <3>1, <3>2, <3>3 DEF CheckSees, Says
    <3>5. QED
      BY <2>1, <2>6, <2>7, <2>8, <3>4 DEF CheckSees, Says
  <2>11. CASE changed
    <3>1. z.torn \/ (~k.once /\ ~k.torn)
      BY <2>7, <2>8, <2>11
    <3>2. z.at = "custom" /\ ~z.torn => Says(z.seen, ByName')
      BY <1>0, <1>2, <2>2, <2>3, <2>4, <2>7, <2>8, <2>9, <3>1
      DEF CheckSees, Says, ByAll, ByName, ByRole, RightsType
    <3>3. z.at = "role" /\ ~z.torn => Says(z.seen, ByRole')
      BY <1>0, <1>2, <2>2, <2>3, <2>4, <2>7, <2>8, <2>9, <3>1
      DEF CheckSees, Says, ByAll, ByName, ByRole, RightsType
    <3>4. z.once
      BY <2>7, <2>8, <2>11
    <3>5. Says(z.seen, ByAll')
      BY <2>7, <2>8, <2>9
    <3>6. QED
      BY <2>1, <2>6, <2>7, <2>8, <3>2, <3>3, <3>4, <3>5 DEF CheckSees, Says
  <2>12. QED
    BY <2>1, <2>6, <2>7, <2>10, <2>11
<1>5. ASSUME NEW d \in Hands, n[d] \in ListCall
      PROVE  rightsCall'[d] \in ListCall /\ rightsCall'[d].around /\ n[d] # DropCall
  BY <1>1, <1>5 DEF ListCall, DropCall, Rights!Seen
<1>6. ASSUME NEW d \in Hands, n[d] \in {DropCall, Rights!Idle}
      PROVE  rightsCall'[d] = n[d]
  BY <1>1, <1>6 DEF DropCall, Rights!Idle, Rights!Seen
<1>7. \A d \in Hands : n[d] \in CheckCall \/ n[d] \in ListCall \/ n[d] \in {DropCall, Rights!Idle}
  BY DEF RightsCalls
<1>8. rightsCall' \in [Hands -> RightsCalls]
  <2>1. \A d \in Hands : rightsCall'[d] \in RightsCalls
    BY <1>4, <1>5, <1>6, <1>7 DEF RightsCalls
  <2>2. QED
    BY <2>1
<1>9. CallsSee'
  <2>1. ASSUME NEW d \in Hands
        PROVE  /\ rightsCall'[d] \in CheckCall => CheckSees(rightsCall[d])'
               /\ rightsCall'[d] \in ListCall => n[d] \in ListCall
    BY <1>4, <1>6, <1>7, <1>5 DEF CheckCall, ListCall, DropCall, Rights!Idle
  <2>2. QED
    BY <1>5, <2>1 DEF CallsSee
<1>10. QED
  BY <1>6, <1>8, <1>9

\* A statement writes its row and is followed by dropping the list, or by nothing.
LEMMA GrantStep ==
    ASSUME RightsInductive, NEW c \in Hands,
           \/ Rights!grantTemporaryPermission(c) \/ Rights!revokeTemporaryPermission(c)
           \/ Rights!grantCustomPermission(c) \/ Rights!revokeCustomPermission(c)
    PROVE  RightsInductive'
<1>0. RightsType /\ CallsSee /\ ~wrong
  BY DEF RightsInductive
<1> DEFINE n == [d \in Hands |-> IF d = c THEN DropCall ELSE rightsCall[d]]
<1>1. /\ n \in [Hands -> RightsCalls] /\ n[c] = DropCall
      /\ \A d \in Hands : n[d] = rightsCall[d] \/ n[d] = DropCall
  BY <1>0 DEF RightsType, RightsCalls
<1>2. /\ role' \in Rights!Roles /\ active' \in BOOLEAN /\ temporary' \in BOOLEAN
      /\ custom' \in {"none", "granted", "revoked"}
      /\ \/ UNCHANGED <<active, temporary, custom>> \/ UNCHANGED <<role, temporary, custom>>
         \/ UNCHANGED <<role, active, custom>> \/ UNCHANGED <<role, active, temporary>>
  BY <1>0 DEF RightsType, Rights!grantTemporaryPermission, Rights!revokeTemporaryPermission,
     Rights!grantCustomPermission, Rights!revokeCustomPermission
<1>3. /\ rightsCall' = [d \in Hands |-> Rights!Seen(IF d = c THEN [op |-> "drop"] ELSE rightsCall[d],
             [role |-> role', access |-> active', custom |-> custom', temporary |-> temporary'])]
      /\ UNCHANGED <<cached, behind, wrong>>
  BY DEF Rights!grantTemporaryPermission, Rights!revokeTemporaryPermission,
     Rights!grantCustomPermission, Rights!revokeCustomPermission, Rights!ThenDrop, Rights!Change
<1>4. rightsCall' = [d \in Hands |-> Rights!Seen(n[d],
             [role |-> role', access |-> active', custom |-> custom', temporary |-> temporary'])]
  BY <1>3 DEF DropCall
<1> HIDE DEF n
<1>5. /\ rightsCall' \in [Hands -> RightsCalls] /\ CallsSee' /\ rightsCall'[c] = DropCall
  BY <1>1, <1>2, <1>4, RowsChange
<1>6. RightsType'
  BY <1>0, <1>2, <1>3, <1>5 DEF RightsType
<1>7. Rights!ListsCurrent'
  BY <1>5 DEF Rights!ListsCurrent, DropCall
<1>8. QED
  BY <1>0, <1>3, <1>5, <1>6, <1>7 DEF RightsInductive

LEMMA QuietStep ==
    ASSUME RightsInductive,
           \/ Rights!RunOut \/ \E r \in Rights!Roles : Rights!updateStoreRole(r)
           \/ \E value \in BOOLEAN : Rights!SetAccess(value)
    PROVE  RightsInductive'
<1>0. RightsType /\ CallsSee /\ ~wrong
  BY DEF RightsInductive
<1>1. /\ role' \in Rights!Roles /\ active' \in BOOLEAN /\ temporary' \in BOOLEAN
      /\ custom' \in {"none", "granted", "revoked"}
      /\ \/ UNCHANGED <<active, temporary, custom>> \/ UNCHANGED <<role, temporary, custom>>
         \/ UNCHANGED <<role, active, custom>> \/ UNCHANGED <<role, active, temporary>>
  BY <1>0 DEF RightsType, Rights!RunOut, Rights!updateStoreRole, Rights!SetAccess
<1>2. /\ rightsCall' = [d \in Hands |-> Rights!Seen(rightsCall[d],
             [role |-> role', access |-> active', custom |-> custom', temporary |-> temporary'])]
      /\ UNCHANGED <<cached, wrong>> /\ behind' = TRUE
  BY DEF Rights!RunOut, Rights!updateStoreRole, Rights!SetAccess, Rights!AndNoMore, Rights!Change
<1>3. rightsCall \in [Hands -> RightsCalls]
  BY <1>0 DEF RightsType
<1>4. rightsCall' \in [Hands -> RightsCalls] /\ CallsSee'
  BY <1>1, <1>2, <1>3, RowsChange
<1>5. RightsType'
  BY <1>0, <1>1, <1>2, <1>4 DEF RightsType
<1>6. Rights!ListsCurrent'
  BY <1>2 DEF Rights!ListsCurrent
<1>7. QED
  BY <1>0, <1>2, <1>4, <1>5, <1>6 DEF RightsInductive

\* The rows are read, if at all: the call goes on, or the cached list changes.
LEMMA ReadStep ==
    ASSUME RightsInductive, NEW c \in Hands, NEW k \in RightsCalls,
           UNCHANGED <<role, active, custom, temporary>>,
           rightsCall' = [rightsCall EXCEPT ![c] = k],
           k \in CheckCall => CheckSees(k),
           k \in ListCall /\ ~k.around => (k.on <=> Rights!Lists(Rights!Rows)),
           cached' \in {"none", "on", "off"}, behind' \in BOOLEAN, ~wrong',
           Rights!ListsCurrent'
    PROVE  RightsInductive'
<1>0. RightsType /\ CallsSee
  BY DEF RightsInductive
<1>1. /\ rightsCall' \in [Hands -> RightsCalls] /\ rightsCall'[c] = k
      /\ \A d \in Hands \ {c} : rightsCall'[d] = rightsCall[d]
  BY <1>0 DEF RightsType
<1>2. RightsType'
  BY <1>0, <1>1 DEF RightsType
<1>3. Rights!Rows' = Rights!Rows /\ (Rights!Lists(Rights!Rows)' <=> Rights!Lists(Rights!Rows))
  BY DEF Rights!Rows, Rights!Lists
<1>4. ASSUME NEW d \in Hands
      PROVE  /\ rightsCall'[d] \in CheckCall => CheckSees(rightsCall[d])'
             /\ rightsCall'[d] \in ListCall /\ ~rightsCall'[d].around =>
                    (rightsCall'[d].on <=> Rights!Lists(Rights!Rows))
  <2>1. PICK z : z = rightsCall'[d] /\ (z = k \/ z = rightsCall[d])
    BY <1>1
  <2>2. /\ z \in CheckCall => CheckSees(z)
        /\ z \in ListCall /\ ~z.around => (z.on <=> Rights!Lists(Rights!Rows))
    BY <1>0, <2>1 DEF CallsSee
  <2>3. QED
    BY <2>1, <2>2 DEF CheckSees, Says, ByAll, ByName, ByRole
<1>5. CallsSee'
  BY <1>3, <1>4 DEF CallsSee
<1>6. QED
  BY <1>2, <1>5 DEF RightsInductive

\* Nothing is dropped meanwhile, so that the list is as current as it was.
LEMMA CurrentStill ==
    ASSUME RightsInductive, NEW c \in Hands, NEW k, rightsCall[c] # DropCall,
           rightsCall' = [rightsCall EXCEPT ![c] = k],
           UNCHANGED <<role, active, custom, temporary, cached, behind>>
    PROVE  Rights!ListsCurrent' /\ cached' \in {"none", "on", "off"} /\ behind' \in BOOLEAN
<1>0. RightsType /\ Rights!ListsCurrent
  BY DEF RightsInductive
<1>1. \A d \in Hands : rightsCall[d].op = "drop" => rightsCall'[d] = rightsCall[d]
  BY <1>0, RightsCallsApart DEF RightsType
<1>2. QED
  BY <1>0, <1>1 DEF Rights!ListsCurrent, RightsType, Rights!Rows, Rights!Lists

LEMMA IdleCall ==
    Rights!Idle \in RightsCalls \ (CheckCall \union ListCall) /\ Rights!Idle # DropCall
BY DEF RightsCalls, CheckCall, ListCall, DropCall, Rights!Idle

LEMMA PermissionStep ==
    ASSUME RightsInductive, NEW c \in Hands,
           \/ Rights!hasPermission(c) \/ Rights!CheckTemporary(c)
           \/ Rights!CheckCustom(c) \/ Rights!CheckRole(c)
    PROVE  RightsInductive'
<1>0. RightsType /\ CallsSee /\ ~wrong
  BY DEF RightsInductive
<1>1. UNCHANGED <<role, active, custom, temporary, cached, behind>>
  BY DEF Rights!hasPermission, Rights!CheckTemporary, Rights!CheckCustom, Rights!CheckRole,
     Rights!Read
<1>2. ASSUME NEW k \in RightsCalls, rightsCall' = [rightsCall EXCEPT ![c] = k],
             k \notin ListCall, k \in CheckCall => CheckSees(k), rightsCall[c] # DropCall, ~wrong'
      PROVE  RightsInductive'
  <2>1. Rights!ListsCurrent' /\ cached' \in {"none", "on", "off"} /\ behind' \in BOOLEAN
    BY <1>1, <1>2, CurrentStill
  <2>2. QED
    BY <1>1, <1>2, <2>1, ReadStep
<1>3. CASE Rights!hasPermission(c)
  <2>1. PICK a \in BOOLEAN : a = Rights!Allows(Rights!Rows)
    BY DEF Rights!Allows
  <2> DEFINE k == [op |-> "check", at |-> "temporary", seen |-> {a}, once |-> FALSE, torn |-> FALSE]
  <2>2. /\ rightsCall' = [rightsCall EXCEPT ![c] = k] /\ rightsCall[c] = Rights!Idle
        /\ UNCHANGED wrong
    BY <1>3, <2>1 DEF Rights!hasPermission, Rights!Goto
  <2>3. k \in CheckCall /\ k.at = "temporary" /\ k.seen = {a}
    BY DEF CheckCall
  <2> HIDE DEF k
  <2>4. CheckSees(k)
    BY <2>1, <2>3, AllowsByAll DEF CheckSees, Says
  <2>5. k \in RightsCalls /\ k \notin ListCall
    BY <2>3 DEF RightsCalls, CheckCall, ListCall
  <2>6. QED
    BY <1>0, <1>2, <2>2, <2>4, <2>5, IdleCall
<1>4. ASSUME Rights!CheckTemporary(c) \/ Rights!CheckCustom(c) \/ Rights!CheckRole(c)
      PROVE  RightsInductive'
  <2>1. rightsCall[c].op = "check"
    BY <1>4 DEF Rights!CheckTemporary, Rights!CheckCustom, Rights!CheckRole
  <2>2. PICK k \in CheckCall : k = rightsCall[c] /\ CheckSees(k) /\ k # DropCall
    BY <1>0, <2>1, RightsCallsApart DEF RightsType, CallsSee, CheckCall, DropCall
  <2>3. /\ k.seen \in SUBSET BOOLEAN /\ k.once \in BOOLEAN /\ k.torn \in BOOLEAN
    BY <2>2 DEF CheckCall
  <2>4. ASSUME NEW a \in BOOLEAN, Rights!Answer(c, a), k.torn \/ a \in k.seen
        PROVE  RightsInductive'
    <3>1. rightsCall' = [rightsCall EXCEPT ![c] = Rights!Idle] /\ ~wrong'
      BY <1>0, <2>2, <2>4 DEF Rights!Answer, Rights!Goto
    <3>2. QED
      BY <1>2, <2>2, <3>1, IdleCall
  <2>5. ASSUME NEW at \in {"custom", "role"}, UNCHANGED wrong,
               rightsCall' = [rightsCall EXCEPT ![c] = [rightsCall[c] EXCEPT !.at = at]],
               k.torn \/ /\ at = "custom" => Says(k.seen, ByName) /\ (~k.once => ~temporary)
                         /\ at = "role" => Says(k.seen, ByRole) /\ (~k.once => ~temporary /\ custom = "none")
        PROVE  RightsInductive'
    <3> DEFINE q == [k EXCEPT !.at = at]
    <3>1. /\ q \in CheckCall /\ q.at = at /\ q.seen = k.seen /\ q.once = k.once /\ q.torn = k.torn
      BY <2>2, <2>5 DEF CheckCall
    <3>2. rightsCall' = [rightsCall EXCEPT ![c] = q]
      BY <2>2, <2>5
    <3> HIDE DEF q
    <3>3. CheckSees(q)
      BY <2>2, <2>5, <3>1 DEF CheckSees
    <3>4. q \in RightsCalls /\ q \notin ListCall
      BY <3>1 DEF RightsCalls, CheckCall, ListCall
    <3>5. QED
      BY <1>0, <1>2, <2>2, <2>5, <3>2, <3>3, <3>4
  <2>6. CASE Rights!CheckTemporary(c)
    <3>1. CASE temporary
      <4>1. Rights!Answer(c, TRUE)
        BY <2>6, <3>1 DEF Rights!CheckTemporary
      <4>2. TRUE \in k.seen
        BY <2>2, <3>1 DEF CheckSees, Says, ByAll
      <4>3. QED
        BY <2>4, <4>1, <4>2
    <3>2. CASE ~temporary
      <4>1. /\ rightsCall' = [rightsCall EXCEPT ![c] = [rightsCall[c] EXCEPT !.at = "custom"]]
            /\ UNCHANGED wrong
        BY <2>6, <3>2 DEF Rights!CheckTemporary, Rights!Goto
      <4>2. Says(k.seen, ByName)
        BY <2>2, <3>2 DEF CheckSees, Says, ByAll
      <4>3. QED
        BY <2>5, <3>2, <4>1, <4>2
    <3>3. QED
      BY <3>1, <3>2
  <2>7. CASE Rights!CheckCustom(c)
    <3>0. k.at = "custom"
      BY <2>2, <2>7 DEF Rights!CheckCustom
    <3>1. CASE custom = "granted"
      <4>1. Rights!Answer(c, TRUE)
        <5>1. Rights!Answer(c, custom = "granted") /\ (custom = "granted") = TRUE
          BY <2>7, <3>1 DEF Rights!CheckCustom
        <5>2. QED
          BY <5>1, Zenon
      <4>2. k.torn \/ TRUE \in k.seen
        BY <2>2, <3>0, <3>1 DEF CheckSees, Says, ByName
      <4>3. QED
        BY <2>4, <4>1, <4>2
    <3>2. CASE custom # "granted" /\ custom # "none"
      <4>1. Rights!Answer(c, FALSE)
        <5>1. Rights!Answer(c, custom = "granted") /\ (custom = "granted") = FALSE
          BY <2>7, <3>2 DEF Rights!CheckCustom
        <5>2. QED
          BY <5>1, Zenon
      <4>2. k.torn \/ FALSE \in k.seen
        BY <2>2, <3>0, <3>2 DEF CheckSees, Says, ByName
      <4>3. QED
        BY <2>4, <4>1, <4>2
    <3>3. CASE custom = "none"
      <4>1. /\ rightsCall' = [rightsCall EXCEPT ![c] = [rightsCall[c] EXCEPT !.at = "role"]]
            /\ UNCHANGED wrong
        BY <2>7, <3>3 DEF Rights!CheckCustom, Rights!Goto
      <4>2. k.torn \/ (Says(k.seen, ByRole) /\ (~k.once => ~temporary))
        BY <2>2, <3>0, <3>3 DEF CheckSees, Says, ByName
      <4>3. QED
        BY <2>5, <3>3, <4>1, <4>2
    <3>4. QED
      BY <3>1, <3>2, <3>3
  <2>8. CASE Rights!CheckRole(c)
    <3>0. k.at = "role" /\ Rights!Answer(c, active /\ role \in RoleGrants)
      BY <2>2, <2>8 DEF Rights!CheckRole
    <3>1. PICK a \in BOOLEAN : a = (active /\ role \in RoleGrants)
      OBVIOUS
    <3>2. Rights!Answer(c, a)
      BY <3>0, <3>1, Zenon
    <3>3. k.torn \/ Says(k.seen, a)
      BY <2>2, <3>0, <3>1 DEF CheckSees, Says, ByRole
    <3>4. k.torn \/ a \in k.seen
      BY <3>3 DEF Says
    <3>5. QED
      BY <2>4, <3>2, <3>4
  <2>9. QED
    BY <1>4, <2>6, <2>7, <2>8
<1>5. QED
  BY <1>3, <1>4

LEMMA ListStep ==
    ASSUME RightsInductive, NEW c \in Hands,
           \/ Rights!DropList(c) \/ Rights!DropFails(c)
           \/ Rights!getUserPermissions(c) \/ Rights!StoreList(c)
    PROVE  RightsInductive'
<1>0. RightsType /\ CallsSee /\ ~wrong
  BY DEF RightsInductive
<1>1. CASE Rights!DropList(c) \/ Rights!DropFails(c)
  <2>1. /\ rightsCall' = [rightsCall EXCEPT ![c] = Rights!Idle]
        /\ UNCHANGED <<role, active, custom, temporary, wrong>>
        /\ \/ cached' = "none" /\ behind' = FALSE
           \/ cached' = cached /\ behind' = TRUE
    BY <1>1 DEF Rights!DropList, Rights!DropFails
  <2>2. Rights!ListsCurrent' /\ cached' \in {"none", "on", "off"} /\ behind' \in BOOLEAN
    BY <1>0, <2>1 DEF Rights!ListsCurrent, RightsType
  <2>3. QED
    BY <1>0, <2>1, <2>2, IdleCall, ReadStep
<1>2. CASE Rights!getUserPermissions(c)
  <2>1. PICK a \in BOOLEAN : a = Rights!Lists(Rights!Rows)
    <3>1. Rights!Lists(Rights!Rows) \in BOOLEAN
      BY <1>0 DEF Rights!Lists, Rights!Rows, RightsType
    <3>2. QED
      BY <3>1
  <2> DEFINE k == [op |-> "list", on |-> a, around |-> FALSE]
  <2>2. /\ rightsCall' = [rightsCall EXCEPT ![c] = k] /\ rightsCall[c] = Rights!Idle
        /\ UNCHANGED <<role, active, custom, temporary, cached, behind, wrong>>
    BY <1>2, <2>1 DEF Rights!getUserPermissions, Rights!Goto, Rights!Read
  <2>3. k \in ListCall /\ k.on = a
    BY DEF ListCall
  <2>4. k \in RightsCalls /\ k \notin CheckCall
    BY DEF RightsCalls, CheckCall, ListCall
  <2> HIDE DEF k
  <2>5. Rights!ListsCurrent' /\ cached' \in {"none", "on", "off"} /\ behind' \in BOOLEAN
    BY <2>2, IdleCall, CurrentStill
  <2>6. QED
    BY <1>0, <2>1, <2>2, <2>3, <2>4, <2>5, ReadStep
<1>3. CASE Rights!StoreList(c)
  <2>1. /\ rightsCall[c].op = "list" /\ behind' = rightsCall[c].around
        /\ cached' = IF rightsCall[c].on THEN "on" ELSE "off"
        /\ rightsCall' = [rightsCall EXCEPT ![c] = Rights!Idle]
        /\ UNCHANGED <<role, active, custom, temporary, wrong>>
    BY <1>3 DEF Rights!StoreList, Rights!Goto, Rights!Read
  <2>2. PICK k \in ListCall : k = rightsCall[c]
    BY <1>0, <2>1, RightsCallsApart DEF RightsType
  <2>3. /\ k.on \in BOOLEAN /\ k.around \in BOOLEAN
        /\ ~k.around => (k.on <=> Rights!Lists(Rights!Rows))
    BY <1>0, <2>2 DEF CallsSee, ListCall
  <2>4. cached' \in {"none", "on", "off"} /\ behind' \in BOOLEAN
    BY <2>1, <2>2, <2>3
  <2>5. ~k.around => ((cached' = "on") <=> Rights!Lists(Rights!Rows))
    BY <2>1, <2>2, <2>3
  <2>6. Rights!Lists(Rights!Rows)' <=> Rights!Lists(Rights!Rows)
    BY <2>1 DEF Rights!Lists, Rights!Rows
  <2>7. Rights!Lists(Rights!Rows)' \in BOOLEAN
    BY DEF Rights!Lists, Rights!Rows
  <2>8. Rights!ListsCurrent'
    BY <2>1, <2>2, <2>3, <2>5, <2>6, <2>7 DEF Rights!ListsCurrent
  <2>9. QED
    BY <1>0, <2>1, <2>4, <2>8, IdleCall, ReadStep
<1>4. QED
  BY <1>1, <1>2, <1>3

LEMMA RightsMoves ==
    ASSUME RightsInductive, [Rights!Next]_rightsVars
    PROVE  RightsInductive'
<1>0. RightsType /\ CallsSee /\ Rights!ListsCurrent /\ ~wrong
  BY DEF RightsInductive
<1>1. ASSUME UNCHANGED <<role, active, custom, temporary, rightsCall, wrong>>,
             cached' \in {"none", "on", "off"}, behind' \in BOOLEAN,
             UNCHANGED <<cached, behind>> \/ cached' = "none"
      PROVE  RightsInductive'
  <2>1. Rights!Lists(Rights!Rows)' <=> Rights!Lists(Rights!Rows)
    BY <1>1 DEF Rights!Lists, Rights!Rows
  <2>2. RightsType' /\ CallsSee'
    BY <1>0, <1>1, <2>1 DEF RightsType, CallsSee, CheckSees, Says, ByAll, ByName, ByRole
  <2>3. Rights!ListsCurrent'
    BY <1>0, <1>1 DEF Rights!ListsCurrent, Rights!Lists, Rights!Rows
  <2>4. QED
    BY <1>0, <1>1, <2>2, <2>3 DEF RightsInductive
<1>2. CASE UNCHANGED rightsVars
  BY <1>0, <1>1, <1>2 DEF rightsVars, RightsType
<1>3. CASE Rights!Expire
  BY <1>0, <1>1, <1>3 DEF Rights!Expire, Rights!Read
<1>4. QED
  BY <1>2, <1>3, GrantStep, QuietStep, PermissionStep, ListStep DEF Rights!Next

LEMMA RightsStart == ASSUME Rights!Init PROVE RightsInductive
<1>1. \A d \in Hands : rightsCall[d] = Rights!Idle
  BY DEF Rights!Init
<1>2. RightsType /\ CallsSee
  BY <1>1, IdleCall DEF Rights!Init, RightsType, CallsSee
<1>3. QED
  BY <1>2 DEF RightsInductive, Rights!Init, Rights!ListsCurrent

LEMMA RightsHold == RightsInductive => Rights!PermissionsKept
<1> SUFFICES ASSUME RightsInductive
             PROVE  Rights!PermissionsKept
  OBVIOUS
<1>1. Rights!ListedIsAllowed
  BY DEF RightsInductive, RightsType, Rights!ListedIsAllowed, Rights!Lists, Rights!Allows, Rights!Rows
<1>2. QED
  BY <1>1 DEF RightsInductive, Rights!PermissionsKept, Rights!ChecksReal

RightsFollowed == focus = "rights" => RightsInductive

LEMMA RightsAreKept == Spec => []RightsFollowed
<1>1. Init => RightsFollowed
  BY RightsStart DEF Init, RightsFollowed
<1>2. RightsFollowed /\ [Next]_everyVar => RightsFollowed'
  BY RightsMoves DEF RightsFollowed, Next, everyVar
<1>3. QED
  BY <1>1, <1>2, PTL DEF Spec

-----------------------------------------------------------------------------
(* Who prepared an order, and the pool of the tips.                        *)

SaleRow == [completed : BOOLEAN, takenBy : Hands \union {NoOne}, preparedBy : SUBSET Hands,
            servedBy : Hands \union {NoOne}, tipAmount : Tips \union {0}]

CreditType ==
    /\ sale \in [Slips -> SaleRow]
    /\ credited \in [Slips -> SUBSET Hands]
    /\ creditCall = [c \in Hands |-> creditCall[c]]
    /\ tippedLate \in BOOLEAN
    /\ \A c \in Hands : creditCall[c].op = "prepared" =>
           creditCall[c].of \in Slips /\ creditCall[c].by \in Hands /\ creditCall[c].names \subseteq Hands

\* A count that is still to be kept is as good as one that is kept.
CountsCurrent ==
    \A c \in Hands : creditCall[c].op = "tips" =>
        tippedLate \/ creditCall[c].tips = Credit!TipsGiven

CreditInductive == CreditType /\ Credit!PreparedKept /\ Credit!TipsPooled /\ CountsCurrent

\* The names of an order change, and those who are told so with them; its tip does not.
LEMMA NamesStep ==
    ASSUME CreditInductive, NEW o \in Slips, NEW r \in SaleRow, NEW names \in SUBSET Hands,
           sale' = [sale EXCEPT ![o] = r], r.tipAmount = sale[o].tipAmount,
           credited' = [credited EXCEPT ![o] = names],
           lapped \subseteq lapped', o \notin lapped' => names \subseteq r.preparedBy,
           creditCall' = [c \in Hands |-> creditCall'[c]],
           \A c \in Hands : creditCall'[c] \in {creditCall[c], Credit!Idle},
           UNCHANGED <<pool, tippedLate>>
    PROVE  CreditInductive'
<1>0. CreditType /\ Credit!PreparedKept /\ Credit!TipsPooled /\ CountsCurrent
  BY DEF CreditInductive
<1>1. /\ sale' \in [Slips -> SaleRow] /\ sale'[o] = r
      /\ \A q \in Slips \ {o} : sale'[q] = sale[q]
      /\ credited' \in [Slips -> SUBSET Hands] /\ credited'[o] = names
      /\ \A q \in Slips \ {o} : credited'[q] = credited[q]
  BY <1>0 DEF CreditType
<1>2. \A c \in Hands : creditCall'[c].op \in {"prepared", "tips"} => creditCall'[c] = creditCall[c]
  BY DEF Credit!Idle
<1>3. CreditType'
  BY <1>0, <1>1, <1>2 DEF CreditType
<1>4. Credit!PreparedKept'
  BY <1>0, <1>1 DEF Credit!PreparedKept
<1>5. Credit!TipsGiven' = Credit!TipsGiven
  <2>1. \A q \in Slips : sale'[q].tipAmount = sale[q].tipAmount
    BY <1>1
  <2>2. [q \in Slips |-> sale[q].tipAmount]' = [q \in Slips |-> sale[q].tipAmount]
    BY <2>1
  <2>3. QED
    BY <2>2 DEF Credit!TipsGiven
<1>6. Credit!TipsPooled' /\ CountsCurrent'
  BY <1>0, <1>2, <1>5 DEF Credit!TipsPooled, CountsCurrent
<1>7. QED
  BY <1>3, <1>4, <1>6 DEF CreditInductive

\* The row of an order changes, but for who prepared it and its tip.
LEMMA ColumnStep ==
    ASSUME CreditInductive, NEW o \in Slips, NEW r \in SaleRow,
           sale' = [sale EXCEPT ![o] = r], r.tipAmount = sale[o].tipAmount,
           r.preparedBy = sale[o].preparedBy,
           UNCHANGED <<creditCall, credited, lapped, pool, tippedLate>>
    PROVE  CreditInductive'
<1>0. CreditType /\ Credit!PreparedKept
  BY DEF CreditInductive
<1>1. PICK names \in SUBSET Hands : names = credited[o]
  BY <1>0 DEF CreditType
<1>2. credited' = [credited EXCEPT ![o] = names]
  BY <1>0, <1>1 DEF CreditType
<1>3. o \notin lapped' => names \subseteq r.preparedBy
  BY <1>0, <1>1 DEF Credit!PreparedKept
<1>4. /\ creditCall' = [c \in Hands |-> creditCall'[c]]
      /\ \A c \in Hands : creditCall'[c] \in {creditCall[c], Credit!Idle}
  BY <1>0 DEF CreditType
<1>5. lapped \subseteq lapped'
  OBVIOUS
<1>6. QED
  BY <1>2, <1>3, <1>4, <1>5, NamesStep

LEMMA RowColumns ==
    ASSUME CreditType, NEW o \in Slips, NEW u \in Hands
    PROVE  /\ sale[o] \in SaleRow
           /\ [sale[o] EXCEPT !.takenBy = u] \in SaleRow
           /\ [sale[o] EXCEPT !.takenBy = u].preparedBy = sale[o].preparedBy
           /\ [sale[o] EXCEPT !.takenBy = u].tipAmount = sale[o].tipAmount
           /\ [sale[o] EXCEPT !.servedBy = u] \in SaleRow
           /\ [sale[o] EXCEPT !.servedBy = u].preparedBy = sale[o].preparedBy
           /\ [sale[o] EXCEPT !.servedBy = u].tipAmount = sale[o].tipAmount
           /\ [sale[o] EXCEPT !.completed = TRUE] \in SaleRow
           /\ [sale[o] EXCEPT !.completed = TRUE].preparedBy = sale[o].preparedBy
           /\ [sale[o] EXCEPT !.completed = TRUE].tipAmount = sale[o].tipAmount
BY DEF CreditType, SaleRow

LEMMA SaleStep ==
    ASSUME CreditInductive, NEW o \in Slips, NEW u \in Hands,
           Credit!setTakenBy(o, u) \/ Credit!setServedBy(o, u) \/ Credit!Complete(o)
    PROVE  CreditInductive'
<1>0. CreditType
  BY DEF CreditInductive
<1>1. UNCHANGED <<creditCall, credited, lapped, pool, tippedLate>>
  BY DEF Credit!setTakenBy, Credit!setServedBy, Credit!Complete
<1>2. PICK r \in {[sale[o] EXCEPT !.takenBy = u], [sale[o] EXCEPT !.servedBy = u],
                  [sale[o] EXCEPT !.completed = TRUE]} : sale' = [sale EXCEPT ![o] = r]
  BY DEF Credit!setTakenBy, Credit!setServedBy, Credit!Complete
<1>3. r \in SaleRow /\ r.preparedBy = sale[o].preparedBy /\ r.tipAmount = sale[o].tipAmount
  BY <1>0, <1>2, RowColumns
<1>4. QED
  BY <1>1, <1>2, <1>3, ColumnStep

LEMMA AttributeStep ==
    ASSUME CreditInductive, NEW o \in Slips, NEW taken \in Hands \union {NoOne},
           NEW names \in SUBSET Hands, NEW served \in Hands \union {NoOne},
           Credit!attributeOrder(o, taken, names, served)
    PROVE  CreditInductive'
<1>0. CreditType
  BY DEF CreditInductive
<1> DEFINE r == [completed |-> sale[o].completed, tipAmount |-> sale[o].tipAmount, preparedBy |-> names,
                 takenBy |-> IF taken = NoOne THEN sale[o].takenBy ELSE taken,
                 servedBy |-> IF served = NoOne THEN sale[o].servedBy ELSE served]
<1>1. /\ sale' = [sale EXCEPT ![o] = r] /\ credited' = [credited EXCEPT ![o] = names]
      /\ lapped \subseteq lapped' /\ UNCHANGED <<creditCall, pool, tippedLate>>
  BY DEF Credit!attributeOrder
<1>2. r \in SaleRow /\ r.tipAmount = sale[o].tipAmount /\ names \subseteq r.preparedBy
  <2>1. sale[o] \in SaleRow
    BY <1>0 DEF CreditType
  <2>2. QED
    BY <2>1 DEF SaleRow
<1> HIDE DEF r
<1>3. /\ creditCall' = [c \in Hands |-> creditCall'[c]]
      /\ \A c \in Hands : creditCall'[c] \in {creditCall[c], Credit!Idle}
  BY <1>0, <1>1 DEF CreditType
<1>4. QED
  BY <1>1, <1>2, <1>3, NamesStep

LEMMA PreparedStep ==
    ASSUME CreditInductive, NEW c \in Hands, Credit!PreparedWrite(c)
    PROVE  CreditInductive'
<1>0. CreditType /\ Credit!PreparedKept
  BY DEF CreditInductive
<1>1. /\ creditCall[c].op = "prepared"
      /\ sale' = [sale EXCEPT ![creditCall[c].of].preparedBy = creditCall[c].names \union {creditCall[c].by}]
      /\ credited' = [credited EXCEPT ![creditCall[c].of] = @ \union {creditCall[c].by}]
      /\ lapped' = IF sale[creditCall[c].of].preparedBy # creditCall[c].names
                   THEN lapped \union {creditCall[c].of} ELSE lapped
      /\ creditCall' = [creditCall EXCEPT ![c] = Credit!Idle]
      /\ UNCHANGED <<pool, tippedLate>>
  BY DEF Credit!PreparedWrite, Credit!Done
<1>2. PICK o \in Slips, u \in Hands, read \in SUBSET Hands :
          o = creditCall[c].of /\ u = creditCall[c].by /\ read = creditCall[c].names
  BY <1>0, <1>1 DEF CreditType
<1> DEFINE r == [sale[o] EXCEPT !.preparedBy = read \union {u}]
           names == credited[o] \union {u}
<1>3. sale' = [sale EXCEPT ![o] = r] /\ credited' = [credited EXCEPT ![o] = names]
  BY <1>1, <1>2
<1>4. /\ r \in SaleRow /\ r.tipAmount = sale[o].tipAmount /\ r.preparedBy = read \union {u}
      /\ names \in SUBSET Hands
  BY <1>0 DEF CreditType, SaleRow
<1>5. lapped \subseteq lapped' /\ (o \notin lapped' => names \subseteq r.preparedBy)
  BY <1>0, <1>1, <1>2, <1>4 DEF Credit!PreparedKept
<1> HIDE DEF r, names
<1>6. /\ creditCall' = [d \in Hands |-> creditCall'[d]]
      /\ \A d \in Hands : creditCall'[d] \in {creditCall[d], Credit!Idle}
  BY <1>0, <1>1 DEF CreditType
<1>7. QED
  BY <1>1, <1>3, <1>4, <1>5, <1>6, NamesStep

\* A call begins, goes on or ends, and the pool is written; no order is.
LEMMA PoolStep ==
    ASSUME CreditInductive, NEW c \in Hands, NEW k,
           creditCall' = [creditCall EXCEPT ![c] = k],
           k.op = "prepared" => k.of \in Slips /\ k.by \in Hands /\ k.names \subseteq Hands,
           k.op = "tips" => tippedLate \/ k.tips = Credit!TipsGiven,
           pool' = pool \/ (pool'.status = "CALCULATED" => tippedLate \/ pool'.tips = Credit!TipsGiven),
           UNCHANGED <<sale, credited, lapped, tippedLate>>
    PROVE  CreditInductive'
<1>0. CreditType /\ Credit!PreparedKept /\ Credit!TipsPooled /\ CountsCurrent
  BY DEF CreditInductive
<1>1. /\ creditCall' = [d \in Hands |-> creditCall'[d]] /\ creditCall'[c] = k
      /\ \A d \in Hands \ {c} : creditCall'[d] = creditCall[d]
  BY <1>0 DEF CreditType
<1>2. CreditType' /\ Credit!PreparedKept'
  BY <1>0, <1>1 DEF CreditType, Credit!PreparedKept
<1>3. Credit!TipsGiven' = Credit!TipsGiven
  BY DEF Credit!TipsGiven
<1>4. CountsCurrent'
  BY <1>0, <1>1, <1>3 DEF CountsCurrent
<1>5. Credit!TipsPooled'
  BY <1>0, <1>3 DEF Credit!TipsPooled
<1>6. QED
  BY <1>2, <1>4, <1>5 DEF CreditInductive

LEMMA CallStep ==
    ASSUME CreditInductive, NEW c \in Hands,
           \/ \E o \in Slips, u \in Hands : Credit!addPreparedBy(c, o, u)
           \/ \E u \in Hands, target \in {0, 50} : Credit!ReadSales(c, u, target)
           \/ Credit!CountTips(c) \/ Credit!StoreCount(c)
           \/ Credit!StoreCommission(c) \/ Credit!Fail(c)
    PROVE  CreditInductive'
<1>0. CreditType /\ Credit!PreparedKept /\ Credit!TipsPooled /\ CountsCurrent
  BY DEF CreditInductive
<1>1. UNCHANGED <<sale, credited, lapped, tippedLate>>
  BY DEF Credit!addPreparedBy, Credit!ReadSales, Credit!CountTips, Credit!StoreCount,
     Credit!StoreCommission, Credit!Fail
<1>2. ASSUME NEW o \in Slips, NEW u \in Hands, Credit!addPreparedBy(c, o, u)
      PROVE  CreditInductive'
  <2> DEFINE k == [op |-> "prepared", of |-> o, by |-> u, names |-> sale[o].preparedBy]
  <2>1. creditCall' = [creditCall EXCEPT ![c] = k] /\ UNCHANGED pool
    BY <1>2 DEF Credit!addPreparedBy, Credit!Begin
  <2>2. k.op = "prepared" /\ k.of \in Slips /\ k.by \in Hands /\ k.names \subseteq Hands
    BY <1>0 DEF CreditType, SaleRow
  <2> HIDE DEF k
  <2>3. QED
    BY <1>0, <1>1, <2>1, <2>2, PoolStep
<1>3. ASSUME NEW u \in Hands, NEW target \in {0, 50}, Credit!ReadSales(c, u, target)
      PROVE  CreditInductive'
  <2>1. PICK k : k.op = "commission" /\ creditCall' = [creditCall EXCEPT ![c] = k]
    BY <1>3 DEF Credit!ReadSales, Credit!Begin
  <2>2. UNCHANGED pool
    BY <1>3 DEF Credit!ReadSales
  <2>3. QED
    BY <1>0, <1>1, <2>1, <2>2, PoolStep
<1>4. CASE Credit!CountTips(c)
  <2> DEFINE k == [op |-> "tips", tips |-> Credit!TipsGiven]
  <2>1. /\ creditCall' = [creditCall EXCEPT ![c] = k]
        /\ pool' = pool \/ pool' = [status |-> "OPEN", tips |-> 0]
    BY <1>4 DEF Credit!CountTips, Credit!Begin
  <2>2. k.op = "tips" /\ k.tips = Credit!TipsGiven
    OBVIOUS
  <2> HIDE DEF k
  <2>3. pool' = pool \/ pool'.status = "OPEN"
    BY <2>1
  <2>4. QED
    BY <1>0, <1>1, <2>1, <2>2, <2>3, PoolStep
<1>5. CASE Credit!StoreCount(c)
  <2>1. /\ creditCall' = [creditCall EXCEPT ![c] = Credit!Idle]
        /\ pool' = [status |-> "CALCULATED", tips |-> creditCall[c].tips]
        /\ creditCall[c].op = "tips"
    BY <1>5 DEF Credit!StoreCount, Credit!Done
  <2>2. tippedLate \/ pool'.tips = Credit!TipsGiven
    BY <1>0, <2>1 DEF CountsCurrent
  <2>3. Credit!Idle.op = "idle"
    BY DEF Credit!Idle
  <2>4. QED
    BY <1>0, <1>1, <2>1, <2>2, <2>3, PoolStep
<1>6. CASE Credit!StoreCommission(c) \/ Credit!Fail(c)
  <2>1. creditCall' = [creditCall EXCEPT ![c] = Credit!Idle] /\ UNCHANGED pool
    BY <1>6 DEF Credit!StoreCommission, Credit!Fail, Credit!Done
  <2>2. Credit!Idle.op = "idle"
    BY DEF Credit!Idle
  <2>3. QED
    BY <1>0, <1>1, <2>1, <2>2, PoolStep
<1>7. QED
  BY <1>2, <1>3, <1>4, <1>5, <1>6

\* A tip is given: whatever was counted, or is to be kept, may be too late.
LEMMA TipStep ==
    ASSUME CreditInductive, NEW o \in Slips, NEW amount \in Tips, Credit!recordTip(o, amount)
    PROVE  CreditInductive'
<1>0. CreditType /\ Credit!PreparedKept
  BY DEF CreditInductive
<1>1. /\ sale' = [sale EXCEPT ![o] = [sale[o] EXCEPT !.tipAmount = amount]]
      /\ tippedLate' = (tippedLate \/ pool # Credit!NoPool \/ Credit!Busy("tips"))
      /\ UNCHANGED <<pool, creditCall, credited, lapped>>
  BY DEF Credit!recordTip
<1>2. /\ [sale[o] EXCEPT !.tipAmount = amount] \in SaleRow
      /\ [sale[o] EXCEPT !.tipAmount = amount].preparedBy = sale[o].preparedBy
  BY <1>0 DEF CreditType, SaleRow
<1>3. /\ sale' \in [Slips -> SaleRow]
      /\ \A q \in Slips : sale'[q].preparedBy = sale[q].preparedBy
  BY <1>0, <1>1, <1>2 DEF CreditType
<1>4. tippedLate' \in BOOLEAN
  BY <1>0, <1>1 DEF CreditType
<1>5. CreditType' /\ Credit!PreparedKept'
  BY <1>0, <1>1, <1>3, <1>4 DEF CreditType, Credit!PreparedKept
<1>6. ~tippedLate' => pool' = Credit!NoPool /\ \A c \in Hands : creditCall'[c].op # "tips"
  BY <1>1 DEF Credit!Busy
<1>7. Credit!TipsPooled' /\ CountsCurrent'
  BY <1>4, <1>6 DEF Credit!TipsPooled, CountsCurrent, Credit!NoPool
<1>8. QED
  BY <1>5, <1>7 DEF CreditInductive

LEMMA CreditMoves ==
    ASSUME CreditInductive, [Credit!Next]_creditVars
    PROVE  CreditInductive'
<1>0. CreditType /\ Credit!PreparedKept /\ Credit!TipsPooled /\ CountsCurrent
  BY DEF CreditInductive
<1>1. CASE UNCHANGED creditVars
  BY <1>0, <1>1 DEF CreditInductive, CreditType, CountsCurrent, Credit!PreparedKept,
     Credit!TipsPooled, Credit!TipsGiven, creditVars
<1>2. CASE Credit!distributeTips
  <2>1. /\ UNCHANGED <<sale, creditCall, credited, lapped, tippedLate>>
        /\ pool'.status = "DISTRIBUTED"
    BY <1>2 DEF Credit!distributeTips
  <2>2. QED
    BY <1>0, <2>1 DEF CreditInductive, CreditType, CountsCurrent, Credit!PreparedKept,
       Credit!TipsPooled, Credit!TipsGiven
<1>3. ASSUME NEW o \in Slips, NEW names \in SUBSET Hands,
             Credit!attributeOrder(o, NoOne, names, NoOne)
      PROVE  CreditInductive'
  BY <1>3, AttributeStep
<1>4. ASSUME NEW o \in Slips, NEW u \in Hands,
             Credit!attributeOrder(o, u, sale[o].preparedBy, u)
      PROVE  CreditInductive'
  <2>1. sale[o].preparedBy \in SUBSET Hands
    BY <1>0 DEF CreditType, SaleRow
  <2>2. QED
    BY <1>4, <2>1, AttributeStep
<1>5. CASE Credit!PreparedNext
  BY <1>3, <1>5, SaleStep, CallStep, PreparedStep DEF Credit!PreparedNext
<1>6. CASE Credit!TipsNext
  BY <1>2, <1>6, TipStep, CallStep DEF Credit!TipsNext
<1>7. CASE Credit!CommissionNext
  BY <1>4, <1>7, SaleStep, CallStep DEF Credit!CommissionNext
<1>8. QED
  BY <1>1, <1>5, <1>6, <1>7 DEF Credit!Next

LEMMA CreditStart == ASSUME Credit!Init PROVE CreditInductive
<1>1. CreditType
  BY DEF Credit!Init, CreditType, SaleRow, Credit!Idle
<1>2. Credit!PreparedKept /\ Credit!TipsPooled /\ CountsCurrent
  BY DEF Credit!Init, Credit!PreparedKept, Credit!TipsPooled, CountsCurrent, Credit!Idle, Credit!NoPool
<1>3. QED
  BY <1>1, <1>2 DEF CreditInductive

CreditFollowed == focus \in {"prepared", "tips", "commission"} => CreditInductive

LEMMA CreditIsKept == Spec => []CreditFollowed
<1>1. Init => CreditFollowed
  BY CreditStart DEF Init, CreditFollowed
<1>2. CreditFollowed /\ [Next]_everyVar => CreditFollowed'
  BY CreditMoves DEF CreditFollowed, Next, everyVar, Credit!Next
<1>3. QED
  BY <1>1, <1>2, PTL DEF Spec

-----------------------------------------------------------------------------
(* The staff, whichever part of it is followed.                            *)

\* What is paid follows from the two times of an entry, and a no-show was not
\* there; nobody who took a break in time is reported, and nobody twice; one
\* budget judges the cost of labor; nobody is planned twice at once, or after
\* they left, by those who knew; a check of a permission, the list of them and the
\* rows agree; whoever was told so prepared the order, and a counted pool holds
\* the tips that were given (StaffAccounted).
THEOREM StaffIsAccounted == Spec => []StaffAccounted
<1>1. ClockFollowed => (focus = "clock" => Clock!TimeAccounted)
  BY ClockHolds DEF ClockFollowed
<1>2. BreaksFollowed => (focus = "breaks" => Pauses!BreaksKept)
  BY BreaksHold DEF BreaksFollowed
<1>3. LaborFollowed => (focus = "labor" => Labor!OneBudget)
  BY DEF LaborFollowed, LaborInductive
<1>4. RosterFollowed => (focus = "roster" => Plan!RosterKept)
  BY DEF RosterFollowed, RosterInductive, Plan!RosterKept
<1>5. RightsFollowed => (focus = "rights" => Rights!PermissionsKept)
  BY RightsHold DEF RightsFollowed
<1>6. CreditFollowed => (focus \in {"prepared", "tips", "commission"} =>
                             Credit!PreparedKept /\ Credit!TipsPooled)
  BY DEF CreditFollowed, CreditInductive
<1>7. ClockFollowed /\ BreaksFollowed /\ LaborFollowed /\ RosterFollowed /\ RightsFollowed
          /\ CreditFollowed => StaffAccounted
  BY <1>1, <1>2, <1>3, <1>4, <1>5, <1>6 DEF StaffAccounted
<1>8. QED
  BY <1>7, ClockKept, BreaksAreKept, LaborKept, RosterIsKept, RightsAreKept, CreditIsKept, PTL
=============================================================================
