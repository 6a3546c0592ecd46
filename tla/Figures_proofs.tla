--------------------------- MODULE Figures_proofs ---------------------------
(***************************************************************************)
(* Theorems about the figures of module StoreDay, for any sales, stores    *)
(* and days: the daily metrics that the handlers of the payments keep, the *)
(* items that the handlers of the stock count, the rows of products and    *)
(* hours that the nightly jobs write, and the reports over them.  The      *)
(* figures are sums over all sales, so an invariant says of each row which *)
(* sales are in it.                                                        *)
(***************************************************************************)
EXTENDS StoreDay, Sums

-----------------------------------------------------------------------------
(* The daily metrics: what the handlers of the payment events keep.        *)

Kinds == Books!Kinds
Days == Books!Days
SaleRows ==
    [store : Branches \union {"none"}, placed : Days,
     order : {"none", "PENDING", "CANCELLED", "PAID", "PAYMENT_FAILED", "READY", "COMPLETED"},
     pay : {"none", "PENDING", "PAID", "COMPLETED", "FAILED", "VOIDED", "REFUNDED",
            "PARTIALLY_REFUNDED"},
     method : Books!Methods \union {"none"}, charged : Days, back : Nat]
CallRows ==
    [at : {"idle", "due", "lost", "recorded", "averaging", "done"}, day : Days, avg : Int]
MetricsRows ==
    [exists : BOOLEAN, gross : Int, net : Int, refunded : Int, ok : Int, failed : Int, avg : Int]

SalesTyped ==
    /\ now \in Days
    /\ sales \in [SalesMade -> SaleRows]
    /\ call \in [SalesMade -> [Kinds -> CallRows]]

\* The events of a sale are those of the status its payment has come to.
Emitted(s) == {k \in Kinds : call[s][k].at # "idle"}
Fits(s, row, events) ==
    /\ row.order = "none" => row.pay = "none"
    /\ row.order # "none" => row.store \in Branches
    /\ row.pay \in {"none", "PENDING"} => row.order \notin {"PAID", "READY", "COMPLETED"}
    /\ row.pay \in {"PAID", "COMPLETED", "VOIDED", "REFUNDED", "PARTIALLY_REFUNDED"} <=> "sold" \in events
    /\ row.pay = "FAILED" <=> "failed" \in events
    /\ row.pay = "VOIDED" <=> "voided" \in events
    /\ row.pay \in {"REFUNDED", "PARTIALLY_REFUNDED"} <=> "refunded" \in events
    /\ row.pay = "REFUNDED" <=> row.back = ForSale[s].price
    /\ row.back \in 0 .. ForSale[s].price

SalesKept == SalesTyped /\ \A s \in SalesMade : Fits(s, sales[s], Emitted(s))

\* What happens to the sales: a sale stays where it was placed, an event that
\* was emitted is not emitted again, and an order leaves COMPLETED by a void.
SalesStep ==
    \A s \in SalesMade :
        /\ \A k \in Kinds : call'[s][k] # call[s][k] =>
               call[s][k].at = "idle" /\ call'[s][k].at = "due"
        /\ sales[s].order # "none" =>
               /\ sales'[s].order # "none"
               /\ sales'[s].store = sales[s].store /\ sales'[s].placed = sales[s].placed
        /\ call[s]["refunded"].at # "idle" => sales'[s].back = sales[s].back
        /\ sales[s].order = "COMPLETED" => sales'[s].order = "COMPLETED" \/ sales'[s].pay = "VOIDED"
        /\ sales[s].pay = "VOIDED" => sales'[s].pay = "VOIDED"
        /\ sales'[s].order = "COMPLETED" => sales[s].order # "none"

\* What an event has done to the rows of its store.
Recorded(s, k, st) == sales[s].store = st /\ call[s][k].at \notin {"idle", "due", "lost"}
Revenues(st) == [s \in SalesMade |-> IF Recorded(s, "sold", st) THEN ForSale[s].price ELSE 0]
Backs(st) == [s \in SalesMade |-> IF Recorded(s, "refunded", st) THEN sales[s].back ELSE 0]
Counts(st, k) == [s \in SalesMade |-> IF Recorded(s, k, st) THEN 1 ELSE 0]
Column(st, f) == [d \in Days |-> metrics[st][d][f]]
Whole(f) == SumFunctionOnSet(f, SalesMade)
Period(f) == SumFunctionOnSet(f, Days)

RowKept(row) ==
    /\ ~row.exists => row.gross = 0 /\ row.refunded = 0 /\ row.ok = 0
    /\ row.net = row.gross - row.refunded

Totals(st) ==
    /\ Period(Column(st, "gross")) = Whole(Revenues(st))
    /\ Period(Column(st, "refunded")) = Whole(Backs(st))
    /\ Period(Column(st, "ok")) \in Int
    /\ Period(Column(st, "ok")) <= Whole(Counts(st, "sold"))
    /\ Period(Column(st, "ok")) >= Whole(Counts(st, "sold")) - Whole(Counts(st, "voided"))

Touches(s, k, st, d) ==
    sales[s].store = st /\ call[s][k].day = d /\ call[s][k].at \in {"recorded", "averaging"}

\* The average of a row, and one that a handler is about to write.
AverageKept(st, d) ==
    LET row == metrics[st][d]
    IN  \/ row.ok <= 0 \/ <<st, d>> \in blurred
        \/ row.avg = Books!Round(row.gross, row.ok)
        \/ \E s \in SalesMade, k \in Kinds : Touches(s, k, st, d)

AverageTaken(s, k) ==
    LET row == metrics[sales[s].store][call[s][k].day]
    IN  call[s][k].at = "averaging" /\ <<sales[s].store, call[s][k].day>> \notin blurred =>
            call[s][k].avg = Books!Round(row.gross, row.ok)

MetricsInductive ==
    /\ SalesKept
    /\ metrics \in [Branches -> [Days -> MetricsRows]]
    /\ \A st \in Branches : Totals(st)
    /\ \A st \in Branches, d \in Days : RowKept(metrics[st][d]) /\ AverageKept(st, d)
    /\ \A s \in SalesMade, k \in Kinds : AverageTaken(s, k)
LEMMA FiniteInBooks == \A S : (Books!IsFiniteSet(S) <=> IsFiniteSet(S)) /\ Books!Cardinality(S) = Cardinality(S)
  BY DEF Books!IsFiniteSet, Books!Cardinality, IsFiniteSet, Cardinality

LEMMA SumsOfBooks == \A f : Books!SumFunction(f) = SumFunctionOnSet(f, DOMAIN f)
  BY DEF Books!SumFunction, Books!SumFunctionOnSet, Books!FoldFunctionOnSet,
         Books!MapThenFoldSet, SumFunctionOnSet, FoldFunctionOnSet, MapThenFoldSet

LEMMA BooksFacts ==
    /\ IsFiniteSet(SalesMade) /\ IsFiniteSet(Branches) /\ IsFiniteSet(Days)
    /\ Days \subseteq Nat /\ Days = 0 .. LastDay /\ LastDay \in Nat
    /\ \A s \in SalesMade : /\ ForSale[s].price \in Nat \ {0} /\ ForSale[s].stores \subseteq Branches
                            /\ ForSale[s].quantity \in Nat /\ ForSale[s].subtotal \in Nat
    /\ Kinds = {"sold", "failed", "voided", "refunded"}
  <1>1. Books!FiguresAssumption
    BY StoreDayAssumption
  <1>2. Days = 0 .. LastDay /\ LastDay \in Nat
    BY <1>1 DEF Days, Books!Days, Books!FiguresAssumption
  <1>3. IsFiniteSet(Days)
    BY <1>2, FS_Interval
  <1>. QED
    BY <1>1, <1>2, <1>3, FiniteInBooks DEF Books!FiguresAssumption, Kinds, Books!Kinds

-----------------------------------------------------------------------------
(* The sales.                                                              *)

\* One sale becomes row, and the events of a set are emitted.
Becomes(s, row, events) ==
    /\ sales' = [sales EXCEPT ![s] = row] /\ now' = now
    /\ \A k \in events : k \notin Emitted(s)
    /\ \/ events = {} /\ call' = call
       \/ \E k \in Kinds : events = {k} /\ call' = [call EXCEPT ![s][k].at = "due"]
    /\ row \in SaleRows /\ Fits(s, row, Emitted(s) \union events)
    /\ sales[s].order # "none" =>
           row.order # "none" /\ row.store = sales[s].store /\ row.placed = sales[s].placed
    /\ "refunded" \in Emitted(s) => row.back = sales[s].back
    /\ sales[s].order = "COMPLETED" => row.order = "COMPLETED" \/ row.pay = "VOIDED"
    /\ sales[s].pay = "VOIDED" => row.pay = "VOIDED"
    /\ row.order = "COMPLETED" => sales[s].order # "none"

LEMMA OneSaleMoves ==
    ASSUME SalesKept, NEW s \in SalesMade, NEW row, NEW events, Becomes(s, row, events)
    PROVE  SalesKept' /\ SalesStep
  <1>1. /\ sales' \in [SalesMade -> SaleRows] /\ sales'[s] = row /\ now' = now
        /\ \A t \in SalesMade \ {s} : sales'[t] = sales[t]
    BY DEF Becomes, SalesKept, SalesTyped
  <1>2. /\ call' \in [SalesMade -> [Kinds -> CallRows]]
        /\ \A t \in SalesMade \ {s} : call'[t] = call[t]
        /\ \A k \in Kinds \ events : call'[s][k] = call[s][k]
        /\ \A k \in events : k \in Kinds /\ call[s][k].at = "idle" /\ call'[s][k].at = "due"
    <2>1. ASSUME NEW k \in Kinds, events = {k}, call' = [call EXCEPT ![s][k].at = "due"] PROVE <1>2
      <3> DEFINE c == [call[s][k] EXCEPT !.at = "due"]
      <3>1. c \in CallRows /\ c.at = "due"
        BY DEF SalesKept, SalesTyped, CallRows
      <3>2. call' = [call EXCEPT ![s] = [call[s] EXCEPT ![k] = c]]
        BY <2>1 DEF SalesKept, SalesTyped
      <3>3. call[s][k].at = "idle"
        BY <2>1 DEF Becomes, Emitted
      <3> HIDE DEF c
      <3>4. PICK its : its = [call[s] EXCEPT ![k] = c]
        OBVIOUS
      <3>5. its \in [Kinds -> CallRows] /\ its[k] = c /\ \A j \in Kinds \ {k} : its[j] = call[s][j]
        BY <3>1, <3>4 DEF SalesKept, SalesTyped
      <3>6. /\ call' \in [SalesMade -> [Kinds -> CallRows]] /\ call'[s] = its
            /\ \A t \in SalesMade \ {s} : call'[t] = call[t]
        BY <3>2, <3>4, <3>5 DEF SalesKept, SalesTyped
      <3>. QED
        BY <2>1, <3>1, <3>3, <3>5, <3>6
    <2>2. CASE events = {} /\ call' = call
      BY <2>2 DEF SalesKept, SalesTyped
    <2>. QED
      BY <2>1, <2>2 DEF Becomes
  <1>3. ASSUME NEW t \in SalesMade PROVE Fits(t, sales[t], Emitted(t))'
    <2>1. CASE t = s
      <3>1. Emitted(s)' = Emitted(s) \union events
        BY <1>2 DEF Emitted
      <3>. QED
        BY <1>1, <2>1, <3>1 DEF Becomes, Fits
    <2>2. CASE t # s
      <3>1. Emitted(t)' = Emitted(t) /\ sales'[t] = sales[t]
        BY <1>1, <1>2, <2>2 DEF Emitted
      <3>. QED
        BY <3>1 DEF SalesKept, Fits
    <2>. QED
      BY <2>1, <2>2
  <1>4. SalesStep
    <2>. SUFFICES ASSUME NEW t \in SalesMade
                  PROVE  /\ \A k \in Kinds : call'[t][k] # call[t][k] =>
                                call[t][k].at = "idle" /\ call'[t][k].at = "due"
                         /\ sales[t].order # "none" =>
                                /\ sales'[t].order # "none"
                                /\ sales'[t].store = sales[t].store /\ sales'[t].placed = sales[t].placed
                         /\ call[t]["refunded"].at # "idle" => sales'[t].back = sales[t].back
                         /\ sales[t].order = "COMPLETED" =>
                                sales'[t].order = "COMPLETED" \/ sales'[t].pay = "VOIDED"
                         /\ sales[t].pay = "VOIDED" => sales'[t].pay = "VOIDED"
                         /\ sales'[t].order = "COMPLETED" => sales[t].order # "none"
      BY DEF SalesStep
    <2>1. CASE t = s
      BY <1>1, <1>2, <2>1, BooksFacts DEF Becomes, Emitted
    <2>2. CASE t # s
      BY <1>1, <1>2, <2>2
    <2>. QED
      BY <2>1, <2>2
  <1>. QED
    BY <1>1, <1>2, <1>3, <1>4 DEF SalesKept, SalesTyped

LEMMA TickMoves ==
    ASSUME SalesKept, UNCHANGED <<sales, call>>, now' \in Days
    PROVE  SalesKept' /\ SalesStep
  <1>1. ASSUME NEW s \in SalesMade PROVE Fits(s, sales[s], Emitted(s))'
    BY DEF SalesKept, Fits, Emitted
  <1>. QED
    BY <1>1 DEF SalesKept, SalesTyped, SalesStep

LEMMA PaymentMoves ==
    ASSUME SalesKept, Books!PaymentNext
    PROVE  SalesKept' /\ SalesStep /\ UNCHANGED <<metrics, blurred>>
  <1>1. PICK s \in SalesMade :
            \/ \E st \in ForSale[s].stores : Books!Place(s, st)
            \/ \E m \in Books!TillMethods : Books!PayAtTill(s, m)
            \/ \E m \in Books!Providers : Books!StartPayment(s, m)
            \/ Books!ConfirmPayment(s) \/ Books!FailPayment(s) \/ Books!Void(s)
            \/ \E amount \in {1, ForSale[s].price} : Books!Refund(s, amount)
    BY DEF Books!PaymentNext
  <1>r. /\ sales[s] \in SaleRows /\ Fits(s, sales[s], Emitted(s))
        /\ now \in Days /\ ForSale[s].price \in Nat \ {0} /\ ForSale[s].stores \subseteq Branches
    BY BooksFacts DEF SalesKept, SalesTyped
  <1>2. ASSUME NEW st \in ForSale[s].stores, Books!Place(s, st)
        PROVE  \E row, events : Becomes(s, row, events)
    <2>1. PICK row \in SaleRows : row = [sales[s] EXCEPT !.store = st, !.placed = now, !.order = "PENDING"]
      BY <1>2, <1>r DEF SaleRows
    <2>2. PICK events : events = {}
      OBVIOUS
    <2>3. Fits(s, row, Emitted(s) \union events) /\ \A k \in events : k \notin Emitted(s)
      BY <1>2, <1>r, <2>1, <2>2 DEF SaleRows, Fits, Books!Place
    <2>4. /\ sales' = [sales EXCEPT ![s] = row] /\ now' = now
          /\ \/ events = {} /\ call' = call
             \/ \E k \in Kinds : events = {k} /\ call' = [call EXCEPT ![s][k].at = "due"]
      BY <1>2, <2>1, <2>2, BooksFacts DEF Books!Place, Books!Change, Books!Emit
    <2>5. /\ sales[s].order # "none" =>
                row.order # "none" /\ row.store = sales[s].store /\ row.placed = sales[s].placed
          /\ "refunded" \in Emitted(s) => row.back = sales[s].back
          /\ sales[s].order = "COMPLETED" => row.order = "COMPLETED" \/ row.pay = "VOIDED"
          /\ sales[s].pay = "VOIDED" => row.pay = "VOIDED"
          /\ row.order = "COMPLETED" => sales[s].order # "none"
      BY <1>2, <1>r, <2>1 DEF SaleRows, Fits, Books!Place
    <2>. QED
      BY <2>1, <2>3, <2>4, <2>5 DEF Becomes
  <1>3. ASSUME NEW m \in Books!TillMethods, Books!PayAtTill(s, m)
        PROVE  \E row, events : Becomes(s, row, events)
    <2>1. PICK row \in SaleRows : row = [sales[s] EXCEPT !.order = "PAID", !.pay = "COMPLETED", !.method = m, !.charged = now]
      BY <1>3, <1>r DEF SaleRows, Books!Methods
    <2>2. PICK events : events = {"sold"}
      OBVIOUS
    <2>3. Fits(s, row, Emitted(s) \union events) /\ \A k \in events : k \notin Emitted(s)
      BY <1>3, <1>r, <2>1, <2>2 DEF SaleRows, Fits, Books!PayAtTill, Books!Placed, Books!Methods
    <2>4. /\ sales' = [sales EXCEPT ![s] = row] /\ now' = now
          /\ \/ events = {} /\ call' = call
             \/ \E k \in Kinds : events = {k} /\ call' = [call EXCEPT ![s][k].at = "due"]
      BY <1>3, <2>1, <2>2, BooksFacts DEF Books!PayAtTill, Books!Change, Books!Emit
    <2>5. /\ sales[s].order # "none" =>
                row.order # "none" /\ row.store = sales[s].store /\ row.placed = sales[s].placed
          /\ "refunded" \in Emitted(s) => row.back = sales[s].back
          /\ sales[s].order = "COMPLETED" => row.order = "COMPLETED" \/ row.pay = "VOIDED"
          /\ sales[s].pay = "VOIDED" => row.pay = "VOIDED"
          /\ row.order = "COMPLETED" => sales[s].order # "none"
      BY <1>3, <1>r, <2>1 DEF SaleRows, Fits, Books!PayAtTill, Books!Placed, Books!Methods
    <2>. QED
      BY <2>1, <2>3, <2>4, <2>5 DEF Becomes
  <1>4. ASSUME NEW m \in Books!Providers, Books!StartPayment(s, m)
        PROVE  \E row, events : Becomes(s, row, events)
    <2>1. PICK row \in SaleRows : row = [sales[s] EXCEPT !.pay = "PENDING", !.method = m, !.charged = now]
      BY <1>4, <1>r DEF SaleRows, Books!Methods
    <2>2. PICK events : events = {}
      OBVIOUS
    <2>3. Fits(s, row, Emitted(s) \union events) /\ \A k \in events : k \notin Emitted(s)
      BY <1>4, <1>r, <2>1, <2>2 DEF SaleRows, Fits, Books!StartPayment, Books!Methods
    <2>4. /\ sales' = [sales EXCEPT ![s] = row] /\ now' = now
          /\ \/ events = {} /\ call' = call
             \/ \E k \in Kinds : events = {k} /\ call' = [call EXCEPT ![s][k].at = "due"]
      BY <1>4, <2>1, <2>2, BooksFacts DEF Books!StartPayment, Books!Change, Books!Emit
    <2>5. /\ sales[s].order # "none" =>
                row.order # "none" /\ row.store = sales[s].store /\ row.placed = sales[s].placed
          /\ "refunded" \in Emitted(s) => row.back = sales[s].back
          /\ sales[s].order = "COMPLETED" => row.order = "COMPLETED" \/ row.pay = "VOIDED"
          /\ sales[s].pay = "VOIDED" => row.pay = "VOIDED"
          /\ row.order = "COMPLETED" => sales[s].order # "none"
      BY <1>4, <1>r, <2>1 DEF SaleRows, Fits, Books!StartPayment, Books!Methods
    <2>. QED
      BY <2>1, <2>3, <2>4, <2>5 DEF Becomes
  <1>5. ASSUME Books!ConfirmPayment(s)
        PROVE  \E row, events : Becomes(s, row, events)
    <2>1. PICK row \in SaleRows : row = [sales[s] EXCEPT !.order = "PAID", !.pay = "PAID"]
      BY <1>5, <1>r DEF SaleRows
    <2>2. PICK events : events = {"sold"}
      OBVIOUS
    <2>3. Fits(s, row, Emitted(s) \union events) /\ \A k \in events : k \notin Emitted(s)
      BY <1>5, <1>r, <2>1, <2>2 DEF SaleRows, Fits, Books!ConfirmPayment
    <2>4. /\ sales' = [sales EXCEPT ![s] = row] /\ now' = now
          /\ \/ events = {} /\ call' = call
             \/ \E k \in Kinds : events = {k} /\ call' = [call EXCEPT ![s][k].at = "due"]
      BY <1>5, <2>1, <2>2, BooksFacts DEF Books!ConfirmPayment, Books!Change, Books!Emit
    <2>5. /\ sales[s].order # "none" =>
                row.order # "none" /\ row.store = sales[s].store /\ row.placed = sales[s].placed
          /\ "refunded" \in Emitted(s) => row.back = sales[s].back
          /\ sales[s].order = "COMPLETED" => row.order = "COMPLETED" \/ row.pay = "VOIDED"
          /\ sales[s].pay = "VOIDED" => row.pay = "VOIDED"
          /\ row.order = "COMPLETED" => sales[s].order # "none"
      BY <1>5, <1>r, <2>1 DEF SaleRows, Fits, Books!ConfirmPayment
    <2>. QED
      BY <2>1, <2>3, <2>4, <2>5 DEF Becomes
  <1>6. ASSUME Books!FailPayment(s)
        PROVE  \E row, events : Becomes(s, row, events)
    <2>1. PICK row \in SaleRows : row = [sales[s] EXCEPT !.order = "PAYMENT_FAILED", !.pay = "FAILED"]
      BY <1>6, <1>r DEF SaleRows
    <2>2. PICK events : events = {"failed"}
      OBVIOUS
    <2>3. Fits(s, row, Emitted(s) \union events) /\ \A k \in events : k \notin Emitted(s)
      BY <1>6, <1>r, <2>1, <2>2 DEF SaleRows, Fits, Books!FailPayment
    <2>4. /\ sales' = [sales EXCEPT ![s] = row] /\ now' = now
          /\ \/ events = {} /\ call' = call
             \/ \E k \in Kinds : events = {k} /\ call' = [call EXCEPT ![s][k].at = "due"]
      BY <1>6, <2>1, <2>2, BooksFacts DEF Books!FailPayment, Books!Change, Books!Emit
    <2>5. /\ sales[s].order # "none" =>
                row.order # "none" /\ row.store = sales[s].store /\ row.placed = sales[s].placed
          /\ "refunded" \in Emitted(s) => row.back = sales[s].back
          /\ sales[s].order = "COMPLETED" => row.order = "COMPLETED" \/ row.pay = "VOIDED"
          /\ sales[s].pay = "VOIDED" => row.pay = "VOIDED"
          /\ row.order = "COMPLETED" => sales[s].order # "none"
      BY <1>6, <1>r, <2>1 DEF SaleRows, Fits, Books!FailPayment
    <2>. QED
      BY <2>1, <2>3, <2>4, <2>5 DEF Becomes
  <1>7. ASSUME Books!Void(s)
        PROVE  \E row, events : Becomes(s, row, events)
    <2>1. PICK row \in SaleRows : row = [sales[s] EXCEPT !.order = "READY", !.pay = "VOIDED"]
      BY <1>7, <1>r DEF SaleRows
    <2>2. PICK events : events = {"voided"}
      OBVIOUS
    <2>3. Fits(s, row, Emitted(s) \union events) /\ \A k \in events : k \notin Emitted(s)
      BY <1>7, <1>r, <2>1, <2>2 DEF SaleRows, Fits, Books!Void
    <2>4. /\ sales' = [sales EXCEPT ![s] = row] /\ now' = now
          /\ \/ events = {} /\ call' = call
             \/ \E k \in Kinds : events = {k} /\ call' = [call EXCEPT ![s][k].at = "due"]
      BY <1>7, <2>1, <2>2, BooksFacts DEF Books!Void, Books!Change, Books!Emit
    <2>5. /\ sales[s].order # "none" =>
                row.order # "none" /\ row.store = sales[s].store /\ row.placed = sales[s].placed
          /\ "refunded" \in Emitted(s) => row.back = sales[s].back
          /\ sales[s].order = "COMPLETED" => row.order = "COMPLETED" \/ row.pay = "VOIDED"
          /\ sales[s].pay = "VOIDED" => row.pay = "VOIDED"
          /\ row.order = "COMPLETED" => sales[s].order # "none"
      BY <1>7, <1>r, <2>1 DEF SaleRows, Fits, Books!Void
    <2>. QED
      BY <2>1, <2>3, <2>4, <2>5 DEF Becomes
  <1>8. ASSUME NEW amount \in {1, ForSale[s].price}, Books!Refund(s, amount)
        PROVE  \E row, events : Becomes(s, row, events)
    <2>1. PICK row \in SaleRows : row = [sales[s] EXCEPT !.back = amount,
            !.pay = IF amount = ForSale[s].price THEN "REFUNDED" ELSE "PARTIALLY_REFUNDED"]
      <3>1. amount \in Nat
        BY <1>8, <1>r
      <3>2. CASE amount = ForSale[s].price
        BY <1>r, <3>1, <3>2 DEF SaleRows
      <3>3. CASE amount # ForSale[s].price
        BY <1>r, <3>1, <3>3 DEF SaleRows
      <3>. QED
        BY <3>2, <3>3
    <2>2. PICK events : events = {"refunded"}
      OBVIOUS
    <2>3. Fits(s, row, Emitted(s) \union events) /\ \A k \in events : k \notin Emitted(s)
      BY <1>8, <1>r, <2>1, <2>2 DEF SaleRows, Fits, Books!Refund
    <2>4. /\ sales' = [sales EXCEPT ![s] = row] /\ now' = now
          /\ \/ events = {} /\ call' = call
             \/ \E k \in Kinds : events = {k} /\ call' = [call EXCEPT ![s][k].at = "due"]
      BY <1>8, <2>1, <2>2, BooksFacts DEF Books!Refund, Books!Change, Books!Emit
    <2>5. /\ sales[s].order # "none" =>
                row.order # "none" /\ row.store = sales[s].store /\ row.placed = sales[s].placed
          /\ "refunded" \in Emitted(s) => row.back = sales[s].back
          /\ sales[s].order = "COMPLETED" => row.order = "COMPLETED" \/ row.pay = "VOIDED"
          /\ sales[s].pay = "VOIDED" => row.pay = "VOIDED"
          /\ row.order = "COMPLETED" => sales[s].order # "none"
      BY <1>8, <1>r, <2>1 DEF SaleRows, Fits, Books!Refund
    <2>. QED
      BY <2>1, <2>3, <2>4, <2>5 DEF Becomes
  <1>9. UNCHANGED <<metrics, blurred>>
    BY <1>1 DEF Books!Place, Books!PayAtTill, Books!StartPayment, Books!ConfirmPayment,
                Books!FailPayment, Books!Void, Books!Refund
  <1>10. \E row, events : Becomes(s, row, events)
    BY <1>1, <1>2, <1>3, <1>4, <1>5, <1>6, <1>7, <1>8
  <1>. QED
    BY <1>9, <1>10, OneSaleMoves

LEMMA OrderMoves ==
    ASSUME SalesKept, Books!OrderNext
    PROVE  SalesKept' /\ SalesStep /\ UNCHANGED <<metrics, blurred>>
  <1>1. PICK s \in SalesMade : Books!CancelOrder(s) \/ Books!Complete(s)
    BY DEF Books!OrderNext
  <1>r. sales[s] \in SaleRows /\ Fits(s, sales[s], Emitted(s))
    BY DEF SalesKept, SalesTyped
  <1>2. ASSUME Books!CancelOrder(s)
        PROVE  \E row, events : Becomes(s, row, events)
    <2>1. PICK row \in SaleRows : row = [sales[s] EXCEPT !.order = "CANCELLED"]
      BY <1>2, <1>r DEF SaleRows
    <2>2. PICK events : events = {}
      OBVIOUS
    <2>3. Fits(s, row, Emitted(s) \union events) /\ \A k \in events : k \notin Emitted(s)
      BY <1>2, <1>r, <2>1, <2>2 DEF SaleRows, Fits, Books!CancelOrder
    <2>4. /\ sales' = [sales EXCEPT ![s] = row] /\ now' = now
          /\ \/ events = {} /\ call' = call
             \/ \E k \in Kinds : events = {k} /\ call' = [call EXCEPT ![s][k].at = "due"]
      BY <1>2, <2>1, <2>2, BooksFacts DEF Books!CancelOrder, Books!Change, Books!Emit
    <2>5. /\ sales[s].order # "none" =>
                row.order # "none" /\ row.store = sales[s].store /\ row.placed = sales[s].placed
          /\ "refunded" \in Emitted(s) => row.back = sales[s].back
          /\ sales[s].order = "COMPLETED" => row.order = "COMPLETED" \/ row.pay = "VOIDED"
          /\ sales[s].pay = "VOIDED" => row.pay = "VOIDED"
          /\ row.order = "COMPLETED" => sales[s].order # "none"
      BY <1>2, <1>r, <2>1 DEF SaleRows, Fits, Books!CancelOrder
    <2>. QED
      BY <2>1, <2>3, <2>4, <2>5 DEF Becomes
  <1>3. ASSUME Books!Complete(s)
        PROVE  \E row, events : Becomes(s, row, events)
    <2>1. PICK row \in SaleRows : row = [sales[s] EXCEPT !.order = "COMPLETED"]
      BY <1>3, <1>r DEF SaleRows
    <2>2. PICK events : events = {}
      OBVIOUS
    <2>3. Fits(s, row, Emitted(s) \union events) /\ \A k \in events : k \notin Emitted(s)
      BY <1>3, <1>r, <2>1, <2>2 DEF SaleRows, Fits, Books!Complete
    <2>4. /\ sales' = [sales EXCEPT ![s] = row] /\ now' = now
          /\ \/ events = {} /\ call' = call
             \/ \E k \in Kinds : events = {k} /\ call' = [call EXCEPT ![s][k].at = "due"]
      BY <1>3, <2>1, <2>2, BooksFacts DEF Books!Complete, Books!Change, Books!Emit
    <2>5. /\ sales[s].order # "none" =>
                row.order # "none" /\ row.store = sales[s].store /\ row.placed = sales[s].placed
          /\ "refunded" \in Emitted(s) => row.back = sales[s].back
          /\ sales[s].order = "COMPLETED" => row.order = "COMPLETED" \/ row.pay = "VOIDED"
          /\ sales[s].pay = "VOIDED" => row.pay = "VOIDED"
          /\ row.order = "COMPLETED" => sales[s].order # "none"
      BY <1>3, <1>r, <2>1 DEF SaleRows, Fits, Books!Complete
    <2>. QED
      BY <2>1, <2>3, <2>4, <2>5 DEF Becomes
  <1>4. UNCHANGED <<metrics, blurred>>
    BY <1>1 DEF Books!CancelOrder, Books!Complete
  <1>5. \E row, events : Becomes(s, row, events)
    BY <1>1, <1>2, <1>3
  <1>. QED
    BY <1>4, <1>5, OneSaleMoves
-----------------------------------------------------------------------------
(* The rows of the metrics, under the sales.                               *)

LEMMA EventsOfPlaced ==
    ASSUME SalesKept, NEW s \in SalesMade, NEW k \in Kinds, call[s][k].at # "idle"
    PROVE  sales[s].order # "none" /\ sales[s].store \in Branches
  <1>1. k \in Emitted(s) /\ Fits(s, sales[s], Emitted(s))
    BY DEF SalesKept, Emitted
  <1>2. k \in {"sold", "failed", "voided", "refunded"}
    BY BooksFacts
  <1>. QED
    BY <1>1, <1>2 DEF Fits

LEMMA SalesMove ==
    ASSUME MetricsInductive, SalesKept', SalesStep, UNCHANGED <<metrics, blurred>>
    PROVE  MetricsInductive'
  <1>1. ASSUME NEW s \in SalesMade, NEW k \in Kinds
        PROVE  /\ call[s][k].at # "idle" => call'[s][k] = call[s][k] /\ sales'[s].store = sales[s].store
               /\ call[s][k].at = "idle" => call'[s][k].at \in {"idle", "due"}
    BY EventsOfPlaced DEF SalesStep, MetricsInductive
  <1>2. ASSUME NEW s \in SalesMade, NEW k \in Kinds, NEW st
        PROVE  Recorded(s, k, st)' <=> Recorded(s, k, st)
    BY <1>1 DEF Recorded
  <1>3. ASSUME NEW s \in SalesMade, NEW k \in Kinds, NEW st, NEW d
        PROVE  Touches(s, k, st, d)' <=> Touches(s, k, st, d)
    BY <1>1 DEF Touches
  <1>4. ASSUME NEW st \in Branches PROVE Totals(st)'
    <2>1. Revenues(st)' = Revenues(st)
      BY <1>2, BooksFacts DEF Revenues
    <2>2. Backs(st)' = Backs(st)
      <3>1. ASSUME NEW s \in SalesMade, Recorded(s, "refunded", st) PROVE sales'[s].back = sales[s].back
        BY <3>1 DEF SalesStep, Recorded
      <3>. QED
        BY <1>2, <3>1, BooksFacts DEF Backs
    <2>3. \A k \in Kinds : Counts(st, k)' = Counts(st, k)
      BY <1>2 DEF Counts
    <2>4. Counts(st, "sold")' = Counts(st, "sold") /\ Counts(st, "voided")' = Counts(st, "voided")
      BY <2>3, BooksFacts
    <2>5. Totals(st)
      BY DEF MetricsInductive
    <2>6. \A f : Column(st, f)' = Column(st, f)
      BY DEF Column
    <2>. QED
      BY <2>1, <2>2, <2>4, <2>5, <2>6 DEF Totals, Whole, Period
  <1>5. ASSUME NEW st \in Branches, NEW d \in Days PROVE RowKept(metrics[st][d])' /\ AverageKept(st, d)'
    <2>1. RowKept(metrics[st][d]) /\ AverageKept(st, d)
      BY DEF MetricsInductive
    <2>. QED
      BY <1>3, <2>1 DEF AverageKept, RowKept
  <1>6. ASSUME NEW s \in SalesMade, NEW k \in Kinds PROVE AverageTaken(s, k)'
    BY <1>1 DEF MetricsInductive, AverageTaken
  <1>. QED
    BY <1>4, <1>5, <1>6 DEF MetricsInductive

-----------------------------------------------------------------------------
(* The handlers.                                                           *)

\* The handler of one event goes from one place to another.
Handled(s, k, c) ==
    /\ sales' = sales /\ now' = now
    /\ call' = [call EXCEPT ![s] = [call[s] EXCEPT ![k] = c]]
    /\ c \in CallRows /\ c.at # "idle" /\ call[s][k].at # "idle"

LEMMA HandlerMoves ==
    ASSUME SalesKept, NEW s \in SalesMade, NEW k \in Kinds, NEW c, Handled(s, k, c)
    PROVE  /\ SalesKept' /\ call'[s][k] = c
           /\ \A t \in SalesMade, j \in Kinds : t # s \/ j # k => call'[t][j] = call[t][j]
  <1>1. PICK its : its = [call[s] EXCEPT ![k] = c]
    OBVIOUS
  <1>2. its \in [Kinds -> CallRows] /\ its[k] = c /\ \A j \in Kinds \ {k} : its[j] = call[s][j]
    BY <1>1 DEF SalesKept, SalesTyped, Handled
  <1>3. /\ call' \in [SalesMade -> [Kinds -> CallRows]] /\ call'[s] = its
        /\ \A t \in SalesMade \ {s} : call'[t] = call[t]
    BY <1>1, <1>2 DEF SalesKept, SalesTyped, Handled
  <1>4. ASSUME NEW t \in SalesMade PROVE Fits(t, sales[t], Emitted(t))'
    <2>1. Emitted(t)' = Emitted(t)
      BY <1>2, <1>3 DEF Emitted, Handled
    <2>2. Fits(t, sales[t], Emitted(t))
      BY DEF SalesKept
    <2>. QED
      BY <2>1, <2>2 DEF Fits, Handled
  <1>. QED
    BY <1>2, <1>3, <1>4 DEF SalesKept, SalesTyped, Handled

\* One row changes, and the totals of its columns by as much.
LEMMA RowChange ==
    ASSUME metrics \in [Branches -> [Days -> MetricsRows]], NEW st \in Branches, NEW d \in Days,
           NEW row \in MetricsRows, metrics' = [metrics EXCEPT ![st] = [metrics[st] EXCEPT ![d] = row]]
    PROVE  /\ metrics' \in [Branches -> [Days -> MetricsRows]] /\ metrics'[st][d] = row
           /\ \A x \in Branches, y \in Days : x # st \/ y # d => metrics'[x][y] = metrics[x][y]
           /\ \A f \in {"gross", "refunded", "ok"} :
                 /\ Period(Column(st, f)) \in Int
                 /\ Period(Column(st, f))' = Period(Column(st, f)) - metrics[st][d][f] + row[f]
                 /\ \A x \in Branches \ {st} : Period(Column(x, f))' = Period(Column(x, f))
  <1>1. PICK its : its = [metrics[st] EXCEPT ![d] = row]
    OBVIOUS
  <1>2. its \in [Days -> MetricsRows] /\ its[d] = row /\ \A y \in Days \ {d} : its[y] = metrics[st][y]
    BY <1>1
  <1>3. /\ metrics' \in [Branches -> [Days -> MetricsRows]] /\ metrics'[st] = its
        /\ \A x \in Branches \ {st} : metrics'[x] = metrics[x]
    BY <1>1, <1>2
  <1>4. ASSUME NEW f \in {"gross", "refunded", "ok"}
        PROVE  /\ Period(Column(st, f)) \in Int
               /\ Period(Column(st, f))' = Period(Column(st, f)) - metrics[st][d][f] + row[f]
               /\ \A x \in Branches \ {st} : Period(Column(x, f))' = Period(Column(x, f))
    <2>1. PICK c : c = Column(st, f)
      OBVIOUS
    <2>2. PICK e : e = Column(st, f)'
      OBVIOUS
    <2>3. \A y \in Days : c[y] \in Int /\ e[y] \in Int /\ c[y] = metrics[st][y][f] /\ e[y] = its[y][f]
      BY <1>2, <1>3, <1>4, <2>1, <2>2 DEF Column, MetricsRows
    <2>4. IsFiniteSet(Days)
      BY BooksFacts
    <2>5. SumFunctionOnSet(e, Days) = SumFunctionOnSet(c, Days) - c[d] + e[d]
      <3>1. \A y \in Days : c[y] \in Int
        BY <2>3
      <3>2. \A y \in Days : e[y] \in Int
        BY <2>3
      <3>3. \A y \in Days : y # d => c[y] = e[y]
        BY <1>2, <2>3
      <3>. QED
        BY <2>4, <3>1, <3>2, <3>3, SumChange
    <2>6. SumFunctionOnSet(c, Days) \in Int
      BY <2>3, <2>4, SumInt
    <2>7. ASSUME NEW x \in Branches \ {st} PROVE Period(Column(x, f))' = Period(Column(x, f))
      <3>1. Column(x, f)' = Column(x, f)
        BY <1>3 DEF Column
      <3>. QED
        BY <3>1 DEF Period
    <2>. QED
      BY <1>2, <2>1, <2>2, <2>3, <2>5, <2>6, <2>7 DEF Period
  <1>. QED
    BY <1>2, <1>3, <1>4
\* An event is recorded, and the totals of its kind grow by what it counts.
Tally(st, k, w) == [s \in SalesMade |-> IF Recorded(s, k, st) THEN w[s] ELSE 0]
Records(s, k, c) == Handled(s, k, c) /\ call[s][k].at = "due" /\ c.at \in {"recorded", "done"}

LEMMA EventRecorded ==
    ASSUME SalesKept, NEW s \in SalesMade, NEW k \in Kinds, NEW c, Records(s, k, c),
           NEW t \in SalesMade, NEW j \in Kinds, NEW x
    PROVE  Recorded(t, j, x)' <=> Recorded(t, j, x) \/ (t = s /\ j = k /\ x = sales[s].store)
  <1>1. call'[s][k] = c /\ (t # s \/ j # k => call'[t][j] = call[t][j])
    BY HandlerMoves DEF Records
  <1>. QED
    BY <1>1 DEF Recorded, Records, Handled

LEMMA TallyGrows ==
    ASSUME SalesKept, NEW s \in SalesMade, NEW k \in Kinds, NEW c, Records(s, k, c),
           NEW j \in Kinds, NEW x, NEW w, \A t \in SalesMade : w[t] \in Int
    PROVE  /\ Whole(Tally(x, j, w)) \in Int
           /\ j = k /\ x = sales[s].store => Whole(Tally(x, j, w))' = Whole(Tally(x, j, w)) + w[s]
           /\ j # k \/ x # sales[s].store => Whole(Tally(x, j, w))' = Whole(Tally(x, j, w))
  <1>1. PICK f : f = Tally(x, j, w)
    OBVIOUS
  <1>2. PICK g : g = Tally(x, j, w)'
    OBVIOUS
  <1>3. \A t \in SalesMade : /\ f[t] = IF Recorded(t, j, x) THEN w[t] ELSE 0
                            /\ g[t] = IF Recorded(t, j, x)' THEN w[t] ELSE 0
    BY <1>1, <1>2 DEF Tally
  <1>4. \A t \in SalesMade : f[t] \in Int
    BY <1>3
  <1>5. \A t \in SalesMade : g[t] \in Int
    BY <1>3
  <1>6. \A t \in SalesMade : Recorded(t, j, x)' <=> Recorded(t, j, x) \/ (t = s /\ j = k /\ x = sales[s].store)
    BY EventRecorded
  <1>7. \A t \in SalesMade : t # s => f[t] = g[t]
    BY <1>3, <1>6
  <1>8. SumFunctionOnSet(g, SalesMade) = SumFunctionOnSet(f, SalesMade) - f[s] + g[s]
    BY <1>4, <1>5, <1>7, BooksFacts, SumChange
  <1>9. SumFunctionOnSet(f, SalesMade) \in Int
    BY <1>4, BooksFacts, SumInt
  <1>10. ~Recorded(s, k, x)
    BY DEF Records, Recorded
  <1>11. CASE j = k /\ x = sales[s].store
    <2>1. f[s] = 0 /\ g[s] = w[s]
      BY <1>3, <1>6, <1>10, <1>11
    <2>. QED
      BY <1>1, <1>2, <1>8, <1>9, <1>11, <2>1 DEF Whole
  <1>12. CASE j # k \/ x # sales[s].store
    <2>1. f[s] = g[s] /\ f[s] \in Int
      BY <1>3, <1>4, <1>6, <1>12
    <2>. QED
      BY <1>1, <1>2, <1>8, <1>9, <1>12, <2>1 DEF Whole
  <1>. QED
    BY <1>11, <1>12

Grows(st, k, s) ==
    /\ Whole(Revenues(st))' = Whole(Revenues(st)) + (IF k = "sold" THEN ForSale[s].price ELSE 0)
    /\ Whole(Backs(st))' = Whole(Backs(st)) + (IF k = "refunded" THEN sales[s].back ELSE 0)
    /\ Whole(Counts(st, "sold"))' = Whole(Counts(st, "sold")) + (IF k = "sold" THEN 1 ELSE 0)
    /\ Whole(Counts(st, "voided"))' = Whole(Counts(st, "voided")) + (IF k = "voided" THEN 1 ELSE 0)

SumsOf(st) == <<Whole(Revenues(st)), Whole(Backs(st)), Whole(Counts(st, "sold")), Whole(Counts(st, "voided"))>>

LEMMA SumsGrow ==
    ASSUME SalesKept, NEW s \in SalesMade, NEW k \in Kinds, NEW c, Records(s, k, c)
    PROVE  /\ \A st \in Branches : /\ Whole(Revenues(st)) \in Int /\ Whole(Backs(st)) \in Int
                                  /\ Whole(Counts(st, "sold")) \in Int
                                  /\ Whole(Counts(st, "voided")) \in Int
           /\ \A st \in Branches : st = sales[s].store => Grows(st, k, s)
           /\ \A st \in Branches \ {sales[s].store} : UNCHANGED SumsOf(st)
  <1>1. PICK prices : prices = [t \in SalesMade |-> ForSale[t].price]
    OBVIOUS
  <1>2. PICK backs : backs = [t \in SalesMade |-> sales[t].back]
    OBVIOUS
  <1>3. PICK ones : ones = [t \in SalesMade |-> 1]
    OBVIOUS
  <1>4. \A t \in SalesMade : prices[t] \in Int /\ prices[t] = ForSale[t].price
    BY <1>1, BooksFacts
  <1>5. \A t \in SalesMade : backs[t] \in Int /\ backs[t] = sales[t].back /\ backs[t] = sales'[t].back
    BY <1>2 DEF SalesKept, SalesTyped, SaleRows, Records, Handled
  <1>6. \A t \in SalesMade : ones[t] \in Int /\ ones[t] = 1
    BY <1>3
  <1>7. \A st : Revenues(st) = Tally(st, "sold", prices) /\ Revenues(st)' = Tally(st, "sold", prices)'
    BY <1>4 DEF Revenues, Tally
  <1>8. \A st : Backs(st) = Tally(st, "refunded", backs) /\ Backs(st)' = Tally(st, "refunded", backs)'
    BY <1>5 DEF Backs, Tally
  <1>9. \A st, j : Counts(st, j) = Tally(st, j, ones) /\ Counts(st, j)' = Tally(st, j, ones)'
    BY <1>6 DEF Counts, Tally
  <1>10. {"sold", "refunded", "voided"} \subseteq Kinds
    BY BooksFacts
  <1>11. \A st : \A j \in Kinds :
           /\ Whole(Tally(st, j, prices)) \in Int
           /\ j = k /\ st = sales[s].store =>
                 Whole(Tally(st, j, prices))' = Whole(Tally(st, j, prices)) + prices[s]
           /\ j # k \/ st # sales[s].store => Whole(Tally(st, j, prices))' = Whole(Tally(st, j, prices))
    BY <1>4, TallyGrows
  <1>12. \A st : \A j \in Kinds :
           /\ Whole(Tally(st, j, backs)) \in Int
           /\ j = k /\ st = sales[s].store =>
                 Whole(Tally(st, j, backs))' = Whole(Tally(st, j, backs)) + backs[s]
           /\ j # k \/ st # sales[s].store => Whole(Tally(st, j, backs))' = Whole(Tally(st, j, backs))
    BY <1>5, TallyGrows
  <1>13. \A st : \A j \in Kinds :
           /\ Whole(Tally(st, j, ones)) \in Int
           /\ j = k /\ st = sales[s].store =>
                 Whole(Tally(st, j, ones))' = Whole(Tally(st, j, ones)) + ones[s]
           /\ j # k \/ st # sales[s].store => Whole(Tally(st, j, ones))' = Whole(Tally(st, j, ones))
    BY <1>6, TallyGrows
  <1>14. \A st : /\ Whole(Revenues(st)) \in Int /\ Whole(Backs(st)) \in Int
                 /\ Whole(Counts(st, "sold")) \in Int /\ Whole(Counts(st, "voided")) \in Int
    BY <1>7, <1>8, <1>9, <1>10, <1>11, <1>12, <1>13
  <1>15. ASSUME NEW st \in Branches, st = sales[s].store PROVE Grows(st, k, s)
    <2>1. Whole(Revenues(st))' = Whole(Revenues(st)) + (IF k = "sold" THEN ForSale[s].price ELSE 0)
      BY <1>4, <1>7, <1>10, <1>11, <1>14, <1>15
    <2>2. Whole(Backs(st))' = Whole(Backs(st)) + (IF k = "refunded" THEN sales[s].back ELSE 0)
      BY <1>5, <1>8, <1>10, <1>12, <1>14, <1>15
    <2>3. Whole(Counts(st, "sold"))' = Whole(Counts(st, "sold")) + (IF k = "sold" THEN 1 ELSE 0)
      BY <1>6, <1>9, <1>10, <1>13, <1>14, <1>15
    <2>4. Whole(Counts(st, "voided"))' = Whole(Counts(st, "voided")) + (IF k = "voided" THEN 1 ELSE 0)
      BY <1>6, <1>9, <1>10, <1>13, <1>14, <1>15
    <2>. QED
      BY <2>1, <2>2, <2>3, <2>4 DEF Grows
  <1>16. ASSUME NEW st \in Branches \ {sales[s].store} PROVE UNCHANGED SumsOf(st)
    BY <1>7, <1>8, <1>9, <1>10, <1>11, <1>12, <1>13 DEF SumsOf
  <1>. QED
    BY <1>14, <1>15, <1>16

\* What one event does to its row.
RowTakes(row, new, s, k) ==
    /\ new \in MetricsRows /\ RowKept(new)
    /\ new.gross = row.gross + (IF k = "sold" THEN ForSale[s].price ELSE 0)
    /\ new.refunded = row.refunded + (IF k = "refunded" THEN sales[s].back ELSE 0)
    /\ k = "sold" => new.ok = row.ok + 1
    /\ k = "voided" => new.ok \in {row.ok - 1, row.ok}
    /\ k \in {"failed", "refunded"} => new.ok = row.ok /\ new.avg = row.avg

LEMMA RowsTake ==
    ASSUME SalesKept, NEW s \in SalesMade, NEW k \in Kinds, NEW row \in MetricsRows, RowKept(row)
    PROVE  RowTakes(row, Books!Upserted(row, s, k), s, k)
  <1>1. ForSale[s].price \in Nat /\ sales[s].back \in Nat
    BY BooksFacts DEF SalesKept, SalesTyped, SaleRows
  <1>r. /\ row.exists \in BOOLEAN /\ row.gross \in Int /\ row.net \in Int /\ row.refunded \in Int
        /\ row.ok \in Int /\ row.failed \in Int /\ row.avg \in Int
        /\ row.net = row.gross - row.refunded /\ DOMAIN row = {"exists", "gross", "net", "refunded", "ok", "failed", "avg"}
    BY DEF MetricsRows, RowKept
  <1>2. CASE k = "sold"
    <2>1. PICK new : new = Books!recordPayment(row, ForSale[s].price)
      OBVIOUS
    <2>2. new = Books!Upserted(row, s, k)
      BY <1>2, <2>1 DEF Books!Upserted
    <2>a. PICK a \in Int : a = IF row.exists THEN row.avg ELSE ForSale[s].price
      BY <1>1, <1>r
    <2>b. new = [exists |-> TRUE, gross |-> row.gross + ForSale[s].price, net |-> row.net + ForSale[s].price,
                  refunded |-> row.refunded, ok |-> row.ok + 1, failed |-> row.failed, avg |-> a]
      BY <2>1, <2>a DEF Books!recordPayment, MetricsRows
    <2>3. /\ new \in MetricsRows /\ new.exists
          /\ new.gross = row.gross + ForSale[s].price /\ new.net = row.net + ForSale[s].price
          /\ new.refunded = row.refunded /\ new.ok = row.ok + 1
      BY <1>1, <1>r, <2>a, <2>b DEF MetricsRows
    <2>4. RowTakes(row, new, s, k)
      BY <1>1, <1>r, <1>2, <2>3 DEF RowTakes, RowKept
    <2>. QED
      BY <2>2, <2>4
  <1>3. CASE k = "failed"
    <2>1. PICK new : new = Books!recordFailedPayment(row)
      OBVIOUS
    <2>2. new = Books!Upserted(row, s, k)
      BY <1>3, <2>1 DEF Books!Upserted
    <2>b. new = [exists |-> TRUE, gross |-> row.gross, net |-> row.net,
                  refunded |-> row.refunded, ok |-> row.ok, failed |-> row.failed + 1, avg |-> row.avg]
      BY <2>1 DEF Books!recordFailedPayment, MetricsRows
    <2>3. /\ new \in MetricsRows /\ new.exists /\ new.gross = row.gross /\ new.net = row.net
          /\ new.refunded = row.refunded /\ new.ok = row.ok /\ new.avg = row.avg
      BY <1>1, <1>r, <2>b DEF MetricsRows
    <2>4. RowTakes(row, new, s, k)
      BY <1>1, <1>r, <1>3, <2>3 DEF RowTakes, RowKept
    <2>. QED
      BY <2>2, <2>4
  <1>4. CASE k = "voided"
    <2>1. PICK new : new = Books!recordVoid(row, ForSale[s].price)
      OBVIOUS
    <2>2. new = Books!Upserted(row, s, k)
      BY <1>4, <2>1 DEF Books!Upserted
    <2>a. PICK n \in Int : n = IF row.exists THEN row.ok - 1 ELSE row.ok
      BY <1>1, <1>r
    <2>b. new = [exists |-> TRUE, gross |-> row.gross, net |-> row.net,
                  refunded |-> row.refunded, ok |-> n, failed |-> row.failed, avg |-> row.avg]
      BY <2>1, <2>a DEF Books!recordVoid, MetricsRows
    <2>3. /\ new \in MetricsRows /\ new.exists /\ new.gross = row.gross /\ new.net = row.net
          /\ new.refunded = row.refunded /\ new.ok \in {row.ok - 1, row.ok}
      BY <1>1, <1>r, <2>a, <2>b DEF MetricsRows
    <2>4. RowTakes(row, new, s, k)
      BY <1>1, <1>r, <1>4, <2>3 DEF RowTakes, RowKept
    <2>. QED
      BY <2>2, <2>4
  <1>5. CASE k = "refunded"
    <2>1. PICK new : new = Books!recordRefund(row, sales[s].back)
      OBVIOUS
    <2>2. new = Books!Upserted(row, s, k)
      BY <1>5, <2>1 DEF Books!Upserted
    <2>b. new = [exists |-> TRUE, gross |-> row.gross, net |-> row.net - sales[s].back,
                  refunded |-> row.refunded + sales[s].back, ok |-> row.ok, failed |-> row.failed,
                  avg |-> row.avg]
      BY <2>1 DEF Books!recordRefund, MetricsRows
    <2>3. /\ new \in MetricsRows /\ new.exists /\ new.gross = row.gross /\ new.net = row.net - sales[s].back
          /\ new.refunded = row.refunded + sales[s].back /\ new.ok = row.ok /\ new.avg = row.avg
      BY <1>1, <1>r, <2>b DEF MetricsRows
    <2>4. RowTakes(row, new, s, k)
      BY <1>1, <1>r, <1>5, <2>3 DEF RowTakes, RowKept
    <2>. QED
      BY <2>2, <2>4
  <1>. QED
    BY <1>2, <1>3, <1>4, <1>5, BooksFacts

LEMMA RecordKeeps ==
    ASSUME MetricsInductive, NEW s \in SalesMade, NEW k \in Kinds, Books!Record(s, k)
    PROVE  MetricsInductive'
  <1>1. PICK st \in Branches, d \in Days : st = sales[s].store /\ d = now
    BY EventsOfPlaced DEF MetricsInductive, SalesKept, SalesTyped, Books!Record
  <1>2. PICK row \in MetricsRows : row = metrics[st][d]
    BY DEF MetricsInductive
  <1>3. PICK new : new = Books!Upserted(row, s, k)
    OBVIOUS
  <1>4. RowTakes(row, new, s, k)
    BY <1>2, <1>3, RowsTake DEF MetricsInductive
  <1>5. PICK c \in CallRows : c = [call[s][k] EXCEPT
            !.at = IF k \in {"sold", "voided"} THEN "recorded" ELSE "done", !.day = d]
    <2>1. call[s][k] \in CallRows
      BY DEF MetricsInductive, SalesKept, SalesTyped
    <2>2. CASE k \in {"sold", "voided"}
      BY <2>1, <2>2 DEF CallRows
    <2>3. CASE k \notin {"sold", "voided"}
      BY <2>1, <2>3 DEF CallRows
    <2>. QED
      BY <2>2, <2>3
  <1>6. c.at = (IF k \in {"sold", "voided"} THEN "recorded" ELSE "done") /\ c.day = d
    BY <1>5 DEF MetricsInductive, SalesKept, SalesTyped, CallRows
  <1>7. Records(s, k, c)
    <2>1. call' = [call EXCEPT ![s] = [call[s] EXCEPT ![k] = c]]
      BY <1>1, <1>5 DEF Books!Record, Books!Averaged, MetricsInductive, SalesKept, SalesTyped
    <2>. QED
      BY <1>6, <2>1 DEF Books!Record, Records, Handled
  <1>8. metrics' = [metrics EXCEPT ![st] = [metrics[st] EXCEPT ![d] = new]]
    BY <1>1, <1>2, <1>3 DEF Books!Record
  <1>9. /\ SalesKept' /\ call'[s][k] = c
        /\ \A t \in SalesMade, j \in Kinds : t # s \/ j # k => call'[t][j] = call[t][j]
    BY <1>7, HandlerMoves DEF Records, MetricsInductive
  <1>10. /\ metrics' \in [Branches -> [Days -> MetricsRows]] /\ metrics'[st][d] = new
         /\ \A x \in Branches, y \in Days : x # st \/ y # d => metrics'[x][y] = metrics[x][y]
         /\ \A f \in {"gross", "refunded", "ok"} :
               /\ Period(Column(st, f)) \in Int
               /\ Period(Column(st, f))' = Period(Column(st, f)) - metrics[st][d][f] + new[f]
               /\ \A x \in Branches \ {st} : Period(Column(x, f))' = Period(Column(x, f))
    BY <1>4, <1>8, RowChange DEF MetricsInductive, RowTakes
  <1>11. ASSUME NEW x \in Branches PROVE Totals(x)'
    <2>1. Totals(x)
      BY DEF MetricsInductive
    <2>2. CASE x = st
      <3>1. Grows(st, k, s)
        BY <1>1, <1>7, SumsGrow DEF MetricsInductive
      <3>2. /\ Whole(Revenues(st)) \in Int /\ Whole(Backs(st)) \in Int
            /\ Whole(Counts(st, "sold")) \in Int /\ Whole(Counts(st, "voided")) \in Int
        BY <1>1, <1>7, SumsGrow DEF MetricsInductive
      <3>3. /\ Period(Column(st, "gross"))' = Period(Column(st, "gross")) - row.gross + new.gross
            /\ Period(Column(st, "refunded"))' = Period(Column(st, "refunded")) - row.refunded + new.refunded
            /\ Period(Column(st, "ok"))' = Period(Column(st, "ok")) - row.ok + new.ok
            /\ Period(Column(st, "gross")) \in Int /\ Period(Column(st, "refunded")) \in Int
            /\ Period(Column(st, "ok")) \in Int
        BY <1>2, <1>10
      <3>4. row.gross \in Int /\ row.refunded \in Int /\ row.ok \in Int
        BY DEF MetricsRows
      <3>5. k \in {"sold", "failed", "voided", "refunded"}
        BY BooksFacts
      <3>6. ForSale[s].price \in Int /\ sales[s].back \in Int
        BY BooksFacts DEF MetricsInductive, SalesKept, SalesTyped, SaleRows
      <3>. QED
        BY <1>4, <2>1, <2>2, <3>1, <3>2, <3>3, <3>4, <3>5, <3>6 DEF Totals, Grows, RowTakes
    <2>3. CASE x # st
      <3>1. UNCHANGED SumsOf(x)
        BY <1>1, <1>7, <2>3, SumsGrow DEF MetricsInductive
      <3>2. /\ Period(Column(x, "gross"))' = Period(Column(x, "gross"))
            /\ Period(Column(x, "refunded"))' = Period(Column(x, "refunded"))
            /\ Period(Column(x, "ok"))' = Period(Column(x, "ok"))
        BY <1>10, <2>3
      <3>. QED
        BY <2>1, <3>1, <3>2 DEF Totals, SumsOf
    <2>. QED
      BY <2>2, <2>3
  <1>12. sales' = sales /\ blurred \subseteq blurred' /\ call[s][k].at = "due"
    BY DEF Books!Record
  <1>13. k \in {"sold", "voided"} \/ k \in {"failed", "refunded"}
    BY BooksFacts
  <1>14. ASSUME NEW x \in Branches, NEW y \in Days PROVE RowKept(metrics[x][y])' /\ AverageKept(x, y)'
    <2>1. RowKept(metrics[x][y]) /\ AverageKept(x, y)
      BY DEF MetricsInductive
    <2>2. \A t \in SalesMade, j \in Kinds : Touches(t, j, x, y) => Touches(t, j, x, y)'
      BY <1>9, <1>12 DEF Touches
    <2>3. CASE x = st /\ y = d
      <3>1. RowKept(metrics[x][y])'
        BY <1>4, <1>10, <2>3 DEF RowTakes, RowKept
      <3>2. CASE k \in {"sold", "voided"}
        <4>1. Touches(s, k, x, y)'
          BY <1>1, <1>6, <1>9, <1>12, <2>3, <3>2 DEF Touches
        <4>. QED
          BY <3>1, <4>1 DEF AverageKept
      <3>3. CASE k \in {"failed", "refunded"}
        <4>1. new.gross = row.gross /\ new.ok = row.ok /\ new.avg = row.avg
          BY <1>4, <3>3 DEF RowTakes, MetricsRows
        <4>. QED
          BY <1>2, <1>10, <1>12, <2>1, <2>2, <2>3, <3>1, <4>1 DEF AverageKept
      <3>. QED
        BY <1>13, <3>2, <3>3
    <2>4. CASE x # st \/ y # d
      <3>1. metrics'[x][y] = metrics[x][y]
        BY <1>10, <2>4
      <3>. QED
        BY <1>12, <2>1, <2>2, <3>1 DEF AverageKept, RowKept
    <2>. QED
      BY <2>3, <2>4
  <1>15. ASSUME NEW t \in SalesMade, NEW j \in Kinds PROVE AverageTaken(t, j)'
    <2>1. SUFFICES ASSUME call'[t][j].at = "averaging" PROVE AverageTaken(t, j)'
      BY DEF AverageTaken
    <2>2. call'[t][j] = call[t][j] /\ AverageTaken(t, j)
      BY <1>6, <1>9, <2>1 DEF MetricsInductive
    <2>3. PICK x \in Branches, y \in Days : x = sales[t].store /\ y = call[t][j].day
      BY <2>1, <2>2, EventsOfPlaced DEF MetricsInductive, SalesKept, SalesTyped, CallRows
    <2>4. CASE x = st /\ y = d
      <3>1. CASE k \in {"sold", "voided"}
        <4>1. Books!Averaging(st, d)
          BY <2>1, <2>2, <2>3, <2>4 DEF Books!Averaging, Kinds
        <4>2. <<st, d>> \in blurred'
          BY <1>1, <3>1, <4>1 DEF Books!Record, Books!Averaged
        <4>. QED
          BY <1>12, <2>2, <2>3, <2>4, <4>2 DEF AverageTaken
      <3>2. CASE k \in {"failed", "refunded"}
        <4>1. new.gross = row.gross /\ new.ok = row.ok
          BY <1>4, <3>2 DEF RowTakes, MetricsRows
        <4>. QED
          BY <1>2, <1>10, <1>12, <2>1, <2>2, <2>3, <2>4, <4>1 DEF AverageTaken
      <3>. QED
        BY <1>13, <3>1, <3>2
    <2>5. CASE x # st \/ y # d
      <3>1. metrics'[x][y] = metrics[x][y]
        BY <1>10, <2>5
      <3>. QED
        BY <1>12, <2>1, <2>2, <2>3, <3>1 DEF AverageTaken
    <2>. QED
      BY <2>4, <2>5
  <1>. QED
    BY <1>9, <1>10, <1>11, <1>14, <1>15 DEF MetricsInductive

LEMMA RecordFailsKeeps ==
    ASSUME MetricsInductive, NEW s \in SalesMade, NEW k \in Kinds, Books!RecordFails(s, k)
    PROVE  MetricsInductive'
  <1>1. PICK c \in CallRows : c = [call[s][k] EXCEPT !.at = "lost"] /\ c.at = "lost"
    <2>1. call[s][k] \in CallRows
      BY DEF MetricsInductive, SalesKept, SalesTyped
    <2>2. PICK c : c = [call[s][k] EXCEPT !.at = "lost"]
      OBVIOUS
    <2>. QED
      BY <2>1, <2>2 DEF CallRows
  <1>2. call' = [call EXCEPT ![s] = [call[s] EXCEPT ![k] = c]]
    BY <1>1 DEF Books!RecordFails, MetricsInductive, SalesKept, SalesTyped
  <1>3. /\ call[s][k].at = "due" /\ sales' = sales /\ now' = now
        /\ UNCHANGED <<metrics, blurred>>
    BY DEF Books!RecordFails
  <1>4. Handled(s, k, c)
    BY <1>1, <1>2, <1>3 DEF Handled
  <1>5. /\ SalesKept' /\ call'[s][k] = c
        /\ \A t \in SalesMade, j \in Kinds : t # s \/ j # k => call'[t][j] = call[t][j]
    BY <1>4, HandlerMoves DEF MetricsInductive
  <1>6. ASSUME NEW t \in SalesMade, NEW j \in Kinds
        PROVE  /\ \A x : Recorded(t, j, x)' <=> Recorded(t, j, x)
               /\ \A x, y : Touches(t, j, x, y)' <=> Touches(t, j, x, y)
               /\ AverageTaken(t, j)'
    <2>1. AverageTaken(t, j)
      BY DEF MetricsInductive
    <2>. QED
      BY <1>1, <1>3, <1>5, <2>1 DEF Recorded, Touches, AverageTaken
  <1>7. ASSUME NEW x \in Branches PROVE Totals(x)'
    <2>1. Totals(x)
      BY DEF MetricsInductive
    <2>2. Revenues(x)' = Revenues(x) /\ Backs(x)' = Backs(x)
      BY <1>3, <1>6, BooksFacts DEF Revenues, Backs
    <2>3. \A j \in Kinds : Counts(x, j)' = Counts(x, j)
      BY <1>6 DEF Counts
    <2>4. Counts(x, "sold")' = Counts(x, "sold") /\ Counts(x, "voided")' = Counts(x, "voided")
      BY <2>3, BooksFacts
    <2>5. \A f : Column(x, f)' = Column(x, f)
      BY <1>3 DEF Column
    <2>. QED
      BY <2>1, <2>2, <2>4, <2>5 DEF Totals, Whole, Period
  <1>8. ASSUME NEW x \in Branches, NEW y \in Days PROVE RowKept(metrics[x][y])' /\ AverageKept(x, y)'
    <2>1. RowKept(metrics[x][y]) /\ AverageKept(x, y)
      BY DEF MetricsInductive
    <2>. QED
      BY <1>3, <1>6, <2>1 DEF AverageKept, RowKept
  <1>. QED
    BY <1>3, <1>5, <1>6, <1>7, <1>8 DEF MetricsInductive

\* A handler that goes on to the average has counted its event already.
LEMMA CountedAlready ==
    ASSUME MetricsInductive, NEW s \in SalesMade, NEW k \in Kinds, NEW c, Handled(s, k, c),
           call[s][k].at \notin {"due", "lost"}, c.at \notin {"due", "lost"},
           NEW x \in Branches, \A f \in {"gross", "refunded", "ok"} : Period(Column(x, f))' = Period(Column(x, f))
    PROVE  Totals(x)'
  <1>1. /\ call'[s][k] = c /\ sales' = sales
        /\ \A t \in SalesMade, j \in Kinds : t # s \/ j # k => call'[t][j] = call[t][j]
    <2>1. sales' = sales
      BY DEF Handled
    <2>. QED
      BY <2>1, HandlerMoves DEF MetricsInductive
  <1>2. \A t \in SalesMade, j \in Kinds : Recorded(t, j, x)' <=> Recorded(t, j, x)
    BY <1>1 DEF Recorded, Handled
  <1>3. Revenues(x)' = Revenues(x) /\ Backs(x)' = Backs(x)
    BY <1>1, <1>2, BooksFacts DEF Revenues, Backs
  <1>4. \A j \in Kinds : Counts(x, j)' = Counts(x, j)
    BY <1>2 DEF Counts
  <1>5. Counts(x, "sold")' = Counts(x, "sold") /\ Counts(x, "voided")' = Counts(x, "voided")
    BY <1>4, BooksFacts
  <1>6. Totals(x)
    BY DEF MetricsInductive
  <1>. QED
    BY <1>3, <1>5, <1>6 DEF Totals, Whole

LEMMA AverageReadKeeps ==
    ASSUME MetricsInductive, NEW s \in SalesMade, NEW k \in Kinds, Books!AverageRead(s, k)
    PROVE  MetricsInductive'
  <1>1. PICK st \in Branches, d \in Days : st = sales[s].store /\ d = call[s][k].day
    BY EventsOfPlaced DEF MetricsInductive, SalesKept, SalesTyped, CallRows, Books!AverageRead
  <1>2. PICK row \in MetricsRows : row = metrics[st][d]
    BY DEF MetricsInductive
  <1>3. call[s][k] \in CallRows /\ row.gross \in Int /\ row.ok \in Int
    BY DEF MetricsInductive, SalesKept, SalesTyped, MetricsRows
  <1>4. PICK c \in CallRows :
            /\ call' = [call EXCEPT ![s] = [call[s] EXCEPT ![k] = c]]
            /\ \/ row.ok > 0 /\ c.at = "averaging" /\ c.avg = Books!Round(row.gross, row.ok) /\ c.day = d
               \/ row.ok <= 0 /\ c.at = "done"
    <2>1. CASE row.ok > 0
      <3>1. PICK n \in Int : n = Books!Round(row.gross, row.ok)
        BY <1>3, <2>1 DEF Books!Round
      <3>2. PICK c : c = [call[s][k] EXCEPT !.at = "averaging", !.avg = n]
        OBVIOUS
      <3>3. c \in CallRows /\ c.at = "averaging" /\ c.avg = n /\ c.day = d
        BY <1>1, <1>3, <3>2 DEF CallRows
      <3>4. call' = [call EXCEPT ![s] = [call[s] EXCEPT ![k] = c]]
        BY <1>1, <1>2, <2>1, <3>1, <3>2 DEF Books!AverageRead, MetricsInductive, SalesKept, SalesTyped
      <3>. QED
        BY <2>1, <3>1, <3>3, <3>4
    <2>2. CASE ~(row.ok > 0)
      <3>1. PICK c : c = [call[s][k] EXCEPT !.at = "done"]
        OBVIOUS
      <3>2. c \in CallRows /\ c.at = "done"
        BY <1>3, <3>1 DEF CallRows
      <3>3. call' = [call EXCEPT ![s] = [call[s] EXCEPT ![k] = c]]
        BY <1>1, <1>2, <2>2, <3>1 DEF Books!AverageRead, MetricsInductive, SalesKept, SalesTyped
      <3>4. row.ok <= 0
        BY <1>3, <2>2
      <3>. QED
        BY <3>2, <3>3, <3>4
    <2>. QED
      BY <2>1, <2>2
  <1>5. /\ call[s][k].at = "recorded" /\ sales' = sales /\ now' = now
        /\ UNCHANGED <<metrics, blurred>>
    BY DEF Books!AverageRead
  <1>6. Handled(s, k, c)
    BY <1>4, <1>5 DEF Handled
  <1>7. /\ SalesKept' /\ call'[s][k] = c
        /\ \A t \in SalesMade, j \in Kinds : t # s \/ j # k => call'[t][j] = call[t][j]
    BY <1>6, HandlerMoves DEF MetricsInductive
  <1>8. ASSUME NEW x \in Branches PROVE Totals(x)'
    <2>1. \A f \in {"gross", "refunded", "ok"} : Period(Column(x, f))' = Period(Column(x, f))
      BY <1>5 DEF Period, Column
    <2>. QED
      BY <1>4, <1>5, <1>6, <2>1, CountedAlready
  <1>9. ASSUME NEW x \in Branches, NEW y \in Days PROVE RowKept(metrics[x][y])' /\ AverageKept(x, y)'
    <2>1. RowKept(metrics[x][y]) /\ AverageKept(x, y)
      BY DEF MetricsInductive
    <2>2. \A t \in SalesMade, j \in Kinds : t # s \/ j # k => (Touches(t, j, x, y)' <=> Touches(t, j, x, y))
      BY <1>5, <1>7 DEF Touches
    <2>3. Touches(s, k, x, y) => Touches(s, k, x, y)' \/ metrics[x][y].ok <= 0
      BY <1>1, <1>2, <1>4, <1>5, <1>7 DEF Touches
    <2>. QED
      BY <1>5, <2>1, <2>2, <2>3 DEF AverageKept, RowKept
  <1>10. ASSUME NEW t \in SalesMade, NEW j \in Kinds PROVE AverageTaken(t, j)'
    <2>1. CASE t = s /\ j = k
      BY <1>1, <1>2, <1>4, <1>5, <1>7, <2>1 DEF AverageTaken
    <2>2. CASE t # s \/ j # k
      <3>1. AverageTaken(t, j) /\ call'[t][j] = call[t][j]
        BY <1>7, <2>2 DEF MetricsInductive
      <3>. QED
        BY <1>5, <3>1 DEF AverageTaken
    <2>. QED
      BY <2>1, <2>2
  <1>. QED
    BY <1>5, <1>7, <1>8, <1>9, <1>10 DEF MetricsInductive

LEMMA AverageWriteKeeps ==
    ASSUME MetricsInductive, NEW s \in SalesMade, NEW k \in Kinds, Books!AverageWrite(s, k)
    PROVE  MetricsInductive'
  <1>1. PICK st \in Branches, d \in Days : st = sales[s].store /\ d = call[s][k].day
    BY EventsOfPlaced DEF MetricsInductive, SalesKept, SalesTyped, CallRows, Books!AverageWrite
  <1>2. PICK row \in MetricsRows : row = metrics[st][d]
    BY DEF MetricsInductive
  <1>3. PICK n \in Int : n = call[s][k].avg
    BY DEF MetricsInductive, SalesKept, SalesTyped, CallRows
  <1>4. PICK c \in CallRows : c = [Books!NoCall EXCEPT !.at = "done"] /\ c.at = "done"
    <2>1. PICK c : c = [at |-> "done", day |-> 0, avg |-> 0]
      OBVIOUS
    <2>2. c \in CallRows
      BY <2>1, BooksFacts DEF CallRows
    <2>3. c = [Books!NoCall EXCEPT !.at = "done"]
      BY <2>1 DEF Books!NoCall
    <2>. QED
      BY <2>1, <2>2, <2>3
  <1>5. PICK new : new = [row EXCEPT !.avg = n]
    OBVIOUS
  <1>6. /\ new \in MetricsRows /\ new.gross = row.gross /\ new.refunded = row.refunded
        /\ new.ok = row.ok /\ new.exists = row.exists /\ new.net = row.net /\ new.avg = n
    BY <1>5 DEF MetricsRows
  <1>7. /\ call[s][k].at = "averaging" /\ sales' = sales /\ now' = now /\ blurred' = blurred
        /\ call' = [call EXCEPT ![s] = [call[s] EXCEPT ![k] = c]]
    BY <1>4 DEF Books!AverageWrite
  <1>8. metrics' = [metrics EXCEPT ![st] = [metrics[st] EXCEPT ![d] = new]]
    BY <1>1, <1>2, <1>3, <1>5 DEF Books!AverageWrite
  <1>9. Handled(s, k, c)
    BY <1>4, <1>7 DEF Handled
  <1>10. /\ SalesKept' /\ call'[s][k] = c
         /\ \A t \in SalesMade, j \in Kinds : t # s \/ j # k => call'[t][j] = call[t][j]
    BY <1>9, HandlerMoves DEF MetricsInductive
  <1>11. /\ metrics' \in [Branches -> [Days -> MetricsRows]] /\ metrics'[st][d] = new
         /\ \A x \in Branches, y \in Days : x # st \/ y # d => metrics'[x][y] = metrics[x][y]
         /\ \A f \in {"gross", "refunded", "ok"} :
               /\ Period(Column(st, f)) \in Int
               /\ Period(Column(st, f))' = Period(Column(st, f)) - metrics[st][d][f] + new[f]
               /\ \A x \in Branches \ {st} : Period(Column(x, f))' = Period(Column(x, f))
    BY <1>6, <1>8, RowChange DEF MetricsInductive
  <1>12. ASSUME NEW x \in Branches PROVE Totals(x)'
    <2>1. \A f \in {"gross", "refunded", "ok"} : metrics[st][d][f] = new[f] /\ new[f] \in Int
      BY <1>2, <1>6 DEF MetricsRows
    <2>2. ASSUME NEW f \in {"gross", "refunded", "ok"} PROVE Period(Column(x, f))' = Period(Column(x, f))
      BY <1>11, <2>1
    <2>. QED
      BY <1>4, <1>7, <1>9, <2>2, CountedAlready
  <1>13. ASSUME NEW x \in Branches, NEW y \in Days PROVE RowKept(metrics[x][y])' /\ AverageKept(x, y)'
    <2>1. RowKept(metrics[x][y]) /\ AverageKept(x, y)
      BY DEF MetricsInductive
    <2>2. CASE x = st /\ y = d
      <3>1. AverageTaken(s, k)
        BY DEF MetricsInductive
      <3>2. <<st, d>> \in blurred \/ n = Books!Round(row.gross, row.ok)
        BY <1>1, <1>2, <1>3, <1>7, <3>1 DEF AverageTaken
      <3>3. AverageKept(x, y)'
        BY <1>6, <1>7, <1>11, <2>2, <3>2 DEF AverageKept
      <3>4. RowKept(metrics[x][y])'
        BY <1>2, <1>6, <1>11, <2>1, <2>2 DEF RowKept
      <3>. QED
        BY <3>3, <3>4
    <2>3. CASE x # st \/ y # d
      <3>1. metrics'[x][y] = metrics[x][y]
        BY <1>11, <2>3
      <3>2. \A t \in SalesMade, j \in Kinds : Touches(t, j, x, y) => Touches(t, j, x, y)'
        BY <1>1, <1>7, <1>10, <2>3 DEF Touches
      <3>. QED
        BY <1>7, <2>1, <3>1, <3>2 DEF AverageKept, RowKept
    <2>. QED
      BY <2>2, <2>3
  <1>14. ASSUME NEW t \in SalesMade, NEW j \in Kinds PROVE AverageTaken(t, j)'
    <2>1. SUFFICES ASSUME call'[t][j].at = "averaging" PROVE AverageTaken(t, j)'
      BY DEF AverageTaken
    <2>2. call'[t][j] = call[t][j] /\ AverageTaken(t, j)
      BY <1>4, <1>10, <2>1 DEF MetricsInductive
    <2>3. PICK x \in Branches, y \in Days : x = sales[t].store /\ y = call[t][j].day
      BY <2>1, <2>2, EventsOfPlaced DEF MetricsInductive, SalesKept, SalesTyped, CallRows
    <2>4. metrics'[x][y].gross = metrics[x][y].gross /\ metrics'[x][y].ok = metrics[x][y].ok
      BY <1>2, <1>6, <1>11
    <2>. QED
      BY <1>7, <2>1, <2>2, <2>3, <2>4 DEF AverageTaken
  <1>. QED
    BY <1>10, <1>11, <1>12, <1>13, <1>14 DEF MetricsInductive

-----------------------------------------------------------------------------
(* What the invariant says of the reports.                                 *)

\* What the rows of a store add up to is what the column does.
LEMMA RowsOfColumn ==
    ASSUME MetricsInductive, NEW st \in Branches, NEW f \in {"gross", "net", "refunded", "ok"},
           NEW R, R = Books!Rows({st}, Days), NEW g, g = [r \in R |-> metrics[r[1]][r[2]][f]]
    PROVE  SumFunctionOnSet(g, R) = Period(Column(st, f))
  <1>1. PICK c : c = Column(st, f)
    OBVIOUS
  <1>2. PICK image : image = [r \in R |-> r[2]]
    OBVIOUS
  <1>3. R = {r \in {st} \X Days : metrics[r[1]][r[2]].exists}
    BY DEF Books!Rows
  <1>4. IsFiniteSet(Days) /\ IsFiniteSet(R)
    <2>1. IsFiniteSet({st} \X Days)
      BY BooksFacts, FS_Singleton, FS_Product
    <2>. QED
      BY <1>3, <2>1, BooksFacts, FS_Subset
  <1>5. \A d \in Days : c[d] = metrics[st][d][f] /\ c[d] \in Int
    BY <1>1 DEF Column, MetricsInductive, MetricsRows
  <1>6. ASSUME NEW r \in R PROVE image[r] \in Days /\ r = <<st, image[r]>> /\ g[r] = c[image[r]]
    <2>1. r[1] = st /\ r[2] \in Days /\ r = <<r[1], r[2]>>
      <3>1. R \subseteq {st} \X Days
        BY <1>3
      <3>2. r \in {st} \X Days
        BY <3>1
      <3>. QED
        BY <3>2
    <2>2. g[r] = metrics[r[1]][r[2]][f]
      OBVIOUS
    <2>. QED
      BY <1>2, <1>5, <2>1, <2>2
  <1>8. \A d \in Days : c[d] # 0 => \E r \in R : image[r] = d
    <2>. SUFFICES ASSUME NEW d \in Days, c[d] # 0 PROVE \E r \in R : image[r] = d
      OBVIOUS
    <2>1. RowKept(metrics[st][d]) /\ metrics[st][d] \in MetricsRows
      BY DEF MetricsInductive
    <2>2. metrics[st][d].exists
      BY <1>5, <2>1 DEF RowKept, MetricsRows
    <2>3. <<st, d>> \in R
      BY <1>3, <2>2
    <2>. QED
      BY <1>2, <2>3
  <1>9. \A x, y \in R : image[x] = image[y] => x = y
    BY <1>6
  <1>10. Matched(g, R, c, Days, image)
    BY <1>4, <1>5, <1>6, <1>8, <1>9 DEF Matched
  <1>12. SumFunctionOnSet(g, R) = SumFunctionOnSet(c, Days)
    BY <1>10, SumImage
  <1>. QED
    BY <1>1, <1>12 DEF Period

\* What the counted events of a store add up to, over all sales.
LEMMA SalesOfTally ==
    ASSUME MetricsInductive, NEW st \in Branches, NEW k \in Kinds, NEW w,
           \A s \in SalesMade : w[s] \in Int,
           NEW S, S = Books!Counted({st}, k), NEW g, g = [s \in S |-> w[s]]
    PROVE  SumFunctionOnSet(g, S) = Whole(Tally(st, k, w))
  <1>1. PICK f : f = Tally(st, k, w)
    OBVIOUS
  <1>2. PICK image : image = [s \in S |-> s]
    OBVIOUS
  <1>3. S \subseteq SalesMade /\ \A s \in SalesMade : s \in S <=> Recorded(s, k, st)
    BY EventsOfPlaced DEF MetricsInductive, Books!Counted, Books!Placed, Recorded
  <1>4. IsFiniteSet(SalesMade) /\ IsFiniteSet(S)
    BY <1>3, BooksFacts, FS_Subset
  <1>5. \A s \in SalesMade : f[s] = IF Recorded(s, k, st) THEN w[s] ELSE 0
    BY <1>1 DEF Tally
  <1>6. \A s \in SalesMade : f[s] \in Int /\ (s \in S => f[s] = w[s]) /\ (s \notin S => f[s] = 0)
    BY <1>3, <1>5
  <1>8. \A s \in S : image[s] \in SalesMade /\ g[s] = f[image[s]]
    BY <1>2, <1>3, <1>6
  <1>9. \A s \in SalesMade : f[s] # 0 => \E t \in S : image[t] = s
    BY <1>2, <1>6
  <1>10. Matched(g, S, f, SalesMade, image)
    BY <1>2, <1>4, <1>6, <1>8, <1>9 DEF Matched
  <1>11. SumFunctionOnSet(g, S) = SumFunctionOnSet(f, SalesMade)
    BY <1>10, SumImage
  <1>. QED
    BY <1>1, <1>11 DEF Whole

LEMMA EventsCounted ==
    ASSUME MetricsInductive, NEW st \in Branches, NEW k \in Kinds
    PROVE  Books!Cardinality(Books!Counted({st}, k)) = Whole(Counts(st, k))
  <1>1. PICK S : S = Books!Counted({st}, k)
    OBVIOUS
  <1>2. PICK ones : ones = [s \in SalesMade |-> 1]
    OBVIOUS
  <1>3. PICK g : g = [s \in S |-> ones[s]]
    OBVIOUS
  <1>4. S \subseteq SalesMade /\ IsFiniteSet(S)
    BY <1>1, BooksFacts, FS_Subset DEF Books!Counted, Books!Placed
  <1>5. \A s \in S : g[s] = 1
    BY <1>2, <1>3, <1>4
  <1>6. SumFunctionOnSet(g, S) = Cardinality(S)
    BY <1>4, <1>5, SumOnes
  <1>7. SumFunctionOnSet(g, S) = Whole(Tally(st, k, ones))
    BY <1>1, <1>2, <1>3, SalesOfTally
  <1>8. Tally(st, k, ones) = Counts(st, k)
    BY <1>2 DEF Tally, Counts
  <1>. QED
    BY <1>1, <1>6, <1>7, <1>8, FiniteInBooks

LEMMA MetricsReport ==
    ASSUME MetricsInductive
    PROVE  Books!MetricsFollowPayments
  <1>. SUFFICES ASSUME NEW st \in Branches
                PROVE  LET R == Books!Rows({st}, Days)
                           bought == Books!Counted({st}, "sold")
                           counted == Books!Sum(R, LAMBDA r : metrics[r[1]][r[2]].ok)
                       IN  /\ Books!Gross(R) = Books!Revenue(bought)
                           /\ Books!Refunded(R) = Books!Sum(Books!Counted({st}, "refunded"), LAMBDA s : sales[s].back)
                           /\ Books!Net(R) = Books!Gross(R) - Books!Refunded(R)
                           /\ counted \in Books!Cardinality(bought) - Books!Cardinality(Books!Counted({st}, "voided"))
                                          .. Books!Cardinality(bought)
                           /\ \A d \in Days :
                                  LET row == metrics[st][d]
                                  IN  \/ row.ok <= 0 \/ <<st, d>> \in blurred
                                      \/ row.avg = Books!Round(row.gross, row.ok)
                                      \/ \E s \in SalesMade, k \in Kinds :
                                             /\ sales[s].store = st /\ call[s][k].day = d
                                             /\ call[s][k].at \in {"recorded", "averaging"}
    BY DEF Books!MetricsFollowPayments, Days, Kinds
  <1>1. PICK R : R = Books!Rows({st}, Days)
    OBVIOUS
  <1>2. PICK bought : bought = Books!Counted({st}, "sold")
    OBVIOUS
  <1>3. PICK refunded : refunded = Books!Counted({st}, "refunded")
    OBVIOUS
  <1>4. {"sold", "refunded", "voided"} \subseteq Kinds
    BY BooksFacts
  <1>5. Books!Gross(R) = Period(Column(st, "gross"))
    <2>1. PICK g : g = [r \in R |-> metrics[r[1]][r[2]].gross]
      OBVIOUS
    <2>2. Books!Gross(R) = SumFunctionOnSet(g, R)
      BY <2>1, SumsOfBooks DEF Books!Gross, Books!Sum
    <2>. QED
      BY <1>1, <2>1, <2>2, RowsOfColumn
  <1>6. Books!Net(R) = Period(Column(st, "net"))
    <2>1. PICK g : g = [r \in R |-> metrics[r[1]][r[2]].net]
      OBVIOUS
    <2>2. Books!Net(R) = SumFunctionOnSet(g, R)
      BY <2>1, SumsOfBooks DEF Books!Net, Books!Sum
    <2>. QED
      BY <1>1, <2>1, <2>2, RowsOfColumn
  <1>7. Books!Refunded(R) = Period(Column(st, "refunded"))
    <2>1. PICK g : g = [r \in R |-> metrics[r[1]][r[2]].refunded]
      OBVIOUS
    <2>2. Books!Refunded(R) = SumFunctionOnSet(g, R)
      BY <2>1, SumsOfBooks DEF Books!Refunded, Books!Sum
    <2>. QED
      BY <1>1, <2>1, <2>2, RowsOfColumn
  <1>8. Books!Sum(R, LAMBDA r : metrics[r[1]][r[2]].ok) = Period(Column(st, "ok"))
    <2>1. PICK g : g = [r \in R |-> metrics[r[1]][r[2]].ok]
      OBVIOUS
    <2>2. Books!Sum(R, LAMBDA r : metrics[r[1]][r[2]].ok) = SumFunctionOnSet(g, R)
      BY <2>1, SumsOfBooks DEF Books!Sum
    <2>. QED
      BY <1>1, <2>1, <2>2, RowsOfColumn
  <1>9. Books!Revenue(bought) = Whole(Revenues(st))
    <2>1. PICK prices : prices = [s \in SalesMade |-> ForSale[s].price]
      OBVIOUS
    <2>2. PICK g : g = [s \in bought |-> prices[s]]
      OBVIOUS
    <2>3. bought \subseteq SalesMade
      BY <1>2 DEF Books!Counted, Books!Placed
    <2>4. Books!Revenue(bought) = SumFunctionOnSet(g, bought)
      <3>1. g = [s \in bought |-> ForSale[s].price]
        BY <2>1, <2>2, <2>3
      <3>. QED
        BY <3>1, SumsOfBooks DEF Books!Revenue
    <2>5. \A s \in SalesMade : prices[s] \in Int
      BY <2>1, BooksFacts
    <2>6. SumFunctionOnSet(g, bought) = Whole(Tally(st, "sold", prices))
      BY <1>2, <1>4, <2>2, <2>5, SalesOfTally
    <2>7. Tally(st, "sold", prices) = Revenues(st)
      BY <2>1 DEF Tally, Revenues
    <2>. QED
      BY <2>4, <2>6, <2>7
  <1>10. Books!Sum(refunded, LAMBDA s : sales[s].back) = Whole(Backs(st))
    <2>1. PICK backs : backs = [s \in SalesMade |-> sales[s].back]
      OBVIOUS
    <2>2. PICK g : g = [s \in refunded |-> backs[s]]
      OBVIOUS
    <2>3. refunded \subseteq SalesMade
      BY <1>3 DEF Books!Counted, Books!Placed
    <2>4. Books!Sum(refunded, LAMBDA s : sales[s].back) = SumFunctionOnSet(g, refunded)
      <3>1. g = [s \in refunded |-> sales[s].back]
        BY <2>1, <2>2, <2>3
      <3>. QED
        BY <3>1, SumsOfBooks DEF Books!Sum
    <2>5. \A s \in SalesMade : backs[s] \in Int
      BY <2>1 DEF MetricsInductive, SalesKept, SalesTyped, SaleRows
    <2>6. SumFunctionOnSet(g, refunded) = Whole(Tally(st, "refunded", backs))
      BY <1>3, <1>4, <2>2, <2>5, SalesOfTally
    <2>7. Tally(st, "refunded", backs) = Backs(st)
      BY <2>1 DEF Tally, Backs
    <2>. QED
      BY <2>4, <2>6, <2>7
  <1>11. Period(Column(st, "net")) = Period(Column(st, "gross")) - Period(Column(st, "refunded"))
    <2>1. PICK net : net = Column(st, "net")
      OBVIOUS
    <2>2. PICK gross : gross = Column(st, "gross")
      OBVIOUS
    <2>3. PICK back : back = Column(st, "refunded")
      OBVIOUS
    <2>4. PICK one \in Int, minus \in Int : one = 1 /\ minus = -1
      OBVIOUS
    <2>5. ASSUME NEW d \in Days PROVE gross[d] \in Int /\ back[d] \in Int /\ net[d] = gross[d] - back[d]
      <3>1. RowKept(metrics[st][d]) /\ metrics[st][d] \in MetricsRows
        BY DEF MetricsInductive
      <3>. QED
        BY <2>1, <2>2, <2>3, <3>1 DEF RowKept, MetricsRows, Column
    <2>6. \A d \in Days : net[d] = one * gross[d] + minus * back[d]
      BY <2>4, <2>5
    <2>7. \A d \in Days : gross[d] \in Int
      BY <2>5
    <2>8. \A d \in Days : back[d] \in Int
      BY <2>5
    <2>9. SumFunctionOnSet(net, Days) = one * SumFunctionOnSet(gross, Days) + minus * SumFunctionOnSet(back, Days)
      <3>1. IsFiniteSet(Days)
        BY BooksFacts
      <3>. HIDE <2>5
      <3>. QED
        BY <2>6, <2>7, <2>8, <3>1, SumCombine
    <2>10. SumFunctionOnSet(gross, Days) \in Int
      BY <2>7, BooksFacts, SumInt
    <2>11. SumFunctionOnSet(back, Days) \in Int
      BY <2>8, BooksFacts, SumInt
    <2>. QED
      BY <2>1, <2>2, <2>3, <2>4, <2>9, <2>10, <2>11 DEF Period
  <1>12. /\ Books!Cardinality(bought) = Whole(Counts(st, "sold")) /\ Books!Cardinality(bought) \in Nat
         /\ Books!Cardinality(Books!Counted({st}, "voided")) = Whole(Counts(st, "voided"))
         /\ Books!Cardinality(Books!Counted({st}, "voided")) \in Nat
    <2>1. ASSUME NEW k \in Kinds PROVE Books!Cardinality(Books!Counted({st}, k)) \in Nat
      <3>1. IsFiniteSet(Books!Counted({st}, k))
        BY BooksFacts, FS_Subset DEF Books!Counted, Books!Placed
      <3>. QED
        BY <3>1, FiniteInBooks, FS_CardinalityType
    <2>. QED
      BY <1>2, <1>4, <2>1, EventsCounted
  <1>13. Totals(st) /\ \A d \in Days : AverageKept(st, d)
    BY DEF MetricsInductive
  <1>14. \A d \in Days :
            LET row == metrics[st][d]
            IN  \/ row.ok <= 0 \/ <<st, d>> \in blurred
                \/ row.avg = Books!Round(row.gross, row.ok)
                \/ \E s \in SalesMade, k \in Kinds :
                       /\ sales[s].store = st /\ call[s][k].day = d
                       /\ call[s][k].at \in {"recorded", "averaging"}
    BY <1>13 DEF AverageKept, Touches
  <1>. QED
    BY <1>1, <1>2, <1>3, <1>5, <1>6, <1>7, <1>8, <1>9, <1>10, <1>11, <1>12, <1>13, <1>14 DEF Totals

LEMMA EventsStart == ASSUME Books!ProductInit PROVE MetricsInductive
  <1>1. /\ now = 0 /\ sales = [s \in SalesMade |-> Books!NoSale]
        /\ call = [s \in SalesMade |-> [k \in Kinds |-> Books!NoCall]]
        /\ metrics = [st \in Branches |-> [d \in Days |-> Books!NoMetrics]] /\ blurred = {}
    BY DEF Books!ProductInit, Books!Init, Kinds, Days
  <1>2. 0 \in Days
    BY BooksFacts
  <1>3. Books!NoSale \in SaleRows /\ Books!NoCall \in CallRows /\ Books!NoMetrics \in MetricsRows
    BY <1>2 DEF Books!NoSale, Books!NoCall, Books!NoMetrics, SaleRows, CallRows, MetricsRows
  <1>4. SalesTyped /\ metrics \in [Branches -> [Days -> MetricsRows]]
    BY <1>1, <1>2, <1>3 DEF SalesTyped
  <1>5. \A s \in SalesMade, k \in Kinds : call[s][k].at = "idle"
    BY <1>1 DEF Books!NoCall
  <1>6. ASSUME NEW s \in SalesMade PROVE Fits(s, sales[s], Emitted(s))
    <2>1. Emitted(s) = {}
      BY <1>5 DEF Emitted
    <2>2. sales[s] = Books!NoSale
      BY <1>1
    <2>. QED
      BY <2>1, <2>2, BooksFacts DEF Fits, Books!NoSale
  <1>7. ASSUME NEW st \in Branches PROVE Totals(st)
    <2>1. \A s \in SalesMade, k \in Kinds : ~Recorded(s, k, st)
      BY <1>5 DEF Recorded
    <2>2. ASSUME NEW f \in {"gross", "refunded", "ok"} PROVE Period(Column(st, f)) = 0
      <3>1. PICK c : c = Column(st, f)
        OBVIOUS
      <3>2. \A d \in Days : c[d] = 0
        BY <1>1, <3>1 DEF Column, Books!NoMetrics
      <3>. QED
        BY <3>1, <3>2, BooksFacts, SumZeros DEF Period
    <2>3. ASSUME NEW f, \A s \in SalesMade : f[s] = 0 PROVE Whole(f) = 0
      BY <2>3, BooksFacts, SumZeros DEF Whole
    <2>4. Whole(Revenues(st)) = 0
      BY <2>1, <2>3, BooksFacts DEF Revenues
    <2>5. Whole(Backs(st)) = 0
      BY <2>1, <2>3, BooksFacts DEF Backs
    <2>6. Whole(Counts(st, "sold")) = 0 /\ Whole(Counts(st, "voided")) = 0
      BY <2>1, <2>3, BooksFacts DEF Counts
    <2>. QED
      BY <2>2, <2>4, <2>5, <2>6 DEF Totals
  <1>8. ASSUME NEW st \in Branches, NEW d \in Days PROVE RowKept(metrics[st][d]) /\ AverageKept(st, d)
    BY <1>1 DEF RowKept, AverageKept, Books!NoMetrics
  <1>9. ASSUME NEW s \in SalesMade, NEW k \in Kinds PROVE AverageTaken(s, k)
    BY <1>5 DEF AverageTaken
  <1>. QED
    BY <1>4, <1>6, <1>7, <1>8, <1>9 DEF MetricsInductive, SalesKept

LEMMA EventsStep ==
    ASSUME MetricsInductive,
           Books!PaymentNext \/ Books!HandlerNext \/ Books!Tick \/ UNCHANGED Books!figuresVars
    PROVE  MetricsInductive'
  <1>1. CASE Books!PaymentNext
    BY <1>1, PaymentMoves, SalesMove DEF MetricsInductive
  <1>2. CASE Books!HandlerNext
    <2>1. PICK s \in SalesMade, k \in Kinds :
              \/ Books!Record(s, k) \/ Books!RecordFails(s, k)
              \/ Books!AverageRead(s, k) \/ Books!AverageWrite(s, k)
      BY <1>2 DEF Books!HandlerNext, Kinds
    <2>. QED
      BY <2>1, RecordKeeps, RecordFailsKeeps, AverageReadKeeps, AverageWriteKeeps
  <1>3. CASE Books!Tick
    <2>1. now' \in Days /\ UNCHANGED <<sales, call, metrics, blurred>>
      BY <1>3, BooksFacts DEF Books!Tick, MetricsInductive, SalesKept, SalesTyped
    <2>. QED
      BY <2>1, TickMoves, SalesMove DEF MetricsInductive
  <1>4. CASE UNCHANGED Books!figuresVars
    <2>1. now' \in Days /\ UNCHANGED <<sales, call, metrics, blurred>>
      BY <1>4 DEF Books!figuresVars, MetricsInductive, SalesKept, SalesTyped
    <2>. QED
      BY <2>1, TickMoves, SalesMove DEF MetricsInductive
  <1>. QED
    BY <1>1, <1>2, <1>3, <1>4

EventsFollowed == focus = "events" => MetricsInductive

LEMMA EventsAreKept == Spec => []EventsFollowed
  <1>1. Init => EventsFollowed
    BY EventsStart DEF Init, EventsFollowed
  <1>2. EventsFollowed /\ [Next]_everyVar => EventsFollowed'
    <2>. SUFFICES ASSUME EventsFollowed, [Next]_everyVar PROVE EventsFollowed'
      OBVIOUS
    <2>1. focus' = focus
      BY DEF Next, everyVar
    <2>2. focus = "events" =>
              Books!PaymentNext \/ Books!HandlerNext \/ Books!Tick \/ UNCHANGED Books!figuresVars
      BY DEF Next, everyVar, booksVars, Books!figuresVars
    <2>. QED
      BY <2>1, <2>2, EventsStep DEF EventsFollowed
  <1>. QED
    BY <1>1, <1>2, PTL DEF Spec

-----------------------------------------------------------------------------
(* The items, under the handlers of the stock.                             *)

Categories == Books!Categories
StageRows == [at : {"idle", "store", "no store", "done", "missed", "lost"}, day : Days]
CountRows == [exists : BOOLEAN, sold : Int]
StockKinds == {"sold", "voided", "refunded"}
Broken == {"lost", "missed"}

\* A handler runs for an event that was emitted, and takes back a whole refund only.
StageFits(s) ==
    /\ \A k \in Kinds : stage[s][k].at # "idle" => call[s][k].at # "idle"
    /\ stage[s]["refunded"].at # "idle" => sales[s].back >= ForSale[s].price

Unbroken(st) ==
    \A s \in SalesMade, k \in StockKinds : sales[s].store = st => stage[s][k].at \notin Broken

\* What the handlers of a sale have put in the rows of a day, and taken out.
Worth(g, s, d, ats) == IF g.day = d /\ g.at \in ats THEN ForSale[s].quantity ELSE 0
NetWorth(s, d, ats) ==
    Worth(stage[s]["sold"], s, d, ats) - Worth(stage[s]["voided"], s, d, ats)
                                       - Worth(stage[s]["refunded"], s, d, ats)
Shares(st, C, d, ats) ==
    [s \in SalesMade |-> IF sales[s].store = st /\ ForSale[s].category \in C THEN NetWorth(s, d, ats) ELSE 0]
ItemShares(st, d) == Shares(st, Categories, d, {"store", "done"})
CategoryShares(st, c, d) == Shares(st, {c}, d, {"done"})

ItemsTyped ==
    /\ metrics \in [Branches -> [Days -> MetricsRows]]
    /\ stage \in [SalesMade -> [Kinds -> StageRows]]
    /\ items \in [Branches -> [Days -> CountRows]]
    /\ category \in [Branches -> [Categories -> [Days -> CountRows]]]

ItemsInductive ==
    /\ SalesKept /\ ItemsTyped
    /\ \A s \in SalesMade : StageFits(s)
    /\ \A st \in Branches, d \in Days : Unbroken(st) =>
           /\ items[st][d].sold = Whole(ItemShares(st, d))
           /\ \A c \in Categories : category[st][c][d].sold = Whole(CategoryShares(st, c, d))

LEMMA NothingStaged ==
    ASSUME ItemsInductive, NEW s \in SalesMade, sales[s].order = "none", NEW k \in Kinds
    PROVE  stage[s][k].at = "idle"
  BY EventsOfPlaced DEF ItemsInductive, StageFits

LEMMA ItemsSalesMove ==
    ASSUME ItemsInductive, SalesKept', SalesStep, UNCHANGED <<stage, items, category, metrics>>
    PROVE  ItemsInductive'
  <1>1. ASSUME NEW s \in SalesMade
        PROVE  \/ sales'[s].store = sales[s].store
               \/ \A k \in Kinds : stage[s][k].at = "idle"
    BY NothingStaged DEF SalesStep
  <1>2. \A s \in SalesMade : StageFits(s)'
    <2>. SUFFICES ASSUME NEW s \in SalesMade PROVE StageFits(s)'
      OBVIOUS
    <2>1. StageFits(s) /\ {"sold", "voided", "refunded"} \subseteq Kinds
      BY BooksFacts DEF ItemsInductive
    <2>2. \A k \in Kinds : call[s][k].at # "idle" => call'[s][k].at # "idle"
      BY DEF SalesStep
    <2>3. call[s]["refunded"].at # "idle" => sales'[s].back = sales[s].back
      BY DEF SalesStep
    <2>. QED
      BY <2>1, <2>2, <2>3 DEF StageFits
  <1>3. ASSUME NEW st, NEW C, NEW d, NEW ats, "idle" \notin ats
        PROVE  Shares(st, C, d, ats)' = Shares(st, C, d, ats)
    <2>1. ASSUME NEW s \in SalesMade
          PROVE  (IF sales'[s].store = st /\ ForSale[s].category \in C THEN NetWorth(s, d, ats) ELSE 0)
                 = (IF sales[s].store = st /\ ForSale[s].category \in C THEN NetWorth(s, d, ats) ELSE 0)
      <3>1. CASE sales'[s].store = sales[s].store
        BY <3>1
      <3>2. CASE \A k \in Kinds : stage[s][k].at = "idle"
        <4>1. NetWorth(s, d, ats) = 0
          BY <1>3, <3>2, BooksFacts DEF NetWorth, Worth
        <4>. QED
          BY <4>1
      <3>. QED
        BY <1>1, <3>1, <3>2
    <2>2. \A s \in SalesMade : NetWorth(s, d, ats)' = NetWorth(s, d, ats)
      BY DEF NetWorth
    <2>. QED
      BY <2>1, <2>2 DEF Shares
  <1>4. ASSUME NEW st \in Branches, Unbroken(st)' PROVE Unbroken(st)
    BY <1>1, <1>4, BooksFacts DEF Unbroken, Broken, StockKinds
  <1>5. ASSUME NEW st \in Branches, NEW d \in Days
        PROVE  /\ Whole(ItemShares(st, d))' = Whole(ItemShares(st, d))
               /\ \A c \in Categories : Whole(CategoryShares(st, c, d))' = Whole(CategoryShares(st, c, d))
    BY <1>3 DEF Whole, ItemShares, CategoryShares
  <1>6. ASSUME NEW st \in Branches, NEW d \in Days, Unbroken(st)'
        PROVE  /\ items'[st][d].sold = Whole(ItemShares(st, d))'
               /\ \A c \in Categories : category'[st][c][d].sold = Whole(CategoryShares(st, c, d))'
    BY <1>4, <1>5, <1>6 DEF ItemsInductive
  <1>7. ItemsTyped'
    BY DEF ItemsInductive, ItemsTyped
  <1>. QED
    BY <1>2, <1>6, <1>7 DEF ItemsInductive

\* The handler of one event goes from one stage to another.
Staged(s, k, g) ==
    /\ UNCHANGED <<now, sales, call>>
    /\ stage' = [stage EXCEPT ![s] = [stage[s] EXCEPT ![k] = g]]
    /\ g \in StageRows

LEMMA StageMoves ==
    ASSUME ItemsTyped, NEW s \in SalesMade, NEW k \in Kinds, NEW g, Staged(s, k, g)
    PROVE  /\ stage' \in [SalesMade -> [Kinds -> StageRows]] /\ stage'[s][k] = g
           /\ \A t \in SalesMade, j \in Kinds : t # s \/ j # k => stage'[t][j] = stage[t][j]
  <1>1. PICK its : its = [stage[s] EXCEPT ![k] = g]
    OBVIOUS
  <1>2. its \in [Kinds -> StageRows] /\ its[k] = g /\ \A j \in Kinds \ {k} : its[j] = stage[s][j]
    BY <1>1 DEF ItemsTyped, Staged
  <1>3. /\ stage' \in [SalesMade -> [Kinds -> StageRows]] /\ stage'[s] = its
        /\ \A t \in SalesMade \ {s} : stage'[t] = stage[t]
    BY <1>1, <1>2 DEF ItemsTyped, Staged
  <1>. QED
    BY <1>2, <1>3

\* What the step adds to the items that are counted.
Gain(s, k, g, d, ats) ==
    IF k = "sold" THEN Worth(g, s, d, ats) - Worth(stage[s][k], s, d, ats)
                  ELSE Worth(stage[s][k], s, d, ats) - Worth(g, s, d, ats)

LEMMA SharesMove ==
    ASSUME ItemsTyped, NEW s \in SalesMade, NEW k \in StockKinds, NEW g, Staged(s, k, g),
           NEW st, NEW C, NEW d, NEW ats
    PROVE  /\ Whole(Shares(st, C, d, ats)) \in Int /\ Gain(s, k, g, d, ats) \in Int
           /\ Whole(Shares(st, C, d, ats))' = Whole(Shares(st, C, d, ats))
                  + (IF sales[s].store = st /\ ForSale[s].category \in C THEN Gain(s, k, g, d, ats) ELSE 0)
  <1>1. k \in Kinds /\ StockKinds \subseteq Kinds
    BY BooksFacts DEF StockKinds
  <1>2. /\ stage'[s][k] = g
        /\ \A t \in SalesMade, j \in Kinds : t # s \/ j # k => stage'[t][j] = stage[t][j]
    BY <1>1, StageMoves
  <1>3. PICK a : a = Shares(st, C, d, ats)
    OBVIOUS
  <1>4. PICK b : b = Shares(st, C, d, ats)'
    OBVIOUS
  <1>5. \A e, t : t \in SalesMade => Worth(e, t, d, ats) \in Int
    BY BooksFacts DEF Worth
  <1>6. \A t \in SalesMade : NetWorth(t, d, ats) \in Int /\ NetWorth(t, d, ats)' \in Int
    BY <1>5 DEF NetWorth
  <1>7. \A t \in SalesMade : a[t] = IF sales[t].store = st /\ ForSale[t].category \in C THEN NetWorth(t, d, ats) ELSE 0
    BY <1>3 DEF Shares
  <1>8. \A t \in SalesMade : b[t] = IF sales[t].store = st /\ ForSale[t].category \in C THEN NetWorth(t, d, ats)' ELSE 0
    BY <1>4 DEF Shares, Staged
  <1>9. \A t \in SalesMade : a[t] \in Int
    BY <1>6, <1>7
  <1>10. \A t \in SalesMade : b[t] \in Int
    BY <1>6, <1>8
  <1>11. \A t \in SalesMade : t # s => a[t] = b[t]
    <2>1. \A t \in SalesMade : t # s => NetWorth(t, d, ats)' = NetWorth(t, d, ats)
      BY <1>1, <1>2 DEF NetWorth, StockKinds
    <2>. QED
      BY <1>7, <1>8, <2>1
  <1>12. SumFunctionOnSet(b, SalesMade) = SumFunctionOnSet(a, SalesMade) - a[s] + b[s]
    BY <1>9, <1>10, <1>11, BooksFacts, SumChange
  <1>13. SumFunctionOnSet(a, SalesMade) \in Int
    BY <1>9, BooksFacts, SumInt
  <1>14. Gain(s, k, g, d, ats) \in Int
    BY <1>5 DEF Gain
  <1>15. NetWorth(s, d, ats)' = NetWorth(s, d, ats) + Gain(s, k, g, d, ats)
    <2>1. PICK x : x = stage[s]["sold"]
      OBVIOUS
    <2>2. PICK y : y = stage[s]["voided"]
      OBVIOUS
    <2>3. PICK z : z = stage[s]["refunded"]
      OBVIOUS
    <2>4. /\ stage'[s]["sold"] = (IF k = "sold" THEN g ELSE x)
          /\ stage'[s]["voided"] = (IF k = "voided" THEN g ELSE y)
          /\ stage'[s]["refunded"] = (IF k = "refunded" THEN g ELSE z)
      BY <1>1, <1>2, <2>1, <2>2, <2>3 DEF StockKinds
    <2>5. NetWorth(s, d, ats)' = Worth(stage'[s]["sold"], s, d, ats) - Worth(stage'[s]["voided"], s, d, ats)
                                     - Worth(stage'[s]["refunded"], s, d, ats)
      BY DEF NetWorth, Worth
    <2>6. NetWorth(s, d, ats) = Worth(x, s, d, ats) - Worth(y, s, d, ats) - Worth(z, s, d, ats)
      BY <2>1, <2>2, <2>3 DEF NetWorth
    <2>7. /\ Worth(g, s, d, ats) \in Int /\ Worth(x, s, d, ats) \in Int
          /\ Worth(y, s, d, ats) \in Int /\ Worth(z, s, d, ats) \in Int
      BY <1>5
    <2>8. CASE k = "sold"
      BY <2>1, <2>4, <2>5, <2>6, <2>7, <2>8 DEF Gain
    <2>9. CASE k = "voided"
      BY <2>2, <2>4, <2>5, <2>6, <2>7, <2>9 DEF Gain
    <2>10. CASE k = "refunded"
      BY <2>3, <2>4, <2>5, <2>6, <2>7, <2>10 DEF Gain
    <2>. QED
      BY <2>8, <2>9, <2>10 DEF StockKinds
  <1>16. b[s] = a[s] + (IF sales[s].store = st /\ ForSale[s].category \in C THEN Gain(s, k, g, d, ats) ELSE 0)
    BY <1>6, <1>7, <1>8, <1>14, <1>15
  <1>17. a[s] \in Int /\ b[s] \in Int
    BY <1>9, <1>10
  <1>. QED
    BY <1>3, <1>4, <1>12, <1>13, <1>14, <1>16, <1>17 DEF Whole

\* A handler goes on, and the rows of its store with it, unless it breaks off.
Follows(s, k, g) ==
    /\ Staged(s, k, g) /\ ItemsTyped'
    /\ stage[s][k].at \notin Broken /\ g.at # "idle" /\ call[s][k].at # "idle"
    /\ k = "refunded" => sales[s].back >= ForSale[s].price
    /\ \A st \in Branches, d \in Days : st # sales[s].store \/ g.at \notin Broken =>
           /\ items'[st][d].sold = items[st][d].sold
                  + (IF sales[s].store = st THEN Gain(s, k, g, d, {"store", "done"}) ELSE 0)
           /\ \A c \in Categories :
                  category'[st][c][d].sold = category[st][c][d].sold
                      + (IF sales[s].store = st /\ ForSale[s].category = c THEN Gain(s, k, g, d, {"done"}) ELSE 0)

LEMMA StageKeeps ==
    ASSUME ItemsInductive, NEW s \in SalesMade, NEW k \in StockKinds, NEW g, Follows(s, k, g)
    PROVE  ItemsInductive'
  <1>1. k \in Kinds /\ StockKinds \subseteq Kinds /\ "refunded" \in Kinds
    BY BooksFacts DEF StockKinds
  <1>2. Staged(s, k, g) /\ ItemsTyped
    BY DEF Follows, ItemsInductive
  <1>3. /\ stage'[s][k] = g
        /\ \A t \in SalesMade, j \in Kinds : t # s \/ j # k => stage'[t][j] = stage[t][j]
    BY <1>1, <1>2, StageMoves
  <1>4. SalesKept'
    <2>1. UNCHANGED <<sales, call>> /\ now' \in Days
      BY <1>2 DEF Staged, ItemsInductive, SalesKept, SalesTyped
    <2>. QED
      BY <2>1, TickMoves DEF ItemsInductive
  <1>5. ASSUME NEW t \in SalesMade PROVE StageFits(t)'
    <2>1. StageFits(t)
      BY DEF ItemsInductive
    <2>2. UNCHANGED <<sales, call>>
      BY <1>2 DEF Staged
    <2>3. \A j \in Kinds : stage'[t][j].at # "idle" => call'[t][j].at # "idle"
      BY <1>3, <2>1, <2>2 DEF StageFits, Follows
    <2>4. stage'[t]["refunded"].at # "idle" => sales'[t].back >= ForSale[t].price
      BY <1>1, <1>3, <2>1, <2>2 DEF StageFits, Follows
    <2>. QED
      BY <2>3, <2>4 DEF StageFits
  <1>6. ASSUME NEW st \in Branches, Unbroken(st)'
        PROVE  Unbroken(st) /\ (st # sales[s].store \/ g.at \notin Broken)
    <2>1. UNCHANGED sales
      BY <1>2 DEF Staged
    <2>. QED
      BY <1>1, <1>3, <1>6, <2>1 DEF Unbroken, Follows
  <1>7. ASSUME NEW st \in Branches, NEW d \in Days, Unbroken(st)'
        PROVE  /\ items'[st][d].sold = Whole(ItemShares(st, d))'
               /\ \A c \in Categories : category'[st][c][d].sold = Whole(CategoryShares(st, c, d))'
    <2>1. /\ items[st][d].sold = Whole(ItemShares(st, d))
          /\ \A c \in Categories : category[st][c][d].sold = Whole(CategoryShares(st, c, d))
      BY <1>6, <1>7 DEF ItemsInductive
    <2>2. /\ items'[st][d].sold = items[st][d].sold
                 + (IF sales[s].store = st THEN Gain(s, k, g, d, {"store", "done"}) ELSE 0)
          /\ \A c \in Categories :
                 category'[st][c][d].sold = category[st][c][d].sold
                     + (IF sales[s].store = st /\ ForSale[s].category = c THEN Gain(s, k, g, d, {"done"}) ELSE 0)
      BY <1>6, <1>7 DEF Follows
    <2>3. ForSale[s].category \in Categories
      BY DEF Categories, Books!Categories
    <2>4. Whole(ItemShares(st, d))' = Whole(ItemShares(st, d))
              + (IF sales[s].store = st THEN Gain(s, k, g, d, {"store", "done"}) ELSE 0)
      BY <1>2, <2>3, SharesMove DEF ItemShares
    <2>5. ASSUME NEW c \in Categories
          PROVE  Whole(CategoryShares(st, c, d))' = Whole(CategoryShares(st, c, d))
              + (IF sales[s].store = st /\ ForSale[s].category = c THEN Gain(s, k, g, d, {"done"}) ELSE 0)
      <3>1. Whole(Shares(st, {c}, d, {"done"}))' = Whole(Shares(st, {c}, d, {"done"}))
              + (IF sales[s].store = st /\ ForSale[s].category \in {c} THEN Gain(s, k, g, d, {"done"}) ELSE 0)
        BY <1>2, SharesMove
      <3>. QED
        BY <3>1 DEF CategoryShares
    <2>. QED
      BY <2>1, <2>2, <2>4, <2>5
  <1>8. ItemsTyped'
    BY DEF Follows
  <1>. QED
    BY <1>4, <1>5, <1>7, <1>8 DEF ItemsInductive

LEMMA CountRow == ASSUME NEW n \in Int PROVE [exists |-> TRUE, sold |-> n] \in CountRows
  BY DEF CountRows

LEMMA CountedRows ==
    ASSUME ItemsTyped, NEW st \in Branches, NEW d \in Days
    PROVE  /\ items[st][d] \in CountRows /\ items[st][d].sold \in Int
           /\ \A c \in Categories : category[st][c][d] \in CountRows /\ category[st][c][d].sold \in Int
  <1>1. items[st][d] \in CountRows
    BY DEF ItemsTyped
  <1>2. category[st] \in [Categories -> [Days -> CountRows]]
    BY DEF ItemsTyped
  <1>3. \A c \in Categories : category[st][c][d] \in CountRows
    BY <1>2
  <1>4. \A row \in CountRows : row.sold \in Int
    BY DEF CountRows
  <1>. QED
    BY <1>1, <1>3, <1>4

\* One row of the stores, or of their categories, changes.
CategoryBecomes(st, c, d, row) ==
    category' = [category EXCEPT ![st] = [category[st] EXCEPT ![c] = [category[st][c] EXCEPT ![d] = row]]]

LEMMA ItemsRow ==
    ASSUME ItemsTyped, NEW st \in Branches, NEW d \in Days, NEW row \in CountRows,
           items' = [items EXCEPT ![st] = [items[st] EXCEPT ![d] = row]]
    PROVE  /\ items' \in [Branches -> [Days -> CountRows]] /\ items'[st][d] = row
           /\ \A x \in Branches, y \in Days : x # st \/ y # d => items'[x][y] = items[x][y]
  <1>1. PICK its : its = [items[st] EXCEPT ![d] = row]
    OBVIOUS
  <1>2. its \in [Days -> CountRows] /\ its[d] = row /\ \A y \in Days \ {d} : its[y] = items[st][y]
    BY <1>1 DEF ItemsTyped
  <1>3. /\ items' \in [Branches -> [Days -> CountRows]] /\ items'[st] = its
        /\ \A x \in Branches \ {st} : items'[x] = items[x]
    BY <1>1, <1>2 DEF ItemsTyped
  <1>. QED
    BY <1>2, <1>3

LEMMA CategoryRow ==
    ASSUME ItemsTyped, NEW st \in Branches, NEW c \in Categories, NEW d \in Days, NEW row \in CountRows,
           CategoryBecomes(st, c, d, row)
    PROVE  /\ category' \in [Branches -> [Categories -> [Days -> CountRows]]] /\ category'[st][c][d] = row
           /\ \A x \in Branches, z \in Categories, y \in Days : x # st \/ z # c \/ y # d =>
                  category'[x][z][y] = category[x][z][y]
  <1>1. PICK days : days = [category[st][c] EXCEPT ![d] = row]
    OBVIOUS
  <1>2. days \in [Days -> CountRows] /\ days[d] = row /\ \A y \in Days \ {d} : days[y] = category[st][c][y]
    BY <1>1 DEF ItemsTyped
  <1>3. PICK its : its = [category[st] EXCEPT ![c] = days]
    OBVIOUS
  <1>4. /\ its \in [Categories -> [Days -> CountRows]] /\ its[c] = days
        /\ \A z \in Categories \ {c} : its[z] = category[st][z]
    BY <1>2, <1>3 DEF ItemsTyped
  <1>5. /\ category' \in [Branches -> [Categories -> [Days -> CountRows]]] /\ category'[st] = its
        /\ \A x \in Branches \ {st} : category'[x] = category[x]
    BY <1>1, <1>3, <1>4 DEF ItemsTyped, CategoryBecomes
  <1>. QED
    BY <1>2, <1>4, <1>5

LEMMA SaleOfStock ==
    ASSUME ItemsInductive, NEW s \in SalesMade, NEW k \in StockKinds, call[s][k].at # "idle"
    PROVE  /\ sales[s].store \in Branches /\ now \in Days /\ k \in Kinds
           /\ ForSale[s].category \in Categories /\ ForSale[s].quantity \in Nat
           /\ stage[s][k] \in StageRows
  <1>1. k \in Kinds
    BY BooksFacts DEF StockKinds
  <1>. QED
    BY <1>1, EventsOfPlaced, BooksFacts DEF ItemsInductive, ItemsTyped, SalesKept, SalesTyped, Categories,
       Books!Categories

LEMMA ItemsSoldKeeps ==
    ASSUME ItemsInductive, NEW s \in SalesMade, Books!ItemsSold(s)
    PROVE  ItemsInductive'
  <1>1. call[s]["sold"].at # "idle" /\ stage[s]["sold"].at = "idle" /\ "sold" \in StockKinds
    BY DEF Books!ItemsSold, Books!HandlerDue, StockKinds
  <1>2. PICK st \in Branches, d \in Days : st = sales[s].store /\ d = now
    BY <1>1, SaleOfStock
  <1>t. ItemsTyped /\ items[st][d] \in CountRows /\ items[st][d].sold \in Int /\ ForSale[s].quantity \in Nat
    BY CountedRows, BooksFacts DEF ItemsInductive
  <1>3. PICK row \in CountRows : row = [exists |-> TRUE, sold |-> items[st][d].sold + ForSale[s].quantity]
    <2>1. items[st][d].sold + ForSale[s].quantity \in Int
      BY <1>t
    <2>. QED
      BY <2>1, CountRow
  <1>4. items' = [items EXCEPT ![st] = [items[st] EXCEPT ![d] = row]]
    BY <1>2, <1>3 DEF Books!ItemsSold, ItemsInductive, ItemsTyped
  <1>5. PICK g \in StageRows : g = [at |-> "store", day |-> d]
    BY DEF StageRows
  <1>6. Staged(s, "sold", g)
    BY <1>2, <1>5 DEF Books!ItemsSold, Books!Reached, Staged
  <1>7. /\ items' \in [Branches -> [Days -> CountRows]] /\ items'[st][d] = row
        /\ \A x \in Branches, y \in Days : x # st \/ y # d => items'[x][y] = items[x][y]
    BY <1>t, <1>4, ItemsRow
  <1>8. ItemsTyped'
    <2>1. metrics' \in [Branches -> [Days -> MetricsRows]]
      <3>1. PICK new : new = [metrics[st][d] EXCEPT !.exists = TRUE]
        OBVIOUS
      <3>2. new \in MetricsRows
        <4>1. metrics[st][d] \in MetricsRows
          BY DEF ItemsInductive, ItemsTyped
        <4>. QED
          BY <3>1, <4>1 DEF MetricsRows
      <3>3. metrics' = [metrics EXCEPT ![st] = [metrics[st] EXCEPT ![d] = new]]
        BY <1>2, <3>1 DEF Books!ItemsSold, ItemsInductive, ItemsTyped
      <3>. QED
        BY <3>2, <3>3, RowChange DEF ItemsInductive, ItemsTyped
    <2>2. stage' \in [SalesMade -> [Kinds -> StageRows]]
      BY <1>1, <1>6, SaleOfStock, StageMoves DEF ItemsInductive
    <2>3. category' = category
      BY DEF Books!ItemsSold
    <2>. QED
      BY <1>7, <2>1, <2>2, <2>3 DEF ItemsTyped, ItemsInductive
  <1>9. \A x \in Branches, y \in Days :
           /\ items'[x][y].sold = items[x][y].sold
                  + (IF sales[s].store = x THEN Gain(s, "sold", g, y, {"store", "done"}) ELSE 0)
           /\ \A c \in Categories :
                  category'[x][c][y].sold = category[x][c][y].sold
                      + (IF sales[s].store = x /\ ForSale[s].category = c THEN Gain(s, "sold", g, y, {"done"}) ELSE 0)
    <2>1. \A y \in Days : /\ Gain(s, "sold", g, y, {"store", "done"}) = IF y = d THEN ForSale[s].quantity ELSE 0
                          /\ Gain(s, "sold", g, y, {"done"}) = 0
      BY <1>1, <1>5, BooksFacts DEF Gain, Worth
    <2>2. \A x \in Branches, y \in Days : items[x][y].sold \in Int /\ \A c \in Categories : category[x][c][y].sold \in Int
      BY DEF ItemsInductive, ItemsTyped, CountRows
    <2>3. category' = category
      BY DEF Books!ItemsSold
    <2>4. row.sold = items[st][d].sold + ForSale[s].quantity /\ ForSale[s].quantity \in Nat
      BY <1>3, BooksFacts
    <2>. QED
      BY <1>2, <1>7, <2>1, <2>2, <2>3, <2>4
  <1>10. Follows(s, "sold", g)
    BY <1>1, <1>5, <1>6, <1>8, <1>9 DEF Follows, Broken
  <1>. QED
    BY <1>1, <1>10, StageKeeps

LEMMA CategorySoldKeeps ==
    ASSUME ItemsInductive, NEW s \in SalesMade, Books!CategorySold(s)
    PROVE  ItemsInductive'
  <1>1. call[s]["sold"].at # "idle" /\ stage[s]["sold"].at = "store" /\ "sold" \in StockKinds
    BY BooksFacts DEF Books!CategorySold, StockKinds, ItemsInductive, StageFits
  <1>2. PICK st \in Branches, d \in Days, c \in Categories :
            st = sales[s].store /\ d = stage[s]["sold"].day /\ c = ForSale[s].category
    BY <1>1, SaleOfStock DEF StageRows
  <1>t. ItemsTyped /\ category[st][c][d] \in CountRows /\ category[st][c][d].sold \in Int /\ ForSale[s].quantity \in Nat
    BY CountedRows, BooksFacts DEF ItemsInductive
  <1>3. PICK row \in CountRows : row = [exists |-> TRUE, sold |-> category[st][c][d].sold + ForSale[s].quantity]
    <2>1. category[st][c][d].sold + ForSale[s].quantity \in Int
      BY <1>t
    <2>. QED
      BY <2>1, CountRow
  <1>4. CategoryBecomes(st, c, d, row)
    BY <1>2, <1>3 DEF Books!CategorySold, CategoryBecomes, ItemsInductive, ItemsTyped
  <1>5. PICK g \in StageRows : g = [at |-> "done", day |-> d]
    BY DEF StageRows
  <1>6. Staged(s, "sold", g)
    <2>1. g = [stage[s]["sold"] EXCEPT !.at = "done"]
      <3>1. stage[s]["sold"] \in StageRows
        BY <1>1, SaleOfStock
      <3>. QED
        <4>1. PICK old \in StageRows : old = stage[s]["sold"]
          BY <3>1
        <4>2. old = [at |-> "store", day |-> d]
          BY <1>1, <1>2, <4>1 DEF StageRows
        <4>3. g = [old EXCEPT !.at = "done"]
          BY <1>5, <4>2
        <4>. QED
          BY <4>1, <4>3
    <2>2. stage' = [stage EXCEPT ![s] = [stage[s] EXCEPT !["sold"] = g]]
      BY <1>1, <2>1, SaleOfStock DEF Books!CategorySold, Books!Passed, ItemsInductive, ItemsTyped
    <2>. QED
      BY <2>2 DEF Books!CategorySold, Books!figuresVars, Staged
  <1>7. /\ category' \in [Branches -> [Categories -> [Days -> CountRows]]] /\ category'[st][c][d] = row
        /\ \A x \in Branches, z \in Categories, y \in Days : x # st \/ z # c \/ y # d =>
               category'[x][z][y] = category[x][z][y]
    BY <1>t, <1>4, CategoryRow
  <1>8. ItemsTyped'
    <2>1. stage' \in [SalesMade -> [Kinds -> StageRows]]
      BY <1>1, <1>6, SaleOfStock, StageMoves DEF ItemsInductive
    <2>2. UNCHANGED <<items, metrics>>
      BY DEF Books!CategorySold, Books!figuresVars
    <2>. QED
      BY <1>7, <2>1, <2>2 DEF ItemsTyped, ItemsInductive
  <1>9. \A x \in Branches, y \in Days :
           /\ items'[x][y].sold = items[x][y].sold
                  + (IF sales[s].store = x THEN Gain(s, "sold", g, y, {"store", "done"}) ELSE 0)
           /\ \A z \in Categories :
                  category'[x][z][y].sold = category[x][z][y].sold
                      + (IF sales[s].store = x /\ ForSale[s].category = z THEN Gain(s, "sold", g, y, {"done"}) ELSE 0)
    <2>1. \A y \in Days : /\ Gain(s, "sold", g, y, {"done"}) = IF y = d THEN ForSale[s].quantity ELSE 0
                          /\ Gain(s, "sold", g, y, {"store", "done"}) = 0
      BY <1>1, <1>2, <1>5, BooksFacts DEF Gain, Worth
    <2>2. \A x \in Branches, y \in Days : items[x][y].sold \in Int /\ \A z \in Categories : category[x][z][y].sold \in Int
      BY DEF ItemsInductive, ItemsTyped, CountRows
    <2>3. items' = items
      BY DEF Books!CategorySold
    <2>4. row.sold = category[st][c][d].sold + ForSale[s].quantity /\ ForSale[s].quantity \in Nat
      BY <1>3, BooksFacts
    <2>5. \A x \in Branches, y \in Days : items'[x][y].sold = items[x][y].sold
              + (IF sales[s].store = x THEN Gain(s, "sold", g, y, {"store", "done"}) ELSE 0)
      BY <2>1, <2>2, <2>3
    <2>6. ASSUME NEW x \in Branches, NEW y \in Days, NEW z \in Categories
          PROVE  category'[x][z][y].sold = category[x][z][y].sold
                     + (IF sales[s].store = x /\ ForSale[s].category = z THEN Gain(s, "sold", g, y, {"done"}) ELSE 0)
      <3>1. CASE x = st /\ z = c /\ y = d
        BY <1>2, <1>7, <2>1, <2>4, <3>1
      <3>2. CASE x # st \/ z # c \/ y # d
        <4>1. category'[x][z][y] = category[x][z][y] /\ category[x][z][y].sold \in Int
          BY <1>7, <2>2, <3>2
        <4>. QED
          BY <1>2, <2>1, <3>2, <4>1
      <3>. QED
        BY <3>1, <3>2
    <2>. QED
      BY <2>5, <2>6
  <1>10. Follows(s, "sold", g)
    BY <1>1, <1>5, <1>6, <1>8, <1>9 DEF Follows, Broken
  <1>. QED
    BY <1>1, <1>10, StageKeeps

LEMMA ItemsReversedKeeps ==
    ASSUME ItemsInductive, NEW s \in SalesMade, NEW k \in Books!Reversals, Books!ItemsReversed(s, k)
    PROVE  ItemsInductive'
  <1>1. /\ call[s][k].at # "idle" /\ stage[s][k].at = "idle" /\ k \in StockKinds /\ k # "sold"
        /\ k = "refunded" => sales[s].back >= ForSale[s].price
    BY DEF Books!ItemsReversed, Books!HandlerDue, Books!Reversals, StockKinds
  <1>2. PICK st \in Branches, d \in Days : st = sales[s].store /\ d = now
    BY <1>1, SaleOfStock
  <1>3. PICK there \in BOOLEAN : there = metrics[st][d].exists
    BY DEF ItemsInductive, ItemsTyped, MetricsRows
  <1>t. ItemsTyped /\ items[st][d] \in CountRows /\ items[st][d].sold \in Int /\ ForSale[s].quantity \in Nat
    BY CountedRows, BooksFacts DEF ItemsInductive
  <1>4. PICK n \in Int : n = IF there THEN items[st][d].sold - ForSale[s].quantity ELSE items[st][d].sold
    BY <1>t
  <1>5. PICK old \in CountRows : old = [items[st][d] EXCEPT !.exists = there]
    BY <1>3, <1>t DEF CountRows
  <1>6. old.exists = there /\ old.sold = items[st][d].sold
    BY <1>5 DEF ItemsInductive, ItemsTyped, CountRows
  <1>7. PICK row : row = Books!Reversed(old, ForSale[s].quantity)
    OBVIOUS
  <1>8. row \in CountRows /\ row.sold = n
    <2>1. row = [old EXCEPT !.sold = n]
      BY <1>4, <1>6, <1>7 DEF Books!Reversed
    <2>. QED
      BY <2>1 DEF CountRows
  <1>9. items' = [items EXCEPT ![st] = [items[st] EXCEPT ![d] = row]]
    BY <1>2, <1>3, <1>5, <1>7 DEF Books!ItemsReversed, ItemsInductive, ItemsTyped
  <1>10. PICK g \in StageRows : g = [at |-> IF there THEN "store" ELSE "no store", day |-> d]
    BY <1>3 DEF StageRows
  <1>11. Staged(s, k, g)
    BY <1>2, <1>3, <1>10 DEF Books!ItemsReversed, Books!figuresVars, Books!Reached, Staged
  <1>12. /\ items' \in [Branches -> [Days -> CountRows]] /\ items'[st][d] = row
         /\ \A x \in Branches, y \in Days : x # st \/ y # d => items'[x][y] = items[x][y]
    BY <1>t, <1>8, <1>9, ItemsRow
  <1>13. ItemsTyped'
    <2>1. stage' \in [SalesMade -> [Kinds -> StageRows]]
      BY <1>1, <1>11, SaleOfStock, StageMoves DEF ItemsInductive
    <2>2. UNCHANGED <<category, metrics>>
      BY DEF Books!ItemsReversed, Books!figuresVars
    <2>. QED
      BY <1>12, <2>1, <2>2 DEF ItemsTyped, ItemsInductive
  <1>14. \A x \in Branches, y \in Days :
            /\ items'[x][y].sold = items[x][y].sold
                   + (IF sales[s].store = x THEN Gain(s, k, g, y, {"store", "done"}) ELSE 0)
            /\ \A c \in Categories :
                   category'[x][c][y].sold = category[x][c][y].sold
                       + (IF sales[s].store = x /\ ForSale[s].category = c THEN Gain(s, k, g, y, {"done"}) ELSE 0)
    <2>1. \A y \in Days : /\ Gain(s, k, g, y, {"store", "done"}) =
                                 IF y = d /\ there THEN 0 - ForSale[s].quantity ELSE 0
                          /\ Gain(s, k, g, y, {"done"}) = 0
      <3>1. /\ g.day = d /\ g.at = (IF there THEN "store" ELSE "no store")
            /\ stage[s][k].at = "idle" /\ k # "sold" /\ ForSale[s].quantity \in Nat
        BY <1>1, <1>10, BooksFacts
      <3>2. CASE there
        BY <3>1, <3>2 DEF Gain, Worth
      <3>3. CASE ~there
        <4>1. g.at = "no store"
          BY <3>1, <3>3
        <4>2. \A y \in Days : Worth(g, s, y, {"store", "done"}) = 0 /\ Worth(g, s, y, {"done"}) = 0
          BY <4>1 DEF Worth
        <4>3. \A y \in Days : /\ Worth(stage[s][k], s, y, {"store", "done"}) = 0
                              /\ Worth(stage[s][k], s, y, {"done"}) = 0
          BY <3>1 DEF Worth
        <4>4. \A y \in Days : /\ Gain(s, k, g, y, {"store", "done"}) = 0 - 0
                              /\ Gain(s, k, g, y, {"done"}) = 0 - 0
          BY <3>1, <4>2, <4>3, Zenon DEF Gain
        <4>5. 0 - 0 = 0
          OBVIOUS
        <4>6. \A y \in Days : (IF y = d /\ there THEN 0 - ForSale[s].quantity ELSE 0) = 0
          BY <3>3
        <4>. QED
          BY <4>4, <4>5, <4>6
      <3>. QED
        BY <3>2, <3>3
    <2>2. \A x \in Branches, y \in Days : items[x][y].sold \in Int /\ \A c \in Categories : category[x][c][y].sold \in Int
      BY DEF ItemsInductive, ItemsTyped, CountRows
    <2>3. category' = category
      BY DEF Books!ItemsReversed
    <2>4. ForSale[s].quantity \in Nat
      BY BooksFacts
    <2>. QED
      BY <1>2, <1>3, <1>4, <1>8, <1>12, <2>1, <2>2, <2>3, <2>4
  <1>15. Follows(s, k, g)
    BY <1>1, <1>3, <1>10, <1>11, <1>13, <1>14 DEF Follows, Broken
  <1>. QED
    BY <1>1, <1>15, StageKeeps

LEMMA CategoryReversedKeeps ==
    ASSUME ItemsInductive, NEW s \in SalesMade, NEW k \in Books!Reversals, Books!CategoryReversed(s, k)
    PROVE  ItemsInductive'
  <1>0. k \in Kinds /\ k \in StockKinds /\ k # "sold"
    BY BooksFacts DEF Books!Reversals, StockKinds
  <1>1. /\ call[s][k].at # "idle" /\ stage[s][k].at \in {"store", "no store"}
        /\ k = "refunded" => sales[s].back >= ForSale[s].price
    BY <1>0 DEF Books!CategoryReversed, ItemsInductive, StageFits
  <1>2. PICK st \in Branches, d \in Days, c \in Categories :
            st = sales[s].store /\ d = stage[s][k].day /\ c = ForSale[s].category
    BY <1>0, <1>1, SaleOfStock DEF StageRows
  <1>t. /\ ItemsTyped /\ category[st][c][d] \in CountRows /\ category[st][c][d].sold \in Int
        /\ ForSale[s].quantity \in Nat
    BY CountedRows, BooksFacts DEF ItemsInductive
  <1>3. PICK old \in CountRows : old = category[st][c][d]
    BY <1>t
  <1>4. PICK n \in Int : n = IF old.exists THEN old.sold - ForSale[s].quantity ELSE old.sold
    BY <1>3, <1>t
  <1>5. PICK row : row = Books!Reversed(old, ForSale[s].quantity)
    OBVIOUS
  <1>6. row \in CountRows /\ row.sold = n
    <2>1. row = [old EXCEPT !.sold = n]
      BY <1>4, <1>5 DEF Books!Reversed
    <2>. QED
      BY <2>1 DEF CountRows
  <1>7. CategoryBecomes(st, c, d, row)
    BY <1>2, <1>3, <1>5 DEF Books!CategoryReversed, CategoryBecomes, ItemsInductive, ItemsTyped
  <1>8. /\ category' \in [Branches -> [Categories -> [Days -> CountRows]]] /\ category'[st][c][d] = row
        /\ \A x \in Branches, z \in Categories, y \in Days : x # st \/ z # c \/ y # d =>
               category'[x][z][y] = category[x][z][y]
    BY <1>t, <1>6, <1>7, CategoryRow
  <1>9. PICK at \in {"done", "missed"} :
            at = IF stage[s][k].at = "store" /\ old.exists THEN "done" ELSE "missed"
    OBVIOUS
  <1>10. PICK g : g = [stage[s][k] EXCEPT !.at = at]
    OBVIOUS
  <1>11. g \in StageRows /\ g.at = at /\ g.day = d
    <2>1. stage[s][k] \in StageRows
      BY <1>0, <1>1, SaleOfStock
    <2>. QED
      BY <1>2, <1>10, <2>1 DEF StageRows
  <1>12. Staged(s, k, g)
    <2>1. stage' = [stage EXCEPT ![s] = [stage[s] EXCEPT ![k] = g]]
      BY <1>0, <1>2, <1>3, <1>9, <1>10 DEF Books!CategoryReversed, Books!Passed, ItemsInductive, ItemsTyped
    <2>. QED
      BY <1>11, <2>1 DEF Books!CategoryReversed, Books!figuresVars, Staged
  <1>13. ItemsTyped'
    <2>1. stage' \in [SalesMade -> [Kinds -> StageRows]]
      BY <1>0, <1>12, <1>t, StageMoves
    <2>2. UNCHANGED <<items, metrics>>
      BY DEF Books!CategoryReversed, Books!figuresVars
    <2>. QED
      BY <1>8, <1>t, <2>1, <2>2 DEF ItemsTyped
  <1>14. items' = items /\ \A x \in Branches, y \in Days :
            items[x][y].sold \in Int /\ \A z \in Categories : category[x][z][y].sold \in Int
    BY <1>t, CountedRows DEF Books!CategoryReversed
  <1>15. ASSUME NEW x \in Branches, NEW y \in Days, x # sales[s].store \/ g.at \notin Broken
         PROVE  /\ items'[x][y].sold = items[x][y].sold
                       + (IF sales[s].store = x THEN Gain(s, k, g, y, {"store", "done"}) ELSE 0)
                /\ \A z \in Categories :
                       category'[x][z][y].sold = category[x][z][y].sold
                           + (IF sales[s].store = x /\ ForSale[s].category = z THEN Gain(s, k, g, y, {"done"}) ELSE 0)
    <2>1. CASE x # st
      <3>1. \A z \in Categories : category'[x][z][y] = category[x][z][y]
        BY <1>8, <2>1
      <3>. QED
        BY <1>2, <1>14, <2>1, <3>1
    <2>2. CASE x = st /\ at = "done"
      <3>1. stage[s][k].at = "store" /\ stage[s][k].day = d /\ old.exists
        BY <1>2, <1>9, <2>2
      <3>2. /\ Gain(s, k, g, y, {"store", "done"}) = 0
            /\ Gain(s, k, g, y, {"done"}) = IF y = d THEN 0 - ForSale[s].quantity ELSE 0
        BY <1>0, <1>11, <1>t, <2>2, <3>1 DEF Gain, Worth
      <3>3. row.sold = category[st][c][d].sold - ForSale[s].quantity
        BY <1>3, <1>4, <1>6, <3>1
      <3>4. ASSUME NEW z \in Categories
            PROVE  category'[x][z][y].sold = category[x][z][y].sold
                       + (IF sales[s].store = x /\ ForSale[s].category = z THEN Gain(s, k, g, y, {"done"}) ELSE 0)
        <4>1. CASE z = c /\ y = d
          <5>1. category'[x][z][y] = row /\ category[x][z][y] = category[st][c][d]
            BY <1>8, <2>2, <4>1
          <5>2. sales[s].store = x /\ ForSale[s].category = z /\ Gain(s, k, g, y, {"done"}) = 0 - ForSale[s].quantity
            BY <1>2, <2>2, <3>2, <4>1
          <5>. QED
            BY <1>t, <3>3, <5>1, <5>2
        <4>2. CASE z # c \/ y # d
          <5>1. category'[x][z][y] = category[x][z][y] /\ category[x][z][y].sold \in Int
            BY <1>8, <1>14, <4>2
          <5>. QED
            BY <1>2, <3>2, <4>2, <5>1
        <4>. QED
          BY <4>1, <4>2
      <3>. QED
        BY <1>2, <1>14, <2>2, <3>2, <3>4
    <2>. QED
      BY <1>2, <1>9, <1>11, <1>15, <2>1, <2>2 DEF Broken
  <1>16. Follows(s, k, g)
    <2>1. stage[s][k].at \notin Broken /\ g.at # "idle"
      BY <1>1, <1>9, <1>11 DEF Broken
    <2>. QED
      BY <1>1, <1>12, <1>13, <1>15, <2>1 DEF Follows
  <1>. QED
    BY <1>0, <1>16, StageKeeps

LEMMA CountFailsKeeps ==
    ASSUME ItemsInductive, NEW s \in SalesMade, NEW k \in Books!Reversals \union {"sold"}, Books!CountFails(s, k)
    PROVE  ItemsInductive'
  <1>0. k \in Kinds /\ k \in StockKinds
    BY BooksFacts DEF Books!Reversals, StockKinds
  <1>1. /\ call[s][k].at # "idle" /\ stage[s][k].at \notin Broken
        /\ k = "refunded" => sales[s].back >= ForSale[s].price
    BY <1>0 DEF Books!CountFails, Books!HandlerDue, ItemsInductive, StageFits, Broken
  <1>2. PICK st \in Branches, d \in Days : st = sales[s].store /\ d = now
    BY <1>0, <1>1, SaleOfStock
  <1>3. PICK g \in StageRows : g = [at |-> "lost", day |-> d]
    BY DEF StageRows
  <1>4. Staged(s, k, g)
    BY <1>2, <1>3 DEF Books!CountFails, Books!figuresVars, Staged
  <1>5. ItemsTyped /\ UNCHANGED <<items, category, metrics>>
    BY DEF Books!CountFails, Books!figuresVars, ItemsInductive
  <1>6. ItemsTyped'
    <2>1. stage' \in [SalesMade -> [Kinds -> StageRows]]
      BY <1>0, <1>4, <1>5, StageMoves
    <2>. QED
      BY <1>5, <2>1 DEF ItemsTyped
  <1>7. \A x \in Branches, y \in Days :
            items[x][y].sold \in Int /\ \A z \in Categories : category[x][z][y].sold \in Int
    BY <1>5, CountedRows
  <1>8. ASSUME NEW x \in Branches, NEW y \in Days, x # sales[s].store \/ g.at \notin Broken
        PROVE  /\ items'[x][y].sold = items[x][y].sold
                      + (IF sales[s].store = x THEN Gain(s, k, g, y, {"store", "done"}) ELSE 0)
               /\ \A z \in Categories :
                      category'[x][z][y].sold = category[x][z][y].sold
                          + (IF sales[s].store = x /\ ForSale[s].category = z THEN Gain(s, k, g, y, {"done"}) ELSE 0)
    <2>1. x # sales[s].store
      BY <1>3, <1>8 DEF Broken
    <2>. QED
      BY <1>5, <1>7, <2>1
  <1>9. Follows(s, k, g)
    BY <1>1, <1>3, <1>4, <1>6, <1>8 DEF Follows
  <1>. QED
    BY <1>0, <1>9, StageKeeps

-----------------------------------------------------------------------------
(* What the invariant says of the items.                                   *)

Standing(st, d) ==
    {s \in SalesMade : /\ sales[s].store = st
                       /\ sales[s].pay \in {"PAID", "COMPLETED", "PARTIALLY_REFUNDED"}
                       /\ stage[s]["sold"] = [at |-> "done", day |-> d]}

\* A sale of a settled store counts where it was counted, if it stands.
LEMMA SettledSale ==
    ASSUME ItemsInductive, NEW st \in Branches, Books!Settled(st), NEW d \in Days,
           NEW s \in SalesMade, sales[s].store = st, NEW ats \in {{"store", "done"}, {"done"}}
    PROVE  NetWorth(s, d, ats) = IF s \in Standing(st, d) THEN ForSale[s].quantity ELSE 0
  <1>1. Fits(s, sales[s], Emitted(s)) /\ StageFits(s) /\ {"sold", "voided", "refunded"} \subseteq Kinds
    BY BooksFacts DEF ItemsInductive, SalesKept
  <1>2. \A k \in {"sold", "voided", "refunded"} :
           /\ stage[s][k].at \in {"idle", "done"}
           /\ stage[s][k].at # "idle" => call[s][k].at # "idle"
           /\ call[s][k].at # "idle" /\ (k = "refunded" => sales[s].back >= ForSale[s].price) =>
                  stage[s][k].at = "done"
           /\ k # "sold" /\ stage[s][k].at = "done" => stage[s][k].day = stage[s]["sold"].day
    BY <1>1 DEF Books!Settled, Books!HandlerDue, Books!Reversals, StageFits
  <1>3. sales[s].back \in Nat /\ ForSale[s].price \in Nat \ {0} /\ ForSale[s].quantity \in Nat
    BY BooksFacts DEF ItemsInductive, SalesKept, SalesTyped, SaleRows
  <1>4. /\ stage[s]["sold"].at = "done" <=>
               sales[s].pay \in {"PAID", "COMPLETED", "VOIDED", "REFUNDED", "PARTIALLY_REFUNDED"}
        /\ stage[s]["voided"].at = "done" <=> sales[s].pay = "VOIDED"
        /\ stage[s]["refunded"].at = "done" <=> sales[s].pay = "REFUNDED"
    BY <1>1, <1>2, <1>3 DEF Fits, Emitted, StageFits
  <1>5. PICK a \in StageRows : a = stage[s]["sold"]
    BY <1>1 DEF ItemsInductive, ItemsTyped
  <1>6. a = [at |-> "done", day |-> d] <=> a.at = "done" /\ a.day = d
    <2>1. a = [at |-> a.at, day |-> a.day]
      BY DEF StageRows
    <2>2. ASSUME a = [at |-> "done", day |-> d] PROVE a.at = "done" /\ a.day = d
      BY <2>2
    <2>3. ASSUME a.at = "done", a.day = d PROVE a = [at |-> "done", day |-> d]
      BY <2>1, <2>3
    <2>. QED
      BY <2>2, <2>3
  <1>7. s \in Standing(st, d) <=> /\ sales[s].pay \in {"PAID", "COMPLETED", "PARTIALLY_REFUNDED"}
                                 /\ a.at = "done" /\ a.day = d
    BY <1>5, <1>6 DEF Standing
  <1>8. \A g : Worth(g, s, d, ats) = IF g.day = d /\ g.at \in ats THEN ForSale[s].quantity ELSE 0
    BY DEF Worth
  <1>9. \A at \in {"idle", "done"} : at \in ats <=> at = "done"
    OBVIOUS
  <1>10. NetWorth(s, d, ats) = Worth(a, s, d, ats) - Worth(stage[s]["voided"], s, d, ats)
                                   - Worth(stage[s]["refunded"], s, d, ats)
    BY <1>5 DEF NetWorth
  <1>. QED
    BY <1>2, <1>3, <1>4, <1>5, <1>7, <1>8, <1>9, <1>10

\* The items of the sales that stand, among those of a set of categories.
LEMMA StandingItems ==
    ASSUME ItemsInductive, NEW st \in Branches, Books!Settled(st), NEW d \in Days,
           NEW C, NEW ats \in {{"store", "done"}, {"done"}},
           NEW S, S = {s \in Standing(st, d) : ForSale[s].category \in C}
    PROVE  Books!Quantity(S) = Whole(Shares(st, C, d, ats))
  <1>1. PICK f : f = Shares(st, C, d, ats)
    OBVIOUS
  <1>2. PICK g : g = [s \in S |-> ForSale[s].quantity]
    OBVIOUS
  <1>3. PICK image : image = [s \in S |-> s]
    OBVIOUS
  <1>4. S \subseteq SalesMade /\ IsFiniteSet(SalesMade) /\ IsFiniteSet(S)
    BY BooksFacts, FS_Subset DEF Standing
  <1>5. \A s \in SalesMade : f[s] = IF s \in S THEN ForSale[s].quantity ELSE 0
    <2>. SUFFICES ASSUME NEW s \in SalesMade PROVE f[s] = IF s \in S THEN ForSale[s].quantity ELSE 0
      OBVIOUS
    <2>1. f[s] = IF sales[s].store = st /\ ForSale[s].category \in C THEN NetWorth(s, d, ats) ELSE 0
      BY <1>1 DEF Shares
    <2>2. sales[s].store = st =>
              NetWorth(s, d, ats) = IF s \in Standing(st, d) THEN ForSale[s].quantity ELSE 0
      BY SettledSale
    <2>3. s \in Standing(st, d) => sales[s].store = st
      BY DEF Standing
    <2>. QED
      BY <2>1, <2>2, <2>3
  <1>6. \A s \in SalesMade : f[s] \in Int
    BY <1>5, BooksFacts
  <1>7. \A s \in S : image[s] = s /\ g[s] = f[s] /\ s \in SalesMade
    BY <1>2, <1>3, <1>4, <1>5
  <1>8. \A s \in SalesMade : f[s] # 0 => \E t \in S : image[t] = s
    BY <1>5, <1>7
  <1>9. Matched(g, S, f, SalesMade, image)
    BY <1>4, <1>6, <1>7, <1>8 DEF Matched
  <1>10. SumFunctionOnSet(g, S) = SumFunctionOnSet(f, SalesMade)
    BY <1>9, SumImage
  <1>11. Books!Quantity(S) = SumFunctionOnSet(g, S)
    BY <1>2, SumsOfBooks DEF Books!Quantity, Books!Sum
  <1>. QED
    BY <1>1, <1>10, <1>11 DEF Whole

LEMMA ItemsReport ==
    ASSUME ItemsInductive
    PROVE  Books!ItemsFollowSales
  <1>1. ASSUME NEW st \in Branches, Books!Settled(st), NEW d \in Days
        PROVE  /\ items[st][d].sold = Books!Quantity(Standing(st, d))
               /\ \A c \in Categories :
                     category[st][c][d].sold = Books!Quantity({s \in Standing(st, d) : ForSale[s].category = c})
    <2>1. Unbroken(st)
      BY <1>1 DEF Books!Settled, Books!Reversals, Unbroken, StockKinds, Broken
    <2>2. /\ items[st][d].sold = Whole(ItemShares(st, d))
          /\ \A c \in Categories : category[st][c][d].sold = Whole(CategoryShares(st, c, d))
      BY <2>1 DEF ItemsInductive
    <2>3. PICK a, b : a = {"store", "done"} /\ b = {"done"}
      OBVIOUS
    <2>4. Standing(st, d) = {s \in Standing(st, d) : ForSale[s].category \in Categories}
      BY DEF Standing, Categories, Books!Categories
    <2>5. Books!Quantity(Standing(st, d)) = Whole(Shares(st, Categories, d, a))
      BY <1>1, <2>3, <2>4, StandingItems
    <2>6. ASSUME NEW c \in Categories
          PROVE  Books!Quantity({s \in Standing(st, d) : ForSale[s].category = c}) = Whole(Shares(st, {c}, d, b))
      <3>1. PICK C : C = {c}
        OBVIOUS
      <3>2. PICK S : S = {s \in Standing(st, d) : ForSale[s].category \in C}
        OBVIOUS
      <3>3. Books!Quantity(S) = Whole(Shares(st, C, d, b))
        BY <1>1, <2>3, <3>2, StandingItems
      <3>4. S = {s \in Standing(st, d) : ForSale[s].category = c}
        BY <3>1, <3>2
      <3>. QED
        BY <3>1, <3>3, <3>4
    <2>. QED
      BY <2>2, <2>3, <2>5, <2>6 DEF ItemShares, CategoryShares
  <1>. QED
    BY <1>1 DEF Books!ItemsFollowSales, Standing, Days, Categories

-----------------------------------------------------------------------------
(* The rows of products and hours, under the nightly jobs.                 *)

ProductsSold == Books!ProductsSold
Hours == Books!Hours
ProductRows == [exists : {TRUE}, quantity : Nat, orders : Nat, revenue : Nat]
HourRows == [exists : {TRUE}, revenue : Nat, orders : Nat]

\* The orders that were completed at some time, less than are voided, and those
\* of them that a job came too early for.
FinishedKept ==
    /\ finished \subseteq SalesMade
    /\ \A s \in SalesMade : sales[s].order = "COMPLETED" => s \in finished
    /\ \A s \in finished : /\ sales[s].order # "none"
                           /\ sales[s].pay # "VOIDED" => sales[s].order = "COMPLETED"
    /\ \A s, what : <<s, what>> \in late => what \in ran

\* The orders of a store and day among some, and those a job found completed.
Of(st, d, G) == {s \in finished : sales[s].store = st /\ sales[s].placed = d /\ s \in G}
InTime(S, what) == {s \in S : <<s, what>> \notin late}
Selling(p) == {s \in SalesMade : ForSale[s].product = p}
At(h) == {s \in SalesMade : ForSale[s].hour = h}
Unvoided(S) == \A s \in S : sales[s].pay # "VOIDED"

ProductKept(st, p, d) ==
    LET row == product[st][p][d]
        S == Of(st, d, Selling(p))
        counted == InTime(S, <<"popularity", d>>)
    IN  /\ row.exists => row.revenue <= Books!Subtotal(S)
        /\ row.exists => d < now \/ <<"popularity", d>> \in ran
        /\ <<"popularity", d>> \in ran /\ Unvoided(S) =>
               IF row.exists THEN row.quantity = Books!Quantity(counted) /\ row.orders = Books!Count(counted)
                             ELSE counted = {}

HourKept(st, h, d) ==
    LET row == hourly[st][h][d]
        S == Of(st, d, At(h))
        counted == InTime(S, <<"hour", h, d>>)
    IN  /\ row.exists => row.revenue <= Books!Revenue(S) /\ <<"hour", h, d>> \in ran
        /\ <<"hour", h, d>> \in ran /\ Unvoided(S) =>
               IF row.exists THEN row.orders = Books!Count(counted) ELSE counted = {}

JobsTyped ==
    /\ product \in [Branches -> [ProductsSold -> [Days -> ProductRows \union {Books!NoRow}]]]
    /\ hourly \in [Branches -> [Hours -> [Days -> HourRows \union {Books!NoRow}]]]

JobsInductive ==
    /\ SalesKept /\ FinishedKept /\ JobsTyped
    /\ \A st \in Branches, d \in Days :
           /\ \A p \in ProductsSold : ProductKept(st, p, d)
           /\ \A h \in Hours : HourKept(st, h, d)

LEMMA RowsExist ==
    /\ \A row \in ProductRows \union {Books!NoRow} :
           row.exists => row.quantity \in Nat /\ row.orders \in Nat /\ row.revenue \in Nat
    /\ \A row \in HourRows \union {Books!NoRow} : row.exists => row.orders \in Nat /\ row.revenue \in Nat
    /\ ~Books!NoRow.exists
  <1>1. \A row \in ProductRows : row.quantity \in Nat /\ row.orders \in Nat /\ row.revenue \in Nat
    BY DEF ProductRows
  <1>2. \A row \in HourRows : row.orders \in Nat /\ row.revenue \in Nat
    BY DEF HourRows
  <1>3. ~Books!NoRow.exists
    BY DEF Books!NoRow
  <1>. QED
    BY <1>1, <1>2, <1>3

\* What the orders of a set come to, and that more come to no less.
LEMMA SalesOfSet ==
    ASSUME NEW S \in SUBSET SalesMade
    PROVE  Books!Subtotal(S) \in Nat /\ Books!Quantity(S) \in Nat /\ Books!Revenue(S) \in Nat /\ Books!Count(S) \in Nat
  <1>1. IsFiniteSet(S)
    BY BooksFacts, FS_Subset
  <1>2. ASSUME NEW f, \A s \in S : f[s] \in Nat PROVE SumFunctionOnSet(f, S) \in Nat
    BY <1>1, <1>2, SumNat
  <1>3. \A s \in S : ForSale[s].price \in Nat /\ ForSale[s].quantity \in Nat /\ ForSale[s].subtotal \in Nat
    BY BooksFacts
  <1>4. PICK a : a = [s \in S |-> ForSale[s].subtotal]
    OBVIOUS
  <1>5. PICK b : b = [s \in S |-> ForSale[s].quantity]
    OBVIOUS
  <1>6. PICK c : c = [s \in S |-> ForSale[s].price]
    OBVIOUS
  <1>7. /\ Books!Subtotal(S) = SumFunctionOnSet(a, S) /\ Books!Quantity(S) = SumFunctionOnSet(b, S)
        /\ Books!Revenue(S) = SumFunctionOnSet(c, S)
    BY <1>4, <1>5, <1>6, SumsOfBooks DEF Books!Subtotal, Books!Quantity, Books!Revenue, Books!Sum
  <1>8. SumFunctionOnSet(a, S) \in Nat
    BY <1>2, <1>3, <1>4
  <1>9. SumFunctionOnSet(b, S) \in Nat
    BY <1>2, <1>3, <1>5
  <1>10. SumFunctionOnSet(c, S) \in Nat
    BY <1>2, <1>3, <1>6
  <1>11. Books!Count(S) \in Nat
    BY <1>1, FiniteInBooks, FS_CardinalityType DEF Books!Count
  <1>. QED
    BY <1>7, <1>8, <1>9, <1>10, <1>11

LEMMA PartOfSet ==
    ASSUME NEW T \in SUBSET SalesMade, NEW S \in SUBSET T
    PROVE  Books!Subtotal(S) <= Books!Subtotal(T) /\ Books!Revenue(S) <= Books!Revenue(T)
  <1>1. IsFiniteSet(T) /\ IsFiniteSet(S)
    BY BooksFacts, FS_Subset
  <1>2. \A s \in T : ForSale[s].price \in Nat /\ ForSale[s].subtotal \in Nat
    BY BooksFacts
  <1>3. ASSUME NEW f, NEW g, \A s \in T : f[s] \in Nat, \A s \in S : g[s] = f[s]
        PROVE  SumFunctionOnSet(g, S) <= SumFunctionOnSet(f, T)
    <2>1. \A s \in S : g[s] \in Int /\ g[s] = f[s]
      BY <1>3
    <2>2. SumFunctionOnSet(g, S) = SumFunctionOnSet(f, S)
      BY <1>1, <2>1, SumSame
    <2>3. SumFunctionOnSet(f, S) <= SumFunctionOnSet(f, T)
      BY <1>1, <1>3, SumPart
    <2>. QED
      BY <2>2, <2>3
  <1>4. Books!Subtotal(S) <= Books!Subtotal(T)
    <2>1. PICK f : f = [s \in T |-> ForSale[s].subtotal]
      OBVIOUS
    <2>2. PICK g : g = [s \in S |-> ForSale[s].subtotal]
      OBVIOUS
    <2>3. SumFunctionOnSet(g, S) <= SumFunctionOnSet(f, T)
      BY <1>2, <1>3, <2>1, <2>2
    <2>. QED
      BY <2>1, <2>2, <2>3, SumsOfBooks DEF Books!Subtotal, Books!Sum
  <1>5. Books!Revenue(S) <= Books!Revenue(T)
    <2>1. PICK f : f = [s \in T |-> ForSale[s].price]
      OBVIOUS
    <2>2. PICK g : g = [s \in S |-> ForSale[s].price]
      OBVIOUS
    <2>3. SumFunctionOnSet(g, S) <= SumFunctionOnSet(f, T)
      BY <1>2, <1>3, <2>1, <2>2
    <2>. QED
      BY <2>1, <2>2, <2>3, SumsOfBooks DEF Books!Revenue
  <1>. QED
    BY <1>4, <1>5

\* An order is completed, and is late for the jobs that ran.
Completes(s) == s \in SalesMade /\ sales'[s].order = "COMPLETED" /\ sales[s].order # "COMPLETED"
FinishedStep ==
    /\ \A s : s \in finished' <=> s \in finished \/ Completes(s)
    /\ \A s, what : <<s, what>> \in late' <=>
           <<s, what>> \in late \/ (Completes(s) /\ what \in Books!JobsPast(s))

LEMMA SaleStepMoves ==
    ASSUME SalesKept, Books!SaleStep
    PROVE  /\ SalesKept' /\ SalesStep /\ FinishedStep
           /\ UNCHANGED <<stage, items, category, product, hourly, ran, metrics>>
           /\ now' \in Days /\ now <= now'
  <1>1. now \in Days /\ Days \subseteq Nat /\ Days = 0 .. LastDay /\ LastDay \in Nat
    BY BooksFacts DEF SalesKept, SalesTyped
  <1>5. UNCHANGED <<stage, items, category, product, hourly, ran>>
    BY DEF Books!SaleStep
  <1>6. FinishedStep
    <2>1. PICK done : done = {s \in SalesMade : sales'[s].order = "COMPLETED" /\ sales[s].order # "COMPLETED"}
      OBVIOUS
    <2>2. /\ finished' = finished \union done
          /\ late' = late \union UNION {{s} \X Books!JobsPast(s) : s \in done}
      BY <2>1 DEF Books!SaleStep
    <2>3. \A s : s \in done <=> Completes(s)
      BY <2>1 DEF Completes
    <2>4. \A s, what : <<s, what>> \in UNION {{t} \X Books!JobsPast(t) : t \in done} <=>
                         s \in done /\ what \in Books!JobsPast(s)
      OBVIOUS
    <2>. QED
      BY <2>2, <2>3, <2>4 DEF FinishedStep
  <1>2. CASE Books!PaymentNext
    <2>1. now' = now
      BY <1>2 DEF Books!PaymentNext, Books!Place, Books!PayAtTill, Books!StartPayment, Books!ConfirmPayment,
                  Books!FailPayment, Books!Void, Books!Refund
    <2>. QED
      BY <1>1, <1>2, <1>5, <1>6, <2>1, PaymentMoves
  <1>3. CASE Books!OrderNext
    <2>1. now' = now
      BY <1>3 DEF Books!OrderNext, Books!CancelOrder, Books!Complete
    <2>. QED
      BY <1>1, <1>3, <1>5, <1>6, <2>1, OrderMoves
  <1>4. CASE Books!Tick
    <2>1. now' \in Days /\ now <= now' /\ UNCHANGED <<sales, call, metrics>>
      BY <1>1, <1>4 DEF Books!Tick
    <2>. QED
      BY <1>5, <1>6, <2>1, TickMoves
  <1>. QED
    BY <1>2, <1>3, <1>4 DEF Books!SaleStep

\* A job counts the orders of a day among some, and one that is completed after it
\* ran is late for it.
JobOf(what, d, G) == \A s \in G : what \in {<<"popularity", d>>, <<"hour", ForSale[s].hour, d>>}

LEMMA CompletedSince ==
    ASSUME FinishedKept, SalesStep, FinishedStep, UNCHANGED ran,
           NEW st, NEW d, NEW G \in SUBSET SalesMade, NEW what, JobOf(what, d, G)
    PROVE  /\ Of(st, d, G) \subseteq Of(st, d, G)'
           /\ what \in ran /\ Unvoided(Of(st, d, G))' =>
                  /\ Unvoided(Of(st, d, G))
                  /\ InTime(Of(st, d, G), what)' = InTime(Of(st, d, G), what)
  <1>1. PICK S : S = Of(st, d, G)
    OBVIOUS
  <1>2. PICK T : T = Of(st, d, G)'
    OBVIOUS
  <1>3. \A s \in S : s \in finished /\ s \in SalesMade /\ sales[s].store = st /\ sales[s].placed = d /\ s \in G
    BY <1>1 DEF Of, FinishedKept
  <1>4. \A s \in T : s \in finished' /\ sales'[s].store = st /\ sales'[s].placed = d /\ s \in G
    BY <1>2 DEF Of
  <1>5. S \subseteq T
    <2>. SUFFICES ASSUME NEW s \in S PROVE s \in T
      OBVIOUS
    <2>1. s \in finished' /\ sales'[s].store = st /\ sales'[s].placed = d /\ s \in G
      BY <1>3 DEF FinishedStep, FinishedKept, SalesStep
    <2>. QED
      BY <1>2, <2>1 DEF Of
  <1>6. ASSUME what \in ran, \A s \in T : sales'[s].pay # "VOIDED"
        PROVE  /\ \A s \in S : sales[s].pay # "VOIDED"
               /\ \A s : s \in T /\ <<s, what>> \notin late' <=> s \in S /\ <<s, what>> \notin late
    <2>1. \A s \in S : sales[s].pay # "VOIDED"
      BY <1>3, <1>5, <1>6 DEF SalesStep
    <2>2. ASSUME NEW s \in T, <<s, what>> \notin late' PROVE s \in S /\ <<s, what>> \notin late
      <3>1. <<s, what>> \notin late /\ ~(Completes(s) /\ what \in Books!JobsPast(s))
        BY <2>2 DEF FinishedStep
      <3>2. ASSUME Completes(s) PROVE what \in Books!JobsPast(s)
        <4>1. sales[s].placed = d
          BY <1>4, <3>2 DEF Completes, SalesStep
        <4>2. what \in {<<"popularity", sales[s].placed>>, <<"hour", ForSale[s].hour, sales[s].placed>>}
          BY <1>4, <4>1 DEF JobOf
        <4>. QED
          BY <1>6, <4>2 DEF Books!JobsPast
      <3>3. s \in finished
        BY <1>4, <3>1, <3>2 DEF FinishedStep
      <3>4. sales[s].store = st /\ sales[s].placed = d /\ s \in G
        BY <1>4, <3>3 DEF FinishedKept, SalesStep
      <3>. QED
        BY <1>1, <3>1, <3>3, <3>4 DEF Of
    <2>3. ASSUME NEW s \in S, <<s, what>> \notin late PROVE <<s, what>> \notin late'
      <3>1. sales[s].order = "COMPLETED"
        BY <1>3, <2>1 DEF FinishedKept
      <3>. QED
        BY <2>3, <3>1 DEF FinishedStep, Completes
    <2>. QED
      BY <1>5, <2>1, <2>2, <2>3
  <1>7. ASSUME what \in ran, Unvoided(Of(st, d, G))'
        PROVE  Unvoided(Of(st, d, G)) /\ InTime(Of(st, d, G), what)' = InTime(Of(st, d, G), what)
    <2>1. \A s \in T : sales'[s].pay # "VOIDED"
      BY <1>2, <1>7 DEF Unvoided
    <2>2. InTime(Of(st, d, G), what)' = {s \in T : <<s, what>> \notin late'}
      BY <1>2 DEF InTime
    <2>3. InTime(Of(st, d, G), what) = {s \in S : <<s, what>> \notin late}
      BY <1>1 DEF InTime
    <2>. QED
      BY <1>1, <1>6, <1>7, <2>1, <2>2, <2>3 DEF Unvoided
  <1>. QED
    BY <1>1, <1>2, <1>5, <1>7

LEMMA JobsSalesMove ==
    ASSUME JobsInductive, SalesKept', SalesStep, FinishedStep,
           UNCHANGED <<product, hourly, ran>>, now' \in Days, now <= now'
    PROVE  JobsInductive'
  <1>1. FinishedKept'
    <2>1. finished' \subseteq SalesMade
      BY DEF FinishedStep, Completes, JobsInductive, FinishedKept
    <2>2. \A s \in SalesMade : sales'[s].order = "COMPLETED" => s \in finished'
      BY DEF FinishedStep, Completes, JobsInductive, FinishedKept
    <2>3. \A s \in finished' : /\ sales'[s].order # "none"
                               /\ sales'[s].pay # "VOIDED" => sales'[s].order = "COMPLETED"
      BY DEF FinishedStep, Completes, SalesStep, JobsInductive, FinishedKept
    <2>4. \A s, what : <<s, what>> \in late' => what \in ran'
      BY DEF FinishedStep, Books!JobsPast, JobsInductive, FinishedKept
    <2>. QED
      BY <2>1, <2>2, <2>3, <2>4 DEF FinishedKept
  <1>2. FinishedKept /\ now \in Nat /\ now' \in Nat /\ JobsTyped
    BY BooksFacts DEF JobsInductive, SalesKept, SalesTyped
  <1>3. ASSUME NEW st, NEW d, NEW G \in SUBSET SalesMade
        PROVE  Of(st, d, G)' \in SUBSET SalesMade
    BY <1>1 DEF Of, FinishedKept
  <1>4. ASSUME NEW st \in Branches, NEW d \in Days, NEW p \in ProductsSold PROVE ProductKept(st, p, d)'
    <2>1. PICK G \in SUBSET SalesMade : G = Selling(p)
      BY DEF Selling
    <2>2. PICK what : what = <<"popularity", d>>
      OBVIOUS
    <2>3. JobOf(what, d, G)
      BY <2>2 DEF JobOf
    <2>4. /\ Of(st, d, G) \subseteq Of(st, d, G)'
          /\ what \in ran /\ Unvoided(Of(st, d, G))' =>
                 /\ Unvoided(Of(st, d, G))
                 /\ InTime(Of(st, d, G), what)' = InTime(Of(st, d, G), what)
      BY <1>2, <2>3, CompletedSince
    <2>5. PICK row \in ProductRows \union {Books!NoRow} : row = product[st][p][d]
      BY <1>2 DEF JobsTyped
    <2>6. /\ row.exists => row.revenue <= Books!Subtotal(Of(st, d, G))
          /\ row.exists => d < now \/ what \in ran
          /\ what \in ran /\ Unvoided(Of(st, d, G)) =>
                 IF row.exists THEN /\ row.quantity = Books!Quantity(InTime(Of(st, d, G), what))
                                    /\ row.orders = Books!Count(InTime(Of(st, d, G), what))
                               ELSE InTime(Of(st, d, G), what) = {}
      <3>1. ProductKept(st, p, d)
        BY DEF JobsInductive
      <3>. QED
        BY <2>1, <2>2, <2>5, <3>1 DEF ProductKept
    <2>7. row.exists => row.revenue <= Books!Subtotal(Of(st, d, G)')
      <3>1. Books!Subtotal(Of(st, d, G)) <= Books!Subtotal(Of(st, d, G)')
        BY <1>3, <2>4, PartOfSet
      <3>2. Of(st, d, G) \in SUBSET SalesMade
        BY DEF Of
      <3>3. Books!Subtotal(Of(st, d, G)) \in Nat /\ Books!Subtotal(Of(st, d, G)') \in Nat
        BY <1>3, <3>2, SalesOfSet
      <3>4. row.exists => row.revenue \in Nat
        BY RowsExist
      <3>. QED
        BY <2>6, <3>1, <3>3, <3>4
    <2>8. row.exists => d < now' \/ what \in ran
      BY <1>2, <2>6, BooksFacts
    <2>9. what \in ran /\ Unvoided(Of(st, d, G))' =>
              IF row.exists THEN /\ row.quantity = Books!Quantity(InTime(Of(st, d, G), what)')
                                 /\ row.orders = Books!Count(InTime(Of(st, d, G), what)')
                            ELSE InTime(Of(st, d, G), what)' = {}
      BY <2>4, <2>6
    <2>. QED
      BY <2>1, <2>2, <2>5, <2>7, <2>8, <2>9 DEF ProductKept, Books!Subtotal, Books!Quantity, Books!Sum, Books!Count
  <1>5. ASSUME NEW st \in Branches, NEW d \in Days, NEW h \in Hours PROVE HourKept(st, h, d)'
    <2>1. PICK G \in SUBSET SalesMade : G = At(h)
      BY DEF At
    <2>2. PICK what : what = <<"hour", h, d>>
      OBVIOUS
    <2>3. JobOf(what, d, G)
      BY <2>1, <2>2 DEF JobOf, At
    <2>4. /\ Of(st, d, G) \subseteq Of(st, d, G)'
          /\ what \in ran /\ Unvoided(Of(st, d, G))' =>
                 /\ Unvoided(Of(st, d, G))
                 /\ InTime(Of(st, d, G), what)' = InTime(Of(st, d, G), what)
      BY <1>2, <2>3, CompletedSince
    <2>5. PICK row \in HourRows \union {Books!NoRow} : row = hourly[st][h][d]
      BY <1>2 DEF JobsTyped
    <2>6. /\ row.exists => row.revenue <= Books!Revenue(Of(st, d, G)) /\ what \in ran
          /\ what \in ran /\ Unvoided(Of(st, d, G)) =>
                 IF row.exists THEN row.orders = Books!Count(InTime(Of(st, d, G), what))
                               ELSE InTime(Of(st, d, G), what) = {}
      <3>1. HourKept(st, h, d)
        BY DEF JobsInductive
      <3>. QED
        BY <2>1, <2>2, <2>5, <3>1 DEF HourKept
    <2>7. row.exists => row.revenue <= Books!Revenue(Of(st, d, G)')
      <3>1. Books!Revenue(Of(st, d, G)) <= Books!Revenue(Of(st, d, G)')
        BY <1>3, <2>4, PartOfSet
      <3>2. Of(st, d, G) \in SUBSET SalesMade
        BY DEF Of
      <3>3. Books!Revenue(Of(st, d, G)) \in Nat /\ Books!Revenue(Of(st, d, G)') \in Nat
        BY <1>3, <3>2, SalesOfSet
      <3>4. row.exists => row.revenue \in Nat
        BY RowsExist
      <3>. QED
        BY <2>6, <3>1, <3>3, <3>4
    <2>9. what \in ran /\ Unvoided(Of(st, d, G))' =>
              IF row.exists THEN row.orders = Books!Count(InTime(Of(st, d, G), what)')
                            ELSE InTime(Of(st, d, G), what)' = {}
      BY <2>4, <2>6
    <2>. QED
      BY <2>1, <2>2, <2>5, <2>6, <2>7, <2>9 DEF HourKept, Books!Revenue, Books!Count
  <1>6. JobsTyped'
    BY <1>2 DEF JobsTyped
  <1>. QED
    BY <1>1, <1>4, <1>5, <1>6 DEF JobsInductive

\* A job that does not touch a row leaves what holds of it.
JobStep == UNCHANGED <<now, sales, call, finished, late>>

LEMMA ProductSame ==
    ASSUME JobStep, NEW st, NEW p, NEW d, ProductKept(st, p, d), product'[st][p][d] = product[st][p][d],
           <<"popularity", d>> \in ran' <=> <<"popularity", d>> \in ran
    PROVE  ProductKept(st, p, d)'
  <1>1. PICK row : row = product[st][p][d] /\ row = product'[st][p][d]
    OBVIOUS
  <1>2. PICK S : S = Of(st, d, Selling(p)) /\ S = Of(st, d, Selling(p))'
    BY DEF Of, JobStep
  <1>3. /\ Unvoided(S)' <=> Unvoided(S)
        /\ InTime(S, <<"popularity", d>>)' = InTime(S, <<"popularity", d>>)
    BY DEF Unvoided, InTime, JobStep
  <1>4. now' = now
    BY DEF JobStep
  <1>. QED
    BY <1>1, <1>2, <1>3, <1>4 DEF ProductKept, Books!Subtotal, Books!Quantity, Books!Sum, Books!Count

LEMMA HourSame ==
    ASSUME JobStep, NEW st, NEW h, NEW d, HourKept(st, h, d), hourly'[st][h][d] = hourly[st][h][d],
           <<"hour", h, d>> \in ran' <=> <<"hour", h, d>> \in ran
    PROVE  HourKept(st, h, d)'
  <1>1. PICK row : row = hourly[st][h][d] /\ row = hourly'[st][h][d]
    OBVIOUS
  <1>2. PICK S : S = Of(st, d, At(h)) /\ S = Of(st, d, At(h))'
    BY DEF Of, JobStep
  <1>3. /\ Unvoided(S)' <=> Unvoided(S)
        /\ InTime(S, <<"hour", h, d>>)' = InTime(S, <<"hour", h, d>>)
    BY DEF Unvoided, InTime, JobStep
  <1>. QED
    BY <1>1, <1>2, <1>3 DEF HourKept, Books!Revenue, Books!Count

LEMMA JobKeepsSales ==
    ASSUME JobsInductive, JobStep, ran \subseteq ran'
    PROVE  SalesKept' /\ FinishedKept'
  <1>1. SalesKept'
    <2>1. UNCHANGED <<sales, call>> /\ now' \in Days
      BY DEF JobStep, JobsInductive, SalesKept, SalesTyped
    <2>. QED
      BY <2>1, TickMoves DEF JobsInductive
  <1>2. FinishedKept'
    BY DEF JobStep, JobsInductive, FinishedKept
  <1>. QED
    BY <1>1, <1>2

\* Nothing of the products and hours changes.
LEMMA JobsSame ==
    ASSUME JobsInductive, JobStep, UNCHANGED <<product, hourly, ran>>
    PROVE  JobsInductive'
  <1>1. SalesKept' /\ FinishedKept'
    BY JobKeepsSales
  <1>2. JobsTyped'
    BY DEF JobsInductive, JobsTyped
  <1>3. ASSUME NEW st \in Branches, NEW d \in Days
        PROVE  /\ \A p \in ProductsSold : ProductKept(st, p, d)'
               /\ \A h \in Hours : HourKept(st, h, d)'
    BY ProductSame, HourSame DEF JobsInductive
  <1>. QED
    BY <1>1, <1>2, <1>3 DEF JobsInductive

\* The completed orders of a day were completed at some time, and are all of those
\* that were, unless one is voided.
LEMMA CompletedOfDay ==
    ASSUME FinishedKept, NEW st, NEW d, NEW G \in SUBSET SalesMade,
           NEW S, S = {s \in Books!InStatus(Books!PlacedOn(st, d), "COMPLETED") : s \in G}
    PROVE  /\ Of(st, d, G) \in SUBSET SalesMade /\ S \subseteq Of(st, d, G)
           /\ Unvoided(Of(st, d, G)) => S = Of(st, d, G)
  <1>1. \A s : s \in S <=> /\ s \in SalesMade /\ sales[s].order # "none" /\ sales[s].store = st
                           /\ sales[s].placed = d /\ sales[s].order = "COMPLETED" /\ s \in G
    BY DEF Books!InStatus, Books!PlacedOn, Books!Placed
  <1>2. S \subseteq Of(st, d, G)
    BY <1>1 DEF FinishedKept, Of
  <1>3. ASSUME Unvoided(Of(st, d, G)) PROVE Of(st, d, G) \subseteq S
    BY <1>1, <1>3 DEF FinishedKept, Of, Unvoided
  <1>. QED
    BY <1>2, <1>3 DEF Of

LEMMA LinesOfDay ==
    ASSUME FinishedKept, NEW st, NEW d, NEW p, NEW S, S = Books!LinesOf(st, p, d)
    PROVE  /\ Of(st, d, Selling(p)) \in SUBSET SalesMade /\ S \subseteq Of(st, d, Selling(p))
           /\ Unvoided(Of(st, d, Selling(p))) => S = Of(st, d, Selling(p))
  <1>1. S = {s \in Books!InStatus(Books!PlacedOn(st, d), "COMPLETED") : s \in Selling(p)}
    BY DEF Books!LinesOf, Selling, Books!InStatus, Books!PlacedOn, Books!Placed
  <1>2. Selling(p) \in SUBSET SalesMade
    BY DEF Selling
  <1>. QED
    BY <1>1, <1>2, CompletedOfDay

LEMMA OrdersOfHour ==
    ASSUME FinishedKept, NEW st, NEW d, NEW h, NEW S, S = Books!InHour(st, h, d)
    PROVE  /\ Of(st, d, At(h)) \in SUBSET SalesMade /\ S \subseteq Of(st, d, At(h))
           /\ Unvoided(Of(st, d, At(h))) => S = Of(st, d, At(h))
  <1>1. S = {s \in Books!InStatus(Books!PlacedOn(st, d), "COMPLETED") : s \in At(h)}
    BY DEF Books!InHour, At, Books!InStatus, Books!PlacedOn, Books!Placed
  <1>2. At(h) \in SUBSET SalesMade
    BY DEF At
  <1>. QED
    BY <1>1, <1>2, CompletedOfDay

\* The jobs run for what is named by them.
LEMMA JobsDiffer ==
    \A d, y, h, k, st, p :
        /\ <<"popularity", d>> # <<"metrics", st, p, y>> /\ <<"hour", h, d>> # <<"metrics", st, p, y>>
        /\ <<"popularity", d>> # <<"hour", h, y>>
        /\ <<"popularity", d>> = <<"popularity", y>> => d = y
        /\ <<"hour", h, d>> = <<"hour", k, y>> => h = k /\ d = y
  <1>1. "popularity" # "metrics" /\ "hour" # "metrics" /\ "popularity" # "hour"
    OBVIOUS
  <1>2. \A d, y, st, p : <<"popularity", d>> # <<"metrics", st, p, y>>
    <2>. SUFFICES ASSUME NEW d, NEW y, NEW st, NEW p, <<"popularity", d>> = <<"metrics", st, p, y>> PROVE FALSE
      OBVIOUS
    <2>1. <<"popularity", d>>[1] = <<"metrics", st, p, y>>[1]
      OBVIOUS
    <2>. QED
      BY <1>1, <2>1
  <1>3. \A d, y, h, st, p : <<"hour", h, d>> # <<"metrics", st, p, y>>
    <2>. SUFFICES ASSUME NEW d, NEW y, NEW h, NEW st, NEW p, <<"hour", h, d>> = <<"metrics", st, p, y>> PROVE FALSE
      OBVIOUS
    <2>1. <<"hour", h, d>>[1] = <<"metrics", st, p, y>>[1]
      OBVIOUS
    <2>. QED
      BY <1>1, <2>1
  <1>4. \A d, y, h : <<"popularity", d>> # <<"hour", h, y>>
    <2>. SUFFICES ASSUME NEW d, NEW y, NEW h, <<"popularity", d>> = <<"hour", h, y>> PROVE FALSE
      OBVIOUS
    <2>1. <<"popularity", d>>[1] = <<"hour", h, y>>[1]
      OBVIOUS
    <2>. QED
      BY <1>1, <2>1
  <1>5. \A d, y, h, k : /\ <<"popularity", d>> = <<"popularity", y>> => d = y
                        /\ <<"hour", h, d>> = <<"hour", k, y>> => h = k /\ d = y
    OBVIOUS
  <1>. QED
    BY <1>2, <1>3, <1>4, <1>5

\* A row that counts a set of orders, of a product or of an hour.
LEMMA RowOf ==
    ASSUME NEW S \in SUBSET SalesMade
    PROVE  /\ [exists |-> TRUE, quantity |-> Books!Quantity(S), orders |-> Books!Count(S),
               revenue |-> Books!Subtotal(S)] \in ProductRows
           /\ [exists |-> TRUE, revenue |-> Books!Revenue(S), orders |-> Books!Count(S)] \in HourRows
  <1>1. /\ Books!Quantity(S) \in Nat /\ Books!Count(S) \in Nat /\ Books!Subtotal(S) \in Nat
        /\ Books!Revenue(S) \in Nat
    BY SalesOfSet
  <1>. QED
    BY <1>1 DEF ProductRows, HourRows

LEMMA NoneOf == Books!Quantity({}) = 0 /\ Books!Count({}) = 0
  <1>1. PICK f : f = [s \in {} |-> ForSale[s].quantity]
    OBVIOUS
  <1>2. Books!Quantity({}) = SumFunctionOnSet(f, {})
    BY <1>1, SumsOfBooks DEF Books!Quantity, Books!Sum
  <1>. QED
    BY <1>2, SumEmpty, FiniteInBooks, FS_EmptySet DEF Books!Count

LEMMA MetricsJobKeeps ==
    ASSUME JobsInductive, NEW st \in Branches, NEW p \in Books!ProductsOf(st), Books!calculateProductMetrics(st, p)
    PROVE  JobsInductive'
  <1>1. p \in ProductsSold
    BY DEF Books!ProductsOf, ProductsSold, Books!ProductsSold
  <1>2. PICK d \in Days : d = now - 1 /\ d < now
    BY BooksFacts DEF Books!calculateProductMetrics, JobsInductive, SalesKept, SalesTyped
  <1>3. JobStep /\ UNCHANGED hourly /\ ran' = ran \union {<<"metrics", st, p, d>>}
    BY <1>2 DEF Books!calculateProductMetrics, Books!FirstRun, Books!figuresVars, JobStep
  <1>4. /\ \A y : <<"popularity", y>> \in ran' <=> <<"popularity", y>> \in ran
        /\ \A h, y : <<"hour", h, y>> \in ran' <=> <<"hour", h, y>> \in ran
    BY <1>3, JobsDiffer
  <1>5. SalesKept' /\ FinishedKept' /\ FinishedKept /\ JobsTyped
    BY <1>3, JobKeepsSales DEF JobsInductive
  <1>6. PICK S : S = Books!LinesOf(st, p, d)
    OBVIOUS
  <1>7. PICK new \in ProductRows : new = [exists |-> TRUE, quantity |-> 0, orders |-> 0, revenue |-> 0]
    BY DEF ProductRows
  <1>8. new.exists /\ new.quantity = 0 /\ new.orders = 0 /\ new.revenue = 0
    BY <1>7
  <1>9. \/ UNCHANGED product
        \/ S = {} /\ product' = [product EXCEPT ![st] = [product[st] EXCEPT ![p] = [product[st][p] EXCEPT ![d] = new]]]
    BY <1>1, <1>2, <1>6, <1>7 DEF Books!calculateProductMetrics, JobsInductive, JobsTyped
  <1>10. CASE UNCHANGED product
    <2>1. JobsTyped'
      BY <1>3, <1>5, <1>10 DEF JobsTyped
    <2>2. ASSUME NEW x \in Branches, NEW y \in Days
          PROVE  /\ \A q \in ProductsSold : ProductKept(x, q, y)'
                 /\ \A h \in Hours : HourKept(x, h, y)'
      BY <1>3, <1>4, <1>10, ProductSame, HourSame DEF JobsInductive
    <2>. QED
      BY <1>5, <2>1, <2>2 DEF JobsInductive
  <1>11. CASE S = {} /\ product' = [product EXCEPT ![st] = [product[st] EXCEPT ![p] = [product[st][p] EXCEPT ![d] = new]]]
    <2> DEFINE Rows == ProductRows \union {Books!NoRow}
    <2>1. PICK days : days = [product[st][p] EXCEPT ![d] = new]
      OBVIOUS
    <2>2. days \in [Days -> Rows] /\ days[d] = new /\ \A y \in Days \ {d} : days[y] = product[st][p][y]
      BY <1>1, <1>5, <2>1 DEF JobsTyped
    <2>3. PICK its : its = [product[st] EXCEPT ![p] = days]
      OBVIOUS
    <2>4. /\ its \in [ProductsSold -> [Days -> Rows]] /\ its[p] = days
          /\ \A q \in ProductsSold \ {p} : its[q] = product[st][q]
      BY <1>1, <1>5, <2>2, <2>3 DEF JobsTyped
    <2>5. /\ product' \in [Branches -> [ProductsSold -> [Days -> Rows]]] /\ product'[st] = its
          /\ \A x \in Branches \ {st} : product'[x] = product[x]
      BY <1>5, <1>11, <2>1, <2>3, <2>4 DEF JobsTyped
    <2>6. JobsTyped'
      BY <1>3, <1>5, <2>5 DEF JobsTyped
    <2>7. ProductKept(st, p, d)'
      <3>1. product'[st][p][d] = new
        BY <2>2, <2>4, <2>5
      <3>2. PICK T : T = Of(st, d, Selling(p)) /\ T = Of(st, d, Selling(p))'
        BY <1>3 DEF Of, JobStep
      <3>3. T \in SUBSET SalesMade /\ (Unvoided(T) => T = {})
        BY <1>5, <1>6, <1>11, <3>2, LinesOfDay
      <3>4. Books!Subtotal(T) \in Nat
        BY <3>3, SalesOfSet
      <3>5. Unvoided(T)' => InTime(T, <<"popularity", d>>)' = {}
        BY <1>3, <3>3 DEF Unvoided, JobStep, InTime
      <3>6. new.revenue <= Books!Subtotal(T) /\ d < now'
        BY <1>2, <1>3, <1>8, <3>4 DEF JobStep
      <3>7. Unvoided(T)' => /\ new.quantity = Books!Quantity(InTime(T, <<"popularity", d>>)')
                            /\ new.orders = Books!Count(InTime(T, <<"popularity", d>>)')
        BY <1>8, <3>5, NoneOf
      <3>. QED
        BY <1>8, <3>1, <3>2, <3>6, <3>7 DEF ProductKept, Books!Subtotal, Books!Quantity, Books!Sum, Books!Count
    <2>8. ASSUME NEW x \in Branches, NEW y \in Days, NEW q \in ProductsSold PROVE ProductKept(x, q, y)'
      <3>1. CASE x = st /\ q = p /\ y = d
        BY <2>7, <3>1
      <3>2. CASE x # st \/ q # p \/ y # d
        <4>1. product'[x][q][y] = product[x][q][y]
          BY <2>2, <2>4, <2>5, <3>2
        <4>2. ProductKept(x, q, y)
          BY DEF JobsInductive
        <4>. QED
          BY <1>3, <1>4, <4>1, <4>2, ProductSame
      <3>. QED
        BY <3>1, <3>2
    <2>9. ASSUME NEW x \in Branches, NEW y \in Days, NEW h \in Hours PROVE HourKept(x, h, y)'
      BY <1>3, <1>4, HourSame DEF JobsInductive
    <2>. QED
      BY <1>5, <2>6, <2>8, <2>9 DEF JobsInductive
  <1>. QED
    BY <1>9, <1>10, <1>11

LEMMA PopularityJobKeeps ==
    ASSUME JobsInductive, Books!runDaily
    PROVE  JobsInductive'
  <1>1. PICK d \in Days : d = now
    BY DEF JobsInductive, SalesKept, SalesTyped
  <1>2. PICK what : what = <<"popularity", d>>
    OBVIOUS
  <1>3. JobStep /\ UNCHANGED hourly /\ ran' = ran \union {what} /\ what \notin ran
    BY <1>1, <1>2 DEF Books!runDaily, Books!FirstRun, Books!figuresVars, JobStep
  <1>4. /\ \A y : y # d => (<<"popularity", y>> \in ran' <=> <<"popularity", y>> \in ran)
        /\ \A h, y : <<"hour", h, y>> \in ran' <=> <<"hour", h, y>> \in ran
    BY <1>2, <1>3, JobsDiffer
  <1>5. SalesKept' /\ FinishedKept' /\ FinishedKept /\ JobsTyped
    BY <1>3, JobKeepsSales DEF JobsInductive
  <1>6. ASSUME NEW st \in Branches, NEW p \in ProductsSold, NEW S, S = Books!LinesOf(st, p, d)
        PROVE  /\ S # {} => product'[st][p] = [product[st][p] EXCEPT ![d] =
                      [exists |-> TRUE, quantity |-> Books!Quantity(S), orders |-> Books!Count(S),
                       revenue |-> Books!Subtotal(S)]]
               /\ S = {} => product'[st][p] = product[st][p]
    <2>1. p \in DOMAIN Books!SoldSoFar(st, d) <=> S # {}
      BY <1>6 DEF Books!SoldSoFar, Books!LinesOf
    <2>2. p \in DOMAIN Books!SoldSoFar(st, d) => Books!SoldSoFar(st, d)[p] =
             [exists |-> TRUE, quantity |-> Books!Quantity(S), orders |-> Books!Count(S),
              revenue |-> Books!Subtotal(S)]
      BY <1>6 DEF Books!SoldSoFar
    <2>3. product'[st][p] = IF p \in DOMAIN Books!SoldSoFar(st, d)
                              THEN [product[st][p] EXCEPT ![d] = Books!SoldSoFar(st, d)[p]]
                              ELSE product[st][p]
      BY <1>1 DEF Books!runDaily, ProductsSold
    <2>. QED
      BY <2>1, <2>2, <2>3
  <1>7. ASSUME NEW st \in Branches, NEW p \in ProductsSold
        PROVE  /\ product'[st][p] \in [Days -> ProductRows \union {Books!NoRow}]
               /\ \A y \in Days : ProductKept(st, p, y)'
    <2> DEFINE Rows == ProductRows \union {Books!NoRow}
    <2>1. PICK S : S = Books!LinesOf(st, p, d)
      OBVIOUS
    <2>2. PICK T : T = Of(st, d, Selling(p)) /\ T = Of(st, d, Selling(p))'
      BY <1>3 DEF Of, JobStep
    <2>3. T \in SUBSET SalesMade /\ S \in SUBSET SalesMade /\ S \subseteq T /\ (Unvoided(T) => S = T)
      BY <1>5, <2>1, <2>2, LinesOfDay
    <2>4. InTime(T, what)' = T
      <3>1. \A s : <<s, what>> \notin late'
        BY <1>3, <1>5 DEF FinishedKept, JobStep
      <3>. QED
        BY <3>1 DEF InTime
    <2>5. Unvoided(T)' <=> Unvoided(T)
      BY <1>3 DEF Unvoided, JobStep
    <2>6. product[st][p] \in [Days -> Rows]
      BY <1>5 DEF JobsTyped
    <2>7. ASSUME NEW y \in Days, y # d, product'[st][p][y] = product[st][p][y] PROVE ProductKept(st, p, y)'
      <3>1. ProductKept(st, p, y)
        BY DEF JobsInductive
      <3>. QED
        BY <1>3, <1>4, <2>7, <3>1, ProductSame
    <2>8. CASE S # {}
      <3>1. PICK new \in ProductRows : new =
                [exists |-> TRUE, quantity |-> Books!Quantity(S), orders |-> Books!Count(S),
                 revenue |-> Books!Subtotal(S)]
        BY <2>3, RowOf
      <3>2. product'[st][p] = [product[st][p] EXCEPT ![d] = new]
        BY <1>6, <2>1, <2>8, <3>1
      <3>3. /\ product'[st][p] \in [Days -> Rows] /\ product'[st][p][d] = new
            /\ \A y \in Days \ {d} : product'[st][p][y] = product[st][p][y]
        BY <2>6, <3>2
      <3>4. /\ new.exists /\ new.quantity = Books!Quantity(S) /\ new.orders = Books!Count(S)
            /\ new.revenue = Books!Subtotal(S)
        BY <3>1
      <3>5. new.revenue <= Books!Subtotal(T)
        BY <2>3, <3>4, PartOfSet
      <3>6. Unvoided(T)' => new.quantity = Books!Quantity(T) /\ new.orders = Books!Count(T)
        BY <2>3, <2>5, <3>4
      <3>7. ProductKept(st, p, d)'
        BY <1>2, <1>3, <2>2, <2>4, <3>3, <3>4, <3>5, <3>6
           DEF ProductKept, Books!Subtotal, Books!Quantity, Books!Sum, Books!Count
      <3>. QED
        BY <2>7, <3>3, <3>7
    <2>9. CASE S = {}
      <3>1. product'[st][p] = product[st][p]
        BY <1>6, <2>1, <2>9
      <3>2. ~product[st][p][d].exists
        <4>1. ProductKept(st, p, d)
          BY DEF JobsInductive
        <4>2. ~(d < now)
          BY <1>1, BooksFacts
        <4>. QED
          BY <1>2, <1>3, <4>1, <4>2 DEF ProductKept
      <3>3. Unvoided(T)' => T = {}
        BY <2>3, <2>5, <2>9
      <3>4. ProductKept(st, p, d)'
        BY <1>2, <2>2, <2>4, <3>1, <3>2, <3>3 DEF ProductKept
      <3>. QED
        BY <2>6, <2>7, <3>1, <3>4
    <2>. QED
      BY <2>8, <2>9
  <1>8. JobsTyped'
    <2>1. product' \in [Branches -> [ProductsSold -> [Days -> ProductRows \union {Books!NoRow}]]]
      <3>1. PICK F : F = [st \in Branches |-> [p \in ProductsSold |-> product'[st][p]]]
        OBVIOUS
      <3>2. product' = F
        BY <3>1 DEF Books!runDaily, ProductsSold
      <3>. QED
        BY <1>7, <3>1, <3>2
    <2>. QED
      BY <1>3, <1>5, <2>1 DEF JobsTyped
  <1>9. ASSUME NEW x \in Branches, NEW y \in Days, NEW h \in Hours PROVE HourKept(x, h, y)'
    BY <1>3, <1>4, HourSame DEF JobsInductive
  <1>. QED
    BY <1>5, <1>7, <1>8, <1>9 DEF JobsInductive

LEMMA HourlyJobKeeps ==
    ASSUME JobsInductive, NEW h \in Hours, Books!HourlyRevenueJob(h)
    PROVE  JobsInductive'
  <1>1. PICK d \in Days : d = now
    BY DEF JobsInductive, SalesKept, SalesTyped
  <1>2. PICK what : what = <<"hour", h, d>>
    OBVIOUS
  <1>3. JobStep /\ UNCHANGED product /\ ran' = ran \union {what} /\ what \notin ran
    BY <1>1, <1>2 DEF Books!HourlyRevenueJob, Books!FirstRun, Books!figuresVars, JobStep
  <1>4. /\ \A y : <<"popularity", y>> \in ran' <=> <<"popularity", y>> \in ran
        /\ \A k, y : k # h \/ y # d => (<<"hour", k, y>> \in ran' <=> <<"hour", k, y>> \in ran)
    BY <1>2, <1>3, JobsDiffer
  <1>5. SalesKept' /\ FinishedKept' /\ FinishedKept /\ JobsTyped
    BY <1>3, JobKeepsSales DEF JobsInductive
  <1>6. ASSUME NEW st \in Branches
        PROVE  /\ hourly'[st] \in [Hours -> [Days -> HourRows \union {Books!NoRow}]]
               /\ \A k \in Hours, y \in Days : HourKept(st, k, y)'
    <2> DEFINE Rows == HourRows \union {Books!NoRow}
    <2>1. PICK S : S = Books!InHour(st, h, d)
      OBVIOUS
    <2>2. PICK T : T = Of(st, d, At(h)) /\ T = Of(st, d, At(h))'
      BY <1>3 DEF Of, JobStep
    <2>3. T \in SUBSET SalesMade /\ S \in SUBSET SalesMade /\ S \subseteq T /\ (Unvoided(T) => S = T)
      BY <1>5, <2>1, <2>2, OrdersOfHour
    <2>4. InTime(T, what)' = T
      <3>1. \A s : <<s, what>> \notin late'
        BY <1>3, <1>5 DEF FinishedKept, JobStep
      <3>. QED
        BY <3>1 DEF InTime
    <2>5. Unvoided(T)' <=> Unvoided(T)
      BY <1>3 DEF Unvoided, JobStep
    <2>6. hourly[st] \in [Hours -> [Days -> Rows]]
      BY <1>5 DEF JobsTyped
    <2>7. ASSUME NEW k \in Hours, NEW y \in Days, k # h \/ y # d, hourly'[st][k][y] = hourly[st][k][y]
          PROVE  HourKept(st, k, y)'
      <3>1. HourKept(st, k, y)
        BY DEF JobsInductive
      <3>. QED
        BY <1>3, <1>4, <2>7, <3>1, HourSame
    <2>8. hourly'[st] = IF S = {} THEN hourly[st]
                        ELSE [hourly[st] EXCEPT ![h] = [hourly[st][h] EXCEPT ![d] =
                                 [exists |-> TRUE, revenue |-> Books!Revenue(S), orders |-> Books!Count(S)]]]
      BY <1>1, <1>5, <2>1 DEF Books!HourlyRevenueJob, JobsTyped
    <2>9. CASE S # {}
      <3>1. PICK new \in HourRows : new =
                [exists |-> TRUE, revenue |-> Books!Revenue(S), orders |-> Books!Count(S)]
        BY <2>3, RowOf
      <3>2. PICK days : days = [hourly[st][h] EXCEPT ![d] = new]
        OBVIOUS
      <3>3. days \in [Days -> Rows] /\ days[d] = new /\ \A y \in Days \ {d} : days[y] = hourly[st][h][y]
        BY <2>6, <3>2
      <3>4. hourly'[st] = [hourly[st] EXCEPT ![h] = days]
        BY <2>8, <2>9, <3>1, <3>2
      <3>5. /\ hourly'[st] \in [Hours -> [Days -> Rows]] /\ hourly'[st][h] = days
            /\ \A k \in Hours \ {h} : hourly'[st][k] = hourly[st][k]
        BY <2>6, <3>3, <3>4
      <3>6. new.exists /\ new.orders = Books!Count(S) /\ new.revenue = Books!Revenue(S)
        BY <3>1
      <3>7. new.revenue <= Books!Revenue(T)
        BY <2>3, <3>6, PartOfSet
      <3>8. Unvoided(T)' => new.orders = Books!Count(T)
        BY <2>3, <2>5, <3>6
      <3>9. HourKept(st, h, d)'
        BY <1>2, <1>3, <2>2, <2>4, <3>3, <3>5, <3>6, <3>7, <3>8 DEF HourKept, Books!Revenue, Books!Count
      <3>10. \A k \in Hours, y \in Days : k # h \/ y # d => hourly'[st][k][y] = hourly[st][k][y]
        BY <3>3, <3>5
      <3>. QED
        BY <2>7, <3>5, <3>9, <3>10
    <2>10. CASE S = {}
      <3>1. hourly'[st] = hourly[st]
        BY <2>8, <2>10
      <3>2. ~hourly[st][h][d].exists
        <4>1. HourKept(st, h, d)
          BY DEF JobsInductive
        <4>. QED
          BY <1>2, <1>3, <4>1 DEF HourKept
      <3>3. Unvoided(T)' => T = {}
        BY <2>3, <2>5, <2>10
      <3>4. HourKept(st, h, d)'
        BY <1>2, <2>2, <2>4, <3>1, <3>2, <3>3 DEF HourKept
      <3>. QED
        BY <2>6, <2>7, <3>1, <3>4
    <2>. QED
      BY <2>9, <2>10
  <1>7. JobsTyped'
    <2>1. hourly' \in [Branches -> [Hours -> [Days -> HourRows \union {Books!NoRow}]]]
      <3>1. PICK F : F = [st \in Branches |-> hourly'[st]]
        OBVIOUS
      <3>2. hourly' = F
        BY <3>1 DEF Books!HourlyRevenueJob
      <3>. QED
        BY <1>6, <3>1, <3>2
    <2>. QED
      BY <1>3, <1>5, <2>1 DEF JobsTyped
  <1>8. ASSUME NEW x \in Branches, NEW y \in Days, NEW p \in ProductsSold PROVE ProductKept(x, p, y)'
    BY <1>3, <1>4, ProductSame DEF JobsInductive
  <1>. QED
    BY <1>5, <1>6, <1>7, <1>8 DEF JobsInductive

\* What a reader of the rows sees: those of the orders that were completed.
LEMMA OrdersReport ==
    ASSUME JobsInductive
    PROVE  Books!ProductsFollowOrders /\ Books!HoursFollowOrders
  <1>1. \A s : s \in finished => s \in SalesMade /\ sales[s].order # "none"
    BY DEF JobsInductive, FinishedKept
  <1>2. ASSUME NEW st, NEW d, NEW G, \A s \in G : s \in SalesMade,
               NEW S, S = {s \in Books!PlacedOn(st, d) : s \in G /\ s \in finished}
        PROVE  S = Of(st, d, G)
    BY <1>1, <1>2 DEF Of, Books!PlacedOn, Books!Placed
  <1>3. ASSUME NEW st \in Branches, NEW p \in Books!ProductsSold, NEW d \in Days,
               NEW S, S = {s \in Books!PlacedOn(st, d) : ForSale[s].product = p /\ s \in finished}
        PROVE  LET counted == {s \in S : <<s, <<"popularity", d>>>> \notin late}
               IN  /\ product[st][p][d].exists => product[st][p][d].revenue <= Books!Subtotal(S)
                   /\ <<"popularity", d>> \in ran /\ Books!NoneVoided(S) =>
                         IF product[st][p][d].exists
                           THEN /\ product[st][p][d].quantity = Books!Quantity(counted)
                                /\ product[st][p][d].orders = Books!Count(counted)
                           ELSE counted = {}
    <2>1. S = {s \in Books!PlacedOn(st, d) : s \in Selling(p) /\ s \in finished}
      BY <1>3 DEF Selling, Books!PlacedOn, Books!Placed
    <2>2. \A s \in Selling(p) : s \in SalesMade
      BY DEF Selling
    <2>3. S = Of(st, d, Selling(p))
      BY <1>2, <2>1, <2>2
    <2>4. ProductKept(st, p, d)
      BY <1>3 DEF JobsInductive, ProductsSold
    <2>. QED
      BY <2>3, <2>4 DEF ProductKept, InTime, Unvoided, Books!NoneVoided
  <1>4. ASSUME NEW st \in Branches, NEW h \in Books!Hours, NEW d \in Days,
               NEW S, S = {s \in Books!PlacedOn(st, d) : ForSale[s].hour = h /\ s \in finished}
        PROVE  LET counted == {s \in S : <<s, <<"hour", h, d>>>> \notin late}
               IN  /\ hourly[st][h][d].exists => hourly[st][h][d].revenue <= Books!Revenue(S)
                   /\ <<"hour", h, d>> \in ran /\ Books!NoneVoided(S) =>
                         IF hourly[st][h][d].exists THEN hourly[st][h][d].orders = Books!Count(counted)
                                                    ELSE counted = {}
    <2>1. S = {s \in Books!PlacedOn(st, d) : s \in At(h) /\ s \in finished}
      BY <1>4 DEF At, Books!PlacedOn, Books!Placed
    <2>2. \A s \in At(h) : s \in SalesMade
      BY DEF At
    <2>3. S = Of(st, d, At(h))
      BY <1>2, <2>1, <2>2
    <2>4. HourKept(st, h, d)
      BY <1>4 DEF JobsInductive, Hours
    <2>. QED
      BY <2>3, <2>4 DEF HourKept, InTime, Unvoided, Books!NoneVoided
  <1>5. Books!ProductsFollowOrders
    BY <1>3 DEF Books!ProductsFollowOrders, Days
  <1>6. Books!HoursFollowOrders
    BY <1>4 DEF Books!HoursFollowOrders, Days
  <1>. QED
    BY <1>5, <1>6

-----------------------------------------------------------------------------
(* Items and jobs together.                                                *)

\* Nothing was counted yet.
LEMMA ItemsStart == ASSUME Books!ProductInit PROVE ItemsInductive
  <1>1. MetricsInductive
    BY EventsStart
  <1>2. /\ stage = [s \in SalesMade |-> [k \in Kinds |-> Books!NoStage]]
        /\ items = [st \in Branches |-> [d \in Days |-> Books!Empty]]
        /\ category = [st \in Branches |-> [c \in Categories |-> [d \in Days |-> Books!Empty]]]
    BY DEF Books!ProductInit, Kinds, Days, Categories
  <1>3. 0 \in Days
    BY BooksFacts
  <1>4. Books!NoStage \in StageRows /\ Books!Empty \in CountRows
    BY <1>3 DEF Books!NoStage, Books!Empty, StageRows, CountRows
  <1>5. ItemsTyped
    BY <1>1, <1>2, <1>4 DEF ItemsTyped, MetricsInductive
  <1>6. \A s \in SalesMade, k \in Kinds : stage[s][k].at = "idle"
    BY <1>2 DEF Books!NoStage
  <1>7. \A s \in SalesMade : StageFits(s)
    BY <1>6, BooksFacts DEF StageFits
  <1>8. ASSUME NEW st, NEW C, NEW d, NEW ats \in {{"store", "done"}, {"done"}}
        PROVE  Whole(Shares(st, C, d, ats)) = 0
    <2>1. \A s \in SalesMade : NetWorth(s, d, ats) = 0
      BY <1>6, BooksFacts DEF NetWorth, Worth
    <2>2. PICK f : f = Shares(st, C, d, ats)
      OBVIOUS
    <2>3. \A s \in SalesMade : f[s] = 0
      BY <2>1, <2>2 DEF Shares
    <2>. QED
      BY <2>2, <2>3, BooksFacts, SumZeros DEF Whole
  <1>9. ASSUME NEW st \in Branches, NEW d \in Days
        PROVE  /\ items[st][d].sold = Whole(ItemShares(st, d))
               /\ \A c \in Categories : category[st][c][d].sold = Whole(CategoryShares(st, c, d))
    <2>1. items[st][d].sold = 0 /\ \A c \in Categories : category[st][c][d].sold = 0
      BY <1>2 DEF Books!Empty
    <2>2. PICK a, b : a = {"store", "done"} /\ b = {"done"}
      OBVIOUS
    <2>3. Whole(Shares(st, Categories, d, a)) = 0 /\ \A c \in Categories : Whole(Shares(st, {c}, d, b)) = 0
      BY <1>8, <2>2
    <2>. QED
      BY <2>1, <2>2, <2>3 DEF ItemShares, CategoryShares
  <1>. QED
    BY <1>1, <1>5, <1>7, <1>9 DEF ItemsInductive, MetricsInductive

LEMMA JobsStart == ASSUME Books!ProductInit PROVE JobsInductive
  <1>1. SalesKept
    BY EventsStart DEF MetricsInductive
  <1>2. /\ product = [st \in Branches |-> [p \in ProductsSold |-> [d \in Days |-> Books!NoRow]]]
        /\ hourly = [st \in Branches |-> [h \in Hours |-> [d \in Days |-> Books!NoRow]]]
        /\ ran = {} /\ finished = {} /\ late = {}
    BY DEF Books!ProductInit, ProductsSold, Hours, Days
  <1>3. \A s \in SalesMade : sales[s] = Books!NoSale
    BY DEF Books!ProductInit, Books!Init
  <1>4. FinishedKept
    BY <1>2, <1>3 DEF FinishedKept, Books!NoSale
  <1>5. JobsTyped
    BY <1>2 DEF JobsTyped
  <1>6. ASSUME NEW st \in Branches, NEW d \in Days
        PROVE  /\ \A p \in ProductsSold : ProductKept(st, p, d)
               /\ \A h \in Hours : HourKept(st, h, d)
    BY <1>2, RowsExist DEF ProductKept, HourKept
  <1>. QED
    BY <1>1, <1>4, <1>5, <1>6 DEF JobsInductive

\* The sales go on: neither kind of row is touched.
LEMMA SalesKeepRows ==
    ASSUME ItemsInductive, JobsInductive, Books!SaleStep
    PROVE  ItemsInductive' /\ JobsInductive'
  <1>1. /\ SalesKept' /\ SalesStep /\ FinishedStep
        /\ UNCHANGED <<stage, items, category, metrics>>
        /\ UNCHANGED <<product, hourly, ran>>
        /\ now' \in Days /\ now <= now'
    BY SaleStepMoves DEF ItemsInductive
  <1>. QED
    BY <1>1, ItemsSalesMove, JobsSalesMove

\* The sales do not change while a handler counts or a job runs.
LEMMA CountingLeavesJobs ==
    ASSUME JobsInductive, UNCHANGED <<now, sales, call, product, hourly, ran, finished, late>>
    PROVE  JobsInductive'
  BY JobsSame DEF JobStep

LEMMA JobLeavesItems ==
    ASSUME ItemsInductive, UNCHANGED <<now, sales, call, stage, items, category, metrics>>
    PROVE  ItemsInductive'
  <1>1. now' \in Days
    BY DEF ItemsInductive, SalesKept, SalesTyped
  <1>2. SalesKept' /\ SalesStep
    BY <1>1, TickMoves DEF ItemsInductive
  <1>. QED
    BY <1>2, ItemsSalesMove

LEMMA ProductsStep ==
    ASSUME ItemsInductive, JobsInductive,
           Books!ItemsNext \/ Books!ProductJobsNext \/ UNCHANGED booksVars
    PROVE  ItemsInductive' /\ JobsInductive'
  <1>1. CASE Books!SaleStep
    BY <1>1, SalesKeepRows
  <1>2. ASSUME NEW s \in SalesMade, Books!ItemsSold(s) \/ Books!CategorySold(s)
        PROVE  ItemsInductive' /\ JobsInductive'
    <2>1. UNCHANGED <<now, sales, call, product, hourly, ran, finished, late>>
      BY <1>2 DEF Books!ItemsSold, Books!CategorySold, Books!figuresVars
    <2>. QED
      BY <1>2, <2>1, ItemsSoldKeeps, CategorySoldKeeps, CountingLeavesJobs
  <1>3. ASSUME NEW s \in SalesMade, NEW k \in Books!Reversals,
               Books!ItemsReversed(s, k) \/ Books!CategoryReversed(s, k)
        PROVE  ItemsInductive' /\ JobsInductive'
    <2>1. UNCHANGED <<now, sales, call, product, hourly, ran, finished, late>>
      BY <1>3 DEF Books!ItemsReversed, Books!CategoryReversed, Books!figuresVars
    <2>. QED
      BY <1>3, <2>1, ItemsReversedKeeps, CategoryReversedKeeps, CountingLeavesJobs
  <1>4. ASSUME NEW s \in SalesMade, NEW k \in Books!Reversals \union {"sold"}, Books!CountFails(s, k)
        PROVE  ItemsInductive' /\ JobsInductive'
    <2>1. UNCHANGED <<now, sales, call, product, hourly, ran, finished, late>>
      BY <1>4 DEF Books!CountFails, Books!figuresVars
    <2>. QED
      BY <1>4, <2>1, CountFailsKeeps, CountingLeavesJobs
  <1>5. ASSUME NEW st \in Branches, NEW p \in Books!ProductsOf(st), Books!calculateProductMetrics(st, p)
        PROVE  ItemsInductive' /\ JobsInductive'
    <2>1. UNCHANGED <<now, sales, call, stage, items, category, metrics>>
      BY <1>5 DEF Books!calculateProductMetrics, Books!figuresVars
    <2>. QED
      BY <1>5, <2>1, MetricsJobKeeps, JobLeavesItems
  <1>6. CASE Books!runDaily
    <2>1. UNCHANGED <<now, sales, call, stage, items, category, metrics>>
      BY <1>6 DEF Books!runDaily, Books!figuresVars
    <2>. QED
      BY <1>6, <2>1, PopularityJobKeeps, JobLeavesItems
  <1>7. ASSUME NEW h \in Hours, Books!HourlyRevenueJob(h)
        PROVE  ItemsInductive' /\ JobsInductive'
    <2>1. UNCHANGED <<now, sales, call, stage, items, category, metrics>>
      BY <1>7 DEF Books!HourlyRevenueJob, Books!figuresVars
    <2>. QED
      BY <1>7, <2>1, HourlyJobKeeps, JobLeavesItems
  <1>8. CASE UNCHANGED booksVars
    <2>1. /\ UNCHANGED <<now, sales, call, stage, items, category, metrics>>
          /\ UNCHANGED <<now, sales, call, product, hourly, ran, finished, late>>
      BY <1>8 DEF booksVars
    <2>. QED
      BY <2>1, CountingLeavesJobs, JobLeavesItems
  <1>9. CASE Books!ItemsNext
    BY <1>1, <1>2, <1>3, <1>4, <1>9 DEF Books!ItemsNext
  <1>10. CASE Books!ProductJobsNext
    BY <1>1, <1>5, <1>6, <1>7, <1>10 DEF Books!ProductJobsNext, Hours
  <1>. QED
    BY <1>8, <1>9, <1>10

ProductsFollowed == focus \in {"items", "products"} => ItemsInductive /\ JobsInductive

LEMMA ProductsAreKept == Spec => []ProductsFollowed
  <1>1. Init => ProductsFollowed
    BY ItemsStart, JobsStart DEF Init, ProductsFollowed
  <1>2. ProductsFollowed /\ [Next]_everyVar => ProductsFollowed'
    <2>. SUFFICES ASSUME ProductsFollowed, [Next]_everyVar PROVE ProductsFollowed'
      OBVIOUS
    <2>1. focus' = focus
      BY DEF Next, everyVar
    <2>2. focus \in {"items", "products"} =>
              Books!ItemsNext \/ Books!ProductJobsNext \/ UNCHANGED booksVars
      BY DEF Next, everyVar
    <2>. QED
      BY <2>1, <2>2, ProductsStep DEF ProductsFollowed
  <1>. QED
    BY <1>1, <1>2, PTL DEF Spec


-----------------------------------------------------------------------------
(* The reports over these rows.                                            *)

\* What can be sold, and when, is finite, and so are the keys of the rows.
LEMMA FiniteTables ==
    /\ IsFiniteSet(ProductsSold) /\ IsFiniteSet(Branches \X Days)
    /\ IsFiniteSet(Branches \X Hours \X Days)
  <1>1. IsFiniteSet(ProductsSold)
    <2>1. PICK f : f = [s \in SalesMade |-> ForSale[s].product]
      OBVIOUS
    <2>2. f \in Surjection(SalesMade, ProductsSold)
      BY <2>1 DEF Surjection, ProductsSold, Books!ProductsSold
    <2>. QED
      BY <2>2, BooksFacts, FS_Surjection
  <1>2. IsFiniteSet(Hours)
    <2>1. PICK f : f = [s \in SalesMade |-> ForSale[s].hour]
      OBVIOUS
    <2>2. f \in Surjection(SalesMade, Hours)
      BY <2>1 DEF Surjection, Hours, Books!Hours
    <2>. QED
      BY <2>2, BooksFacts, FS_Surjection
  <1>3. IsFiniteSet(Branches \X Days) /\ IsFiniteSet(Branches \X (Hours \X Days))
    BY <1>2, BooksFacts, FS_Product
  <1>4. IsFiniteSet(Branches \X Hours \X Days)
    <2>1. PICK f : f = [x \in Branches \X (Hours \X Days) |-> <<x[1], x[2][1], x[2][2]>>]
      OBVIOUS
    <2>2. \A x \in Branches \X (Hours \X Days) : f[x] \in Branches \X Hours \X Days
      BY <2>1
    <2>3. ASSUME NEW y \in Branches \X Hours \X Days
          PROVE  \E x \in Branches \X (Hours \X Days) : f[x] = y
      <3>1. PICK x : x = <<y[1], <<y[2], y[3]>>>>
        OBVIOUS
      <3>2. x \in Branches \X (Hours \X Days)
        BY <3>1
      <3>3. f[x] = <<y[1], y[2], y[3]>>
        BY <2>1, <3>1, <3>2
      <3>. QED
        BY <3>2, <3>3
    <2>4. f \in [Branches \X (Hours \X Days) -> Branches \X Hours \X Days]
      BY <2>1, <2>2
    <2>5. f \in Surjection(Branches \X (Hours \X Days), Branches \X Hours \X Days)
      BY <2>3, <2>4 DEF Surjection
    <2>. QED
      BY <1>3, <2>5, FS_Surjection
  <1>. QED
    BY <1>1, <1>3, <1>4

\* An order that was completed is one of a store, a day, a product and an hour.
LEMMA FinishedSale ==
    ASSUME JobsInductive, NEW s \in finished
    PROVE  /\ s \in SalesMade /\ sales[s].store \in Branches /\ sales[s].placed \in Days
           /\ ForSale[s].product \in ProductsSold /\ ForSale[s].hour \in Hours
           /\ ForSale[s].price \in Nat /\ ForSale[s].subtotal \in Nat
  <1>1. s \in SalesMade /\ sales[s].order # "none"
    BY DEF JobsInductive, FinishedKept
  <1>2. Fits(s, sales[s], Emitted(s)) /\ sales[s] \in SaleRows
    BY <1>1 DEF JobsInductive, SalesKept, SalesTyped
  <1>3. sales[s].store \in Branches /\ sales[s].placed \in Days
    BY <1>1, <1>2 DEF Fits, SaleRows
  <1>4. ForSale[s].product \in ProductsSold /\ ForSale[s].hour \in Hours
    BY <1>1 DEF ProductsSold, Books!ProductsSold, Hours, Books!Hours
  <1>. QED
    BY <1>1, <1>3, <1>4, BooksFacts

\* The rows of a product, and a column of them.
RowsOf(p) == Books!ProductRows(Branches, p, Days)
Sold(p) == [r \in RowsOf(p) |-> product[r[1]][p][r[2]].quantity]
Earned(p) == [r \in RowsOf(p) |-> product[r[1]][p][r[2]].revenue]
HourlyRows(D) == {r \in Branches \X Hours \X D : hourly[r[1]][r[2]][r[3]].exists}
Taken(D) == [r \in HourlyRows(D) |-> hourly[r[1]][r[2]][r[3]].revenue]
Subtotals == [s \in finished |-> ForSale[s].subtotal]
Prices == [s \in finished |-> ForSale[s].price]

LEMMA ReportRows ==
    ASSUME JobsInductive
    PROVE  /\ \A p \in ProductsSold : \A r \in RowsOf(p) :
                  /\ r \in Branches \X Days /\ product[r[1]][p][r[2]].exists
                  /\ Sold(p)[r] \in Nat /\ Earned(p)[r] \in Nat
                  /\ Earned(p)[r] <= Books!Subtotal(Of(r[1], r[2], Selling(p)))
           /\ \A r \in HourlyRows(Days) :
                  /\ r \in Branches \X Hours \X Days
                  /\ Taken(Days)[r] \in Nat
                  /\ Taken(Days)[r] <= Books!Revenue(Of(r[1], r[3], At(r[2])))
  <1>1. ASSUME NEW p \in ProductsSold, NEW r \in RowsOf(p)
        PROVE  /\ r \in Branches \X Days /\ product[r[1]][p][r[2]].exists
               /\ Sold(p)[r] \in Nat /\ Earned(p)[r] \in Nat
               /\ Earned(p)[r] <= Books!Subtotal(Of(r[1], r[2], Selling(p)))
    <2>1. r \in Branches \X Days /\ product[r[1]][p][r[2]].exists
      BY <1>1 DEF RowsOf, Books!ProductRows, Days
    <2>2. PICK st \in Branches, d \in Days : st = r[1] /\ d = r[2]
      BY <2>1
    <2>3. product[st][p][d] \in ProductRows \union {Books!NoRow} /\ ProductKept(st, p, d)
      BY DEF JobsInductive, JobsTyped
    <2>4. /\ product[st][p][d].quantity \in Nat /\ product[st][p][d].revenue \in Nat
          /\ product[st][p][d].revenue <= Books!Subtotal(Of(st, d, Selling(p)))
      BY <2>1, <2>2, <2>3, RowsExist DEF ProductKept
    <2>. QED
      BY <2>1, <2>2, <2>4 DEF Sold, Earned
  <1>2. ASSUME NEW r \in HourlyRows(Days)
        PROVE  /\ r \in Branches \X Hours \X Days
               /\ Taken(Days)[r] \in Nat
               /\ Taken(Days)[r] <= Books!Revenue(Of(r[1], r[3], At(r[2])))
    <2>1. r \in Branches \X Hours \X Days /\ hourly[r[1]][r[2]][r[3]].exists
      BY <1>2 DEF HourlyRows
    <2>2. PICK st \in Branches, h \in Hours, d \in Days : st = r[1] /\ h = r[2] /\ d = r[3]
      BY <2>1
    <2>3. hourly[st][h][d] \in HourRows \union {Books!NoRow} /\ HourKept(st, h, d)
      BY DEF JobsInductive, JobsTyped
    <2>4. /\ hourly[st][h][d].revenue \in Nat
          /\ hourly[st][h][d].revenue <= Books!Revenue(Of(st, d, At(h)))
      BY <2>1, <2>2, <2>3, RowsExist DEF HourKept
    <2>. QED
      BY <2>1, <2>2, <2>4 DEF Taken
  <1>. QED
    BY <1>1, <1>2

\* The revenue of a product is no more than its orders come to.
LEMMA ProductEarns ==
    ASSUME JobsInductive, NEW p \in ProductsSold
    PROVE  /\ SumFunctionOnSet(Earned(p), RowsOf(p)) \in Nat
           /\ SumFunctionOnSet(Earned(p), RowsOf(p)) <=
                  SumFunctionOnSet(Subtotals, {s \in finished : ForSale[s].product = p})
  <1>1. PICK S : S = {s \in finished : ForSale[s].product = p}
    OBVIOUS
  <1>2. PICK f : f = Subtotals
    OBVIOUS
  <1>3. PICK K : K = Branches \X Days
    OBVIOUS
  <1>4. PICK group : group = [s \in S |-> <<sales[s].store, sales[s].placed>>]
    OBVIOUS
  <1>5. PICK g, R : g = Earned(p) /\ R = RowsOf(p)
    OBVIOUS
  <1>6. \A s \in S : f[s] \in Nat /\ group[s] \in K
    BY <1>1, <1>2, <1>3, <1>4, FinishedSale DEF Subtotals
  <1>7. IsFiniteSet(S) /\ IsFiniteSet(K)
    <2>1. S \in SUBSET SalesMade
      BY <1>1 DEF JobsInductive, FinishedKept
    <2>. QED
      BY <1>3, <2>1, FiniteTables, BooksFacts, FS_Subset
  <1>8. \A r \in R : r \in K /\ g[r] \in Nat /\ g[r] <= Books!Subtotal(Of(r[1], r[2], Selling(p)))
    BY <1>3, <1>5, ReportRows
  <1>9. ASSUME NEW r \in R
        PROVE  Books!Subtotal(Of(r[1], r[2], Selling(p))) = SumFunctionOnSet(f, {s \in S : group[s] = r})
    <2>1. PICK st \in Branches, d \in Days : st = r[1] /\ d = r[2] /\ r = <<st, d>>
      BY <1>3, <1>8
    <2>2. PICK T : T = Of(st, d, Selling(p))
      OBVIOUS
    <2>3. T = {s \in S : group[s] = r}
      BY <1>1, <1>4, <2>1, <2>2, FinishedSale DEF Of, Selling
    <2>4. PICK h : h = [s \in T |-> ForSale[s].subtotal]
      OBVIOUS
    <2>5. IsFiniteSet(T) /\ \A s \in T : h[s] \in Int /\ h[s] = f[s]
      <3>1. T \subseteq S
        BY <2>3
      <3>2. IsFiniteSet(T)
        BY <1>7, <3>1, FS_Subset
      <3>. QED
        BY <1>1, <1>2, <2>4, <3>1, <3>2, FinishedSale DEF Subtotals
    <2>6. SumFunctionOnSet(h, T) = SumFunctionOnSet(f, T)
      BY <2>5, SumSame
    <2>7. Books!Subtotal(T) = SumFunctionOnSet(h, T)
      BY <2>4, SumsOfBooks DEF Books!Subtotal, Books!Sum
    <2>. QED
      BY <2>1, <2>2, <2>3, <2>6, <2>7
  <1>10. Bounded(g, R, f, S, K, group)
    BY <1>6, <1>7, <1>8, <1>9 DEF Bounded
  <1>11. SumFunctionOnSet(g, R) <= SumFunctionOnSet(f, S)
    BY <1>10, SumBounded
  <1>12. SumFunctionOnSet(g, R) \in Nat
    <2>1. IsFiniteSet(R)
      BY <1>7, <1>8, FS_Subset
    <2>. QED
      BY <1>8, <2>1, SumNat
  <1>. QED
    BY <1>1, <1>2, <1>5, <1>11, <1>12

\* All products together earned no more than all orders that were completed.
LEMMA ProductsEarn ==
    ASSUME JobsInductive, NEW R \in SUBSET ProductsSold,
           NEW g, \A p \in R : g[p] = SumFunctionOnSet(Earned(p), RowsOf(p))
    PROVE  SumFunctionOnSet(g, R) <= Books!Subtotal(finished)
  <1>1. PICK f, S : f = Subtotals /\ S = finished
    OBVIOUS
  <1>2. PICK K, group : K = ProductsSold /\ group = [s \in S |-> ForSale[s].product]
    OBVIOUS
  <1>3. \A s \in S : f[s] \in Nat /\ group[s] \in K
    BY <1>1, <1>2, FinishedSale DEF Subtotals
  <1>4. IsFiniteSet(S) /\ IsFiniteSet(K)
    <2>1. S \in SUBSET SalesMade
      BY <1>1 DEF JobsInductive, FinishedKept
    <2>. QED
      BY <1>2, <2>1, FiniteTables, BooksFacts, FS_Subset
  <1>5. ASSUME NEW p \in R
        PROVE  p \in K /\ g[p] \in Nat /\ g[p] <= SumFunctionOnSet(f, {s \in S : group[s] = p})
    <2>1. {s \in S : group[s] = p} = {s \in finished : ForSale[s].product = p}
      BY <1>1, <1>2
    <2>. QED
      BY <1>1, <1>2, <2>1, ProductEarns
  <1>6. Bounded(g, R, f, S, K, group)
    BY <1>3, <1>4, <1>5 DEF Bounded
  <1>7. SumFunctionOnSet(g, R) <= SumFunctionOnSet(f, S)
    BY <1>6, SumBounded
  <1>8. Books!Subtotal(finished) = SumFunctionOnSet(f, S)
    BY <1>1, SumsOfBooks DEF Books!Subtotal, Books!Sum, Subtotals
  <1>. QED
    BY <1>7, <1>8

\* All hours together took no more than all orders that were completed.
LEMMA HoursEarn ==
    ASSUME JobsInductive
    PROVE  SumFunctionOnSet(Taken(Days), HourlyRows(Days)) <= Books!Revenue(finished)
  <1>1. PICK f, S : f = Prices /\ S = finished
    OBVIOUS
  <1>2. PICK K, group : /\ K = Branches \X Hours \X Days
                        /\ group = [s \in S |-> <<sales[s].store, ForSale[s].hour, sales[s].placed>>]
    OBVIOUS
  <1>3. PICK g, R : g = Taken(Days) /\ R = HourlyRows(Days)
    OBVIOUS
  <1>4. \A s \in S : f[s] \in Nat /\ group[s] \in K
    BY <1>1, <1>2, FinishedSale DEF Prices
  <1>5. IsFiniteSet(S) /\ IsFiniteSet(K)
    <2>1. S \in SUBSET SalesMade
      BY <1>1 DEF JobsInductive, FinishedKept
    <2>. QED
      BY <1>2, <2>1, FiniteTables, BooksFacts, FS_Subset
  <1>6. \A r \in R : r \in K /\ g[r] \in Nat /\ g[r] <= Books!Revenue(Of(r[1], r[3], At(r[2])))
    BY <1>2, <1>3, ReportRows
  <1>7. ASSUME NEW r \in R
        PROVE  Books!Revenue(Of(r[1], r[3], At(r[2]))) = SumFunctionOnSet(f, {s \in S : group[s] = r})
    <2>1. PICK st \in Branches, h \in Hours, d \in Days : st = r[1] /\ h = r[2] /\ d = r[3] /\ r = <<st, h, d>>
      BY <1>2, <1>6
    <2>2. PICK T : T = Of(st, d, At(h))
      OBVIOUS
    <2>3. T = {s \in S : group[s] = r}
      BY <1>1, <1>2, <2>1, <2>2, FinishedSale DEF Of, At
    <2>4. PICK b : b = [s \in T |-> ForSale[s].price]
      OBVIOUS
    <2>5. IsFiniteSet(T) /\ \A s \in T : b[s] \in Int /\ b[s] = f[s]
      <3>1. T \subseteq S
        BY <2>3
      <3>2. IsFiniteSet(T)
        BY <1>5, <3>1, FS_Subset
      <3>. QED
        BY <1>1, <2>4, <3>1, <3>2, FinishedSale DEF Prices
    <2>6. SumFunctionOnSet(b, T) = SumFunctionOnSet(f, T)
      BY <2>5, SumSame
    <2>7. Books!Revenue(T) = SumFunctionOnSet(b, T)
      BY <2>4, SumsOfBooks DEF Books!Revenue
    <2>. QED
      BY <2>1, <2>2, <2>3, <2>6, <2>7
  <1>8. Bounded(g, R, f, S, K, group)
    BY <1>4, <1>5, <1>6, <1>7 DEF Bounded
  <1>9. SumFunctionOnSet(g, R) <= SumFunctionOnSet(f, S)
    BY <1>8, SumBounded
  <1>10. Books!Revenue(finished) = SumFunctionOnSet(f, S)
    BY <1>1, SumsOfBooks DEF Books!Revenue, Prices
  <1>. QED
    BY <1>3, <1>9, <1>10


\* The sums of the reports are those of the columns.
LEMMA ReportColumns ==
    ASSUME NEW p \in ProductsSold
    PROVE  /\ RowsOf(p) # {} =>
                  /\ p \in DOMAIN Books!ProductTotals(Branches, Days)
                  /\ Books!ProductTotals(Branches, Days)[p].quantity = SumFunctionOnSet(Sold(p), RowsOf(p))
                  /\ Books!ProductTotals(Branches, Days)[p].revenue = SumFunctionOnSet(Earned(p), RowsOf(p))
           /\ p \in DOMAIN Books!ProductTotals(Branches, Days) => RowsOf(p) # {}
  <1>1. PICK R : R = RowsOf(p)
    OBVIOUS
  <1>2. PICK f, g : f = Sold(p) /\ g = Earned(p)
    OBVIOUS
  <1>3. /\ f = [r \in R |-> product[r[1]][p][r[2]].quantity]
        /\ g = [r \in R |-> product[r[1]][p][r[2]].revenue]
    BY <1>1, <1>2 DEF Sold, Earned
  <1>4. p \in DOMAIN Books!ProductTotals(Branches, Days) <=> R # {}
    BY <1>1 DEF Books!ProductTotals, RowsOf, ProductsSold
  <1>5. ASSUME R # {}
        PROVE  Books!ProductTotals(Branches, Days)[p] =
                   [quantity |-> Books!SumFunction(f), revenue |-> Books!SumFunction(g), count |-> Books!Count(R)]
    BY <1>1, <1>3, <1>5 DEF Books!ProductTotals, Books!Sum, RowsOf, ProductsSold
  <1>6. Books!SumFunction(f) = SumFunctionOnSet(f, R) /\ Books!SumFunction(g) = SumFunctionOnSet(g, R)
    BY <1>3, SumsOfBooks
  <1>. QED
    BY <1>1, <1>2, <1>4, <1>5, <1>6

\* A store's own report shows its part of a product.
LEMMA StoreColumn ==
    ASSUME NEW st \in Branches, NEW p \in ProductsSold, NEW R, R = {r \in RowsOf(p) : r[1] = st}
    PROVE  /\ p \in DOMAIN Books!getProductPerformance(st, Days) <=> R # {}
           /\ R # {} => Books!getProductPerformance(st, Days)[p].quantity
                            = Books!SumFunction([r \in R |-> product[r[1]][p][r[2]].quantity])
  <1>1. R = Books!ProductRows({st}, p, Days)
    BY DEF RowsOf, Books!ProductRows
  <1>. QED
    BY <1>1 DEF Books!getProductPerformance, Books!ProductTotals, Books!Sum, ProductsSold

LEMMA StoresAddUp ==
    ASSUME JobsInductive, NEW p \in ProductsSold, RowsOf(p) # {}
    PROVE  Books!ProductTotals(Branches, Days)[p].quantity =
               Books!Sum({st \in Branches : p \in DOMAIN Books!getProductPerformance(st, Days)},
                         LAMBDA st : Books!getProductPerformance(st, Days)[p].quantity)
  <1>1. PICK f, S : f = Sold(p) /\ S = RowsOf(p)
    OBVIOUS
  <1>2. PICK K : K = {st \in Branches : p \in DOMAIN Books!getProductPerformance(st, Days)}
    OBVIOUS
  <1>3. PICK h : h = [st \in K |-> Books!getProductPerformance(st, Days)[p].quantity]
    OBVIOUS
  <1>4. PICK group : group = [r \in S |-> r[1]]
    OBVIOUS
  <1>5. \A r \in S : r \in Branches \X Days /\ f[r] \in Nat
    BY <1>1, ReportRows
  <1>6. IsFiniteSet(S) /\ IsFiniteSet(K)
    <2>1. S \subseteq Branches \X Days /\ K \subseteq Branches
      BY <1>2, <1>5
    <2>. QED
      BY <2>1, FiniteTables, BooksFacts, FS_Subset
  <1>7. ASSUME NEW st \in Branches
        PROVE  /\ st \in K <=> {r \in S : group[r] = st} # {}
               /\ st \in K => h[st] = SumFunctionOnSet(f, {r \in S : group[r] = st})
    <2>1. PICK R : R = {r \in RowsOf(p) : r[1] = st}
      OBVIOUS
    <2>2. R = {r \in S : group[r] = st}
      BY <1>1, <1>4, <2>1
    <2>3. PICK g : g = [r \in R |-> product[r[1]][p][r[2]].quantity]
      OBVIOUS
    <2>4. /\ p \in DOMAIN Books!getProductPerformance(st, Days) <=> R # {}
          /\ R # {} => Books!getProductPerformance(st, Days)[p].quantity = Books!SumFunction(g)
      BY <2>1, <2>3, StoreColumn
    <2>5. Books!SumFunction(g) = SumFunctionOnSet(g, R)
      BY <2>3, SumsOfBooks
    <2>6. SumFunctionOnSet(g, R) = SumFunctionOnSet(f, R)
      <3>1. R \subseteq S
        BY <2>2
      <3>2. IsFiniteSet(R)
        BY <1>6, <3>1, FS_Subset
      <3>3. \A r \in R : g[r] \in Int /\ g[r] = f[r]
        <4>1. \A r \in R : g[r] = f[r]
          BY <1>1, <2>3, <3>1 DEF Sold
        <4>2. \A r \in R : f[r] \in Int
          BY <1>5, <3>1
        <4>. QED
          BY <4>1, <4>2
      <3>. QED
        BY <3>2, <3>3, SumSame
    <2>. QED
      BY <1>2, <1>3, <2>2, <2>4, <2>5, <2>6
  <1>8. Grouped(f, S, h, K, group)
    <2>1. ASSUME NEW r \in S PROVE f[r] \in Int /\ group[r] \in K
      <3>1. group[r] \in Branches /\ f[r] \in Int
        BY <1>4, <1>5
      <3>2. PICK st \in Branches : st = group[r]
        BY <3>1
      <3>3. r \in {x \in S : group[x] = st}
        BY <3>2
      <3>. QED
        BY <1>7, <3>1, <3>2, <3>3
    <2>2. \A st \in K : h[st] = SumFunctionOnSet(f, {x \in S : group[x] = st})
      BY <1>2, <1>7
    <2>. QED
      BY <1>6, <2>1, <2>2 DEF Grouped
  <1>9. SumFunctionOnSet(f, S) = SumFunctionOnSet(h, K)
    BY <1>8, SumGrouped
  <1>10. Books!ProductTotals(Branches, Days)[p].quantity = SumFunctionOnSet(f, S)
    BY <1>1, ReportColumns
  <1>11. Books!Sum(K, LAMBDA st : Books!getProductPerformance(st, Days)[p].quantity) = Books!SumFunction(h)
    BY <1>3 DEF Books!Sum
  <1>12. Books!SumFunction(h) = SumFunctionOnSet(h, K)
    BY <1>3, SumsOfBooks
  <1>. QED
    BY <1>2, <1>9, <1>10, <1>11, <1>12

\* The hours of single days add up to the hours of all.
LEMMA HourlyColumn ==
    ASSUME NEW D
    PROVE  Books!getHourlyRevenue(Branches, D) = SumFunctionOnSet(Taken(D), HourlyRows(D))
  <1>1. PICK f, R : f = Taken(D) /\ R = HourlyRows(D)
    OBVIOUS
  <1>2. f = [r \in R |-> hourly[r[1]][r[2]][r[3]].revenue]
    BY <1>1 DEF Taken
  <1>3. Books!getHourlyRevenue(Branches, D) = Books!SumFunction(f)
    BY <1>1, <1>2 DEF Books!getHourlyRevenue, Books!Sum, HourlyRows, Hours
  <1>. QED
    BY <1>1, <1>2, <1>3, SumsOfBooks

LEMMA DaysAddUp ==
    ASSUME JobsInductive
    PROVE  Books!RevenueOf([d \in Days |-> [revenue |-> Books!getHourlyRevenue(Branches, {d})]])
               = Books!getHourlyRevenue(Branches, Days)
  <1>1. PICK f, S : f = Taken(Days) /\ S = HourlyRows(Days)
    OBVIOUS
  <1>2. PICK h : h = [d \in Days |-> Books!getHourlyRevenue(Branches, {d})]
    OBVIOUS
  <1>3. PICK group : group = [r \in S |-> r[3]]
    OBVIOUS
  <1>4. \A r \in S : r \in Branches \X Hours \X Days /\ f[r] \in Nat
    BY <1>1, ReportRows
  <1>5. IsFiniteSet(S)
    <2>1. S \subseteq Branches \X Hours \X Days
      BY <1>4
    <2>. QED
      BY <2>1, FiniteTables, FS_Subset
  <1>6. ASSUME NEW d \in Days
        PROVE  h[d] = SumFunctionOnSet(f, {r \in S : group[r] = d})
    <2>1. PICK D : D = {d}
      OBVIOUS
    <2>2. PICK g, R : g = Taken(D) /\ R = HourlyRows(D)
      OBVIOUS
    <2>3. R = {r \in S : group[r] = d}
      BY <1>1, <1>3, <2>1, <2>2 DEF HourlyRows
    <2>4. SumFunctionOnSet(g, R) = SumFunctionOnSet(f, R)
      <3>1. R \subseteq S
        BY <2>3
      <3>2. IsFiniteSet(R)
        BY <1>5, <3>1, FS_Subset
      <3>3. \A r \in R : g[r] = f[r]
        BY <1>1, <2>2, <3>1 DEF Taken
      <3>4. \A r \in R : f[r] \in Int
        BY <1>4, <3>1
      <3>5. \A r \in R : g[r] \in Int /\ g[r] = f[r]
        BY <3>3, <3>4
      <3>. QED
        BY <3>2, <3>5, SumSame
    <2>5. h[d] = SumFunctionOnSet(g, R)
      BY <1>2, <2>1, <2>2, HourlyColumn
    <2>. QED
      BY <2>3, <2>4, <2>5
  <1>7. Grouped(f, S, h, Days, group)
    <2>1. \A r \in S : f[r] \in Int /\ group[r] \in Days
      BY <1>3, <1>4
    <2>. QED
      BY <1>5, <1>6, <2>1, BooksFacts DEF Grouped
  <1>8. SumFunctionOnSet(f, S) = SumFunctionOnSet(h, Days)
    BY <1>7, SumGrouped
  <1>9. Books!RevenueOf([d \in Days |-> [revenue |-> Books!getHourlyRevenue(Branches, {d})]]) = Books!SumFunction(h)
    <2>1. PICK rows : rows = [d \in Days |-> [revenue |-> Books!getHourlyRevenue(Branches, {d})]]
      OBVIOUS
    <2>2. DOMAIN rows = Days /\ \A d \in Days : rows[d].revenue = h[d]
      BY <1>2, <2>1
    <2>3. [d \in DOMAIN rows |-> rows[d].revenue] = h
      BY <1>2, <2>2
    <2>4. Books!RevenueOf(rows) = Books!SumFunction([d \in DOMAIN rows |-> rows[d].revenue])
      BY DEF Books!RevenueOf, Books!SumOf, Books!Sum
    <2>. QED
      BY <2>1, <2>3, <2>4
  <1>10. Books!SumFunction(h) = SumFunctionOnSet(h, Days)
    BY <1>2, SumsOfBooks
  <1>11. Books!getHourlyRevenue(Branches, Days) = SumFunctionOnSet(f, S)
    BY <1>1, HourlyColumn
  <1>. QED
    BY <1>8, <1>9, <1>10, <1>11

LEMMA ProductsReport ==
    ASSUME JobsInductive
    PROVE  Books!ProductReportsAgree
  <1>1. PICK rows : rows = Books!ProductTotals(Branches, Days)
    OBVIOUS
  <1>2. PICK report : report = Books!generateProductReport(Branches, Days)
    OBVIOUS
  <1>3. report.rows = rows /\ Books!getTopProducts(Branches, Days) = rows
    BY <1>1, <1>2 DEF Books!generateProductReport, Books!getTopProducts
  <1>4. DOMAIN rows \subseteq ProductsSold
    BY <1>1 DEF Books!ProductTotals, ProductsSold
  <1>5. ASSUME NEW p \in DOMAIN rows
        PROVE  rows[p].quantity =
                  Books!Sum({st \in Branches : p \in DOMAIN Books!getProductPerformance(st, Days)},
                            LAMBDA st : Books!getProductPerformance(st, Days)[p].quantity)
    <2>1. p \in ProductsSold /\ RowsOf(p) # {}
      BY <1>1, <1>4, ReportColumns
    <2>. QED
      BY <1>1, <2>1, StoresAddUp
  <1>6. report.totalRevenue <= Books!Subtotal(finished)
    <2>1. PICK R : R = DOMAIN rows
      OBVIOUS
    <2>2. PICK g : g = [p \in R |-> rows[p].revenue]
      OBVIOUS
    <2>3. \A p \in R : g[p] = SumFunctionOnSet(Earned(p), RowsOf(p))
      BY <1>1, <1>4, <2>1, <2>2, ReportColumns
    <2>4. R \in SUBSET ProductsSold
      BY <1>4, <2>1
    <2>5. SumFunctionOnSet(g, R) <= Books!Subtotal(finished)
      BY <2>3, <2>4, ProductsEarn
    <2>6. report.totalRevenue = Books!SumOf(rows, LAMBDA r : r.revenue)
      BY <1>1, <1>2 DEF Books!generateProductReport
    <2>7. Books!SumOf(rows, LAMBDA r : r.revenue) = Books!SumFunction(g)
      BY <2>1, <2>2 DEF Books!SumOf, Books!Sum
    <2>8. Books!SumFunction(g) = SumFunctionOnSet(g, R)
      BY <2>2, SumsOfBooks
    <2>. QED
      BY <2>5, <2>6, <2>7, <2>8
  <1>7. Books!getHourlyRevenue(Branches, Days) <= Books!Revenue(finished)
    BY HoursEarn, HourlyColumn
  <1>8. Books!RevenueOf([d \in Days |-> [revenue |-> Books!getHourlyRevenue(Branches, {d})]])
            = Books!getHourlyRevenue(Branches, Days)
    BY DaysAddUp
  <1>. QED
    BY <1>2, <1>3, <1>5, <1>6, <1>7, <1>8 DEF Books!ProductReportsAgree, Books!Sum, Days

\* The daily metrics of a store follow the payments of its sales, whichever handlers
\* are late, fail or overlap; once the stock handlers are through, the items of a
\* store and day and their categories are those of the payments that stand; the rows
\* of products and hours are those of the orders that were completed before their
\* job; and the reports over them agree.
THEOREM MetricsAreFollowed == Spec => []MetricsFollowPayments
  <1>1. EventsFollowed /\ ProductsFollowed => MetricsFollowPayments
    <2>. SUFFICES ASSUME EventsFollowed, ProductsFollowed PROVE MetricsFollowPayments
      OBVIOUS
    <2>1. focus = "events" => Books!MetricsFollowPayments
      BY MetricsReport DEF EventsFollowed
    <2>2. ASSUME focus \in {"items", "products"} PROVE Books!ProductFiguresAgree
      <3>1. ItemsInductive /\ JobsInductive
        BY <2>2 DEF ProductsFollowed
      <3>. QED
        BY <3>1, ItemsReport, OrdersReport, ProductsReport DEF Books!ProductFiguresAgree
    <2>. QED
      BY <2>1, <2>2 DEF MetricsFollowPayments
  <1>. QED
    BY <1>1, EventsAreKept, ProductsAreKept, PTL
=============================================================================
