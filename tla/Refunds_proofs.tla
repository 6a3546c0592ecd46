---------------------------- MODULE Refunds_proofs ----------------------------
(***************************************************************************)
(* Theorems about module Refunds for every amount, every number of refund  *)
(* rows and of calls at once, and every number of crashes.                 *)
(***************************************************************************)
EXTENDS Refunds, FiniteSetTheorems, TLAPS

(* Sums.                                                                   *)

LEMMA UnitsFinite ==
    ASSUME NEW t, NEW S \in SUBSET Rows
    PROVE  IsFiniteSet(Units(t, S))
  <1>1. IsFiniteSet(S) /\ IsFiniteSet(1..Paid)
    BY RefundAssumption, FS_Subset, FS_Interval
  <1>2. IsFiniteSet(S \X (1..Paid))
    BY <1>1, FS_Product
  <1>. QED
    BY <1>2, FS_Subset DEF Units

LEMMA TotalNat ==
    ASSUME NEW t
    PROVE  Total(t) \in Nat
    BY UnitsFinite, FS_CardinalityType DEF Total, Completed

\* A completed refund counts.
LEMMA TotalPositive ==
    ASSUME NEW t, NEW r \in Rows, t[r].status = "COMPLETED", t[r].amount \in 1..Paid
    PROVE  Total(t) > 0
  <1>1. <<r, 1>> \in Units(t, Completed(t))
    BY RefundAssumption DEF Units, Completed
  <1>2. IsFiniteSet(Units(t, Completed(t)))
    BY UnitsFinite DEF Completed
  <1>. QED
    BY <1>1, <1>2, TotalNat, FS_EmptySet DEF Total

\* Rows that are not completed do not count.
LEMMA TotalSame ==
    ASSUME NEW t, NEW u,
           \A r \in Rows : (t[r].status = "COMPLETED") <=> (u[r].status = "COMPLETED"),
           \A r \in Rows : t[r].status = "COMPLETED" => t[r].amount = u[r].amount
    PROVE  Total(u) = Total(t)
  <1>1. Completed(u) = Completed(t)
    BY DEF Completed
  <1>2. Units(u, Completed(u)) = Units(t, Completed(t))
    BY <1>1 DEF Units, Completed
  <1>. QED
    BY <1>2 DEF Total

-----------------------------------------------------------------------------
(* The inductive invariant.                                                *)

RowOps == {"take", "pay", "record", "fail"}

\* No row was paid more than the provider has paid altogether.
PayoutsBounded == \A r \in Rows : payouts[r] <= paidBack

\* What every open call knows, whatever overlaps.
CallsKnow ==
    \A w \in Workers :
        /\ call[w].op \in RowOps => refund[call[w].row] # NoRow
        /\ call[w].op \in RowOps => call[w].sawRow = "REQUESTED"
        /\ call[w].op = "record" => payouts[call[w].row] >= refund[call[w].row].amount
        /\ call[w].op = "webhook" => call[w].known = FALSE

\* The job's calls that have marked row r as theirs.
Takers(r) == {w \in Workers : call[w].op \in {"pay", "record", "fail"} /\ call[w].row = r}

\* A row that was taken once has at most one taker, and is PROCESSING while it does.
OneTaker ==
    \A r \in Rows \ twice :
        /\ refund[r].status \in {"NONE", "REQUESTED"} => payouts[r] = 0
        /\ \A w \in Takers(r) :
               /\ refund[r].status = "PROCESSING"
               /\ call[w].op = "pay" => payouts[r] = 0
               /\ \A v \in Takers(r) : v = w

Inductive ==
    TypeOK /\ PayoutsBounded /\ CallsKnow /\ OneTaker /\ CompletedIsPaid /\ PaidOnce

LEMMA InductiveInit == Init => Inductive
  <1>. SUFFICES ASSUME Init PROVE Inductive
    OBVIOUS
  <1>1. TypeOK
    <2>1. refund \in [Rows -> Row \union {NoRow}]
      BY DEF Init
    <2>2. payouts \in [Rows -> 0..Paid] /\ paidBack \in 0..Paid
      BY RefundAssumption DEF Init
    <2>3. call \in [Workers -> OpenCall \union {Idle}]
      BY DEF Init
    <2>. QED
      BY <2>1, <2>2, <2>3 DEF Init, TypeOK, PaymentState
  <1>2. PayoutsBounded /\ CallsKnow
    BY DEF Init, PayoutsBounded, CallsKnow, RowOps, Idle
  <1>3. OneTaker
    BY DEF Init, OneTaker, Takers, Idle
  <1>4. CompletedIsPaid /\ PaidOnce
    BY DEF Init, CompletedIsPaid, PaidOnce, NoRow
  <1>. QED
    BY <1>1, <1>2, <1>3, <1>4 DEF Inductive

\* The row of a call of the job.
LEMMA CallRow ==
    ASSUME Inductive, NEW w \in Workers, call[w].op \in RowOps
    PROVE  /\ call[w] \in [op : RowOps, row : Rows, sawRow : RefundStatus, saw : PaymentState]
           /\ refund[call[w].row] \in Row
           /\ refund[call[w].row].status \in RefundStatus
           /\ refund[call[w].row].amount \in 1..Paid
  <1>1. call[w] \in [op : RowOps, row : Rows, sawRow : RefundStatus, saw : PaymentState]
    BY DEF Inductive, TypeOK, OpenCall, Idle, RowOps
  <1>2. refund[call[w].row] \in Row
    BY <1>1 DEF Inductive, TypeOK, CallsKnow
  <1>. QED
    BY <1>1, <1>2 DEF Row

\* A step of one call that changes nothing but the call.
LEMMA CallStep ==
    ASSUME Inductive, OnlyCall, NEW w \in Workers,
           call' \in [Workers -> OpenCall \union {Idle}],
           \A v \in Workers \ {w} : call'[v] = call[v],
           call'[w].op \in RowOps => /\ refund[call'[w].row] # NoRow
                                     /\ call'[w].sawRow = "REQUESTED",
           call'[w].op = "record" => payouts[call'[w].row] >= refund[call'[w].row].amount,
           call'[w].op = "webhook" => call'[w].known = FALSE,
           call'[w].op \in {"pay", "record", "fail"} =>
               /\ call[w].op \in {"pay", "record", "fail"}
               /\ call'[w].row = call[w].row,
           call'[w].op = "pay" => call[w].op = "pay"
    PROVE  Inductive'
  <1>1. /\ refund' = refund /\ payouts' = payouts /\ paidBack' = paidBack /\ twice' = twice
        /\ payment' = payment /\ notices' = notices /\ overlap' = overlap /\ crashes' = crashes
    BY DEF OnlyCall
  <1>2. TypeOK'
    BY <1>1 DEF Inductive, TypeOK
  <1>3. PayoutsBounded' /\ CompletedIsPaid' /\ PaidOnce'
    BY <1>1 DEF Inductive, PayoutsBounded, CompletedIsPaid, PaidOnce
  <1>4. CallsKnow'
    BY <1>1 DEF Inductive, CallsKnow
  <1>5. \A r \in Rows : Takers(r)' \subseteq Takers(r)
    BY DEF Takers
  <1>6. \A r \in Rows : \A v \in Takers(r)' : call'[v].op = "pay" => call[v].op = "pay"
    BY DEF Takers
  <1>7. OneTaker'
    BY <1>1, <1>5, <1>6 DEF Inductive, OneTaker
  <1>. QED
    BY <1>2, <1>3, <1>4, <1>7 DEF Inductive

\* Ending a call.
LEMMA EndStep ==
    ASSUME Inductive, OnlyCall, NEW w \in Workers, End(w)
    PROVE  Inductive'
  <1>1. call' \in [Workers -> OpenCall \union {Idle}] /\ call'[w] = Idle
    BY DEF End, Inductive, TypeOK
  <1>2. \A v \in Workers \ {w} : call'[v] = call[v]
    BY DEF End, Inductive, TypeOK
  <1>3. call'[w].op = "idle"
    BY <1>1 DEF Idle
  <1>. QED
    BY <1>1, <1>2, <1>3, CallStep DEF RowOps

\* Opening a call that does not yet hold a row as its own.
LEMMA OpenStep ==
    ASSUME Inductive, OnlyCall, NEW w \in Workers, NEW c \in OpenCall, Open(w, c),
           c.op \notin {"pay", "record", "fail"},
           c.op = "take" => refund[c.row] # NoRow /\ c.sawRow = "REQUESTED",
           c.op = "webhook" => c.known = FALSE
    PROVE  Inductive'
  <1>1. call' \in [Workers -> OpenCall \union {Idle}] /\ call'[w] = c
    BY DEF Open, Inductive, TypeOK
  <1>2. \A v \in Workers \ {w} : call'[v] = call[v]
    BY DEF Open, Inductive, TypeOK
  <1>. QED
    BY <1>1, <1>2, CallStep DEF RowOps

LEMMA Reads ==
    ASSUME Inductive, NEW w \in Workers,
           \/ \E amount \in 1..Paid : RequestRead(w, amount) \/ WebhookRead(w, amount)
           \/ AutoRefundRead(w)
           \/ \E r \in Rows : ProcessRead(w, r)
    PROVE  Inductive'
  <1>p. payment \in PaymentState
    BY DEF Inductive, TypeOK
  <1>1. CASE \E amount \in 1..Paid : RequestRead(w, amount)
    <2>1. PICK amount \in 1..Paid : RequestRead(w, amount)
      BY <1>1
    <2>2. [op |-> "request", amount |-> amount] \in OpenCall
      BY DEF OpenCall
    <2>. QED
      BY <2>1, <2>2, OpenStep DEF RequestRead
  <1>2. CASE \E amount \in 1..Paid : WebhookRead(w, amount)
    <2>1. PICK amount \in 1..Paid : WebhookRead(w, amount)
      BY <1>2
    <2>2. [op |-> "webhook", amount |-> amount, saw |-> payment, known |-> FALSE] \in OpenCall
      BY <1>p DEF OpenCall
    <2>3. Open(w, [op |-> "webhook", amount |-> amount, saw |-> payment, known |-> FALSE])
      BY <2>1 DEF WebhookRead
    <2>. QED
      BY <2>1, <2>2, <2>3, OpenStep DEF WebhookRead
  <1>3. CASE AutoRefundRead(w)
    <2>1. [op |-> "auto"] \in OpenCall
      BY DEF OpenCall
    <2>. QED
      BY <1>3, <2>1, OpenStep DEF AutoRefundRead
  <1>4. CASE \E r \in Rows : ProcessRead(w, r)
    <2>1. PICK r \in Rows : ProcessRead(w, r)
      BY <1>4
    <2>2. refund[r].status = "REQUESTED" /\ refund[r] # NoRow
      BY <2>1 DEF ProcessRead, NoRow
    <2>3. [op |-> "take", row |-> r, sawRow |-> refund[r].status, saw |-> payment] \in OpenCall
      BY <1>p, <2>2 DEF OpenCall, RefundStatus
    <2>. QED
      BY <2>1, <2>2, <2>3, OpenStep DEF ProcessRead
  <1>. QED
    BY <1>1, <1>2, <1>3, <1>4

LEMMA SmallSteps ==
    ASSUME Inductive, NEW w \in Workers,
           AutoRefundRequest(w) \/ ProviderRefuses(w) \/ RecordFails(w) \/ Abort(w)
    PROVE  Inductive'
  <1>1. CASE End(w) /\ OnlyCall
    BY <1>1, EndStep
  <1>2. CASE AutoRefundRequest(w) /\ ~End(w)
    <2>1. Paid - Total(refund) \in 1..Paid
      BY <1>2, TotalNat, RefundAssumption DEF AutoRefundRequest
    <2>2. [op |-> "request", amount |-> Paid - Total(refund)] \in OpenCall
      BY <2>1 DEF OpenCall
    <2>3. /\ call' \in [Workers -> OpenCall \union {Idle}]
          /\ call'[w].op = "request"
          /\ \A v \in Workers \ {w} : call'[v] = call[v]
      BY <1>2, <2>2 DEF AutoRefundRequest, Inductive, TypeOK
    <2>. QED
      BY <1>2, <2>3, CallStep DEF AutoRefundRequest, RowOps
  <1>3. CASE ProviderRefuses(w) \/ RecordFails(w)
    <2>1. call[w].op \in {"pay", "record"}
      BY <1>3 DEF ProviderRefuses, RecordFails
    <2>2. call[w] \in [op : RowOps, row : Rows, sawRow : RefundStatus, saw : PaymentState]
      BY <2>1, CallRow DEF RowOps
    <2>3. [call[w] EXCEPT !.op = "fail"] \in OpenCall
      BY <2>2 DEF OpenCall, RowOps
    <2>4. /\ call' \in [Workers -> OpenCall \union {Idle}]
          /\ call'[w].op = "fail" /\ call'[w].row = call[w].row /\ call'[w].sawRow = call[w].sawRow
          /\ \A v \in Workers \ {w} : call'[v] = call[v]
      BY <1>3, <2>2, <2>3 DEF ProviderRefuses, RecordFails, Advance, Inductive, TypeOK
    <2>5. refund[call[w].row] # NoRow /\ call[w].sawRow = "REQUESTED"
      BY <2>1 DEF Inductive, CallsKnow, RowOps
    <2>. QED
      BY <1>3, <2>1, <2>4, <2>5, CallStep DEF ProviderRefuses, RecordFails
  <1>. QED
    BY <1>1, <1>2, <1>3 DEF AutoRefundRequest, Abort

\* A request that is written.
LEMMA WriteRequest ==
    ASSUME Inductive, NEW w \in Workers, RequestWrite(w)
    PROVE  Inductive'
  <1>1. PICK r \in Rows, review \in BOOLEAN :
           /\ refund[r] = NoRow
           /\ refund' = [refund EXCEPT ![r] = [status |-> "REQUESTED", ref |-> "none",
                                               amount |-> call[w].amount, review |-> review]]
    BY DEF RequestWrite
  <1>2. call[w].amount \in 1..Paid
    BY DEF RequestWrite, Inductive, TypeOK, OpenCall, Idle
  <1>3. [status |-> "REQUESTED", ref |-> "none", amount |-> call[w].amount, review |-> review] \in Row
    BY <1>2 DEF Row, RefundStatus
  <1>4. /\ refund' \in [Rows -> Row \union {NoRow}]
        /\ refund'[r].status = "REQUESTED" /\ refund'[r] # NoRow
        /\ \A q \in Rows \ {r} : refund'[q] = refund[q]
    BY <1>1, <1>3 DEF Inductive, TypeOK, NoRow
  <1>5. /\ call' \in [Workers -> OpenCall \union {Idle}] /\ call'[w].op = "idle"
        /\ \A v \in Workers \ {w} : call'[v] = call[v]
    BY DEF RequestWrite, End, Inductive, TypeOK, Idle
  <1>6. /\ payouts' = payouts /\ paidBack' = paidBack /\ twice' = twice
        /\ payment' = payment /\ notices' = notices /\ overlap' = overlap /\ crashes' = crashes
    BY DEF RequestWrite
  <1>7. TypeOK' /\ PayoutsBounded'
    BY <1>4, <1>5, <1>6 DEF Inductive, TypeOK, PayoutsBounded
  <1>8. \A v \in Workers : call'[v].op \in RowOps =>
            /\ v # w /\ call'[v] = call[v] /\ call[v].row # r /\ call[v].row \in Rows
    BY <1>1, <1>5, CallRow DEF Inductive, CallsKnow, RowOps
  <1>9. CallsKnow'
    <2>1. \A v \in Workers : call'[v].op = "webhook" => call'[v].known = FALSE
      BY <1>5 DEF Inductive, CallsKnow
    <2>2. \A v \in Workers : call'[v].op = "record" => call'[v].op \in RowOps
      BY DEF RowOps
    <2>. QED
      BY <1>4, <1>6, <1>8, <2>1, <2>2 DEF Inductive, CallsKnow
  <1>10. \A q \in Rows : Takers(q)' \subseteq Takers(q) /\ (q = r => Takers(q)' = {})
    BY <1>8 DEF Takers, RowOps
  <1>11. \A q \in Rows : \A v \in Takers(q)' : call'[v] = call[v]
    BY <1>8 DEF Takers, RowOps
  <1>12. refund[r].status = "NONE"
    BY <1>1 DEF NoRow
  <1>13. OneTaker'
    BY <1>4, <1>6, <1>10, <1>11, <1>12 DEF Inductive, OneTaker
  <1>14. CompletedIsPaid' /\ PaidOnce'
    <2>1. CompletedIsPaid'
      BY <1>4, <1>6 DEF Inductive, CompletedIsPaid
    <2>2. r \notin twice => payouts[r] = 0
      BY <1>12 DEF Inductive, OneTaker
    <2>3. refund'[r].amount \in 1..Paid
      BY <1>1, <1>2 DEF Inductive, TypeOK
    <2>4. PaidOnce'
      BY <1>4, <1>6, <2>2, <2>3 DEF Inductive, PaidOnce
    <2>. QED
      BY <2>1, <2>4
  <1>. QED
    BY <1>7, <1>9, <1>13, <1>14 DEF Inductive

\* A row that the job marks PROCESSING.
LEMMA TakeRow ==
    ASSUME Inductive, NEW w \in Workers, ProcessTake(w)
    PROVE  Inductive'
  <1> DEFINE r == call[w].row
  <1>1. /\ r \in Rows /\ refund[r] \in Row /\ call[w].sawRow = "REQUESTED"
        /\ call[w] \in [op : RowOps, row : Rows, sawRow : RefundStatus, saw : PaymentState]
    BY CallRow DEF ProcessTake, RowOps, Inductive, CallsKnow
  <1>2. [refund[r] EXCEPT !.status = "PROCESSING"] \in Row
    BY <1>1 DEF Row, RefundStatus
  <1>3. /\ refund' \in [Rows -> Row \union {NoRow}]
        /\ refund'[r].status = "PROCESSING" /\ refund'[r].amount = refund[r].amount
        /\ refund'[r] # NoRow
        /\ \A q \in Rows \ {r} : refund'[q] = refund[q]
    BY <1>1, <1>2 DEF ProcessTake, Inductive, TypeOK, NoRow, Row
  <1>4. [call[w] EXCEPT !.op = "pay"] \in OpenCall
    BY <1>1 DEF OpenCall, RowOps
  <1>5. /\ call' \in [Workers -> OpenCall \union {Idle}]
        /\ call'[w].op = "pay" /\ call'[w].row = r /\ call'[w].sawRow = "REQUESTED"
        /\ \A v \in Workers \ {w} : call'[v] = call[v]
    BY <1>1, <1>4 DEF ProcessTake, Advance, Inductive, TypeOK
  <1>6. /\ payouts' = payouts /\ paidBack' = paidBack /\ twice \subseteq twice'
        /\ twice' \subseteq Rows
        /\ r \notin twice' => refund[r].status = "REQUESTED"
        /\ payment' = payment /\ notices' = notices /\ overlap' = overlap /\ crashes' = crashes
    BY <1>1 DEF ProcessTake, Inductive, TypeOK
  <1>7. TypeOK' /\ PayoutsBounded'
    BY <1>3, <1>5, <1>6 DEF Inductive, TypeOK, PayoutsBounded
  <1>8. \A v \in Workers \ {w} : call[v].op \in RowOps => call[v].row \in Rows
    BY CallRow DEF RowOps
  <1>9. CallsKnow'
    <2>1. \A v \in Workers \ {w} :
              /\ call'[v].op \in RowOps => /\ refund'[call'[v].row] # NoRow
                                           /\ call'[v].sawRow = "REQUESTED"
              /\ call'[v].op = "record" => payouts'[call'[v].row] >= refund'[call'[v].row].amount
      BY <1>3, <1>5, <1>6, <1>8 DEF Inductive, CallsKnow, RowOps
    <2>. QED
      BY <1>3, <1>5, <2>1 DEF Inductive, CallsKnow
  <1>10. \A q \in Rows : /\ q # r => Takers(q)' \subseteq Takers(q)
                         /\ Takers(q)' \subseteq Takers(q) \union {w}
    BY <1>5 DEF Takers
  <1>11. r \notin twice' => Takers(r) = {} /\ payouts[r] = 0
    BY <1>1, <1>6 DEF Inductive, OneTaker
  <1>12. \A q \in Rows : \A v \in Takers(q)' : v # w => call'[v] = call[v]
    BY <1>5 DEF Takers
  <1>13. OneTaker'
    <2>. SUFFICES ASSUME NEW q \in Rows \ twice'
                  PROVE  /\ refund'[q].status \in {"NONE", "REQUESTED"} => payouts'[q] = 0
                         /\ \A v \in Takers(q)' : /\ refund'[q].status = "PROCESSING"
                                                  /\ call'[v].op = "pay" => payouts'[q] = 0
                                                  /\ \A u \in Takers(q)' : u = v
      BY DEF OneTaker
    <2>1. CASE q = r
      BY <2>1, <1>3, <1>6, <1>10, <1>11
    <2>2. CASE q # r
      <3>1. w \notin Takers(q)'
        BY <2>2, <1>5 DEF Takers
      <3>2. q \in Rows \ twice
        BY <1>6
      <3>. QED
        BY <2>2, <3>1, <3>2, <1>3, <1>6, <1>10, <1>12 DEF Inductive, OneTaker
    <2>. QED
      BY <2>1, <2>2
  <1>14. CompletedIsPaid' /\ PaidOnce'
    BY <1>1, <1>3, <1>6 DEF Inductive, CompletedIsPaid, PaidOnce
  <1>. QED
    BY <1>7, <1>9, <1>13, <1>14 DEF Inductive

\* A payout by the provider, whether or not its answer arrives.
LEMMA Payout ==
    ASSUME Inductive, NEW w \in Workers, ProviderPays(w)
    PROVE  Inductive'
  <1> DEFINE r == call[w].row
  <1>1. /\ r \in Rows /\ refund[r] \in Row /\ call[w].sawRow = "REQUESTED" /\ refund[r] # NoRow
        /\ refund[r].amount \in 1..Paid
        /\ call[w] \in [op : RowOps, row : Rows, sawRow : RefundStatus, saw : PaymentState]
    BY CallRow DEF ProviderPays, RowOps, Inductive, CallsKnow
  <1>2. PICK op \in {"record", "fail"} : call' = [call EXCEPT ![w].op = op]
    BY DEF ProviderPays, Advance
  <1>3. [call[w] EXCEPT !.op = op] \in OpenCall
    BY <1>1 DEF OpenCall, RowOps
  <1>4. /\ call' \in [Workers -> OpenCall \union {Idle}]
        /\ call'[w].op = op /\ call'[w].row = r /\ call'[w].sawRow = "REQUESTED"
        /\ \A v \in Workers \ {w} : call'[v] = call[v]
    BY <1>1, <1>2, <1>3 DEF Inductive, TypeOK
  <1>5. /\ refund' = refund /\ twice' = twice /\ payment' = payment /\ overlap' = overlap
        /\ crashes' = crashes
        /\ paidBack' = paidBack + refund[r].amount /\ paidBack' <= Paid
        /\ notices' = notices \union {paidBack'}
    BY DEF ProviderPays
  <1>6. payouts' = [payouts EXCEPT ![r] = @ + refund[r].amount]
    BY DEF ProviderPays
  <1>7. \A q \in Rows : payouts[q] \in 0..Paid /\ payouts[q] <= paidBack
    BY DEF Inductive, TypeOK, PayoutsBounded
  <1>8. /\ payouts'[r] = payouts[r] + refund[r].amount
        /\ \A q \in Rows \ {r} : payouts'[q] = payouts[q]
    BY <1>1, <1>6 DEF Inductive, TypeOK
  <1>9. paidBack \in 0..Paid /\ paidBack' \in 1..Paid /\ paidBack <= paidBack'
    BY <1>1, <1>5, RefundAssumption DEF Inductive, TypeOK
  <1>10. \A q \in Rows : payouts'[q] \in 0..Paid /\ payouts'[q] <= paidBack' /\ payouts[q] <= payouts'[q]
    BY <1>1, <1>5, <1>7, <1>8, <1>9, RefundAssumption
  <1>11. payouts' \in [Rows -> 0..Paid]
    BY <1>6, <1>8, <1>10 DEF Inductive, TypeOK
  <1>12. TypeOK'
    <2>1. notices' \subseteq 1..Paid
      BY <1>5, <1>9 DEF Inductive, TypeOK
    <2>2. paidBack' \in 0..Paid
      BY <1>9, RefundAssumption
    <2>. QED
      BY <1>4, <1>5, <1>11, <2>1, <2>2 DEF Inductive, TypeOK
  <1>13. PayoutsBounded'
    BY <1>10 DEF PayoutsBounded
  <1>14. \A v \in Workers : call[v].op \in RowOps =>
             call[v].row \in Rows /\ refund[call[v].row].amount \in 1..Paid
    BY CallRow
  <1>15. CallsKnow'
    <2>1. \A v \in Workers \ {w} : call'[v].op = "record" =>
              payouts'[call'[v].row] >= refund'[call'[v].row].amount
      BY <1>4, <1>5, <1>7, <1>10, <1>14 DEF Inductive, CallsKnow, RowOps
    <2>2. payouts'[r] >= refund[r].amount
      BY <1>1, <1>7, <1>8
    <2>. QED
      BY <1>1, <1>4, <1>5, <2>1, <2>2 DEF Inductive, CallsKnow, RowOps
  <1>16. \A q \in Rows : Takers(q)' = Takers(q)
    BY <1>1, <1>4 DEF Takers, ProviderPays
  <1>17. w \in Takers(r) /\ (r \notin twice => payouts[r] = 0)
    BY <1>1 DEF ProviderPays, Takers, Inductive, OneTaker
  <1>18. OneTaker'
    <2>. SUFFICES ASSUME NEW q \in Rows \ twice
                  PROVE  /\ refund[q].status \in {"NONE", "REQUESTED"} => payouts'[q] = 0
                         /\ \A v \in Takers(q) : /\ refund[q].status = "PROCESSING"
                                                 /\ call'[v].op = "pay" => payouts'[q] = 0
                                                 /\ \A u \in Takers(q) : u = v
      BY <1>5, <1>16 DEF OneTaker
    <2>1. CASE q = r
      <3>1. refund[q].status = "PROCESSING" /\ \A v \in Takers(q) : v = w
        BY <2>1, <1>17 DEF Inductive, OneTaker
      <3>. QED
        BY <3>1, <1>4
    <2>2. CASE q # r
      <3>1. w \notin Takers(q)
        BY <2>2 DEF Takers
      <3>2. \A v \in Takers(q) : call'[v] = call[v]
        BY <3>1, <1>4 DEF Takers
      <3>. QED
        BY <2>2, <3>2, <1>8 DEF Inductive, OneTaker
    <2>. QED
      BY <2>1, <2>2
  <1>19. CompletedIsPaid'
    <2>. SUFFICES ASSUME NEW q \in Rows, refund[q].status = "COMPLETED", refund[q].ref = "refund"
                  PROVE  payouts'[q] >= refund[q].amount
      BY <1>5 DEF CompletedIsPaid
    <2>1. payouts[q] >= refund[q].amount /\ refund[q] \in Row
      BY DEF Inductive, CompletedIsPaid, TypeOK, NoRow
    <2>. QED
      BY <2>1, <1>7, <1>10 DEF Row
  <1>20. PaidOnce'
    BY <1>1, <1>5, <1>8, <1>17 DEF Inductive, PaidOnce
  <1>. QED
    BY <1>12, <1>13, <1>15, <1>18, <1>19, <1>20 DEF Inductive

\* A transaction that writes the row r and ends the call, by a call of the job
\* whose row it is or, for a charge of the provider, into a free row.
LEMMA RowWritten ==
    ASSUME Inductive, NEW w \in Workers, NEW r \in Rows, End(w),
           UNCHANGED <<paidBack, payouts, notices, twice, crashes>>,
           NEW row \in Row, refund' = [refund EXCEPT ![r] = row],
           payment' \in PaymentState, overlap' \in BOOLEAN,
           refund[r] # NoRow => row.amount = refund[r].amount,
           row.status \in {"COMPLETED", "FAILED"},
           row.status = "COMPLETED" /\ row.ref = "refund" => payouts[r] >= row.amount,
           \/ call[w].op \in {"record", "fail"} /\ call[w].row = r
           \/ refund[r] = NoRow
    PROVE  Inductive'
  <1>1. /\ refund' \in [Rows -> Row \union {NoRow}] /\ refund'[r] = row
        /\ \A q \in Rows \ {r} : refund'[q] = refund[q]
        /\ row # NoRow /\ row.amount \in 1..Paid
    BY DEF Inductive, TypeOK, Row, NoRow
  <1>2. /\ call' \in [Workers -> OpenCall \union {Idle}] /\ call'[w].op = "idle"
        /\ \A v \in Workers \ {w} : call'[v] = call[v]
    BY DEF End, Inductive, TypeOK, Idle
  <1>3. TypeOK' /\ PayoutsBounded'
    BY <1>1, <1>2 DEF Inductive, TypeOK, PayoutsBounded
  <1>4. \A v \in Workers \ {w} : call[v].op \in RowOps => call[v].row \in Rows /\ refund[call[v].row] # NoRow
    BY CallRow DEF Inductive, CallsKnow
  <1>5. CallsKnow'
    <2>1. \A v \in Workers : call'[v].op = "webhook" => call'[v].known = FALSE
      BY <1>2 DEF Inductive, CallsKnow
    <2>2. \A v \in Workers : call'[v].op \in RowOps => /\ v # w
                                                       /\ refund'[call'[v].row] # NoRow
                                                       /\ call'[v].sawRow = "REQUESTED"
      BY <1>1, <1>2, <1>4 DEF Inductive, CallsKnow, RowOps
    <2>3. \A v \in Workers : call'[v].op = "record" =>
              payouts'[call'[v].row] >= refund'[call'[v].row].amount
      BY <1>1, <1>2, <1>4 DEF Inductive, CallsKnow, RowOps
    <2>. QED
      BY <2>1, <2>2, <2>3 DEF CallsKnow
  <1>6. \A q \in Rows : Takers(q)' = Takers(q) \ {w}
    BY <1>2 DEF Takers
  <1>7. r \notin twice => Takers(r) \subseteq {w}
    <2>1. CASE refund[r] = NoRow
      BY <2>1 DEF Takers, Inductive, CallsKnow, RowOps
    <2>2. CASE call[w].op \in {"record", "fail"} /\ call[w].row = r
      BY <2>2 DEF Takers, Inductive, OneTaker
    <2>. QED
      BY <2>1, <2>2
  <1>8. OneTaker'
    <2>. SUFFICES ASSUME NEW q \in Rows \ twice
                  PROVE  /\ refund'[q].status \in {"NONE", "REQUESTED"} => payouts[q] = 0
                         /\ \A v \in Takers(q) \ {w} : /\ refund'[q].status = "PROCESSING"
                                                       /\ call'[v].op = "pay" => payouts[q] = 0
                                                       /\ \A u \in Takers(q) \ {w} : u = v
      BY <1>6 DEF OneTaker
    <2>1. CASE q = r
      BY <2>1, <1>1, <1>7
    <2>2. CASE q # r
      <3>1. \A v \in Takers(q) \ {w} : call'[v] = call[v]
        BY <1>2 DEF Takers
      <3>. QED
        BY <2>2, <3>1, <1>1 DEF Inductive, OneTaker
    <2>. QED
      BY <2>1, <2>2
  <1>9. CompletedIsPaid'
    BY <1>1 DEF Inductive, CompletedIsPaid
  <1>10. PaidOnce'
    <2>1. refund[r] = NoRow /\ r \notin twice => payouts[r] = 0
      BY DEF Inductive, OneTaker, NoRow
    <2>. QED
      BY <1>1, <2>1 DEF Inductive, PaidOnce
  <1>. QED
    BY <1>3, <1>5, <1>8, <1>9, <1>10 DEF Inductive

LEMMA Results ==
    ASSUME Inductive, NEW w \in Workers, RecordRefund(w) \/ RecordFailure(w) \/ WebhookWrite(w)
    PROVE  Inductive'
  <1>t. payment \in PaymentState /\ overlap \in BOOLEAN
    BY DEF Inductive, TypeOK
  <1>1. CASE RecordRefund(w)
    <2> DEFINE r == call[w].row
               row == [refund[r] EXCEPT !.status = "COMPLETED", !.ref = "refund"]
               t == [refund EXCEPT ![r].status = "COMPLETED", ![r].ref = "refund"]
               to == IF Total(t) >= Paid THEN "REFUNDED" ELSE "PARTIALLY_REFUNDED"
    <2>1. /\ r \in Rows /\ refund[r] \in Row
          /\ call[w] \in [op : RowOps, row : Rows, sawRow : RefundStatus, saw : PaymentState]
          /\ payouts[r] >= refund[r].amount
      BY <1>1, CallRow DEF RecordRefund, RowOps, Inductive, CallsKnow
    <2>2. row \in Row /\ row.amount = refund[r].amount /\ row.status = "COMPLETED"
      BY <2>1 DEF Row, RefundStatus
    <2>3. t = [refund EXCEPT ![r] = row]
      BY <2>1 DEF Inductive, TypeOK
    <2>4. CASE CanTransition(call[w].saw, to)
      <3>1. refund' = t /\ payment' = to /\ overlap' = (overlap \/ payment # call[w].saw) /\ End(w)
        BY <1>1, <2>4 DEF RecordRefund
      <3>2. payment' \in PaymentState /\ overlap' \in BOOLEAN
        BY <3>1, <1>t DEF PaymentState
      <3>3. UNCHANGED <<paidBack, payouts, notices, twice, crashes>> /\ call[w].op = "record"
        BY <1>1 DEF RecordRefund
      <3>4. refund' = [refund EXCEPT ![r] = row]
        BY <2>3, <3>1
      <3>. SUFFICES ASSUME NEW q, q = r, NEW new, new = row PROVE Inductive'
        OBVIOUS
      <3>5. /\ q \in Rows /\ call[w].row = q /\ new \in Row /\ refund' = [refund EXCEPT ![q] = new]
            /\ new.amount = refund[q].amount /\ new.status = "COMPLETED"
            /\ payouts[q] >= new.amount
        BY <2>1, <2>2, <3>4
      <3>6. End(w)
        BY <3>1
      <3>. HIDE DEF r, row, t, to
      <3>. QED
        BY <3>2, <3>3, <3>5, <3>6, RowWritten
    <2>5. CASE ~CanTransition(call[w].saw, to)
      <3>1. Advance(w, "fail") /\ OnlyCall
        BY <1>1, <2>5 DEF RecordRefund, OnlyCall
      <3>2. RecordFails(w)
        BY <1>1, <3>1 DEF RecordRefund, RecordFails
      <3>. QED
        BY <3>2, SmallSteps
    <2>. QED
      BY <2>4, <2>5
  <1>2. CASE RecordFailure(w)
    <2> DEFINE r == call[w].row
               row == [refund[r] EXCEPT !.status = "FAILED"]
    <2>1. r \in Rows /\ refund[r] \in Row
      BY <1>2, CallRow DEF RecordFailure, RowOps
    <2>2. row \in Row /\ row.amount = refund[r].amount /\ row.status = "FAILED"
      BY <2>1 DEF Row, RefundStatus
    <2>3. refund' = [refund EXCEPT ![r] = row]
      BY <1>2, <2>1 DEF RecordFailure, Inductive, TypeOK
    <2>4. /\ End(w) /\ payment' = payment /\ overlap' = overlap /\ call[w].op = "fail"
          /\ UNCHANGED <<paidBack, payouts, notices, twice, crashes>>
      BY <1>2 DEF RecordFailure
    <2>5. payment' \in PaymentState /\ overlap' \in BOOLEAN
      BY <2>4, <1>t
    <2>. QED
      BY <2>1, <2>2, <2>3, <2>4, <2>5, RowWritten
  <1>3. CASE WebhookWrite(w)
    <2> DEFINE row == [status |-> "COMPLETED", ref |-> "charge", amount |-> call[w].amount,
                       review |-> FALSE]
    <2>1. call[w].amount \in 1..Paid
      BY <1>3 DEF WebhookWrite, Inductive, TypeOK, OpenCall, Idle
    <2>2. row \in Row
      BY <2>1 DEF Row, RefundStatus
    <2>3. End(w) /\ UNCHANGED <<paidBack, payouts, notices, twice, crashes>>
      BY <1>3 DEF WebhookWrite
    <2>4. CASE UNCHANGED <<refund, payment, overlap>>
      BY <2>3, <2>4, EndStep DEF OnlyCall
    <2>5. CASE ~UNCHANGED <<refund, payment, overlap>>
      <3>1. PICK r \in Rows : /\ refund[r] = NoRow
                              /\ refund' = [refund EXCEPT ![r] = row]
                              /\ payment' \in {"REFUNDED", "PARTIALLY_REFUNDED"}
                              /\ overlap' \in BOOLEAN
        BY <1>3, <1>t, <2>5 DEF WebhookWrite
      <3>2. payment' \in PaymentState
        BY <3>1 DEF PaymentState
      <3>. QED
        BY <2>2, <2>3, <3>1, <3>2, RowWritten
    <2>. QED
      BY <2>4, <2>5
  <1>. QED
    BY <1>1, <1>2, <1>3

LEMMA InductiveStep == Inductive /\ [Next]_vars => Inductive'
  <1>. SUFFICES ASSUME Inductive, [Next]_vars PROVE Inductive'
    OBVIOUS
  <1>1. CASE UNCHANGED vars
    BY <1>1 DEF vars, Inductive, TypeOK, PayoutsBounded, CallsKnow, OneTaker, Takers,
       CompletedIsPaid, PaidOnce
  <1>2. CASE \E w \in Workers : WorkerStep(w)
    BY <1>2, Reads, SmallSteps, WriteRequest, TakeRow, Payout, Results DEF WorkerStep
  <1>3. CASE \E amount \in 1..Paid : DashboardRefund(amount)
    <2>1. PICK amount \in 1..Paid : DashboardRefund(amount)
      BY <1>3
    <2>2. /\ paidBack' \in 1..Paid /\ paidBack <= paidBack'
          /\ notices' = notices \union {paidBack'}
          /\ UNCHANGED <<payment, refund, payouts, call, twice, overlap, crashes>>
      BY <2>1, RefundAssumption DEF DashboardRefund, Inductive, TypeOK
    <2>3. TypeOK'
      BY <2>2, RefundAssumption DEF Inductive, TypeOK
    <2>4. PayoutsBounded'
      BY <2>2, RefundAssumption DEF Inductive, TypeOK, PayoutsBounded
    <2>. QED
      BY <2>2, <2>3, <2>4 DEF Inductive, CallsKnow, OneTaker, Takers, CompletedIsPaid, PaidOnce
  <1>4. CASE Crash
    <2>1. \A w \in Workers : call'[w] = Idle /\ call'[w].op = "idle"
      BY <1>4 DEF Crash, Idle
    <2>2. UNCHANGED <<payment, refund, paidBack, payouts, notices, twice, overlap>>
      BY <1>4 DEF Crash
    <2>3. TypeOK'
      BY <1>4 DEF Crash, Inductive, TypeOK
    <2>4. CallsKnow' /\ OneTaker'
      BY <2>1, <2>2 DEF Inductive, CallsKnow, OneTaker, Takers, RowOps
    <2>. QED
      BY <2>2, <2>3, <2>4 DEF Inductive, PayoutsBounded, CompletedIsPaid, PaidOnce
  <1>. QED
    BY <1>1, <1>2, <1>3, <1>4 DEF Next

\* Rows, amounts and calls stay within their types for any number of calls.
THEOREM TypeCorrect == Spec => []TypeOK
  <1>1. Inductive => TypeOK
    BY DEF Inductive
  <1>. QED
    BY <1>1, InductiveInit, InductiveStep, PTL DEF Spec

\* No refund of ours is recorded COMPLETED without the provider's payment.
THEOREM CompletedWasPaid == Spec => []CompletedIsPaid
  <1>1. Inductive => CompletedIsPaid
    BY DEF Inductive
  <1>. QED
    BY <1>1, InductiveInit, InductiveStep, PTL DEF Spec

\* No row is paid out twice, however often calls fail and the server crashes,
\* unless two runs of the job took it together.
THEOREM NoDoublePayout == Spec => []PaidOnce
  <1>1. Inductive => PaidOnce
    BY DEF Inductive
  <1>. QED
    BY <1>1, InductiveInit, InductiveStep, PTL DEF Spec

-----------------------------------------------------------------------------
(* What the steps of the system do to the table and to Payment.status.     *)

\* The row r is written, and the money it stands for.
Writes(r, row) ==
    /\ r \in Rows /\ row \in Row
    /\ refund' = [refund EXCEPT ![r] = row]

\* A request, the job taking it, and its failure: the sum stays what it was.
Asked(r, row) ==
    /\ Writes(r, row) /\ refund[r] = NoRow /\ row.status = "REQUESTED" /\ row.ref = "none"
    /\ UNCHANGED <<payment, overlap, twice>>

Taken(r, row) ==
    /\ Writes(r, row) /\ refund[r] \in Row
    /\ row = [refund[r] EXCEPT !.status = "PROCESSING"]
    /\ UNCHANGED <<payment, overlap>>
    /\ twice \subseteq twice'
    /\ r \notin twice' => refund[r].status = "REQUESTED"

Failed(r, row) ==
    /\ Writes(r, row) /\ refund[r] \in Row
    /\ row = [refund[r] EXCEPT !.status = "FAILED"]
    /\ r \notin twice => refund[r].status = "PROCESSING"
    /\ UNCHANGED <<payment, overlap, twice>>

\* A refund recorded by the job or by a webhook, and the status it gives.
StatusFor(t) == IF Total(t) >= Paid THEN "REFUNDED" ELSE "PARTIALLY_REFUNDED"

Recorded(r, row) ==
    /\ Writes(r, row) /\ refund[r] \in Row
    /\ row = [refund[r] EXCEPT !.status = "COMPLETED", !.ref = "refund"]
    /\ r \notin twice => refund[r].status = "PROCESSING"
    /\ payment' = StatusFor(refund')
    /\ UNCHANGED twice
    /\ overlap => overlap'

Reported(r, row) ==
    /\ Writes(r, row) /\ refund[r] = NoRow /\ row.status = "COMPLETED" /\ row.ref = "charge"
    /\ payment' = StatusFor(refund')
    /\ UNCHANGED twice
    /\ ~overlap' => ~overlap /\ FromCharge = {}

LEMMA RowSteps ==
    ASSUME Inductive, [Next]_vars
    PROVE  \/ UNCHANGED <<refund, payment, overlap, twice>>
           \/ \E r \in Rows, row \in Row :
                  \/ Asked(r, row) \/ Taken(r, row) \/ Failed(r, row)
                  \/ Recorded(r, row) \/ Reported(r, row)
  <1>1. CASE UNCHANGED <<refund, payment, overlap, twice>>
    BY <1>1
  <1>2. ASSUME NEW w \in Workers, RequestWrite(w)
        PROVE  \E r \in Rows, row \in Row : Asked(r, row)
    <2>1. call[w].amount \in 1..Paid
      BY <1>2 DEF RequestWrite, Inductive, TypeOK, OpenCall, Idle
    <2>2. PICK r \in Rows, review \in BOOLEAN :
             /\ refund[r] = NoRow
             /\ refund' = [refund EXCEPT ![r] = [status |-> "REQUESTED", ref |-> "none",
                                                 amount |-> call[w].amount, review |-> review]]
      BY <1>2 DEF RequestWrite
    <2>3. [status |-> "REQUESTED", ref |-> "none", amount |-> call[w].amount,
           review |-> review] \in Row
      BY <2>1 DEF Row, RefundStatus
    <2>. QED
      BY <1>2, <2>2, <2>3 DEF RequestWrite, Asked, Writes
  <1>3. ASSUME NEW w \in Workers, ProcessTake(w)
        PROVE  \E r \in Rows, row \in Row : Taken(r, row)
    <2> DEFINE r == call[w].row
               row == [refund[r] EXCEPT !.status = "PROCESSING"]
    <2>1. r \in Rows /\ refund[r] \in Row /\ call[w].sawRow = "REQUESTED"
      BY <1>3, CallRow DEF ProcessTake, RowOps, Inductive, CallsKnow
    <2>2. row \in Row
      BY <2>1 DEF Row, RefundStatus
    <2>3. refund' = [refund EXCEPT ![r] = row]
      BY <1>3, <2>1 DEF ProcessTake, Inductive, TypeOK
    <2>4. /\ UNCHANGED <<payment, overlap>>
          /\ twice \subseteq twice'
          /\ r \notin twice' => refund[r].status = "REQUESTED"
      BY <1>3, <2>1 DEF ProcessTake, Inductive, TypeOK
    <2>5. Taken(r, row)
      BY <2>1, <2>2, <2>3, <2>4 DEF Taken, Writes
    <2>. QED
      BY <2>1, <2>2, <2>5
  <1>4. ASSUME NEW w \in Workers, call[w].op \in {"record", "fail"}
        PROVE  /\ call[w].row \in Rows /\ refund[call[w].row] \in Row
               /\ call[w].row \notin twice => refund[call[w].row].status = "PROCESSING"
    <2>1. call[w].row \in Rows /\ refund[call[w].row] \in Row
      BY <1>4, CallRow DEF RowOps
    <2>2. w \in Takers(call[w].row)
      BY <1>4 DEF Takers
    <2>. QED
      BY <2>1, <2>2 DEF Inductive, OneTaker
  <1>5. ASSUME NEW w \in Workers, RecordFailure(w)
        PROVE  \E r \in Rows, row \in Row : Failed(r, row)
    <2> DEFINE r == call[w].row
               row == [refund[r] EXCEPT !.status = "FAILED"]
    <2>1. r \in Rows /\ refund[r] \in Row /\ (r \notin twice => refund[r].status = "PROCESSING")
      BY <1>4, <1>5 DEF RecordFailure
    <2>2. row \in Row
      BY <2>1 DEF Row, RefundStatus
    <2>3. refund' = [refund EXCEPT ![r] = row] /\ UNCHANGED <<payment, overlap, twice>>
      BY <1>5, <2>1 DEF RecordFailure, Inductive, TypeOK
    <2>4. Failed(r, row)
      BY <2>1, <2>2, <2>3 DEF Failed, Writes
    <2>. QED
      BY <2>1, <2>2, <2>4
  <1>6. ASSUME NEW w \in Workers, RecordRefund(w), ~UNCHANGED <<refund, payment, overlap, twice>>
        PROVE  \E r \in Rows, row \in Row : Recorded(r, row)
    <2> DEFINE r == call[w].row
               row == [refund[r] EXCEPT !.status = "COMPLETED", !.ref = "refund"]
    <2>1. r \in Rows /\ refund[r] \in Row /\ (r \notin twice => refund[r].status = "PROCESSING")
      BY <1>4, <1>6 DEF RecordRefund
    <2>2. row \in Row
      BY <2>1 DEF Row, RefundStatus
    <2>3. /\ refund' = [refund EXCEPT ![r].status = "COMPLETED", ![r].ref = "refund"]
          /\ payment' = StatusFor(refund')
          /\ overlap' = (overlap \/ payment # call[w].saw)
          /\ twice' = twice
      BY <1>6 DEF RecordRefund, StatusFor
    <2>4. refund' = [refund EXCEPT ![r] = row]
      BY <2>1, <2>3 DEF Inductive, TypeOK
    <2>5. overlap => overlap'
      BY <2>3
    <2>6. Recorded(r, row)
      BY <2>1, <2>2, <2>3, <2>4, <2>5 DEF Recorded, Writes
    <2>. QED
      BY <2>1, <2>2, <2>6
  <1>7. ASSUME NEW w \in Workers, WebhookWrite(w), ~UNCHANGED <<refund, payment, overlap, twice>>
        PROVE  \E r \in Rows, row \in Row : Reported(r, row)
    <2> DEFINE row == [status |-> "COMPLETED", ref |-> "charge", amount |-> call[w].amount,
                       review |-> FALSE]
    <2>1. call[w].amount \in 1..Paid /\ call[w].known = FALSE
      BY <1>7 DEF WebhookWrite, Inductive, TypeOK, OpenCall, Idle, CallsKnow
    <2>2. row \in Row
      BY <2>1 DEF Row, RefundStatus
    <2>3. PICK r \in Rows : /\ refund[r] = NoRow
                            /\ refund' = [refund EXCEPT ![r] = row]
                            /\ payment' = StatusFor(refund')
                            /\ overlap' = (\/ overlap
                                           \/ payment # call[w].saw
                                           \/ call[w].known # (FromCharge # {}))
      BY <1>7 DEF WebhookWrite, StatusFor
    <2>4. ~overlap' => ~overlap /\ FromCharge = {}
      BY <2>1, <2>3
    <2>5. twice' = twice
      BY <1>7 DEF WebhookWrite
    <2>6. Reported(r, row)
      BY <2>2, <2>3, <2>4, <2>5 DEF Reported, Writes
    <2>. QED
      BY <2>2, <2>6
  <1>8. CASE UNCHANGED vars
    BY <1>1, <1>8 DEF vars
  <1>9. CASE \E w \in Workers : WorkerStep(w)
    <2>1. PICK w \in Workers : WorkerStep(w)
      BY <1>9
    <2>2. CASE \/ \E amount \in 1..Paid : RequestRead(w, amount) \/ WebhookRead(w, amount)
               \/ AutoRefundRead(w) \/ AutoRefundRequest(w) \/ ProviderPays(w)
               \/ ProviderRefuses(w) \/ RecordFails(w) \/ Abort(w)
               \/ \E r \in Rows : ProcessRead(w, r)
      BY <1>1, <2>2 DEF RequestRead, WebhookRead, AutoRefundRead, AutoRefundRequest,
         ProviderPays, ProviderRefuses, RecordFails, Abort, ProcessRead, OnlyCall
    <2>. QED
      BY <1>1, <1>2, <1>3, <1>5, <1>6, <1>7, <2>1, <2>2 DEF WorkerStep
  <1>10. CASE (\E amount \in 1..Paid : DashboardRefund(amount)) \/ Crash
    BY <1>1, <1>10 DEF DashboardRefund, Crash
  <1>. QED
    BY <1>8, <1>9, <1>10 DEF Next

\* A row in another state, and one that is written with the same outcome.
LEMMA SameOutcome ==
    ASSUME Inductive, NEW r \in Rows, NEW row \in Row, Writes(r, row),
           refund[r].status # "COMPLETED", row.status # "COMPLETED"
    PROVE  Total(refund') = Total(refund)
  <1>1. /\ refund'[r] = row
        /\ \A q \in Rows \ {r} : refund'[q] = refund[q]
    BY DEF Writes, Inductive, TypeOK
  <1>2. \A q \in Rows : (refund[q].status = "COMPLETED") <=> (refund'[q].status = "COMPLETED")
    BY <1>1
  <1>3. \A q \in Rows : refund[q].status = "COMPLETED" => refund[q].amount = refund'[q].amount
    BY <1>1
  <1>. QED
    BY <1>2, <1>3, TotalSame

\* Payment.status after a refund was counted in the transaction that records it.
LEMMA CountedStatus ==
    ASSUME Inductive, NEW r \in Rows, NEW row \in Row, Writes(r, row),
           row.status = "COMPLETED", payment' = StatusFor(refund')
    PROVE  StatusMatchesTotal'
  <1>1. refund'[r].status = "COMPLETED" /\ refund'[r].amount \in 1..Paid
    BY DEF Writes, Inductive, TypeOK, Row
  <1>2. Total(refund') > 0 /\ Total(refund') \in Nat
    BY <1>1, TotalPositive, TotalNat
  <1>3. payment' = CASE Total(refund') = 0            -> "PAID"
                     [] Total(refund') \in 1..(Paid - 1) -> "PARTIALLY_REFUNDED"
                     [] OTHER                          -> "REFUNDED"
    BY <1>2, RefundAssumption DEF StatusFor
  <1>. QED
    BY <1>3 DEF StatusMatchesTotal

LEMMA StatusStep == Inductive /\ StatusMatchesTotal /\ [Next]_vars => StatusMatchesTotal'
  <1>. SUFFICES ASSUME Inductive, StatusMatchesTotal, [Next]_vars
                PROVE  StatusMatchesTotal'
    OBVIOUS
  <1>1. CASE UNCHANGED <<refund, payment, overlap, twice>>
    BY <1>1 DEF StatusMatchesTotal
  <1>2. ASSUME NEW r \in Rows, NEW row \in Row, Writes(r, row),
               UNCHANGED <<payment, overlap>>, twice \subseteq twice',
               twice' = {} => refund[r].status # "COMPLETED" /\ row.status # "COMPLETED"
        PROVE  StatusMatchesTotal'
    <2>1. CASE twice' = {}
      <3>1. Total(refund') = Total(refund) /\ twice = {}
        BY <1>2, <2>1, SameOutcome
      <3>. QED
        BY <1>2, <3>1 DEF StatusMatchesTotal
    <2>2. CASE twice' # {}
      BY <2>2 DEF StatusMatchesTotal
    <2>. QED
      BY <2>1, <2>2
  <1>3. ASSUME NEW r \in Rows, NEW row \in Row, Asked(r, row)
        PROVE  StatusMatchesTotal'
    BY <1>2, <1>3 DEF Asked, NoRow
  <1>4. ASSUME NEW r \in Rows, NEW row \in Row, Taken(r, row)
        PROVE  StatusMatchesTotal'
    BY <1>2, <1>4 DEF Taken, Row
  <1>5. ASSUME NEW r \in Rows, NEW row \in Row, Failed(r, row)
        PROVE  StatusMatchesTotal'
    BY <1>2, <1>5 DEF Failed, Row
  <1>6. ASSUME NEW r \in Rows, NEW row \in Row, Recorded(r, row) \/ Reported(r, row)
        PROVE  StatusMatchesTotal'
    BY <1>6, CountedStatus DEF Recorded, Reported, Row
  <1>. QED
    BY <1>1, <1>3, <1>4, <1>5, <1>6, RowSteps

LEMMA ChargeStep == Inductive /\ ChargeRecordedOnce /\ [Next]_vars => ChargeRecordedOnce'
  <1>. SUFFICES ASSUME Inductive, ChargeRecordedOnce, [Next]_vars
                PROVE  ChargeRecordedOnce'
    OBVIOUS
  <1>f. IsFiniteSet(FromCharge)
    BY RefundAssumption, FS_Subset DEF FromCharge
  <1>1. ASSUME FromCharge' \subseteq FromCharge, overlap => overlap'
        PROVE  ChargeRecordedOnce'
    <2>1. Cardinality(FromCharge') <= Cardinality(FromCharge)
      BY <1>f, <1>1, FS_Subset
    <2>2. Cardinality(FromCharge) \in Nat /\ Cardinality(FromCharge') \in Nat
      BY <1>f, <1>1, FS_Subset, FS_CardinalityType
    <2>. QED
      BY <1>1, <2>1, <2>2 DEF ChargeRecordedOnce
  <1>2. ASSUME NEW r \in Rows, NEW row \in Row, Writes(r, row)
        PROVE  /\ refund'[r] = row
               /\ \A q \in Rows \ {r} : refund'[q] = refund[q]
    BY <1>2 DEF Writes, Inductive, TypeOK
  <1>3. ASSUME NEW r \in Rows, NEW row \in Row, Asked(r, row) \/ Recorded(r, row)
        PROVE  ChargeRecordedOnce'
    <2>1. CASE Asked(r, row)
      <3>1. row.ref = "none"
        BY <2>1 DEF Asked
      <3>. QED
        BY <1>2, <1>1, <2>1, <3>1 DEF Asked, FromCharge
    <2>2. CASE Recorded(r, row)
      <3>1. row.ref = "refund"
        BY <2>2 DEF Recorded, Row
      <3>. QED
        BY <1>2, <1>1, <2>2, <3>1 DEF Recorded, FromCharge
    <2>. QED
      BY <1>3, <2>1, <2>2
  <1>4. ASSUME NEW r \in Rows, NEW row \in Row, Taken(r, row) \/ Failed(r, row)
        PROVE  ChargeRecordedOnce'
    <2>1. Writes(r, row) /\ row.ref = refund[r].ref /\ (overlap => overlap')
      BY <1>4 DEF Taken, Failed, Row
    <2>2. FromCharge' \subseteq FromCharge
      BY <1>2, <2>1 DEF FromCharge
    <2>. QED
      BY <1>1, <2>1, <2>2
  <1>5. ASSUME NEW r \in Rows, NEW row \in Row, Reported(r, row)
        PROVE  ChargeRecordedOnce'
    <2>1. Writes(r, row) /\ (~overlap' => FromCharge = {})
      BY <1>5 DEF Reported
    <2>2. ~overlap' => FromCharge' \subseteq {r}
      BY <1>2, <2>1 DEF FromCharge
    <2>3. IsFiniteSet({r}) /\ Cardinality({r}) = 1
      BY FS_Singleton
    <2>4. ~overlap' => Cardinality(FromCharge') <= 1
      BY <2>2, <2>3, FS_Subset
    <2>. QED
      BY <2>4 DEF ChargeRecordedOnce
  <1>6. CASE UNCHANGED <<refund, payment, overlap, twice>>
    BY <1>1, <1>6 DEF FromCharge
  <1>. QED
    BY <1>3, <1>4, <1>5, <1>6, RowSteps

LEMMA MachineStep ==
    ASSUME Inductive, [Next]_vars, NEW q \in Rows \ twice', refund[q] # NoRow,
           refund'[q] # refund[q]
    PROVE  /\ <<refund[q].status, refund'[q].status>> \in refundTransitions
           /\ refund'[q].amount = refund[q].amount
  <1>1. ASSUME NEW r \in Rows, NEW row \in Row, Writes(r, row)
        PROVE  q = r /\ refund'[q] = row
    BY <1>1 DEF Writes, Inductive, TypeOK
  <1>2. ASSUME NEW r \in Rows, NEW row \in Row, Taken(r, row)
        PROVE  /\ refund[q].status = "REQUESTED" /\ refund'[q].status = "PROCESSING"
               /\ refund'[q].amount = refund[q].amount
    BY <1>1, <1>2 DEF Taken, Row
  <1>3. ASSUME NEW r \in Rows, NEW row \in Row, Failed(r, row) \/ Recorded(r, row)
        PROVE  /\ refund[q].status = "PROCESSING" /\ refund'[q].status \in {"COMPLETED", "FAILED"}
               /\ refund'[q].amount = refund[q].amount
    <2>1. q = r /\ refund'[q] = row /\ refund[q] \in Row /\ twice' = twice
      BY <1>1, <1>3 DEF Failed, Recorded
    <2>. QED
      BY <1>3, <2>1 DEF Failed, Recorded, Row
  <1>4. ASSUME NEW r \in Rows, NEW row \in Row, Asked(r, row) \/ Reported(r, row)
        PROVE  FALSE
    BY <1>1, <1>4 DEF Asked, Reported
  <1>. QED
    BY <1>2, <1>3, <1>4, RowSteps DEF refundTransitions

\* Payment.status tells what the recorded refunds add up to, for every amount
\* and every number of refunds, as long as no two calls overlapped.
THEOREM StatusTellsTotal == Spec => []StatusMatchesTotal
  <1>1. Init => StatusMatchesTotal
    <2>. SUFFICES ASSUME Init PROVE StatusMatchesTotal
      OBVIOUS
    <2>1. Units(refund, Completed(refund)) = {}
      BY DEF Init, Units, Completed, NoRow
    <2>2. Total(refund) = 0
      BY <2>1, FS_EmptySet DEF Total
    <2>3. payment = "PAID"
      BY DEF Init
    <2>4. payment = CASE Total(refund) = 0            -> "PAID"
                      [] Total(refund) \in 1..(Paid - 1) -> "PARTIALLY_REFUNDED"
                      [] OTHER                         -> "REFUNDED"
      BY <2>2, <2>3, RefundAssumption
    <2>. QED
      BY <2>4 DEF StatusMatchesTotal
  <1>. QED
    BY <1>1, InductiveInit, InductiveStep, StatusStep, PTL DEF Spec

\* Webhooks about one charge leave one row, however many are delivered.
THEOREM ChargeHasOneRow == Spec => []ChargeRecordedOnce
  <1>1. Init => ChargeRecordedOnce
    <2>. SUFFICES ASSUME Init PROVE Cardinality(FromCharge) = 0
      BY DEF ChargeRecordedOnce
    <2>1. FromCharge = {}
      BY DEF Init, FromCharge, NoRow
    <2>. QED
      BY <2>1, FS_EmptySet
  <1>. QED
    BY <1>1, InductiveInit, InductiveStep, ChargeStep, PTL DEF Spec

\* No step takes a refund off RefundStateMachine or changes its amount, unless
\* two runs of the job took it together.
THEOREM RefundsFollowMachine == Spec => RefundFollowsMachine
  <1>1. Inductive /\ [Next]_vars =>
            [\A r \in Rows \ twice' :
                refund[r] # NoRow /\ refund'[r] # refund[r] =>
                    /\ <<refund[r].status, refund'[r].status>> \in refundTransitions
                    /\ refund'[r].amount = refund[r].amount]_vars
    BY MachineStep
  <1>. QED
    BY <1>1, InductiveInit, InductiveStep, PTL DEF Spec, RefundFollowsMachine
=============================================================================
