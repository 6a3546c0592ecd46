----------------------------- MODULE StockUpkeep -----------------------------
(***************************************************************************)
(* The writers of an InventoryItem that do not use increment and           *)
(* decrement, next to the reservations of module Inventory:                *)
(*   - the till: the CASHIER_PAYMENT_COMPLETED handler, which commits a    *)
(*     reservation or deducts a walk-in sale (deductForOrder);             *)
(*   - the back office: adjustStock;                                       *)
(*   - the nightly InventoryReconciliationJob.                             *)
(* They read the counters, compute, and write absolute values.  A          *)
(* deduction runs in one transaction, so from its first UPDATE until it    *)
(* commits the rows it changed are locked and nobody else writes them.     *)
(***************************************************************************)
EXTENDS Inventory, Sequences

CONSTANTS
    Clerks,      \* concurrent till handlers and back-office calls
    Amounts,     \* quantities of a manual adjustment, negative for a loss
    MaxAdjust    \* bound: manual adjustments in a behaviour

VARIABLES
    clerk,        \* the till handler or adjustment each clerk has open
    job,          \* the nightly job: where it is, and the items left to recount
    rungUp,       \* orders whose cashier payment was completed
    adjustments,  \* history: adjustments made so far
    moved,        \* history: units that adjustments added and walk-in sales took
    overwrote,    \* history: an absolute write used a value no longer current
    clamped,      \* history: Math.max(0, ...) or GREATEST(0, ...) cut a value
    lostRecount   \* history: the job died before it recounted an item

upkeepHistory == <<adjustments, moved, overwrote, clamped, lostRecount>>
upkeepVars == <<clerk, job, rungUp, upkeepHistory>>
allVars == <<vars, upkeepVars>>

NotBelowZero(n) == IF n < 0 THEN 0 ELSE n

\* Faulty variant: the units on hold are not subtracted.
AvailableIgnoringHolds(new, res) == NotBelowZero(new)

AvailableFor(new, res) == NotBelowZero(new - res)

JobIdle == [pc |-> "idle", todo |-> {}]

\* Faulty variant: the loop ends after its first item.
RecountOne(rest) == JobIdle

RecountNext(rest) == IF rest = {} THEN JobIdle ELSE [pc |-> "sum", todo |-> rest]

Upkeep == UNCHANGED <<resv, committed, released, conn, history>>

Free(t) == clerk[t] = Idle
Finish(t) == clerk' = [clerk EXCEPT ![t] = Idle]

\* Rows a deduction has changed and not yet committed.
Locked == UNION {clerk[t].staged : t \in {u \in Clerks : clerk[u].op = "deduct"}}

\* Faulty variant: the lines are updated outside a transaction.
NoRowLocks == TRUE

\* A statement that writes a locked row waits for the lock.
RespectsLocks ==
    \A p \in Locked : /\ currentStock'[p] = currentStock[p]
                      /\ reservedStock'[p] = reservedStock[p]
                      /\ availableStock'[p] = availableStock[p]

-----------------------------------------------------------------------------
(* adjustStock: guard on the stock it read, then absolute values.          *)

AdjustRead(t, p, q) ==
    /\ Free(t)
    /\ adjustments < MaxAdjust
    /\ currentStock[p] + q >= 0
    /\ clerk' = [clerk EXCEPT ![t] =
           [op |-> "adjust", product |-> p, quantity |-> q,
            cur |-> currentStock[p], res |-> reservedStock[p]]]
    /\ adjustments' = adjustments + 1
    /\ UNCHANGED <<counters, job, rungUp, moved, overwrote, clamped, lostRecount>>
    /\ Upkeep

AdjustWrite(t) ==
    /\ clerk[t].op = "adjust"
    /\ LET p == clerk[t].product
           new == clerk[t].cur + clerk[t].quantity
       IN  /\ currentStock' = [currentStock EXCEPT ![p] = new]
           /\ availableStock' = [availableStock EXCEPT ![p] =
                                     AvailableFor(new, clerk[t].res)]
           /\ moved' = [moved EXCEPT ![p] = @ + clerk[t].quantity]
           /\ overwrote' = (overwrote \/ currentStock[p] # clerk[t].cur
                                      \/ reservedStock[p] # clerk[t].res)
           /\ clamped' = (clamped \/ new < clerk[t].res)
    /\ Finish(t)
    /\ UNCHANGED <<reservedStock, job, rungUp, adjustments, lostRecount>>
    /\ Upkeep
    /\ RespectsLocks

-----------------------------------------------------------------------------
(* The CASHIER_PAYMENT_COMPLETED handler.                                  *)

\* A cashier payment is taken of an order that has no payment yet: it exists,
\* so the transaction that created and reserved it is over, and nothing of it
\* has been committed.
TillCheck(t, o) ==
    /\ Free(t)
    /\ o \notin rungUp
    /\ Lines(o) # {}
    /\ \A p \in Lines(o) : resv[o][p] # "COMMITTED"
    /\ \A c \in Connections : conn[c].op \in {"reserve", "commit"} => conn[c].order # o
    /\ rungUp' = rungUp \union {o}
    /\ clerk' = [clerk EXCEPT ![t] =
           IF ActiveLines(o) # {}
           THEN [op |-> "commit", order |-> o]
           ELSE [op |-> "deduct", order |-> o, seen |-> << >>, staged |-> {}]]
    /\ UNCHANGED <<counters, job, upkeepHistory>>
    /\ Upkeep

\* commitForOrder looks for the ACTIVE reservations again.
TillCommit(t) ==
    /\ clerk[t].op = "commit"
    /\ LET o == clerk[t].order
       IN  IF ActiveLines(o) = {}
           THEN UNCHANGED vars
           ELSE \E c \in Connections : CommitRead(c, o)
    /\ Finish(t)
    /\ UNCHANGED <<job, rungUp, upkeepHistory>>

DeductRead(t, p) ==
    /\ clerk[t].op = "deduct"
    /\ DOMAIN clerk[t].seen = clerk[t].staged
    /\ p \in Lines(clerk[t].order) \ clerk[t].staged
    /\ LET r == clerk[t]
       IN  clerk' = [clerk EXCEPT ![t].seen =
               [q \in r.staged \union {p} |->
                   IF q = p THEN [cur |-> currentStock[p], res |-> reservedStock[p]]
                   ELSE r.seen[q]]]
    /\ UNCHANGED <<counters, job, rungUp, upkeepHistory>>
    /\ Upkeep

DeductUpdate(t, p) ==
    /\ clerk[t].op = "deduct"
    /\ p \in DOMAIN clerk[t].seen \ (clerk[t].staged \union Locked)
    /\ clerk' = [clerk EXCEPT ![t].staged = @ \union {p}]
    /\ overwrote' = (overwrote
           \/ clerk[t].seen[p] # [cur |-> currentStock[p], res |-> reservedStock[p]])
    /\ UNCHANGED <<counters, job, rungUp, adjustments, moved, clamped, lostRecount>>
    /\ Upkeep

DeductCommit(t) ==
    /\ clerk[t].op = "deduct"
    /\ LET o == clerk[t].order
           S == clerk[t].staged
           left(p) == clerk[t].seen[p].cur - Qty[o][p]
           new(p) == NotBelowZero(left(p))
       IN  /\ S = Lines(o)
           /\ currentStock' = [p \in Products |->
                  IF p \in S THEN new(p) ELSE currentStock[p]]
           /\ availableStock' = [p \in Products |->
                  IF p \in S THEN AvailableFor(new(p), clerk[t].seen[p].res)
                  ELSE availableStock[p]]
           /\ moved' = Sub(moved, S, Qty[o])
           /\ clamped' = (clamped \/ \E p \in S :
                          left(p) < 0 \/ new(p) < clerk[t].seen[p].res)
           /\ committed' = committed \union {o}
    /\ Finish(t)
    /\ UNCHANGED <<reservedStock, resv, released, conn, history,
                   job, rungUp, adjustments, overwrote, lostRecount>>

\* The handler logs the failure and the payment stays completed.
ClerkAbort(t) ==
    /\ ~Free(t)
    /\ Finish(t)
    /\ UNCHANGED <<counters, job, rungUp, upkeepHistory>>
    /\ Upkeep

\* Voiding the payment of a sale that never had a reservation.
WalkInReturn(c, o) ==
    /\ o \in rungUp
    /\ \A p \in Lines(o) : resv[o][p] = "NONE"
    /\ returned[o] = {}
    /\ \A d \in Connections : conn[d].op = "return" => conn[d].order # o
    /\ Open(c, "return", o, {})
    /\ UNCHANGED <<counters, resv, committed, released, history, upkeepVars>>

-----------------------------------------------------------------------------
(* InventoryReconciliationJob.run.                                         *)

\* Faulty variant: only an availableStock that is too low is repaired.
RepairUpwards(p) ==
    LET free == AvailableFor(currentStock[p], reservedStock[p])
    IN  IF availableStock[p] < free THEN free ELSE availableStock[p]

Repair(p) == AvailableFor(currentStock[p], reservedStock[p])

\* One UPDATE over all items.  The reservations that are too old to live are
\* among those ACTIVE now.
JobDrift ==
    /\ job = JobIdle
    /\ availableStock' = [p \in Products |-> Repair(p)]
    /\ clamped' = (clamped \/ \E p \in Products : currentStock[p] < reservedStock[p])
    /\ job' = [pc |-> "expire", todo |-> {}, old |-> {o \in Orders : ActiveLines(o) # {}}]
    /\ UNCHANGED <<currentStock, reservedStock, clerk, rungUp,
                   adjustments, moved, overwrote, lostRecount>>
    /\ Upkeep
    /\ RespectsLocks

\* updateMany on the ACTIVE reservations older than 24 hours: W is whose.
JobExpire(W) ==
    /\ job.pc = "expire"
    /\ W \subseteq {o \in job.old : ActiveLines(o) # {}}
    /\ resv' = [o \in Orders |-> [p \in Products |->
           IF o \in W /\ resv[o][p] = "ACTIVE" THEN "EXPIRED" ELSE resv[o][p]]]
    /\ job' = RecountNext(UNION {ActiveLines(o) : o \in W})
    /\ UNCHANGED <<counters, committed, released, conn, history,
                   clerk, rungUp, upkeepHistory>>

JobSum(p) ==
    /\ job.pc = "sum"
    /\ p \in job.todo
    /\ job' = [pc |-> "read", todo |-> job.todo, item |-> p, sum |-> Held(p)]
    /\ UNCHANGED <<vars, clerk, rungUp, upkeepHistory>>

JobRead ==
    /\ job.pc = "read"
    /\ job' = [pc |-> "write", todo |-> job.todo, item |-> job.item,
               sum |-> job.sum, cur |-> currentStock[job.item]]
    /\ UNCHANGED <<vars, clerk, rungUp, upkeepHistory>>

JobWrite ==
    /\ job.pc = "write"
    /\ LET p == job.item
           rest == job.todo \ {p}
       IN  /\ reservedStock' = [reservedStock EXCEPT ![p] = job.sum]
           /\ availableStock' = [availableStock EXCEPT ![p] =
                                     AvailableFor(job.cur, job.sum)]
           /\ overwrote' = (overwrote \/ Held(p) # job.sum
                                      \/ currentStock[p] # job.cur)
           /\ clamped' = (clamped \/ job.cur < job.sum)
           /\ job' = RecountNext(rest)
    /\ UNCHANGED <<currentStock, clerk, rungUp, adjustments, moved, lostRecount>>
    /\ Upkeep
    /\ RespectsLocks

\* The process dies or a query fails: the retry finds nothing left to expire,
\* so the items still on the list are never recounted.
JobCrash ==
    /\ job # JobIdle
    /\ job' = JobIdle
    /\ lostRecount' = (lostRecount \/ job.todo # {})
    /\ UNCHANGED <<vars, clerk, rungUp, adjustments, moved, overwrote, clamped>>

-----------------------------------------------------------------------------
UpkeepInit ==
    /\ Init
    /\ clerk = [t \in Clerks |-> Idle]
    /\ job = JobIdle
    /\ rungUp = {}
    /\ adjustments = 0
    /\ moved = [p \in Products |-> 0]
    /\ overwrote = FALSE
    /\ clamped = FALSE
    /\ lostRecount = FALSE

\* A step of module Inventory.  An order that was rung up is not reserved again,
\* and only the till's own handler (TillCommit) commits it.
ReservationStep ==
    /\ Next
    /\ \A c \in Connections :
           conn[c] = Idle /\ conn'[c].op \in {"reserve", "commit"} =>
               conn'[c].order \notin rungUp
    /\ RespectsLocks
    /\ UNCHANGED upkeepVars

ClerkStep ==
    \E t \in Clerks :
        \/ \E p \in Products, q \in Amounts : AdjustRead(t, p, q)
        \/ AdjustWrite(t)
        \/ \E o \in Orders : TillCheck(t, o)
        \/ TillCommit(t)
        \/ \E p \in Products : DeductRead(t, p) \/ DeductUpdate(t, p)
        \/ DeductCommit(t)
        \/ ClerkAbort(t)

JobStep ==
    \/ JobDrift
    \/ \E W \in SUBSET Orders : JobExpire(W)
    \/ \E p \in Products : JobSum(p)
    \/ JobRead
    \/ JobWrite

UpkeepNext ==
    \/ ReservationStep
    \/ ClerkStep
    \/ \E c \in Connections, o \in Orders : WalkInReturn(c, o)
    \/ JobStep
    \/ JobCrash

UpkeepSpec == UpkeepInit /\ [][UpkeepNext]_allVars

\* Only the cron job is fair: it starts every night and nothing makes it wait
\* forever.  No customer and no clerk is obliged to do anything.
FairUpkeepSpec == UpkeepSpec /\ WF_allVars(JobStep)

-----------------------------------------------------------------------------
\* While no absolute write has used a stale value and none was cut at zero,
\* availableStock is what checkStock says it is.
AvailableUnlessOverwritten ==
    ~overwrote /\ ~clamped => AvailableIsFree

\* The shelf count is the initial stock plus every movement there was, so
\* currentStock goes wrong only through a stale value, a cut or a stale settle.
ShelfAccounted ==
    ~overwrote /\ ~clamped /\ ~staleSettle =>
        \A p \in Products :
            currentStock[p] = InitialStock[p] - Sold(p) + Returned(p) + moved[p]

\* Held units are the ACTIVE reservations, except for the items the job still
\* has to recount or died before recounting.
HoldsAccounted ==
    ~overwrote /\ ~staleSettle /\ ~lostRecount =>
        \A p \in Products \ job.todo : reservedStock[p] = Held(p)

NoClientActive ==
    /\ \A c \in Connections : conn[c] = Idle
    /\ \A t \in Clerks : clerk[t] = Idle

\* Whatever the clients did, once they are quiet the nightly job brings
\* availableStock back to what the other two counters say.
NightlyRepair ==
    <>[]NoClientActive =>
        <>[](\A p \in Products :
                 availableStock[p] = NotBelowZero(currentStock[p] - reservedStock[p]))

\* "Recalculate reservedStock from actual ACTIVE reservations (source of
\* truth)": once the clients are quiet, reservedStock is that sum.
ReservedRecounted ==
    <>[]NoClientActive =>
        <>[](\A p \in Products : reservedStock[p] = Held(p))
=============================================================================
