--------------------------- MODULE MCScheduledWork ----------------------------
(* What the scheduled jobs bring about in the end: the nightly stock repair,*)
(* the payment polling and the refund processor.  The three share no state, *)
(* so a behaviour follows one of them; the bounds of each are its own.      *)
EXTENDS Integers, TLC

CONSTANTS o1, latte, c1, t1, w1, w2, poller, r1, r2

VARIABLES
    focus,  \* the component this behaviour follows
    currentStock, reservedStock, availableStock, resv, committed, released,
    conn, returned, staleSettle, staleReserve,
    clerk, job, rungUp, adjustments, moved, overwrote, clamped, lostRecount,
    status, paymentStatus, payment, retries, intent, notices, stock, bus, call,
    stale, crashes,
    rPayment, refund, paidBack, payouts, rNotices, rCall, twice, overlap, rCrashes

stockVars == <<currentStock, reservedStock, availableStock, resv, committed,
               released, conn, returned, staleSettle, staleReserve, clerk, job,
               rungUp, adjustments, moved, overwrote, clamped, lostRecount>>
paymentVars == <<status, paymentStatus, payment, retries, intent, notices,
                 stock, bus, call, stale, crashes>>
refundVars == <<rPayment, refund, paidBack, payouts, rNotices, rCall, twice,
                overlap, rCrashes>>
everyVar == <<focus, stockVars, paymentVars, refundVars>>

Upkeep == INSTANCE StockUpkeep WITH
    Orders <- {o1}, Products <- {latte}, Connections <- {c1}, Clerks <- {t1},
    Qty <- o1 :> (latte :> 2), InitialStock <- latte :> 2,
    MaxQty <- 2, Amounts <- {1}, MaxAdjust <- 1

Pay == INSTANCE OrderPayment WITH
    Orders <- {o1}, Workers <- {w1}, Poller <- poller, MaxRetries <- 1, MaxCrashes <- 1

Refunding == INSTANCE Refunds WITH
    Rows <- {r1, r2}, Workers <- {w1, w2}, Paid <- 1, MaxCrashes <- 1,
    payment <- rPayment, notices <- rNotices, call <- rCall, crashes <- rCrashes

Init ==
    /\ focus \in {"stock", "payment", "refund"}
    /\ Upkeep!UpkeepInit
    /\ Pay!Init
    /\ Refunding!Init

Next ==
    \/ focus = "stock" /\ Upkeep!UpkeepNext /\ UNCHANGED <<focus, paymentVars, refundVars>>
    \/ focus = "payment" /\ Pay!Next /\ UNCHANGED <<focus, stockVars, refundVars>>
    \/ focus = "refund" /\ Refunding!Next /\ UNCHANGED <<focus, stockVars, paymentVars>>

\* The fairness conditions of the three specifications, each for the behaviours
\* that follow its component.
Fairness ==
    /\ WF_stockVars(focus = "stock" /\ Upkeep!JobStep)
    /\ SF_paymentVars(focus = "payment" /\ Pay!PollRead(o1))
    /\ SF_paymentVars(focus = "payment" /\ Pay!PollWrite)
    /\ \A e \in Pay!Events : WF_paymentVars(focus = "payment" /\ Pay!HandleEvent(e, o1))
    /\ \A r \in {r1, r2} :
           SF_refundVars(focus = "refund" /\ \E w \in {w1, w2} : Refunding!ProcessRead(w, r))
    /\ \A w \in {w1, w2} :
           /\ SF_refundVars(focus = "refund" /\ Refunding!ProcessTake(w))
           /\ WF_refundVars(focus = "refund" /\ Refunding!CallGoesOn(w))

FairSpec == Init /\ [][Next]_everyVar /\ Fairness

NightlyRepair == Upkeep!NightlyRepair
ReservedRecounted == Upkeep!ReservedRecounted
ChargeNoticed == Pay!ChargeNoticed
RequestTaken == Refunding!RequestTaken
===============================================================================
