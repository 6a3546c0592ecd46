------------------------------ MODULE Settlements ------------------------------
(***************************************************************************)
(* When the provider's money arrives: SettlementService, the tier 2 handler*)
(* of PAYMENT_CONFIRMED that records a pending settlement, and             *)
(* SettlementSyncJob, which asks the provider every day for the payouts of *)
(* the last Window days and marks the settlements of their charges.        *)
(*                                                                         *)
(* The handler's row is lost with the event when the server stops; a run of*)
(* the job can fail for a payout or altogether; of a payout only the first *)
(* page of charges is read.                                                *)
(***************************************************************************)
EXTENDS Integers, FiniteSets

CONSTANTS
    Payments,     \* charged by the provider
    Page,         \* charges that one list call returns, 100
    Window,       \* days that a payout is asked for, 7
    MaxFailures   \* bound: runs of the job that fail for some payout

SettlementAssumption == Page \in Nat /\ Window \in Nat /\ MaxFailures \in Nat

VARIABLES
    settlement,   \* Settlement.status of each payment, "NONE" without a row
    confirmed,    \* PAYMENT_CONFIRMED events not handled yet
    handling,     \* for each event in its handler: whether it found a row
    payout,       \* the provider's payouts: [charges, first page, age in days]
    syncing,      \* the payments that the job has yet to mark
    ran,          \* the job ran today
    failures

settlementVars == <<settlement, confirmed, handling, payout, syncing, ran, failures>>

PaidOut == UNION {o.charges : o \in payout}

-----------------------------------------------------------------------------
\* The event is emitted when the payment is confirmed; a second confirmation
\* that overlaps the first emits it again.
Confirmed(p) ==
    /\ p \notin PaidOut
    /\ settlement[p] = "NONE" \/ handling[p] # {}
    /\ confirmed' = confirmed \union {p}
    /\ UNCHANGED <<settlement, handling, payout, syncing, ran, failures>>

\* recordPending looks for a row of the payment ...
RecordFind(p) ==
    /\ p \in confirmed
    /\ confirmed' = confirmed \ {p}
    /\ handling' = [handling EXCEPT ![p] = @ \union {settlement[p] # "NONE"}]
    /\ UNCHANGED <<settlement, payout, syncing, ran, failures>>

\* ... and creates one: paymentUuid is unique, so a second create fails, and
\* the error is caught.
RecordCreate(p) ==
    \E found \in handling[p] :
        /\ settlement' = [settlement EXCEPT ![p] = IF found \/ @ # "NONE" THEN @ ELSE "PENDING"]
        /\ handling' = [handling EXCEPT ![p] = @ \ {found}]
        /\ UNCHANGED <<confirmed, payout, syncing, ran, failures>>

\* The server stops: events and handlers are lost, and a run of the job.
Crash ==
    /\ failures < MaxFailures
    /\ failures' = failures + 1
    /\ confirmed' = {}
    /\ handling' = [p \in Payments |-> {}]
    /\ syncing' = {}
    /\ UNCHANGED <<settlement, payout, ran>>

-----------------------------------------------------------------------------
\* The provider pays out some charges, and lists at most a page of them.
PayOut(C, first) ==
    /\ C # {} /\ C \subseteq Payments \ PaidOut /\ first \subseteq C
    /\ Cardinality(first) = IF Cardinality(C) < Page THEN Cardinality(C) ELSE Page
    /\ payout' = payout \union {[charges |-> C, first |-> first, age |-> 0]}
    /\ UNCHANGED <<settlement, confirmed, handling, syncing, ran, failures>>

\* Handlers take less than a day, and so does the job.
NextDay ==
    /\ ran /\ syncing = {}
    /\ confirmed = {} /\ \A p \in Payments : handling[p] = {}
    /\ \A o \in payout : o.age <= Window
    /\ payout' = {[o EXCEPT !.age = @ + 1] : o \in payout}
    /\ ran' = FALSE
    /\ UNCHANGED <<settlement, confirmed, handling, syncing, failures>>

-----------------------------------------------------------------------------
\* Faulty variant: only the payouts of the last day are asked for.
RecentToday == UNION {o.first : o \in {q \in payout : q.age = 0}}

\* What the list calls of syncStripe return, payouts and their transactions.
Recent == UNION {o.first : o \in {q \in payout : q.age <= Window}}

SyncStart ==
    /\ ~ran
    /\ ran' = TRUE
    /\ syncing' = Recent
    /\ UNCHANGED <<settlement, confirmed, handling, payout, failures>>

\* markSettled: a row that is not PENDING, or no row, is left alone.
markSettled(p) ==
    /\ p \in syncing
    /\ settlement' = [settlement EXCEPT ![p] = IF @ = "PENDING" THEN "SETTLED" ELSE @]
    /\ syncing' = syncing \ {p}
    /\ UNCHANGED <<confirmed, handling, payout, ran, failures>>

\* An error ends the work on the rest of the payout, or of the provider.
SyncFails ==
    /\ syncing # {}
    /\ failures < MaxFailures
    /\ failures' = failures + 1
    /\ \E skipped \in SUBSET syncing : syncing' = syncing \ skipped
    /\ UNCHANGED <<settlement, confirmed, handling, payout, ran>>

-----------------------------------------------------------------------------
Init ==
    /\ settlement = [p \in Payments |-> "NONE"]
    /\ confirmed = {}
    /\ handling = [p \in Payments |-> {}]
    /\ payout = {}
    /\ syncing = {}
    /\ ran = FALSE
    /\ failures = 0

Next ==
    \/ \E p \in Payments : Confirmed(p) \/ RecordFind(p) \/ RecordCreate(p) \/ markSettled(p)
    \/ \E C \in SUBSET Payments : \E first \in SUBSET C : PayOut(C, first)
    \/ NextDay \/ Crash
    \/ SyncStart \/ SyncFails

Spec == Init /\ [][Next]_settlementVars

-----------------------------------------------------------------------------
\* A payout that the job can no longer see has settled every charge on its first
\* page that was recorded, as long as fewer runs failed than the window has
\* days, whatever events were repeated and handlers overlapped.
SettledInTime ==
    \A o \in payout :
        o.age > Window =>
            \A p \in o.first : settlement[p] # "NONE" => settlement[p] = "SETTLED"
================================================================================
