------------------------------- MODULE LaborCost -------------------------------
(***************************************************************************)
(* LaborCostTrackingService for one store: the budget a manager sets, the  *)
(* snapshots that set the cost of the hours worked against the sales, and  *)
(* LaborCostSnapshotJob, which takes one at the start of every hour.       *)
(*                                                                         *)
(* Setting a budget ends the one in force and then creates the new one; a  *)
(* snapshot reads the entries, the orders and the budget one after the     *)
(* other, and is judged by limits of its own when no budget is in force.   *)
(* Time passes by half hours; a day has HoursPerDay hours, and the week    *)
(* that the dashboard asks for last is but a longer day.                   *)
(***************************************************************************)
EXTENDS Integers, Sequences, FiniteSets, Functions

CONSTANTS
    Entries,      \* keys for rows of TimeEntry
    Rate,         \* Entries -> cents an hour
    Callers, Limits, HoursPerDay, LastTime,
    MaxSales      \* bound: orders; each of ten cents

LaborAssumption ==
    /\ IsFiniteSet(Entries) /\ \A e \in Entries : Rate[e] \in Nat
    /\ HoursPerDay \in Nat \ {0} /\ LastTime \in Nat /\ MaxSales \in Nat /\ Limits \subseteq Nat

VARIABLES
    now,          \* half hours
    entry,        \* since, until: -1 when it has not begun or not ended
    sold,         \* how many orders were created, by time
    budgets,      \* rows of LaborBudget that are active: their maxLaborPercent
    call,
    snapshot,     \* of the latest row of LaborCostSnapshot, how it was judged
    wanted,       \* the limit of the latest budget that was asked for, or -1
    broken        \* requests for a budget overlapped, or one failed half way

laborVars == <<now, entry, sold, budgets, call, snapshot, wanted, broken>>

Idle == [op |-> "idle"]
NoSnapshot == [limit |-> 0, isOverBudget |-> FALSE]
DefaultLimit == 35
Clock == 0 .. LastTime

Round(n, d) == (2 * n + d) \div (2 * d)
Min2(x, y) == IF x < y THEN x ELSE y
Max2(x, y) == IF x > y THEN x ELSE y
Sum(S, f(_)) == SumFunction([x \in S |-> f(x)])
Goto(c, next) == call' = [call EXCEPT ![c] = next]

-----------------------------------------------------------------------------
(* calculateSnapshot.                                                      *)

\* The hour, or the day, of a time: its first half hour and the first one after.
PeriodOf(type, t) ==
    LET length == IF type = "HOURLY" THEN 2 ELSE 2 * HoursPerDay
        start == (t \div length) * length
    IN  <<start, start + length>>

\* Entries of the period: begun by its end, and not ended before its start.
ActiveIn(p) == {e \in Entries : entry[e].since >= 0 /\ entry[e].since < p[2]
                                /\ (entry[e].until = -1 \/ entry[e].until >= p[1])}

\* Faulty variant: whoever was there is counted for all the period so far.
WholePeriod(e, p) == Max2(0, Min2(now, p[2]) - p[1])

\* The half hours of an entry that lie in the period, up to now.
HoursInPeriod(e, p) ==
    LET until == IF entry[e].until = -1 THEN now ELSE entry[e].until
    IN  Max2(0, Min2(until, p[2]) - Max2(entry[e].since, p[1]))

TotalLaborHours(p) == Sum(ActiveIn(p), LAMBDA e : HoursInPeriod(e, p))
LaborCostOf(p) == Sum(ActiveIn(p), LAMBDA e : Round(HoursInPeriod(e, p) * Rate[e], 2))
SalesOf(p) == 10 * Sum({t \in Clock : p[1] <= t /\ t < p[2]}, LAMBDA t : sold[t])

Snapshots(c, types) ==
    /\ call[c] = Idle
    /\ Goto(c, [op |-> "entries", at |-> now, todo |-> types])
    /\ UNCHANGED <<now, entry, sold, budgets, snapshot, wanted, broken>>

getLaborDashboard(c) == Snapshots(c, <<"DAILY", "HOURLY">>)
LaborCostSnapshotJob(c) == now % 2 = 0 /\ Snapshots(c, <<"HOURLY">>)

calculateSnapshot(c) ==
    LET k == call[c]
        p == PeriodOf(Head(k.todo), k.at)
    IN  /\ k.op = "entries"
        /\ Goto(c, [op |-> "orders", at |-> k.at, todo |-> Tail(k.todo),
                     period |-> p, cost |-> LaborCostOf(p)])
        /\ UNCHANGED <<now, entry, sold, budgets, snapshot, wanted, broken>>

ReadOrders(c) ==
    LET k == call[c] IN
    /\ k.op = "orders"
    /\ Goto(c, [op |-> "budget", at |-> k.at, todo |-> k.todo, cost |-> k.cost, sales |-> SalesOf(k.period)])
    /\ UNCHANGED <<now, entry, sold, budgets, snapshot, wanted, broken>>

\* Without a budget the limit is a default, and without sales the cost is nothing
\* in a hundred.
JudgeAndStore(c) ==
    LET k == call[c] IN
    /\ k.op = "budget"
    /\ \E limit \in IF budgets = {} THEN {DefaultLimit} ELSE budgets :
           snapshot' = [limit |-> limit,
                        isOverBudget |-> k.sales > 0 /\ 100 * k.cost > limit * k.sales]
    /\ Goto(c, IF k.todo = <<>> THEN Idle ELSE [op |-> "entries", at |-> k.at, todo |-> k.todo])
    /\ UNCHANGED <<now, entry, sold, budgets, wanted, broken>>

-----------------------------------------------------------------------------
(* setLaborBudget.                                                         *)

Setting == {d \in Callers : call[d].op = "create"}

\* Faulty variant: the budget in force is not ended.
KeepBudgets(c, limit) ==
    /\ call[c] = Idle
    /\ wanted' = limit /\ broken' = (broken \/ Setting # {})
    /\ Goto(c, [op |-> "create", limit |-> limit])
    /\ UNCHANGED <<now, entry, sold, budgets, snapshot>>

EndBudgets(c, limit) ==
    /\ call[c] = Idle
    /\ budgets' = {} /\ wanted' = limit /\ broken' = (broken \/ Setting # {})
    /\ Goto(c, [op |-> "create", limit |-> limit])
    /\ UNCHANGED <<now, entry, sold, snapshot>>

CreateBudget(c) ==
    /\ call[c].op = "create"
    /\ budgets' = budgets \union {call[c].limit}
    /\ Goto(c, Idle)
    /\ UNCHANGED <<now, entry, sold, snapshot, wanted, broken>>

-----------------------------------------------------------------------------

ClockIn(e) ==
    /\ entry[e].since = -1 /\ entry' = [entry EXCEPT ![e].since = now]
    /\ UNCHANGED <<now, sold, budgets, call, snapshot, wanted, broken>>

ClockOut(e) ==
    /\ entry[e].since >= 0 /\ entry[e].until = -1 /\ entry' = [entry EXCEPT ![e].until = now]
    /\ UNCHANGED <<now, sold, budgets, call, snapshot, wanted, broken>>

Sell ==
    /\ Sum(Clock, LAMBDA t : sold[t]) < MaxSales
    /\ sold' = [sold EXCEPT ![now] = @ + 1]
    /\ UNCHANGED <<now, entry, budgets, call, snapshot, wanted, broken>>

Tick ==
    /\ now < LastTime /\ now' = now + 1
    /\ UNCHANGED <<entry, sold, budgets, call, snapshot, wanted, broken>>

\* A statement fails, or the server stops: a store may be left without a budget.
Fail(c) ==
    /\ call[c] # Idle /\ Goto(c, Idle)
    /\ broken' = (broken \/ call[c].op = "create")
    /\ UNCHANGED <<now, entry, sold, budgets, snapshot, wanted>>

Init ==
    /\ now = 0 /\ entry = [e \in Entries |-> [since |-> -1, until |-> -1]]
    /\ sold = [t \in Clock |-> 0] /\ budgets = {} /\ call = [c \in Callers |-> Idle]
    /\ snapshot = NoSnapshot /\ wanted = -1 /\ broken = FALSE

Next ==
    \/ \E c \in Callers :
           \/ getLaborDashboard(c) \/ LaborCostSnapshotJob(c)
           \/ calculateSnapshot(c) \/ ReadOrders(c) \/ JudgeAndStore(c) \/ CreateBudget(c) \/ Fail(c)
           \/ \E limit \in Limits : EndBudgets(c, limit)
    \/ \E e \in Entries : ClockIn(e) \/ ClockOut(e)
    \/ Sell \/ Tick

Spec == Init /\ [][Next]_laborVars

-----------------------------------------------------------------------------

\* What is worked is counted once: the days hold all the half hours of the
\* entries, a day holds those of its hours, and its cost is theirs up to a cent
\* for each hour of an entry.
HoursAddUp ==
    LET half(e) == IF entry[e].since = -1 THEN 0
                   ELSE (IF entry[e].until = -1 THEN now ELSE entry[e].until) - entry[e].since
        starts(type) == {PeriodOf(type, t) : t \in Clock}
        hours(day) == {p \in starts("HOURLY") : day[1] <= p[1] /\ p[2] <= day[2]}
        slack == HoursPerDay * Cardinality(Entries)
    IN  /\ Sum(starts("DAILY"), TotalLaborHours) = Sum(Entries, half)
        /\ \A day \in starts("DAILY") :
               LET cost == Sum(hours(day), LaborCostOf) IN
               /\ TotalLaborHours(day) = Sum(hours(day), TotalLaborHours)
               /\ cost - slack <= LaborCostOf(day) /\ LaborCostOf(day) <= cost + slack

\* Once a limit is asked for, it alone is in force, but while it is being set;
\* requests that overlap or fail half way excepted.
OneBudget ==
    wanted = -1 \/ broken \/ Setting # {} \/ budgets = {wanted}

================================================================================
