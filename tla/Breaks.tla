--------------------------------- MODULE Breaks ---------------------------------
(***************************************************************************)
(* The breaks of those who are clocked in (startBreak and endBreak of      *)
(* TimeEntryService), BreakEnforcementService, which records who missed    *)
(* one, and BreakEnforcementMonitorJob, which runs it every ten minutes.   *)
(*                                                                         *)
(* A break is short against the hours after which it is due, so that it    *)
(* takes no time of the clock here.  The monitor reads the entry with its  *)
(* breaks, and the policies, then looks for each violation and writes it.  *)
(* A policy applies when its hours have passed: what it wants is never     *)
(* still to come, and nobody is reminded.                                  *)
(***************************************************************************)
EXTENDS Integers, FiniteSets

CONSTANTS
    Entries,      \* keys for rows of TimeEntry, clocked in at hour 0
    Rows,         \* keys for rows of BreakEntry
    Callers,      \* requests about breaks
    Monitors,     \* runs of the job
    Lengths,      \* minutes a break may last
    LastHour

VARIABLES
    hour,
    clockedOut,   \* entries
    policies,     \* rows of BreakPolicy, by name
    break,        \* rows of BreakEntry: entry, type, minutes (-1 while it lasts), ended
    violations,   \* how many rows of BreakViolation, by entry and policy
    call, monitor,
    twice,        \* entries where two breaks were started at once
    lookedTwice   \* entries and policies that two runs of the job looked up at once

breakVars == <<hour, clockedOut, policies, break, violations, call, monitor, twice, lookedTwice>>

Idle == [op |-> "idle"]
NoBreak == [entry |-> "none"]

Policies == {"6-Hour Break", "4-Hour Break", "8-Hour Second Break"}
minShiftHours == [p \in Policies |->
    CASE p = "4-Hour Break" -> 4 [] p = "6-Hour Break" -> 6 [] OTHER -> 8]
breakType == [p \in Policies |-> IF p = "6-Hour Break" THEN "MEAL" ELSE "PAID"]
breakDuration == [p \in Policies |-> IF p = "6-Hour Break" THEN 30 ELSE 15]

\* The three of them, in this order.
createStandardPolicies ==
    /\ policies # Policies
    /\ policies' = policies \union
           {IF policies = {} THEN "6-Hour Break"
            ELSE IF policies = {"6-Hour Break"} THEN "4-Hour Break" ELSE "8-Hour Second Break"}
    /\ UNCHANGED <<hour, clockedOut, break, violations, call, monitor, twice, lookedTwice>>

-----------------------------------------------------------------------------
(* startBreak and endBreak.                                                *)

Taken(r) == break[r] # NoBreak
OnBreak(e) == {r \in Rows : Taken(r) /\ break[r].entry = e /\ break[r].minutes = -1}
BreaksOf(e) == {break[r] : r \in {q \in Rows : Taken(q) /\ break[q].entry = e}}

startBreak(c, e, type) ==
    /\ call[c] = Idle /\ OnBreak(e) = {}
    /\ call' = [call EXCEPT ![c] = [op |-> "start", entry |-> e, type |-> type]]
    /\ UNCHANGED <<hour, clockedOut, policies, break, violations, monitor, twice, lookedTwice>>

WriteBreak(c) ==
    /\ call[c].op = "start"
    /\ \E r \in Rows :
           /\ ~Taken(r)
           /\ break' = [break EXCEPT ![r] =
                  [entry |-> call[c].entry, type |-> call[c].type, minutes |-> -1, ended |-> LastHour]]
    /\ twice' = IF OnBreak(call[c].entry) # {} THEN twice \union {call[c].entry} ELSE twice
    /\ call' = [call EXCEPT ![c] = Idle]
    /\ UNCHANGED <<hour, clockedOut, policies, violations, monitor, lookedTwice>>

\* endBreak looks at the row and writes it by key.
endBreak(c, r) ==
    /\ call[c] = Idle /\ Taken(r) /\ break[r].minutes = -1
    /\ call' = [call EXCEPT ![c] = [op |-> "end", row |-> r]]
    /\ UNCHANGED <<hour, clockedOut, policies, break, violations, monitor, twice, lookedTwice>>

EndOfBreak(c) ==
    /\ call[c].op = "end"
    /\ \E m \in Lengths : break' = [break EXCEPT ![call[c].row] =
           [entry |-> @.entry, type |-> @.type, minutes |-> m, ended |-> hour]]
    /\ call' = [call EXCEPT ![c] = Idle]
    /\ UNCHANGED <<hour, clockedOut, policies, violations, monitor, twice, lookedTwice>>

-----------------------------------------------------------------------------
(* BreakEnforcementService.                                                *)

Satisfies(b, p) == b.type = breakType[p] /\ b.minutes >= breakDuration[p]

\* Faulty variant: a break that is exactly as long as it should be is too short.
CheckLonger(e) ==
    {p \in policies : minShiftHours[p] <= hour
         /\ ~\E b \in BreaksOf(e) : b.type = breakType[p] /\ b.minutes > breakDuration[p]}

\* checkBreakRequirement: any break of the type will do for every policy.
checkBreakRequirement(e) ==
    {p \in policies : minShiftHours[p] <= hour /\ ~\E b \in BreaksOf(e) : Satisfies(b, p)}

\* monitorActiveEntries: the entries that are active, one after the other.
Onward(k) ==
    IF k.missed # {} THEN k
    ELSE IF k.todo # {} THEN [op |-> "entries", todo |-> k.todo] ELSE Idle

monitorActiveEntries(m) ==
    /\ monitor[m] = Idle /\ Entries \ clockedOut # {}
    /\ monitor' = [monitor EXCEPT ![m] = [op |-> "entries", todo |-> Entries \ clockedOut]]
    /\ UNCHANGED <<hour, clockedOut, policies, break, violations, call, twice, lookedTwice>>

CheckEntry(m) ==
    /\ monitor[m].op = "entries"
    /\ \E e \in monitor[m].todo :
           monitor' = [monitor EXCEPT ![m] = Onward(
               [op |-> "missed", todo |-> @.todo \ {e}, entry |-> e, missed |-> checkBreakRequirement(e)])]
    /\ UNCHANGED <<hour, clockedOut, policies, break, violations, call, twice, lookedTwice>>

\* Faulty variant: a violation is written whether or not there is one.
NoLookUp(m) ==
    LET k == monitor[m] IN
    /\ k.op = "missed"
    /\ \E p \in k.missed :
           monitor' = [monitor EXCEPT ![m] = [op |-> "write", todo |-> k.todo, entry |-> k.entry,
                                              missed |-> k.missed \ {p}, policy |-> p]]
    /\ UNCHANGED <<hour, clockedOut, policies, break, violations, call, twice, lookedTwice>>

LookUp(m) ==
    LET k == monitor[m] IN
    /\ k.op = "missed"
    /\ \E p \in k.missed :
           monitor' = [monitor EXCEPT ![m] =
               IF violations[k.entry][p] > 0 THEN Onward([k EXCEPT !.missed = @ \ {p}])
               ELSE [op |-> "write", todo |-> k.todo, entry |-> k.entry,
                     missed |-> k.missed \ {p}, policy |-> p]]
    /\ UNCHANGED <<hour, clockedOut, policies, break, violations, call, twice, lookedTwice>>

createViolation(m) ==
    LET k == monitor[m] IN
    /\ k.op = "write"
    /\ violations' = [violations EXCEPT ![k.entry][k.policy] = @ + 1]
    /\ lookedTwice' = lookedTwice \union {<<k.entry, k.policy>> : n \in {n \in Monitors \ {m} :
           monitor[n].op = "write" /\ monitor[n].entry = k.entry /\ monitor[n].policy = k.policy}}
    /\ monitor' = [monitor EXCEPT ![m] =
           Onward([op |-> "missed", todo |-> k.todo, entry |-> k.entry, missed |-> k.missed])]
    /\ UNCHANGED <<hour, clockedOut, policies, break, call, twice>>

-----------------------------------------------------------------------------

ClockOut(e) ==
    /\ e \notin clockedOut /\ clockedOut' = clockedOut \union {e}
    /\ UNCHANGED <<hour, policies, break, violations, call, monitor, twice, lookedTwice>>

\* Two hours pass.
Tick ==
    /\ hour < LastHour /\ hour' = hour + 2
    /\ UNCHANGED <<clockedOut, policies, break, violations, call, monitor, twice, lookedTwice>>

\* The server stops.
Crash ==
    /\ call' = [c \in Callers |-> Idle] /\ monitor' = [m \in Monitors |-> Idle]
    /\ <<call, monitor>>' # <<call, monitor>>
    /\ UNCHANGED <<hour, clockedOut, policies, break, violations, twice, lookedTwice>>

Init ==
    /\ hour = 2 /\ clockedOut = {} /\ policies = {}
    /\ break = [r \in Rows |-> NoBreak]
    /\ violations = [e \in Entries |-> [p \in Policies |-> 0]]
    /\ call = [c \in Callers |-> Idle] /\ monitor = [m \in Monitors |-> Idle]
    /\ twice = {} /\ lookedTwice = {}

Next ==
    \/ createStandardPolicies
    \/ \E c \in Callers :
           \/ \E e \in Entries, type \in {"PAID", "MEAL"} : startBreak(c, e, type)
           \/ \E r \in Rows : endBreak(c, r)
           \/ WriteBreak(c) \/ EndOfBreak(c)
    \/ \E m \in Monitors :
           \/ monitorActiveEntries(m) \/ CheckEntry(m) \/ LookUp(m)
           \/ createViolation(m)
    \/ \E e \in Entries : ClockOut(e)
    \/ Tick \/ Crash

Spec == Init /\ [][Next]_breakVars

-----------------------------------------------------------------------------

\* Nobody who has taken the break a policy asks for by its hour is reported, and
\* a missed break is reported once, however often the job stops and runs again,
\* unless two runs look for it at once.
ReportsJust ==
    \A e \in Entries, p \in Policies :
        /\ violations[e][p] > 0 =>
               ~\E b \in BreaksOf(e) : b.ended < minShiftHours[p] /\ Satisfies(b, p)
        /\ <<e, p>> \in lookedTwice \/ violations[e][p] <= 1

\* Nobody is on two breaks, unless both were asked for at once.
OneBreakEach == \A e \in Entries : e \in twice \/ Cardinality(OnBreak(e)) <= 1

BreaksKept == ReportsJust /\ OneBreakEach
================================================================================
