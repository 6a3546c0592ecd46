--------------------------------- MODULE Roster ---------------------------------
(***************************************************************************)
(* Who may work at a store, and when: the access of the staff to stores    *)
(* (grantStoreAccess, revokeStoreAccess, terminateStaff of                 *)
(* StaffManagementService) and the roster of ShiftManagementService.       *)
(*                                                                         *)
(* Nothing of this runs in a transaction: planning a shift looks up the    *)
(* access, then the other shifts, then writes; a termination is four       *)
(* statements.  All the times of the roster lie ahead.  An answer to a     *)
(* request for a swap changes nothing but the request; createStaff fails   *)
(* after its first row, as the second lacks a required field.              *)
(***************************************************************************)
EXTENDS Integers, FiniteSets

CONSTANTS
    Staff, Stores, Shifts, Managers,
    Times         \* pairs of a start and an end

VARIABLES
    access,       \* rows of UserStore: "none", "active" or "inactive"
    shift,        \* rows of Shift: status, by, store, time
    call,         \* what each manager's request is at
    overlapped,   \* staff of whom two shifts were planned at once, or one taken
                  \* up again after it was cancelled
    left          \* staff whose termination was completed, and not undone

rosterVars == <<access, shift, call, overlapped, left>>

Idle == [op |-> "idle"]
NoShift == [status |-> "none"]
\* A shift that is IN_PROGRESS or a NO_SHOW is treated like a COMPLETED one.
Statuses == {"SCHEDULED", "COMPLETED", "CANCELLED"}

Goto(m, next) == call' = [call EXCEPT ![m] = next]
Begin(m, what) == call[m] = Idle /\ Goto(m, what)
Planned(s) == shift[s] # NoShift
Booked(u, s) == Planned(s) /\ shift[s].by = u /\ shift[s].status # "CANCELLED"

-----------------------------------------------------------------------------
(* ShiftManagementService.                                                 *)

\* checkShiftConflicts: begins before and ends after the start, or the end, or
\* lies within; a shift that touches another is in its way.
InTheWay(t, other) ==
    \/ other[1] <= t[1] /\ other[2] >= t[1]
    \/ other[1] <= t[2] /\ other[2] >= t[2]
    \/ other[1] >= t[1] /\ other[2] <= t[2]
checkShiftConflicts(u, t, except) ==
    {s \in Shifts \ except : Booked(u, s) /\ InTheWay(t, shift[s].time)}

\* A shift of u is written: requests that have looked at the shifts of u before
\* no longer know them.
Written(m, u) ==
    /\ overlapped' = IF call[m].outdated THEN overlapped \union {u} ELSE overlapped
    /\ call' = [n \in Managers |->
           IF n = m THEN Idle
           ELSE IF call[n].op \in {"create", "move"} /\ call[n].by = u
           THEN [call[n] EXCEPT !.outdated = TRUE] ELSE call[n]]

\* Faulty variant: any row of UserStore will do.
plannedForAny(m, u, st, t) ==
    /\ access[u][st] # "none"
    /\ Begin(m, [op |-> "plan", by |-> u, store |-> st, time |-> t, knew |-> u \in left])
    /\ UNCHANGED <<access, shift, overlapped, left>>

createShift(m, u, st, t) ==
    /\ access[u][st] = "active"
    /\ Begin(m, [op |-> "plan", by |-> u, store |-> st, time |-> t, knew |-> u \in left])
    /\ UNCHANGED <<access, shift, overlapped, left>>

\* Faulty variant: only a shift at the very same time is in the way.
SameTimeOnly(m) ==
    LET c == call[m] IN
    /\ c.op = "plan"
    /\ Goto(m, IF \E s \in Shifts : Booked(c.by, s) /\ shift[s].time = c.time THEN Idle
               ELSE [op |-> "create", by |-> c.by, store |-> c.store, time |-> c.time,
                     knew |-> c.knew, outdated |-> FALSE])
    /\ UNCHANGED <<access, shift, overlapped, left>>

LookForConflicts(m) ==
    LET c == call[m] IN
    /\ c.op = "plan"
    /\ Goto(m, IF checkShiftConflicts(c.by, c.time, {}) # {} THEN Idle
               ELSE [op |-> "create", by |-> c.by, store |-> c.store, time |-> c.time,
                     knew |-> c.knew, outdated |-> FALSE])
    /\ UNCHANGED <<access, shift, overlapped, left>>

WriteShift(m) ==
    LET c == call[m] IN
    /\ c.op = "create"
    /\ \E s \in Shifts :
           /\ ~Planned(s)
           /\ shift' = [shift EXCEPT ![s] = [status |-> "SCHEDULED", by |-> c.by,
                                             store |-> c.store, time |-> c.time]]
    /\ Written(m, c.by)
    /\ left' = IF c.knew THEN left ELSE left \ {c.by}
    /\ UNCHANGED access

\* updateShift with a new time looks at the other shifts, whatever the status;
\* with a status too it is this and setStatus.
updateShift(m, s, t) ==
    /\ Planned(s)
    /\ checkShiftConflicts(shift[s].by, t, {s}) = {}
    /\ Begin(m, [op |-> "move", of |-> s, by |-> shift[s].by, time |-> t, outdated |-> FALSE])
    /\ UNCHANGED <<access, shift, overlapped, left>>

MoveShift(m) ==
    LET c == call[m] IN
    /\ c.op = "move"
    /\ shift' = [shift EXCEPT ![c.of].time = c.time]
    /\ Written(m, c.by)
    /\ UNCHANGED <<access, left>>

\* updateShift with a status alone looks at nothing: a cancelled shift can come
\* back, at the time of another, and after its owner has left.
setStatus(s, status) ==
    LET u == shift[s].by
        back == shift[s].status = "CANCELLED" /\ status # "CANCELLED"
    IN  /\ Planned(s)
        /\ shift' = [shift EXCEPT ![s].status = status]
        /\ overlapped' = IF back THEN overlapped \union {u} ELSE overlapped
        /\ left' = IF status = "SCHEDULED" THEN left \ {u} ELSE left
        /\ UNCHANGED <<access, call>>

cancelShift(s) ==
    /\ Planned(s)
    /\ shift' = [shift EXCEPT ![s].status = "CANCELLED"]
    /\ UNCHANGED <<access, call, overlapped, left>>

-----------------------------------------------------------------------------
(* StaffManagementService.                                                 *)

\* grantStoreAccess reads the row; it fails when the row is active.
grantStoreAccess(m, u, st) ==
    /\ access[u][st] # "active"
    /\ Begin(m, [op |-> "grant", by |-> u, store |-> st, found |-> access[u][st]])
    /\ UNCHANGED <<access, shift, overlapped, left>>

\* Creating a row that another request has created fails.
WriteAccess(m) ==
    LET c == call[m] IN
    /\ c.op = "grant" /\ Goto(m, Idle)
    /\ IF c.found = "none" /\ access[c.by][c.store] # "none" THEN UNCHANGED <<access, left>>
       ELSE /\ access' = [access EXCEPT ![c.by][c.store] = "active"]
            /\ left' = left \ {c.by}
    /\ UNCHANGED <<shift, overlapped>>

revokeStoreAccess(u, st) ==
    /\ access[u][st] # "none"
    /\ access' = [access EXCEPT ![u][st] = "inactive"]
    /\ UNCHANGED <<shift, call, overlapped, left>>

\* The first two statements end the employment of u in rows that nothing here
\* looks at.
terminateStaff(m, u) ==
    /\ Begin(m, [op |-> "access", by |-> u])
    /\ UNCHANGED <<access, shift, overlapped, left>>

EndAccess(m) ==
    LET u == call[m].by IN
    /\ call[m].op = "access"
    /\ access' = [access EXCEPT ![u] = [st \in Stores |-> IF @[st] = "none" THEN "none" ELSE "inactive"]]
    /\ Goto(m, [call[m] EXCEPT !.op = "shifts"])
    /\ UNCHANGED <<shift, overlapped, left>>

\* What was granted since the statement before is still there.
CancelShifts(m) ==
    LET u == call[m].by IN
    /\ call[m].op = "shifts"
    /\ shift' = [s \in Shifts |->
           IF Booked(u, s) /\ shift[s].status = "SCHEDULED"
           THEN [shift[s] EXCEPT !.status = "CANCELLED"] ELSE shift[s]]
    /\ left' = IF \A st \in Stores : access[u][st] # "active" THEN left \union {u} ELSE left
    /\ Goto(m, Idle)
    /\ UNCHANGED <<access, overlapped>>

\* A statement fails, or the server stops.
Fail(m) ==
    /\ call[m] # Idle /\ Goto(m, Idle)
    /\ UNCHANGED <<access, shift, overlapped, left>>

-----------------------------------------------------------------------------

Init ==
    /\ access \in [Staff -> [Stores -> {"none", "active"}]]
    /\ shift = [s \in Shifts |-> NoShift]
    /\ call = [m \in Managers |-> Idle]
    /\ overlapped = {} /\ left = {}

ShiftNext ==
    \/ \E m \in Managers :
           \/ \E u \in Staff, st \in Stores, t \in Times : createShift(m, u, st, t)
           \/ LookForConflicts(m) \/ WriteShift(m) \/ MoveShift(m)
           \/ \E s \in Shifts, t \in Times : updateShift(m, s, t)
    \/ \E s \in Shifts : cancelShift(s) \/ \E status \in Statuses : setStatus(s, status)

AccessNext ==
    \/ \E m \in Managers, u \in Staff :
           \/ \E st \in Stores : grantStoreAccess(m, u, st)
           \/ terminateStaff(m, u)
    \/ \E m \in Managers : WriteAccess(m) \/ EndAccess(m) \/ CancelShifts(m)
    \/ \E u \in Staff, st \in Stores : revokeStoreAccess(u, st)

Next == ShiftNext \/ AccessNext \/ \E m \in Managers : Fail(m)

Spec == Init /\ [][Next]_rosterVars

-----------------------------------------------------------------------------

\* Nobody is to be at two places at once, unless two requests planned for the
\* same person at a time or a cancelled shift was taken up again.  Nothing keeps
\* a shift from ending before it starts; such a one is left out.
Lasts(s) == shift[s].time[1] <= shift[s].time[2]
NoDoubleBooking ==
    \A u \in Staff \ overlapped : \A s, r \in Shifts :
        /\ s # r /\ Booked(u, s) /\ Booked(u, r) /\ Lasts(s) /\ Lasts(r)
        => ~InTheWay(shift[s].time, shift[r].time)

\* Who has left has no access and no shift ahead, until it is given back by name
\* or by a request that had looked before.
GoneForGood ==
    \A u \in left :
        /\ \A st \in Stores : access[u][st] # "active"
        /\ \A s \in Shifts : ~(Booked(u, s) /\ shift[s].status = "SCHEDULED")

RosterKept == NoDoubleBooking /\ GoneForGood
================================================================================
