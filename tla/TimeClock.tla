------------------------------- MODULE TimeClock -------------------------------
(***************************************************************************)
(* The time clock of one member of staff in one store: TimeEntryService,   *)
(* the offline actions that OfflineSyncService replays through it,         *)
(* AutoClockOutJob and MissedShiftTrackerJob, and the status of one shift. *)
(*                                                                         *)
(* Time goes in steps of some hours.  Looking for an open entry and        *)
(* creating one are two statements, a replayed clock-in gets its own time  *)
(* in a third, and both jobs write what they listed by its key.            *)
(***************************************************************************)
EXTENDS Integers, FiniteSets

CONSTANTS
    Entries,       \* keys for rows of TimeEntry
    Devices,       \* the till, the phone and the jobs, each with a call of its own
    ShiftStart, ShiftEnd,
    LongestDay,    \* an entry open for longer is closed by the job: 12 hours
    UsualDay,      \* after which it is closed when there is no shift: 8 hours
    LastTime       \* bound: the end of time

VARIABLES
    now,
    entry,         \* rows of TimeEntry
    shift,         \* Shift.status
    call,          \* what each device is doing
    doubled,       \* two clock-ins overlapped
    crossed,       \* entries that one call wrote between the read and the write of another
    noShowLate     \* a no-show was written over a clock-in, or a clock-in stopped half-way

clockVars == <<now, entry, shift, call, doubled, crossed, noShowLate>>

NoEntry == [open |-> FALSE]
NoCall == [op |-> "idle"]
Rows == {e \in Entries : entry[e] # NoEntry}
Open == {e \in Rows : entry[e].open}

Begin(d, c) == call[d] = NoCall /\ call' = [call EXCEPT ![d] = c]
Continue(d, c) == call' = [call EXCEPT ![d] = c]
Done(d) == Continue(d, NoCall)

-----------------------------------------------------------------------------
(* Clocking in, now or as it was noted at an earlier time.                 *)

\* syncClockIn and clockIn look for an open entry.
ClockInRead(d, stamp, scheduled) ==
    /\ Open = {} /\ stamp <= now
    /\ Begin(d, [op |-> "in", at |-> "create", stamp |-> stamp, scheduled |-> scheduled])
    /\ doubled' = (doubled \/ \E q \in Devices : call[q].op = "in" /\ call[q].at = "create")
    /\ UNCHANGED <<now, entry, shift, crossed, noShowLate>>

\* Late for the shift: the entry waits for an approval.
CreateEntry(d) ==
    /\ call[d].op = "in" /\ call[d].at = "create"
    /\ \E e \in Entries \ Rows :
           /\ entry' = [entry EXCEPT ![e] =
                  [in |-> now, open |-> TRUE, out |-> 0, hours |-> 0, pay |-> -1,
                   scheduled |-> call[d].scheduled,
                   review |-> call[d].scheduled /\ now > ShiftStart]]
           /\ Continue(d, [op |-> "in", at |-> "shift", stamp |-> call[d].stamp,
                           scheduled |-> call[d].scheduled, of |-> e])
    /\ UNCHANGED <<now, shift, doubled, crossed, noShowLate>>

StartShift(d) ==
    LET c == call[d] IN
    /\ c.op = "in" /\ c.at = "shift"
    /\ shift' = IF c.scheduled THEN "IN_PROGRESS" ELSE shift
    /\ IF c.stamp < now THEN Continue(d, [c EXCEPT !.at = "stamp"]) ELSE Done(d)
    /\ UNCHANGED <<now, entry, doubled, crossed, noShowLate>>

\* syncClockIn moves the entry to the time that the device noted.
Stamp(d) ==
    LET c == call[d] IN
    /\ c.op = "in" /\ c.at = "stamp"
    /\ entry' = [entry EXCEPT ![c.of].in = c.stamp]
    /\ crossed' = IF \/ ~entry[c.of].open
                     \/ \E q \in Devices : call[q].op \in {"out", "auto"} /\ call[q].of = c.of
                  THEN crossed \union {c.of} ELSE crossed
    /\ Done(d)
    /\ UNCHANGED <<now, shift, doubled, noShowLate>>

\* handleSyncConflict: the noted clock-in meets an entry from another time.
SyncConflict(e, stamp) ==
    /\ e \in Open /\ stamp <= now /\ stamp # entry[e].in
    /\ entry' = [entry EXCEPT ![e].review = TRUE]
    /\ UNCHANGED <<now, shift, call, doubled, crossed, noShowLate>>

-----------------------------------------------------------------------------
(* Clocking out.                                                           *)

Closed(row, out, hours, pay, review) ==
    [in |-> row.in, open |-> FALSE, out |-> out, hours |-> hours, pay |-> pay,
     scheduled |-> row.scheduled, review |-> review]

\* A replayed clock-out calls clockOut, too, and gets the time of the replay.
ClockOutRead(d, e) ==
    /\ e \in Open
    /\ Begin(d, [op |-> "out", at |-> "write", of |-> e, in |-> entry[e].in, scheduled |-> entry[e].scheduled])
    /\ UNCHANGED <<now, entry, shift, doubled, crossed, noShowLate>>

\* Faulty variant: the hours of the shift are taken for those worked.
ClockOutByShift(d) ==
    LET c == call[d] IN
    /\ c.op = "out" /\ c.at = "write"
    /\ entry' = [entry EXCEPT ![c.of] =
           Closed(@, now, ShiftEnd - ShiftStart, ShiftEnd - ShiftStart, @.review)]
    /\ Continue(d, [c EXCEPT !.at = "shift"])
    /\ UNCHANGED <<now, shift, doubled, crossed, noShowLate>>

ClockOutWrite(d) ==
    LET c == call[d] IN
    /\ c.op = "out" /\ c.at = "write"
    /\ entry' = [entry EXCEPT ![c.of] = Closed(@, now, now - c.in, now - c.in, @.review)]
    /\ Continue(d, [c EXCEPT !.at = "shift"])
    /\ UNCHANGED <<now, shift, doubled, crossed, noShowLate>>

CompleteShift(d) ==
    LET c == call[d] IN
    /\ c.op = "out" /\ c.at = "shift"
    /\ shift' = IF c.scheduled THEN "COMPLETED" ELSE shift
    /\ Done(d)
    /\ UNCHANGED <<now, entry, doubled, crossed, noShowLate>>

\* AutoClockOutJob lists the open entries that are too old ...
AutoRead(d, e) ==
    /\ e \in Open /\ entry[e].in < now - LongestDay
    /\ Begin(d, [op |-> "auto", of |-> e, in |-> entry[e].in, scheduled |-> entry[e].scheduled])
    /\ UNCHANGED <<now, entry, shift, doubled, crossed, noShowLate>>

\* ... and closes each as of the end of its shift, or of a usual day.  The pay is
\* left as it is, and the shift.
AutoWrite(d) ==
    LET c == call[d]
        out == IF c.scheduled THEN ShiftEnd ELSE c.in + UsualDay
    IN  /\ c.op = "auto"
        /\ entry' = [entry EXCEPT ![c.of] = Closed(@, out, out - c.in, @.pay, TRUE)]
        /\ crossed' = IF entry[c.of].open THEN crossed ELSE crossed \union {c.of}
        /\ Done(d)
        /\ UNCHANGED <<now, shift, doubled, noShowLate>>

\* approveTimeEntry, by a LATE_CLOCK_IN request or directly; a request for a
\* missed clock-out changes nothing when it is approved.
Approve(e) ==
    /\ e \in Rows
    /\ entry' = [entry EXCEPT ![e].review = FALSE]
    /\ UNCHANGED <<now, shift, call, doubled, crossed, noShowLate>>

-----------------------------------------------------------------------------
(* The shift.                                                              *)

\* MissedShiftTrackerJob: nobody clocked in around the start.
MissedRead(d) ==
    /\ shift = "SCHEDULED" /\ now > ShiftStart
    /\ \A e \in Rows : entry[e].in # ShiftStart
    /\ Begin(d, [op |-> "missed"])
    /\ UNCHANGED <<now, entry, shift, doubled, crossed, noShowLate>>

MissedWrite(d) ==
    /\ call[d].op = "missed"
    /\ shift' = "NO_SHOW"
    /\ noShowLate' = (noShowLate \/ \E e \in Rows : entry[e].scheduled)
    /\ Done(d)
    /\ UNCHANGED <<now, entry, doubled, crossed>>

cancelShift ==
    /\ shift' = "CANCELLED"
    /\ UNCHANGED <<now, entry, call, doubled, crossed, noShowLate>>

-----------------------------------------------------------------------------

\* A step of some hours; calls are shorter than that.
Tick ==
    /\ now < LastTime
    /\ \A d \in Devices : call[d] = NoCall
    /\ now' = now + 1
    /\ UNCHANGED <<entry, shift, call, doubled, crossed, noShowLate>>

\* A call fails or the server stops.
Fail(d) ==
    /\ call[d] # NoCall
    /\ noShowLate' = (noShowLate \/ call[d].op = "in")
    /\ Done(d)
    /\ UNCHANGED <<now, entry, shift, doubled, crossed>>

Init ==
    /\ now = 0
    /\ entry = [e \in Entries |-> NoEntry]
    /\ shift = "SCHEDULED"
    /\ call = [d \in Devices |-> NoCall]
    /\ doubled = FALSE /\ crossed = {} /\ noShowLate = FALSE

Next ==
    \/ \E d \in Devices :
           \/ \E stamp \in 0 .. now, scheduled \in BOOLEAN : ClockInRead(d, stamp, scheduled)
           \/ CreateEntry(d) \/ StartShift(d) \/ Stamp(d)
           \/ ClockOutWrite(d) \/ CompleteShift(d) \/ AutoWrite(d)
           \/ \E e \in Entries : ClockOutRead(d, e) \/ AutoRead(d, e)
           \/ MissedRead(d) \/ MissedWrite(d) \/ Fail(d)
    \/ \E e \in Entries : Approve(e) \/ \E stamp \in 0 .. now : SyncConflict(e, stamp)
    \/ cancelShift
    \/ Tick

Spec == Init /\ [][Next]_clockVars

-----------------------------------------------------------------------------

\* The hours of a closed entry are those between its two times, and its pay, when
\* there is one, is for these hours, unless two calls crossed on it.
HoursFollowTimes ==
    \A e \in Rows \ (Open \union crossed) :
        /\ entry[e].hours = entry[e].out - entry[e].in
        /\ entry[e].pay \in {-1, entry[e].hours}

\* One clock runs at a time, unless two clock-ins overlapped, and a shift is a
\* no-show only if nobody clocked in for it, unless the two overlapped.
OneClock == doubled \/ Cardinality(Open) <= 1
NoShowIsAbsent ==
    shift = "NO_SHOW" =>
        \/ noShowLate
        \/ \A e \in Rows : entry[e].scheduled => \E d \in Devices : call[d].op = "in"

TimeAccounted == HoursFollowTimes /\ OneClock /\ NoShowIsAbsent
================================================================================
