-------------------------------- MODULE Payroll --------------------------------
(***************************************************************************)
(* PayrollExportService: the one payroll period of a tenant that starts on *)
(* a day, the records of pay in it, its approval and its exports.          *)
(*                                                                         *)
(* A calculation finds or creates the period and reads the closed time     *)
(* entries, writes one record after the other, and then the totals.  It    *)
(* may be asked for one store or for all, and both fill the same period.   *)
(* An export reads the period, then the records for its file, and writes.  *)
(* Tips and commissions are never paid out (OrderCredit), so that they add *)
(* nothing here.                                                           *)
(***************************************************************************)
EXTENDS Integers, FiniteSets, Functions

CONSTANTS
    Staff, Stores, Callers,
    Entries,
    Timesheet,    \* Entries -> [by, store, year, week, hours, rate]
    FirstClosed   \* the entries that are clocked out to begin with

TimesheetAssumption ==
    /\ IsFiniteSet(Staff) /\ IsFiniteSet(Stores) /\ IsFiniteSet(Entries)
    /\ FirstClosed \subseteq Entries
    /\ \A e \in Entries : /\ Timesheet[e].by \in Staff /\ Timesheet[e].store \in Stores
                          /\ Timesheet[e].hours \in Nat /\ Timesheet[e].rate \in Nat

VARIABLES
    closed,       \* the time entries that are clocked out
    period,       \* the row of PayrollPeriod: status, hours, gross
    record,       \* rows of PayrollRecord, by member of staff and store
    export,       \* the latest row of PayrollExport, with what its file adds up to
    call,
    exact         \* the totals come from the latest calculation, which ran alone
                  \* to its end and wrote every record there is

payrollVars == <<closed, period, record, export, call, exact>>

Idle == [op |-> "idle"]
Pairs == Staff \X Stores
NoRecord == [hours |-> 0, overtime |-> 0, gross |-> 0]
NoExport == [amount |-> 0, lines |-> 0, alone |-> FALSE]
NoPeriod == [status |-> "none", hours |-> 0, gross |-> 0]

Sum(S, f(_)) == SumFunction([x \in S |-> f(x)])
Round(n, d) == (2 * n + d) \div (2 * d)

-----------------------------------------------------------------------------
(* What a member of staff earns at a store.                                *)

Of(p, es) == {e \in es : Timesheet[e].by = p[1] /\ Timesheet[e].store = p[2]}
HoursOf(es) == Sum(es, LAMBDA e : Timesheet[e].hours)

\* The key of a week is its year and the letters WW: without its plug-in the
\* library does not know them for the number of the week.
WeekKey(e) == Timesheet[e].year
calculateWeeklyHours(es) ==
    [k \in {WeekKey(e) : e \in es} |-> HoursOf({e \in es : WeekKey(e) = k})]

Overtime(weekly) ==
    Sum({k \in DOMAIN weekly : weekly[k] > 40}, LAMBDA k : weekly[k] - 40)

\* The rate is that of the entry that comes first, in no particular order.
PayFor(es, rate) ==
    LET overtime == Overtime(calculateWeeklyHours(es))
    IN  [hours |-> HoursOf(es), overtime |-> overtime,
         gross |-> (HoursOf(es) - overtime) * rate + overtime * Round(3 * rate, 2)]

-----------------------------------------------------------------------------
(* calculatePayrollPeriod.                                                 *)

InScope(scope) == {e \in closed : Timesheet[e].store \in scope}
PairsOf(es) == {<<Timesheet[e].by, Timesheet[e].store>> : e \in es}
Calculating(c) == call[c].op = "calculate"

\* Another calculation starts: whoever is at work no longer is alone.
Disturbed(c, next) ==
    [d \in Callers |-> IF d = c THEN next
                       ELSE IF call[d].op = "idle" THEN call[d]
                       ELSE [call[d] EXCEPT !.alone = FALSE]]

calculatePayrollPeriod(c, scope) ==
    /\ call[c] = Idle
    /\ period' = IF period = NoPeriod THEN [NoPeriod EXCEPT !.status = "DRAFT"] ELSE period
    /\ call' = Disturbed(c, [op |-> "calculate", entries |-> InScope(scope),
                             todo |-> PairsOf(InScope(scope)), hours |-> 0, gross |-> 0,
                             alone |-> \A d \in Callers : ~Calculating(d)])
    /\ exact' = FALSE
    /\ UNCHANGED <<closed, record, export>>

\* Faulty variant: a record that is there is left as it is.
InsertRecord(c) ==
    LET k == call[c] IN
    /\ Calculating(c)
    /\ \E p \in k.todo : \E e \in Of(p, k.entries) :
           LET pay == PayFor(Of(p, k.entries), Timesheet[e].rate) IN
           /\ record' = IF record[p] = NoRecord THEN [record EXCEPT ![p] = pay] ELSE record
           /\ call' = [call EXCEPT ![c].todo = @ \ {p}, ![c].hours = @ + pay.hours, ![c].gross = @ + pay.gross]
    /\ UNCHANGED <<closed, period, export, exact>>

UpsertRecord(c) ==
    LET k == call[c] IN
    /\ Calculating(c)
    /\ \E p \in k.todo : \E e \in Of(p, k.entries) :
           LET pay == PayFor(Of(p, k.entries), Timesheet[e].rate) IN
           /\ record' = [record EXCEPT ![p] = pay]
           /\ call' = [call EXCEPT ![c].todo = @ \ {p}, ![c].hours = @ + pay.hours, ![c].gross = @ + pay.gross]
    /\ UNCHANGED <<closed, period, export, exact>>

\* The totals are written over those of any status.
WriteTotals(c) ==
    LET k == call[c] IN
    /\ Calculating(c) /\ k.todo = {}
    /\ period' = [status |-> "CALCULATED", hours |-> k.hours, gross |-> k.gross]
    /\ exact' = (k.alone /\ \A p \in Pairs : record[p] # NoRecord => Of(p, k.entries) # {})
    /\ call' = [call EXCEPT ![c] = Idle]
    /\ UNCHANGED <<closed, record, export>>

approvePayrollPeriod ==
    /\ period # NoPeriod
    /\ period' = [period EXCEPT !.status = "APPROVED"]
    /\ UNCHANGED <<closed, record, export, call, exact>>

-----------------------------------------------------------------------------
(* exportPayroll, in any format.                                           *)

getPayrollRecords == {p \in Pairs : record[p] # NoRecord}

exportPayroll(c) ==
    /\ call[c] = Idle /\ period # NoPeriod
    /\ call' = [call EXCEPT ![c] = [op |-> "export", gross |-> period.gross, alone |-> exact]]
    /\ UNCHANGED <<closed, period, record, export, exact>>

FillFile(c) ==
    LET k == call[c] IN
    /\ k.op = "export"
    /\ call' = [call EXCEPT ![c] =
           [op |-> "exported", gross |-> k.gross, alone |-> k.alone,
            lines |-> Sum(getPayrollRecords, LAMBDA p : record[p].gross)]]
    /\ UNCHANGED <<closed, period, record, export, exact>>

WriteExport(c) ==
    LET k == call[c] IN
    /\ k.op = "exported"
    /\ export' = [amount |-> k.gross, lines |-> k.lines, alone |-> k.alone]
    /\ call' = [call EXCEPT ![c] = [op |-> "mark", alone |-> k.alone]]
    /\ UNCHANGED <<closed, period, record, exact>>

MarkExported(c) ==
    /\ call[c].op = "mark"
    /\ period' = [period EXCEPT !.status = "EXPORTED"]
    /\ call' = [call EXCEPT ![c] = Idle]
    /\ UNCHANGED <<closed, record, export, exact>>

-----------------------------------------------------------------------------

\* A member of staff clocks out (TimeClock).
ClockOut(e) ==
    /\ e \notin closed /\ closed' = closed \union {e}
    /\ UNCHANGED <<period, record, export, call, exact>>

\* A statement fails, or the server stops.
Fail(c) ==
    /\ call[c] # Idle /\ call' = [call EXCEPT ![c] = Idle]
    /\ UNCHANGED <<closed, period, record, export, exact>>

Init ==
    /\ closed = FirstClosed /\ period = NoPeriod
    /\ record = [p \in Pairs |-> NoRecord] /\ export = NoExport
    /\ call = [c \in Callers |-> Idle] /\ exact = FALSE

Next ==
    \/ \E c \in Callers :
           \/ \E scope \in {Stores} \union {{s} : s \in Stores} : calculatePayrollPeriod(c, scope)
           \/ UpsertRecord(c) \/ WriteTotals(c)
           \/ exportPayroll(c) \/ FillFile(c) \/ WriteExport(c) \/ MarkExported(c)
           \/ Fail(c)
    \/ \E e \in Entries : ClockOut(e)
    \/ approvePayrollPeriod

Spec == Init /\ [][Next]_payrollVars

-----------------------------------------------------------------------------

\* The totals of a period are those of its records, once a calculation has run
\* alone and to its end for all the stores that have records; nobody is paid
\* for hours that were not worked; and the amount of an export is that of its
\* file, unless a calculation was at work meanwhile.
PayAddsUp ==
    /\ exact => /\ period.gross = Sum(Pairs, LAMBDA p : record[p].gross)
                /\ period.hours = Sum(Pairs, LAMBDA p : record[p].hours)
    /\ \A p \in Pairs : record[p].hours <= HoursOf(Of(p, closed))
    /\ export.alone => export.amount = export.lines
================================================================================
