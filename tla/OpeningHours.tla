------------------------------ MODULE OpeningHours ------------------------------
(***************************************************************************)
(* When a store takes orders and when a product is on offer: the weekly    *)
(* rows of StoreHoursService, written one day after the other by           *)
(* setBulkHours, and the schedules of ProductAvailabilityService.          *)
(*                                                                         *)
(* Exceptions to the hours are left out: addException lacks three columns  *)
(* that StoreHourException must have, so that there never is one, and the  *)
(* handler that sets a single day passes the store for the tenant and      *)
(* always fails.                                                           *)
(***************************************************************************)
EXTENDS Integers, Sequences

CONSTANTS
    Managers,      \* requests that set the hours of the week
    Schedules,     \* the schedules they send: sequences of rows
    Rules,         \* keys for rows of ProductAvailability
    RuleData,      \* what a rule can say
    Weekdays, Times, LastDate,
    None           \* no row

VARIABLES
    hours,         \* StoreOpeningHour: the row of each weekday, or None
    update,        \* the rows a request has yet to write
    settled,       \* the last schedule sent, and whether its request ran alone and whole
    rules          \* ProductAvailability: active rows, or None

\* A request names the days it sets.
HoursAssumption ==
    /\ Weekdays \in Nat \ {0} /\ LastDate \in Nat
    /\ Schedules \subseteq Seq([day : 0 .. Weekdays - 1, isClosed : BOOLEAN, is24Hours : BOOLEAN,
                               window : Seq(Nat)])

hoursVars == <<hours, update, settled>>

Weekday(date) == date % Weekdays
Within(t, w) == w[1] <= t /\ t <= w[2]

-----------------------------------------------------------------------------
(* Store hours.                                                            *)

\* Times are compared as they are: a window past midnight is never open.
RowOpen(row, t) == row # None /\ ~row.isClosed /\ (row.is24Hours \/ Within(t, row.window))

isStoreOpen(date, t) == RowOpen(hours[Weekday(date)], t)

\* getHours: a day without a row is shown closed.
getHours == [d \in 0 .. Weekdays - 1 |->
    IF hours[d] = None THEN [day |-> d, isClosed |-> TRUE, is24Hours |-> FALSE, window |-> None]
    ELSE hours[d]]

HoursInit ==
    /\ hours = [d \in 0 .. Weekdays - 1 |-> None]
    /\ update = [m \in Managers |-> <<>>]
    /\ settled = [whole |-> <<>>, kept |-> FALSE]

Underway == {m \in Managers : update[m] # <<>>}

\* A request that starts while another is underway may leave a mixture.
setBulkHours(m, s) ==
    /\ update[m] = <<>>
    /\ update' = [update EXCEPT ![m] = s]
    /\ settled' = [whole |-> s, kept |-> Underway = {}]
    /\ UNCHANGED hours

\* Faulty variant: a day that was closed stays closed unless the request opens it.
KeepClosed(row) ==
    LET old == hours[row.day]
        closed == row.isClosed \/ (old # None /\ old.isClosed)
    IN  hours' = [hours EXCEPT ![row.day] = [row EXCEPT !.isClosed = closed]]

setHours(row) == hours' = [hours EXCEPT ![row.day] = row]

NextDay(m) ==
    /\ update[m] # <<>>
    /\ setHours(Head(update[m]))
    /\ update' = [update EXCEPT ![m] = Tail(@)]
    /\ UNCHANGED settled

\* The statement fails, the request is answered, and the days before stay.
NextDayFails(m) ==
    /\ update[m] # <<>>
    /\ update' = [update EXCEPT ![m] = <<>>]
    /\ settled' = [settled EXCEPT !.kept = FALSE]
    /\ UNCHANGED hours

HoursNext ==
    /\ \E m \in Managers :
           \/ \E s \in Schedules : setBulkHours(m, s)
           \/ NextDay(m) \/ NextDayFails(m)
    /\ UNCHANGED rules

-----------------------------------------------------------------------------
(* The schedule of a product.                                              *)

EffectiveOn(r, date) == date \in r.effective

Effective(date) == {r \in Rules : rules[r] # None /\ EffectiveOn(rules[r], date)}

Covers(rule, t) == rule.allDay \/ Within(t, rule.window)

\* An exception closes the product on its date only: one that recurs is read
\* and closes nothing.
Closes(rule, date, t) == rule.isException /\ rule.type = "SPECIFIC_DATE" /\ rule.on = date /\ Covers(rule, t)

\* Faulty variant: exceptions count among the regular rules.
OffersAnyway(rule, date, t) ==
    /\ rule.on = IF rule.type = "SPECIFIC_DATE" THEN date ELSE Weekday(date)
    /\ Covers(rule, t)

Offers(rule, date, t) ==
    /\ ~rule.isException
    /\ rule.on = IF rule.type = "SPECIFIC_DATE" THEN date ELSE Weekday(date)
    /\ Covers(rule, t)

isProductAvailable(date, t) ==
    LET schedules == {rules[r] : r \in Effective(date)}
    IN  \/ schedules = {}
        \/ /\ \A s \in schedules : ~Closes(s, date, t)
           /\ \E s \in schedules : Offers(s, date, t)

addRule(r, data) == rules[r] = None /\ rules' = [rules EXCEPT ![r] = data]
updateRule(r, data) == rules[r] # None /\ rules' = [rules EXCEPT ![r] = data]
deleteRule(r) == rules[r] # None /\ rules' = [rules EXCEPT ![r] = None]

RulesNext ==
    /\ \E r \in Rules :
           \/ \E data \in RuleData : addRule(r, data) \/ updateRule(r, data)
           \/ deleteRule(r)
    /\ UNCHANGED hoursVars

\* A schedule whose request ran alone and to its end is what orders are taken by
\* and what the page of the store shows, at every hour of every day it names;
\* a day it does not name is as the page shows it too.
\* setBulkHours writes one day after the other, and two of them write the same rows.
HoursSettled ==
    /\ settled.kept /\ Underway = {} =>
           \A i \in 1 .. Len(settled.whole) :
               LET row == settled.whole[i]
               IN  (\A j \in i + 1 .. Len(settled.whole) : settled.whole[j].day # row.day)
                       => hours[row.day] = row
    /\ \A date \in 0 .. LastDate, t \in Times :
           LET shown == getHours[Weekday(date)]
           IN  isStoreOpen(date, t) <=>
                   ~shown.isClosed /\ (shown.is24Hours \/ Within(t, shown.window))

\* What a change to the schedule of a product can do.  An exception that is
\* added opens no hour, and one that is removed closes none; a regular rule
\* that is added closes no hour unless nothing was in effect on that date (a
\* product without rules is always on offer), and one that is removed opens
\* none unless it was the last.
\* isProductAvailable reads the rules in effect in two passes, and takes an
\* empty list for a product without a schedule.
RuleChange(r) ==
    LET was == rules[r]
        is == rules'[r]
    IN  \A date \in 0 .. LastDate, t \in Times :
            LET before == isProductAvailable(date, t)
                after == isProductAvailable(date, t)'
            IN  /\ was = None /\ is # None =>
                       IF is.isException THEN after => before
                       ELSE before => after \/ Effective(date) = {}
                /\ was # None /\ is = None =>
                       IF was.isException THEN before => after
                       ELSE after => before \/ Effective(date)' = {}

RulesSound == [][\A r \in Rules : rules'[r] # rules[r] => RuleChange(r)]_rules

OpeningInit == HoursInit /\ rules = [r \in Rules |-> None]

=============================================================================
