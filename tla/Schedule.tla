------------------------------ MODULE Schedule ------------------------------
(***************************************************************************)
(* The occupancy schedule (internal/thermal/schedule.go).  An instant is   *)
(* what StateAt takes from a time.Time, the weekday and the hour, minute   *)
(* and second; it drops the fraction of a second.                          *)
(***************************************************************************)
EXTENDS Integers

WorkingDays == {"Monday", "Tuesday", "Wednesday", "Thursday", "Friday"}
Weekdays    == WorkingDays \cup {"Saturday", "Sunday"}

Hours(n) == 3600 * n          \* durations are in seconds

Instant == [weekday : Weekdays, hour : 0 .. 23, minute : 0 .. 59, second : 0 .. 59]

\* A day on which nobody comes has no window.
AlwaysOff == [alwaysOff |-> TRUE, start |-> 0, end |-> 0]
Window(start, end) == [alwaysOff |-> FALSE, start |-> start, end |-> end]

DefaultSchedule ==
    [day \in Weekdays |-> IF day \in WorkingDays THEN Window(Hours(6), Hours(18)) ELSE AlwaysOff]

TimeOfDay(t) == Hours(t.hour) + 60 * t.minute + t.second

\* The schedule's days are a function; a day it leaves out is unoccupied.
StateAt(days, t) ==
    IF /\ t.weekday \in DOMAIN days
       /\ ~days[t.weekday].alwaysOff
       /\ days[t.weekday].start <= TimeOfDay(t) /\ TimeOfDay(t) < days[t.weekday].end
    THEN "occupied" ELSE "unoccupied"

\* What the default schedule is meant to be (schedule.go:42), for the
\* properties: Monday to Friday from six to eighteen.
OfficeHours(t) == t.weekday \in WorkingDays /\ t.hour \in 6 .. 17
=============================================================================
