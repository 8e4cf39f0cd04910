---------------------------- MODULE CronSchedule ----------------------------
(***************************************************************************)
(* When a cron trigger is due (next_cron_occurrence and its helpers in     *)
(* services/automation_service.py).  Time is counted in minutes.  A zone   *)
(* moves its clocks once, at "shift", from "before" to "after" minutes     *)
(* ahead of UTC; the calendar has the lengths of the constant Calendar.    *)
(***************************************************************************)
EXTENDS Integers, FiniteSets, FiniteSetsExt

CONSTANTS
    Calendar,     \* [hour, day, week, month, year]: how many of the next smaller unit
    SearchLimit,  \* local minutes next_cron_occurrence tries (two years)
    NoTime        \* no time: None, or a search without a result

Units == {"hour", "day", "week", "month", "year"}

ASSUME CronAssumption ==
    /\ Calendar \in [Units -> Nat \ {0}]
    /\ SearchLimit \in Nat \ {0}
    /\ NoTime \notin Int

\* One field of an expression: its values, and whether a part of it is "*" (or "*/n").
Field == [values : SUBSET Nat, wildcard : BOOLEAN]
FieldNames == {"minute", "hour", "day", "month", "weekday"}
Cron == [FieldNames -> Field]
Zone == [shift : Int, before : Int, after : Int]

\* The fields of a local time
LocalMinute(l) == l % Calendar.hour
LocalHour(l) == (l \div Calendar.hour) % Calendar.day
DayNumber(l) == l \div (Calendar.hour * Calendar.day)
LocalDay(l) == (DayNumber(l) % Calendar.month) + 1
LocalMonth(l) == ((DayNumber(l) \div Calendar.month) % Calendar.year) + 1
LocalWeekday(l) == DayNumber(l) % Calendar.week

\* _cron_matches; the last weekday value stands for Sunday as well as 0.
Matches(cron, l) ==
    LET dayMatch == LocalDay(l) \in cron.day.values
        weekdayMatch ==
            \/ LocalWeekday(l) \in cron.weekday.values
            \/ LocalWeekday(l) = 0 /\ Calendar.week \in cron.weekday.values
    IN  /\ LocalMinute(l) \in cron.minute.values
        /\ LocalHour(l) \in cron.hour.values
        /\ LocalMonth(l) \in cron.month.values
        /\ \/ cron.day.wildcard = cron.weekday.wildcard /\ (dayMatch \/ weekdayMatch)
           \/ cron.day.wildcard /\ ~cron.weekday.wildcard /\ weekdayMatch
           \/ ~cron.day.wildcard /\ cron.weekday.wildcard /\ dayMatch

\* The clock on the wall of a zone at the instant t
Wall(zone, t) == t + (IF t < zone.shift THEN zone.before ELSE zone.after)

\* _resolve_local_time: both folds of a local time, of which those count that
\* exist and lie after t.
Folds(zone, l) == {l - zone.before, l - zone.after}
Candidates(zone, l, t) == {u \in Folds(zone, l) : Wall(zone, u) = l /\ u > t}

\* next_cron_occurrence: the first local minute, from the one of t on, that
\* matches and has a candidate.
NextOccurrence(cron, zone, t) ==
    LET start == Wall(zone, t)
        hits == {l \in start .. (start + SearchLimit - 1) :
                     Matches(cron, l) /\ Candidates(zone, l, t) # {}}
    IN  IF hits = {} THEN NoTime ELSE Min(Candidates(zone, Min(hits), t))
=============================================================================
