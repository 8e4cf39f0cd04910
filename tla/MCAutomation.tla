----------------------------- MODULE MCAutomation -----------------------------
(* Instances for the model-checking run of Automation. *)
EXTENDS Automation

\* An hour of two minutes, a day of one hour, a week of two days.
SmallCalendar == [hour |-> 2, day |-> 1, week |-> 2, month |-> 4, year |-> 2]

Any(max) == [values |-> 0 .. max, wildcard |-> TRUE]
Only(values) == [values |-> values, wildcard |-> FALSE]
EveryMinute == [minute |-> Any(1), hour |-> Any(0), day |-> Any(4), month |-> Any(2),
                weekday |-> Any(2)]

Steady == [shift |-> 0, before |-> 0, after |-> 0]
Back == [shift |-> 3, before |-> 2, after |-> 0]     \* clocks are put back
Forward == [shift |-> 2, before |-> 0, after |-> 2]  \* clocks are put forward

Once(minute) == [type |-> "once", at |-> minute, zone |-> Steady, cron |-> EveryMinute]
Recurring(zone, minute) ==
    [type |-> "cron", at |-> 1, zone |-> zone, cron |-> [EveryMinute EXCEPT !.minute = Only({minute})]]
WithDays(p, days, weekdays) == [p EXCEPT !.cron.day = days, !.cron.weekday = weekdays]
Instance(p, last, asking, users, failures) ==
    [type |-> p.type, at |-> p.at, zone |-> p.zone, cron |-> p.cron,
     until |-> last, asks |-> asking, requests |-> users, faults |-> failures]

SmallPlans == {
     Instance(Once(1), 2, {1}, {"delete"}, 0),
     Instance(Once(1), 2, {1}, {"cancel"}, 0),
     Instance(Once(1), 2, {1}, {}, 1),
     Instance(Once(1), 1, {}, {"paused", "run"}, 0),
     Instance(Recurring(Steady, 0), 3, {2}, {}, 0),
     Instance(WithDays(Recurring(Steady, 1), Only({1}), Only({1})), 3, {}, {"paused", "active"}, 0),
     Instance(WithDays(Recurring(Steady, 1), Only({1}), Any(2)), 3, {}, {}, 1),
     Instance(Recurring(Forward, 0), 4, {}, {}, 0),
     Instance(Recurring(Back, 1), 4, {}, {}, 0)
}
===============================================================================
