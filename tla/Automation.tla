----------------------------- MODULE Automation -----------------------------
(***************************************************************************)
(* One automation (services/automation_service.py) under several scheduler *)
(* processes (workers/automation_scheduler.py): claiming of due            *)
(* occurrences, and the history rows (automation_runs) that follow the     *)
(* agent runs (agent_runs), announce their waits and end the expired ones. *)
(*                                                                         *)
(* A run is the row AgentRuntime describes; here one attempt of a worker   *)
(* is a beginning and an end that commits the row by id.  Delivery through *)
(* the queue, and recovery, stand behind StartAttempt.                     *)
(***************************************************************************)
EXTENDS CronSchedule

CONSTANTS
    Schedulers,  \* scheduler processes
    Manual,      \* the occurrence of POST /run-now
    Plans,       \* triggers a user may create, each with the occurrences whose run asks
                 \* for an approval and the bounds of its instance: last minute, requests the
                 \* user makes (once each), failed passes or dead subscriptions
    Horizon,     \* bound: occurrences are claimed up to here
    Patience     \* minutes until an approval expires

Times == 1 .. Horizon
Keys == Times \cup {Manual}
Requests == {"active", "paused", "run", "delete", "cancel"}

ASSUME AutomationAssumption ==
    /\ Horizon \in Nat /\ Patience \in Nat \ {0}
    /\ IsFiniteSet(Schedulers)
    /\ Manual \notin Int /\ Manual # NoTime
    /\ \A p \in Plans : /\ p.type \in {"once", "cron"}
                        /\ p.at \in Nat \ {0} /\ p.cron \in Cron /\ p.zone \in Zone
                        /\ p.asks \subseteq Keys
                        /\ p.until \in 0 .. Horizon /\ p.requests \subseteq Requests /\ p.faults \in Nat

VARIABLES
    now, requests, faults,
    plan,               \* the trigger: type, cron and zone, or the time of a "once"
    status, next,       \* automations.status ("deleted": no row), next_run_at
    item,               \* automation_runs, by occurrence
    run,                \* agent_runs, their approval, attempt and cancel token
    deciding,           \* decision a handler is about to commit
    pass,               \* the pass of each scheduler process
    pushes, rewritten   \* history: pushes sent; runs that left a final status

userVars == <<requests, status, deciding>>
historyVars == <<pushes, rewritten>>
vars == <<now, faults, plan, next, item, run, userVars, pass, historyVars>>

Terminal == {"succeeded", "cancelled"}
RunStatus == Terminal \cup {"none", "queued", "waiting"}
Absent == [status |-> "none", deadline |-> NoTime, notified |-> FALSE]
Queued == [Absent EXCEPT !.status = "queued"]
NoRun == [status |-> "none", approval |-> "none", expires |-> NoTime,
          attempt |-> FALSE, token |-> FALSE]
NewRun == [NoRun EXCEPT !.status = "queued"]

\* A pass: where it is, the time it took, the rows changed in its session (as
\* loaded and as changed), and the rows to handle, handled and locked.
Row == [status : RunStatus, deadline : Nat \cup {NoTime}, notified : BOOLEAN]
Pass == [pc : {"idle", "sync", "claim", "claiming", "notify", "sending", "expire", "expiring"},
         now : 0 .. Horizon, changes : SUBSET [key : Keys, old : Row, new : Row],
         todo : SUBSET Keys, done : SUBSET Keys, held : SUBSET Keys]
Idle == [pc |-> "idle", now |-> 0, changes |-> {}, todo |-> {}, done |-> {}, held |-> {}]

TypeOK ==
    /\ now \in 0 .. Horizon /\ requests \subseteq Requests /\ faults \in Nat
    /\ plan \in Plans
    /\ status \in {"active", "paused", "completed", "deleted"}
    /\ next \in Nat \cup {NoTime}
    /\ item \in [Keys -> Row]
    /\ run \in [Keys -> [status : RunStatus,
                         approval : {"none", "pending", "approved", "denied"},
                         expires : Nat \cup {NoTime}, attempt : BOOLEAN, token : BOOLEAN]]
    /\ deciding \in [Keys -> {"no", "approved", "denied"}]
    /\ pass \in [Schedulers -> Pass]
    /\ pushes \in [Keys -> Nat] /\ rewritten \subseteq Keys

\* Mutant: missed occurrences are skipped.
NextFromNow(s) ==
    IF plan.type = "once" THEN NoTime ELSE NextOccurrence(plan.cron, plan.zone, pass[s].now)

\* _advance_trigger: the occurrence after the one claimed, of the rule.
Following(s) ==
    IF plan.type = "once" THEN NoTime ELSE NextOccurrence(plan.cron, plan.zone, next)

\* create_automation; a cron rule without a next occurrence is refused.
First(p) == IF p.type = "once" THEN p.at ELSE NextOccurrence(p.cron, p.zone, 0)

Init ==
    /\ now = 0
    /\ plan \in {p \in Plans : First(p) # NoTime}
    /\ requests = plan.requests /\ faults = plan.faults
    /\ status = "active" /\ next = First(plan)
    /\ item = [k \in Keys |-> Absent]
    /\ run = [k \in Keys |-> NoRun]
    /\ deciding = [k \in Keys |-> "no"]
    /\ pass = [s \in Schedulers |-> Idle]
    /\ pushes = [k \in Keys |-> 0] /\ rewritten = {}

Tick ==
    /\ now < plan.until /\ now' = now + 1
    /\ UNCHANGED <<faults, plan, next, item, run, userVars, pass, historyVars>>

\* A run that had ended has another status after the step.
NoteRewritten ==
    rewritten' = rewritten \cup {k \in Keys : run[k].status \in Terminal /\ run'[k].status # run[k].status}

-----------------------------------------------------------------------------
(* One pass of a scheduler: run_automation_scheduler_once.                 *)

Goto(s, place) == pass' = [pass EXCEPT ![s].pc = place]
EndPass(s) == pass' = [pass EXCEPT ![s] = Idle]

\* The rows a session loaded are gone: UPDATE matches nothing, StaleDataError.
Gone(keys) == \E k \in keys : item[k].status = "none"

\* Another session has locked one of the rows.
Blocked(s, keys) == \E t \in Schedulers \ {s} : keys \cap pass[t].held # {}

\* The pass ends with an exception; its transaction is rolled back.
Abort(s) ==
    /\ EndPass(s)
    /\ UNCHANGED <<now, plan, next, item, run, userVars, historyVars>>

\* Mutant: rows that wait are left to notify and expire.
OpenAndQueued(k) == item[k].status = "queued"

\* A row sync_automation_runs selects
Open(k) == item[k].status \notin Terminal \cup {"none"}

\* Mutant: the deadline is not copied.
SyncedStatus(k) == [item[k] EXCEPT !.status = run[k].status]

\* sync_automation_runs, for one row: the status of its run, and the end of a
\* wait for a pending approval (a wait seen for the first time is not notified).
Synced(k) ==
    IF run[k].status = "waiting" /\ run[k].approval = "pending"
    THEN [status |-> "waiting", deadline |-> run[k].expires,
          notified |-> item[k].notified /\ item[k].deadline # NoTime]
    ELSE [item[k] EXCEPT !.status = run[k].status]

\* The pass takes the time and reads the rows that have not ended, and their
\* runs; it commits if a row has changed.
BeginPass(s) ==
    LET changes == {[key |-> k, old |-> item[k], new |-> Synced(k)] :
                        k \in {j \in Keys : Open(j) /\ Synced(j) # item[j]}}
    IN  /\ pass[s].pc = "idle"
        /\ pass' = [pass EXCEPT ![s] = [Idle EXCEPT !.pc = IF changes = {} THEN "claim" ELSE "sync",
                                                    !.now = now, !.changes = changes]]
        /\ UNCHANGED <<now, faults, plan, next, item, run, userVars, historyVars>>

\* The unit of work: UPDATE sets the columns the session has changed.
Store(row, change) ==
    [c \in DOMAIN row |-> IF change.new[c] # change.old[c] THEN change.new[c] ELSE row[c]]

SyncCommit(s) ==
    LET keys == {c.key : c \in pass[s].changes}
    IN  /\ pass[s].pc = "sync"
        /\ ~Gone(keys) /\ ~Blocked(s, keys)
        /\ item' = [k \in Keys |-> IF k \in keys
                                   THEN Store(item[k], CHOOSE c \in pass[s].changes : c.key = k)
                                   ELSE item[k]]
        /\ pass' = [pass EXCEPT ![s].pc = "claim", ![s].changes = {}]
        /\ UNCHANGED <<now, faults, plan, next, run, userVars, historyVars>>

\* claim_due_automations: the trigger and its automation are locked, unless
\* another session has them (SKIP LOCKED) ...
Claiming == \E s \in Schedulers : pass[s].pc = "claiming"

\* Mutant: only what is due in this minute.
DueThisMinute(s) == status = "active" /\ next = pass[s].now

Due(s) == status = "active" /\ next # NoTime /\ next <= pass[s].now

Claim(s) ==
    /\ pass[s].pc = "claim"
    /\ Goto(s, IF Due(s) /\ ~Claiming THEN "claiming" ELSE "notify")
    /\ UNCHANGED <<now, faults, plan, next, item, run, userVars, historyVars>>

\* ... and the run, its history row and the next time are committed together;
\* a "once" is completed.  enqueue_claimed_runs follows.
ClaimCommit(s) ==
    /\ pass[s].pc = "claiming"
    /\ plan.type = "cron" => Following(s) # NoTime
    /\ item' = IF item[next].status = "none" THEN [item EXCEPT ![next] = Queued] ELSE item
    /\ run' = IF item[next].status = "none" THEN [run EXCEPT ![next] = NewRun] ELSE run
    /\ next' = Following(s)
    /\ status' = IF plan.type = "once" THEN "completed" ELSE status
    /\ Goto(s, "notify")
    /\ UNCHANGED <<now, faults, plan, requests, deciding, historyVars>>

\* CRON_NO_OCCURRENCE is no error the loop of the scheduler catches: the
\* process ends, and meets the same trigger again when it is started again.
ClaimRaises(s) ==
    /\ pass[s].pc = "claiming"
    /\ plan.type = "cron" /\ Following(s) = NoTime
    /\ Abort(s) /\ UNCHANGED faults

\* Mutant: the rows are read without FOR UPDATE SKIP LOCKED.
ToNotifyAnyway(s) == {k \in Keys : item[k].status = "waiting" /\ ~item[k].notified}

ToNotify(s) ==
    {k \in Keys : item[k].status = "waiting" /\ ~item[k].notified /\ ~Blocked(s, {k})}

\* notify_waiting_automation_runs: rows that wait and are not notified, except
\* locked ones, are locked ...
NotifyRead(s) ==
    LET rows == ToNotify(s)
    IN  /\ pass[s].pc = "notify"
        /\ pass' = [pass EXCEPT ![s].pc = IF rows = {} THEN "expire" ELSE "sending",
                                ![s].todo = rows, ![s].held = rows]
        /\ UNCHANGED <<now, faults, plan, next, item, run, userVars, historyVars>>

\* ... and a push is sent for each.
Push(s, k) ==
    /\ pass[s].pc = "sending" /\ k \in pass[s].todo
    /\ pushes' = [pushes EXCEPT ![k] = @ + 1]
    /\ pass' = [pass EXCEPT ![s].todo = @ \ {k}, ![s].done = @ \cup {k}]
    /\ UNCHANGED <<now, faults, plan, next, item, run, userVars, rewritten>>

Notified(keys) == [k \in Keys |-> IF k \in keys THEN [item[k] EXCEPT !.notified = TRUE] ELSE item[k]]

\* The same, and the push service calls a subscription dead: send_to_user
\* deletes it and commits the session of the caller, which ends the locks.
PushCleaning(s, k) ==
    /\ pass[s].pc = "sending" /\ k \in pass[s].todo
    /\ faults > 0 /\ faults' = faults - 1
    /\ ~Gone(pass[s].done) /\ ~Blocked(s, pass[s].done)
    /\ pushes' = [pushes EXCEPT ![k] = @ + 1]
    /\ item' = Notified(pass[s].done)
    /\ pass' = [pass EXCEPT ![s].todo = @ \ {k}, ![s].done = {k}, ![s].held = {}]
    /\ UNCHANGED <<now, plan, next, run, userVars, rewritten>>

NotifyCommit(s) ==
    /\ pass[s].pc = "sending" /\ pass[s].todo = {}
    /\ ~Gone(pass[s].done) /\ ~Blocked(s, pass[s].done)
    /\ item' = Notified(pass[s].done)
    /\ pass' = [pass EXCEPT ![s].pc = "expire", ![s].done = {}, ![s].held = {}]
    /\ UNCHANGED <<now, faults, plan, next, run, userVars, historyVars>>

\* expire_waiting_automation_runs: rows that waited too long and whose run has
\* not ended; the cancel token is written before the commit ...
ExpireRead(s) ==
    LET rows == {k \in Keys : /\ item[k].status = "waiting" /\ item[k].deadline # NoTime
                              /\ item[k].deadline <= pass[s].now
                              /\ run[k].status \notin Terminal}
    IN  /\ pass[s].pc = "expire"
        /\ pass' = [pass EXCEPT ![s] = IF rows = {} THEN Idle
                                       ELSE [@ EXCEPT !.pc = "expiring", !.todo = rows]]
        /\ run' = [k \in Keys |-> IF k \in rows THEN [run[k] EXCEPT !.token = TRUE] ELSE run[k]]
        /\ UNCHANGED <<now, faults, plan, next, item, userVars, historyVars>>

\* ... and run and row become cancelled, whatever they are by then.
ExpireCommit(s) ==
    LET rows == pass[s].todo
    IN  /\ pass[s].pc = "expiring"
        /\ ~Gone(rows) /\ ~Blocked(s, rows)
        /\ run' = [k \in Keys |-> IF k \in rows THEN [run[k] EXCEPT !.status = "cancelled"] ELSE run[k]]
        /\ item' = [k \in Keys |-> IF k \in rows THEN [item[k] EXCEPT !.status = "cancelled"] ELSE item[k]]
        /\ NoteRewritten
        /\ EndPass(s)
        /\ UNCHANGED <<now, faults, plan, next, userVars, pushes>>

\* The automation was deleted meanwhile, and its rows with it.
StaleData(s) ==
    /\ \/ pass[s].pc = "sync" /\ Gone({c.key : c \in pass[s].changes})
       \/ pass[s].pc = "sending" /\ pass[s].todo = {} /\ Gone(pass[s].done)
       \/ pass[s].pc = "expiring" /\ Gone(pass[s].todo)
    /\ Abort(s) /\ UNCHANGED faults

\* Any other failure of a pass, or the end of its process.
PassFails(s) ==
    /\ pass[s].pc # "idle"
    /\ faults > 0 /\ faults' = faults - 1
    /\ Abort(s)

Step(s) ==
    \/ BeginPass(s) \/ SyncCommit(s)
    \/ Claim(s) \/ ClaimCommit(s) \/ ClaimRaises(s)
    \/ NotifyRead(s) \/ (\E k \in Keys : Push(s, k)) \/ NotifyCommit(s)
    \/ ExpireRead(s) \/ ExpireCommit(s) \/ StaleData(s)

-----------------------------------------------------------------------------
(* The user: requests that write the automation wait for its lock.         *)

Request(r) ==
    /\ r \in requests /\ requests' = requests \ {r}
    /\ UNCHANGED <<now, faults, plan, pass, historyVars>>

\* Mutant: FOR UPDATE locks the trigger only.
SetStatusAtOnce(s) ==
    /\ s # status /\ status # "deleted"
    /\ ~(s = "active" /\ status = "completed")
    /\ status' = s
    /\ Request(s) /\ UNCHANGED <<next, item, run, deciding>>

\* update_automation: a completed automation cannot be made active at once.
SetStatus(s) ==
    /\ s # status /\ status # "deleted" /\ ~Claiming
    /\ ~(s = "active" /\ status = "completed")
    /\ status' = s
    /\ Request(s) /\ UNCHANGED <<next, item, run, deciding>>

\* run_automation_now
RunNow ==
    /\ status \notin {"completed", "deleted"} /\ ~Claiming
    /\ run[Manual].status = "none"
    /\ item' = [item EXCEPT ![Manual] = Queued]
    /\ run' = [run EXCEPT ![Manual] = NewRun]
    /\ Request("run") /\ UNCHANGED <<next, status, deciding>>

\* delete_automation: the history goes with it, the runs stay.
Delete ==
    /\ status # "deleted" /\ ~Claiming
    /\ \A s \in Schedulers : pass[s].held = {}
    /\ status' = "deleted" /\ next' = NoTime
    /\ item' = [k \in Keys |-> Absent]
    /\ Request("delete") /\ UNCHANGED <<run, deciding>>

\* POST /runs/{id}/cancel
CancelRun(k) ==
    /\ run[k].status \notin Terminal \cup {"none"}
    /\ run' = [run EXCEPT ![k].status = "cancelled", ![k].token = TRUE]
    /\ Request("cancel") /\ UNCHANGED <<next, status, item, deciding>>

\* POST /approvals/{id}: the request is locked, its time is checked, the run is
\* read without a lock ...
DecideRead(k, decision) ==
    /\ deciding[k] = "no" /\ run[k].approval = "pending"
    /\ now < run[k].expires
    /\ run[k].status = "waiting"
    /\ deciding' = [deciding EXCEPT ![k] = decision]
    /\ UNCHANGED <<now, faults, plan, next, item, run, requests, status, pass, historyVars>>

\* ... and both are committed.
DecideCommit(k) ==
    /\ deciding[k] # "no"
    /\ run' = [run EXCEPT ![k].approval = deciding[k],
                          ![k].status = IF deciding[k] = "approved" THEN "queued" ELSE "cancelled"]
    /\ deciding' = [deciding EXCEPT ![k] = "no"]
    /\ NoteRewritten
    /\ UNCHANGED <<now, faults, plan, next, item, requests, status, pass, pushes>>

-----------------------------------------------------------------------------
(* The worker that executes a run.                                         *)

RunFrame == UNCHANGED <<now, faults, plan, next, item, userVars, pass, pushes>>

StartAttempt(k) ==
    /\ run[k].status = "queued"
    /\ ~run[k].attempt /\ ~run[k].token
    /\ run' = [run EXCEPT ![k].attempt = TRUE]
    /\ RunFrame /\ UNCHANGED rewritten

\* The attempt commits its outcome by id; a token seen in time ends it.
EndAttempt(k) ==
    /\ run[k].attempt
    /\ \E outcome \in {"succeeded", "cancelled"} :
          /\ outcome = "cancelled" => run[k].token
          /\ run' = [run EXCEPT ![k].attempt = FALSE, ![k].status = outcome]
    /\ NoteRewritten /\ RunFrame

\* A tool needs an approval; once one was given, no other is asked for.
\* Bound: the approval expires before the clock stops.
AskApproval(k) ==
    /\ run[k].attempt /\ k \in plan.asks /\ run[k].approval = "none"
    /\ now + Patience <= plan.until
    /\ run' = [run EXCEPT ![k].attempt = FALSE, ![k].status = "waiting",
                          ![k].approval = "pending", ![k].expires = now + Patience]
    /\ NoteRewritten /\ RunFrame

Next ==
    \/ Tick
    \/ \E s \in Schedulers : Step(s)
    \/ \E s \in Schedulers, k \in Keys : PushCleaning(s, k)
    \/ \E s \in Schedulers : PassFails(s)
    \/ \E s \in {"active", "paused"} : SetStatus(s)
    \/ RunNow \/ Delete
    \/ \E k \in Keys : CancelRun(k)
    \/ \E k \in Keys, d \in {"approved", "denied"} : DecideRead(k, d)
    \/ \E k \in Keys : DecideCommit(k)
    \/ \E k \in Keys : StartAttempt(k) \/ EndAttempt(k) \/ AskApproval(k)

Spec == Init /\ [][Next]_vars

\* The clock runs and every scheduler process goes on with its passes.
FairSpec ==
    /\ Spec
    /\ WF_vars(Tick)
    /\ \A s \in Schedulers : WF_vars(Step(s))

-----------------------------------------------------------------------------
Planned == {k \in Times : item[k].status # "none"}

\* An instant whose local time comes twice
Repeated(t) ==
    \E u \in Folds(plan.zone, Wall(plan.zone, t)) :
        u # t /\ Wall(plan.zone, u) = Wall(plan.zone, t)

\* What the rule asks for, up to the next occurrence
Elapsed ==
    IF plan.type = "once"
    THEN {t \in {plan.at} : next = NoTime}
    ELSE {t \in 1 .. (next - 1) : Matches(plan.cron, Wall(plan.zone, t))}

\* Every occurrence of the rule before next_run_at has a history row, and no
\* other time has one, whatever passes were missed, failed or ran side by side.
\* Left out: the hour a zone repeats, where next_cron_occurrence goes from the
\* first pass of a local minute to its second and skips those between.
ScheduleCovered ==
    status # "deleted" =>
        {t \in Planned : plan.type = "once" \/ ~Repeated(t)}
            = {t \in Elapsed : plan.type = "once" \/ ~Repeated(t)}

\* FOR UPDATE on trigger and automation: an occurrence gets its run only while
\* the automation is active; a pause that was answered holds.
PauseHolds ==
    [][\A t \in Times : item[t].status = "none" /\ item'[t].status # "none"
           => status = "active"]_vars

\* notify_waiting_automation_runs: a wait is announced once, and once more at
\* most for each pass that failed and each dead subscription (whose removal
\* gives up the locks of the pass that sends).
AnnouncedOnce == \A k \in Keys : pushes[k] <= 1 + (plan.faults - faults)

\* A rule whose next occurrence is further away than the search goes: the
\* process dies in every pass until someone pauses or deletes the automation.
Stranded == plan.type = "cron" /\ next # NoTime /\ NextOccurrence(plan.cron, plan.zone, next) = NoTime

\* Scheduler: a due occurrence of an active automation gets its run.
OccurrencesRun ==
    \A t \in Times :
        next = t /\ t <= now /\ status = "active" ~> next # t \/ status # "active" \/ Stranded

\* expire_waiting_automation_runs: a run does not wait for its approval for
\* ever, unless its automation is gone, or it had ended before it waited.
WaitsEnd ==
    \A k \in Keys :
        run[k].status = "waiting" ~>
            run[k].status # "waiting" \/ status = "deleted" \/ k \in rewritten \/ Stranded

\* sync_automation_runs: the history comes to show the status of the run, unless
\* the run left a final status (a final row is not looked at again).
HistoryAgrees ==
    \A k \in Keys :
        <>[](item[k].status \in {"none", run[k].status} \/ k \in rewritten)
=============================================================================
