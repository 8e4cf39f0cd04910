---------------------------- MODULE AgentRuntime ----------------------------
(***************************************************************************)
(* Delivery and recovery of agent runs: API handlers (api/v1/agent.py),    *)
(* agent workers (workers/agent_worker.py), the recovery worker            *)
(* (workers/recovery_worker.py), Redis (AgentQueue) and the agent_runs row *)
(* in PostgreSQL.                                                          *)
(*                                                                         *)
(* Granularity: one Redis command, or one statement / commit of a database *)
(* transaction, is one step.  The model and tool calls of the coordinator  *)
(* are abstracted to the outcomes they can have on the row.                *)
(***************************************************************************)
EXTENDS AgentQueue, FiniteSets

CONSTANTS
    NoRun,      \* no run in hand
    Clients,    \* concurrent API request handlers
    Budget      \* how often each bounded environment event may happen

BudgetKinds == {"request", "crash", "stop", "lapse", "overtake", "fault", "events"}

ASSUME RuntimeAssumption ==
    /\ NoRun \notin Runs
    /\ Budget \in [BudgetKinds -> Nat]
    /\ IsFiniteSet(Workers) /\ IsFiniteSet(Clients)

VARIABLES
    status,     \* committed agent_runs.status ("absent": no row yet)
    rowLock,    \* worker whose open transaction has updated the row
    wpc, job,   \* worker: where it is, the run in hand
    copy, dirty,\* worker: status in its session; whether its UPDATE sets it
    stop, lost, \* worker: stop_event; CancellationToken._lease_lost
    lapsed,     \* history: workers whose lease ended under them
    cpc, creq,  \* client: where its handler is, the run it is about
    rphase, rstep, rtodo, rfound, rjob, rseen,  \* recovery worker
    budget

dbVars == <<status, rowLock>>
workerVars == <<wpc, job, copy, dirty, stop, lost, lapsed>>
clientVars == <<cpc, creq>>
recVars == <<rphase, rstep, rtodo, rfound, rjob, rseen>>
vars == <<redisVars, dbVars, workerVars, clientVars, recVars, budget>>

Terminal == {"succeeded", "failed", "cancelled"}
Status == {"absent", "queued", "running", "waiting_approval"} \cup Terminal

\* Where a worker believes it holds the lease, and where it has an open session.
InSession == {"begin", "loop", "model", "desktop", "commit"}
Holding == InSession \cup {"ackLrem", "ackSrem", "check", "load", "release"}
Unacked == {"fetched", "acquire", "dropLrem", "ackLrem"}
WorkerPc == Holding \cup Unacked \cup {"idle", "dropSrem"}
ClientPc == {"idle", "sadd", "rpush", "undo", "token", "decide"}
Item == [run : Runs, seen : {"delivery", "queued", "running"}]

TypeOK ==
    /\ RedisTypeOK
    /\ status \in [Runs -> Status]
    /\ rowLock \in [Runs -> Workers \cup {Nobody}]
    /\ wpc \in [Workers -> WorkerPc]
    /\ job \in [Workers -> Runs \cup {NoRun}]
    /\ copy \in [Workers -> Status]
    /\ dirty \in [Workers -> BOOLEAN]
    /\ stop \in [Workers -> BOOLEAN]
    /\ lost \in [Workers -> BOOLEAN]
    /\ lapsed \subseteq Workers
    /\ cpc \in [Clients -> ClientPc]
    /\ creq \in [Clients -> Runs \cup {NoRun}]
    /\ rphase \in {"inflight", "scan"}
    /\ rstep \in {"next", "inflight", "lrem", "srem", "checks", "lock", "sadd", "rpush"}
    /\ rtodo \subseteq Item
    /\ rfound \subseteq Runs
    /\ rjob \in Runs \cup {NoRun}
    /\ rseen \in {"delivery", "queued", "running"}
    /\ budget \in [BudgetKinds -> Nat]

Init ==
    /\ RedisInit
    /\ status = [r \in Runs |-> "absent"]
    /\ rowLock = [r \in Runs |-> Nobody]
    /\ wpc = [w \in Workers |-> "idle"]
    /\ job = [w \in Workers |-> NoRun]
    /\ copy = [w \in Workers |-> "absent"]
    /\ dirty = [w \in Workers |-> FALSE]
    /\ stop = [w \in Workers |-> FALSE]
    /\ lost = [w \in Workers |-> FALSE]
    /\ lapsed = {}
    /\ cpc = [c \in Clients |-> "idle"]
    /\ creq = [c \in Clients |-> NoRun]
    /\ rphase = "scan" /\ rstep = "next"
    /\ rtodo = {} /\ rfound = {}
    /\ rjob = NoRun /\ rseen = "delivery"
    /\ budget = Budget

\* Every bounded event also draws on the common allowance "events".
Spend(kind) ==
    /\ budget[kind] > 0 /\ budget["events"] > 0
    /\ budget' = [k \in BudgetKinds |-> IF k \in {kind, "events"} THEN budget[k] - 1 ELSE budget[k]]

-----------------------------------------------------------------------------
(* API handlers. *)

\* The handler goes on to pc; one that ends forgets its run.
ClientGoto(c, pc) ==
    /\ cpc' = [cpc EXCEPT ![c] = pc]
    /\ creq' = [creq EXCEPT ![c] = IF pc = "idle" THEN NoRun ELSE @]

ClientStart(c, pc, r) ==
    /\ cpc[c] = "idle"
    /\ Spend("request")
    /\ cpc' = [cpc EXCEPT ![c] = pc]
    /\ creq' = [creq EXCEPT ![c] = r]

\* POST /runs: insert and commit the row, or find the one with the same
\* idempotency key; either way go on to _enqueue_run.
Submit(c, r) ==
    /\ ClientStart(c, "sadd", r)
    /\ status' = IF status[r] = "absent" THEN [status EXCEPT ![r] = "queued"] ELSE status
    /\ UNCHANGED <<redisVars, rowLock, workerVars, recVars>>

\* Mutant: the answer of SADD is ignored.
EnqueueTwice(c) ==
    /\ cpc[c] = "sadd"
    /\ Sadd(creq[c])
    /\ ClientGoto(c, "rpush")
    /\ UNCHANGED <<dbVars, workerVars, recVars, budget>>

EnqueueSadd(c) ==
    /\ cpc[c] = "sadd"
    /\ Sadd(creq[c])
    /\ ClientGoto(c, IF creq[c] \in pending THEN "idle" ELSE "rpush")
    /\ UNCHANGED <<dbVars, workerVars, recVars, budget>>

EnqueueRpush(c) ==
    /\ cpc[c] = "rpush"
    /\ Rpush(creq[c])
    /\ ClientGoto(c, "idle")
    /\ UNCHANGED <<dbVars, workerVars, recVars, budget>>

\* RPUSH answered with a RedisError: enqueue takes the marker back.
EnqueueError(c) ==
    /\ cpc[c] = "rpush"
    /\ Spend("fault")
    /\ ClientGoto(c, "undo")
    /\ UNCHANGED <<redisVars, dbVars, workerVars, recVars>>

EnqueueUndo(c) ==
    /\ cpc[c] = "undo"
    /\ Srem(creq[c])
    /\ ClientGoto(c, "idle")
    /\ UNCHANGED <<dbVars, workerVars, recVars, budget>>

\* The handler ends between two of its steps: the 0.45 s wait_for of
\* _enqueue_run fires (no SREM: it is a cancellation, not a RedisError), the
\* Redis error _cancel_queued_run swallows, or the API process dies.
AbandonRequest(c) ==
    /\ cpc[c] # "idle"
    /\ Spend("fault")
    /\ ClientGoto(c, "idle")
    /\ UNCHANGED <<redisVars, dbVars, workerVars, recVars>>

\* POST /runs/{id}/cancel: SELECT FOR UPDATE waits for the row, then the
\* status is committed, then the token is written.
CancelRow(c, r) ==
    /\ ClientStart(c, "token", r)
    /\ status[r] # "absent"
    /\ rowLock[r] = Nobody
    /\ status' = IF status[r] \in Terminal THEN status ELSE [status EXCEPT ![r] = "cancelled"]
    /\ UNCHANGED <<redisVars, rowLock, workerVars, recVars>>

CancelToken(c) ==
    /\ cpc[c] = "token"
    /\ SetCancel(creq[c])
    /\ ClientGoto(c, "idle")
    /\ UNCHANGED <<dbVars, workerVars, recVars, budget>>

\* POST /approvals/{id}: the approval row is locked (one decider per run at a
\* time), the run is read with db.get, without a lock ...
DecideRead(c, r) ==
    /\ ClientStart(c, "decide", r)
    /\ status[r] = "waiting_approval"
    /\ \A d \in Clients : cpc[d] = "decide" => creq[d] # r
    /\ UNCHANGED <<redisVars, dbVars, workerVars, recVars>>

\* ... and its UPDATE, which names the row by id only, is committed.
DecideWrite(c) ==
    /\ cpc[c] = "decide"
    /\ rowLock[creq[c]] = Nobody
    /\ \/ /\ status' = [status EXCEPT ![creq[c]] = "queued"]
          /\ ClientGoto(c, "sadd")
       \/ /\ status' = [status EXCEPT ![creq[c]] = "cancelled"]
          /\ ClientGoto(c, "idle")
    /\ UNCHANGED <<redisVars, rowLock, workerVars, recVars, budget>>

-----------------------------------------------------------------------------
(* Agent worker: run_once, execute_agent_run and the coordinator's effect   *)
(* on the row.                                                              *)

Goto(w, pc) == wpc' = [wpc EXCEPT ![w] = pc]

\* Mutant: the token only knows about the process.
CancelledLocally(w) == stop[w] \/ lost[w]

\* CancellationToken.is_cancelled
Cancelled(w) == stop[w] \/ lost[w] \/ job[w] \in cancelKey

\* The session assigns run.status; an equal value is not a change.
Assign(w, s) ==
    /\ copy' = [copy EXCEPT ![w] = s]
    /\ dirty' = [dirty EXCEPT ![w] = @ \/ s # copy[w]]

Dequeue(w) ==
    /\ wpc[w] = "idle" /\ ~stop[w]
    /\ RpopLpush
    /\ job' = [job EXCEPT ![w] = NextDelivery]
    /\ Goto(w, "fetched")
    /\ UNCHANGED <<dbVars, copy, dirty, stop, lost, lapsed, clientVars, recVars, budget>>

CheckDelivery(w) ==
    /\ wpc[w] = "fetched"
    /\ Goto(w, IF Cancelled(w) THEN "dropLrem" ELSE "acquire")
    /\ UNCHANGED <<redisVars, dbVars, job, copy, dirty, stop, lost, lapsed, clientVars, recVars, budget>>

Acquire(w) ==
    /\ wpc[w] = "acquire"
    /\ \/ AcquireLease(job[w], w) /\ Goto(w, "ackLrem")
       \/ lease[job[w]] # Nobody /\ Goto(w, "dropLrem") /\ UNCHANGED redisVars
    /\ UNCHANGED <<dbVars, job, copy, dirty, stop, lost, lapsed, clientVars, recVars, budget>>

\* Mutant: a dropped delivery leaves its marker.
AckSremIfHeld(w) ==
    /\ wpc[w] \in {"ackSrem", "dropSrem"}
    /\ IF wpc[w] = "ackSrem" THEN Srem(job[w]) ELSE UNCHANGED redisVars
    /\ Goto(w, IF wpc[w] = "ackSrem" THEN "check" ELSE "idle")
    /\ job' = [job EXCEPT ![w] = IF wpc[w] = "ackSrem" THEN @ ELSE NoRun]
    /\ UNCHANGED <<dbVars, copy, dirty, stop, lost, lapsed, clientVars, recVars, budget>>

\* acknowledge: LREM, then SREM; a dropped delivery ends there.
AckLrem(w) ==
    /\ wpc[w] \in {"ackLrem", "dropLrem"}
    /\ LremProcessing(job[w])
    /\ Goto(w, IF wpc[w] = "ackLrem" THEN "ackSrem" ELSE "dropSrem")
    /\ UNCHANGED <<dbVars, job, copy, dirty, stop, lost, lapsed, clientVars, recVars, budget>>

AckSrem(w) ==
    /\ wpc[w] \in {"ackSrem", "dropSrem"}
    /\ Srem(job[w])
    /\ Goto(w, IF wpc[w] = "ackSrem" THEN "check" ELSE "idle")
    /\ job' = [job EXCEPT ![w] = IF wpc[w] = "ackSrem" THEN @ ELSE NoRun]
    /\ UNCHANGED <<dbVars, copy, dirty, stop, lost, lapsed, clientVars, recVars, budget>>

\* token.raise_if_cancelled before the handler
CheckStart(w) ==
    /\ wpc[w] = "check"
    /\ Goto(w, IF Cancelled(w) THEN "release" ELSE "load")
    /\ UNCHANGED <<redisVars, dbVars, job, copy, dirty, stop, lost, lapsed, clientVars, recVars, budget>>

\* SELECT without a lock: the committed row
Load(w) ==
    /\ wpc[w] = "load"
    /\ copy' = [copy EXCEPT ![w] = status[job[w]]]
    /\ dirty' = [dirty EXCEPT ![w] = FALSE]
    /\ Goto(w, "begin")
    /\ UNCHANGED <<redisVars, dbVars, job, stop, lost, lapsed, clientVars, recVars, budget>>

\* Head of _run_bounded_loop: a terminal run becomes RUN_NOT_EXECUTABLE, a
\* cancelled one cancelled, any other status becomes running.
Begin(w) ==
    /\ wpc[w] = "begin"
    /\ \/ copy[w] \in Terminal /\ Assign(w, "failed") /\ Goto(w, "commit")
       \/ copy[w] \notin Terminal /\ Cancelled(w) /\ Assign(w, "cancelled") /\ Goto(w, "commit")
       \/ copy[w] \notin Terminal /\ ~Cancelled(w) /\ Assign(w, "running") /\ Goto(w, "loop")
    /\ UNCHANGED <<redisVars, dbVars, job, stop, lost, lapsed, clientVars, recVars, budget>>

\* The first query after an assignment flushes it: UPDATE takes the row lock
\* and keeps it to the end of the transaction.  Queries run before the loop,
\* so a changed status is flushed first; step counters are flushed later.
Flush(w) ==
    /\ wpc[w] \in {"loop", "model"}
    /\ rowLock[job[w]] = Nobody
    /\ rowLock' = [rowLock EXCEPT ![job[w]] = w]
    /\ UNCHANGED <<redisVars, status, workerVars, clientVars, recVars, budget>>

Flushed(w) == rowLock[job[w]] = w \/ ~dirty[w]

\* Top of the loop, and of each model attempt
Checkpoint(w) ==
    /\ wpc[w] = "loop" /\ Flushed(w)
    /\ \/ Cancelled(w) /\ Assign(w, "cancelled") /\ Goto(w, "commit")
       \/ ~Cancelled(w) /\ Goto(w, "model") /\ UNCHANGED <<copy, dirty>>
    /\ UNCHANGED <<redisVars, dbVars, job, stop, lost, lapsed, clientVars, recVars, budget>>

\* The model answered: no tool call, a failure, a limit, or an approval.
Finish(w, outcome) ==
    /\ wpc[w] = "model" /\ Flushed(w)
    /\ Assign(w, outcome)
    /\ Goto(w, "commit")
    /\ UNCHANGED <<redisVars, dbVars, job, stop, lost, lapsed, clientVars, recVars, budget>>

FinishSome(w) == \E o \in {"succeeded", "failed", "waiting_approval"} : Finish(w, o)

\* A cloud tool ran (its execution record was flushed, so the row is locked):
\* back to the top of the loop.
CloudTool(w) ==
    /\ wpc[w] = "model" /\ rowLock[job[w]] = w
    /\ Goto(w, "loop")
    /\ UNCHANGED <<redisVars, dbVars, job, copy, dirty, stop, lost, lapsed, clientVars, recVars, budget>>

\* db.commit of a worker's session
CommitSession(w) ==
    /\ rowLock[job[w]] = w \/ (dirty[w] => rowLock[job[w]] = Nobody)
    /\ status' = IF dirty[w] THEN [status EXCEPT ![job[w]] = copy[w]] ELSE status
    /\ rowLock' = IF rowLock[job[w]] = w THEN [rowLock EXCEPT ![job[w]] = Nobody] ELSE rowLock
    /\ dirty' = [dirty EXCEPT ![w] = FALSE]

\* A desktop tool: _await_desktop_execution commits so that the gateway sees
\* the execution, then polls it without the row lock.
DesktopDispatch(w) ==
    /\ wpc[w] = "model" /\ Flushed(w)
    /\ CommitSession(w)
    /\ Goto(w, "desktop")
    /\ UNCHANGED <<redisVars, job, copy, stop, lost, lapsed, clientVars, recVars, budget>>

\* It succeeded (loop on), or failed or timed out: the result says failed but
\* run.status is not assigned.
DesktopReturn(w) ==
    /\ wpc[w] = "desktop"
    /\ Goto(w, "loop") \/ Goto(w, "commit")
    /\ UNCHANGED <<redisVars, dbVars, job, copy, dirty, stop, lost, lapsed, clientVars, recVars, budget>>

Commit(w) ==
    /\ wpc[w] = "commit"
    /\ CommitSession(w)
    /\ copy' = [copy EXCEPT ![w] = "absent"]
    /\ Goto(w, "release")
    /\ UNCHANGED <<redisVars, job, stop, lost, lapsed, clientVars, recVars, budget>>

\* finally: stop the renewal task, release the lease.
Release(w) ==
    /\ wpc[w] = "release"
    /\ ReleaseLease(job[w], w)
    /\ Goto(w, "idle")
    /\ job' = [job EXCEPT ![w] = NoRun]
    /\ lost' = [lost EXCEPT ![w] = FALSE]
    /\ lapsed' = lapsed \ {w}
    /\ UNCHANGED <<dbVars, copy, dirty, stop, clientVars, recVars, budget>>

\* The renewal task finds another owner or none.
RenewalRefused(w) ==
    /\ wpc[w] \in InSession \cup {"check", "load"}
    /\ lease[job[w]] # w /\ ~lost[w]
    /\ lost' = [lost EXCEPT ![w] = TRUE]
    /\ UNCHANGED <<redisVars, dbVars, wpc, job, copy, dirty, stop, lapsed, clientVars, recVars, budget>>

\* stop_event after SIGTERM; the process that replaces it starts clean.
StopWorker(w) ==
    /\ ~stop[w] /\ Spend("stop")
    /\ stop' = [stop EXCEPT ![w] = TRUE]
    /\ UNCHANGED <<redisVars, dbVars, wpc, job, copy, dirty, lost, lapsed, clientVars, recVars>>

RestartWorker(w) ==
    /\ stop[w] /\ wpc[w] = "idle"
    /\ stop' = [stop EXCEPT ![w] = FALSE]
    /\ UNCHANGED <<redisVars, dbVars, wpc, job, copy, dirty, lost, lapsed, clientVars, recVars, budget>>

-----------------------------------------------------------------------------
(* Recovery worker: one pass of recover_once.                              *)

InHand(r) == \E w \in Workers : job[w] = r /\ wpc[w] \in Unacked

\* A pass that takes a delivery from under a live worker is bounded.
TakeDelivery(r) == IF InHand(r) THEN Spend("overtake") ELSE UNCHANGED budget

\* Every step of a pass but the row update leaves these alone.
RecoveryFrame == UNCHANGED <<rowLock, workerVars, clientVars>>

\* The item in hand is dealt with.
NextItem == rstep' = "next" /\ rjob' = NoRun /\ rseen' = "delivery"

\* A new pass begins when the list of the last scan is used up.
RecoveryBegin ==
    /\ rphase = "scan" /\ rstep = "next" /\ rtodo = {}
    /\ rphase' = "inflight"
    /\ rtodo' = {[run |-> r, seen |-> "delivery"] : r \in {q \in Runs : processing[q] > 0}}
    /\ RecoveryFrame
    /\ UNCHANGED <<redisVars, status, rstep, rfound, rjob, rseen, budget>>

\* recover_inflight, for one delivery of the lrange snapshot (equal entries are
\* taken once a pass): skip it when a lease exists ...
RecoverInflight(i) ==
    /\ rphase = "inflight" /\ rstep = "next" /\ i \in rtodo
    /\ rtodo' = rtodo \ {i}
    /\ IF lease[i.run] = Nobody
       THEN rjob' = i.run /\ rstep' = "inflight"
       ELSE UNCHANGED <<rjob, rstep>>
    /\ RecoveryFrame
    /\ UNCHANGED <<redisVars, status, rphase, rfound, rseen, budget>>

\* ... else acknowledge it when the run is cancelled, whoever has it by now, or
\* move it back if the script, which looks at the lease again, agrees.
RecoverChecked ==
    /\ rstep = "inflight"
    /\ \/ /\ rjob \in cancelKey
          /\ TakeDelivery(rjob)
          /\ rstep' = "lrem"
          /\ UNCHANGED <<redisVars, rfound, rjob, rseen>>
       \/ /\ rjob \notin cancelKey /\ ~Recoverable(rjob)
          /\ NextItem
          /\ UNCHANGED <<redisVars, rfound, budget>>
       \/ /\ rjob \notin cancelKey
          /\ TakeDelivery(rjob)
          /\ RecoverDelivery(rjob)
          /\ rfound' = rfound \cup {rjob}
          /\ NextItem
    /\ RecoveryFrame
    /\ UNCHANGED <<status, rphase, rtodo>>

RecoveryLrem ==
    /\ rstep = "lrem" /\ rstep' = "srem"
    /\ LremProcessing(rjob)
    /\ RecoveryFrame
    /\ UNCHANGED <<status, rphase, rtodo, rfound, rjob, rseen, budget>>

RecoverySrem ==
    /\ rstep = "srem" /\ NextItem
    /\ Srem(rjob)
    /\ RecoveryFrame
    /\ UNCHANGED <<status, rphase, rtodo, rfound, budget>>

\* Every recovered delivery also goes through _requeue_run.
RequeueFound(r) ==
    /\ rphase = "inflight" /\ rstep = "next" /\ rtodo = {} /\ r \in rfound
    /\ rfound' = rfound \ {r}
    /\ rjob' = r /\ rstep' = "lock"
    /\ RecoveryFrame
    /\ UNCHANGED <<redisVars, status, rphase, rtodo, rseen, budget>>

\* Mutant: only running rows are listed and re-queued.
RunningOnly == {"running"}

Requeuable == {"running", "queued"}

\* _list_running_runs: a snapshot of the committed rows
ListRunning ==
    /\ rphase = "inflight" /\ rstep = "next" /\ rtodo = {} /\ rfound = {}
    /\ rphase' = "scan"
    /\ rtodo' = {[run |-> r, seen |-> status[r]] : r \in {q \in Runs : status[q] \in Requeuable}}
    /\ RecoveryFrame
    /\ UNCHANGED <<redisVars, status, rstep, rfound, rjob, rseen, budget>>

\* lease_owner is read first, the cancel key and the marker afterwards.
ScanLease(i) ==
    /\ rphase = "scan" /\ rstep = "next" /\ i \in rtodo
    /\ rtodo' = rtodo \ {i}
    /\ IF lease[i.run] = Nobody
       THEN rjob' = i.run /\ rseen' = i.seen /\ rstep' = "checks"
       ELSE UNCHANGED <<rjob, rseen, rstep>>
    /\ RecoveryFrame
    /\ UNCHANGED <<redisVars, status, rphase, rfound, budget>>

ScanMarks ==
    /\ rstep = "checks"
    /\ IF rjob \in cancelKey \/ (rseen = "queued" /\ rjob \in pending)
       THEN NextItem
       ELSE rstep' = "lock" /\ UNCHANGED <<rjob, rseen>>
    /\ RecoveryFrame
    /\ UNCHANGED <<redisVars, status, rphase, rtodo, rfound, budget>>

\* Mutant: the status of the stale list is trusted.
RequeueBlindly ==
    /\ rstep = "lock" /\ rowLock[rjob] = Nobody
    /\ status' = [status EXCEPT ![rjob] = "queued"]
    /\ rstep' = "sadd"
    /\ RecoveryFrame
    /\ UNCHANGED <<redisVars, rphase, rtodo, rfound, rjob, rseen, budget>>

\* _requeue_run: SELECT FOR UPDATE waits for the row and re-reads the status.
RequeueRow ==
    /\ rstep = "lock" /\ rowLock[rjob] = Nobody
    /\ IF status[rjob] \in Requeuable
       THEN /\ status' = [status EXCEPT ![rjob] = "queued"]
            /\ rstep' = "sadd" /\ UNCHANGED <<rjob, rseen>>
       ELSE NextItem /\ UNCHANGED status
    /\ RecoveryFrame
    /\ UNCHANGED <<redisVars, rphase, rtodo, rfound, budget>>

RequeueSadd ==
    /\ rstep = "sadd"
    /\ Sadd(rjob)
    /\ IF rjob \in pending THEN NextItem ELSE rstep' = "rpush" /\ UNCHANGED <<rjob, rseen>>
    /\ RecoveryFrame
    /\ UNCHANGED <<status, rphase, rtodo, rfound, budget>>

RequeueRpush ==
    /\ rstep = "rpush" /\ NextItem
    /\ Rpush(rjob)
    /\ RecoveryFrame
    /\ UNCHANGED <<status, rphase, rtodo, rfound, budget>>

-----------------------------------------------------------------------------
(* Failures. *)

\* The lease ends under a live owner: renewal delayed beyond 60 s, or the
\* renewal task died of a RedisError.
LeaseLapse(w) ==
    /\ wpc[w] \in Holding /\ lease[job[w]] = w
    /\ Spend("lapse")
    /\ SetLease(job[w], Nobody)
    /\ lapsed' = lapsed \cup {w}
    /\ UNCHANGED <<dbVars, wpc, job, copy, dirty, stop, lost, clientVars, recVars>>

\* TTL of a lease whose owner is gone
LeaseExpire(r) ==
    /\ lease[r] = Former
    /\ SetLease(r, Nobody)
    /\ UNCHANGED <<dbVars, workerVars, clientVars, recVars, budget>>

\* The session is gone: no row lock, the row keeps its committed value.
Rollback(w) ==
    /\ rowLock' = [r \in Runs |-> IF rowLock[r] = w THEN Nobody ELSE rowLock[r]]
    /\ copy' = [copy EXCEPT ![w] = "absent"]
    /\ dirty' = [dirty EXCEPT ![w] = FALSE]

\* An exception out of the handler is logged by run_once.
HandlerRaises(w) ==
    /\ wpc[w] \in InSession
    /\ Spend("fault")
    /\ Rollback(w)
    /\ Goto(w, "release")
    /\ UNCHANGED <<redisVars, status, job, stop, lost, lapsed, clientVars, recVars>>

\* The process dies; its successor has a new worker id.
CrashWorker(w) ==
    /\ wpc[w] # "idle"
    /\ Spend("crash")
    /\ Rollback(w)
    /\ lease' = [r \in Runs |-> IF lease[r] = w THEN Former ELSE lease[r]]
    /\ Goto(w, "idle")
    /\ job' = [job EXCEPT ![w] = NoRun]
    /\ stop' = [stop EXCEPT ![w] = FALSE]
    /\ lost' = [lost EXCEPT ![w] = FALSE]
    /\ lapsed' = lapsed \ {w}
    /\ UNCHANGED <<queue, processing, pending, cancelKey, status, clientVars, recVars>>

CrashRecovery ==
    /\ rphase = "inflight" \/ rstep # "next" \/ rtodo # {}
    /\ Spend("crash")
    /\ rphase' = "scan" /\ NextItem /\ rtodo' = {} /\ rfound' = {}
    /\ RecoveryFrame
    /\ UNCHANGED <<redisVars, status>>

-----------------------------------------------------------------------------

HandlerStep(c) ==
    \/ EnqueueSadd(c) \/ EnqueueRpush(c) \/ EnqueueUndo(c)
    \/ CancelToken(c) \/ DecideWrite(c)

RequestStep(c) ==
    \/ \E r \in Runs : Submit(c, r) \/ CancelRow(c, r) \/ DecideRead(c, r)
    \/ EnqueueError(c) \/ AbandonRequest(c)

DeliveryStep(w) ==
    \/ Dequeue(w) \/ CheckDelivery(w) \/ Acquire(w) \/ AckLrem(w) \/ AckSrem(w)

ExecutionStep(w) ==
    \/ CheckStart(w) \/ Load(w) \/ Begin(w) \/ Flush(w) \/ Checkpoint(w)
    \/ FinishSome(w) \/ CloudTool(w) \/ DesktopDispatch(w) \/ DesktopReturn(w)
    \/ Commit(w) \/ Release(w) \/ RenewalRefused(w)

WorkerFault(w) ==
    \/ StopWorker(w) \/ RestartWorker(w) \/ LeaseLapse(w)
    \/ HandlerRaises(w) \/ CrashWorker(w)

RecoveryStep ==
    \/ RecoveryBegin \/ RecoverChecked \/ RecoveryLrem \/ RecoverySrem \/ ListRunning
    \/ ScanMarks \/ RequeueRow \/ RequeueSadd \/ RequeueRpush
    \/ \E i \in rtodo : RecoverInflight(i) \/ ScanLease(i)
    \/ \E r \in rfound : RequeueFound(r)

Next ==
    \/ \E c \in Clients : HandlerStep(c) \/ RequestStep(c)
    \/ \E w \in Workers : DeliveryStep(w) \/ ExecutionStep(w) \/ WorkerFault(w)
    \/ RecoveryStep \/ CrashRecovery
    \/ \E r \in Runs : LeaseExpire(r)

Spec == Init /\ [][Next]_vars

\* Live processes keep running their code and stopped ones are replaced; the
\* step limit of the loop ends it (strong fairness of FinishSome); keys of dead
\* owners expire.  Nothing is assumed of clients and failures.
Fairness ==
    /\ \A c \in Clients : WF_vars(HandlerStep(c))
    /\ \A w \in Workers :
        /\ WF_vars(DeliveryStep(w) \/ ExecutionStep(w) \/ RestartWorker(w))
        /\ SF_vars(FinishSome(w))
    /\ WF_vars(RecoveryStep)
    /\ \A r \in Runs : WF_vars(LeaseExpire(r))

FairSpec == Spec /\ Fairness

-----------------------------------------------------------------------------
(* Properties. *)

\* A run is executed by at most one worker, unless a lease ended under its
\* owner: every worker that went past acquire_lease and whose lease did not
\* lapse is the recorded owner (acquire, renew, release compare the owner).
LeaseExclusion ==
    \A w \in Workers : wpc[w] \in Holding /\ w \notin lapsed => lease[job[w]] = w

\* The runtime implements the abstract lease: a run is granted to a worker at
\* acquire_lease and given up at release or by a crash, whatever the order of
\* Redis commands, acks, renewals and expiries in between.
HeldRuns == [w \in Workers |-> IF wpc[w] \in Holding THEN job[w] ELSE NoRun]
Lease == INSTANCE RunLease WITH holds <- HeldRuns, revoked <- lapsed
ImplementsLease == Lease!Spec

\* No writer of the row of r is under way that read it before the cancel.
NoWriterInFlight(r) ==
    /\ \A w \in Workers : job[w] = r => wpc[w] \notin InSession \cup {"load"}
    /\ \A c \in Clients : creq[c] = r => cpc[c] # "decide"

\* Once a cancel is complete (row and token) and no earlier reader of the row
\* is under way, no delivery, retry or recovery pass ever revives the run.
CancelSettled(r) == r \in cancelKey /\ status[r] = "cancelled" /\ NoWriterInFlight(r)
CancelSticks == [][\A r \in Runs : CancelSettled(r) => CancelSettled(r)']_vars

Active == {"queued", "running"}

\* The recovery worker never changes a terminal or waiting row, however stale
\* the list it works from (_requeue_run re-reads under the row lock).
RecoveryKeepsSettledRows ==
    [][RecoveryStep => \A r \in Runs : status[r] \notin Active => status'[r] = status[r]]_vars

\* No process died and no handler or Redis call was cut short so far.
Undisturbed == budget["fault"] = Budget["fault"] /\ budget["crash"] = Budget["crash"]

\* Until then a pending marker always has a delivery, or a process about to add
\* one or to take the marker away: else enqueue and recovery skip the run.
Marked(r) ==
    \/ r \in {queue[i] : i \in 1..Len(queue)} \/ processing[r] > 0
    \/ \E c \in Clients : creq[c] = r /\ cpc[c] \in {"rpush", "undo"}
    \/ \E w \in Workers : job[w] = r /\ wpc[w] \in {"ackSrem", "dropSrem"}
    \/ rjob = r /\ rstep \in {"srem", "rpush"}
MarkerCovered == Undisturbed => \A r \in pending : Marked(r)

\* Until then the deliveries of a run in Redis are one, plus one for each time
\* a recovery pass took a delivery from under a live worker.  (Once the token is
\* there recovery acknowledges from its stale list and may drop a newer marker.)
Copies(r) == Cardinality({i \in 1..Len(queue) : queue[i] = r}) + processing[r]
Overtaken == Budget["overtake"] - budget["overtake"]
DeliveriesBounded ==
    Undisturbed => \A r \in Runs \ cancelKey : Copies(r) <= 1 + Overtaken

\* A marker left behind without a delivery (a process was cut short between
\* SADD and RPUSH, or between LREM and SREM).
Orphaned(r) == r \in pending /\ ~Marked(r)

\* A run that is queued or running ends, waits for the user, or is cancelled, also
\* when a worker or the recovery worker dies, unless its marker is orphaned.
RunProgress ==
    \A r \in Runs : status[r] \in Active ~>
        (status[r] \notin Active \/ r \in cancelKey \/ Orphaned(r))

\* state_machine.py: succeeded, failed and cancelled have no successor.
TerminalIsFinal == [][\A r \in Runs : status[r] \in Terminal => status'[r] = status[r]]_vars

\* api/v1/agent.py:191: a persisted run whose enqueue timed out is delivered
\* again by the recovery worker.
QueuedRunStarts == \A r \in Runs : status[r] = "queued" ~> status[r] # "queued"
=============================================================================
