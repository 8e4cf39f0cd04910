# Verification of YuanAI

This directory models YuanAI (FastAPI backend, Redis, PostgreSQL, worker
processes, an Electron execution node, web, desktop and mobile clients) in TLA+.
It follows the parts whose behaviour depends on the order of events in several
processes: the runs of the agent and their events, the tools that run on a
user's desktop, automations, the streams of a chat, the login by code, and the
generation of media. Paths are relative to the repository (`src/`). `PROJECT.json` holds the map
from definitions to lines, the runs, the mutants that each property
detects, the hazards and the theorems.

## 1. Inventory

### Agent runtime

| Component | State it keeps | Operations | Correct when |
|---|---|---|---|
| Queue and leases, `backend/app/services/agent/queue.py` (Redis) | `agent:queue`, `agent:processing`, `agent:pending:<run>`, `agent:lease:<run>`, `agent:cancel:<run>` | enqueue, dequeue, acknowledge, recover_inflight, acquire / renew / release lease, set_cancelled | one owner per lease; a marker never outlives its delivery; deliveries do not multiply |
| Agent worker, `workers/agent_worker.py` | run in hand, stop event, `CancellationToken`, renewal task, a database session | run_once, execute_agent_run, _renew_lease_until_stopped | it executes only what it has a lease for; it stops when cancelled |
| Recovery worker, `workers/recovery_worker.py` | nothing but the lists of the current pass | recover_once, _requeue_run | an active run without an owner is queued again; a settled one is left alone |
| API handlers, `api/v1/agent.py` | one transaction each | create_run, cancel_run, decide_approval, stream_events | a persisted run is executed; a cancel is final |
| Coordinator, `services/agent/coordinator.py` (with `state_machine.py`, `policy.py`, `context_builder.py`) | the run's row, steps, events and tool executions in one session | bounded loop of model and tool calls | terminal statuses are final; no effect happens twice |
| Approvals, `services/agent/approval_service.py` | `approval_requests` rows | decide, resume_after_decision, expire | a decision resumes the run once |
| Event store and SSE stream, `services/agent/event_service.py`, `api/v1/agent.py` | `agent_events (run_id, sequence)` unique | append, replay, replay_after, generate() | the log grows at its end only; a reader with a cursor misses nothing |
| Stream client, `packages/core/src/api/agent.ts`, `platform/*.ts` | last event id, seen sequences, reconnect timer | openAgentEventStream | each event once and in order; the end of the run is noticed |

They interact through Redis commands and through one row, `agent_runs`. Six
pieces of code write its status: `create_run`, `cancel_run`,
`resume_after_decision`, `_requeue_run`, the coordinator, and the scheduler that
expires waiting runs of automations (that one is in `Automation`). Only `cancel_run` and `_requeue_run` lock
the row before they read it. Redis and PostgreSQL are never updated
atomically with each other. Any process may die between two steps. A lease
may end under a live owner, and an API handler may be cut off by its own
timeout.

### Tools on the desktop

| Component | State it keeps | Operations | Correct when |
|---|---|---|---|
| Gateway, `services/tool_runtime_service.py`, `api/v1/tools.py` | rows of `tool_executions` (status, delivery, acknowledgement), nodes, one session per WebSocket with the objects it read | create, offer, answer, progress, outcome, acknowledge, cancel, deadline, revoke | a final state is not changed; what is queued is offered; the caller gets an answer |
| Node: jobs, `apps/desktop/src/main/execution-node/client.ts`, `jobs.ts`, `service.ts`, `identity-store.ts` | pending offers, active jobs, spool of results in an encrypted file | handle a message, accept, reject, execute, report, replay, clear | an effect happens once; a result is kept until the server has it |
| Node: connection, the same files and `ToolControlCenter.tsx` | state, socket, three timers, identity on disk and in memory | start, register, connect, renew, reconnect, disconnect, stop, remove | one connection; a client that waits has something to wait for; what was removed stays removed |

The two sides talk over a WebSocket that may break at any time. The row has five
writers: the coordinator that created it and waits, a user's cancel, the
session of the gateway, revocation, and the session of an older connection that
has not noticed its end. None of them locks it between reading and writing.

### Automations

| Component | State it keeps | Operations | Correct when |
|---|---|---|---|
| Schedules, `services/automation_service.py` | rows of `automations` and `automation_triggers` (`next_run_at`) | create, claim what is due, pause, resume, run now, delete; the search for the next minute of a cron rule | each minute of the rule has one run; a pause that was answered holds |
| Waiting runs, the same file and `services/push_service.py` | rows of `automation_runs` that repeat the status of their run, with deadline and notification | synchronise, notify, expire | a wait is announced once and ends; the history agrees with the runs |

`workers/automation_scheduler.py` runs both in passes, in any number of processes. A pass
locks what it claims with SKIP LOCKED, but synchronises, notifies and expires runs that it read
without a lock, beside the agent's worker and the handlers that decide or cancel them.

### Clients

| Component | State it keeps | Operations | Correct when |
|---|---|---|---|
| Stream registry, `packages/core/src/streams/`, with `api/stream.ts`, `hooks/useStream.ts`, `stores/`, the platform adapters and `services/chat_service.py` | attempts, timers, deltas that wait, chat store, cached history; on the server the reply's row | ask, stop, edit, flush, retry after a token refresh, read the history, leave a temporary chat | the text is the reply's, in order, once; what was shown is not lost; each question ends |
| Code login, `services/qr_login_service.py`, `QrLoginPanel.tsx`, `QrLoginScanner.tsx` | a challenge's row; the panel's code, poll and state; the phone's stage | create, poll, inspect, approve, deny, exchange, refresh, leave | one session per code; what the phone shows is what the server did; an approval gets the user in |
| Media, `services/media_generation_service.py`, `api/v1/media.py`, `hooks/useMediaGeneration.ts` | the task's row with lease and attempts, objects, sessions of workers, the page's list and card | create, claim, call a provider, poll, retry, finalize, repair a poster, cancel, list | one generation is paid for; final means final; a canceled task leaves nothing |

### Other components

| Component | Hard behaviour | Status |
|---|---|---|
| Webhooks, `webhook_service.py`, `api/v1/webhooks.py` | the replay guard is written before the run exists | not modelled; the runs they create are those of `Automation` |
| Auth client, `packages/core/src/api/client.ts` | shared refresh racing logout and login | the refresh of a stream is in `ChatStreams`; the rest planned |
| Memory extraction, `memory_queue.py`, `memory_worker.py` | at-most-once queue | small module possible |
| File upload | multipart against object storage | later, mostly I/O |
| Skills, personas, knowledge, push, voice, storage, secrets, sandbox and MCP workers | none between processes: request-local or external calls | not modelled |
| User interfaces, `infra/`, CI | the composer's races (section 5) | not modelled |

Every hazard found while reading, with its line, is in `PROJECT.json`
("hazards"). Those without a property say why, or in which module they are planned.

## 2. Modules and how they correspond to the code

### AgentQueue

Each operator is one Redis command or one Lua script, which Redis executes
atomically. `queue` is a sequence, because RPUSH and RPOPLPUSH work on the same
(right) end and the order is visible. `processing` is a count per run: LREM and
the recovery script remove equal entries and nothing uses their order. TTLs are
actions of the modules above (`LeaseExpire`, `LeaseLapse`). The key
`agent:cancel:<run>` lives 24 hours, longer than any modelled behaviour.

### AgentRuntime

It composes the queue with the API handlers, the workers, the recovery worker
and the row. A method that issues several commands is several steps, so other
processes may act between them:

| Model | Code |
|---|---|
| `cpc`: `sadd`, `rpush`, `undo` | `AgentQueue.enqueue`; `AbandonRequest` is also the 0.45 s `wait_for` around it |
| `cpc`: `token` | `cancel_run` between its commit and `_cancel_queued_run` |
| `cpc`: `decide` | `decide_approval` between reading the run and the commit of `resume_after_decision` |
| `wpc`: `fetched`, `acquire`, `ackLrem`, `ackSrem`, `dropLrem`, `dropSrem` | `run_once`, from RPOPLPUSH to the acknowledgement |
| `wpc`: `check`, `load`, `begin`, `loop`, `model`, `desktop`, `commit`, `release` | `execute_agent_run` and the coordinator's loop |
| `copy`, `dirty`, `rowLock` | the run in the worker's session, whether its UPDATE changes the status, and the row lock the flushed UPDATE holds until commit |
| `lost`, `lapsed` | `CancellationToken._lease_lost`; `lapsed` is a history variable, the lease ended although the worker did not end it |
| `rphase`, `rstep`, `rtodo`, `rfound`, `rjob`, `rseen` | the three phases of `recover_once`: in-flight deliveries, running and queued rows, one item in hand and the status it was listed with. Lease, token and marker are read one after the other, as the code does; equal entries of the in-flight list are taken once a pass |

A model call, a tool call and everything they produce are reduced to what they
do to the row: finish with some status (`FinishSome`), go round again
(`CloudTool`), or commit in the middle and wait for the desktop
(`DesktopDispatch`). A session reads the row once, without a lock
(`Load`), and SQLAlchemy emits an UPDATE only for a changed attribute: hence
`Assign` and `dirty`.

Two exits of the code are not actions here. A missing assistant commits an error code
without a status, which is left out. Waiting runs of automations are expired by the scheduler,
which `Automation` models.

### RunLease

This is the abstract lease: a run is granted to a worker only if each earlier
holder gave it up or had it revoked by time. `AgentRuntime` implements it with `holds <- HeldRuns`
and `revoked <- lapsed`.

### AgentEventLog, AppendOnlyLog

`append` is a transaction of its own: SELECT max, INSERT, COMMIT, tried again on
a conflict of the unique constraint, without any lock on the run. The module
models attempts and handlers that all may append at once. That is more than
`AgentRuntime` allows, so what holds here holds for the system. `AppendOnlyLog`
is what a reader with a cursor relies on: event n + 1 becomes visible after
1..n, and nothing visible changes. The argument why the code delivers this is not
local. An INSERT waits for an open transaction with the same sequence, so
among appends that chose n only one is past INSERT, and n + 1 can be chosen only
after n was committed.

The events of the run and the status are two commits: `run_completed` before
`succeeded`, `cancelled` before `run_cancelled`, and no event at all for a failed
run. The Redis broadcast of `publish` wakes readers earlier but nothing is
read from it. It is left out.

### AgentEventStream

It adds `generate()` (page of events, then status, then again) and
`openAgentEventStream`. A connection is a record: program counter and cursor of
the generator, and the frames on the wire. `UnnamedDelivered` says whether the
platform adapter passes on a frame without an `event:` line. The desktop adapter
does, the web adapter does not. Several connections can exist at once, since a
late answer of `getAgentRun` schedules a reconnect while another stream is still open.

### ToolGateway, DesktopNode, NodeJobs

`ToolGateway` has one action per message handler and writer of a row. A row is read in one
step and written in a later one by a user's cancel (`CancelRead`, `CancelWrite`), by the
caller that waits (`WaiterDeadline`, `WaiterFail`; `deciding` holds who is between the two)
and by a session that applies a message (`ReadMessage`, `ApplyMessage`; the message and
what was read are in `gw[c].message` and `read`). A session
works on the object it has (`gw[c].held`, `seen`): SQLAlchemy's identity map
hands out the attributes first read, so a session that looks at a row again may
still see the old status. One pass over the rows is one transaction. `stale` says that the
last offer is older than its time to live.

`DesktopNode` follows the main process of the desktop app, which runs one
handler at a time up to its next `await`. The awaits that matter are actions:
a save of the spool (`saves`; each writes the spool computed when it was
started, so two of them overwrite each other, the renewal of the token among them, which
writes back the whole file as it read it before it asked the server) and the tool's work. `active` tells a job
before its effect from one in it. `effects`, `owed` and `clobbered` are
history variables for the properties.

`NodeJobs` composes them: opening a connection, losing it with
any suffix of what was under way, a node that crashes and restarts from its
file. A session may outlive its connection. Heartbeats, signatures and the policy that
chooses tools are left out; a revoked node is turned away. `register()` makes a new node, to
which the executions of the old one are not addressed (it carries the spool it found into the new file),
and is in `NodeConnection` only.

### NodeConnection

It models the node's connection alone: `register`, `connect` and `renew` test
the state, wait for the network or the disk, and go on without a second test.
A call under way is in `flow` with the wait it is in. `old` counts sockets that
were replaced without being closed. Initially the file holds no identity or one
with a fresh or an expiring token.

### CronSchedule, Automation

`CronSchedule` is the search of `next_cron_occurrence`: from the local minute of a time on,
the first local minute that matches and has an instant after that time. A zone changes its
clocks once, so a local minute has none, one or two instants (`Folds`, `Candidates`). The
calendar is a constant; TLC uses an hour of two minutes and a day of one hour, the proofs any.

`Automation` is one automation under several scheduler processes. A pass (`pass[s]`) keeps
the time it took, the rows changed in its session as loaded and as changed, and the rows
it has to handle, has handled and has locked; its steps are the reads and the commits, so a request of
the user may fall between any two. A row deleted or changed since ends the pass as SQLAlchemy's
`StaleDataError` does. The run behind an occurrence is reduced to what these passes see: one
attempt of a worker is a start and an end that commits by id, a decision is a read and a commit,
a cancel is a row and a token. `Plans` gives a trigger together with what may happen in its
instance.

### ChatStreams

One conversation on screen. A turn is a question with its reply of `N` deltas; the
reply's text is the sequence of its deltas and a stored or cached reply is its
length, which is all the properties compare. `app` is a browser (`fetch`, which
closes late) or mobile (an event source, closed at once). `kind` tells a stored
conversation from the temporary page. Each turn has its attempt (a second one
after a token refresh), its transport, the deltas that wait for the flush timer,
and the server's side, which goes on writing after the client has left. The history read
is one at a time, as React Query does it, and may overlap anything. A question may also be
asked while the last is being answered, and is refused (`AskBusy`).

### QrLogin

A request is a slot: sent, read by its handler, and written if the row it read
allows. Nothing locks the row between the two. The panel has two slots for
polls since an effect that React replaced leaves its poll running, and
`current` says whether its answer is still wanted. The phone has a slot per kind of call,
gives a call up after 15 s (`Abandoned`), and then asks the server what came
of it (`Reconcile`). `told` is the history of the codes of which the server has told the phone that
they were refused; the stage alone does not say that (section 5).

### MediaTasks

One task. A worker has the row as loaded and the object it works on; a flush writes
the attributes that differ and no others, which is why a cancel between load and
flush survives or not attribute by attribute. A finalization holds the row
lock to its commit and is one step. `paid` counts generations started at
a provider. The page has two caches. It polls the list of the tasks while that list has an
active one and merges what it says into the card of the message. It reads the messages again
after the creation and whenever the conversation is opened or an answer in it ends
(`Refetch`), and what it is told then replaces the card. Either read may be answered late.

### MC modules

`MCAgentRuntime` gives budgets, `MCAgentEventStream` the symmetry of connections,
`MCNodeJobs` the scenarios, `MCAutomation` the calendar and the plans, `MCMediaTasks` the
extras of each kind of task. The others have no constants that a cfg cannot write.

## 3. What the runs check

| Run | Question | Bounds |
|---|---|---|
| `runtime_safety` | lease exclusion, refinement of `RunLease`, cancel final, recovery leaves settled rows alone, markers covered, deliveries bounded | 1 run, 2 workers, 1 client; two requests, one crash, stop, lapse, overtake and fault each, three of them in a behaviour; 3.3 M states |
| `runtime_live` | `RunProgress` under fairness | the same processes and kinds of events, two in a behaviour; 558 k states |
| `events` | order at the client, refinement of `AppendOnlyLog`, `EndNotified` under fairness | 1 attempt at a time, 1 handler at a time, 3 appends, 2 tries, page of 2, 1 fault, 2 connections; 234 k states |
| `node_jobs` | effects at most once, results kept and delivered, final states, offers delivered | 1 execution, 2 connections; the events of one of six scenarios, each event once: crash and cancel, deadline and cancel, loss and a renewed token, revocation, an expired offer, a failed save; 942 k states |
| `node_connection` | no connection beside another, a removed identity stays removed, reconnecting | 2 failures, 5 events of user, clock or restart |
| `streams` | text on screen, completed and partial replies in the history, one end per question, temporary chats | 2 questions, replies of 2 deltas, 1 extra (failure, expired token or unasked history read); 736 k states |
| `automation` | schedule covered, waits announced once and ended, pause final, history in agreement | 2 schedulers, 4 minutes, 9 plans: a one-off with a deletion, a cancel, a fault, or a pause and a run now; a cron rule with an approval, with a pause and a resumption and both day fields, with a fault and a next minute beyond the search, and with clocks put forward and back; 128 k states |
| `qr_login` | one session per code, refusals and approvals as shown, progress of panel and phone | 2 codes, 2 extras (slow or lost request, code past its time, page refreshed, rendered or left); 172 k states |
| `media` | payments, objects, final statuses, the card | 2 workers, 3 kinds, 2 failed polls in a row, extras (interrupted worker, lapsed lease, messages read again): 2 for an image, 1 for a song or a video; 910 k states |
| `runtime_terminal`, `runtime_timeout`, `events_late` | disagreements of code and documents, section 5 | as small as shows them |

`Budget` bounds what the environment may do. Each kind of event has its own
allowance and all share `"events"`. No action of the code itself is bounded:
the loop, recovery passes and redeliveries may go on for ever, and the state
space is finite without a counter for them. The bounds are enough for the cases that matter. Two
workers are needed for two owners, one client and two requests for submit +
cancel, submit + submit with the same key, or submit + decide. Three events combine a
request with two failures. With one run, every interaction is on the same row and
the same keys. Runs share nothing but the order of `agent:queue`, which the proofs below
cover for any number of runs. `"overtake"` bounds how often a recovery pass takes
a delivery from under a live worker that has not yet acquired its lease: without
it the passes could do so forever, which in the code needs a worker that pauses for a whole
recovery interval each time.

In `events`, three appends and a page of two make a second page necessary. Two
tries instead of the code's five keep both the retry and the giving up reachable. Page
size 2 stands for 500.

In `node_jobs`, one execution is enough: executions share the spool's save and the
single slot of the settings page, and the first is reached by two saves of one execution as
well. Two connections let a session linger beside its successor. In a
scenario any of its events may happen or not, so each failure also happens alone. The
pairs are the events that race each other: a cancel with a waiter's deadline and with a restart,
a lost connection with the renewal that the reconnect begins with. A cancel beside a lost
connection has more states than the rest together; the invariants and `FinalStatus` were run on it
alone and are proved for any scenarios (section 4), and a cancel is itself what
`OutcomeArrives` and `OfferArrives` wait for.
In `automation`, two schedulers make one skip what the other holds, and four minutes let two
occurrences pass while one is late. Each plan pairs a rule with the requests that race it;
the requests of a plan come once each, and a plan with more of them repeats the races of others.
In `streams`, two questions let late frames, timers and history reads of the first
meet the second; the extra adds one failure to that. In `qr_login`, the second code is
what a refresh makes, and two extras make a call late and something else happen
to it. In `media`, two workers make one overtake the other; two extras
allow an interruption after an overtaking, which is what an image's payments depend on, and one
has every kind's card meet a late answer. The safety properties are proved for any
number of either.

Deadlock checking is off where the system really stops: a closed client and a
finished run (`events`), a client whose events are used up (`node_connection`), both
questions answered (`streams`), both codes used (`qr_login`), a finished task (`media`).

What the properties say:

* `LeaseExclusion`: a worker past `acquire_lease` whose lease did not lapse is
  the owner recorded in Redis, so two such workers never have the same run.
* `ImplementsLease`: the same over time, as a refinement.
* `CancelSticks`: once row and token say cancelled and no earlier reader of the
  row is still in its transaction, no delivery, retry or recovery pass revives the run.
* `RecoveryKeepsSettledRows`: however old its list, recovery changes only queued
  and running rows.
* `MarkerCovered`: while nothing was cut short, each pending marker has a delivery
  or a process about to push or to remove; otherwise enqueue and recovery both skip the run.
* `DeliveriesBounded`: while nothing was cut short, a run without a cancel token has
  one delivery in Redis, plus one for each overtake. Cancelled runs are left out: recovery
  acknowledges their entries from an old list and may drop the marker of a newer
  delivery (it takes four requests to see that; the worker then drops the extra delivery).
* `RunProgress`: a queued or running run ends, waits for the user, or is cancelled,
  also after a crash, unless its marker was left without a delivery (that is the
  subject of `runtime_timeout`).
* `ReceivedInOrder`, `ImplementsLog`, `EndNotified`: each event once and in
  order, a log that grows at its end, and a client that stays learns of the end.
* `AtMostOnce`, `ResultKept`, `OutcomeArrives`: a tool's effect is begun once however
  often its offer is repeated; an outcome the node has saved stays in the spool until the
  server has a final state, and gets there. `FinalStatus`: a final
  state is changed only by a writer that read the row before it was final, be it a user's cancel, the
  waiter or a session: who reads it final never changes it. `OfferArrives`: a
  queued execution is offered or decided.
* `OneConnection`, `RemovedIsForgotten`, `Reconnects`: no connection beside another, no
  identity after its removal, and a client that reconnects gets there or stops, whatever calls were
  waiting when the user switched the node off. `IdleIsQuiet`, `OnlineIsConnected` and `NeverStuck`
  say that the states the user sees are what sockets and timers are; they are proved and no run
  repeats them.
* `ScheduleCovered`: every minute the rule names before `next_run_at` has its history row and no
  other minute has one. `PauseHolds`: none gets one after a pause was answered. `OccurrencesRun`:
  a due occurrence is run. `AnnouncedOnce`, `WaitsEnd`: a wait is announced once, plus once per
  failed pass or dead subscription, and ends. `HistoryAgrees`: the history comes to show the run's status.
* `TextInOrder`, `SnapshotIsLive`, `EndsOnce`, `QuestionsEnd`: late frames and
  timers never reach the next reply, a conversation shown as busy has a stream
  that will end, and each question ends once. `CompletedIsWhole`, `StopKeepsPartial`:
  no overlapping history read, edit or next question takes away what was received.
  `TemporaryForgotten`: a temporary chat that was left does not come back.
* `OneSession`, `DeniedStaysOut`, `DoneMeansApproved`, `ApprovalReachesTarget`,
  `PhoneSettles`: the promises of both screens against a row nobody locks. `DeniedStaysOut` is about
  the refusals the server has told the phone of, after a refusal, a reconciliation or a scan.
* `Generations`, `Objects`, `FinalStays`, `CardSettles`: how often a task is paid
  for, what it leaves in the storage, that its end is final and is shown, whichever of the
  page's two reads is answered last.

A property that names an exception (`clobbered`, `overlap`, `emptied`, `crossed`,
`redone`, `late`, `revived`, `rewritten`, `Repeated`, `Stranded` and so on) does not hold without it: the exception is a flaw
of the code that section 5 lists, and the history variable confines it.

### Fairness

* `AgentRuntime`: a live process keeps running its code (weak fairness per worker,
  handler and recovery worker), and a stopped worker is replaced by its supervisor.
  The lease key of a dead owner expires. Strong fairness of `FinishSome`: the
  coordinator's loop has a step limit (`policy.py`), so a worker that comes to
  the model call again and again ends there. No fairness is assumed of clients,
  users or failures.
* `AgentEventStream`: server, network and event loop go on, the timer fires,
  `getAgentRun` is answered or fails (failures are bounded by `MaxFaults`). Nothing is assumed of
  workers, handlers or the user.
* `NodeJobs`: the gateway's loop (`receive_json` ends after five seconds at the latest), the
  node's handlers, saves and reconnect timer go on, a tool returns, offers and
  deadlines pass. Nobody has to decide on an offer.
* `NodeConnection`: timers fire, requests are answered or fail, saves end, the server
  sends its challenge or the timer of ten seconds fires.
* `Automation`: the clock runs and each scheduler goes on with its passes. Nothing is assumed of
  workers, users or failures; a pass that fails is followed by the next.
* `ChatStreams`: the server answers and its frames arrive, flush timers fire, a refresh
  is answered. No fairness of the user, nor of history reads.
* `QrLogin`: every request ends (axios gives up after 30 s), intervals tick,
  promises settle. None of the user, the clock or failures.
* `MediaTasks`: each worker's loop, the handlers and the page go on and leases end. Strong
  fairness of `Generated`: a provider that is asked again and again has a
  result some day. The code has no limit on polls that stay pending, so without it a
  task may be polled for ever.

## 4. What is proved

TLAPS checks the theorems below for every value of the constants that satisfies the
named assumptions: any number of runs, workers, clients, executions, connections, schedulers,
questions and codes, any cron rule, zone and calendar, and any budget or bound. The assumptions are `OwnersDistinct` and `RuntimeAssumption` (runtime: the
model values differ, the budget is a function to Nat, workers and clients are finitely
many), `EventLogAssumption`, `StreamAssumption`, `GatewayAssumption`, `ScenariosAssumption`,
`ConnectionAssumption`, `CronAssumption`, `AutomationAssumption`, `BoundsAssumption` (one in `ChatStreams`, one
in `QrLogin`) and `MediaAssumption`. They say that sets of processes are finite, that bounds are
natural numbers and that null values are none of the values they stand beside.

Agent runtime (`AgentRuntime_proofs`) and its events (`AgentEventStream_proofs`):

| Theorem | Statement | Argument |
|---|---|---|
| `TypeSafety` | `Spec => []TypeOK` | `TypeOK` alone is not inductive: Redis commands act on `job[w]`, `creq[c]` and `rjob`, so `TypeInv` adds `InHandOK`, which says that a process in the middle of something has a run in hand |
| `LeaseSafety` | `Spec => []LeaseExclusion` | `LeaseInv`, which is `LeaseExclusion` with the fact that only holders are in `lapsed`; one lemma for steps that leave the lease variables alone, one for the others |
| `LeaseRefinement` | `Spec => ImplementsLease` | each step maps to Grant, GiveUp, Revoke or a stutter, from `LeaseInv` |
| `RecoverySettled` | `Spec => RecoveryKeepsSettledRows` | `RequeueRow` is the only step of recovery that writes a row, and it re-reads |
| `CancelSafety` | `Spec => CancelSticks` | every writer of the row is either in flight (excluded by `NoWriterInFlight`) or tests the token or the status first |
| `EndSafety` | `Spec => [][\A r \in Runs : Ended(r) => EndKept(r)]_vars` | the positive side of finding 1: once a run has ended and no session or decider that read its row earlier is left (`Ended`), no delivery, recovery pass, cancel or decision executes or queues it again. Its status changes to `failed` at most. `Ended` is preserved by every step |
| `MarkerSafety` | `Spec => []MarkerCovered` | `AllCovered` (markers as predicates on the queue), with `BudgetInv`: budgets only fall, so a behaviour that is undisturbed now was so in every earlier state |
| `DeliverySafety` | `Spec => []DeliveriesBounded` | the claims of a run (queue entries, pushes under way, workers that have not yet removed the marker) are at most the overtakes, plus one while the marker exists; and entries of `agent:processing` never outnumber the workers that hold them, so a recovered entry was in a worker's hand and is counted as an overtake |
| `LogInvariant`, `LogRefinement` | `Spec => ImplementsLog` | `LogInv`: the rows are 1..n, a chosen number is at most n + 1, an inserted and uncommitted one is n + 1, and only one append has it |
| `TypeSafety` (events), `OrderSafety` | `Spec => []TypeOK`, `Spec => []ReceivedInOrder` | `StreamInv`: the frames on each wire are consecutive numbers that end at the cursor of their generator and begin no later than one past what the client has; `lastEventId` is what the client has |

Tools on the desktop (`NodeJobs_proofs`). `IInv` is `TypeOK`, `ResultKept` and `Sound`, which has
three parts: what a session sees or has read as final is final in the row (`SeenIn`), an acknowledgement under
way is about a final row (`AckedIn`), and a save under way changes only its own entry and
clears only the entry of a final row (`SaveIn`). A final row stays final (`Keeps`), since every writer that
may change it, on an older reading of it, writes another final status. It gives `TypeSafety`, `ResultSafety`
(`ResultKept`) and `FinalSafety` (`FinalStatus`).

`AtMostOnce` needs `OnceInv` beside it. `DownSound`: only the connection in use has messages under
way, and none of them offers an execution after acknowledging it. `ClearedLast`: a save that clears the
entry of an execution is about one that no message under way offers. `Once(j)`, until the node's
memory is lost (`Forgetful`: a crash, a failed save or an overwritten one): the effect was begun at most
once, not at all while the user may still decide, and once begun the node works on it or has
its entry, or its row is final and nothing under way offers it. It gives `OnceSafety`.

Node's connection (`NodeConnection_proofs`). The invariant `IInv` joins `Shape` (what each
state and each waiting call implies of sockets and timers), `Alone` (without an overlap at
most one call waits and no socket was replaced), `Rest` and `Retrying`. It gives
`TypeSafety`, `QuietSafety` (`IdleIsQuiet`), `OnlineSafety` (`OnlineIsConnected`),
`WaitSafety` (`NeverStuck`), `SocketSafety` (`OneConnection`) and `RemovalSafety`
(`RemovedIsForgotten`).

Automations (`Automation_proofs`). That a claim is of a due and active trigger (`ClaimIsDue`) and that one
scheduler claims at a time (`OneClaims`) follow from the row locks; `RowsHaveRuns` and `RuleHolds` (the next
time is a minute of the rule) join them. The heart is two lemmas on `CronSchedule` without
induction: the search takes the least local minute that fits, so what it finds is a minute of the
rule (`NextOccurrenceFound`) and every minute of the rule in between belongs to a repeated hour
(`NothingSkipped`). It gives `TypeSafety`, `ScheduleSafety` (`ScheduleCovered`) and
`PauseSafety` (`PauseHolds`).

`AnnouncedOnce` bounds pushes by the faults spent, so its invariant `AnnounceInv` is an account
(`BudgetSound`): the pushes of a wait, the sessions that will announce it though they have lost its
lock (`Late`) and the one push still due while its row is not marked (`Owed`) are together at most one more
than the faults. `RowsSound` says that a row is sent under its lock and not marked before, that a
waiting or marked row keeps its deadline, and that no session's pending change takes either back;
`WaitsAsk` that a waiting run has an approval with a time. It gives `AnnounceSafety`.

Chat streams (`ChatStreams_proofs`). `IInv` relates the five places a reply is in. `StageInv` says what
each phase of an attempt implies of transport, timers and the server's side; `TextInv` and `PosInv` that the buffer and the
text shown are what was received; `RowInv`, `HistoryInv` and `AnswerInv` how far the
server's row, the cache and a history read under way may be behind; `OneStream` and `PageInv` the
one stream of a conversation and the temporary page. It gives `TypeSafety`, `TextSafety` (`TextInOrder`),
`CompletedSafety` (`CompletedIsWhole`), `EndSafety` (`EndsOnce`), `SnapshotSafety` (`SnapshotIsLive`),
`TemporarySafety` (`TemporaryForgotten`) and `StopSafety` (`StopKeepsPartial`). `IInv` was also
checked by TLC before it was proved.

Code login (`QrLogin_proofs`). The invariant is `Types`, `Polls` (unless the page
rendered during a poll, one slot polls at a time, and a session was issued only by
the exchange the panel waits for or has had answered) and `Trusted` (an answer that
lets the scanner close comes from a handler that wrote or read an approval). It gives
`TypeSafety`, `SessionSafety` (`OneSession`) and `ScannerSafety` (`DoneMeansApproved`).
`Refusals` is proved on top of it: a code whose row is new or pending has no session (`Fresh`), and a
code not in `crossed` never has an approval and a refusal asked at once, nor a refusal about to be
written over anything but a pending or expired row, and whoever says that it was refused (the row, an
answer, the phone) says it of a code no write under way can approve (`Refused`). A code comes into
`told` only from such an answer (`Told`), so it is refused, and stays so. It gives
`RefusalSafety` (`DeniedStaysOut`).

Media (`MediaTasks_proofs`). The lemma `Steps` says once what each worker step may do
to row and sessions; everything else follows from it. `IInv` joins the types, `Sessions` (what
a session knows of the row it loaded), `Started` (who can still start a generation),
`Alone` (while nothing was interrupted or lapsed one worker at most is busy with the
task), `PaidOnce` and `PaidTwice` (payments bounded by the attempts the row counts).
It gives `TypeCorrect`, `GenerationsLimited` (`Generations`) and `FinalStatusStays`
(`FinalStays`). `ObjectsKept`, until a finished task is made to run again (`revived`): what a session
believes to be stored is there (`AllCopied`), so are the objects the row names (`RowNames`), and an object no row
names has a worker that will name or delete it (`Accounted`). It gives `ObjectsSafety`
(`Objects`). The proof needed the condition `~revived` on succeeded tasks too: without it
`Objects` fails with four workers and three lapses, more than the run has (section 5).

Every module that has a run has its type invariant proved, so the runs do not check it again.
So are all its safety invariants and action properties. Only model-checked: the liveness properties `RunProgress`,
`EndNotified`, `OutcomeArrives`, `OfferArrives`, `Reconnects`, `QuestionsEnd`, `OccurrencesRun`, `WaitsEnd`,
`HistoryAgrees`, `ApprovalReachesTarget`, `PhoneSettles` and `CardSettles` (liveness under fairness
and ENABLED are out of the prover's reach). What `next_cron_occurrence` computes is proved because it is stated by
a least element; facts that need an induction over data, or RECURSIVE operators, are out of reach too, and
no module has them.

## 5. Where the code falls short

Three runs check one statement of the documents or comments each and find it
violated:

1. `runtime_terminal`: a worker that loads a terminal row assigns `failed`
   (`coordinator.py:248`), although `state_machine.py:25` gives terminal statuses no successor.
2. `runtime_timeout`: the 0.45 s limit around `enqueue` can fire between SADD and
   RPUSH. The marker stays, and recovery skips a queued run that has a marker
   (`queue.py:141`), although `api/v1/agent.py:191` relies on recovery.
3. `events_late`: `generate()` reads events first and the status afterwards
   (`api/v1/agent.py:257`). `run_completed` can fall between the two and is never sent.

A stop signal and a lost lease are the same token as a user's cancel (`agent_worker.py:53`): the
run ends cancelled, for which `docs/phases/phase-5-agent-runtime.md:234` knows only the user and
the safety limits as reasons. `AgentRuntime` models this, and `RunProgress` counts such an end as an end.

The following are exceptions in the properties of the passing runs (the history
variable that confines them in parentheses) or lie outside them.

*Events.* The web adapter drops frames without `event:` (`web.ts:137`), among them
`[DONE]`, the only frame that ends the stream of a failed run. `EndNotified` is checked
for adapters that pass them on (`UnnamedDelivered`).

*Node, jobs.* Concurrent saves overwrite each other's spool, and the renewal of the token
writes back the spool it read before its request (`client.ts:754`): a result saved in between is lost
(`clobbered`). Nobody locks the row of an execution, so a cancel decided on an open row
(`tool_runtime_service.py:599`) turns a result committed in between into `cancelled`, a waiter turns it into
`failed`, and a message of the node overwrites `cancel_pending` (`StaleReader`). A job
accepted and completed while offline is refused by the server for ever
(`tool_runtime_service.py:2004`), for which `OutcomeArrives` starts from a running row. A
cancel of an execution the node does not know is repeated for ever. The settings page has one
slot, so a second offer hides the first. Revoking a node leaves its running executions running.

*Node, connection.* A stop, disconnect or removal while a token is being renewed is
undone when the renewal ends. A removal then leaves a client that reconnects for ever without an
identity (the exception in `Reconnects`). Registering beside an open socket leaves that socket open
(`overlap`). A start whose first connect fails leaves the client idle with no retry.

*Automations.* In an hour the clocks repeat, the search goes from the first pass of a local minute
to its second and skips the matching minutes between (`Repeated`). A rule whose next minute is more
than two years away raises CRON_NO_OCCURRENCE in every pass, which the scheduler does not catch:
the process dies before it notifies or expires anything (`automation_scheduler.py:54`, `Stranded`). `*/n`
counts as a wildcard, and two wildcards are joined by OR, so `0 0 */2 * *` matches every day. `send_to_user` commits when it removes a dead subscription, which ends the locks of
the pass: another scheduler announces the same wait again. Expiry cancels a run from an unlocked
read and may cancel one just approved, and its token and event come before its commit. A run that
left a final status is not looked at again (`rewritten`). Deleting an automation leaves its waiting run
without an expiry.

*Streams.* `stop()` during a token refresh does nothing. A history read taken while the
reply was empty puts the placeholder into the cache, and `persistPartial` then keeps
nothing (`emptied`, contrary to `useStream.ts:38`); so may a `cancelQueries` of the next question.
An edit truncates the cache and does not restore it when the attempt fails (`replaced`). A
failed turn drops the text shown without reading the part the server kept. On web and desktop
leaving a temporary chat does not stop its stream. The mobile event source does not report a
server that closes without `message_end`. A refresh begun for one account may store its token
after a login as another (`client.ts:139`).

*Code login.* Two polls of one code, which a render of the web page can cause, may both get
a session (`redone`), since the exchange does not lock its row. A refusal shown while an
approval given up is still on its way does not keep the target out (`crossed`). A phone that scans a code
already approved or consumed says "Login denied" and that the target device will not receive login
credentials (`QrLoginScanner.tsx:143`, `i18n/messages/en-US.ts:91`), while the panel gets
its session: nothing was refused, so the code is not in `told`. An exchange
that fails leaves the panel without a way on (`lost`). A late poll of an earlier code shows
its end over the new code.

*Media.* A cancel decided on an unlocked read may overwrite `succeeded` and keep the result (`late`).
The lease of 60 s is shorter than an image's timeout of 90 s, so a second worker may
call the provider again, and may make a finished task run again (`lapsed`, `revived`). Such a task may
end as succeeded without its object: the key of a result is the task's
(`media_generation_service.py:553`), a session that loaded the finished row does not store it again, and a
late cancel may have deleted it in between. A crash
between a video's creation and the commit of its id pays again without limit. An
interrupted worker leaves objects no cancel deletes (`orphaned`). A list read before the task was
there makes the page stop polling, and an answer about the messages from while the task ran, which may be
that of the read `useMediaGeneration.ts:100` starts, puts the card back to active when it comes after the
list had ended: the list is no longer polled, and the card stays so until the messages are read again
(the exceptions in `CardSettles`, the second confined by `overtaken`).

## 6. Not modelled, and plan

Model values and lengths stand for texts, files and arguments. Encryption, signatures, formats and
layout are not modelled, nor are the parts the inventory marks so. In the modelled parts: cloud tools
and MCP, the policy that chooses tools, a phone of another account (FORBIDDEN), quotas and
source files of media, notifications, the composer.

Next, in this order:

1. `AgentExecution`: one attempt in detail, with tool effects, approvals of runs and tools,
   the consumed marker, crashes between effect and commit. Abstract specification:
   each approved effect happens at most once.
2. `AuthRefresh`, the composer, the queue of memory extraction, webhooks: one small module each.
3. With `AgentExecution`, the refinement of its abstract specification as a theorem.
