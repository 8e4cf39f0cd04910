--------------------------- MODULE AgentEventLog ----------------------------
(***************************************************************************)
(* The events of one agent run: EventStore.append                          *)
(* (services/agent/event_service.py) called by the attempts that execute   *)
(* the run and by the API handlers that cancel or decide it, and the       *)
(* committed status these leave behind.                                    *)
(*                                                                         *)
(* An append is a transaction of its own: SELECT max, INSERT, COMMIT.  It  *)
(* does not lock the run; the constraint on (run_id, sequence) decides     *)
(* between two appends that chose the same sequence.                       *)
(***************************************************************************)
EXTENDS Naturals, Sequences, FiniteSets

CONSTANTS
    Workers,    \* executions of the run that may be under way at once
    Handlers,   \* API handlers: cancel, approval decision
    Retries,    \* _SEQUENCE_CONFLICT_RETRIES
    MaxEvents,  \* appends in a behaviour
    MaxFaults   \* deaths of processes and connections in a behaviour

ASSUME EventLogAssumption ==
    /\ Workers \cap Handlers = {}
    /\ Retries \in Nat \ {0}
    /\ MaxEvents \in Nat /\ MaxFaults \in Nat

Producers == Workers \cup Handlers
Terminal == {"succeeded", "failed", "cancelled"}
EventType == {"progress", "run_completed", "run_cancelled"}
Final == {"run_completed", "run_cancelled"}

VARIABLES
    rows,       \* committed agent_events of the run: sequence |-> event_type
    status,     \* committed agent_runs.status; "active" for every other one
    attempt,    \* worker: no execution, one under way, one that emitted run_completed
    append,     \* producer: its call of append
    events, faults  \* what is left of the bounds

logVars == <<rows, status, attempt, append, events, faults>>

NoAppend == [pc |-> "idle", slot |-> 0, type |-> "progress", tries |-> 0]

LogTypeOK ==
    /\ DOMAIN rows \subseteq Nat \ {0}
    /\ \A s \in DOMAIN rows : rows[s] \in EventType
    /\ status \in {"active"} \cup Terminal
    /\ attempt \in [Workers -> {"off", "on", "final"}]
    /\ append \in [Producers -> [pc : {"idle", "max", "insert", "commit"}, slot : Nat,
                                 type : EventType, tries : 0..Retries]]
    /\ events \in 0..MaxEvents
    /\ faults \in 0..MaxFaults

LogInit ==
    /\ rows = <<>>
    /\ status = "active"
    /\ attempt = [w \in Workers |-> "off"]
    /\ append = [p \in Producers |-> NoAppend]
    /\ events = MaxEvents
    /\ faults = MaxFaults

Fault == faults > 0 /\ faults' = faults - 1

-----------------------------------------------------------------------------
(* append: _persist_database *)

Idle(p) == append[p].pc = "idle"

BeginAppend(p, t) ==
    /\ Idle(p) /\ events > 0
    /\ events' = events - 1
    /\ append' = [append EXCEPT ![p] = [pc |-> "max", slot |-> 0, type |-> t, tries |-> Retries]]

\* The largest committed sequence, 0 when there is none.
LastSequence ==
    IF rows = <<>> THEN 0 ELSE CHOOSE s \in DOMAIN rows : \A q \in DOMAIN rows : q <= s

\* Mutant: a number no append under way has taken (a SQL sequence).
TakeNumber(p) ==
    /\ append[p].pc = "max"
    /\ append' = [append EXCEPT ![p].pc = "insert", ![p].slot =
          CHOOSE n \in 1..MaxEvents + 1 :
             n > LastSequence /\ \A q \in Producers : append[q].slot < n]
    /\ UNCHANGED <<rows, status, attempt, events, faults>>

SelectMax(p) ==
    /\ append[p].pc = "max"
    /\ append' = [append EXCEPT ![p].pc = "insert", ![p].slot = LastSequence + 1]
    /\ UNCHANGED <<rows, status, attempt, events, faults>>

\* The INSERT waits for an open transaction that holds the same sequence.
CanInsert(p) ==
    /\ append[p].pc = "insert"
    /\ \A q \in Producers : append[q].pc = "commit" => append[q].slot # append[p].slot

Insert(p) ==
    /\ CanInsert(p) /\ append[p].slot \notin DOMAIN rows
    /\ append' = [append EXCEPT ![p].pc = "commit"]
    /\ UNCHANGED <<rows, status, attempt, events, faults>>

\* IntegrityError: the sequence is committed.  The transaction is tried again.
Conflict(p) ==
    /\ CanInsert(p) /\ append[p].slot \in DOMAIN rows /\ append[p].tries > 1
    /\ append' = [append EXCEPT ![p].pc = "max", ![p].slot = 0, ![p].tries = @ - 1]
    /\ UNCHANGED <<rows, status, attempt, events, faults>>

\* After the last try EventStoreError goes up to the handler, or through the
\* coordinator to run_once, and the event is never written.
GiveUp(p) ==
    /\ CanInsert(p) /\ append[p].slot \in DOMAIN rows /\ append[p].tries = 1
    /\ append' = [append EXCEPT ![p] = NoAppend]
    /\ attempt' = [w \in Workers |-> IF w = p THEN "off" ELSE attempt[w]]
    /\ UNCHANGED <<rows, status, events, faults>>

CommitEvent(p) ==
    /\ append[p].pc = "commit"
    /\ LET s == append[p].slot
       IN  rows' = [q \in DOMAIN rows \cup {s} |-> IF q = s THEN append[p].type ELSE rows[q]]
    /\ append' = [append EXCEPT ![p] = NoAppend]
    /\ UNCHANGED <<status, attempt, events, faults>>

-----------------------------------------------------------------------------
(* Who appends, and when the status is committed.  AgentRuntime says which   *)
(* attempts and handlers can overlap; here they all may.                     *)

\* A delivery of the run reaches a worker.
BeginAttempt(w) ==
    /\ attempt[w] = "off" /\ Idle(w) /\ status = "active"
    /\ attempt' = [attempt EXCEPT ![w] = "on"]
    /\ UNCHANGED <<rows, status, append, events, faults>>

\* run_started, step_started, tool_completed, approval_required
EmitProgress(w) ==
    /\ attempt[w] = "on"
    /\ BeginAppend(w, "progress")
    /\ UNCHANGED <<rows, status, attempt, faults>>

\* run_completed is appended before the status is assigned and committed ...
EmitCompleted(w) ==
    /\ attempt[w] = "on"
    /\ BeginAppend(w, "run_completed")
    /\ attempt' = [attempt EXCEPT ![w] = "final"]
    /\ UNCHANGED <<rows, status, faults>>

\* ... and every other outcome is committed without an event: a failure, a
\* cancellation seen by the coordinator, a wait for the user.
EndAttempt(w) ==
    /\ attempt[w] # "off" /\ Idle(w)
    /\ \/ attempt[w] = "final" /\ status' = "succeeded"
       \/ attempt[w] = "on" /\ (status' \in {"failed", "cancelled"} \/ status' = status)
    /\ attempt' = [attempt EXCEPT ![w] = "off"]
    /\ UNCHANGED <<rows, append, events, faults>>

\* The worker dies or its handler raises: an open append is rolled back.
AttemptDies(w) ==
    /\ attempt[w] # "off"
    /\ Fault
    /\ attempt' = [attempt EXCEPT ![w] = "off"]
    /\ append' = [append EXCEPT ![w] = NoAppend]
    /\ UNCHANGED <<rows, status, events>>

\* cancel_run, and a denied approval: the status is committed first, then the
\* event appended.
CancelRun(h) ==
    /\ status = "active"
    /\ BeginAppend(h, "run_cancelled")
    /\ status' = "cancelled"
    /\ UNCHANGED <<rows, attempt, faults>>

\* approval_resolved, after the run was queued again
EmitResolved(h) ==
    /\ status = "active"
    /\ BeginAppend(h, "progress")
    /\ UNCHANGED <<rows, status, attempt, faults>>

HandlerDies(h) ==
    /\ ~Idle(h)
    /\ Fault
    /\ append' = [append EXCEPT ![h] = NoAppend]
    /\ UNCHANGED <<rows, status, attempt, events>>

AppendStep(p) == SelectMax(p) \/ Insert(p) \/ Conflict(p) \/ GiveUp(p) \/ CommitEvent(p)

LogNext ==
    \/ \E p \in Producers : AppendStep(p)
    \/ \E w \in Workers : BeginAttempt(w) \/ EmitProgress(w) \/ EmitCompleted(w)
                          \/ EndAttempt(w) \/ AttemptDies(w)
    \/ \E h \in Handlers : CancelRun(h) \/ EmitResolved(h) \/ HandlerDies(h)

-----------------------------------------------------------------------------

\* Readers see a log that only grows, at its end and by one event at a time: no
\* sequence is skipped, reused, or committed below one already visible.
Log == INSTANCE AppendOnlyLog WITH log <- rows, Events <- EventType
=============================================================================
