-------------------------- MODULE AgentEventStream --------------------------
(***************************************************************************)
(* How a client follows a run: GET /agent/runs/{id}/stream                 *)
(* (api/v1/agent.py) over the event log, and openAgentEventStream          *)
(* (packages/core/src/api/agent.ts), which reconnects with its cursor and  *)
(* reports the end of the run once it read a terminal status.              *)
(***************************************************************************)
EXTENDS AgentEventLog, SequencesExt

CONSTANTS
    Conns,      \* connections that may be open at once
    NoConn,
    PageLimit,  \* limit of replay_after
    UnnamedDelivered    \* does the platform adapter pass on a frame without "event:"

ASSUME StreamAssumption ==
    /\ NoConn \notin Conns
    /\ PageLimit \in Nat \ {0}
    /\ UnnamedDelivered \in BOOLEAN

DONE == 0       \* the frame "data: [DONE]"; the others are sequences

VARIABLES
    conn,       \* generate() of each connection: where it is, the last sequence it
                \* yielded, and the frames on their way to the client
    received,   \* sequences given to onEvent, in order
    lastEventId, handle, timer, closed, notified,   \* openAgentEventStream
    asks        \* getAgentRun requests under way, by what caused them

clientVars == <<received, lastEventId, handle, timer, closed, notified, asks>>
vars == <<logVars, conn, clientVars>>

Free == [pc |-> "free", cursor |-> 0, wire |-> <<>>]

TypeOK ==
    /\ LogTypeOK
    /\ conn \in [Conns -> [pc : {"free", "replay", "status", "ended"}, cursor : Nat, wire : Seq(Nat)]]
    /\ received \in Seq(Nat)
    /\ lastEventId \in Nat
    /\ handle \in Conns \cup {NoConn}
    /\ timer \in BOOLEAN /\ closed \in BOOLEAN /\ notified \in BOOLEAN
    /\ asks \in [{"event", "done"} -> Nat]

\* The first connect() is a timer that is already due.
Init ==
    /\ LogInit
    /\ conn = [k \in Conns |-> Free]
    /\ received = <<>>
    /\ lastEventId = 0
    /\ handle = NoConn
    /\ timer = TRUE /\ closed = FALSE /\ notified = FALSE
    /\ asks = [q \in {"event", "done"} |-> 0]

-----------------------------------------------------------------------------
(* Server: one pass of the generator's loop is a replay and a status read.  *)

\* ORDER BY sequence
InOrder(S) ==
    CHOOSE q \in [1..Cardinality(S) -> S] : \A i, j \in DOMAIN q : i < j => q[i] < q[j]

\* The page after the cursor; yielding stops at the first final event.
Page(k) ==
    LET new == {s \in DOMAIN rows : s > conn[k].cursor}
        page == {s \in new : Cardinality({q \in new : q < s}) < PageLimit}
    IN  InOrder({s \in page : \A q \in page : q < s => rows[q] \notin Final})

Replay(k) ==
    /\ conn[k].pc = "replay"
    /\ LET page == Page(k)
           last == page # <<>> /\ rows[Last(page)] \in Final
       IN  conn' = [conn EXCEPT ![k] =
              [pc |-> IF last THEN "ended" ELSE "status",
               cursor |-> IF page = <<>> THEN @.cursor ELSE Last(page),
               wire |-> @.wire \o page \o IF last THEN <<DONE>> ELSE <<>>]]
    /\ UNCHANGED <<logVars, clientVars>>

\* The status is read after the events.
ReadStatus(k) ==
    /\ conn[k].pc = "status"
    /\ conn' = IF status \in Terminal
               THEN [conn EXCEPT ![k].pc = "ended", ![k].wire = Append(@, DONE)]
               ELSE [conn EXCEPT ![k].pc = "replay"]
    /\ UNCHANGED <<logVars, clientVars>>

-----------------------------------------------------------------------------
(* Client. *)

Open(k, after) ==
    /\ timer /\ ~closed /\ ~notified /\ conn[k] = Free
    /\ timer' = FALSE /\ handle' = k
    /\ conn' = [conn EXCEPT ![k] = [pc |-> "replay", cursor |-> after, wire |-> <<>>]]
    /\ UNCHANGED <<logVars, received, lastEventId, closed, notified, asks>>

\* Mutant: a new connection starts where the log ends.
ConnectAtEnd(k) == Open(k, LastSequence)

\* connect(): Last-Event-ID is the cursor of the new generate().
Connect(k) == Open(k, lastEventId)

Ask(why) == asks' = [asks EXCEPT ![why] = @ + 1]

Arrived(k) == conn[k].wire # <<>>

\* onMessage for an event: deduplicated by sequence, not by connection.
ReceiveEvent(k) ==
    /\ Arrived(k) /\ Head(conn[k].wire) # DONE
    /\ conn' = [conn EXCEPT ![k].wire = Tail(@)]
    /\ LET s == Head(conn[k].wire)
       IN  IF \E i \in 1..Len(received) : received[i] = s
           THEN UNCHANGED <<received, lastEventId, asks>>
           ELSE /\ received' = Append(received, s)
                /\ lastEventId' = IF s > lastEventId THEN s ELSE lastEventId
                /\ IF rows[s] \in Final THEN Ask("event") ELSE UNCHANGED asks
    /\ UNCHANGED <<logVars, handle, timer, closed, notified>>

\* onMessage for [DONE], if the adapter delivers it.
ReceiveDone(k) ==
    /\ Arrived(k) /\ Head(conn[k].wire) = DONE
    /\ conn' = [conn EXCEPT ![k].wire = Tail(@)]
    /\ IF UnnamedDelivered THEN Ask("done") ELSE UNCHANGED asks
    /\ UNCHANGED <<logVars, received, lastEventId, handle, timer, closed, notified>>

\* The server ended the response; the client has no onClose.
EndOfStream(k) ==
    /\ conn[k].pc = "ended" /\ ~Arrived(k)
    /\ conn' = [conn EXCEPT ![k] = Free]
    /\ UNCHANGED <<logVars, clientVars>>

ScheduleReconnect == timer' = (timer \/ (~closed /\ ~notified))

\* Transport error: frames under way are lost, onError runs.
Disconnect(k) ==
    /\ conn[k] # Free
    /\ Fault
    /\ conn' = [conn EXCEPT ![k] = Free]
    /\ ScheduleReconnect
    /\ UNCHANGED <<rows, status, attempt, append, events, received, lastEventId, handle, closed,
                   notified, asks>>

Answered(why) == asks[why] > 0 /\ asks' = [asks EXCEPT ![why] = @ - 1]

\* Mutant: after [DONE] the client does not come back for a run still active.
RunReadOnce(why) ==
    /\ Answered(why)
    /\ notified' = (notified \/ status \in Terminal)
    /\ UNCHANGED <<logVars, conn, received, lastEventId, handle, timer, closed>>

\* getAgentRun answered: a terminal status is reported; after [DONE] another
\* status means "reconnect", after an event it means nothing.
RunRead(why) ==
    /\ Answered(why)
    /\ notified' = (notified \/ status \in Terminal)
    /\ IF why = "done" /\ status \notin Terminal THEN ScheduleReconnect ELSE UNCHANGED timer
    /\ UNCHANGED <<logVars, conn, received, lastEventId, handle, closed>>

RunReadFails(why) ==
    /\ Answered(why)
    /\ Fault
    /\ IF why = "done" THEN ScheduleReconnect ELSE UNCHANGED timer
    /\ UNCHANGED <<rows, status, attempt, append, events, conn, received, lastEventId,
                   handle, closed, notified>>

\* close() aborts the latest connection and the timer.
Close ==
    /\ ~closed
    /\ closed' = TRUE /\ timer' = FALSE
    /\ conn' = [k \in Conns |-> IF k = handle THEN Free ELSE conn[k]]
    /\ UNCHANGED <<logVars, received, lastEventId, handle, notified, asks>>

-----------------------------------------------------------------------------

StreamStep(k) ==
    \/ Replay(k) \/ ReadStatus(k) \/ Connect(k)
    \/ ReceiveEvent(k) \/ ReceiveDone(k) \/ EndOfStream(k)

Next ==
    \/ LogNext /\ UNCHANGED <<conn, clientVars>>
    \/ \E k \in Conns : StreamStep(k) \/ Disconnect(k)
    \/ \E why \in {"event", "done"} : RunRead(why) \/ RunReadFails(why)
    \/ Close

Spec == Init /\ [][Next]_vars

\* The API server, the network and the client's event loop go on; the timer
\* fires.  Nothing is assumed of workers, handlers or the user.
Fairness ==
    /\ \A k \in Conns :
        /\ WF_vars(Replay(k) \/ ReadStatus(k))
        /\ WF_vars(ReceiveEvent(k) \/ ReceiveDone(k))
        /\ WF_vars(EndOfStream(k))
    /\ WF_vars(\E k \in Conns : Connect(k))
    /\ \A why \in {"event", "done"} : WF_vars(RunRead(why))

FairSpec == Spec /\ Fairness

-----------------------------------------------------------------------------
(* Properties. *)

ImplementsLog == Log!Spec

\* The client gets events 1, 2, 3, ... once each and in order, whatever mix of
\* connections, retries of append and lost frames brings them.
ReceivedInOrder ==
    /\ \A i \in 1..Len(received) : received[i] = i
    /\ Len(received) <= Cardinality(DOMAIN rows)

\* The end of a run reaches a client that stays: phase-5-agent-runtime.md:352,
\* a stream of a failed or cancelled run ends with [DONE], after which the
\* client reads the run and confirms its terminal state.
EndNotified == (status \in Terminal) ~> (notified \/ closed)

\* phase-5-agent-runtime.md:475, no event is lost: once a run succeeded, its
\* client was told so and every stream ended, the client has all its events.
AllQuiet ==
    /\ \A k \in Conns : conn[k] = Free
    /\ \A p \in Producers : Idle(p)
    /\ \A w \in Workers : attempt[w] = "off"
EndSeesAll ==
    notified /\ ~closed /\ status = "succeeded" /\ AllQuiet
        => Len(received) = Cardinality(DOMAIN rows)
=============================================================================
