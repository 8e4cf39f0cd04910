----------------------------- MODULE ChatStreams -----------------------------
(***************************************************************************)
(* A conversation on screen: the stream registry and the chat store of     *)
(* packages/core, the cached history beside them, the transports of the    *)
(* three apps, their pages, and the server that writes the reply.          *)
(*                                                                         *)
(* A turn is one question and its reply of N deltas.  A chat turn belongs  *)
(* to a stored conversation, a temporary one to the page's own list.  The  *)
(* text of a reply is the sequence of its deltas, each <<turn, number>>;   *)
(* a stored or cached reply is its length, Absent without a message.       *)
(*                                                                         *)
(* A handler runs to its end, with the microtasks it queues.  fetch closes *)
(* late, the event source of the mobile app at once.                       *)
(*                                                                         *)
(* Bounds: MaxTurns questions, N deltas, and MaxExtras for what may happen *)
(* besides: a failure, an expired token, a history read that no reply asked*)
(* for.                                                                    *)
(***************************************************************************)
EXTENDS Integers, Sequences

CONSTANTS MaxTurns, N, MaxExtras

ASSUME BoundsAssumption ==
    /\ MaxTurns \in Nat /\ N \in Nat \ {0}
    /\ MaxExtras \in Nat

VARIABLES
    app,        \* browser (web page, desktop window) or mobile
    kind,       \* chat or temporary, of each turn
    phase,      \* unused, asked (an attempt is under way), refreshing, done
    attempt, conn, pos,     \* attempts made, transport, frames delivered
    failed,     \* an error frame was seen
    buffer,     \* deltas that wait for the flush timer
    result, ends, errors,   \* outcome, calls of onEnd and onError
    streaming, shown,       \* chat store: a snapshot exists, its text
    cached,     \* cached history, by chat turn
    fetch, answer,          \* a history request, what it read
    server, written, row,   \* the server's side of a turn, deltas sent, stored reply
    token,      \* access token: valid, expired, none
    listed, recent,         \* temporary page: turns in its list, turns asked since it was cleared
    replaced,   \* history: the chat turns each edit cut off
    emptied,    \* history: turns whose empty message was read before their reply
    extras      \* failures, expired tokens and history reads so far, bounded

turns == <<kind, phase, attempt, conn, pos, failed, buffer, result, ends, errors>>
store == <<streaming, shown>>
history == <<cached, fetch, answer, replaced, emptied>>
backend == <<server, written, row>>
page == <<listed, recent>>
vars == <<app, turns, store, history, backend, token, page, extras>>

Turn == 1..MaxTurns
Kind == {"chat", "temporary"}
Absent == -1
Stored == Absent..N
Replies == [Turn -> Stored]

TypeOK ==
    /\ app \in {"browser", "mobile"}
    /\ kind \in [Turn -> Kind \cup {"none"}]
    /\ phase \in [Turn -> {"unused", "asked", "refreshing", "done"}]
    /\ attempt \in [Turn -> 0..2]
    /\ conn \in [Turn -> {"none", "opening", "open", "closing", "closed"}]
    /\ pos \in [Turn -> 0..N + 1]
    /\ failed \in [Turn -> BOOLEAN]
    /\ buffer \in [Turn -> Seq(1..N)]
    /\ result \in [Turn -> {"none", "completed", "failed", "stopped", "refused"}]
    /\ ends \in [Turn -> Nat] /\ errors \in [Turn -> Nat]
    /\ streaming \in [Kind -> BOOLEAN]
    /\ shown \in [Kind -> Seq(Turn \X (1..N))]
    /\ cached \in Replies /\ answer \in Replies /\ row \in Replies
    /\ fetch \in {"none", "asked", "read"}
    /\ server \in [Turn -> {"none", "asked", "refused", "working", "finished", "failed", "gone"}]
    /\ written \in [Turn -> 0..N]
    /\ token \in {"valid", "expired", "none"}
    /\ listed \in SUBSET Turn /\ recent \in SUBSET Turn
    /\ replaced \in [Turn -> SUBSET Turn] /\ emptied \in SUBSET Turn
    /\ extras \in 0..MaxExtras

All(x) == [t \in Turn |-> x]

Init ==
    /\ app \in {"browser", "mobile"}
    /\ kind = All("none") /\ phase = All("unused") /\ attempt = All(0)
    /\ conn = All("none") /\ pos = All(0) /\ failed = All(FALSE) /\ buffer = All(<<>>)
    /\ result = All("none") /\ ends = All(0) /\ errors = All(0)
    /\ streaming = [k \in Kind |-> FALSE] /\ shown = [k \in Kind |-> <<>>]
    /\ cached = All(Absent)
    /\ fetch = "none" /\ answer = All(Absent)
    /\ server = All("none") /\ written = All(0) /\ row = All(Absent)
    /\ token = "valid"
    /\ listed = {} /\ recent = {} /\ replaced = All({}) /\ emptied = {}
    /\ extras = 0

Extra == extras < MaxExtras /\ extras' = extras + 1

-----------------------------------------------------------------------------
(* Parts of the registry. *)

\* Mutant: callbacks of a settled attempt are not ignored.
EveryAttempt(t) == phase[t] # "unused"

\* isCurrentAttempt(): callbacks of a settled attempt are ignored.
Current(t) == phase[t] = "asked"

\* An entry of the registry's map.
Active(k) == {t \in Turn : kind[t] = k /\ phase[t] \in {"asked", "refreshing"}}

\* The snapshot of k after t's buffer was appended: by conversation, not by turn.
Flushed(t) ==
    LET k == kind[t]
    IN  IF streaming[k]
        THEN shown[k] \o [i \in DOMAIN buffer[t] |-> <<t, buffer[t][i]>>]
        ELSE shown[k]

\* Mutant: the snapshot goes, the buffer and its timer stay.
FinishUnflushed(t) ==
    /\ streaming' = [streaming EXCEPT ![kind[t]] = FALSE]
    /\ shown' = [shown EXCEPT ![kind[t]] = <<>>]
    /\ UNCHANGED buffer

\* finishEntry: buffer and timer are dropped, and the snapshot.
FinishEntry(t) ==
    /\ streaming' = [streaming EXCEPT ![kind[t]] = FALSE]
    /\ shown' = [shown EXCEPT ![kind[t]] = <<>>]
    /\ buffer' = [buffer EXCEPT ![t] = <<>>]

\* Mutant: the text goes before it is copied.
PersistNothing(t) == UNCHANGED cached

\* persistPartial: a message the cache lacks is added with the text shown.
PersistPartial(t) ==
    cached' = IF pos[t] > 0 /\ Flushed(t) # <<>> /\ cached[t] = Absent
              THEN [cached EXCEPT ![t] = Len(Flushed(t))]
              ELSE cached

\* The entry leaves the map and onEnd is called, after onError if there is an error.
Settle(t, outcome) ==
    /\ phase' = [phase EXCEPT ![t] = "done"]
    /\ result' = [result EXCEPT ![t] = outcome]
    /\ ends' = [ends EXCEPT ![t] = @ + 1]
    /\ errors' = IF outcome = "failed" THEN [errors EXCEPT ![t] = @ + 1] ELSE errors
    /\ UNCHANGED <<kind, attempt, pos, failed>>

\* The page of a temporary turn puts the reply into its list.
Listed(t) == IF kind[t] = "temporary" THEN listed \cup {t} ELSE listed

\* close(): fetch reports the abort later.
Close(t) ==
    conn' = [conn EXCEPT ![t] = IF app = "mobile" THEN "closed" ELSE "closing"]

\* An attempt fails: nothing is kept but what the server has stored.
FailTurn(t) ==
    /\ FinishEntry(t) /\ Settle(t, "failed")
    /\ listed' = Listed(t)
    /\ UNCHANGED <<history, recent>>

\* The first attempt of t, or the one after a refresh, with the token it carries.
Attempt(t, bearer) ==
    /\ attempt' = [attempt EXCEPT ![t] = @ + 1]
    /\ conn' = [conn EXCEPT ![t] = "opening"]
    /\ server' = [server EXCEPT ![t] = IF bearer = "valid" THEN "asked" ELSE "refused"]
    /\ phase' = [phase EXCEPT ![t] = "asked"]
    /\ pos' = [pos EXCEPT ![t] = 0]

-----------------------------------------------------------------------------
(* The user. *)

NextTurn == {t \in Turn : phase[t] = "unused" /\ \A u \in 1..t - 1 : phase[u] # "unused"}

\* An edit of chat turn e cuts the history after its question.
CutOff(t, e) == {u \in e..t - 1 : kind[u] = "chat"}

\* No history request is under way.
NoFetch == fetch' = "none" /\ answer' = All(Absent)

\* send(), with replaceMessageId if e is a turn: history requests are cancelled.
Send(t, e) ==
    /\ kind' = [kind EXCEPT ![t] = "chat"]
    /\ cached' = [u \in Turn |-> IF u \in CutOff(t, e) THEN Absent ELSE cached[u]]
    /\ replaced' = [replaced EXCEPT ![t] = CutOff(t, e)]
    /\ NoFetch
    /\ UNCHANGED <<emptied, page>>

\* sendTemporary(): two of the pages list the question at once.
SendTemporary(t) ==
    /\ kind' = [kind EXCEPT ![t] = "temporary"]
    /\ recent' = recent \cup {t}
    /\ listed' = IF app = "mobile" THEN listed ELSE listed \cup {t}
    /\ UNCHANGED history

\* startStreaming: an empty snapshot.
StartStreaming(k) ==
    /\ streaming' = [streaming EXCEPT ![k] = TRUE]
    /\ shown' = [shown EXCEPT ![k] = <<>>]

Ask(t, k) ==
    /\ t \in NextTurn /\ token # "none" /\ Active(k) = {}
    /\ StartStreaming(k)
    /\ IF k = "temporary"
       THEN SendTemporary(t)
       ELSE \E e \in {u \in Turn : kind[u] = "chat" /\ cached[u] # Absent} \cup {t} : Send(t, e)
    /\ Attempt(t, token)
    /\ UNCHANGED <<app, failed, buffer, result, ends, errors, written, row, token, extras>>

\* The registry refuses a question while the last is answered: onError, but no onEnd.
AskBusy(t, k) ==
    /\ t \in NextTurn /\ token # "none" /\ Active(k) # {}
    /\ IF k = "temporary"
       THEN SendTemporary(t)
       ELSE kind' = [kind EXCEPT ![t] = "chat"] /\ UNCHANGED <<history, page>>
    /\ phase' = [phase EXCEPT ![t] = "done"]
    /\ result' = [result EXCEPT ![t] = "refused"]
    /\ errors' = [errors EXCEPT ![t] = @ + 1]
    /\ UNCHANGED <<app, attempt, conn, pos, failed, buffer, ends, store, backend, token,
                   extras>>

\* stop() of the attempt under way; while the token is refreshed it does nothing.
Stop(t) ==
    /\ Current(t)
    /\ FinishEntry(t) /\ Settle(t, "stopped") /\ Close(t)
    /\ IF kind[t] = "chat"
       THEN PersistPartial(t)
       ELSE UNCHANGED cached
    /\ listed' = Listed(t)
    /\ UNCHANGED <<app, fetch, answer, replaced, emptied, backend, token, recent, extras>>

\* Mutant: the list is cleared first.
LeaveThenStop ==
    /\ app = "mobile" /\ Active("temporary") # {}
    /\ \E t \in Active("temporary") :
          /\ FinishEntry(t) /\ Settle(t, "stopped") /\ Close(t)
          /\ listed' = {t}
    /\ recent' = {}
    /\ UNCHANGED <<app, history, backend, token, extras>>

\* The mobile page stops its stream when it is left, then forgets its list.
LeaveStopping ==
    /\ app = "mobile" /\ Active("temporary") # {}
    /\ \E t \in Active("temporary") : FinishEntry(t) /\ Settle(t, "stopped") /\ Close(t)
    /\ listed' = {} /\ recent' = {}
    /\ UNCHANGED <<app, history, backend, token, extras>>

\* The other two, and the mobile page without a stream, only forget the list.
LeaveTemporary ==
    /\ app = "mobile" => Active("temporary") = {}
    /\ recent # {}
    /\ listed' = {} /\ recent' = {}
    /\ UNCHANGED <<app, turns, store, history, backend, token, extras>>

-----------------------------------------------------------------------------
(* The server. *)

Persisted(t) == IF row[t] = 0 THEN [row EXCEPT ![t] = written[t]] ELSE row

\* The messages are stored, the reply empty; an edit deletes what follows.
Accept(t) ==
    /\ server[t] = "asked"
    /\ server' = [server EXCEPT ![t] = "working"]
    /\ written' = [written EXCEPT ![t] = 0]
    /\ row' = IF kind[t] = "temporary" THEN row
              ELSE [u \in Turn |-> IF u = t THEN 0
                                   ELSE IF u \in replaced[t] THEN Absent ELSE row[u]]
    /\ conn' = IF conn[t] = "opening" THEN [conn EXCEPT ![t] = "open"] ELSE conn
    /\ UNCHANGED <<app, kind, phase, attempt, pos, failed, buffer, result, ends, errors,
                   store, history, token, page, extras>>

Write(t) ==
    /\ server[t] = "working" /\ written[t] < N
    /\ written' = [written EXCEPT ![t] = @ + 1]
    /\ UNCHANGED <<app, turns, store, history, server, row, token, page, extras>>

FinishReply(t) ==
    /\ server[t] = "working" /\ written[t] = N
    /\ row' = Persisted(t)
    /\ server' = [server EXCEPT ![t] = "finished"]
    /\ UNCHANGED <<app, turns, store, history, written, token, page, extras>>

FailReply(t) ==
    /\ server[t] = "working"
    /\ row' = Persisted(t)
    /\ server' = [server EXCEPT ![t] = "failed"]
    /\ Extra
    /\ UNCHANGED <<app, turns, store, history, written, token, page>>

\* The client is gone: the partial reply is stored.
Abandon(t) ==
    /\ server[t] = "working" /\ conn[t] \notin {"opening", "open"}
    /\ row' = Persisted(t)
    /\ server' = [server EXCEPT ![t] = "gone"]
    /\ UNCHANGED <<app, turns, store, history, written, token, page, extras>>

-----------------------------------------------------------------------------
(* The transport. *)

\* message_start or a delta; queueDelta keeps the delta for the timer.
Receive(t) ==
    /\ conn[t] \in {"open", "closing"} /\ server[t] \notin {"none", "asked", "refused"}
    /\ pos[t] <= written[t]
    /\ pos' = [pos EXCEPT ![t] = @ + 1]
    /\ buffer' = IF Current(t) /\ pos[t] > 0
                 THEN [buffer EXCEPT ![t] = Append(@, pos[t])] ELSE buffer
    /\ UNCHANGED <<app, kind, phase, attempt, conn, failed, result, ends, errors,
                   store, history, backend, token, page, extras>>

\* The timer fires.
Flush(t) ==
    /\ buffer[t] # <<>>
    /\ shown' = [shown EXCEPT ![kind[t]] = Flushed(t)]
    /\ buffer' = [buffer EXCEPT ![t] = <<>>]
    /\ UNCHANGED <<app, kind, phase, attempt, conn, pos, failed, result, ends, errors,
                   streaming, history, backend, token, page, extras>>

\* An error frame closes the transport; the event source reports that at once.
ErrorFrame(t) ==
    /\ conn[t] = "open" /\ server[t] = "failed" /\ pos[t] = written[t] + 1
    /\ Close(t)
    /\ IF app = "mobile"
       THEN FailTurn(t)
       ELSE /\ failed' = [failed EXCEPT ![t] = TRUE]
            /\ UNCHANGED <<kind, phase, attempt, pos, buffer, result, ends, errors, store,
                           history, page>>
    /\ UNCHANGED <<app, backend, token, extras>>

\* Mutant: an abort is not an end.
AbortQuiet(t) ==
    /\ conn[t] = "closing"
    /\ conn' = [conn EXCEPT ![t] = "closed"]
    /\ UNCHANGED <<app, kind, phase, attempt, pos, failed, buffer, result, ends, errors,
                   store, history, backend, token, page, extras>>

\* fetch reports the abort.
AbortSeen(t) ==
    /\ conn[t] = "closing"
    /\ conn' = [conn EXCEPT ![t] = "closed"]
    /\ IF Current(t)
       THEN FailTurn(t)
       ELSE UNCHANGED <<kind, phase, attempt, pos, failed, buffer, result, ends, errors,
                        store, history, page>>
    /\ UNCHANGED <<app, backend, token, extras>>

\* Mutant: a request under way is not replaced.
RefetchBeside ==
    fetch' = (IF fetch = "none" THEN "asked" ELSE fetch) /\ UNCHANGED answer

\* refetchQueries: a request under way is cancelled for a new one.
RefetchAfter == fetch' = "asked" /\ answer' = All(Absent)

\* The reply ends: it is copied into the history, which is read again.
EndFrame(t) ==
    /\ conn[t] = "open" /\ server[t] = "finished" /\ pos[t] = N + 1
    /\ conn' = [conn EXCEPT ![t] = "closed"]
    /\ FinishEntry(t) /\ Settle(t, "completed")
    /\ IF kind[t] = "chat"
       THEN PersistPartial(t) /\ RefetchAfter
       ELSE UNCHANGED <<cached, fetch, answer>>
    /\ listed' = Listed(t)
    /\ UNCHANGED <<app, replaced, emptied, backend, token, recent, extras>>

\* The network breaks.
Break(t) ==
    /\ conn[t] \in {"opening", "open"}
    /\ conn' = [conn EXCEPT ![t] = "closed"]
    /\ FailTurn(t)
    /\ Extra
    /\ UNCHANGED <<app, backend, token>>

\* HTTP 401: a chat turn refreshes the token once, a temporary one fails.
Unauthorized(t) ==
    /\ server[t] = "refused" \/ (server[t] = "asked" /\ token # "valid")
    /\ Current(t)
    /\ server' = [server EXCEPT ![t] = "none"]
    /\ conn' = [conn EXCEPT ![t] = "closed"]
    /\ IF kind[t] = "chat" /\ attempt[t] = 1 /\ token # "none"
       THEN /\ phase' = [phase EXCEPT ![t] = "refreshing"]
            /\ UNCHANGED <<kind, attempt, pos, failed, buffer, result, ends, errors, store,
                           history, page, token>>
       ELSE /\ FailTurn(t)
            /\ token' = IF kind[t] = "chat" THEN "none" ELSE token
    /\ UNCHANGED <<app, written, row, extras>>

\* A new token was brought: by this refresh or by another request.
Refreshed(t) ==
    /\ phase[t] = "refreshing" /\ token # "none"
    /\ token' = "valid"
    /\ Attempt(t, "valid")
    /\ UNCHANGED <<app, kind, failed, buffer, result, ends, errors, store, history, written,
                   row, page, extras>>

\* Mutant: the snapshot stays.
RefreshFailsOpen(t) ==
    /\ phase[t] = "refreshing"
    /\ token' = "none"
    /\ Settle(t, "failed")
    /\ UNCHANGED <<app, conn, buffer, store, history, backend, page, extras>>

RefreshFails(t) ==
    /\ phase[t] = "refreshing"
    /\ token' = "none"
    /\ FailTurn(t)
    /\ UNCHANGED <<app, conn, backend, extras>>

TokenExpires ==
    /\ token = "valid"
    /\ token' = "expired"
    /\ Extra
    /\ UNCHANGED <<app, turns, store, history, backend, page>>

-----------------------------------------------------------------------------
(* The history query (external): one request at a time; its answer replaces *)
(* the cache.                                                               *)

\* A page mounts it, or the window gets the focus.
Fetch ==
    /\ fetch = "none"
    /\ fetch' = "asked"
    /\ Extra
    /\ UNCHANGED <<app, turns, store, cached, answer, replaced, emptied, backend,
                   token, page>>

ReadHistory ==
    /\ fetch = "asked"
    /\ fetch' = "read" /\ answer' = row
    /\ UNCHANGED <<app, turns, store, cached, replaced, emptied, backend, token,
                   page, extras>>

HistoryArrives ==
    /\ fetch = "read"
    /\ NoFetch /\ cached' = answer
    /\ emptied' = emptied \cup {t \in Active("chat") : answer[t] = 0}
    /\ UNCHANGED <<app, turns, store, replaced, backend, token, page, extras>>

HistoryFails ==
    /\ fetch # "none" /\ NoFetch
    /\ Extra
    /\ UNCHANGED <<app, turns, store, cached, replaced, emptied, backend,
                   token, page>>

-----------------------------------------------------------------------------
Progress(t) ==
    \/ Accept(t) \/ Write(t) \/ FinishReply(t) \/ Receive(t) \/ Flush(t)
    \/ ErrorFrame(t) \/ AbortSeen(t) \/ EndFrame(t) \/ Unauthorized(t) \/ Refreshed(t)

Trouble(t) == FailReply(t) \/ Break(t) \/ RefreshFails(t)

Next ==
    \/ \E t \in Turn : Progress(t) \/ Trouble(t) \/ Stop(t) \/ Abandon(t)
    \/ \E t \in Turn, k \in Kind : Ask(t, k) \/ AskBusy(t, k)
    \/ LeaveStopping \/ LeaveTemporary \/ TokenExpires
    \/ Fetch \/ ReadHistory \/ HistoryArrives \/ HistoryFails

\* The server answers, its frames arrive, aborts and refreshes come to their end.
Fairness == \A t \in Turn : WF_vars(Progress(t))

Spec == Init /\ [][Next]_vars /\ Fairness

-----------------------------------------------------------------------------
(* Properties *)

\* The reply on screen is the text received, each delta once and in order, never
\* that of an earlier turn: late frames and late timers of a stopped stream
\* belong to the same conversation and must not reach its next reply.
TextInOrder ==
    \A k \in Kind : \A t \in Active(k) :
        LET received == [i \in 1..(IF pos[t] = 0 THEN 0 ELSE pos[t] - 1) |-> <<t, i>>]
        IN  Flushed(t) = received

\* A completed reply stays whole in the history, whatever requests were under way
\* when it ended or when the next question was asked, until an edit cuts it off; one
\* whose empty message was read before waits for the history read at its end.
CompletedIsWhole ==
    \A t \in Turn :
        result[t] = "completed" /\ kind[t] = "chat" =>
            \/ cached[t] = N
            \/ t \in emptied
            \/ \E u \in Turn : t \in replaced[u]

\* A stream that stops leaves the text received in the history (stopAll of useStream.ts
\* promises it), unless the history was read while the reply was empty: its message is
\* then in the cache and persistPartial leaves it alone.
StopKeepsPartial ==
    [][\A t \in Turn :
          kind[t] = "chat" /\ pos[t] > 1 /\ result[t] = "none" /\ result'[t] = "stopped" =>
              cached'[t] >= pos[t] - 1 \/ t \in emptied]_vars

\* Every question is answered by one onEnd, and by an onError before it only if
\* the reply failed; one that the registry refuses, by an onError alone.
EndsOnce ==
    \A t \in Turn :
        /\ ends[t] = (IF phase[t] = "done" /\ result[t] # "refused" THEN 1 ELSE 0)
        /\ errors[t] = (IF result[t] \in {"failed", "refused"} THEN 1 ELSE 0)

\* A conversation shown as being answered has a stream that will end, and no other.
SnapshotIsLive ==
    \A k \in Kind : (streaming[k] <=> Active(k) # {}) /\ \A t, u \in Active(k) : t = u

\* Leaving the temporary page of the mobile app forgets it: no reply of before
\* turns up in its next list.
TemporaryForgotten == app = "mobile" => listed \subseteq recent

\* Every question comes to an end.
QuestionsEnd ==
    \A t \in Turn : phase[t] \in {"asked", "refreshing"} ~> phase[t] = "done"
=============================================================================
