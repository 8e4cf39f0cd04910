---------------------------- MODULE DesktopNode -----------------------------
(***************************************************************************)
(* The desktop's side of tool executions: the job handling of              *)
(* execution-node/client.ts, the executor (jobs.ts), the view the user     *)
(* decides on (service.ts) and the encrypted file with the spool of        *)
(* results (identity-store.ts).                                            *)
(*                                                                         *)
(* The main process runs one handler at a time up to its next await; the   *)
(* awaits that matter are the saves of the spool and the tool's own work.  *)
(* A save writes the spool computed when it was started, so two saves      *)
(* under way overwrite each other; so does the renewal of the token, which *)
(* writes the file it read before it asked the server.  register() makes a *)
(* new node, which has none of these executions, and is not here.          *)
(***************************************************************************)
EXTENDS ToolGateway

CONSTANTS AutoAccept   \* executions of read-only tools, accepted without the user

VARIABLES
    pending,    \* pendingOffers
    active,     \* activeJobs: not there, before its tool's effect, in it, reporting
    aborted,    \* the AbortController of an active job fired
    spool,      \* the cached identity's spool, equal to the file
    saves,      \* saves under way
    shown,      \* service.ts pendingJob and currentJob
    effects,    \* history: how often the tool's effect was begun
    owed,       \* history: executions whose outcome was saved
    clobbered   \* history: a save overwrote the result of another

nodeVars == <<pending, active, aborted, spool, saves, shown, effects, owed, clobbered>>

Spool == [Jobs -> Outcome \cup {"none"}]
Save == [op : {"report", "answer", "clear", "renew"}, job : Jobs \cup {NoJob},
         base : Spool, spool : Spool]

NodeTypeOK ==
    /\ pending \subseteq Jobs
    /\ active \in [Jobs -> {"no", "ready", "working", "reporting"}]
    /\ aborted \in [Jobs -> BOOLEAN]
    /\ spool \in Spool
    /\ saves \subseteq Save
    /\ shown \in [pending : Jobs \cup {NoJob}, current : Jobs \cup {NoJob}]
    /\ effects \in [Jobs -> Nat]
    /\ owed \subseteq Jobs
    /\ clobbered \in BOOLEAN

NodeInit ==
    /\ pending = {}
    /\ active = [j \in Jobs |-> "no"]
    /\ aborted = [j \in Jobs |-> FALSE]
    /\ spool = [j \in Jobs |-> "none"]
    /\ saves = {}
    /\ shown = [pending |-> NoJob, current |-> NoJob]
    /\ effects = [j \in Jobs |-> 0]
    /\ owed = {} /\ clobbered = FALSE

-----------------------------------------------------------------------------
\* send() drops the message when there is no open socket; nobody reads what it
\* sends to a session that has ended.
Send(wire, m) == IF link = NoConn \/ gw[link].pc = "closed" THEN wire
                 ELSE [wire EXCEPT ![link] = Append(@, m)]

\* sendTerminal up to its await: the message is signed and the save started.
SaveOutcome(op, j, outcome) ==
    saves' = saves \cup {[op |-> op, job |-> j, base |-> spool,
                          spool |-> [spool EXCEPT ![j] = outcome]]}

ClearSpool(j) ==
    saves' = IF spool[j] = "none" THEN saves
             ELSE saves \cup {[op |-> "clear", job |-> j, base |-> spool,
                               spool |-> [spool EXCEPT ![j] = "none"]]}

\* A save that carries an outcome.
Carries(s) == s.op \in {"report", "answer"}

\* After the save: the outcome is sent, and a job that reported is settled.
AfterSave(s, outcome) ==
    /\ up' = IF Carries(s) THEN Send(up, Msg(outcome, s.job)) ELSE up
    /\ IF s.op = "report"
       THEN /\ active' = [active EXCEPT ![s.job] = "no"]
            /\ aborted' = [aborted EXCEPT ![s.job] = FALSE]
            /\ shown' = [shown EXCEPT !.current = IF @ = s.job THEN NoJob ELSE @]
       ELSE UNCHANGED <<active, aborted, shown>>

\* The file holds what s writes.
Written(s) ==
    /\ spool' = s.spool
    /\ clobbered' = (clobbered \/ s.base # spool)

Saved(s) ==
    /\ s \in saves
    /\ saves' = saves \ {s}
    /\ Written(s)
    /\ owed' = IF Carries(s) THEN owed \cup {s.job} ELSE owed
    /\ AfterSave(s, s.spool[s.job])
    /\ UNCHANGED <<pending, effects, row, deciding, revoked, gw, down, link>>

\* connect() renews the token first if it is about to end: an answer of the server
\* and a save of the whole identity, with the spool of before.
RenewToken ==
    /\ link = NoConn /\ \A s \in saves : s.op # "renew"
    /\ saves' = saves \cup {[op |-> "renew", job |-> NoJob, base |-> spool, spool |-> spool]}
    /\ UNCHANGED <<pending, active, aborted, spool, shown, effects, owed, clobbered,
                   gatewayVars>>

\* A save that fails is logged and otherwise ignored; a renewal, tried again.
SaveFails(s) ==
    /\ s \in saves
    /\ saves' = saves \ {s}
    /\ AfterSave(s, s.spool[s.job])
    /\ UNCHANGED <<pending, spool, effects, owed, clobbered, row, deciding, revoked, gw,
                   down, link>>

-----------------------------------------------------------------------------
(* The user's decision and the job. *)

\* acceptJob, with the callback that moves the job to the current one.
AcceptJob(j) ==
    /\ active' = [active EXCEPT ![j] = "ready"]
    /\ shown' = [pending |-> NoJob, current |-> j]
    /\ up' = Send(up, Msg("accepted", j))

UserAccepts(j) ==
    /\ shown.pending = j /\ j \in pending /\ active[j] = "no"
    /\ pending' = pending \ {j}
    /\ AcceptJob(j)
    /\ UNCHANGED <<aborted, spool, saves, effects, owed, clobbered, row, deciding, revoked,
                   gw, down, link>>

UserRejects(j) ==
    /\ shown.pending = j /\ j \in pending
    /\ pending' = pending \ {j}
    /\ shown' = [shown EXCEPT !.pending = NoJob]
    /\ up' = Send(up, Msg("rejected", j))
    /\ UNCHANGED <<active, aborted, spool, saves, effects, owed, clobbered, row, deciding,
                   revoked, gw, down, link>>

Report(j, outcome) ==
    /\ active' = [active EXCEPT ![j] = "reporting"]
    /\ SaveOutcome("report", j, outcome)

\* The tool checks the signal, reports progress and begins its effect.
BeginEffect(j) ==
    /\ active[j] = "ready" /\ ~aborted[j]
    /\ active' = [active EXCEPT ![j] = "working"]
    /\ effects' = [effects EXCEPT ![j] = @ + 1]
    /\ up' = Send(up, Msg("progress", j))
    /\ UNCHANGED <<pending, aborted, spool, saves, shown, owed, clobbered, row, deciding,
                   revoked, gw, down, link>>

\* The signal is checked before and after the effect.
JobCancelled(j) ==
    /\ active[j] \in {"ready", "working"} /\ aborted[j]
    /\ Report(j, "cancelled")
    /\ UNCHANGED <<pending, aborted, spool, shown, effects, owed, clobbered, gatewayVars>>

JobCompletes(j) ==
    /\ active[j] = "working" /\ ~aborted[j]
    /\ Report(j, "completed")
    /\ UNCHANGED <<pending, aborted, spool, shown, effects, owed, clobbered, gatewayVars>>

\* Invalid arguments, a missing grant, an error of the effect, too large a result.
JobFails(j) ==
    /\ active[j] \in {"ready", "working"} /\ ~aborted[j]
    /\ Report(j, "failed")
    /\ UNCHANGED <<pending, aborted, spool, shown, effects, owed, clobbered, gatewayVars>>

-----------------------------------------------------------------------------
(* handleRawMessage. *)

Respond == up' = Send(up, Msg("response", NoJob))

\* Mutant: an execution that is over is taken for a new one.
HandleOfferAgain(j, expired) ==
    IF active[j] # "no" \/ j \in pending \/ expired
    THEN UNCHANGED <<up, pending, active, shown>>
    ELSE /\ pending' = pending \cup {j}
         /\ shown' = [shown EXCEPT !.pending = j]
         /\ UNCHANGED <<up, active>>

\* An offer may have expired on its way (a budgeted case of NodeJobs).
HandleOffer(j, expired) ==
    CASE spool[j] # "none" ->
            /\ up' = Send(up, Msg(spool[j], j))
            /\ UNCHANGED <<pending, active, shown>>
      [] spool[j] = "none" /\ active[j] # "no" ->
            /\ up' = Send(up, Msg("accepted", j))
            /\ UNCHANGED <<pending, active, shown>>
      [] spool[j] = "none" /\ active[j] = "no" /\ j \in pending ->
            UNCHANGED <<up, pending, active, shown>>
      [] spool[j] = "none" /\ active[j] = "no" /\ j \notin pending /\ expired ->
            /\ up' = Send(up, Msg("rejected", j))
            /\ UNCHANGED <<pending, active, shown>>
      [] spool[j] = "none" /\ active[j] = "no" /\ j \notin pending /\ ~expired ->
            IF j \in AutoAccept
            THEN AcceptJob(j) /\ UNCHANGED pending
            ELSE /\ pending' = pending \cup {j}
                 /\ shown' = [shown EXCEPT !.pending = j]
                 /\ UNCHANGED <<up, active>>

\* A spooled result is sent again; without one the state is reported as lost.
Replay(j) ==
    IF spool[j] # "none"
    THEN up' = Send(up, Msg(spool[j], j)) /\ UNCHANGED saves
    ELSE SaveOutcome("answer", j, "failed") /\ UNCHANGED up

\* Mutant: the node answers only for what it is doing.
HandleStatusSilent(j) == UNCHANGED <<up, saves>>

HandleStatus(j) ==
    IF active[j] # "no" THEN UNCHANGED <<up, saves>> ELSE Replay(j)

HandleCancel(j) ==
    CASE j \in pending ->
            /\ pending' = pending \ {j}
            /\ up' = Send(up, Msg("ack", j))
            /\ shown' = [shown EXCEPT !.pending = IF @ = j THEN NoJob ELSE @]
            /\ UNCHANGED aborted
      [] j \notin pending /\ active[j] # "no" ->
            /\ aborted' = [aborted EXCEPT ![j] = TRUE]
            /\ UNCHANGED <<pending, up, shown>>
      [] j \notin pending /\ active[j] = "no" ->
            /\ up' = IF spool[j] = "none" THEN up ELSE Send(up, Msg(spool[j], j))
            /\ UNCHANGED <<pending, shown, aborted>>

HandleMessage(expired) ==
    /\ link # NoConn /\ down[link] # <<>>
    /\ down' = [down EXCEPT ![link] = Tail(@)]
    /\ LET m == Head(down[link]) IN
       \/ m.type = "challenge" /\ Respond
          /\ UNCHANGED <<pending, active, shown, saves, aborted>>
       \/ m.type = "offer" /\ HandleOffer(m.job, expired) /\ UNCHANGED <<saves, aborted>>
       \/ m.type = "status" /\ HandleStatus(m.job)
          /\ UNCHANGED <<pending, active, shown, aborted>>
       \/ m.type = "replay" /\ Replay(m.job)
          /\ UNCHANGED <<pending, active, shown, aborted>>
       \/ m.type = "cancel" /\ HandleCancel(m.job) /\ UNCHANGED <<active, saves>>
       \/ m.type = "ack" /\ up' = Send(up, Msg("ack", m.job))
          /\ UNCHANGED <<pending, active, shown, saves, aborted>>
       \/ m.type = "acknowledged" /\ ClearSpool(m.job)
          /\ UNCHANGED <<up, pending, active, shown, aborted>>
    /\ UNCHANGED <<spool, effects, owed, clobbered, row, deciding, revoked, gw, link>>
=============================================================================
