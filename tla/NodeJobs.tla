------------------------------ MODULE NodeJobs ------------------------------
(***************************************************************************)
(* Tool executions between the server (ToolGateway) and the desktop node   *)
(* (DesktopNode), over a connection that breaks, with a node that crashes. *)
(*                                                                         *)
(* Bounds: the events of one of the Scenarios happen, each once.  The five *)
(* seconds of receive_json and the life of an offer outlast messages and   *)
(* saves that are under way (Quiet), and a user who is connected decides   *)
(* on an offer within its life.                                            *)
(***************************************************************************)
EXTENDS DesktopNode

CONSTANTS Scenarios  \* sets of events, besides jobs running, that happen together

Kinds == {"cancel", "deadline", "revoke", "expired", "loss", "crash", "savefail",
          "renew"}
ASSUME ScenariosAssumption == Scenarios \subseteq SUBSET Kinds

VARIABLES events    \* the events that have happened

vars == <<gatewayVars, nodeVars, events>>

TypeOK ==
    /\ GatewayTypeOK
    /\ NodeTypeOK
    /\ events \subseteq Kinds

Init ==
    /\ GatewayInit
    /\ NodeInit
    /\ events = {}

Steady == UNCHANGED events

Event(kind) ==
    /\ kind \notin events
    /\ \E s \in Scenarios : events \cup {kind} \subseteq s
    /\ events' = events \cup {kind}

Quiet ==
    /\ \A c \in Conns : up[c] = <<>> /\ down[c] = <<>> /\ gw[c].pc # "apply"
    /\ saves = {}

-----------------------------------------------------------------------------
(* The connection. *)

\* The socket opens.  A revoked node is turned away before the challenge.
Connect(c) ==
    /\ link = NoConn /\ gw[c].pc = "closed"
    /\ \A s \in saves : s.op # "renew"
    /\ \A d \in Conns : gw[d].pc = "closed" => c <= d
    /\ link' = c
    /\ IF revoked
       THEN gw' = gw /\ down' = [down EXCEPT ![c] = <<>>]
       ELSE /\ gw' = [gw EXCEPT ![c].pc = "challenge"]
            /\ down' = [down EXCEPT ![c] = <<Msg("challenge", NoJob)>>]
    /\ UNCHANGED <<row, deciding, revoked, up, nodeVars>>

\* The node leaves the connection: of what it sent the server gets a prefix.
Leave ==
    /\ link' = NoConn
    /\ \E n \in 0..Len(up[link]) : up' = [up EXCEPT ![link] = SubSeq(@, 1, n)]
    /\ down' = [down EXCEPT ![link] = <<>>]
    /\ UNCHANGED <<row, deciding, revoked, gw>>

Loss ==
    /\ link # NoConn
    /\ Leave
    /\ UNCHANGED nodeVars

\* The server has closed, and what it sent before has been handled.
NodeSeesClose ==
    /\ link # NoConn /\ gw[link].pc = "closed" /\ down[link] = <<>>
    /\ link' = NoConn
    /\ UNCHANGED <<row, deciding, revoked, gw, up, down, nodeVars>>

\* Mutant: the spool is kept in memory only.
CrashForgets ==
    /\ IF link = NoConn THEN UNCHANGED gatewayVars ELSE Leave
    /\ spool' = [j \in Jobs |-> "none"]
    /\ pending' = {} /\ saves' = {}
    /\ active' = [j \in Jobs |-> "no"]
    /\ aborted' = [j \in Jobs |-> FALSE]
    /\ shown' = [pending |-> NoJob, current |-> NoJob]
    /\ UNCHANGED <<effects, owed, clobbered>>

\* The process ends and is started again: the file is what is left, with the
\* saves under way written or not.
Crash ==
    /\ IF link = NoConn THEN UNCHANGED gatewayVars ELSE Leave
    /\ \/ UNCHANGED <<spool, clobbered>>
       \/ \E s \in saves : Written(s)
    /\ pending' = {} /\ saves' = {}
    /\ active' = [j \in Jobs |-> "no"]
    /\ aborted' = [j \in Jobs |-> FALSE]
    /\ shown' = [pending |-> NoJob, current |-> NoJob]
    /\ UNCHANGED <<effects, owed>>

-----------------------------------------------------------------------------
Lapse(j) ==
    /\ Quiet /\ (link = NoConn \/ j \notin pending)
    /\ OfferLapse(j)
    /\ UNCHANGED nodeVars /\ Steady

Server ==
    \/ \E j \in Jobs :
          \/ Create(j) /\ UNCHANGED nodeVars /\ Steady
          \/ (CancelWrite(j) \/ WaiterFail(j)) /\ UNCHANGED nodeVars /\ Steady
          \/ CancelRead(j) /\ UNCHANGED nodeVars /\ Event("cancel")
          \/ WaiterDeadline(j) /\ UNCHANGED nodeVars /\ Event("deadline")
          \/ Lapse(j)
    \/ RevokeNode /\ UNCHANGED nodeVars /\ Event("revoke")
    \/ \E c \in Conns :
          \/ Session(c) /\ UNCHANGED nodeVars /\ Steady
          \/ Quiet /\ ReceiveTimeout(c) /\ UNCHANGED nodeVars /\ Steady

Node ==
    \/ \E j \in Jobs :
          \/ (UserAccepts(j) \/ UserRejects(j)) /\ Steady
          \/ (BeginEffect(j) \/ JobCancelled(j) \/ JobCompletes(j) \/ JobFails(j)) /\ Steady
    \/ \E s \in saves : Saved(s) /\ Steady
    \/ \E s \in saves : SaveFails(s) /\ (IF s.op = "renew" THEN Steady ELSE Event("savefail"))
    \/ RenewToken /\ Event("renew")
    \/ HandleMessage(FALSE) /\ Steady
    \/ HandleMessage(TRUE) /\ Event("expired")

Network ==
    \/ \E c \in Conns : Connect(c) /\ Steady
    \/ NodeSeesClose /\ Steady
    \/ Loss /\ Event("loss")
    \/ Crash /\ Event("crash")

Next == Server \/ Node \/ Network

\* The gateway's loop, the node's handlers, its saves and its reconnect timer
\* always go on; a tool returns; timeouts pass.  Nobody has to decide on an offer.
Fairness ==
    /\ \A c \in Conns :
          /\ WF_vars(Session(c) /\ UNCHANGED nodeVars /\ Steady)
          /\ WF_vars(Quiet /\ ReceiveTimeout(c) /\ UNCHANGED nodeVars /\ Steady)
    /\ \A j \in Jobs :
          /\ WF_vars(Lapse(j))
          /\ WF_vars((JobCancelled(j) \/ JobCompletes(j)) /\ Steady)
    /\ WF_vars(\E s \in saves : Saved(s) /\ Steady)
    /\ WF_vars(HandleMessage(FALSE) /\ Steady)
    /\ WF_vars(\E c \in Conns : Connect(c) /\ Steady)
    /\ WF_vars(NodeSeesClose /\ Steady)

Spec == Init /\ [][Next]_vars /\ Fairness

-----------------------------------------------------------------------------
(* Properties *)

\* However often an offer, a status or a replay is sent and however often the
\* connection breaks, a tool's effect begins once, unless the node's memory of
\* it is lost: by a crash, or by a save that failed or overwrote another's.
AtMostOnce ==
    \A j \in Jobs : effects[j] > 1 => clobbered \/ events \cap {"crash", "savefail"} # {}

\* The spool keeps an outcome until the server has a final state for it: what
\* the docs call keeping the encrypted result until the acknowledgement.
ResultKept ==
    \A j \in owed : row[j].status \in Terminal \/ spool[j] # "none" \/ clobbered

\* A writer that read j when it was open and has not written yet: a user's cancel, the
\* waiter past its deadline, or a session that applies a message to the row it read
\* then, or to an object it had kept from an earlier pass.
StaleReader(j) ==
    \/ deciding[j] # {}
    \/ \E c \in Conns : gw[c].message.job = j /\ gw[c].read.status \notin Terminal

\* A final state is changed only by a writer whose reading of the row is older than it:
\* nobody who reads it final changes it, whatever is sent, cancelled or late.
FinalStatus ==
    [][\A j \in Jobs :
         row[j].status \in Terminal /\ row'[j].status # row[j].status => StaleReader(j)]_vars

\* A result the node has saved reaches the row of an execution the server knows
\* to be running, through lost connections and restarts of the node.
OutcomeArrives ==
    \A j \in Jobs :
        spool[j] # "none" /\ row[j].status = "running" ~>
            row[j].status \in Terminal \/ revoked \/ clobbered

\* A queued execution is offered to the node, or is decided otherwise.
OfferArrives ==
    \A j \in Jobs :
        row[j].status = "queued" ~>
            \/ row[j].status # "queued" \/ revoked
            \/ j \in pending \/ active[j] # "no" \/ spool[j] # "none"
=============================================================================
