---------------------------- MODULE ToolGateway -----------------------------
(***************************************************************************)
(* The server's side of desktop tool executions: the tool_executions rows, *)
(* the WebSocket session of a node (api/v1/tools.py) and its protocol      *)
(* (services/tool_runtime_service.py), and the two other writers of a row: *)
(* a user's cancellation and the caller that waits with a deadline.        *)
(*                                                                         *)
(* A session may outlive its connection, and two sessions of one node may  *)
(* run at once.  Nobody locks a row: the two writers, and a session that   *)
(* applies a message, read it in one step and write in a later one.  A     *)
(* pass over the rows is one step, as its writes are conditional UPDATEs.  *)
(***************************************************************************)
EXTENDS Naturals, SequencesExt

CONSTANTS
    NumJobs,    \* executions addressed to the node, in order of creation
    Conns       \* connection slots; a slot is used again after both ends left

NoConn == 0
NoJob == 0
Jobs == 1..NumJobs

ASSUME GatewayAssumption ==
    /\ NumJobs \in Nat \ {0}
    /\ Conns \subseteq Nat \ {NoConn}

VARIABLES
    row,        \* tool_executions: status, node_delivery_status, acknowledged,
                \* and whether the last offer is older than its time to live
    deciding,   \* who has read an open row and has not written it yet
    revoked,    \* execution_nodes.status is revoked
    gw,         \* session of a connection
    up, down,   \* messages under way: node to server, server to node
    link        \* the connection the node uses

gatewayVars == <<row, deciding, revoked, gw, up, down, link>>

Terminal == {"succeeded", "failed", "cancelled"}
Status == {"absent", "queued", "running"} \cup Terminal
Delivery == {"none", "sent", "accepted", "running", "result_pending_ack",
             "cancel_pending", "acknowledged"}
View == [status : Status, delivery : Delivery]
ToNode == {"offer", "status", "cancel", "replay", "ack", "acknowledged"}
Outcome == {"completed", "failed", "cancelled"}
ToServer == {"accepted", "rejected", "progress", "ack"} \cup Outcome

Msg(t, j) == [type |-> t, job |-> j]
FromServer == [type : ToNode, job : Jobs] \cup {Msg("challenge", NoJob)}
FromNode == [type : ToServer, job : Jobs] \cup {Msg("response", NoJob)}
Unseen == [status |-> "absent", delivery |-> "none"]
NoMessage == Msg("none", NoJob)
NoSession == [pc |-> "closed", held |-> NoJob, seen |-> Unseen,
              message |-> NoMessage, read |-> Unseen]

GatewayTypeOK ==
    /\ row \in [Jobs -> [status : Status, delivery : Delivery,
                         acked : BOOLEAN, stale : BOOLEAN]]
    /\ deciding \in [Jobs -> SUBSET {"user", "waiter"}]
    /\ revoked \in BOOLEAN
    /\ gw \in [Conns -> [pc : {"closed", "challenge", "list", "recv", "apply"},
                         held : Jobs \cup {NoJob}, seen : View,
                         message : FromNode \cup {NoMessage}, read : View]]
    /\ up \in [Conns -> Seq(FromNode)]
    /\ down \in [Conns -> Seq(FromServer)]
    /\ link \in Conns \cup {NoConn}

GatewayInit ==
    /\ row = [j \in Jobs |-> [status |-> "absent", delivery |-> "none",
                              acked |-> FALSE, stale |-> FALSE]]
    /\ deciding = [j \in Jobs |-> {}]
    /\ revoked = FALSE
    /\ gw = [c \in Conns |-> NoSession]
    /\ up = [c \in Conns |-> <<>>]
    /\ down = [c \in Conns |-> <<>>]
    /\ link = NoConn

-----------------------------------------------------------------------------
(* The other writers of a row. *)

\* create_execution, from run_node_job, the coordinator or a manual call.
Create(j) ==
    /\ row[j].status = "absent" /\ ~revoked
    /\ j > 1 => row[j-1].status # "absent"
    /\ row' = [row EXCEPT ![j].status = "queued"]
    /\ UNCHANGED <<deciding, revoked, gw, up, down, link>>

Open(j) == row[j].status \in {"queued", "running"}

\* The user or the waiter reads a row that is open, without a lock ...
Reads(who, j) ==
    /\ Open(j) /\ who \notin deciding[j]
    /\ deciding' = [deciding EXCEPT ![j] = @ \cup {who}]
    /\ UNCHANGED <<row, revoked, gw, up, down, link>>

\* ... and writes its decision in a later step, whatever the row holds by then.
Writes(who, j) ==
    /\ who \in deciding[j]
    /\ deciding' = [deciding EXCEPT ![j] = @ \ {who}]
    /\ UNCHANGED <<revoked, gw, up, down, link>>

\* cancel_execution, called by a user.
CancelRead(j) == Reads("user", j)

CancelWrite(j) ==
    /\ Writes("user", j)
    /\ row' = [row EXCEPT ![j].status = "cancelled", ![j].delivery = "cancel_pending"]

\* The waiter finds its deadline over.
WaiterDeadline(j) == Reads("waiter", j)

WaiterFail(j) ==
    /\ Writes("waiter", j)
    /\ row' = [row EXCEPT ![j].status = "failed"]

\* revoke_node cancels what is queued and leaves what runs.
RevokeNode ==
    /\ ~revoked
    /\ revoked' = TRUE
    /\ row' = [j \in Jobs |-> IF row[j].status = "queued"
                              THEN [row[j] EXCEPT !.status = "cancelled"] ELSE row[j]]
    /\ UNCHANGED <<deciding, gw, up, down, link>>

\* execution_node_job_offer_ttl_seconds pass since an offer was sent.
OfferLapse(j) ==
    /\ row[j].status = "queued" /\ row[j].delivery = "sent" /\ ~row[j].stale
    /\ row' = [row EXCEPT ![j].stale = TRUE]
    /\ UNCHANGED <<deciding, revoked, gw, up, down, link>>

-----------------------------------------------------------------------------
(* A session. *)

Close(c) == gw' = [gw EXCEPT ![c] = NoSession]

\* The frames a session has not read are lost with it.
Read(c) == up' = [up EXCEPT ![c] = IF gw'[c].pc = "closed" THEN <<>> ELSE Tail(@)]

\* What reaches the node: nothing of a connection it has left.
Deliver(c, ms) == down' = IF link = c THEN [down EXCEPT ![c] = @ \o ms] ELSE down

\* The first frame has to answer the challenge.
ReceiveResponse(c) ==
    /\ gw[c].pc = "challenge" /\ up[c] # <<>>
    /\ IF Head(up[c]).type = "response"
       THEN gw' = [gw EXCEPT ![c].pc = "list"]
       ELSE Close(c)
    /\ Read(c)
    /\ UNCHANGED <<row, deciding, revoked, down, link>>

\* Mutant: an offer is never sent again.
ToOfferOnce(j) == row[j].status = "queued" /\ row[j].delivery # "sent"

ToOffer(j) ==
    row[j].status = "queued" /\ (row[j].delivery # "sent" \/ row[j].stale)

\* The message list_node_messages produces for a row, if any.
Notice(j) ==
    CASE row[j].status \in {"succeeded", "failed"} /\ ~row[j].acked -> "replay"
      [] row[j].status = "cancelled" /\ row[j].delivery = "cancel_pending" -> "cancel"
      [] ToOffer(j) -> "offer"
      [] row[j].status = "running" -> "status"
      [] OTHER -> "none"

\* The rows of S, ORDER BY created_at.
Ordered(S) ==
    {js \in [1..Cardinality(S) -> S] : \A i, k \in DOMAIN js : i < k => js[i] < js[k]}

Notices ==
    {[i \in DOMAIN js |-> Msg(Notice(js[i]), js[i])] :
        js \in Ordered({j \in Jobs : Notice(j) # "none"})}

\* The row as the session's identity map has it.  The object of the message sent
\* last stays referenced, and a later SELECT does not refresh it.
Seen(c, j) == IF gw[c].held = j THEN gw[c].seen
              ELSE [status |-> row[j].status, delivery |-> row[j].delivery]

ViewOf(r) == [status |-> r.status, delivery |-> r.delivery]

\* authenticate_node and list_node_messages, which refreshes every object and
\* claims the offers.  On a broken connection a send may raise: all is rolled back.
ListMessages(c) ==
    /\ gw[c].pc = "list"
    /\ \/ /\ revoked \/ link # c
          /\ Close(c)
          /\ up' = [up EXCEPT ![c] = <<>>]
          /\ UNCHANGED <<row, down>>
       \/ /\ ~revoked
          /\ row' = [j \in Jobs |-> IF ToOffer(j)
                        THEN [row[j] EXCEPT !.delivery = "sent", !.stale = FALSE]
                        ELSE row[j]]
          /\ \E notices \in Notices :
                LET held == IF notices = <<>> THEN gw[c].held ELSE Last(notices).job
                IN  /\ gw' = [gw EXCEPT ![c].pc = "recv", ![c].held = held,
                          ![c].seen = IF held = NoJob THEN Unseen ELSE ViewOf(row'[held])]
                    /\ Deliver(c, notices)
          /\ UNCHANGED up
    /\ UNCHANGED <<deciding, revoked, link>>

\* Five seconds without a message.
ReceiveTimeout(c) ==
    /\ gw[c].pc = "recv" /\ up[c] = <<>> /\ link = c
    /\ gw' = [gw EXCEPT ![c].pc = "list"]
    /\ UNCHANGED <<row, deciding, revoked, up, down, link>>

SeesDisconnect(c) ==
    /\ gw[c].pc \in {"challenge", "recv"} /\ up[c] = <<>> /\ link # c
    /\ Close(c)
    /\ UNCHANGED <<row, deciding, revoked, up, down, link>>

\* authenticate_node, and the SELECT of apply_node_message.
ReadMessage(c) ==
    /\ gw[c].pc = "recv" /\ up[c] # <<>>
    /\ LET m == Head(up[c])
       IN  IF revoked \/ m.type = "response"
           THEN Close(c)
           ELSE gw' = [gw EXCEPT ![c].pc = "apply", ![c].message = m,
                                 ![c].read = Seen(c, m.job)]
    /\ Read(c)
    /\ UNCHANGED <<row, deciding, revoked, down, link>>

\* Commit: only attributes that differ from the ones the session read are written.
Commit(c, j, status, delivery, acked, replies) ==
    /\ row' = [row EXCEPT
          ![j].status = IF status = gw[c].read.status THEN @ ELSE status,
          ![j].delivery = IF delivery = gw[c].read.delivery THEN @ ELSE delivery,
          ![j].acked = @ \/ acked]
    /\ gw' = [gw EXCEPT ![c] =
          [pc |-> "list", held |-> gw[c].held,
           seen |-> IF gw[c].held = j THEN [status |-> status, delivery |-> delivery]
                    ELSE gw[c].seen,
           message |-> NoMessage, read |-> Unseen]]
    /\ Deliver(c, replies)

\* The error leaves the transaction uncommitted and ends the session.
Refuse(c) == Close(c) /\ UNCHANGED <<row, down>>

ApplyAck(c, j) ==
    IF gw[c].read.status \in Terminal
    THEN Commit(c, j, gw[c].read.status, "acknowledged", TRUE, <<Msg("acknowledged", j)>>)
    ELSE Refuse(c)

\* start_execution tests the status again in its UPDATE.
ApplyAccepted(c, j) ==
    IF \/ gw[c].read.status = "queued" /\ row[j].status = "queued"
       \/ gw[c].read.status = "running"
    THEN Commit(c, j, "running", "accepted", FALSE, <<>>)
    ELSE Refuse(c)

ApplyRejected(c, j) ==
    IF gw[c].read.status \in {"queued", "running"}
    THEN Commit(c, j, "failed", "result_pending_ack", FALSE, <<>>)
    ELSE Refuse(c)

ApplyProgress(c, j) ==
    IF gw[c].read.status \in {"queued", "running"}
    THEN Commit(c, j, gw[c].read.status, "running", FALSE, <<>>)
    ELSE Refuse(c)

StatusOf(outcome) == IF outcome = "completed" THEN "succeeded" ELSE outcome

\* Mutant: a result is applied whatever the row holds.
ApplyOutcomeAnyway(c, j, outcome) ==
    IF gw[c].read.status # "queued"
    THEN Commit(c, j, StatusOf(outcome), "result_pending_ack", FALSE, <<Msg("ack", j)>>)
    ELSE Refuse(c)

ApplyOutcome(c, j, outcome) ==
    CASE gw[c].read.status \in Terminal ->
            Commit(c, j, gw[c].read.status, gw[c].read.delivery, FALSE, <<Msg("ack", j)>>)
      [] gw[c].read.status = "running" ->
            Commit(c, j, StatusOf(outcome), "result_pending_ack", FALSE, <<Msg("ack", j)>>)
      [] OTHER -> Refuse(c)

\* The rest of apply_node_message, the commit, and the answer.
ApplyMessage(c) ==
    /\ gw[c].pc = "apply"
    /\ LET m == gw[c].message IN
       CASE m.type = "ack" -> ApplyAck(c, m.job)
         [] m.type = "accepted" -> ApplyAccepted(c, m.job)
         [] m.type = "rejected" -> ApplyRejected(c, m.job)
         [] m.type = "progress" -> ApplyProgress(c, m.job)
         [] m.type \in Outcome -> ApplyOutcome(c, m.job, m.type)
    /\ up' = IF gw'[c].pc = "closed" THEN [up EXCEPT ![c] = <<>>] ELSE up
    /\ UNCHANGED <<deciding, revoked, link>>

Session(c) ==
    \/ ReceiveResponse(c) \/ ListMessages(c) \/ ReadMessage(c) \/ ApplyMessage(c)
    \/ SeesDisconnect(c)
=============================================================================
