--------------------------- MODULE NodeJobs_proofs ---------------------------
(***************************************************************************)
(* Proofs about NodeJobs, for any number of executions and connections,    *)
(* any scenarios and any set of executions accepted without the user: the  *)
(* type invariant, FinalStatus, ResultKept and AtMostOnce.                 *)
(*                                                                         *)
(* A result leaves the spool when the server says it has acknowledged it.  *)
(* So the argument follows that word: a session says it only of a row it   *)
(* sees final (SeenIn: what a session sees final is final), the word on    *)
(* its way is about a final row (AckedIn), and so is the save it starts    *)
(* (SaveIn).  A final row stays final, whoever writes it last.             *)
(***************************************************************************)
EXTENDS NodeJobs, FiniteSetTheorems, SequenceTheorems, TLAPS

Row == [status : Status, delivery : Delivery, acked : BOOLEAN, stale : BOOLEAN]
Rows == [Jobs -> Row]
Sessions == [pc : {"closed", "challenge", "list", "recv", "apply"}, held : Jobs \cup {NoJob},
             seen : View, message : FromNode \cup {NoMessage}, read : View]

\* Of a row that a session saw final, or read final for the message it applies, the
\* state is final.
SeenIn(g, r) ==
    /\ g.held # NoJob /\ g.seen.status \in Terminal => r[g.held].status \in Terminal
    /\ g.message.job # NoJob /\ g.read.status \in Terminal => r[g.message.job].status \in Terminal
    /\ g.pc = "apply" => g.message.type \in ToServer

\* "acknowledged" is said of final rows.
AckedIn(ms, r) ==
    \A i \in DOMAIN ms : ms[i].type = "acknowledged" => r[ms[i].job].status \in Terminal

\* A save changes its own entry only, and removes one only of a final row.
SaveIn(s, r) ==
    /\ \A j \in Jobs \ {s.job} : s.spool[j] = s.base[j]
    /\ s.op # "renew" => s.job \in Jobs
    /\ s.op = "renew" => s.job = NoJob
    /\ s.op = "clear" => r[s.job].status \in Terminal
    /\ Carries(s) => s.spool[s.job] # "none"

Sound ==
    /\ \A c \in Conns : SeenIn(gw[c], row)
    /\ \A c \in Conns : AckedIn(down[c], row)
    /\ \A s \in saves : SaveIn(s, row)

IInv == TypeOK /\ Sound /\ ResultKept

\* A row that is final stays final.
Keeps(r, r2) == \A j \in Jobs : r[j].status \in Terminal => r2[j].status \in Terminal

-----------------------------------------------------------------------------
(* Facts of the definitions. *)

LEMMA Kept ==
    ASSUME NEW r, NEW r2, Keeps(r, r2)
    PROVE  /\ \A g \in Sessions : SeenIn(g, r) => SeenIn(g, r2)
           /\ \A ms \in Seq(FromServer) : AckedIn(ms, r) => AckedIn(ms, r2)
           /\ \A s \in Save : SaveIn(s, r) => SaveIn(s, r2)
<1>1. ASSUME NEW g \in Sessions, SeenIn(g, r) PROVE SeenIn(g, r2)
  <2>1. g.held \in Jobs \cup {NoJob} /\ g.message.job \in Jobs \cup {NoJob}
    BY DEF Sessions, FromNode, NoMessage, Msg
  <2> QED
    BY <1>1, <2>1 DEF SeenIn, Keeps
<1>2. ASSUME NEW ms \in Seq(FromServer), AckedIn(ms, r) PROVE AckedIn(ms, r2)
  <2> SUFFICES ASSUME NEW i \in DOMAIN ms, ms[i].type = "acknowledged"
               PROVE  r2[ms[i].job].status \in Terminal
    BY DEF AckedIn
  <2>1. ms[i] \in FromServer
    OBVIOUS
  <2>2. ms[i].job \in Jobs
    BY <2>1 DEF FromServer, Msg
  <2> QED
    BY <1>2, <2>2 DEF AckedIn, Keeps
<1>3. ASSUME NEW s \in Save, SaveIn(s, r) PROVE SaveIn(s, r2)
  BY <1>3 DEF SaveIn, Keeps, Save
<1> QED
  BY <1>1, <1>2, <1>3

LEMMA SequenceFacts ==
    ASSUME NEW S, NEW s \in Seq(S)
    PROVE  /\ s # <<>> => Head(s) \in S /\ Tail(s) \in Seq(S)
           /\ \A x \in S : Append(s, x) \in Seq(S)
           /\ \A t \in Seq(S) : s \o t \in Seq(S)
           /\ \A n \in 0..Len(s) : SubSeq(s, 1, n) \in Seq(S)
<1>1. \A n \in 0..Len(s) : SubSeq(s, 1, n) \in Seq(S)
  <2> SUFFICES ASSUME NEW n \in 0..Len(s) PROVE SubSeq(s, 1, n) \in Seq(S)
    OBVIOUS
  <2> QED
    BY SubSeqProperties
<1>2. s # <<>> => Head(s) \in S /\ Tail(s) \in Seq(S)
  BY HeadTailProperties
<1> QED
  BY <1>1, <1>2

\* What is said first is not said of the rows behind it.
LEMMA AckedTail ==
    ASSUME NEW ms \in Seq(FromServer), ms # <<>>, NEW r, AckedIn(ms, r)
    PROVE  AckedIn(Tail(ms), r)
  BY DEF AckedIn

LEMMA AckedConcat ==
    ASSUME NEW ms \in Seq(FromServer), NEW ns \in Seq(FromServer), NEW r,
           AckedIn(ms, r), AckedIn(ns, r)
    PROVE  AckedIn(ms \o ns, r)
  BY DEF AckedIn

LEMMA JobsFinite == IsFiniteSet(Jobs) /\ NoJob \notin Jobs /\ NoConn \notin Conns
  BY GatewayAssumption, FS_Interval DEF Jobs, NoJob, NoConn

\* The messages of a pass over the rows.
LEMMA NoticesType ==
    ASSUME NEW ns \in Notices
    PROVE  /\ ns \in Seq(FromServer)
           /\ ns # <<>> => Last(ns).job \in Jobs
           /\ \A r : AckedIn(ns, r)
<1> DEFINE S == {j \in Jobs : Notice(j) # "none"}
<1>1. PICK js \in Ordered(S) : ns = [i \in DOMAIN js |-> Msg(Notice(js[i]), js[i])]
  BY DEF Notices
<1>2. Cardinality(S) \in Nat
  BY JobsFinite, FS_Subset, FS_CardinalityType
<1>3. js \in [1..Cardinality(S) -> S]
  BY <1>1 DEF Ordered
<1>4. \A j \in S : Notice(j) \in {"replay", "cancel", "offer", "status"}
  BY DEF Notice
<1>5. \A i \in 1..Cardinality(S) : /\ ns[i].type \in {"replay", "cancel", "offer", "status"}
                                   /\ ns[i].job \in Jobs /\ ns[i] \in FromServer
  <2> SUFFICES ASSUME NEW i \in 1..Cardinality(S)
               PROVE  /\ ns[i].type \in {"replay", "cancel", "offer", "status"}
                      /\ ns[i].job \in Jobs /\ ns[i] \in FromServer
    OBVIOUS
  <2>1. ns[i] = Msg(Notice(js[i]), js[i]) /\ js[i] \in S
    BY <1>1, <1>3
  <2>2. Notice(js[i]) \in {"replay", "cancel", "offer", "status"} /\ js[i] \in Jobs
    BY <1>4, <2>1
  <2> HIDE DEF S
  <2> QED
    BY <2>1, <2>2 DEF Msg, FromServer, ToNode
<1>6. DOMAIN ns = 1..Cardinality(S)
  BY <1>1, <1>3
<1> HIDE DEF S
<1>7. ns \in Seq(FromServer) /\ Len(ns) = Cardinality(S)
  <2>1. ns \in [1..Cardinality(S) -> FromServer]
    <3>1. ns = [i \in 1..Cardinality(S) |-> ns[i]]
      BY <1>1, <1>3
    <3> QED
      BY <1>5, <3>1
  <2> QED
    BY <1>2, <2>1
<1>8. ns # <<>> => Last(ns).job \in Jobs
  BY <1>2, <1>5, <1>7 DEF Last
<1> QED
  BY <1>5, <1>6, <1>7, <1>8 DEF AckedIn

-----------------------------------------------------------------------------
(* The server: rows and sessions. *)

GatewaySound ==
    /\ \A c \in Conns : SeenIn(gw[c], row)
    /\ \A c \in Conns : AckedIn(down[c], row)

\* A final state is changed by a stale reader only.
FinalKept ==
    \A j \in Jobs : row[j].status \in Terminal /\ row'[j].status # row[j].status => StaleReader(j)

GatewayStep == GatewayTypeOK' /\ Keeps(row, row') /\ GatewaySound' /\ FinalKept

\* Rows and messages: what a step of one session does to the rest.
RowStep == row' \in Rows /\ Keeps(row, row') /\ FinalKept
SessionStep(c) == gw' \in [Conns -> Sessions] /\ SeenIn(gw'[c], row')
                  /\ \A d \in Conns \ {c} : gw'[d] = gw[d]
DownStep(c) == down' \in [Conns -> Seq(FromServer)] /\ AckedIn(down'[c], row')
               /\ \A d \in Conns \ {c} : down'[d] = down[d]

LEMMA StepOfParts ==
    ASSUME GatewayTypeOK, GatewaySound, NEW c \in Conns, RowStep, SessionStep(c), DownStep(c),
           up' \in [Conns -> Seq(FromNode)], UNCHANGED <<deciding, revoked, link>>
    PROVE  GatewayStep
<1>1. GatewayTypeOK'
  BY DEF GatewayTypeOK, RowStep, SessionStep, DownStep, Rows, Row, Sessions
<1>2. ASSUME NEW d \in Conns PROVE SeenIn(gw'[d], row') /\ AckedIn(down'[d], row')
  <2>1. CASE d = c
    BY <2>1 DEF SessionStep, DownStep
  <2>2. CASE d # c
    <3>1. gw'[d] = gw[d] /\ down'[d] = down[d] /\ gw[d] \in Sessions /\ down[d] \in Seq(FromServer)
      BY <2>2 DEF SessionStep, DownStep, GatewayTypeOK, Sessions
    <3>2. SeenIn(gw[d], row) /\ AckedIn(down[d], row) /\ Keeps(row, row')
      BY DEF GatewaySound, RowStep
    <3> QED
      BY <3>1, <3>2, Kept
  <2> QED
    BY <2>1, <2>2
<1> QED
  BY <1>1, <1>2 DEF GatewayStep, GatewaySound, RowStep

LEMMA RowsSame ==
    ASSUME GatewayTypeOK, UNCHANGED row
    PROVE  RowStep
  BY DEF GatewayTypeOK, RowStep, Rows, Row, Keeps, FinalKept

LEMMA SessionSame ==
    ASSUME GatewayTypeOK, GatewaySound, Keeps(row, row'), UNCHANGED gw, NEW c \in Conns
    PROVE  SessionStep(c)
<1>1. gw[c] \in Sessions /\ SeenIn(gw[c], row)
  BY DEF GatewayTypeOK, GatewaySound, Sessions
<1>2. SeenIn(gw'[c], row')
  BY <1>1, Kept
<1> QED
  BY <1>2 DEF GatewayTypeOK, SessionStep, Sessions

LEMMA DownSame ==
    ASSUME GatewayTypeOK, GatewaySound, Keeps(row, row'), UNCHANGED down, NEW c \in Conns
    PROVE  DownStep(c)
<1>1. down[c] \in Seq(FromServer) /\ AckedIn(down[c], row)
  BY DEF GatewayTypeOK, GatewaySound
<1>2. AckedIn(down'[c], row')
  BY <1>1, Kept
<1> QED
  BY <1>2 DEF GatewayTypeOK, DownStep

LEMMA CloseStep ==
    ASSUME GatewayTypeOK, NEW c \in Conns, Close(c)
    PROVE  SessionStep(c)
<1>1. NoSession \in Sessions
  BY DEF NoSession, Sessions, Unseen, NoMessage, View, Status, Delivery
<1>2. gw'[c] = NoSession /\ gw' \in [Conns -> Sessions]
  BY <1>1 DEF Close, GatewayTypeOK, Sessions
<1> QED
  BY <1>2 DEF SessionStep, SeenIn, NoSession, NoMessage, Msg, Close, GatewayTypeOK

LEMMA ReadStep ==
    ASSUME GatewayTypeOK, NEW c \in Conns, up[c] # <<>>, Read(c)
    PROVE  up' \in [Conns -> Seq(FromNode)]
<1>1. up[c] \in Seq(FromNode) /\ Tail(up[c]) \in Seq(FromNode)
  BY SequenceFacts DEF GatewayTypeOK
<1> QED
  BY <1>1 DEF Read, GatewayTypeOK

LEMMA DeliverStep ==
    ASSUME GatewayTypeOK, GatewaySound, Keeps(row, row'), NEW c \in Conns,
           NEW ms \in Seq(FromServer), AckedIn(ms, row'), Deliver(c, ms)
    PROVE  DownStep(c)
<1>1. down[c] \in Seq(FromServer) /\ AckedIn(down[c], row)
  BY DEF GatewayTypeOK, GatewaySound
<1>2. AckedIn(down[c], row')
  BY <1>1, Kept
<1>3. down[c] \o ms \in Seq(FromServer) /\ AckedIn(down[c] \o ms, row')
  BY <1>1, <1>2, AckedConcat, SequenceFacts
<1>4. CASE link = c
  BY <1>3, <1>4 DEF Deliver, DownStep, GatewayTypeOK
<1>5. CASE link # c
  BY <1>2, <1>5 DEF Deliver, DownStep, GatewayTypeOK
<1> QED
  BY <1>4, <1>5

\* The other writers of a row.
LEMMA WritersStep ==
    ASSUME GatewayTypeOK, GatewaySound, NEW j \in Jobs,
           \/ Create(j) \/ CancelRead(j) \/ CancelWrite(j) \/ WaiterDeadline(j) \/ WaiterFail(j)
           \/ RevokeNode \/ OfferLapse(j)
    PROVE  GatewayStep
<1>1. RowStep /\ deciding' \in [Jobs -> SUBSET {"user", "waiter"}] /\ revoked' \in BOOLEAN
  <2>0. /\ row \in Rows /\ row[j] \in Row
        /\ deciding \in [Jobs -> SUBSET {"user", "waiter"}] /\ revoked \in BOOLEAN
    BY DEF GatewayTypeOK, Rows, Row
  <2> USE DEF RowStep, Rows, Keeps, FinalKept, Terminal
  <2>1. CASE Create(j)
    <3>1. row' = [row EXCEPT ![j] = [@ EXCEPT !.status = "queued"]] /\ row[j].status = "absent"
      BY <2>1 DEF Create
    <3>2. [row[j] EXCEPT !.status = "queued"] \in Row
      BY <2>0 DEF Row, Status
    <3> QED
      BY <2>0, <2>1, <3>1, <3>2 DEF Create, Row
  <2>2. CASE CancelWrite(j)
    <3>1. row' = [row EXCEPT ![j] = [@ EXCEPT !.status = "cancelled", !.delivery = "cancel_pending"]]
      BY <2>2 DEF CancelWrite
    <3>2. [row[j] EXCEPT !.status = "cancelled", !.delivery = "cancel_pending"] \in Row
      BY <2>0 DEF Row, Status, Delivery
    <3>3. /\ row' \in Rows /\ row'[j].status = "cancelled"
          /\ \A k \in Jobs \ {j} : row'[k] = row[k]
      BY <2>0, <3>1, <3>2 DEF Row
    <3> QED
      BY <2>0, <2>2, <3>3 DEF CancelWrite, Writes, StaleReader
  <2>3. CASE CancelRead(j) \/ WaiterDeadline(j)
    BY <2>0, <2>3 DEF CancelRead, WaiterDeadline, Reads
  <2>4. CASE WaiterFail(j)
    <3>1. row' = [row EXCEPT ![j] = [@ EXCEPT !.status = "failed"]]
      BY <2>4 DEF WaiterFail
    <3>2. [row[j] EXCEPT !.status = "failed"] \in Row
      BY <2>0 DEF Row, Status
    <3>3. /\ row' \in Rows /\ row'[j].status = "failed"
          /\ \A k \in Jobs \ {j} : row'[k] = row[k]
      BY <2>0, <3>1, <3>2 DEF Row
    <3> QED
      BY <2>0, <2>4, <3>3 DEF WaiterFail, Writes, StaleReader
  <2>5. CASE RevokeNode
    BY <2>0, <2>5 DEF RevokeNode, Row, Status
  <2>6. CASE OfferLapse(j)
    BY <2>0, <2>6 DEF OfferLapse, Row
  <2> QED
    BY <2>1, <2>2, <2>3, <2>4, <2>5, <2>6
<1>2. UNCHANGED <<gw, up, down, link>>
  BY DEF Create, CancelRead, CancelWrite, WaiterDeadline, WaiterFail, Reads, Writes, RevokeNode,
     OfferLapse
<1>3. GatewayTypeOK'
  BY <1>1, <1>2 DEF GatewayTypeOK, RowStep, Rows, Row
<1>4. Keeps(row, row')
  BY <1>1 DEF RowStep
<1>5. ASSUME NEW c \in Conns PROVE SeenIn(gw'[c], row') /\ AckedIn(down'[c], row')
  BY <1>2, <1>4, SessionSame, DownSame DEF SessionStep, DownStep
<1> QED
  BY <1>1, <1>3, <1>5 DEF GatewayStep, GatewaySound, RowStep

-----------------------------------------------------------------------------
(* The server: a session's steps. *)

LEMMA SeenType ==
    ASSUME GatewayTypeOK, NEW c \in Conns, NEW j \in Jobs
    PROVE  Seen(c, j) \in View
  BY DEF Seen, GatewayTypeOK, View

\* A commit writes a status the session did not read: a final one, or one the
\* row allows; and never over one it read as final.
LEMMA CommitStep ==
    ASSUME GatewayTypeOK, GatewaySound, NEW c \in Conns, NEW j \in Jobs,
           NEW status \in Status, NEW delivery \in Delivery, NEW acked \in BOOLEAN,
           NEW replies \in Seq(FromServer), Commit(c, j, status, delivery, acked, replies),
           gw[c].message.job = j,
           gw[c].read.status \in Terminal => status = gw[c].read.status,
           status \in Terminal \/ status = gw[c].read.status \/ row[j].status \notin Terminal
    PROVE  RowStep /\ SessionStep(c)
<1> DEFINE sees == gw[c].read
<1>1. sees \in View /\ gw[c] \in Sessions /\ SeenIn(gw[c], row)
  BY DEF GatewayTypeOK, GatewaySound, Sessions
<1>2. row' \in Rows
  <2>1. row[j] \in Row
    BY DEF GatewayTypeOK, Row
  <2>2. PICK s \in Status, d \in Delivery, a \in BOOLEAN :
           row' = [row EXCEPT ![j] = [@ EXCEPT !.status = s, !.delivery = d, !.acked = a]]
    <3> DEFINE s0 == IF status = gw[c].read.status THEN row[j].status ELSE status
               d0 == IF delivery = gw[c].read.delivery THEN row[j].delivery ELSE delivery
               a0 == row[j].acked \/ acked
    <3>1. s0 \in Status /\ d0 \in Delivery /\ a0 \in BOOLEAN
      BY <2>1 DEF Row
    <3>2. row' = [row EXCEPT ![j].status = s0, ![j].delivery = d0, ![j].acked = a0]
      BY <2>1 DEF Commit, GatewayTypeOK, Row
    <3> HIDE DEF s0, d0, a0
    <3> QED
      BY <2>1, <3>1, <3>2 DEF GatewayTypeOK
  <2>3. [row[j] EXCEPT !.status = s, !.delivery = d, !.acked = a] \in Row
    BY <2>1, <2>2 DEF Row
  <2> QED
    BY <2>2, <2>3 DEF GatewayTypeOK, Rows, Row
<1>3. /\ row'[j].status = IF status = sees.status THEN row[j].status ELSE status
      /\ \A k \in Jobs \ {j} : row'[k] = row[k]
  BY DEF Commit, GatewayTypeOK
<1>4. Keeps(row, row')
  BY <1>3 DEF Keeps
<1>5. FinalKept
  BY <1>3 DEF FinalKept, StaleReader
<1> DEFINE seen == IF gw[c].held = j THEN [status |-> status, delivery |-> delivery] ELSE gw[c].seen
           next == [pc |-> "list", held |-> gw[c].held, seen |-> seen,
                    message |-> NoMessage, read |-> Unseen]
<1>6. gw' = [gw EXCEPT ![c] = next] /\ gw'[c] = next
  BY DEF Commit, GatewayTypeOK
<1>7. next \in Sessions
  <2>1. seen \in View /\ Unseen \in View
    BY <1>1 DEF Sessions, View, Unseen, Status, Delivery
  <2> QED
    BY <1>1, <2>1 DEF Sessions
<1>8. gw' \in [Conns -> Sessions] /\ \A d \in Conns \ {c} : gw'[d] = gw[d]
  BY <1>6, <1>7 DEF GatewayTypeOK, Sessions
<1>9. SeenIn(gw'[c], row')
  <2>1. gw[c].held # NoJob /\ seen.status \in Terminal => row'[gw[c].held].status \in Terminal
    <3>1. CASE gw[c].held = j
      <4>1. sees.status \in Terminal => row[j].status \in Terminal
        BY <1>1, JobsFinite DEF SeenIn
      <4> QED
        BY <1>3, <3>1, <4>1
    <3>2. CASE gw[c].held # j
      <4>1. SeenIn(gw[c], row')
        BY <1>1, <1>4, Kept
      <4> QED
        BY <3>2, <4>1 DEF SeenIn
    <3> QED
      BY <3>1, <3>2
  <2> HIDE DEF seen
  <2> QED
    BY <1>6, <2>1 DEF SeenIn, NoMessage, Msg
<1> QED
  BY <1>2, <1>4, <1>5, <1>8, <1>9 DEF RowStep, SessionStep

LEMMA ListStep ==
    ASSUME GatewayTypeOK, GatewaySound, NEW c \in Conns, ListMessages(c)
    PROVE  GatewayStep
<1>1. UNCHANGED <<deciding, revoked, link>>
  BY DEF ListMessages
<1>2. CASE Close(c) /\ up' = [up EXCEPT ![c] = <<>>] /\ UNCHANGED <<row, down>>
  <2>1. RowStep /\ Keeps(row, row')
    BY <1>2, RowsSame DEF RowStep
  <2>2. up' \in [Conns -> Seq(FromNode)]
    BY <1>2 DEF GatewayTypeOK
  <2> QED
    BY <1>1, <1>2, <2>1, <2>2, CloseStep, DownSame, StepOfParts
<1>3. CASE ~Close(c) \/ ~(up' = [up EXCEPT ![c] = <<>>]) \/ ~(UNCHANGED <<row, down>>)
  <2>1. /\ row' = [j \in Jobs |-> IF ToOffer(j)
                        THEN [row[j] EXCEPT !.delivery = "sent", !.stale = FALSE]
                        ELSE row[j]]
        /\ UNCHANGED up
    BY <1>3 DEF ListMessages
  <2>2. PICK ns \in Notices :
           LET held == IF ns = <<>> THEN gw[c].held ELSE Last(ns).job
           IN  /\ gw' = [gw EXCEPT ![c].pc = "recv", ![c].held = held,
                     ![c].seen = IF held = NoJob THEN Unseen ELSE ViewOf(row'[held])]
               /\ Deliver(c, ns)
    BY <1>3 DEF ListMessages
  <2>3. RowStep
    <3>1. \A j \in Jobs : row[j] \in Row
      BY DEF GatewayTypeOK, Row
    <3>2. row' \in Rows
      BY <2>1, <3>1 DEF Rows, Row, Delivery
    <3>3. \A j \in Jobs : row'[j].status = row[j].status
      BY <2>1, <3>1 DEF Row
    <3> QED
      BY <3>2, <3>3 DEF RowStep, Keeps, FinalKept
  <2>4. DownStep(c)
    BY <2>2, <2>3, NoticesType, DeliverStep DEF RowStep
  <2>5. SessionStep(c)
    <3> DEFINE held == IF ns = <<>> THEN gw[c].held ELSE Last(ns).job
               seen == IF held = NoJob THEN Unseen ELSE ViewOf(row'[held])
    <3>1. held \in Jobs \cup {NoJob}
      BY NoticesType DEF GatewayTypeOK
    <3>2. seen \in View
      BY <2>3, <3>1 DEF RowStep, Rows, Row, ViewOf, View, Unseen, Status, Delivery
    <3>3. held # NoJob => seen.status = row'[held].status
      BY DEF ViewOf
    <3>4. gw' = [gw EXCEPT ![c] = [@ EXCEPT !.pc = "recv", !.held = held, !.seen = seen]]
      BY <2>2 DEF GatewayTypeOK
    <3> HIDE DEF held, seen
    <3> DEFINE next == [gw[c] EXCEPT !.pc = "recv", !.held = held, !.seen = seen]
    <3>5. gw[c] \in Sessions /\ SeenIn(gw[c], row')
      <4>1. gw[c] \in Sessions /\ SeenIn(gw[c], row)
        BY DEF GatewayTypeOK, GatewaySound, Sessions
      <4> QED
        BY <2>3, <4>1, Kept DEF RowStep
    <3>6. /\ next \in Sessions /\ next.pc = "recv" /\ next.held = held /\ next.seen = seen
          /\ next.message = gw[c].message /\ next.read = gw[c].read
      BY <3>1, <3>2, <3>5 DEF Sessions
    <3>7. SeenIn(next, row')
      BY <3>3, <3>5, <3>6 DEF SeenIn
    <3> QED
      BY <3>4, <3>6, <3>7 DEF SessionStep, GatewayTypeOK, Sessions
  <2> QED
    BY <1>1, <2>1, <2>3, <2>4, <2>5, StepOfParts DEF GatewayTypeOK
<1> QED
  BY <1>2, <1>3

\* What is answered: an acknowledgement only of a row that is final.
LEMMA ApplyStep ==
    ASSUME GatewayTypeOK, GatewaySound, NEW c \in Conns, NEW m, m = gw[c].message,
           m.type \in ToServer,
           \/ m.type = "ack" /\ ApplyAck(c, m.job)
           \/ m.type = "accepted" /\ ApplyAccepted(c, m.job)
           \/ m.type = "rejected" /\ ApplyRejected(c, m.job)
           \/ m.type = "progress" /\ ApplyProgress(c, m.job)
           \/ m.type \in Outcome /\ ApplyOutcome(c, m.job, m.type)
    PROVE  RowStep /\ SessionStep(c) /\ DownStep(c)
<1>1. CASE Refuse(c)
  <2>1. RowStep /\ Keeps(row, row')
    BY <1>1, RowsSame DEF RowStep, Refuse
  <2> QED
    BY <1>1, <2>1, CloseStep, DownSame DEF Refuse
<1>2. CASE ~Refuse(c)
  <2> DEFINE j == m.job
             sees == gw[c].read
  <2>1. j \in Jobs
    <3>1. m \in FromNode \cup {NoMessage}
      BY DEF GatewayTypeOK
    <3> QED
      BY <3>1 DEF FromNode, NoMessage, Msg, ToServer, Outcome
  <2>2. sees \in View
    BY DEF GatewayTypeOK
  <2>3. PICK status \in Status, delivery \in Delivery, acked \in BOOLEAN, type \in {"none", "ack", "acknowledged"} :
          /\ Commit(c, j, status, delivery, acked, IF type = "none" THEN <<>> ELSE <<Msg(type, j)>>)
          /\ sees.status \in Terminal => status = sees.status
          /\ status \in Terminal \/ status = sees.status \/ row[j].status \notin Terminal
          /\ type = "acknowledged" => status \in Terminal /\ status = sees.status
    <3> USE DEF Terminal, Status, Delivery
    <3>1. CASE m.type = "ack" /\ ApplyAck(c, j)
      <4>1. /\ Commit(c, j, sees.status, "acknowledged", TRUE, <<Msg("acknowledged", j)>>)
            /\ sees.status \in Terminal
        BY <1>2, <3>1 DEF ApplyAck
      <4> QED
        BY <4>1
    <3>2. CASE m.type = "accepted" /\ ApplyAccepted(c, j)
      <4>1. /\ Commit(c, j, "running", "accepted", FALSE, <<>>)
            /\ \/ sees.status = "queued" /\ row[j].status = "queued"
               \/ sees.status = "running"
        BY <1>2, <3>2 DEF ApplyAccepted
      <4> QED
        BY <4>1
    <3>3. CASE m.type = "rejected" /\ ApplyRejected(c, j)
      <4>1. /\ Commit(c, j, "failed", "result_pending_ack", FALSE, <<>>)
            /\ sees.status \in {"queued", "running"}
        BY <1>2, <3>3 DEF ApplyRejected
      <4> QED
        BY <4>1
    <3>4. CASE m.type = "progress" /\ ApplyProgress(c, j)
      <4>1. /\ Commit(c, j, sees.status, "running", FALSE, <<>>)
            /\ sees.status \in {"queued", "running"}
        BY <1>2, <3>4 DEF ApplyProgress
      <4> QED
        BY <4>1
    <3>5. CASE m.type \in Outcome /\ ApplyOutcome(c, j, m.type)
      <4>1. StatusOf(m.type) \in Terminal
        BY <3>5 DEF StatusOf, Outcome
      <4>2. CASE sees.status \in Terminal
        <5>1. Commit(c, j, sees.status, sees.delivery, FALSE, <<Msg("ack", j)>>)
          BY <3>5, <4>2 DEF ApplyOutcome
        <5> QED
          BY <2>2, <4>2, <5>1 DEF View
      <4>3. CASE sees.status \notin Terminal
        <5>1. Commit(c, j, StatusOf(m.type), "result_pending_ack", FALSE, <<Msg("ack", j)>>)
          BY <1>2, <3>5, <4>3 DEF ApplyOutcome
        <5> QED
          BY <4>1, <4>3, <5>1
      <4> QED
        BY <4>2, <4>3
    <3> QED
      BY <1>2, <3>1, <3>2, <3>3, <3>4, <3>5
  <2> DEFINE replies == IF type = "none" THEN <<>> ELSE <<Msg(type, j)>>
  <2>4. replies \in Seq(FromServer)
    <3>1. type # "none" => Msg(type, j) \in FromServer
      BY <2>1 DEF FromServer, ToNode, Msg
    <3> QED
      BY <3>1
  <2>5. RowStep /\ SessionStep(c)
    BY <2>1, <2>3, <2>4, CommitStep
  <2>6. AckedIn(replies, row')
    <3> SUFFICES ASSUME type = "acknowledged" PROVE row'[j].status \in Terminal
      BY DEF AckedIn, Msg
    <3>1. status = sees.status /\ status \in Terminal
      BY <2>3
    <3>2. row'[j].status = row[j].status
      BY <2>1, <2>3, <3>1 DEF Commit, GatewayTypeOK
    <3>3. row[j].status \in Terminal
      BY <2>1, <3>1, JobsFinite DEF GatewaySound, SeenIn
    <3> QED
      BY <3>2, <3>3
  <2>7. Deliver(c, replies)
    BY <2>3 DEF Commit
  <2> HIDE DEF replies
  <2> QED
    BY <2>4, <2>5, <2>6, <2>7, DeliverStep DEF RowStep
<1> QED
  BY <1>1, <1>2

LEMMA SessionsStep ==
    ASSUME GatewayTypeOK, GatewaySound, NEW c \in Conns, Session(c) \/ ReceiveTimeout(c)
    PROVE  GatewayStep
<1>1. CASE ReceiveResponse(c)
  <2>1. UNCHANGED <<row, deciding, revoked, down, link>> /\ up[c] # <<>> /\ Read(c)
    BY <1>1 DEF ReceiveResponse
  <2>2. RowStep /\ Keeps(row, row') /\ DownStep(c) /\ up' \in [Conns -> Seq(FromNode)]
    BY <2>1, RowsSame, DownSame, ReadStep DEF RowStep
  <2>3. SessionStep(c)
    <3>1. CASE Close(c)
      BY <3>1, CloseStep
    <3>2. CASE gw' = [gw EXCEPT ![c].pc = "list"]
      <4>1. SeenIn(gw[c], row)
        BY DEF GatewaySound
      <4> QED
        BY <2>1, <3>2, <4>1 DEF GatewayTypeOK, Sessions, SessionStep, SeenIn
    <3> QED
      BY <1>1, <3>1, <3>2 DEF ReceiveResponse
  <2> QED
    BY <2>1, <2>2, <2>3, StepOfParts
<1>2. CASE ListMessages(c)
  BY <1>2, ListStep
<1>3. CASE ReadMessage(c)
  <2> DEFINE m == Head(up[c])
             next == [gw[c] EXCEPT !.pc = "apply", !.message = m, !.read = Seen(c, m.job)]
  <2>1. up[c] # <<>> /\ Read(c) /\ UNCHANGED <<row, deciding, revoked, down, link>>
    BY <1>3 DEF ReadMessage
  <2>2. RowStep /\ Keeps(row, row') /\ DownStep(c) /\ up' \in [Conns -> Seq(FromNode)]
    BY <2>1, RowsSame, DownSame, ReadStep DEF RowStep
  <2>3. m \in FromNode
    BY <2>1, SequenceFacts DEF GatewayTypeOK
  <2>4. CASE Close(c)
    BY <2>1, <2>2, <2>4, CloseStep, StepOfParts
  <2>5. CASE m.type # "response" /\ gw' = [gw EXCEPT ![c] = next]
    <3> HIDE DEF m
    <3>1. m.type \in ToServer /\ m.job \in Jobs
      BY <2>3, <2>5 DEF FromNode, Msg
    <3>2. gw[c] \in Sessions /\ SeenIn(gw[c], row) /\ Seen(c, m.job) \in View
      BY <3>1, SeenType DEF GatewayTypeOK, GatewaySound, Sessions
    <3>3. /\ next \in Sessions /\ next.held = gw[c].held /\ next.seen = gw[c].seen
          /\ next.message = m /\ next.read = Seen(c, m.job)
      BY <2>3, <3>2 DEF Sessions
    <3>4. Seen(c, m.job).status \in Terminal => row[m.job].status \in Terminal
      BY <3>1, <3>2, JobsFinite DEF Seen, SeenIn
    <3>5. SeenIn(next, row)
      BY <3>1, <3>2, <3>3, <3>4 DEF SeenIn
    <3>6. SessionStep(c)
      BY <2>1, <2>5, <3>3, <3>5 DEF SessionStep, GatewayTypeOK, Sessions
    <3> QED
      BY <2>1, <2>2, <3>6, StepOfParts
  <2> QED
    BY <1>3, <2>4, <2>5 DEF ReadMessage, GatewayTypeOK
<1>3a. CASE ApplyMessage(c)
  <2> DEFINE m == gw[c].message
  <2>1. gw[c].pc = "apply" /\ UNCHANGED <<deciding, revoked, link>>
    BY <1>3a DEF ApplyMessage
  <2>2. m.type \in ToServer
    BY <2>1 DEF GatewaySound, SeenIn
  <2>3. \/ m.type = "ack" /\ ApplyAck(c, m.job)
        \/ m.type = "accepted" /\ ApplyAccepted(c, m.job)
        \/ m.type = "rejected" /\ ApplyRejected(c, m.job)
        \/ m.type = "progress" /\ ApplyProgress(c, m.job)
        \/ m.type \in Outcome /\ ApplyOutcome(c, m.job, m.type)
    BY <1>3a, <2>2 DEF ApplyMessage, ToServer, Outcome
  <2>4. RowStep /\ SessionStep(c) /\ DownStep(c)
    BY <2>2, <2>3, ApplyStep
  <2>5. up' \in [Conns -> Seq(FromNode)]
    BY <1>3a DEF ApplyMessage, GatewayTypeOK
  <2> QED
    BY <2>1, <2>4, <2>5, StepOfParts
<1>4. CASE SeesDisconnect(c)
  <2>1. Close(c) /\ UNCHANGED <<row, deciding, revoked, up, down, link>>
    BY <1>4 DEF SeesDisconnect
  <2>2. RowStep /\ Keeps(row, row') /\ DownStep(c) /\ SessionStep(c)
    BY <2>1, RowsSame, DownSame, CloseStep DEF RowStep
  <2> QED
    BY <2>1, <2>2, StepOfParts DEF GatewayTypeOK
<1>5. CASE ReceiveTimeout(c)
  <2>1. gw' = [gw EXCEPT ![c].pc = "list"] /\ UNCHANGED <<row, deciding, revoked, up, down, link>>
    BY <1>5 DEF ReceiveTimeout
  <2>2. RowStep /\ Keeps(row, row') /\ DownStep(c)
    BY <2>1, RowsSame, DownSame DEF RowStep
  <2>3. SessionStep(c)
    <3>1. SeenIn(gw[c], row)
      BY DEF GatewaySound
    <3> QED
      BY <2>1, <3>1 DEF GatewayTypeOK, Sessions, SessionStep, SeenIn
  <2> QED
    BY <2>1, <2>2, <2>3, StepOfParts DEF GatewayTypeOK
<1> QED
  BY <1>1, <1>2, <1>3, <1>3a, <1>4, <1>5 DEF Session

-----------------------------------------------------------------------------
(* The connection. *)

LEMMA ConnectStep ==
    ASSUME GatewayTypeOK, GatewaySound, NEW c \in Conns, Connect(c)
    PROVE  GatewayStep
<1>1. link' = c /\ UNCHANGED <<row, deciding, revoked, up>>
  BY DEF Connect
<1>2. RowStep /\ Keeps(row, row')
  BY <1>1, RowsSame DEF RowStep
<1>2a. PICK ms \in {<<>>, <<Msg("challenge", NoJob)>>} : down' = [down EXCEPT ![c] = ms]
  BY DEF Connect
<1>2b. gw' = gw \/ gw' = [gw EXCEPT ![c] = [@ EXCEPT !.pc = "challenge"]]
  BY DEF Connect
<1>3. gw' \in [Conns -> Sessions] /\ down' \in [Conns -> Seq(FromServer)]
  <2>1. ms \in Seq(FromServer)
    <3>1. Msg("challenge", NoJob) \in FromServer
      BY DEF FromServer
    <3>2. \A x \in FromServer : <<>> \in Seq(FromServer) /\ <<x>> \in Seq(FromServer)
      OBVIOUS
    <3>3. ms = <<>> \/ ms = <<Msg("challenge", NoJob)>>
      BY Zenon
    <3> QED
      BY <3>1, <3>2, <3>3, Zenon
  <2>2. \A g \in Sessions : [g EXCEPT !.pc = "challenge"] \in Sessions
    BY DEF Sessions
  <2>3. gw \in [Conns -> Sessions] /\ down \in [Conns -> Seq(FromServer)]
    BY DEF GatewayTypeOK, Sessions
  <2>4. gw' \in [Conns -> Sessions]
    BY <1>2b, <2>2, <2>3
  <2> QED
    BY <1>2a, <2>1, <2>3, <2>4
<1>4. ASSUME NEW d \in Conns PROVE SeenIn(gw'[d], row') /\ AckedIn(down'[d], row')
  <2>1. SeenIn(gw[d], row) /\ AckedIn(down[d], row)
    BY DEF GatewaySound
  <2>2. /\ gw'[d].held = gw[d].held /\ gw'[d].seen = gw[d].seen
        /\ gw'[d].message = gw[d].message /\ gw'[d].read = gw[d].read
        /\ gw'[d].pc = "apply" => gw[d].pc = "apply"
    <3>1. \A g \in Sessions : /\ [g EXCEPT !.pc = "challenge"].held = g.held
                              /\ [g EXCEPT !.pc = "challenge"].seen = g.seen
                              /\ [g EXCEPT !.pc = "challenge"].message = g.message
                              /\ [g EXCEPT !.pc = "challenge"].read = g.read
                              /\ [g EXCEPT !.pc = "challenge"].pc = "challenge"
      BY DEF Sessions
    <3>2. gw[d] \in Sessions
      BY DEF GatewayTypeOK, Sessions
    <3>3. gw'[d] = gw[d] \/ gw'[d] = [gw[d] EXCEPT !.pc = "challenge"]
      BY <1>2b DEF GatewayTypeOK
    <3> QED
      BY <3>1, <3>2, <3>3
  <2>3. AckedIn(<<>>, row) /\ AckedIn(<<Msg("challenge", NoJob)>>, row)
    BY DEF AckedIn, Msg
  <2> QED
    BY <1>1, <1>2a, <2>1, <2>2, <2>3 DEF GatewayTypeOK, SeenIn
<1>5. GatewayTypeOK'
  BY <1>1, <1>3 DEF GatewayTypeOK, Sessions
<1> QED
  BY <1>2, <1>4, <1>5 DEF GatewayStep, GatewaySound, RowStep

LEMMA LinkStep ==
    ASSUME GatewayTypeOK, GatewaySound,
           \/ link # NoConn /\ Leave
           \/ UNCHANGED gatewayVars
           \/ NodeSeesClose
    PROVE  GatewayStep
<1>1. UNCHANGED <<row, deciding, revoked, gw>>
  BY DEF Leave, gatewayVars, NodeSeesClose
<1>2. RowStep
  BY <1>1, RowsSame
<1>3. link' \in Conns \cup {NoConn} /\ up' \in [Conns -> Seq(FromNode)]
  <2>1. CASE link # NoConn /\ Leave
    <3>1. link \in Conns /\ up[link] \in Seq(FromNode)
      BY <2>1 DEF GatewayTypeOK
    <3>2. PICK n \in 0..Len(up[link]) : up' = [up EXCEPT ![link] = SubSeq(@, 1, n)]
      BY <2>1 DEF Leave
    <3>3. SubSeq(up[link], 1, n) \in Seq(FromNode)
      BY <3>1, <3>2, SequenceFacts
    <3> QED
      BY <2>1, <3>1, <3>2, <3>3 DEF Leave, GatewayTypeOK
  <2>2. CASE UNCHANGED gatewayVars \/ NodeSeesClose
    BY <2>2 DEF gatewayVars, NodeSeesClose, GatewayTypeOK
  <2> QED
    BY <2>1, <2>2
<1>4. \/ UNCHANGED down
      \/ link \in Conns /\ down' = [down EXCEPT ![link] = <<>>]
  BY DEF Leave, gatewayVars, NodeSeesClose, GatewayTypeOK
<1>5. down' \in [Conns -> Seq(FromServer)] /\ \A d \in Conns : AckedIn(down'[d], row')
  <2>1. <<>> \in Seq(FromServer) /\ AckedIn(<<>>, row)
    BY DEF AckedIn
  <2> QED
    BY <1>1, <1>4, <2>1 DEF GatewayTypeOK, GatewaySound
<1>6. GatewayTypeOK'
  BY <1>1, <1>3, <1>5 DEF GatewayTypeOK
<1> QED
  BY <1>1, <1>2, <1>5, <1>6 DEF GatewayStep, GatewaySound, RowStep

-----------------------------------------------------------------------------
(* The node. *)

\* Of the server's variables a handler of the node changes the messages only.
NodeStepsGateway ==
    /\ UNCHANGED <<row, deciding, revoked, gw, link>>
    /\ up' \in [Conns -> Seq(FromNode)]
    /\ \/ UNCHANGED down
       \/ link \in Conns /\ down[link] # <<>> /\ down' = [down EXCEPT ![link] = Tail(@)]

LEMMA NodeGatewayStep ==
    ASSUME GatewayTypeOK, GatewaySound, NodeStepsGateway
    PROVE  GatewayStep
<1>1. RowStep
  BY RowsSame DEF NodeStepsGateway
<1>2. down' \in [Conns -> Seq(FromServer)] /\ \A d \in Conns : AckedIn(down'[d], row')
  <2>1. ASSUME link \in Conns, down[link] # <<>>
        PROVE  Tail(down[link]) \in Seq(FromServer) /\ AckedIn(Tail(down[link]), row)
    BY <2>1, SequenceFacts, AckedTail DEF GatewayTypeOK, GatewaySound
  <2> QED
    BY <2>1 DEF NodeStepsGateway, GatewayTypeOK, GatewaySound
<1>3. GatewayTypeOK'
  BY <1>2 DEF NodeStepsGateway, GatewayTypeOK
<1> QED
  BY <1>1, <1>2, <1>3 DEF NodeStepsGateway, GatewayStep, GatewaySound, RowStep

LEMMA SendType ==
    ASSUME GatewayTypeOK, NEW m \in FromNode
    PROVE  Send(up, m) \in [Conns -> Seq(FromNode)]
<1>1. CASE link = NoConn
  BY <1>1 DEF Send, GatewayTypeOK
<1>2. CASE link # NoConn
  <2>1. Append(up[link], m) \in Seq(FromNode)
    BY <1>2, SequenceFacts DEF GatewayTypeOK
  <2> QED
    BY <2>1 DEF Send, GatewayTypeOK
<1> QED
  BY <1>1, <1>2

LEMMA NodeMessages ==
    /\ \A j \in Jobs, t \in ToServer : Msg(t, j) \in FromNode
    /\ Msg("response", NoJob) \in FromNode
    /\ Outcome \subseteq ToServer /\ {"accepted", "rejected", "progress", "ack"} \subseteq ToServer
  BY DEF FromNode, Msg, ToServer

\* What a step of the node has to keep.
NodeSound == NodeTypeOK /\ (\A s \in saves : SaveIn(s, row)) /\ ResultKept

\* The spool keeps what it owes while it is not written, and rows stay final.
LEMMA UnwrittenKept ==
    ASSUME NodeSound, Keeps(row, row'), UNCHANGED <<spool, owed, clobbered>>
    PROVE  ResultKept'
  BY DEF NodeSound, NodeTypeOK, ResultKept, Keeps

LEMMA NodeSame ==
    ASSUME NodeSound, Keeps(row, row'), UNCHANGED nodeVars
    PROVE  NodeSound'
<1>1. ResultKept'
  BY UnwrittenKept DEF nodeVars
<1>2. \A s \in saves : SaveIn(s, row')
  BY Kept DEF NodeSound, NodeTypeOK
<1> QED
  BY <1>1, <1>2 DEF NodeSound, NodeTypeOK, nodeVars

\* A save that was computed from the spool as it is keeps what the spool owes.
LEMMA WrittenKept ==
    ASSUME NodeSound, NEW s \in saves, Written(s), UNCHANGED row,
           \/ UNCHANGED owed
           \/ owed' = IF Carries(s) THEN owed \cup {s.job} ELSE owed
    PROVE  ResultKept' /\ spool' \in Spool /\ clobbered' \in BOOLEAN
<1>1. s \in Save /\ SaveIn(s, row)
  BY DEF NodeSound, NodeTypeOK
<1>2. spool' \in Spool /\ clobbered' \in BOOLEAN
  BY <1>1 DEF Written, Save, NodeSound, NodeTypeOK
<1>3. ResultKept'
  <2> SUFFICES ASSUME NEW j \in owed', ~clobbered'
               PROVE  row[j].status \in Terminal \/ spool'[j] # "none"
    BY DEF ResultKept
  <2>1. ~clobbered /\ s.base = spool /\ spool' = s.spool
    BY DEF Written
  <2>2. CASE j = s.job
    <3>1. CASE s.op = "clear"
      BY <1>1, <2>2, <3>1 DEF SaveIn
    <3>2. CASE Carries(s)
      BY <1>1, <2>1, <2>2, <3>2 DEF SaveIn
    <3>3. s.op # "renew"
      BY <1>1, <2>2, JobsFinite DEF SaveIn, NodeSound, NodeTypeOK, Carries
    <3> QED
      BY <1>1, <3>1, <3>2, <3>3 DEF Carries, Save
  <2>3. CASE j # s.job
    <3>1. j \in owed /\ j \in Jobs
      BY <2>3 DEF NodeSound, NodeTypeOK
    <3>2. s.spool[j] = s.base[j]
      BY <1>1, <2>3, <3>1 DEF SaveIn
    <3> QED
      BY <2>1, <3>1, <3>2 DEF NodeSound, ResultKept
  <2> QED
    BY <2>2, <2>3
<1> QED
  BY <1>2, <1>3

LEMMA SaveStep ==
    ASSUME GatewayTypeOK, NodeSound, NEW s \in saves, Saved(s) \/ SaveFails(s)
    PROVE  NodeSound' /\ NodeStepsGateway
<1>1. s \in Save /\ SaveIn(s, row) /\ spool \in Spool
  BY DEF NodeSound, NodeTypeOK
<1>2. /\ UNCHANGED <<row, deciding, revoked, gw, down, link, pending, effects>>
      /\ saves' = saves \ {s} /\ AfterSave(s, s.spool[s.job])
  BY DEF Saved, SaveFails
<1>3. Carries(s) => s.job \in Jobs /\ s.spool[s.job] \in Outcome
  BY <1>1 DEF SaveIn, Carries, Save, Spool
<1>4. up' \in [Conns -> Seq(FromNode)]
  <2>1. CASE ~Carries(s)
    BY <1>2, <2>1 DEF AfterSave, GatewayTypeOK
  <2>2. CASE Carries(s)
    <3>1. Msg(s.spool[s.job], s.job) \in FromNode
      BY <1>3, <2>2, NodeMessages
    <3> QED
      BY <1>2, <2>2, <3>1, SendType DEF AfterSave
  <2> QED
    BY <2>1, <2>2
<1>5. ResultKept' /\ spool' \in Spool /\ clobbered' \in BOOLEAN /\ owed' \subseteq Jobs
  <2>1. CASE Saved(s)
    <3>1. Written(s) /\ owed' = IF Carries(s) THEN owed \cup {s.job} ELSE owed
      BY <2>1 DEF Saved
    <3>2. owed' \subseteq Jobs
      BY <1>3, <3>1 DEF NodeSound, NodeTypeOK
    <3> QED
      BY <1>2, <3>1, <3>2, WrittenKept
  <2>2. CASE SaveFails(s)
    <3>1. UNCHANGED <<spool, owed, clobbered>> /\ Keeps(row, row')
      BY <1>2, <2>2 DEF SaveFails, Keeps
    <3> QED
      BY <3>1, UnwrittenKept DEF NodeSound, NodeTypeOK
  <2> QED
    BY <2>1, <2>2
<1>6. /\ active' \in [Jobs -> {"no", "ready", "working", "reporting"}] /\ aborted' \in [Jobs -> BOOLEAN]
      /\ shown' \in [pending : Jobs \cup {NoJob}, current : Jobs \cup {NoJob}]
  BY <1>2, <1>3 DEF AfterSave, Carries, NodeSound, NodeTypeOK
<1>7. NodeTypeOK'
  BY <1>2, <1>5, <1>6 DEF NodeSound, NodeTypeOK
<1> QED
  BY <1>2, <1>4, <1>5, <1>7 DEF NodeSound, NodeStepsGateway

\* A save as SaveOutcome and ClearSpool start it.
LEMMA StartedSave ==
    ASSUME NodeSound, NEW j \in Jobs,
           \/ \E op \in {"report", "answer"}, outcome \in Outcome : SaveOutcome(op, j, outcome)
           \/ row[j].status \in Terminal /\ ClearSpool(j)
           \/ UNCHANGED saves
    PROVE  saves' \subseteq Save /\ \A s \in saves' : SaveIn(s, row)
<1>1. CASE UNCHANGED saves
  BY <1>1 DEF NodeSound, NodeTypeOK
<1>2. CASE saves' # saves
  <2>1. PICK s : /\ saves' = saves \cup {s}
                 /\ \/ \E op \in {"report", "answer"}, outcome \in Outcome :
                         s = [op |-> op, job |-> j, base |-> spool, spool |-> [spool EXCEPT ![j] = outcome]]
                    \/ /\ row[j].status \in Terminal
                       /\ s = [op |-> "clear", job |-> j, base |-> spool, spool |-> [spool EXCEPT ![j] = "none"]]
    BY <1>2 DEF SaveOutcome, ClearSpool
  <2>2. spool \in Spool
    BY DEF NodeSound, NodeTypeOK
  <2>3. s \in Save /\ SaveIn(s, row)
    BY <2>1, <2>2 DEF Save, SaveIn, Spool, Outcome, Carries
  <2> QED
    BY <2>1, <2>3 DEF NodeSound, NodeTypeOK
<1> QED
  BY <1>1, <1>2

\* The renewal's save writes the spool that is there.
LEMMA RenewStep ==
    ASSUME GatewayTypeOK, NodeSound, RenewToken
    PROVE  NodeSound' /\ NodeStepsGateway
<1> DEFINE s == [op |-> "renew", job |-> NoJob, base |-> spool, spool |-> spool]
<1>1. /\ saves' = saves \cup {s}
      /\ UNCHANGED <<pending, active, aborted, spool, shown, effects, owed, clobbered, gatewayVars>>
  BY DEF RenewToken
<1>2. s \in Save /\ SaveIn(s, row)
  BY DEF NodeSound, NodeTypeOK, Save, SaveIn, Carries
<1>3. UNCHANGED <<row, deciding, revoked, gw, up, down, link>>
  BY <1>1 DEF gatewayVars
<1>4. ResultKept'
  BY <1>1, <1>3, UnwrittenKept DEF Keeps
<1>5. NodeTypeOK'
  BY <1>1, <1>2 DEF NodeSound, NodeTypeOK
<1> QED
  BY <1>1, <1>2, <1>3, <1>4, <1>5 DEF NodeSound, NodeStepsGateway, GatewayTypeOK

LEMMA JobStep ==
    ASSUME GatewayTypeOK, NodeSound, NEW j \in Jobs,
           \/ UserAccepts(j) \/ UserRejects(j) \/ BeginEffect(j)
           \/ JobCancelled(j) \/ JobCompletes(j) \/ JobFails(j)
    PROVE  NodeSound' /\ NodeStepsGateway
<1>1. \A t \in {"accepted", "rejected", "progress"} : Send(up, Msg(t, j)) \in [Conns -> Seq(FromNode)]
  BY NodeMessages, SendType
<1>2. CASE UserAccepts(j) \/ UserRejects(j) \/ BeginEffect(j)
  <2> USE DEF UserAccepts, UserRejects, BeginEffect, AcceptJob
  <2>1. UNCHANGED <<spool, saves, owed, clobbered, row, deciding, revoked, gw, down, link>>
    BY <1>2
  <2>2. up' \in [Conns -> Seq(FromNode)]
    BY <1>1, <1>2
  <2>3. NodeTypeOK'
    BY <1>2 DEF NodeSound, NodeTypeOK
  <2>4. ResultKept'
    BY <2>1, UnwrittenKept DEF Keeps
  <2> QED
    BY <2>1, <2>2, <2>3, <2>4 DEF NodeSound, NodeStepsGateway
<1>3. CASE JobCancelled(j) \/ JobCompletes(j) \/ JobFails(j)
  <2>1. PICK outcome \in Outcome : Report(j, outcome)
    BY <1>3 DEF JobCancelled, JobCompletes, JobFails, Outcome
  <2>2. UNCHANGED <<pending, aborted, spool, shown, effects, owed, clobbered, gatewayVars>>
    BY <1>3 DEF JobCancelled, JobCompletes, JobFails
  <2>3. saves' \subseteq Save /\ \A s \in saves' : SaveIn(s, row)
    BY <2>1, StartedSave DEF Report
  <2>4. NodeTypeOK'
    BY <2>1, <2>2, <2>3 DEF Report, NodeSound, NodeTypeOK
  <2>5. ResultKept'
    BY <2>2, UnwrittenKept DEF Keeps, gatewayVars
  <2> QED
    BY <2>2, <2>3, <2>4, <2>5 DEF NodeSound, NodeStepsGateway, gatewayVars, GatewayTypeOK
<1> QED
  BY <1>2, <1>3

LEMMA HandleStep ==
    ASSUME GatewayTypeOK, GatewaySound, NodeSound, NEW expired \in BOOLEAN, HandleMessage(expired)
    PROVE  NodeSound' /\ NodeStepsGateway
<1> DEFINE m == Head(down[link])
           j == m.job
<1>1. /\ UNCHANGED <<spool, effects, owed, clobbered, row, deciding, revoked, gw, link>>
      /\ link \in Conns /\ down[link] # <<>> /\ down' = [down EXCEPT ![link] = Tail(@)]
  BY DEF HandleMessage, GatewayTypeOK
<1>2. m \in FromServer /\ down[link] \in Seq(FromServer)
  BY <1>1, SequenceFacts DEF GatewayTypeOK
<1>3. m.type = "challenge" \/ j \in Jobs
  BY <1>2 DEF FromServer, Msg
<1>4. m.type = "acknowledged" => row[j].status \in Terminal
  <2>1. AckedIn(down[link], row) /\ m = down[link][1] /\ 1 \in DOMAIN down[link]
    BY <1>1, <1>2 DEF GatewaySound
  <2> QED
    BY <2>1 DEF AckedIn
<1>5. \A t \in ToServer, i \in Jobs : Send(up, Msg(t, i)) \in [Conns -> Seq(FromNode)]
  BY NodeMessages, SendType
<1>6. \A i \in Jobs : spool[i] # "none" => spool[i] \in ToServer
  BY NodeMessages DEF NodeSound, NodeTypeOK, Spool
<1>7. up \in [Conns -> Seq(FromNode)]
  BY DEF GatewayTypeOK
<1> DEFINE Quietly == UNCHANGED <<pending, active, shown, saves, aborted>>
           Good == /\ up' \in [Conns -> Seq(FromNode)]
                   /\ saves' \subseteq Save /\ \A s \in saves' : SaveIn(s, row)
                   /\ NodeTypeOK'
<1>8. Good
  <2> HIDE DEF m, j
  <2>a. ASSUME UNCHANGED saves PROVE saves' \subseteq Save /\ \A s \in saves' : SaveIn(s, row)
    BY <2>a DEF NodeSound, NodeTypeOK
  <2>1. CASE m.type = "challenge" /\ Respond /\ Quietly
    <3>1. up' \in [Conns -> Seq(FromNode)]
      BY <2>1, NodeMessages, SendType DEF Respond
    <3> QED
      BY <1>1, <2>1, <2>a, <3>1 DEF NodeSound, NodeTypeOK
  <2>2. CASE m.type = "offer" /\ HandleOffer(j, expired) /\ UNCHANGED <<saves, aborted>>
    <3>1. j \in Jobs
      BY <1>3, <2>2
    <3>2. \/ up' = Send(up, Msg(spool[j], j)) /\ spool[j] # "none" /\ UNCHANGED <<pending, active, shown>>
          \/ /\ up' = Send(up, Msg("accepted", j)) \/ up' = Send(up, Msg("rejected", j)) \/ UNCHANGED up
             /\ UNCHANGED <<pending, active, shown>>
          \/ AcceptJob(j) /\ UNCHANGED pending
          \/ /\ pending' = pending \cup {j} /\ shown' = [shown EXCEPT !.pending = j]
             /\ UNCHANGED <<up, active>>
      <4>1. CASE spool[j] # "none"
        BY <2>2, <4>1 DEF HandleOffer
      <4>2. CASE spool[j] = "none" /\ active[j] # "no"
        BY <2>2, <4>2 DEF HandleOffer
      <4>3. CASE spool[j] = "none" /\ active[j] = "no" /\ j \in pending
        BY <2>2, <4>3 DEF HandleOffer
      <4>4. CASE spool[j] = "none" /\ active[j] = "no" /\ j \notin pending /\ expired
        BY <2>2, <4>4 DEF HandleOffer
      <4>5. CASE spool[j] = "none" /\ active[j] = "no" /\ j \notin pending /\ ~expired
        BY <2>2, <4>5 DEF HandleOffer
      <4> QED
        BY <4>1, <4>2, <4>3, <4>4, <4>5
    <3>3. up' \in [Conns -> Seq(FromNode)]
      BY <1>5, <1>6, <1>7, <3>1, <3>2, NodeMessages DEF AcceptJob
    <3>4. /\ pending' \subseteq Jobs /\ active' \in [Jobs -> {"no", "ready", "working", "reporting"}]
          /\ shown' \in [pending : Jobs \cup {NoJob}, current : Jobs \cup {NoJob}]
      BY <3>1, <3>2 DEF AcceptJob, NodeSound, NodeTypeOK
    <3> QED
      BY <1>1, <2>2, <2>a, <3>3, <3>4 DEF NodeSound, NodeTypeOK
  <2>b. ASSUME j \in Jobs, Replay(j)
        PROVE  /\ up' \in [Conns -> Seq(FromNode)]
               /\ saves' \subseteq Save /\ \A s \in saves' : SaveIn(s, row)
    <3>1. CASE spool[j] # "none"
      BY <1>5, <1>6, <2>a, <2>b, <3>1 DEF Replay
    <3>2. CASE spool[j] = "none"
      <4>1. SaveOutcome("answer", j, "failed") /\ UNCHANGED up
        BY <2>b, <3>2 DEF Replay
      <4>2. "failed" \in Outcome
        BY DEF Outcome
      <4> QED
        BY <1>7, <2>b, <4>1, <4>2, StartedSave
    <3> QED
      BY <3>1, <3>2
  <2>3. CASE m.type = "status" /\ HandleStatus(j) /\ UNCHANGED <<pending, active, shown, aborted>>
    <3>1. j \in Jobs
      BY <1>3, <2>3
    <3>2. CASE UNCHANGED <<up, saves>>
      BY <1>1, <1>7, <2>3, <2>a, <3>2 DEF NodeSound, NodeTypeOK
    <3>3. CASE Replay(j)
      BY <1>1, <2>3, <2>b, <3>1, <3>3 DEF NodeSound, NodeTypeOK
    <3> QED
      BY <2>3, <3>2, <3>3 DEF HandleStatus
  <2>4. CASE m.type = "replay" /\ Replay(j) /\ UNCHANGED <<pending, active, shown, aborted>>
    <3>1. j \in Jobs
      BY <1>3, <2>4
    <3> QED
      BY <1>1, <2>4, <2>b, <3>1 DEF NodeSound, NodeTypeOK
  <2>5. CASE m.type = "cancel" /\ HandleCancel(j) /\ UNCHANGED <<active, saves>>
    <3>1. j \in Jobs
      BY <1>3, <2>5
    <3>2. \/ UNCHANGED up \/ up' = Send(up, Msg("ack", j))
          \/ up' = Send(up, Msg(spool[j], j)) /\ spool[j] # "none"
      BY <2>5 DEF HandleCancel
    <3>3. up' \in [Conns -> Seq(FromNode)]
      BY <1>5, <1>6, <1>7, <3>1, <3>2, NodeMessages
    <3>4. /\ pending' \subseteq Jobs /\ aborted' \in [Jobs -> BOOLEAN]
          /\ shown' \in [pending : Jobs \cup {NoJob}, current : Jobs \cup {NoJob}]
      BY <2>5, <3>1 DEF HandleCancel, NodeSound, NodeTypeOK
    <3> QED
      BY <1>1, <2>5, <2>a, <3>3, <3>4 DEF NodeSound, NodeTypeOK
  <2>6. CASE m.type = "ack" /\ up' = Send(up, Msg("ack", j)) /\ Quietly
    <3>1. up' \in [Conns -> Seq(FromNode)]
      BY <1>3, <1>5, <2>6, NodeMessages
    <3> QED
      BY <1>1, <2>6, <2>a, <3>1 DEF NodeSound, NodeTypeOK
  <2>7. CASE m.type = "acknowledged" /\ ClearSpool(j) /\ UNCHANGED <<up, pending, active, shown, aborted>>
    <3>1. saves' \subseteq Save /\ \A s \in saves' : SaveIn(s, row)
      BY <1>3, <1>4, <2>7, StartedSave
    <3> QED
      BY <1>1, <1>7, <2>7, <3>1 DEF NodeSound, NodeTypeOK
  <2> QED
    BY <2>1, <2>2, <2>3, <2>4, <2>5, <2>6, <2>7 DEF HandleMessage, m, j
<1>9. ResultKept'
  BY <1>1, UnwrittenKept DEF Keeps
<1> QED
  BY <1>1, <1>8, <1>9 DEF NodeSound, NodeStepsGateway

\* The process ends and is started again.
LEMMA CrashStep ==
    ASSUME GatewayTypeOK, GatewaySound, NodeSound, Crash
    PROVE  GatewayStep /\ NodeSound'
<1>1. GatewayStep /\ UNCHANGED row
  BY LinkStep DEF Crash, Leave, gatewayVars
<1>2. UNCHANGED owed
  BY DEF Crash
<1>3. ResultKept' /\ spool' \in Spool /\ clobbered' \in BOOLEAN
  <2>1. CASE UNCHANGED <<spool, clobbered>>
    BY <1>1, <1>2, <2>1, UnwrittenKept DEF Keeps, NodeSound, NodeTypeOK
  <2>2. CASE \E s \in saves : Written(s)
    BY <1>1, <1>2, <2>2, WrittenKept
  <2> QED
    BY <2>1, <2>2 DEF Crash
<1>4. NodeTypeOK'
  BY <1>3 DEF Crash, NodeSound, NodeTypeOK
<1>5. saves' = {}
  BY DEF Crash
<1> QED
  BY <1>1, <1>3, <1>4, <1>5 DEF NodeSound

-----------------------------------------------------------------------------
(* The invariant. *)

LEMMA Initially == Init => IInv
<1> SUFFICES ASSUME Init PROVE IInv
  OBVIOUS
<1>1. GatewayTypeOK
  <2>1. <<>> \in Seq(FromNode) /\ <<>> \in Seq(FromServer)
    OBVIOUS
  <2>2. NoSession \in Sessions
    BY DEF NoSession, Sessions, Unseen, NoMessage, View, Status, Delivery
  <2>3. row \in Rows
    BY DEF Init, GatewayInit, Rows, Row, Status, Delivery
  <2> QED
    BY <2>1, <2>2, <2>3 DEF Init, GatewayInit, GatewayTypeOK, Sessions, Rows, Row
<1>2. NodeTypeOK /\ ResultKept /\ saves = {}
  BY DEF Init, NodeInit, NodeTypeOK, Spool, ResultKept
<1>3. GatewaySound
  BY DEF Init, GatewayInit, GatewaySound, SeenIn, NoSession, NoMessage, Msg, AckedIn
<1>4. events = {}
  BY DEF Init
<1> QED
  BY <1>1, <1>2, <1>3, <1>4 DEF IInv, TypeOK, Sound, GatewaySound

LEMMA StepKeepsInvariant == IInv /\ [Next]_vars => IInv' /\ FinalKept /\ Keeps(row, row')
<1> SUFFICES ASSUME IInv, [Next]_vars PROVE IInv' /\ FinalKept /\ Keeps(row, row')
  OBVIOUS
<1>1. GatewayTypeOK /\ GatewaySound /\ NodeSound /\ events \subseteq Kinds
  BY DEF IInv, TypeOK, Sound, GatewaySound, NodeSound
<1>2. GatewayStep /\ NodeSound'
  <2>a. ASSUME GatewayStep, UNCHANGED nodeVars PROVE GatewayStep /\ NodeSound'
    BY <1>1, <2>a, NodeSame DEF GatewayStep
  <2>1. CASE Server
    <3>1. UNCHANGED nodeVars
      BY <2>1 DEF Server, Lapse
    <3>2. ASSUME \E j \in Jobs : Create(j) \/ CancelRead(j) \/ CancelWrite(j) \/ WaiterDeadline(j) \/ WaiterFail(j) \/ OfferLapse(j)
          PROVE  GatewayStep
      <4>1. PICK j \in Jobs : Create(j) \/ CancelRead(j) \/ CancelWrite(j) \/ WaiterDeadline(j) \/ WaiterFail(j) \/ OfferLapse(j)
        BY <3>2
      <4> QED
        BY <1>1, <4>1, WritersStep
    <3>3. ASSUME RevokeNode PROVE GatewayStep
      <4>1. PICK j \in Jobs : TRUE
        BY GatewayAssumption DEF Jobs
      <4> QED
        BY <1>1, <3>3, <4>1, WritersStep
    <3>4. ASSUME \E c \in Conns : Session(c) \/ ReceiveTimeout(c) PROVE GatewayStep
      <4>1. PICK c \in Conns : Session(c) \/ ReceiveTimeout(c)
        BY <3>4
      <4> QED
        BY <1>1, <4>1, SessionsStep
    <3> QED
      BY <2>1, <2>a, <3>1, <3>2, <3>3, <3>4 DEF Server, Lapse
  <2>2. CASE Node
    <3>1. NodeSound' /\ NodeStepsGateway
      <4>1. CASE \E j \in Jobs : UserAccepts(j) \/ UserRejects(j) \/ BeginEffect(j) \/ JobCancelled(j)
                                   \/ JobCompletes(j) \/ JobFails(j)
        BY <1>1, <4>1, JobStep
      <4>2. CASE \E s \in saves : Saved(s) \/ SaveFails(s)
        BY <1>1, <4>2, SaveStep
      <4>3. CASE HandleMessage(FALSE) \/ HandleMessage(TRUE)
        BY <1>1, <4>3, HandleStep
      <4>4. CASE RenewToken
        BY <1>1, <4>4, RenewStep
      <4> QED
        BY <2>2, <4>1, <4>2, <4>3, <4>4 DEF Node
    <3> QED
      BY <1>1, <3>1, NodeGatewayStep
  <2>3. CASE Network
    <3>1. CASE \E c \in Conns : Connect(c)
      BY <1>1, <2>a, <3>1, ConnectStep DEF Connect
    <3>2. CASE NodeSeesClose \/ Loss
      BY <1>1, <2>a, <3>2, LinkStep DEF NodeSeesClose, Loss
    <3>3. CASE Crash
      BY <1>1, <3>3, CrashStep
    <3> QED
      BY <2>3, <3>1, <3>2, <3>3 DEF Network
  <2>4. CASE UNCHANGED vars
    <3>1. UNCHANGED gatewayVars /\ UNCHANGED nodeVars
      BY <2>4 DEF vars
    <3> QED
      BY <1>1, <2>a, <3>1, LinkStep
  <2> QED
    BY <2>1, <2>2, <2>3, <2>4 DEF Next
<1>3. events' \subseteq Kinds
  <2>1. \A kind \in Kinds : Event(kind) => events' \subseteq Kinds
    BY <1>1 DEF Event
  <2>2. Steady => events' \subseteq Kinds
    BY <1>1 DEF Steady
  <2>3. CASE Server
    BY <2>1, <2>2, <2>3 DEF Server, Lapse, Kinds
  <2>4. CASE Node
    BY <2>1, <2>2, <2>4 DEF Node, Kinds
  <2>5. CASE Network
    BY <2>1, <2>2, <2>5 DEF Network, Kinds
  <2>6. CASE UNCHANGED vars
    BY <1>1, <2>6 DEF vars
  <2> QED
    BY <2>3, <2>4, <2>5, <2>6 DEF Next
<1> QED
  BY <1>2, <1>3 DEF IInv, TypeOK, Sound, GatewaySound, NodeSound, GatewayStep

-----------------------------------------------------------------------------
(* A tool's effect begins once: an execution whose effect has begun is      *)
(* being worked on, or has its outcome in the spool, or is final and under  *)
(* way in no offer.  The last holds from the word that it is acknowledged.  *)

\* No message of ms offers j.
OffersNot(ms, j) == \A i \in DOMAIN ms : ms[i].type = "offer" => ms[i].job # j
Unoffered(j) == \A c \in Conns : OffersNot(down[c], j)

\* What is said to be acknowledged is not offered after that.
AckedLast(ms) ==
    \A i, k \in DOMAIN ms :
        i < k /\ ms[i].type = "acknowledged" /\ ms[k].type = "offer" => ms[k].job # ms[i].job

\* The node's memory of what it did has been lost.
Forgetful == clobbered \/ events \cap {"crash", "savefail"} # {}

Once(j) ==
    /\ effects[j] \in {0, 1}
    /\ j \in pending \/ active[j] = "ready" => effects[j] = 0
    /\ j \in pending => active[j] = "no"
    /\ effects[j] = 1 => \/ active[j] # "no"
                         \/ spool[j] # "none"
                         \/ row[j].status \in Terminal /\ Unoffered(j)

\* Only the connection in use has messages under way.
DownSound ==
    /\ \A c \in Conns : c # link => down[c] = <<>>
    /\ \A c \in Conns : AckedLast(down[c])

ClearedLast == \A s \in saves : s.op = "clear" => Unoffered(s.job)

OnceInv ==
    /\ DownSound
    /\ ClearedLast
    /\ Forgetful \/ \A j \in Jobs : Once(j)

\* What the server says in one transaction: offers of queued rows.
Fresh(ms, r) ==
    /\ AckedLast(ms)
    /\ \A i \in DOMAIN ms : ms[i].type = "offer" => r[ms[i].job].status = "queued"

Move(c) ==
    \/ down'[c] \in {down[c], <<>>}
    \/ down[c] # <<>> /\ down'[c] = Tail(down[c])
    \/ \E ms \in Seq(FromServer) : Fresh(ms, row) /\ down'[c] = down[c] \o ms

Moved ==
    /\ \A c \in Conns : c # link' => down'[c] = <<>>
    /\ \A c \in Conns : Move(c)

LEMMA MoveKeeps ==
    ASSUME GatewayTypeOK, GatewaySound, NEW c \in Conns, AckedLast(down[c]), Move(c)
    PROVE  /\ AckedLast(down'[c])
           /\ \A j \in Jobs : row[j].status \in Terminal /\ OffersNot(down[c], j)
                                  => OffersNot(down'[c], j)
<1> DEFINE ds == down[c]
<1>1. ds \in Seq(FromServer) /\ AckedIn(ds, row)
  BY DEF GatewayTypeOK, GatewaySound
<1>2. CASE down'[c] = ds
  BY <1>2
<1>3. CASE down'[c] = <<>>
  BY <1>3 DEF AckedLast, OffersNot
<1>4. CASE ds # <<>> /\ down'[c] = Tail(ds)
  <2>1. /\ Len(Tail(ds)) = Len(ds) - 1
        /\ \A i \in DOMAIN Tail(ds) : i + 1 \in DOMAIN ds /\ Tail(ds)[i] = ds[i + 1]
    BY <1>1, <1>4
  <2>2. AckedLast(Tail(ds))
    <3> SUFFICES ASSUME NEW i \in DOMAIN Tail(ds), NEW k \in DOMAIN Tail(ds), i < k,
                        Tail(ds)[i].type = "acknowledged", Tail(ds)[k].type = "offer"
                 PROVE  Tail(ds)[k].job # Tail(ds)[i].job
      BY DEF AckedLast
    <3>1. i \in Nat /\ k \in Nat /\ i + 1 < k + 1
      BY <1>1, <1>4
    <3> QED
      BY <2>1, <3>1 DEF AckedLast
  <2>3. \A j \in Jobs : OffersNot(ds, j) => OffersNot(Tail(ds), j)
    BY <2>1 DEF OffersNot
  <2> QED
    BY <1>4, <2>2, <2>3
<1>5. ASSUME NEW ms \in Seq(FromServer), Fresh(ms, row), down'[c] = ds \o ms
      PROVE  /\ AckedLast(ds \o ms)
             /\ \A j \in Jobs : row[j].status \in Terminal /\ OffersNot(ds, j)
                                    => OffersNot(ds \o ms, j)
  <2> DEFINE dm == ds \o ms
  <2>1. \A i \in DOMAIN dm : \/ i \in DOMAIN ds /\ dm[i] = ds[i]
                             \/ i - Len(ds) \in DOMAIN ms /\ dm[i] = ms[i - Len(ds)] /\ i > Len(ds)
    BY <1>1, <1>5
  <2>2. \A i \in DOMAIN ds : ds[i].type = "acknowledged" => row[ds[i].job].status \in Terminal
    BY <1>1 DEF AckedIn
  <2>3. \A i \in DOMAIN ms : ms[i].type = "offer" => row[ms[i].job].status \notin Terminal
    BY <1>5 DEF Fresh, Terminal
  <2>4. DOMAIN ds \subseteq Nat /\ DOMAIN dm \subseteq Nat /\ DOMAIN ms \subseteq Nat
        /\ Len(ds) \in Nat /\ DOMAIN ds = 1 .. Len(ds)
    BY <1>1, <1>5
  <2>5. AckedLast(dm)
    <3> SUFFICES ASSUME NEW i \in DOMAIN dm, NEW k \in DOMAIN dm, i < k,
                        dm[i].type = "acknowledged", dm[k].type = "offer"
                 PROVE  dm[k].job # dm[i].job
      BY DEF AckedLast
    <3> HIDE DEF dm, ds
    <3>1. CASE k \in DOMAIN ds /\ dm[k] = ds[k]
      <4>1. i \in DOMAIN ds /\ dm[i] = ds[i]
        BY <2>1, <2>4, <3>1
      <4> QED
        BY <3>1, <4>1 DEF AckedLast, ds
    <3>2. CASE k - Len(ds) \in DOMAIN ms /\ dm[k] = ms[k - Len(ds)]
      <4>1. CASE i \in DOMAIN ds /\ dm[i] = ds[i]
        BY <2>2, <2>3, <3>2, <4>1
      <4>2. CASE i - Len(ds) \in DOMAIN ms /\ dm[i] = ms[i - Len(ds)]
        <5>1. i - Len(ds) < k - Len(ds)
          BY <2>4
        <5>2. AckedLast(ms)
          BY <1>5 DEF Fresh
        <5> QED
          BY <3>2, <4>2, <5>1, <5>2 DEF AckedLast
      <4> QED
        BY <2>1, <4>1, <4>2
    <3> QED
      BY <2>1, <3>1, <3>2
  <2>6. ASSUME NEW j \in Jobs, row[j].status \in Terminal, OffersNot(ds, j)
        PROVE  OffersNot(dm, j)
    <3> SUFFICES ASSUME NEW i \in DOMAIN dm, dm[i].type = "offer" PROVE dm[i].job # j
      BY DEF OffersNot
    <3> HIDE DEF dm, ds
    <3> QED
      BY <2>1, <2>3, <2>6 DEF OffersNot
  <2> QED
    BY <2>5, <2>6
<1> HIDE DEF ds
<1> QED
  BY <1>2, <1>3, <1>4, <1>5 DEF Move, ds

LEMMA MovedKeeps ==
    ASSUME GatewayTypeOK, GatewaySound, DownSound, Moved
    PROVE  /\ DownSound'
           /\ \A j \in Jobs : row[j].status \in Terminal /\ Unoffered(j) => Unoffered(j)'
<1>1. \A c \in Conns : AckedLast(down[c]) /\ Move(c)
  BY DEF DownSound, Moved
<1>2. DownSound'
  BY <1>1, MoveKeeps DEF DownSound, Moved
<1>3. ASSUME NEW j \in Jobs, row[j].status \in Terminal, Unoffered(j) PROVE Unoffered(j)'
  BY <1>1, <1>3, MoveKeeps DEF Unoffered
<1> QED
  BY <1>2, <1>3

\* Saves that go on or end, and executions a step does not touch.
LEMMA OnceSame ==
    ASSUME GatewayTypeOK, GatewaySound, NodeSound, DownSound, ClearedLast, Moved, Keeps(row, row')
    PROVE  /\ saves' \subseteq saves => ClearedLast'
           /\ \A j \in Jobs :
                 Once(j) /\ effects'[j] = effects[j] /\ (j \in pending' => j \in pending)
                    /\ active'[j] = active[j] /\ spool'[j] = spool[j]
                    => Once(j)'
<1>1. \A j \in Jobs : row[j].status \in Terminal /\ Unoffered(j) => Unoffered(j)'
  BY MovedKeeps
<1>2. \A j \in Jobs : row[j].status \in Terminal => row'[j].status \in Terminal
  BY DEF Keeps
<1>3. \A s \in saves : s.op = "clear" => s.job \in Jobs /\ row[s.job].status \in Terminal
  BY DEF NodeSound, NodeTypeOK, Save, SaveIn
<1>4. saves' \subseteq saves => ClearedLast'
  BY <1>1, <1>3 DEF ClearedLast
<1> QED
  BY <1>1, <1>2, <1>4 DEF Once

-----------------------------------------------------------------------------
(* What is under way after a step. *)

LEMMA StillMoved ==
    ASSUME DownSound, UNCHANGED <<down, link>>
    PROVE  Moved
  BY DEF DownSound, Moved, Move

LEMMA DeliverMoves ==
    ASSUME GatewayTypeOK, DownSound, NEW c \in Conns, NEW ms \in Seq(FromServer),
           Fresh(ms, row), Deliver(c, ms), UNCHANGED link
    PROVE  Moved
<1>1. CASE link = c
  <2>1. \A d \in Conns : down'[d] = IF d = c THEN down[d] \o ms ELSE down[d]
    BY <1>1 DEF Deliver, GatewayTypeOK
  <2> QED
    BY <1>1, <2>1 DEF Moved, Move, DownSound
<1>2. CASE link # c
  BY <1>2, StillMoved DEF Deliver
<1> QED
  BY <1>1, <1>2

LEMMA NoticesFresh ==
    ASSUME NEW ns \in Notices
    PROVE  Fresh(ns, row)
<1> DEFINE S == {j \in Jobs : Notice(j) # "none"}
<1>1. PICK js \in Ordered(S) : ns = [i \in DOMAIN js |-> Msg(Notice(js[i]), js[i])]
  BY DEF Notices
<1>2. \A i \in DOMAIN ns : ns[i] = Msg(Notice(js[i]), js[i])
  BY <1>1
<1>3. \A j : Notice(j) # "acknowledged" /\ (Notice(j) = "offer" => row[j].status = "queued")
  BY DEF Notice, ToOffer
<1>4. \A i \in DOMAIN ns : /\ ns[i].type # "acknowledged"
                           /\ ns[i].type = "offer" => row[ns[i].job].status = "queued"
  BY <1>2, <1>3 DEF Msg
<1> QED
  BY <1>4 DEF Fresh, AckedLast

\* An answer is never an offer.
LEMMA ReplyFresh ==
    \A j \in Jobs, t \in {"ack", "acknowledged"} :
        <<Msg(t, j)>> \in Seq(FromServer) /\ Fresh(<<Msg(t, j)>>, row)
<1> SUFFICES ASSUME NEW j \in Jobs, NEW t \in {"ack", "acknowledged"}
             PROVE  <<Msg(t, j)>> \in Seq(FromServer) /\ Fresh(<<Msg(t, j)>>, row)
  OBVIOUS
<1>1. Msg(t, j) \in FromServer /\ Msg(t, j).type # "offer"
  BY DEF Msg, FromServer, ToNode
<1> QED
  BY <1>1 DEF Fresh, AckedLast

LEMMA SilenceFresh == <<>> \in Seq(FromServer) /\ Fresh(<<>>, row)
  BY DEF Fresh, AckedLast

LEMMA CommitMoves ==
    ASSUME GatewayTypeOK, DownSound, NEW c \in Conns, NEW j \in Jobs, NEW status, NEW delivery,
           NEW acked, NEW replies \in {<<>>, <<Msg("ack", j)>>, <<Msg("acknowledged", j)>>},
           Commit(c, j, status, delivery, acked, replies), UNCHANGED link
    PROVE  Moved
<1>1. replies \in Seq(FromServer) /\ Fresh(replies, row)
  BY ReplyFresh, SilenceFresh
<1>2. Deliver(c, replies)
  BY DEF Commit
<1> QED
  BY <1>1, <1>2, DeliverMoves

LEMMA SessionMoves ==
    ASSUME GatewayTypeOK, GatewaySound, DownSound, NEW c \in Conns, Session(c) \/ ReceiveTimeout(c)
    PROVE  Moved
<1>1. CASE ReceiveResponse(c) \/ SeesDisconnect(c) \/ ReceiveTimeout(c)
  BY <1>1, StillMoved DEF ReceiveResponse, SeesDisconnect, ReceiveTimeout
<1>2. CASE ListMessages(c)
  <2>1. UNCHANGED link
    BY <1>2 DEF ListMessages
  <2>2. \/ UNCHANGED down
        \/ \E ns \in Notices : Deliver(c, ns)
    BY <1>2 DEF ListMessages
  <2>3. CASE UNCHANGED down
    BY <2>1, <2>3, StillMoved
  <2>4. CASE \E ns \in Notices : Deliver(c, ns)
    <3>1. PICK ns \in Notices : Deliver(c, ns)
      BY <2>4
    <3>2. ns \in Seq(FromServer) /\ Fresh(ns, row)
      BY NoticesType, NoticesFresh
    <3> QED
      BY <2>1, <3>1, <3>2, DeliverMoves
  <2> QED
    BY <2>2, <2>3, <2>4
<1>3. CASE ReadMessage(c)
  BY <1>3, StillMoved DEF ReadMessage
<1>4. CASE ApplyMessage(c)
  <2> DEFINE m == gw[c].message
             j == m.job
  <2>1. gw[c].pc = "apply" /\ UNCHANGED link
    BY <1>4 DEF ApplyMessage
  <2>2. m.type \in ToServer /\ m \in FromNode \cup {NoMessage}
    BY <2>1 DEF GatewaySound, SeenIn, GatewayTypeOK
  <2>3. \/ m.type = "ack" /\ ApplyAck(c, j)
        \/ m.type = "accepted" /\ ApplyAccepted(c, j)
        \/ m.type = "rejected" /\ ApplyRejected(c, j)
        \/ m.type = "progress" /\ ApplyProgress(c, j)
        \/ m.type \in Outcome /\ ApplyOutcome(c, j, m.type)
    BY <1>4, <2>2 DEF ApplyMessage, ToServer, Outcome
  <2>4. CASE Refuse(c)
    BY <2>1, <2>4, StillMoved DEF Refuse
  <2>5. CASE ~Refuse(c)
    <3>1. j \in Jobs
      BY <2>2 DEF FromNode, NoMessage, Msg, ToServer, Outcome
    <3> HIDE DEF j
    <3>2. \E status, delivery, acked :
             \E replies \in {<<>>, <<Msg("ack", j)>>, <<Msg("acknowledged", j)>>} :
                Commit(c, j, status, delivery, acked, replies)
      BY <2>3, <2>5 DEF ApplyAck, ApplyAccepted, ApplyRejected, ApplyProgress, ApplyOutcome
    <3> QED
      BY <2>1, <3>1, <3>2, CommitMoves
  <2> QED
    BY <2>4, <2>5
<1> QED
  BY <1>1, <1>2, <1>3, <1>4 DEF Session

LEMMA LinkMoves ==
    ASSUME GatewayTypeOK, DownSound,
           \/ link # NoConn /\ Leave
           \/ UNCHANGED gatewayVars
           \/ NodeSeesClose
           \/ \E c \in Conns : Connect(c)
    PROVE  Moved
<1>1. CASE link # NoConn /\ Leave
  <2>1. link \in Conns /\ link' = NoConn /\ down' = [down EXCEPT ![link] = <<>>]
    BY <1>1 DEF Leave, GatewayTypeOK
  <2>2. \A d \in Conns : down'[d] = <<>>
    BY <2>1 DEF GatewayTypeOK, DownSound
  <2> QED
    BY <2>2 DEF Moved, Move
<1>2. CASE UNCHANGED gatewayVars
  BY <1>2, StillMoved DEF gatewayVars
<1>3. CASE NodeSeesClose
  BY <1>3 DEF NodeSeesClose, Moved, Move, DownSound
<1>4. ASSUME NEW c \in Conns, Connect(c) PROVE Moved
  <2>1. link = NoConn /\ link' = c
    BY <1>4 DEF Connect
  <2>2. \A d \in Conns : down[d] = <<>>
    BY <2>1, JobsFinite DEF DownSound
  <2>3. PICK ms \in {<<>>, <<Msg("challenge", NoJob)>>} : down' = [down EXCEPT ![c] = ms]
    BY <1>4 DEF Connect
  <2>4. ms \in Seq(FromServer) /\ Fresh(ms, row)
    <3>1. Msg("challenge", NoJob) \in FromServer /\ Msg("challenge", NoJob).type # "offer"
      BY DEF FromServer, Msg
    <3>2. <<Msg("challenge", NoJob)>> \in Seq(FromServer) /\ Fresh(<<Msg("challenge", NoJob)>>, row)
      BY <3>1 DEF Fresh, AckedLast
    <3> QED
      BY <3>2, SilenceFresh
  <2>5. down'[c] = down[c] \o ms /\ \A d \in Conns \ {c} : down'[d] = down[d]
    BY <2>2, <2>3, <2>4 DEF GatewayTypeOK
  <2> QED
    BY <2>1, <2>2, <2>4, <2>5 DEF Moved, Move
<1> QED
  BY <1>1, <1>2, <1>3, <1>4

LEMMA NodeMoves ==
    ASSUME GatewayTypeOK, DownSound, NodeStepsGateway
    PROVE  Moved
<1>1. CASE UNCHANGED down
  BY <1>1, StillMoved DEF NodeStepsGateway
<1>2. CASE link \in Conns /\ down[link] # <<>> /\ down' = [down EXCEPT ![link] = Tail(@)]
  BY <1>2 DEF NodeStepsGateway, GatewayTypeOK, DownSound, Moved, Move
<1> QED
  BY <1>1, <1>2 DEF NodeStepsGateway

-----------------------------------------------------------------------------
(* The effects. *)

LEMMA ForgetfulKept ==
    ASSUME clobbered => clobbered', events \subseteq events'
    PROVE  Forgetful => Forgetful'
  BY DEF Forgetful

\* A step that leaves the executions alone.
LEMMA OnceStill ==
    ASSUME GatewayTypeOK, GatewaySound, NodeSound, OnceInv, Moved, Keeps(row, row'),
           UNCHANGED nodeVars, events \subseteq events'
    PROVE  OnceInv'
<1>1. DownSound' /\ ClearedLast'
  BY MovedKeeps, OnceSame DEF OnceInv, nodeVars
<1>2. Forgetful => Forgetful'
  BY ForgetfulKept DEF nodeVars
<1>3. \A j \in Jobs : Once(j) => Once(j)'
  BY OnceSame DEF OnceInv, nodeVars
<1> QED
  BY <1>1, <1>2, <1>3 DEF OnceInv

\* The user's decisions and the steps of a job.
LEMMA OnceJob ==
    ASSUME GatewayTypeOK, GatewaySound, NodeSound, OnceInv, Moved, UNCHANGED row,
           events \subseteq events', NEW j \in Jobs,
           \/ UserAccepts(j) \/ UserRejects(j) \/ BeginEffect(j)
           \/ JobCancelled(j) \/ JobCompletes(j) \/ JobFails(j)
    PROVE  OnceInv'
<1> USE DEF UserAccepts, UserRejects, BeginEffect, JobCancelled, JobCompletes, JobFails, AcceptJob, Report
<1>1. Keeps(row, row') /\ UNCHANGED <<spool, clobbered>>
  BY DEF Keeps
<1>2. DownSound'
  BY MovedKeeps DEF OnceInv
<1>3. ClearedLast'
  <2>1. CASE saves' \subseteq saves
    BY <1>1, <2>1, OnceSame DEF OnceInv
  <2>2. CASE ~(saves' \subseteq saves)
    <3>1. \E outcome : SaveOutcome("report", j, outcome)
      BY <2>2
    <3>2. \A s \in saves' : s \in saves \/ s.op = "report"
      BY <3>1 DEF SaveOutcome
    <3>3. \A s \in saves : s.op = "clear" => Unoffered(s.job)'
      <4>1. \A s \in saves : s.op = "clear" => s.job \in Jobs /\ row[s.job].status \in Terminal
        BY DEF NodeSound, NodeTypeOK, Save, SaveIn
      <4> QED
        BY <4>1, MovedKeeps DEF OnceInv, ClearedLast
    <3> QED
      BY <3>2, <3>3 DEF ClearedLast
  <2> QED
    BY <2>1, <2>2
<1>4. Forgetful => Forgetful'
  BY <1>1, ForgetfulKept
<1>5. ASSUME NEW i \in Jobs, Once(i) PROVE Once(i)'
  <2>0. /\ active \in [Jobs -> {"no", "ready", "working", "reporting"}]
        /\ effects \in [Jobs -> Nat]
    BY DEF NodeSound, NodeTypeOK
  <2>1. CASE i # j
    <3>1. effects'[i] = effects[i] /\ (i \in pending' => i \in pending) /\ active'[i] = active[i]
      BY <2>0, <2>1
    <3> QED
      BY <1>1, <1>5, <3>1, OnceSame DEF OnceInv
  <2>2. CASE i = j /\ UserRejects(j)
    BY <1>1, <1>5, <2>2, OnceSame DEF OnceInv
  <2>3. CASE i = j /\ UserAccepts(j)
    <3>1. effects'[i] = 0 /\ i \notin pending'
      BY <1>5, <2>3 DEF Once
    <3> QED
      BY <3>1 DEF Once
  <2>4. CASE i = j /\ BeginEffect(j)
    <3>1. effects[i] = 0 /\ active'[i] = "working" /\ effects'[i] = 1 /\ i \notin pending'
      BY <1>5, <2>0, <2>4 DEF Once
    <3> QED
      BY <3>1 DEF Once
  <2>5. CASE i = j /\ (JobCancelled(j) \/ JobCompletes(j) \/ JobFails(j))
    <3>1. effects'[i] = effects[i] /\ active'[i] = "reporting" /\ i \notin pending'
      BY <1>5, <2>0, <2>5 DEF Once
    <3> QED
      BY <1>5, <3>1 DEF Once
  <2> QED
    BY <2>1, <2>2, <2>3, <2>4, <2>5
<1> QED
  BY <1>2, <1>3, <1>4, <1>5 DEF OnceInv

\* A save that is over: a report's has put the outcome into the spool, and what
\* an acknowledgement takes out of it is not offered any more.
LEMMA OnceSave ==
    ASSUME GatewayTypeOK, GatewaySound, NodeSound, OnceInv, Moved, UNCHANGED <<row, events>>,
           NEW s \in saves, Saved(s)
    PROVE  OnceInv'
<1>1. /\ UNCHANGED <<pending, effects>> /\ saves' = saves \ {s} /\ Written(s)
      /\ AfterSave(s, s.spool[s.job])
  BY DEF Saved
<1>2. s \in Save /\ SaveIn(s, row) /\ Keeps(row, row')
  BY DEF NodeSound, NodeTypeOK, Save, Keeps
<1>3. DownSound' /\ ClearedLast'
  BY <1>1, <1>2, MovedKeeps, OnceSame DEF OnceInv
<1>4. Forgetful => Forgetful'
  BY <1>1, ForgetfulKept DEF Written
<1>5. ASSUME NEW i \in Jobs, Once(i), ~Forgetful' PROVE Once(i)'
  <2>1. ~clobbered /\ s.base = spool /\ spool' = s.spool
    BY <1>1, <1>5 DEF Forgetful, Written
  <2>2. CASE i # s.job
    <3>1. active'[i] = active[i] /\ spool'[i] = spool[i]
      BY <1>1, <1>2, <2>1, <2>2 DEF AfterSave, SaveIn, NodeSound, NodeTypeOK
    <3> QED
      BY <1>1, <1>2, <1>5, <3>1, OnceSame DEF OnceInv
  <2>3. CASE i = s.job
    <3>1. active'[i] \in {active[i], "no"} /\ s.op # "renew"
      BY <1>1, <1>2, <2>3, JobsFinite DEF AfterSave, SaveIn, NodeSound, NodeTypeOK
    <3>2. CASE s.op = "clear"
      <4>1. row'[i].status \in Terminal /\ Unoffered(i)'
        BY <1>2, <2>3, <3>2, MovedKeeps DEF SaveIn, OnceInv, ClearedLast
      <4> QED
        BY <1>1, <1>5, <3>1, <4>1 DEF Once
    <3>3. CASE Carries(s)
      <4>1. spool'[i] # "none"
        BY <1>2, <2>1, <2>3, <3>3 DEF SaveIn
      <4> QED
        BY <1>1, <1>5, <3>1, <4>1 DEF Once
    <3> QED
      BY <1>2, <3>1, <3>2, <3>3 DEF Carries, Save
  <2> QED
    BY <2>2, <2>3
<1> QED
  BY <1>3, <1>4, <1>5 DEF OnceInv

\* A save that failed and a crash: the node forgets.
LEMMA OnceForgotten ==
    ASSUME GatewayTypeOK, GatewaySound, NodeSound, OnceInv, Moved, UNCHANGED row,
           \/ Event("crash") /\ Crash
           \/ Event("savefail") /\ \E s \in saves : SaveFails(s)
    PROVE  OnceInv'
<1>1. Forgetful'
  BY DEF Event, Forgetful
<1>2. saves' \subseteq saves /\ Keeps(row, row')
  BY DEF Crash, SaveFails, Keeps
<1>3. DownSound' /\ ClearedLast'
  BY <1>2, MovedKeeps, OnceSame DEF OnceInv
<1> QED
  BY <1>1, <1>3 DEF OnceInv

\* A renewal that begins, and one that failed, leave the executions alone.
LEMMA OnceRenewal ==
    ASSUME GatewayTypeOK, GatewaySound, NodeSound, OnceInv, Moved, UNCHANGED row,
           events \subseteq events',
           \/ RenewToken
           \/ \E s \in saves : s.op = "renew" /\ SaveFails(s)
    PROVE  OnceInv'
<1>1. UNCHANGED <<pending, active, spool, effects, clobbered>> /\ Keeps(row, row')
  BY DEF RenewToken, SaveFails, AfterSave, Keeps
<1>2. \A s \in saves' : s \in saves \/ s.op = "renew"
  BY DEF RenewToken, SaveFails
<1>3. DownSound'
  BY MovedKeeps DEF OnceInv
<1>4. ClearedLast'
  <2>1. \A s \in saves : s.op = "clear" => s.job \in Jobs /\ row[s.job].status \in Terminal
    BY DEF NodeSound, NodeTypeOK, Save, SaveIn
  <2>2. \A s \in saves : s.op = "clear" => Unoffered(s.job)'
    BY <2>1, MovedKeeps DEF OnceInv, ClearedLast
  <2> QED
    BY <1>2, <2>2 DEF ClearedLast
<1>5. \A j \in Jobs : Once(j) => Once(j)'
  BY <1>1, OnceSame DEF OnceInv
<1>6. Forgetful => Forgetful'
  BY <1>1, ForgetfulKept
<1> QED
  BY <1>3, <1>4, <1>5, <1>6 DEF OnceInv

LEMMA SavesBegun ==
    ASSUME NEW expired, HandleMessage(expired)
    PROVE  \A s \in saves' :
               \/ s \in saves
               \/ s.op = "answer"
               \/ s.op = "clear" /\ s.job = Head(down[link]).job /\ Head(down[link]).type = "acknowledged"
<1> DEFINE m == Head(down[link])
<1>1. \/ UNCHANGED saves \/ Replay(m.job) \/ (ClearSpool(m.job) /\ m.type = "acknowledged")
  <2>1. \/ UNCHANGED saves
        \/ m.type = "status" /\ HandleStatus(m.job)
        \/ m.type = "replay" /\ Replay(m.job)
        \/ m.type = "acknowledged" /\ ClearSpool(m.job)
    BY DEF HandleMessage
  <2> QED
    BY <2>1 DEF HandleStatus
<1> HIDE DEF m
<1>2. CASE Replay(m.job)
  <2>1. PICK b, sp : saves' \subseteq saves \cup {[op |-> "answer", job |-> m.job, base |-> b, spool |-> sp]}
    BY <1>2 DEF Replay, SaveOutcome
  <2> QED
    BY <2>1
<1>3. CASE ClearSpool(m.job) /\ m.type = "acknowledged"
  <2>1. PICK b, sp : saves' \subseteq saves \cup {[op |-> "clear", job |-> m.job, base |-> b, spool |-> sp]}
    BY <1>3 DEF ClearSpool
  <2> QED
    BY <1>3, <2>1 DEF m
<1> QED
  BY <1>1, <1>2, <1>3

\* A message: only an offer begins an execution, and it is of none whose effect has
\* begun; and only an execution that is acknowledged leaves the spool.
LEMMA OnceHandle ==
    ASSUME GatewayTypeOK, GatewaySound, NodeSound, OnceInv, Moved, UNCHANGED row,
           events \subseteq events', NEW expired \in BOOLEAN, HandleMessage(expired)
    PROVE  OnceInv'
<1>0. PICK m : m = Head(down[link])
  OBVIOUS
<1> DEFINE j == m.job
<1>1. /\ UNCHANGED <<spool, effects, clobbered, link>>
      /\ link \in Conns /\ down[link] # <<>> /\ down' = [down EXCEPT ![link] = Tail(@)]
  BY DEF HandleMessage, GatewayTypeOK
<1>2. m \in FromServer /\ down[link] \in Seq(FromServer) /\ Keeps(row, row')
  BY <1>0, <1>1, SequenceFacts DEF GatewayTypeOK, Keeps
<1>3. m.type = "challenge" \/ j \in Jobs
  BY <1>2 DEF FromServer, Msg
<1>4. m = down[link][1] /\ 1 \in DOMAIN down[link]
  BY <1>0, <1>1, <1>2
<1>5. DownSound'
  BY MovedKeeps DEF OnceInv
<1>6. m.type = "acknowledged" => row[j].status \in Terminal /\ Unoffered(j)'
  <2> SUFFICES ASSUME m.type = "acknowledged" PROVE row[j].status \in Terminal /\ Unoffered(j)'
    OBVIOUS
  <2>1. AckedIn(down[link], row) /\ AckedLast(down[link])
    BY <1>1 DEF GatewaySound, OnceInv, DownSound
  <2>2. row[j].status \in Terminal
    BY <1>4, <2>1 DEF AckedIn
  <2>3. OffersNot(Tail(down[link]), j)
    <3>1. \A i \in DOMAIN Tail(down[link]) : /\ i + 1 \in DOMAIN down[link] /\ 1 < i + 1
                                             /\ Tail(down[link])[i] = down[link][i + 1]
      BY <1>1, <1>2
    <3> QED
      BY <1>4, <2>1, <3>1 DEF AckedLast, OffersNot
  <2>4. \A c \in Conns : c # link => down'[c] = <<>>
    BY <1>1 DEF Moved
  <2>5. OffersNot(<<>>, j)
    BY DEF OffersNot
  <2>6. down'[link] = Tail(down[link])
    BY <1>1 DEF GatewayTypeOK
  <2> QED
    BY <2>2, <2>3, <2>4, <2>5, <2>6 DEF Unoffered
<1>7. m.type = "offer" => ~Unoffered(j)
  BY <1>1, <1>4 DEF Unoffered, OffersNot
<1>8. Forgetful => Forgetful'
  BY <1>1, ForgetfulKept
<1> HIDE DEF j
<1>9. ClearedLast'
  <2>1. \A s \in saves' :
           \/ s \in saves
           \/ s.op = "answer"
           \/ s.op = "clear" /\ s.job = j /\ m.type = "acknowledged"
    BY <1>0, SavesBegun DEF j
  <2>2. \A s \in saves : s.op = "clear" => Unoffered(s.job)'
    <3>1. \A s \in saves : s.op = "clear" => s.job \in Jobs /\ row[s.job].status \in Terminal
      BY DEF NodeSound, NodeTypeOK, Save, SaveIn
    <3> QED
      BY <3>1, MovedKeeps DEF OnceInv, ClearedLast
  <2> QED
    BY <1>6, <2>1, <2>2 DEF ClearedLast
<1>10. ASSUME NEW i \in Jobs, Once(i) PROVE Once(i)'
  <2>1. \/ active'[i] = active[i] /\ (i \in pending' => i \in pending)
        \/ /\ m.type = "offer" /\ i = j /\ spool[i] = "none" /\ active[i] = "no" /\ i \notin pending
           /\ \/ active'[i] = "ready" /\ i \notin pending'
              \/ active'[i] = "no"
    <3>1. CASE m.type # "offer"
      BY <1>0, <3>1 DEF HandleMessage, HandleCancel, j
    <3>2. CASE m.type = "offer"
      <4>1. HandleOffer(j, expired)
        BY <1>0, <3>2 DEF HandleMessage, j
      <4>2. CASE UNCHANGED <<pending, active>>
        BY <4>2
      <4>3. CASE ~UNCHANGED <<pending, active>>
        <5>1. /\ spool[j] = "none" /\ active[j] = "no" /\ j \notin pending
              /\ \/ AcceptJob(j) /\ UNCHANGED pending
                 \/ pending' = pending \cup {j} /\ UNCHANGED active
          BY <4>1, <4>3 DEF HandleOffer
        <5> QED
          BY <3>2, <5>1 DEF AcceptJob, NodeSound, NodeTypeOK
      <4> QED
        BY <4>2, <4>3
    <3> QED
      BY <3>1, <3>2
  <2>2. CASE active'[i] = active[i] /\ (i \in pending' => i \in pending)
    BY <1>1, <1>2, <1>10, <2>2, OnceSame DEF OnceInv
  <2>3. CASE /\ m.type = "offer" /\ i = j /\ spool[i] = "none" /\ active[i] = "no" /\ i \notin pending
             /\ \/ active'[i] = "ready" /\ i \notin pending'
                \/ active'[i] = "no"
    <3>1. effects[i] = 0
      BY <1>7, <1>10, <2>3 DEF Once
    <3> QED
      BY <1>1, <2>3, <3>1 DEF Once
  <2> QED
    BY <2>1, <2>2, <2>3
<1> QED
  BY <1>5, <1>8, <1>9, <1>10 DEF OnceInv

LEMMA OnceInitially == Init => OnceInv
  BY DEF Init, GatewayInit, NodeInit, OnceInv, DownSound, AckedLast, ClearedLast, Once

LEMMA StepKeepsOnce == IInv /\ OnceInv /\ [Next]_vars => OnceInv'
<1> SUFFICES ASSUME IInv, OnceInv, [Next]_vars PROVE OnceInv'
  OBVIOUS
<1>1. GatewayTypeOK /\ GatewaySound /\ NodeSound /\ DownSound
  BY DEF IInv, TypeOK, Sound, GatewaySound, NodeSound, OnceInv
<1>2. Keeps(row, row')
  BY StepKeepsInvariant
<1>3. events \subseteq events'
  <2>1. \A kind : Event(kind) => events \subseteq events'
    BY DEF Event
  <2> QED
    BY <2>1 DEF Next, Server, Node, Network, Lapse, Steady, vars
<1>4. CASE Server \/ UNCHANGED vars
  <2>1. UNCHANGED nodeVars
    BY <1>4 DEF Server, Lapse, vars
  <2>2. Moved
    <3>1. CASE \E c \in Conns : Session(c) \/ ReceiveTimeout(c)
      BY <1>1, <3>1, SessionMoves
    <3>2. CASE ~\E c \in Conns : Session(c) \/ ReceiveTimeout(c)
      <4>1. UNCHANGED <<down, link>>
        BY <1>4, <3>2 DEF Server, Lapse, Create, CancelRead, CancelWrite, WaiterDeadline, WaiterFail,
                         Reads, Writes, RevokeNode, OfferLapse, vars, gatewayVars
      <4> QED
        BY <1>1, <4>1, StillMoved
    <3> QED
      BY <3>1, <3>2
  <2> QED
    BY <1>1, <1>2, <1>3, <2>1, <2>2, OnceStill
<1>5. CASE Node
  <2>1. CASE \E j \in Jobs : UserAccepts(j) \/ UserRejects(j) \/ BeginEffect(j) \/ JobCancelled(j)
                               \/ JobCompletes(j) \/ JobFails(j)
    <3>1. PICK j \in Jobs : UserAccepts(j) \/ UserRejects(j) \/ BeginEffect(j) \/ JobCancelled(j)
                               \/ JobCompletes(j) \/ JobFails(j)
      BY <2>1
    <3>2. NodeStepsGateway
      BY <1>1, <3>1, JobStep
    <3>3. Moved /\ UNCHANGED row
      BY <1>1, <3>2, NodeMoves DEF NodeStepsGateway
    <3> QED
      BY <1>1, <1>3, <3>1, <3>3, OnceJob
  <2>2. ASSUME NEW s \in saves, Saved(s), Steady PROVE OnceInv'
    <3>1. NodeStepsGateway
      BY <1>1, <2>2, SaveStep
    <3>2. Moved /\ UNCHANGED <<row, events>>
      BY <1>1, <2>2, <3>1, NodeMoves DEF NodeStepsGateway, Steady
    <3> QED
      BY <1>1, <2>2, <3>2, OnceSave
  <2>a. ASSUME NEW s \in saves, SaveFails(s), s.op = "renew" PROVE OnceInv'
    <3>1. NodeStepsGateway
      BY <1>1, <2>a, SaveStep
    <3>2. Moved /\ UNCHANGED row
      BY <1>1, <3>1, NodeMoves DEF NodeStepsGateway
    <3> QED
      BY <1>1, <1>3, <2>a, <3>2, OnceRenewal
  <2>b. ASSUME RenewToken PROVE OnceInv'
    <3>1. NodeStepsGateway
      BY <1>1, <2>b, RenewStep
    <3>2. Moved /\ UNCHANGED row
      BY <1>1, <3>1, NodeMoves DEF NodeStepsGateway
    <3> QED
      BY <1>1, <1>3, <2>b, <3>2, OnceRenewal
  <2>3. ASSUME NEW s \in saves, SaveFails(s), Event("savefail") PROVE OnceInv'
    <3>1. NodeStepsGateway
      BY <1>1, <2>3, SaveStep
    <3>2. Moved /\ UNCHANGED row
      BY <1>1, <3>1, NodeMoves DEF NodeStepsGateway
    <3> QED
      BY <1>1, <2>3, <3>2, OnceForgotten
  <2>4. ASSUME NEW expired \in BOOLEAN, HandleMessage(expired) PROVE OnceInv'
    <3>1. NodeStepsGateway
      BY <1>1, <2>4, HandleStep
    <3>2. Moved /\ UNCHANGED row
      BY <1>1, <3>1, NodeMoves DEF NodeStepsGateway
    <3> QED
      BY <1>1, <1>3, <2>4, <3>2, OnceHandle
  <2> QED
    BY <1>5, <2>1, <2>2, <2>a, <2>b, <2>3, <2>4 DEF Node
<1>6. CASE Network
  <2>1. CASE \E c \in Conns : Connect(c)
    BY <1>1, <1>2, <1>3, <2>1, LinkMoves, OnceStill DEF Connect
  <2>2. CASE NodeSeesClose \/ Loss
    BY <1>1, <1>2, <1>3, <2>2, LinkMoves, OnceStill DEF NodeSeesClose, Loss
  <2>3. CASE Crash /\ Event("crash")
    <3>1. Moved /\ UNCHANGED row
      BY <1>1, <2>3, LinkMoves DEF Crash, Leave, gatewayVars
    <3> QED
      BY <1>1, <2>3, <3>1, OnceForgotten
  <2> QED
    BY <1>6, <2>1, <2>2, <2>3 DEF Network
<1> QED
  BY <1>4, <1>5, <1>6 DEF Next

-----------------------------------------------------------------------------
(* Theorems *)

LEMMA Always == Spec => []IInv
<1> QED
  BY Initially, StepKeepsInvariant, PTL DEF Spec

\* The variables keep their types: a session holds and sees a row of the node, what
\* is under way on either side of a connection are messages of the protocol, and a
\* save is one of a report, an answer or an acknowledged result.
THEOREM TypeSafety == Spec => []TypeOK
<1>1. IInv => TypeOK
  BY DEF IInv
<1> QED
  BY Always, <1>1, PTL

\* An outcome the node has saved is in its spool until the server has a final state,
\* unless a save overwrote another's: for any number of executions, connections and
\* sessions, losses, crashes and failed saves.
THEOREM ResultSafety == Spec => []ResultKept
<1>1. IInv => ResultKept
  BY DEF IInv
<1> QED
  BY Always, <1>1, PTL

\* A final state is replaced by a stale reader only: a user's cancel or the waiter past
\* its deadline, when either read the row open before, or a session that applies a
\* message to a row it read, or had kept, open.  Who reads it final leaves it so.
THEOREM FinalSafety == Spec => FinalStatus
<1>1. IInv /\ [Next]_vars =>
         [\A j \in Jobs :
            row[j].status \in Terminal /\ row'[j].status # row[j].status => StaleReader(j)]_vars
  BY StepKeepsInvariant DEF FinalKept
<1> QED
  BY Always, <1>1, PTL DEF Spec, FinalStatus

\* A tool's effect begins at most once, unless the node has lost its memory of it by a
\* crash, by a save that failed or by one that overwrote another's: for any number of
\* executions, connections and sessions, and whatever is sent again.
THEOREM OnceSafety == Spec => []AtMostOnce
<1>1. IInv /\ OnceInv => AtMostOnce
  BY DEF IInv, TypeOK, NodeTypeOK, OnceInv, Once, Forgetful, AtMostOnce
<1> QED
  BY Initially, OnceInitially, StepKeepsInvariant, StepKeepsOnce, <1>1, PTL DEF Spec
=============
