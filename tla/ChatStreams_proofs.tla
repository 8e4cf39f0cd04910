-------------------------- MODULE ChatStreams_proofs --------------------------
(***************************************************************************)
(* Proofs about ChatStreams, for any number of questions, deltas, failures *)
(* and history reads: all its properties but the liveness of QuestionsEnd. *)
(*                                                                         *)
(* A conversation has one stream at most, and only that stream's entry     *)
(* holds text (OneStream, TextInv).  What the server has stored of a reply *)
(* is nothing, an empty message or all that was written (RowInv), so what  *)
(* a history request brings of a reply under way is one of these three     *)
(* (HistoryInv), and what it brings of a completed one is the whole of it  *)
(* (AnswerInv).                                                            *)
(***************************************************************************)
EXTENDS ChatStreams, SequenceTheorems, TLAPS

Live == {"asked", "refreshing"}
Refusing == {"none", "asked", "refused"}
Ended == {"finished", "failed", "gone"}

\* Deltas received of t.
Got(t) == IF pos[t] = 0 THEN 0 ELSE pos[t] - 1

Cut == {t \in Turn : \E u \in Turn : t \in replaced[u]}

StageInv ==
    \A t \in Turn :
        /\ phase[t] = "unused" => server[t] = "none" /\ replaced[t] = {} /\ attempt[t] = 0
        /\ phase[t] = "refreshing" => server[t] = "none" /\ attempt[t] = 1
        /\ phase[t] # "unused" => kind[t] \in Kind
        /\ conn[t] \in {"opening", "open"} => phase[t] = "asked"
        /\ phase[t] # "done" => result[t] = "none"
        /\ result[t] = "completed" => server[t] = "finished"

OneStream == SnapshotIsLive

\* The snapshot and the buffer of a stream under way are its text; nobody else has any.
Text(t) ==
    LET on == shown[kind[t]]
    IN  /\ \A i \in DOMAIN on : on[i] = <<t, i>>
        /\ \A i \in DOMAIN buffer[t] : buffer[t][i] = Len(on) + i
        /\ Len(on) + Len(buffer[t]) = Got(t)

TextInv ==
    /\ \A t \in Turn : IF phase[t] \in Live THEN Text(t) ELSE buffer[t] = <<>>
    /\ \A k \in Kind : ~streaming[k] => shown[k] = <<>>

\* The client is behind the server, which writes N deltas.
PosInv ==
    \A t \in Turn :
        /\ server[t] \in Refusing => pos[t] = 0
        /\ pos[t] <= written[t] + 1
        /\ server[t] = "finished" => written[t] = N

RowInv ==
    \A t \in Turn :
        /\ row[t] # Absent =>
              /\ kind[t] = "chat"
              /\ \/ server[t] = "working" /\ row[t] = 0
                 \/ server[t] \in Ended /\ row[t] = written[t]
        /\ kind[t] = "chat" /\ server[t] \notin Refusing /\ t \notin Cut => row[t] # Absent

\* What the client may know of the stored reply of a turn that has not ended.
Known(t, v) ==
    v # Absent =>
        /\ kind[t] = "chat"
        /\ \/ server[t] \notin Refusing /\ v = 0
           \/ server[t] \in Ended /\ v = written[t]

HistoryInv ==
    \A t \in Turn : phase[t] # "done" =>
        /\ Known(t, answer[t]) /\ Known(t, cached[t])
        /\ cached[t] = 0 => t \in emptied

\* A completed reply is read whole, unless it is cut off.
AnswerInv ==
    \A t \in Turn : result[t] = "completed" /\ kind[t] = "chat" /\ fetch = "read" =>
        answer[t] = N \/ t \in Cut

PageInv == app = "mobile" => listed \subseteq recent /\ Active("temporary") \subseteq recent

IInv ==
    /\ TypeOK /\ StageInv /\ EndsOnce /\ OneStream /\ TextInv /\ PosInv /\ RowInv
    /\ HistoryInv /\ AnswerInv /\ CompletedIsWhole /\ PageInv

-----------------------------------------------------------------------------
(* A turn ends. *)

Same == UNCHANGED <<app, written, row, replaced, emptied>>

\* What the ways a turn ends have in common.
Settled(t, outcome) ==
    /\ phase[t] \in Live /\ FinishEntry(t) /\ Settle(t, outcome)
    /\ conn' \in [Turn -> {"none", "opening", "open", "closing", "closed"}]
    /\ conn'[t] \notin {"opening", "open"} /\ \A u \in Turn \ {t} : conn'[u] = conn[u]
    /\ \/ UNCHANGED server
       \/ server[t] \in Refusing /\ server' = [server EXCEPT ![t] = "none"]
    /\ outcome = "completed" => server[t] = "finished"
    /\ Same

Outcomes == {"completed", "failed", "stopped"}

LEMMA SettledTurn ==
    ASSUME IInv, NEW t \in Turn, NEW outcome \in Outcomes, Settled(t, outcome)
    PROVE  /\ \A u \in Turn \ {t} : phase'[u] = phase[u] /\ result'[u] = result[u]
                 /\ ends'[u] = ends[u] /\ errors'[u] = errors[u] /\ buffer'[u] = buffer[u]
                 /\ server'[u] = server[u]
           /\ phase'[t] = "done" /\ result'[t] = outcome /\ buffer'[t] = <<>>
           /\ ends'[t] = 1 /\ errors'[t] = IF outcome = "failed" THEN 1 ELSE 0
           /\ UNCHANGED <<kind, attempt, pos, failed>>
           /\ server'[t] = server[t] \/ (server[t] \in Refusing /\ server'[t] = "none")
<1>1. /\ phase \in [Turn -> {"unused", "asked", "refreshing", "done"}]
      /\ result \in [Turn -> {"none", "completed", "failed", "stopped", "refused"}]
      /\ ends \in [Turn -> Nat] /\ errors \in [Turn -> Nat] /\ buffer \in [Turn -> Seq(1..N)]
      /\ server \in [Turn -> {"none", "asked", "refused", "working", "finished", "failed", "gone"}]
  BY DEF IInv, TypeOK
<1>2. ends[t] = 0 /\ errors[t] = 0
  BY DEF IInv, EndsOnce, StageInv, Settled, Live
<1>3. /\ phase' = [phase EXCEPT ![t] = "done"] /\ result' = [result EXCEPT ![t] = outcome]
      /\ ends' = [ends EXCEPT ![t] = @ + 1] /\ buffer' = [buffer EXCEPT ![t] = <<>>]
      /\ errors' = IF outcome = "failed" THEN [errors EXCEPT ![t] = @ + 1] ELSE errors
      /\ UNCHANGED <<kind, attempt, pos, failed>>
  BY DEF Settled, Settle, FinishEntry
<1>4. errors'[t] = (IF outcome = "failed" THEN 1 ELSE 0) /\ \A u \in Turn \ {t} : errors'[u] = errors[u]
  BY <1>1, <1>2, <1>3
<1>5. /\ server'[t] = server[t] \/ (server[t] \in Refusing /\ server'[t] = "none")
      /\ \A u \in Turn \ {t} : server'[u] = server[u]
  <2>1. CASE UNCHANGED server
    BY <2>1
  <2>2. CASE server[t] \in Refusing /\ server' = [server EXCEPT ![t] = "none"]
    BY <1>1, <2>2
  <2> QED
    BY <2>1, <2>2 DEF Settled
<1> QED
  BY <1>1, <1>2, <1>3, <1>4, <1>5

LEMMA SettledCore ==
    ASSUME IInv, NEW t \in Turn, NEW outcome \in Outcomes, Settled(t, outcome)
    PROVE  /\ StageInv' /\ EndsOnce' /\ OneStream' /\ TextInv' /\ PosInv' /\ RowInv'
           /\ \A k \in Kind : Active(k)' = Active(k) \ {t}
<1>1. /\ \A u \in Turn \ {t} : phase'[u] = phase[u] /\ result'[u] = result[u]
            /\ ends'[u] = ends[u] /\ errors'[u] = errors[u] /\ buffer'[u] = buffer[u]
            /\ server'[u] = server[u]
      /\ phase'[t] = "done" /\ result'[t] = outcome /\ buffer'[t] = <<>>
      /\ ends'[t] = 1 /\ errors'[t] = IF outcome = "failed" THEN 1 ELSE 0
      /\ UNCHANGED <<kind, attempt, pos, failed>>
      /\ server'[t] = server[t] \/ (server[t] \in Refusing /\ server'[t] = "none")
  BY SettledTurn
<1>2. /\ phase[t] \in Live /\ kind[t] \in Kind /\ Same
      /\ streaming' = [streaming EXCEPT ![kind[t]] = FALSE]
      /\ shown' = [shown EXCEPT ![kind[t]] = <<>>]
      /\ streaming \in [Kind -> BOOLEAN] /\ shown \in [Kind -> Seq(Turn \X (1..N))]
  BY DEF Settled, IInv, StageInv, FinishEntry, TypeOK, Live
<1>3. StageInv'
  <2> SUFFICES ASSUME NEW u \in Turn
               PROVE  /\ phase'[u] = "unused" =>
                           server'[u] = "none" /\ replaced'[u] = {} /\ attempt'[u] = 0
                      /\ phase'[u] = "refreshing" => server'[u] = "none" /\ attempt'[u] = 1
                      /\ phase'[u] # "unused" => kind'[u] \in Kind
                      /\ conn'[u] \in {"opening", "open"} => phase'[u] = "asked"
                      /\ phase'[u] # "done" => result'[u] = "none"
                      /\ result'[u] = "completed" => server'[u] = "finished"
    BY DEF StageInv
  <2>1. CASE u = t
    BY <1>1, <1>2, <2>1 DEF Settled, Live, Refusing
  <2>2. CASE u # t
    BY <1>1, <1>2, <2>2 DEF IInv, StageInv, Settled, Same
  <2> QED
    BY <2>1, <2>2
<1>4. EndsOnce'
  BY <1>1 DEF IInv, EndsOnce, Outcomes
<1>5. \A k \in Kind : Active(k)' = Active(k) \ {t}
  BY <1>1 DEF Active
<1>6. OneStream'
  <2>1. t \in Active(kind[t])
    BY <1>2 DEF Active, Live
  <2>2. \A k \in Kind \ {kind[t]} : t \notin Active(k)
    BY DEF Active
  <2>3. \A k \in Kind : (streaming[k] <=> Active(k) # {}) /\ \A u, v \in Active(k) : u = v
    BY DEF IInv, OneStream, SnapshotIsLive
  <2>4. \A k \in Kind : (streaming'[k] <=> Active(k)' # {}) /\ \A u, v \in Active(k)' : u = v
    BY <1>2, <1>5, <2>1, <2>2, <2>3
  <2> QED
    BY <2>4 DEF OneStream, SnapshotIsLive
<1>7. TextInv'
  <2>1. \A k \in Kind : ~streaming'[k] => shown'[k] = <<>>
    BY <1>2 DEF IInv, TextInv
  <2>2. ASSUME NEW u \in Turn, phase'[u] \in Live PROVE Text(u)'
    <3>1. u # t /\ phase[u] \in Live
      BY <1>1, <2>2 DEF Live
    <3>2. kind[u] \in Kind /\ kind[u] # kind[t]
      BY <1>2, <3>1 DEF IInv, StageInv, OneStream, SnapshotIsLive, Active, Live
    <3> QED
      BY <1>1, <1>2, <3>1, <3>2 DEF IInv, TextInv, Text, Got
  <2>3. ASSUME NEW u \in Turn, phase'[u] \notin Live PROVE buffer'[u] = <<>>
    BY <1>1, <2>3 DEF IInv, TextInv
  <2> QED
    BY <2>1, <2>2, <2>3 DEF TextInv
<1>8. PosInv'
  BY <1>1, <1>2 DEF IInv, PosInv, Same, Refusing
<1>9. RowInv'
  BY <1>1, <1>2 DEF IInv, RowInv, Same, Cut, Refusing, Ended
<1> QED
  BY <1>3, <1>4, <1>5, <1>6, <1>7, <1>8, <1>9

\* The text of a stream under way, with its buffer.
LEMMA FlushedText ==
    ASSUME IInv, NEW t \in Turn, phase[t] \in Live
    PROVE  /\ Got(t) \in 0..N /\ Flushed(t) \in Seq(Turn \X (1..N)) /\ Len(Flushed(t)) = Got(t)
           /\ \A i \in 1..Got(t) : Flushed(t)[i] = <<t, i>>
<1> DEFINE on == shown[kind[t]]
           new == [i \in DOMAIN buffer[t] |-> <<t, buffer[t][i]>>]
<1>1. kind[t] \in Kind /\ streaming[kind[t]] /\ Text(t)
  BY DEF IInv, StageInv, TextInv, OneStream, SnapshotIsLive, Active, Live
<1>2. on \in Seq(Turn \X (1..N)) /\ buffer[t] \in Seq(1..N)
  BY <1>1 DEF IInv, TypeOK
<1>3. Got(t) \in 0..N
  BY BoundsAssumption DEF IInv, TypeOK, PosInv, Got
<1>4. new \in Seq(Turn \X (1..N)) /\ Len(new) = Len(buffer[t])
  <2>1. \A i \in 1..Len(buffer[t]) : <<t, buffer[t][i]>> \in Turn \X (1..N)
    <3>1. \A i \in 1..Len(buffer[t]) : buffer[t][i] \in 1..N
      BY <1>2, ElementOfSeq
    <3> QED
      BY <3>1
  <2>2. DOMAIN buffer[t] = 1..Len(buffer[t]) /\ Len(buffer[t]) \in Nat
    BY <1>2
  <2>3. new \in [1..Len(buffer[t]) -> Turn \X (1..N)]
    BY <2>1, <2>2
  <2> QED
    BY <2>2, <2>3
<1>5. Flushed(t) = on \o new
  BY <1>1 DEF Flushed
<1>6. /\ \A i \in DOMAIN on : on[i] = <<t, i>>
      /\ \A i \in 1..Len(buffer[t]) : new[i] = <<t, Len(on) + i>>
      /\ Len(on) + Len(buffer[t]) = Got(t)
  <2>1. /\ \A i \in DOMAIN on : on[i] = <<t, i>>
        /\ \A i \in DOMAIN buffer[t] : buffer[t][i] = Len(on) + i
        /\ Len(on) + Len(buffer[t]) = Got(t)
    BY <1>1 DEF Text
  <2>2. DOMAIN buffer[t] = 1..Len(buffer[t])
    BY <1>2
  <2> HIDE DEF on
  <2> QED
    BY <2>1, <2>2
<1> HIDE DEF on, new
<1>7. Flushed(t) \in Seq(Turn \X (1..N)) /\ Len(Flushed(t)) = Got(t)
  <2>1. on \o new \in Seq(Turn \X (1..N)) /\ Len(on \o new) = Len(on) + Len(new)
    BY <1>2, <1>4, ConcatProperties
  <2> QED
    BY <1>4, <1>5, <1>6, <2>1
<1>8. ASSUME NEW i \in 1..Got(t) PROVE Flushed(t)[i] = <<t, i>>
  <2>1. CASE i <= Len(on)
    BY <1>2, <1>4, <1>5, <1>6, <2>1
  <2>2. CASE i > Len(on)
    <3>1. i - Len(on) \in 1..Len(buffer[t]) /\ Len(on) \in Nat
      BY <1>2, <1>3, <1>6, <2>2
    <3>2. Flushed(t)[i] = new[i - Len(on)]
      BY <1>2, <1>3, <1>4, <1>5, <2>2, <3>1
    <3>3. Len(on) + (i - Len(on)) = i
      BY <3>1
    <3> QED
      BY <1>6, <3>1, <3>2, <3>3
  <2> QED
    BY <1>2, <1>3, <2>1, <2>2
<1> QED
  BY <1>3, <1>7, <1>8

\* The history when t ends.
LEMMA SettledHistory ==
    ASSUME IInv, NEW t \in Turn, NEW outcome \in Outcomes, Settled(t, outcome),
           \A u \in Turn \ {t} : cached'[u] = cached[u],
           UNCHANGED <<fetch, answer>> \/ NoFetch \/ RefetchAfter,
           outcome = "completed" /\ kind[t] = "chat" =>
              (cached'[t] = N \/ t \in emptied) /\ fetch' # "read"
    PROVE  HistoryInv' /\ AnswerInv' /\ CompletedIsWhole'
<1>1. /\ \A u \in Turn \ {t} : phase'[u] = phase[u] /\ result'[u] = result[u] /\ server'[u] = server[u]
      /\ phase'[t] = "done" /\ result'[t] = outcome /\ UNCHANGED kind
  BY SettledTurn
<1>2. UNCHANGED <<written, replaced, emptied>>
  BY DEF Settled, Same
<1>3. \/ UNCHANGED <<fetch, answer>>
      \/ fetch' # "read" /\ \A u \in Turn : answer'[u] = Absent
  BY DEF NoFetch, RefetchAfter, All
<1>4. HistoryInv'
  <2> SUFFICES ASSUME NEW u \in Turn, phase'[u] # "done"
               PROVE  (Known(u, answer[u]) /\ Known(u, cached[u]) /\ (cached[u] = 0 => u \in emptied))'
    BY DEF HistoryInv
  <2>1. u # t /\ phase[u] # "done" /\ server'[u] = server[u] /\ cached'[u] = cached[u]
    BY <1>1
  <2>2. answer'[u] \in {Absent, answer[u]}
    BY <1>3
  <2> QED
    BY <1>1, <1>2, <2>1, <2>2 DEF IInv, HistoryInv, Known
<1>5. AnswerInv'
  BY <1>1, <1>2, <1>3 DEF IInv, AnswerInv, Cut
<1>6. CompletedIsWhole'
  BY <1>1, <1>2 DEF IInv, CompletedIsWhole
<1> QED
  BY <1>4, <1>5, <1>6

\* The page when t ends.
LEMMA SettledPage ==
    ASSUME IInv, NEW t \in Turn, NEW outcome \in Outcomes, Settled(t, outcome),
           \/ listed' = Listed(t) /\ UNCHANGED recent
           \/ UNCHANGED <<listed, recent>>
           \/ kind[t] = "temporary" /\ listed' = {} /\ recent' = {}
    PROVE  PageInv' /\ listed' \in SUBSET Turn /\ recent' \in SUBSET Turn
<1>1. \A k \in Kind : Active(k)' = Active(k) \ {t}
  BY SettledCore
<1>2. UNCHANGED app /\ listed \subseteq Turn /\ recent \subseteq Turn
  BY DEF Settled, Same, IInv, TypeOK
<1>3. kind[t] = "temporary" => t \in Active("temporary")
  BY DEF Settled, Active, Live
<1>4. \A u, v \in Active("temporary") : u = v
  BY DEF IInv, OneStream, SnapshotIsLive, Kind
<1>5. Active("temporary")' = Active("temporary") \ {t}
  BY <1>1 DEF Kind
<1>6. CASE UNCHANGED recent /\ listed' \in {listed, Listed(t)}
  BY <1>2, <1>3, <1>5, <1>6 DEF IInv, PageInv, Listed
<1>7. CASE kind[t] = "temporary" /\ listed' = {} /\ recent' = {}
  BY <1>3, <1>4, <1>5, <1>7 DEF PageInv
<1> QED
  BY <1>6, <1>7

LEMMA SettledType ==
    ASSUME IInv, NEW t \in Turn, NEW outcome \in Outcomes, Settled(t, outcome),
           cached' \in Replies, UNCHANGED <<fetch, answer>> \/ NoFetch \/ RefetchAfter,
           token' \in {"valid", "expired", "none"},
           listed' \in SUBSET Turn, recent' \in SUBSET Turn, UNCHANGED extras \/ Extra
    PROVE  TypeOK'
<1>1. TypeOK
  BY DEF IInv
<1>2. /\ phase' \in [Turn -> {"unused", "asked", "refreshing", "done"}]
      /\ result' \in [Turn -> {"none", "completed", "failed", "stopped", "refused"}]
      /\ ends' \in [Turn -> Nat] /\ errors' \in [Turn -> Nat] /\ buffer' \in [Turn -> Seq(1..N)]
      /\ UNCHANGED <<kind, attempt, pos, failed>>
  BY <1>1 DEF Settled, Settle, FinishEntry, TypeOK, Outcomes
<1>3. streaming' \in [Kind -> BOOLEAN] /\ shown' \in [Kind -> Seq(Turn \X (1..N))]
  <2>1. <<>> \in Seq(Turn \X (1..N))
    OBVIOUS
  <2> QED
    BY <1>1, <2>1 DEF Settled, FinishEntry, TypeOK
<1>4. server' \in [Turn -> {"none", "asked", "refused", "working", "finished", "failed", "gone"}]
  BY <1>1 DEF Settled, TypeOK
<1>5. answer' \in Replies /\ fetch' \in {"none", "asked", "read"}
  <2>1. All(Absent) \in Replies
    BY BoundsAssumption DEF All, Replies, Stored, Absent
  <2> QED
    BY <1>1, <2>1 DEF TypeOK, NoFetch, RefetchAfter
<1>6. extras' \in 0..MaxExtras
  BY <1>1, BoundsAssumption DEF TypeOK, Extra
<1>7. UNCHANGED <<app, written, row, replaced, emptied>>
  BY DEF Settled, Same
<1>8. conn' \in [Turn -> {"none", "opening", "open", "closing", "closed"}]
  BY DEF Settled
<1> QED
  BY <1>1, <1>2, <1>3, <1>4, <1>5, <1>6, <1>7, <1>8 DEF TypeOK

\* Together: what is left to show of a way a turn ends.
LEMMA SettledStep ==
    ASSUME IInv, NEW t \in Turn, NEW outcome \in Outcomes, Settled(t, outcome),
           cached' \in Replies, \A u \in Turn \ {t} : cached'[u] = cached[u],
           UNCHANGED <<fetch, answer>> \/ NoFetch \/ RefetchAfter,
           outcome = "completed" /\ kind[t] = "chat" =>
              (cached'[t] = N \/ t \in emptied) /\ fetch' # "read",
           token' \in {"valid", "expired", "none"},
           \/ listed' = Listed(t) /\ UNCHANGED recent
           \/ UNCHANGED <<listed, recent>>
           \/ kind[t] = "temporary" /\ listed' = {} /\ recent' = {},
           UNCHANGED extras \/ Extra
    PROVE  IInv'
<1>1. listed' \in SUBSET Turn /\ recent' \in SUBSET Turn /\ PageInv'
  BY SettledPage
<1>2. TypeOK'
  BY <1>1, SettledType
<1> QED
  BY <1>1, <1>2, SettledCore, SettledHistory DEF IInv

\* The ways a turn ends.
LEMMA Ending ==
    ASSUME IInv, NEW t \in Turn, NEW outcome \in Outcomes,
           phase[t] \in Live, FinishEntry(t), Settle(t, outcome), Same,
           \/ Close(t)
           \/ conn' = [conn EXCEPT ![t] = "closed"]
           \/ phase[t] = "refreshing" /\ UNCHANGED conn,
           \/ UNCHANGED server
           \/ server[t] \in Refusing /\ server' = [server EXCEPT ![t] = "none"],
           outcome = "completed" => server[t] = "finished"
    PROVE  Settled(t, outcome)
<1>1. conn \in [Turn -> {"none", "opening", "open", "closing", "closed"}]
  BY DEF IInv, TypeOK
<1>2. phase[t] = "refreshing" => conn[t] \notin {"opening", "open"}
  BY DEF IInv, StageInv
<1>3. /\ conn' \in [Turn -> {"none", "opening", "open", "closing", "closed"}]
      /\ conn'[t] \notin {"opening", "open"} /\ \A u \in Turn \ {t} : conn'[u] = conn[u]
  BY <1>1, <1>2 DEF Close
<1> QED
  BY <1>3 DEF Settled

\* persistPartial: a reply that is not in the cache is there with all that was received.
LEMMA PersistStep ==
    ASSUME IInv, NEW t \in Turn, phase[t] \in Live, PersistPartial(t)
    PROVE  /\ cached' \in Replies /\ \A u \in Turn \ {t} : cached'[u] = cached[u]
           /\ cached'[t] = IF Got(t) > 0 /\ cached[t] = Absent THEN Got(t) ELSE cached[t]
<1>1. Got(t) \in 0..N /\ Flushed(t) \in Seq(Turn \X (1..N)) /\ Len(Flushed(t)) = Got(t)
  BY FlushedText
<1>2. cached \in Replies /\ pos[t] \in Nat
  BY BoundsAssumption DEF IInv, TypeOK
<1>3. pos[t] > 0 /\ Flushed(t) # <<>> <=> Got(t) > 0
  BY <1>1, <1>2 DEF Got
<1>4. cached' = IF Got(t) > 0 /\ cached[t] = Absent THEN [cached EXCEPT ![t] = Got(t)] ELSE cached
  BY <1>1, <1>3 DEF PersistPartial
<1>5. Got(t) \in Stored
  BY <1>1, BoundsAssumption DEF Stored, Absent
<1> QED
  BY <1>2, <1>4, <1>5 DEF Replies

LEMMA StopStep == ASSUME IInv, NEW t \in Turn, Stop(t) PROVE IInv'
<1>1. /\ phase[t] \in Live /\ FinishEntry(t) /\ Settle(t, "stopped") /\ Close(t)
      /\ UNCHANGED <<app, fetch, answer, replaced, emptied, server, written, row, token, recent, extras>>
      /\ listed' = Listed(t) /\ "stopped" \in Outcomes
  BY DEF Stop, Current, Live, backend, Outcomes
<1>2. Settled(t, "stopped")
  BY <1>1, Ending DEF Same
<1>3. cached' \in Replies /\ \A u \in Turn \ {t} : cached'[u] = cached[u]
  <2>1. CASE kind[t] = "chat"
    BY <1>1, <2>1, PersistStep DEF Stop
  <2>2. CASE kind[t] # "chat"
    BY <2>2 DEF Stop, IInv, TypeOK
  <2> QED
    BY <2>1, <2>2
<1>4. token' \in {"valid", "expired", "none"}
  BY <1>1 DEF IInv, TypeOK
<1> QED
  BY <1>1, <1>2, <1>3, <1>4, SettledStep

\* An attempt that fails, in one of four ways.
LEMMA FailStep ==
    ASSUME IInv, NEW t \in Turn, FailTurn(t), phase[t] \in Live,
           UNCHANGED <<app, written, row>>,
           \/ Close(t)
           \/ conn' = [conn EXCEPT ![t] = "closed"]
           \/ phase[t] = "refreshing" /\ UNCHANGED conn,
           \/ UNCHANGED server
           \/ server[t] \in Refusing /\ server' = [server EXCEPT ![t] = "none"],
           token' \in {token, "none"}, UNCHANGED extras \/ Extra
    PROVE  IInv'
<1>1. /\ FinishEntry(t) /\ Settle(t, "failed") /\ "failed" \in Outcomes
      /\ UNCHANGED <<cached, fetch, answer, replaced, emptied, recent>> /\ listed' = Listed(t)
  BY DEF FailTurn, history, Outcomes
<1>2. Settled(t, "failed")
  BY <1>1, Ending DEF Same
<1>3. cached' \in Replies /\ token' \in {"valid", "expired", "none"}
  BY <1>1 DEF IInv, TypeOK
<1> QED
  BY <1>1, <1>2, <1>3, SettledStep

LEMMA LeaveStoppingStep == ASSUME IInv, LeaveStopping PROVE IInv'
<1>1. PICK t \in Active("temporary") : FinishEntry(t) /\ Settle(t, "stopped") /\ Close(t)
  BY DEF LeaveStopping
<1>2. /\ UNCHANGED <<app, cached, fetch, answer, replaced, emptied, server, written, row, token, extras>>
      /\ listed' = {} /\ recent' = {}
  BY DEF LeaveStopping, history, backend
<1>3. t \in Turn /\ phase[t] \in Live /\ kind[t] = "temporary" /\ "stopped" \in Outcomes
  BY DEF Active, Live, Outcomes
<1>4. Settled(t, "stopped")
  BY <1>1, <1>2, <1>3, Ending DEF Same
<1>5. cached' \in Replies /\ token' \in {"valid", "expired", "none"}
  BY <1>2 DEF IInv, TypeOK
<1> QED
  BY <1>2, <1>3, <1>4, <1>5, SettledStep

\* A reply that ends whole is in the cache whole, or its empty message was read before.
LEMMA EndFrameStep == ASSUME IInv, NEW t \in Turn, EndFrame(t) PROVE IInv'
<1>1. /\ conn[t] = "open" /\ server[t] = "finished" /\ pos[t] = N + 1
      /\ conn' = [conn EXCEPT ![t] = "closed"]
      /\ FinishEntry(t) /\ Settle(t, "completed") /\ listed' = Listed(t) /\ "completed" \in Outcomes
      /\ UNCHANGED <<app, replaced, emptied, server, written, row, token, recent, extras>>
  BY DEF EndFrame, backend, Outcomes
<1>2. phase[t] = "asked" /\ phase[t] \in Live
  BY <1>1 DEF IInv, StageInv, Live
<1>3. Settled(t, "completed")
  BY <1>1, <1>2, Ending DEF Same
<1>4. token' \in {"valid", "expired", "none"}
  BY <1>1 DEF IInv, TypeOK
<1>5. CASE kind[t] = "chat"
  <2>1. PersistPartial(t) /\ RefetchAfter
    BY <1>5 DEF EndFrame
  <2>2. /\ cached' \in Replies /\ \A u \in Turn \ {t} : cached'[u] = cached[u]
        /\ cached'[t] = IF Got(t) > 0 /\ cached[t] = Absent THEN Got(t) ELSE cached[t]
    BY <1>2, <2>1, PersistStep
  <2>3. Got(t) = N /\ N > 0
    BY <1>1, BoundsAssumption DEF Got
  <2>4. cached'[t] = N \/ t \in emptied
    <3>1. Known(t, cached[t]) /\ (cached[t] = 0 => t \in emptied)
      BY <1>2 DEF IInv, HistoryInv
    <3>2. written[t] = N
      BY <1>1 DEF IInv, PosInv
    <3> QED
      BY <2>2, <2>3, <3>1, <3>2 DEF Known
  <2>5. fetch' # "read"
    BY <2>1 DEF RefetchAfter
  <2> QED
    BY <1>1, <1>3, <1>4, <2>1, <2>2, <2>4, <2>5, SettledStep
<1>6. CASE kind[t] # "chat"
  <2>1. UNCHANGED <<cached, fetch, answer>>
    BY <1>6 DEF EndFrame
  <2>2. cached' \in Replies
    BY <2>1 DEF IInv, TypeOK
  <2> QED
    BY <1>1, <1>3, <1>4, <1>6, <2>1, <2>2, SettledStep
<1> QED
  BY <1>5, <1>6

-----------------------------------------------------------------------------
(* A turn begins. *)

\* A new attempt: what a question and a refreshed token have in common.
LEMMA AttemptStep ==
    ASSUME IInv, NEW t \in Turn, NEW bearer \in {"valid", "expired"}, Attempt(t, bearer),
           attempt[t] < 2
    PROVE  /\ \A u \in Turn \ {t} : attempt'[u] = attempt[u] /\ conn'[u] = conn[u] /\ server'[u] = server[u]
                 /\ phase'[u] = phase[u] /\ pos'[u] = pos[u]
           /\ attempt'[t] = attempt[t] + 1 /\ conn'[t] = "opening" /\ server'[t] \in {"asked", "refused"}
           /\ phase'[t] = "asked" /\ pos'[t] = 0
           /\ attempt' \in [Turn -> 0..2] /\ pos' \in [Turn -> 0..N + 1]
           /\ conn' \in [Turn -> {"none", "opening", "open", "closing", "closed"}]
           /\ server' \in [Turn -> {"none", "asked", "refused", "working", "finished", "failed", "gone"}]
           /\ phase' \in [Turn -> {"unused", "asked", "refreshing", "done"}]
<1>1. /\ attempt \in [Turn -> 0..2] /\ pos \in [Turn -> 0..N + 1]
      /\ conn \in [Turn -> {"none", "opening", "open", "closing", "closed"}]
      /\ server \in [Turn -> {"none", "asked", "refused", "working", "finished", "failed", "gone"}]
      /\ phase \in [Turn -> {"unused", "asked", "refreshing", "done"}]
  BY DEF IInv, TypeOK
<1>2. 0 \in 0..N + 1 /\ attempt[t] + 1 \in 0..2
  BY <1>1, BoundsAssumption
<1>3. /\ attempt' = [attempt EXCEPT ![t] = @ + 1]
      /\ conn' = [conn EXCEPT ![t] = "opening"]
      /\ server' = [server EXCEPT ![t] = IF bearer = "valid" THEN "asked" ELSE "refused"]
      /\ phase' = [phase EXCEPT ![t] = "asked"]
      /\ pos' = [pos EXCEPT ![t] = 0]
  BY DEF Attempt
<1>4. attempt' \in [Turn -> 0..2] /\ pos' \in [Turn -> 0..N + 1]
  BY <1>1, <1>2, <1>3
<1>5. conn' \in [Turn -> {"none", "opening", "open", "closing", "closed"}]
  BY <1>1, <1>3
<1>6. /\ server' \in [Turn -> {"none", "asked", "refused", "working", "finished", "failed", "gone"}]
      /\ server'[t] \in {"asked", "refused"} /\ \A u \in Turn \ {t} : server'[u] = server[u]
  BY <1>1, <1>3
<1>7. phase' \in [Turn -> {"unused", "asked", "refreshing", "done"}]
  BY <1>1, <1>3
<1> QED
  BY <1>1, <1>3, <1>4, <1>5, <1>6, <1>7

LEMMA AskStep == ASSUME IInv, NEW t \in Turn, NEW k \in Kind, Ask(t, k) PROVE IInv'
<1>1. /\ phase[t] = "unused" /\ token # "none" /\ Active(k) = {}
      /\ streaming' = [streaming EXCEPT ![k] = TRUE] /\ shown' = [shown EXCEPT ![k] = <<>>]
      /\ Attempt(t, token)
      /\ UNCHANGED <<app, failed, buffer, result, ends, errors, written, row, token, extras, emptied>>
  BY DEF Ask, NextTurn, StartStreaming, Send, SendTemporary, history
<1>2. TypeOK
  BY DEF IInv
<1>3. server[t] = "none" /\ replaced[t] = {} /\ attempt[t] = 0 /\ result[t] = "none" /\ buffer[t] = <<>>
  BY <1>1 DEF IInv, StageInv, TextInv, Live
<1>4. token \in {"valid", "expired"}
  BY <1>1, <1>2 DEF TypeOK
<1>5. /\ \A u \in Turn \ {t} : attempt'[u] = attempt[u] /\ conn'[u] = conn[u] /\ server'[u] = server[u]
               /\ phase'[u] = phase[u] /\ pos'[u] = pos[u]
      /\ attempt'[t] = attempt[t] + 1 /\ conn'[t] = "opening" /\ server'[t] \in {"asked", "refused"}
      /\ phase'[t] = "asked" /\ pos'[t] = 0
      /\ attempt' \in [Turn -> 0..2] /\ pos' \in [Turn -> 0..N + 1]
      /\ conn' \in [Turn -> {"none", "opening", "open", "closing", "closed"}]
      /\ server' \in [Turn -> {"none", "asked", "refused", "working", "finished", "failed", "gone"}]
      /\ phase' \in [Turn -> {"unused", "asked", "refreshing", "done"}]
  BY <1>1, <1>3, <1>4, AttemptStep
<1>6. kind' = [kind EXCEPT ![t] = k]
  BY DEF Ask, Kind, Send, SendTemporary
\* The history loses what an edit cuts off.
<1>7. \E cut \in SUBSET (Turn \ {t}) :
         /\ cached' = [u \in Turn |-> IF u \in cut THEN Absent ELSE cached[u]]
         /\ replaced' = [replaced EXCEPT ![t] = cut]
  <2>1. CASE k = "temporary"
    <3>1. cached' = cached /\ replaced' = replaced
      BY <2>1 DEF Ask, SendTemporary, history
    <3>2. cached' = [u \in Turn |-> IF u \in {} THEN Absent ELSE cached[u]]
      BY <1>2, <3>1 DEF TypeOK, Replies
    <3>3. replaced' = [replaced EXCEPT ![t] = {}]
      BY <1>2, <1>3, <3>1 DEF TypeOK
    <3> QED
      BY <3>2, <3>3
  <2>2. CASE k = "chat"
    <3>1. PICK e \in Turn : Send(t, e)
      BY <2>2 DEF Ask
    <3>2. CutOff(t, e) \in SUBSET (Turn \ {t})
      BY BoundsAssumption DEF CutOff, Turn
    <3> QED
      BY <3>1, <3>2 DEF Send
  <2> QED
    BY <2>1, <2>2 DEF Kind
<1>8. PICK cut \in SUBSET (Turn \ {t}) :
         /\ cached' = [u \in Turn |-> IF u \in cut THEN Absent ELSE cached[u]]
         /\ replaced' = [replaced EXCEPT ![t] = cut]
  BY <1>7
<1>9. \/ UNCHANGED <<fetch, answer>>
      \/ fetch' = "none" /\ answer' = All(Absent)
  BY DEF Ask, Send, SendTemporary, NoFetch, history
<1>10. /\ k = "chat" => UNCHANGED <<listed, recent>>
       /\ k = "temporary" => recent' = recent \cup {t} /\ listed' \in {listed, listed \cup {t}}
                             /\ (app = "mobile" => listed' = listed)
  BY DEF Ask, Send, SendTemporary, page, Kind
<1>11. Active(k)' = {t} /\ \A l \in Kind \ {k} : Active(l)' = Active(l)
  BY <1>1, <1>2, <1>5, <1>6 DEF Active, TypeOK
<1>12. TypeOK'
  <2>1. cached' \in Replies /\ answer' \in Replies /\ fetch' \in {"none", "asked", "read"}
    <3>1. Absent \in Stored
      BY BoundsAssumption DEF Stored, Absent
    <3>2. All(Absent) \in Replies
      BY <3>1 DEF Replies, All
    <3>3. cached' \in Replies
      BY <1>2, <1>8, <3>1 DEF TypeOK, Replies
    <3> QED
      BY <1>2, <1>9, <3>2, <3>3 DEF TypeOK
  <2>2. replaced' \in [Turn -> SUBSET Turn] /\ kind' \in [Turn -> Kind \cup {"none"}]
    BY <1>2, <1>6, <1>8 DEF TypeOK
  <2>3. streaming' \in [Kind -> BOOLEAN] /\ shown' \in [Kind -> Seq(Turn \X (1..N))]
    <3>1. <<>> \in Seq(Turn \X (1..N))
      OBVIOUS
    <3> QED
      BY <1>1, <1>2, <3>1 DEF TypeOK
  <2>4. listed' \in SUBSET Turn /\ recent' \in SUBSET Turn
    BY <1>2, <1>10 DEF TypeOK, Kind
  <2> QED
    BY <1>1, <1>2, <1>5, <2>1, <2>2, <2>3, <2>4 DEF TypeOK
<1>13. StageInv'
  <2> SUFFICES ASSUME NEW u \in Turn
               PROVE  /\ phase'[u] = "unused" =>
                           server'[u] = "none" /\ replaced'[u] = {} /\ attempt'[u] = 0
                      /\ phase'[u] = "refreshing" => server'[u] = "none" /\ attempt'[u] = 1
                      /\ phase'[u] # "unused" => kind'[u] \in Kind
                      /\ conn'[u] \in {"opening", "open"} => phase'[u] = "asked"
                      /\ phase'[u] # "done" => result'[u] = "none"
                      /\ result'[u] = "completed" => server'[u] = "finished"
    BY DEF StageInv
  <2>1. CASE u = t
    BY <1>1, <1>2, <1>3, <1>5, <1>6, <2>1 DEF TypeOK
  <2>2. CASE u # t
    BY <1>1, <1>2, <1>5, <1>6, <1>8, <2>2 DEF TypeOK, IInv, StageInv
  <2> QED
    BY <2>1, <2>2
<1>14. EndsOnce'
  BY <1>1, <1>5 DEF IInv, EndsOnce
<1>15. OneStream'
  <2>1. \A l \in Kind : (streaming'[l] <=> Active(l)' # {}) /\ \A u, v \in Active(l)' : u = v
    <3>1. \A l \in Kind \ {k} : (streaming[l] <=> Active(l) # {}) /\ \A u, v \in Active(l) : u = v
      BY DEF IInv, OneStream, SnapshotIsLive
    <3>2. streaming'[k] = TRUE /\ \A l \in Kind \ {k} : streaming'[l] = streaming[l]
      BY <1>1, <1>2 DEF TypeOK
    <3>3. ASSUME NEW l \in Kind
          PROVE  (streaming'[l] <=> Active(l)' # {}) /\ \A u, v \in Active(l)' : u = v
      <4>1. CASE l = k
        BY <1>11, <3>2, <4>1
      <4>2. CASE l # k
        BY <1>11, <3>1, <3>2, <4>2
      <4> QED
        BY <4>1, <4>2
    <3> QED
      BY <3>3
  <2> QED
    BY <2>1 DEF OneStream, SnapshotIsLive
<1>16. TextInv'
  <2>1. \A l \in Kind : ~streaming'[l] => shown'[l] = <<>>
    BY <1>1, <1>2 DEF IInv, TextInv, TypeOK
  <2>2. ASSUME NEW u \in Turn \ {t}, phase'[u] \in Live PROVE Text(u)'
    <3>1. phase[u] \in Live /\ kind[u] \in Kind
      BY <1>5, <2>2 DEF IInv, StageInv, Live
    <3>2. kind[u] # k
      BY <1>1, <3>1 DEF Active, Live
    <3>3. kind'[u] = kind[u] /\ shown'[kind[u]] = shown[kind[u]]
      BY <1>1, <1>2, <1>6, <2>2, <3>1, <3>2 DEF TypeOK
    <3>4. pos'[u] = pos[u] /\ buffer'[u] = buffer[u] /\ Text(u)
      BY <1>1, <1>5, <2>2, <3>1 DEF IInv, TextInv
    <3> QED
      BY <3>3, <3>4 DEF Text, Got
  <2>3. Text(t)'
    <3>1. kind'[t] = k /\ shown'[k] = <<>> /\ buffer'[t] = <<>> /\ pos'[t] = 0
      BY <1>1, <1>2, <1>3, <1>5, <1>6 DEF TypeOK
    <3> QED
      BY <3>1 DEF Text, Got
  <2>4. ASSUME NEW u \in Turn, phase'[u] \notin Live PROVE buffer'[u] = <<>>
    BY <1>1, <1>3, <1>5, <2>4 DEF IInv, TextInv
  <2> QED
    BY <2>1, <2>2, <2>3, <2>4 DEF TextInv
<1>17. PosInv'
  <2>1. written[t] \in 0..N
    BY <1>2 DEF TypeOK
  <2> QED
    <3> SUFFICES ASSUME NEW u \in Turn
                 PROVE  /\ server'[u] \in Refusing => pos'[u] = 0
                        /\ pos'[u] <= written'[u] + 1
                        /\ server'[u] = "finished" => written'[u] = N
      BY DEF PosInv
    <3>1. CASE u = t
      BY <1>1, <1>5, <2>1, <3>1, BoundsAssumption
    <3>2. CASE u # t
      BY <1>1, <1>5, <3>2 DEF IInv, PosInv
    <3> QED
      BY <3>1, <3>2
<1>18. Cut \subseteq Cut' /\ cut \subseteq Cut'
  <2>1. \A u \in Turn : replaced[u] \subseteq replaced'[u]
    BY <1>2, <1>3, <1>8 DEF TypeOK
  <2>2. replaced'[t] = cut
    BY <1>2, <1>8 DEF TypeOK
  <2> QED
    BY <2>1, <2>2 DEF Cut
<1>19. \A u \in Turn : row[u] # Absent \/ cached[u] # Absent \/ answer[u] # Absent => u # t \/ phase[u] = "done"
  BY <1>3 DEF IInv, HistoryInv, Known, RowInv, Refusing, Ended
<1>20. \A u \in Turn \ {t} : kind'[u] = kind[u]
  BY <1>6
<1>21. RowInv'
  <2> SUFFICES ASSUME NEW u \in Turn
               PROVE  /\ row'[u] # Absent =>
                            /\ kind'[u] = "chat"
                            /\ \/ server'[u] = "working" /\ row'[u] = 0
                               \/ server'[u] \in Ended /\ row'[u] = written'[u]
                      /\ kind'[u] = "chat" /\ server'[u] \notin Refusing /\ u \notin Cut' =>
                            row'[u] # Absent
    BY DEF RowInv
  <2>1. CASE u = t
    <3>1. row[t] = Absent /\ server'[t] \in Refusing
      BY <1>1, <1>5, <1>19 DEF Refusing
    <3> QED
      BY <1>1, <2>1, <3>1
  <2>2. CASE u # t
    <3>1. /\ row'[u] = row[u] /\ written'[u] = written[u] /\ kind'[u] = kind[u] /\ server'[u] = server[u]
          /\ u \notin Cut' => u \notin Cut
      BY <1>1, <1>5, <1>18, <1>20, <2>2
    <3> QED
      BY <3>1 DEF IInv, RowInv
  <2> QED
    BY <2>1, <2>2
<1>22. HistoryInv'
  <2> SUFFICES ASSUME NEW u \in Turn, phase'[u] # "done"
               PROVE  (Known(u, answer[u]) /\ Known(u, cached[u]) /\ (cached[u] = 0 => u \in emptied))'
    BY DEF HistoryInv
  <2>1. answer'[u] \in {Absent, answer[u]} /\ cached'[u] \in {Absent, cached[u]}
    BY <1>8, <1>9 DEF All
  <2>2. CASE u = t
    <3>1. answer'[u] = Absent /\ cached'[u] = Absent
      BY <1>1, <1>19, <2>1, <2>2
    <3> QED
      BY <3>1 DEF Known, Absent
  <2>3. CASE u # t
    <3>1. phase[u] # "done" /\ server'[u] = server[u] /\ kind'[u] = kind[u]
      BY <1>5, <1>20, <2>3
    <3> QED
      BY <1>1, <2>1, <3>1 DEF IInv, HistoryInv, Known, Absent
  <2> QED
    BY <2>2, <2>3
<1>23. AnswerInv'
  BY <1>1, <1>3, <1>9, <1>18, <1>20 DEF IInv, AnswerInv
<1>24. CompletedIsWhole'
  <2> SUFFICES ASSUME NEW u \in Turn, result'[u] = "completed", kind'[u] = "chat"
               PROVE  cached'[u] = N \/ u \in emptied' \/ u \in Cut'
    BY DEF CompletedIsWhole, Cut
  <2>1. u # t /\ kind[u] = "chat" /\ result[u] = "completed"
    BY <1>1, <1>3, <1>20
  <2>2. cached[u] = N \/ u \in emptied \/ u \in Cut
    BY <2>1 DEF IInv, CompletedIsWhole, Cut
  <2> QED
    BY <1>1, <1>8, <1>18, <2>2
<1>25. PageInv'
  BY <1>1, <1>10, <1>11 DEF IInv, PageInv, Kind
<1> QED
  BY <1>12, <1>13, <1>14, <1>15, <1>16, <1>17, <1>21, <1>22, <1>23, <1>24, <1>25 DEF IInv

\* A refused question touches nothing of the one that is answered.
LEMMA AskBusyStep == ASSUME IInv, NEW t \in Turn, NEW k \in Kind, AskBusy(t, k) PROVE IInv'
<1>1. /\ phase[t] = "unused" /\ phase' = [phase EXCEPT ![t] = "done"]
      /\ result' = [result EXCEPT ![t] = "refused"] /\ errors' = [errors EXCEPT ![t] = @ + 1]
      /\ kind' = [kind EXCEPT ![t] = k]
      /\ UNCHANGED <<app, attempt, conn, pos, failed, buffer, ends, store, history, backend, token, extras>>
      /\ \/ UNCHANGED page
         \/ recent' = recent \cup {t} /\ listed' \in {listed, listed \cup {t}}
            /\ (app = "mobile" => listed' = listed)
  BY DEF AskBusy, NextTurn, SendTemporary, Kind
<1>2. TypeOK
  BY DEF IInv
<1>3. /\ server[t] = "none" /\ result[t] = "none" /\ buffer[t] = <<>> /\ ends[t] = 0 /\ errors[t] = 0
      /\ conn[t] \notin {"opening", "open"}
  BY <1>1 DEF IInv, StageInv, TextInv, EndsOnce, Live
<1>4. /\ \A u \in Turn \ {t} : phase'[u] = phase[u] /\ result'[u] = result[u]
            /\ errors'[u] = errors[u] /\ kind'[u] = kind[u]
      /\ phase'[t] = "done" /\ result'[t] = "refused" /\ errors'[t] = 1 /\ kind'[t] = k
  BY <1>1, <1>2, <1>3 DEF TypeOK
<1>5. \A l \in Kind : Active(l)' = Active(l)
  BY <1>1, <1>4 DEF Active
<1>6. row[t] = Absent /\ cached[t] = Absent /\ answer[t] = Absent
  BY <1>1, <1>3 DEF IInv, HistoryInv, Known, RowInv, Refusing, Ended
<1>7. TypeOK'
  <2>1. listed' \in SUBSET Turn /\ recent' \in SUBSET Turn
    BY <1>1, <1>2 DEF TypeOK, page
  <2>2. kind' \in [Turn -> Kind \cup {"none"}] /\ errors' \in [Turn -> Nat]
    BY <1>1, <1>2 DEF TypeOK
  <2>3. /\ phase' \in [Turn -> {"unused", "asked", "refreshing", "done"}]
        /\ result' \in [Turn -> {"none", "completed", "failed", "stopped", "refused"}]
    BY <1>1, <1>2 DEF TypeOK
  <2> QED
    BY <1>1, <1>2, <2>1, <2>2, <2>3 DEF TypeOK, store, history, backend
<1>8. StageInv'
  <2> SUFFICES ASSUME NEW u \in Turn
               PROVE  /\ phase'[u] = "unused" =>
                           server'[u] = "none" /\ replaced'[u] = {} /\ attempt'[u] = 0
                      /\ phase'[u] = "refreshing" => server'[u] = "none" /\ attempt'[u] = 1
                      /\ phase'[u] # "unused" => kind'[u] \in Kind
                      /\ conn'[u] \in {"opening", "open"} => phase'[u] = "asked"
                      /\ phase'[u] # "done" => result'[u] = "none"
                      /\ result'[u] = "completed" => server'[u] = "finished"
    BY DEF StageInv
  <2>1. CASE u = t
    BY <1>1, <1>3, <1>4, <2>1
  <2>2. CASE u # t
    BY <1>1, <1>4, <2>2 DEF IInv, StageInv, history, backend
  <2> QED
    BY <2>1, <2>2
<1>9. EndsOnce'
  BY <1>1, <1>3, <1>4 DEF IInv, EndsOnce
<1>10. OneStream'
  BY <1>1, <1>5 DEF IInv, OneStream, SnapshotIsLive, store
<1>11. TextInv'
  <2>1. ASSUME NEW u \in Turn \ {t} PROVE IF phase'[u] \in Live THEN Text(u)' ELSE buffer'[u] = <<>>
    <3>1. IF phase[u] \in Live THEN Text(u) ELSE buffer[u] = <<>>
      BY DEF IInv, TextInv
    <3>2. phase'[u] = phase[u] /\ kind'[u] = kind[u] /\ UNCHANGED <<shown, buffer, pos>>
      BY <1>1, <1>4, <2>1 DEF store
    <3> QED
      BY <3>1, <3>2 DEF Text, Got
  <2>2. phase'[t] \notin Live /\ buffer'[t] = <<>>
    BY <1>1, <1>3, <1>4 DEF Live
  <2> QED
    BY <1>1, <2>1, <2>2 DEF IInv, TextInv, store
<1>12. PosInv'
  BY <1>1 DEF IInv, PosInv, backend
<1>13. RowInv'
  <2> SUFFICES ASSUME NEW u \in Turn
               PROVE  /\ row'[u] # Absent =>
                            /\ kind'[u] = "chat"
                            /\ \/ server'[u] = "working" /\ row'[u] = 0
                               \/ server'[u] \in Ended /\ row'[u] = written'[u]
                      /\ kind'[u] = "chat" /\ server'[u] \notin Refusing /\ u \notin Cut' =>
                            row'[u] # Absent
    BY DEF RowInv
  <2>1. CASE u = t
    BY <1>1, <1>3, <1>6, <2>1 DEF Refusing, backend
  <2>2. CASE u # t
    BY <1>1, <1>4, <2>2 DEF IInv, RowInv, Cut, history, backend
  <2> QED
    BY <2>1, <2>2
<1>14. HistoryInv' /\ AnswerInv'
  BY <1>1, <1>4 DEF IInv, HistoryInv, AnswerInv, Known, Cut, history, backend
<1>15. CompletedIsWhole'
  BY <1>1, <1>4 DEF IInv, CompletedIsWhole, history
<1>16. PageInv'
  BY <1>1, <1>5 DEF IInv, PageInv, Kind, page
<1> QED
  BY <1>7, <1>8, <1>9, <1>10, <1>11, <1>12, <1>13, <1>14, <1>15, <1>16 DEF IInv

-----------------------------------------------------------------------------
(* The server. *)

TurnsPart == StageInv /\ EndsOnce /\ OneStream /\ TextInv
HistoryPart == HistoryInv /\ AnswerInv /\ CompletedIsWhole
ServerPart == PosInv /\ RowInv

LEMMA Parts ==
    IInv <=> TypeOK /\ TurnsPart /\ ServerPart /\ HistoryPart /\ PageInv
  BY DEF IInv, TurnsPart, HistoryPart, ServerPart

LEMMA SameText ==
    ASSUME EndsOnce, OneStream, TextInv,
           UNCHANGED <<kind, phase, pos, buffer, result, ends, errors, streaming, shown>>
    PROVE  EndsOnce' /\ OneStream' /\ TextInv'
<1>1. EndsOnce'
  BY DEF EndsOnce
<1>2. OneStream'
  BY DEF OneStream, SnapshotIsLive, Active
<1>3. TextInv'
  BY DEF TextInv, Text, Got
<1> QED
  BY <1>1, <1>2, <1>3

LEMMA SameTurns ==
    ASSUME TurnsPart, UNCHANGED <<turns, store, server, replaced>>
    PROVE  TurnsPart'
<1>1. StageInv'
  BY DEF TurnsPart, StageInv, turns
<1>2. EndsOnce' /\ OneStream' /\ TextInv'
  BY SameText DEF TurnsPart, turns, store
<1> QED
  BY <1>1, <1>2 DEF TurnsPart

LEMMA SamePage ==
    ASSUME PageInv, UNCHANGED <<app, kind, phase, page>>
    PROVE  PageInv'
  BY DEF PageInv, Active, page

LEMMA SameServer ==
    ASSUME ServerPart, UNCHANGED <<kind, pos, server, written, row, replaced>>
    PROVE  ServerPart'
  BY DEF ServerPart, PosInv, RowInv, Cut

\* The history keeps what it says while the server goes on with replies under way.
LEMMA SameHistory ==
    ASSUME HistoryPart, UNCHANGED <<kind, phase, result, history>>,
           \A u \in Turn : \/ server'[u] = server[u] /\ written'[u] = written[u]
                           \/ server[u] \in Refusing
                           \/ server[u] = "working" /\ server'[u] \notin Refusing
    PROVE  HistoryPart'
<1> USE DEF history
<1>1. HistoryInv'
  <2> SUFFICES ASSUME NEW u \in Turn, phase[u] # "done"
               PROVE  Known(u, answer[u])' /\ Known(u, cached[u])'
    BY DEF HistoryInv, HistoryPart
  <2>1. Known(u, answer[u]) /\ Known(u, cached[u])
    BY DEF HistoryPart, HistoryInv
  <2>2. CASE server'[u] = server[u] /\ written'[u] = written[u]
    BY <2>1, <2>2 DEF Known
  <2>3. CASE server[u] \in Refusing
    BY <2>1, <2>3 DEF Known, Refusing, Ended
  <2>4. CASE server[u] = "working" /\ server'[u] \notin Refusing
    BY <2>1, <2>4 DEF Known, Ended
  <2> QED
    BY <2>2, <2>3, <2>4
<1>2. AnswerInv' /\ CompletedIsWhole'
  BY DEF HistoryPart, AnswerInv, CompletedIsWhole, Cut
<1> QED
  BY <1>1, <1>2 DEF HistoryPart

LEMMA AcceptStep == ASSUME IInv, NEW t \in Turn, Accept(t) PROVE IInv'
<1>1. /\ server[t] = "asked" /\ server' = [server EXCEPT ![t] = "working"]
      /\ written' = [written EXCEPT ![t] = 0]
      /\ UNCHANGED <<app, kind, phase, attempt, pos, failed, buffer, result, ends, errors, streaming, shown,
                     cached, fetch, answer, replaced, emptied, token, listed, recent, extras>>
  BY DEF Accept, store, history, page
<1>2. TypeOK
  BY DEF IInv
<1>3. phase[t] # "unused" /\ kind[t] \in Kind /\ phase[t] # "refreshing" /\ result[t] # "completed"
      /\ pos[t] = 0 /\ row[t] = Absent
  BY <1>1, <1>2 DEF IInv, StageInv, PosInv, RowInv, Refusing, Ended, TypeOK
<1>4. /\ conn' \in [Turn -> {"none", "opening", "open", "closing", "closed"}]
      /\ \A u \in Turn : conn'[u] \in {"opening", "open"} => conn[u] \in {"opening", "open"}
  BY <1>2 DEF Accept, TypeOK
<1>5. /\ \A u \in Turn \ {t} : server'[u] = server[u] /\ written'[u] = written[u]
      /\ server'[t] = "working" /\ written'[t] = 0
  BY <1>1, <1>2 DEF TypeOK
<1>6. /\ row' \in Replies
      /\ row'[t] = IF kind[t] = "chat" THEN 0 ELSE Absent
      /\ \A u \in Turn \ {t} : \/ row'[u] = row[u]
                               \/ row'[u] = Absent /\ u \in Cut
  <2>1. 0 \in Stored /\ Absent \in Stored
    BY BoundsAssumption DEF Stored, Absent
  <2>2. CASE kind[t] = "temporary"
    BY <1>2, <1>3, <2>2 DEF Accept, TypeOK
  <2>3. CASE kind[t] = "chat"
    <3>1. row' = [u \in Turn |-> IF u = t THEN 0 ELSE IF u \in replaced[t] THEN Absent ELSE row[u]]
      BY <2>3 DEF Accept
    <3> QED
      BY <1>2, <2>1, <2>3, <3>1 DEF TypeOK, Replies, Cut
  <2> QED
    BY <1>3, <2>2, <2>3 DEF Kind
<1>7. TypeOK'
  <2>1. server' \in [Turn -> {"none", "asked", "refused", "working", "finished", "failed", "gone"}]
    BY <1>1, <1>2 DEF TypeOK
  <2>2. written' \in [Turn -> 0..N]
    BY <1>1, <1>2, BoundsAssumption DEF TypeOK
  <2> QED
    BY <1>1, <1>2, <1>4, <1>6, <2>1, <2>2 DEF TypeOK
<1>8. StageInv'
  BY <1>1, <1>3, <1>4, <1>5 DEF IInv, StageInv
<1>9. EndsOnce' /\ OneStream' /\ TextInv'
  BY <1>1, SameText DEF IInv
<1>10. PosInv'
  BY <1>1, <1>3, <1>5 DEF IInv, PosInv, Refusing
<1>11. RowInv'
  <2> SUFFICES ASSUME NEW u \in Turn
               PROVE  /\ row'[u] # Absent =>
                            /\ kind[u] = "chat"
                            /\ \/ server'[u] = "working" /\ row'[u] = 0
                               \/ server'[u] \in Ended /\ row'[u] = written'[u]
                      /\ kind[u] = "chat" /\ server'[u] \notin Refusing /\ u \notin Cut =>
                            row'[u] # Absent
    BY <1>1 DEF RowInv, Cut
  <2>1. CASE u = t
    BY <1>3, <1>5, <1>6, <2>1 DEF Absent
  <2>2. CASE u # t
    BY <1>5, <1>6, <2>2 DEF IInv, RowInv
  <2> QED
    BY <2>1, <2>2
<1>12. HistoryPart'
  <2>1. \A u \in Turn : \/ server'[u] = server[u] /\ written'[u] = written[u]
                        \/ server[u] \in Refusing
    BY <1>1, <1>5 DEF Refusing
  <2>2. HistoryPart
    BY Parts
  <2>3. UNCHANGED <<kind, phase, result, history>>
    BY <1>1 DEF history
  <2> QED
    BY <2>1, <2>2, <2>3, SameHistory
<1>13. PageInv'
  BY <1>1, SamePage DEF IInv, page
<1> QED
  BY <1>7, <1>8, <1>9, <1>10, <1>11, <1>12, <1>13 DEF IInv, HistoryPart

LEMMA WriteStep == ASSUME IInv, NEW t \in Turn, Write(t) PROVE IInv'
<1>1. /\ server[t] = "working" /\ written[t] < N /\ written' = [written EXCEPT ![t] = @ + 1]
      /\ UNCHANGED <<app, turns, store, history, server, row, token, page, extras>>
  BY DEF Write
<1>2. TypeOK
  BY DEF IInv
<1>3. /\ written[t] \in 0..N /\ written'[t] = written[t] + 1 /\ written' \in [Turn -> 0..N]
      /\ \A u \in Turn \ {t} : written'[u] = written[u]
  BY <1>1, <1>2, BoundsAssumption DEF TypeOK
<1>4. TypeOK'
  BY <1>1, <1>2, <1>3 DEF TypeOK, turns, store, history, page
<1>5. PosInv'
  <2>1. pos[t] \in Int
    BY <1>2, BoundsAssumption DEF TypeOK
  <2> QED
    BY <1>1, <1>3, <2>1 DEF IInv, PosInv, turns
<1>6. RowInv'
  BY <1>1, <1>3 DEF IInv, RowInv, Cut, turns, history, Ended
<1>7. HistoryPart'
  <2>1. \A u \in Turn : \/ server'[u] = server[u] /\ written'[u] = written[u]
                        \/ server[u] = "working" /\ server'[u] \notin Refusing
    BY <1>1, <1>3 DEF Refusing
  <2> QED
    BY <1>1, <2>1, Parts, SameHistory DEF turns
<1>8. TurnsPart' /\ PageInv'
  BY <1>1, Parts, SameTurns, SamePage DEF turns, history
<1> QED
  BY <1>4, <1>5, <1>6, <1>7, <1>8 DEF IInv, TurnsPart, HistoryPart

\* The reply ends on the server: what was written is stored, unless its row is gone.
LEMMA ReplyEnds ==
    ASSUME IInv, NEW t \in Turn, NEW s \in Ended, server[t] = "working", row' = Persisted(t),
           server' = [server EXCEPT ![t] = s], s = "finished" => written[t] = N,
           UNCHANGED <<app, turns, store, history, written, token, page>>, UNCHANGED extras \/ Extra
    PROVE  IInv'
<1>1. TypeOK
  BY DEF IInv
<1>2. /\ server'[t] = s /\ \A u \in Turn \ {t} : server'[u] = server[u]
      /\ server' \in [Turn -> {"none", "asked", "refused", "working", "finished", "failed", "gone"}]
  BY <1>1 DEF TypeOK, Ended
<1>3. /\ row' \in Replies /\ \A u \in Turn \ {t} : row'[u] = row[u]
      /\ row'[t] = IF row[t] = 0 THEN written[t] ELSE row[t]
  <2>1. written[t] \in Stored
    BY <1>1, BoundsAssumption DEF TypeOK, Stored, Absent
  <2> QED
    BY <1>1, <2>1 DEF TypeOK, Replies, Persisted
<1>4. row[t] \in {0, Absent}
  BY DEF IInv, RowInv, Ended
<1>5. TypeOK'
  <2>1. extras' \in 0..MaxExtras
    BY <1>1, BoundsAssumption DEF TypeOK, Extra
  <2> QED
    BY <1>1, <1>2, <1>3, <2>1 DEF TypeOK, turns, store, history, page
<1>6. StageInv'
  BY <1>2 DEF IInv, StageInv, turns, history
<1>7. EndsOnce' /\ OneStream' /\ TextInv'
  BY SameText DEF IInv, turns, store
<1>8. PosInv'
  BY <1>2 DEF IInv, PosInv, turns, Refusing, Ended
<1>9. RowInv'
  <2> SUFFICES ASSUME NEW u \in Turn
               PROVE  /\ row'[u] # Absent =>
                            /\ kind[u] = "chat"
                            /\ \/ server'[u] = "working" /\ row'[u] = 0
                               \/ server'[u] \in Ended /\ row'[u] = written[u]
                      /\ kind[u] = "chat" /\ server'[u] \notin Refusing /\ u \notin Cut =>
                            row'[u] # Absent
    BY DEF RowInv, Cut, turns, history
  <2>1. CASE u = t
    <3>1. written[t] # Absent
      BY <1>1, BoundsAssumption DEF TypeOK, Absent
    <3>2. row[t] # Absent => kind[t] = "chat"
      BY DEF IInv, RowInv
    <3>3. kind[t] = "chat" /\ t \notin Cut => row[t] # Absent
      BY DEF IInv, RowInv, Refusing
    <3> QED
      BY <1>2, <1>3, <1>4, <2>1, <3>1, <3>2, <3>3 DEF Absent
  <2>2. CASE u # t
    BY <1>2, <1>3, <2>2 DEF IInv, RowInv
  <2> QED
    BY <2>1, <2>2
<1>10. HistoryPart'
  <2>1. \A u \in Turn : \/ server'[u] = server[u] /\ written'[u] = written[u]
                        \/ server[u] = "working" /\ server'[u] \notin Refusing
    BY <1>2 DEF Refusing, Ended
  <2> QED
    BY <2>1, Parts, SameHistory DEF turns
<1>11. PageInv'
  BY SamePage DEF IInv, turns
<1> QED
  BY <1>5, <1>6, <1>7, <1>8, <1>9, <1>10, <1>11 DEF IInv, HistoryPart

-----------------------------------------------------------------------------
(* The transport. *)

LEMMA ReceiveStep == ASSUME IInv, NEW t \in Turn, Receive(t) PROVE IInv'
<1>1. /\ server[t] \notin Refusing /\ pos[t] <= written[t] /\ pos' = [pos EXCEPT ![t] = @ + 1]
      /\ buffer' = IF Current(t) /\ pos[t] > 0
                   THEN [buffer EXCEPT ![t] = Append(@, pos[t])] ELSE buffer
      /\ UNCHANGED <<app, kind, phase, attempt, conn, failed, result, ends, errors,
                     store, history, backend, token, page, extras>>
  BY DEF Receive, Refusing
<1>2. TypeOK
  BY DEF IInv
<1>3. pos[t] \in 0..N /\ written[t] \in 0..N /\ buffer[t] \in Seq(1..N) /\ N \in Nat
  BY <1>1, <1>2, BoundsAssumption DEF TypeOK
<1>4. /\ pos'[t] = pos[t] + 1 /\ \A u \in Turn \ {t} : pos'[u] = pos[u] /\ buffer'[u] = buffer[u]
      /\ pos' \in [Turn -> 0..N + 1] /\ buffer' \in [Turn -> Seq(1..N)]
      /\ buffer'[t] = IF Current(t) /\ pos[t] > 0 THEN Append(buffer[t], pos[t]) ELSE buffer[t]
  <2>1. pos[t] > 0 => Append(buffer[t], pos[t]) \in Seq(1..N)
    BY <1>3, AppendProperties
  <2>2. pos[t] + 1 \in 0..N + 1
    BY <1>3
  <2>3. buffer \in [Turn -> Seq(1..N)] /\ pos \in [Turn -> 0..N + 1]
    BY <1>2 DEF TypeOK
  <2>4. pos'[t] = pos[t] + 1 /\ pos' \in [Turn -> 0..N + 1] /\ \A u \in Turn \ {t} : pos'[u] = pos[u]
    BY <1>1, <2>2, <2>3
  <2>5. CASE Current(t) /\ pos[t] > 0
    BY <1>1, <2>1, <2>3, <2>4, <2>5
  <2>6. CASE ~(Current(t) /\ pos[t] > 0)
    BY <1>1, <2>3, <2>4, <2>6
  <2> QED
    BY <2>5, <2>6
<1>5. TypeOK'
  BY <1>1, <1>2, <1>4 DEF TypeOK, store, history, backend, page
<1>6. StageInv' /\ EndsOnce'
  BY <1>1 DEF IInv, StageInv, EndsOnce, history, backend
<1>7. OneStream'
  BY <1>1 DEF IInv, OneStream, SnapshotIsLive, Active, store
<1>8. TextInv'
  <2>1. ASSUME NEW u \in Turn \ {t} PROVE IF phase'[u] \in Live THEN Text(u)' ELSE buffer'[u] = <<>>
    <3>1. IF phase[u] \in Live THEN Text(u) ELSE buffer[u] = <<>>
      BY DEF IInv, TextInv
    <3> QED
      BY <1>1, <1>4, <3>1 DEF Text, Got, store
  <2>2. CASE phase[t] \in Live
    <3> DEFINE on == shown[kind[t]]
    <3>1. Current(t)
      BY <1>1, <2>2 DEF IInv, StageInv, Live, Current, Refusing
    <3>2. /\ \A i \in DOMAIN on : on[i] = <<t, i>>
          /\ \A i \in DOMAIN buffer[t] : buffer[t][i] = Len(on) + i
          /\ Len(on) + Len(buffer[t]) = Got(t)
      BY <2>2 DEF IInv, TextInv, Text
    <3>3. UNCHANGED <<kind, shown, phase>>
      BY <1>1 DEF store
    <3>4. Len(on) \in Nat
      <4>1. kind[t] \in Kind
        BY <2>2 DEF IInv, StageInv, Live
      <4> QED
        BY <1>2, <4>1 DEF TypeOK
    <3> HIDE DEF on
    <3>5. /\ \A i \in DOMAIN buffer'[t] : buffer'[t][i] = Len(on) + i
          /\ Len(on) + Len(buffer'[t]) = Got(t)'
      <4>1. CASE pos[t] = 0
        BY <1>3, <1>4, <3>2, <4>1 DEF Got
      <4>2. CASE pos[t] > 0
        <5>1. buffer'[t] = Append(buffer[t], pos[t]) /\ Got(t) = pos[t] - 1 /\ Got(t)' = pos[t]
          BY <1>3, <1>4, <3>1, <4>2 DEF Got
        <5>2. Len(buffer[t]) \in Nat /\ Len(on) + Len(buffer[t]) + 1 = pos[t]
          <6>1. Len(buffer[t]) \in Nat
            BY <1>3, LenProperties
          <6>2. Len(on) + Len(buffer[t]) = pos[t] - 1
            BY <3>2, <5>1
          <6> QED
            BY <1>3, <3>4, <6>1, <6>2
        <5>3. /\ Len(buffer'[t]) = Len(buffer[t]) + 1 /\ DOMAIN buffer'[t] = 1..Len(buffer[t]) + 1
              /\ \A i \in 1..Len(buffer[t]) : buffer'[t][i] = buffer[t][i]
              /\ buffer'[t][Len(buffer[t]) + 1] = pos[t]
          BY <1>3, <5>1
        <5>4. ASSUME NEW i \in DOMAIN buffer'[t] PROVE buffer'[t][i] = Len(on) + i
          <6>1. i \in 1..Len(buffer[t]) \/ i = Len(buffer[t]) + 1
            BY <5>2, <5>3, <5>4
          <6>2. DOMAIN buffer[t] = 1..Len(buffer[t])
            BY <1>3
          <6> QED
            <7>1. CASE i \in 1..Len(buffer[t])
              BY <3>2, <5>3, <6>2, <7>1
            <7>2. CASE i = Len(buffer[t]) + 1
              <8>1. buffer'[t][i] = pos[t]
                BY <5>3, <7>2
              <8> QED
                BY <3>4, <5>2, <7>2, <8>1
            <7> QED
              BY <6>1, <7>1, <7>2
        <5> QED
          BY <3>4, <5>1, <5>2, <5>3, <5>4
      <4> QED
        BY <1>3, <4>1, <4>2
    <3>6. Text(t)'
      BY <3>2, <3>3, <3>5 DEF Text, on
    <3> QED
      BY <1>1, <2>1, <2>2, <3>3, <3>6 DEF IInv, TextInv, store
  <2>3. CASE phase[t] \notin Live
    <3>1. buffer'[t] = <<>>
      BY <1>4, <2>3 DEF IInv, TextInv, Current, Live
    <3> QED
      BY <1>1, <2>1, <2>3, <3>1 DEF IInv, TextInv, store
  <2> QED
    BY <2>2, <2>3
<1>9. PosInv'
  <2> SUFFICES ASSUME NEW u \in Turn
               PROVE  /\ server[u] \in Refusing => pos'[u] = 0
                      /\ pos'[u] <= written[u] + 1
                      /\ server[u] = "finished" => written[u] = N
    BY <1>1 DEF PosInv, backend
  <2>1. /\ server[u] \in Refusing => pos[u] = 0
        /\ pos[u] <= written[u] + 1
        /\ server[u] = "finished" => written[u] = N
    BY DEF IInv, PosInv
  <2>2. CASE u = t
    BY <1>1, <1>3, <1>4, <2>1, <2>2
  <2>3. CASE u # t
    BY <1>1, <1>3, <1>4, <2>1, <2>3
  <2> QED
    BY <2>2, <2>3
<1>10. RowInv'
  BY <1>1 DEF IInv, RowInv, Cut, backend, history
<1>11. HistoryPart'
  BY <1>1, Parts, SameHistory DEF backend
<1>12. PageInv'
  BY <1>1, SamePage DEF IInv
<1> QED
  BY <1>5, <1>6, <1>7, <1>8, <1>9, <1>10, <1>11, <1>12 DEF IInv, HistoryPart

\* The timer moves the buffer of the stream under way into its snapshot.
LEMMA FlushStep == ASSUME IInv, NEW t \in Turn, Flush(t) PROVE IInv'
<1>1. /\ buffer[t] # <<>> /\ shown' = [shown EXCEPT ![kind[t]] = Flushed(t)]
      /\ buffer' = [buffer EXCEPT ![t] = <<>>]
      /\ UNCHANGED <<app, kind, phase, attempt, conn, pos, failed, result, ends, errors,
                     streaming, history, backend, token, page, extras>>
  BY DEF Flush
<1>2. TypeOK
  BY DEF IInv
<1>3. phase[t] \in Live /\ kind[t] \in Kind
  BY <1>1 DEF IInv, TextInv, StageInv, Live
<1>4. /\ Got(t) \in 0..N /\ Flushed(t) \in Seq(Turn \X (1..N)) /\ Len(Flushed(t)) = Got(t)
      /\ \A i \in 1..Got(t) : Flushed(t)[i] = <<t, i>>
  BY <1>3, FlushedText
<1>5. /\ shown' \in [Kind -> Seq(Turn \X (1..N))] /\ shown'[kind[t]] = Flushed(t)
      /\ \A k \in Kind \ {kind[t]} : shown'[k] = shown[k]
      /\ buffer' \in [Turn -> Seq(1..N)] /\ buffer'[t] = <<>> /\ \A u \in Turn \ {t} : buffer'[u] = buffer[u]
  <2>1. <<>> \in Seq(1..N)
    OBVIOUS
  <2> QED
    BY <1>1, <1>2, <1>3, <1>4, <2>1 DEF TypeOK
<1>6. TypeOK'
  BY <1>1, <1>2, <1>5 DEF TypeOK, history, backend, page
<1>7. StageInv' /\ EndsOnce'
  BY <1>1 DEF IInv, StageInv, EndsOnce, history, backend
<1>8. OneStream'
  BY <1>1 DEF IInv, OneStream, SnapshotIsLive, Active
<1>9. TextInv'
  <2>1. Text(t)'
    <3>1. UNCHANGED <<kind, pos>> /\ Got(t)' = Got(t)
      BY <1>1 DEF Got
    <3>2. DOMAIN Flushed(t) = 1..Got(t)
      BY <1>4
    <3> QED
      BY <1>4, <1>5, <3>1, <3>2 DEF Text
  <2>2. ASSUME NEW u \in Turn \ {t}, phase'[u] \in Live PROVE Text(u)'
    <3>1. phase[u] \in Live /\ kind[u] \in Kind /\ kind[u] # kind[t] /\ kind'[u] = kind[u] /\ Text(u)
      BY <1>1, <1>3, <2>2 DEF IInv, StageInv, TextInv, OneStream, SnapshotIsLive, Active, Live
    <3>2. pos'[u] = pos[u]
      BY <1>1
    <3> QED
      BY <1>5, <3>1, <3>2 DEF Text, Got
  <2>3. ASSUME NEW u \in Turn, phase'[u] \notin Live PROVE buffer'[u] = <<>>
    BY <1>1, <1>5, <2>3 DEF IInv, TextInv
  <2>4. \A k \in Kind : ~streaming'[k] => shown'[k] = <<>>
    <3>1. streaming[kind[t]]
      BY <1>3 DEF IInv, OneStream, SnapshotIsLive, Active, Live
    <3> QED
      BY <1>1, <1>3, <1>5, <3>1 DEF IInv, TextInv
  <2> QED
    BY <1>1, <2>1, <2>2, <2>3, <2>4 DEF TextInv
<1>10. ServerPart'
  BY <1>1, Parts, SameServer DEF backend, history
<1>11. HistoryPart'
  BY <1>1, Parts, SameHistory DEF backend
<1>12. PageInv'
  BY <1>1, SamePage DEF IInv
<1> QED
  BY <1>6, <1>7, <1>8, <1>9, <1>10, <1>11, <1>12 DEF IInv, HistoryPart, ServerPart

\* A transport that closes on a browser is heard of later.
LEMMA ClosingStep ==
    ASSUME IInv, NEW t \in Turn, conn' \in {[conn EXCEPT ![t] = "closing"], [conn EXCEPT ![t] = "closed"]},
           failed' \in [Turn -> BOOLEAN],
           UNCHANGED <<app, kind, phase, attempt, pos, buffer, result, ends, errors, store, history, backend,
                       token, page, extras>>
    PROVE  IInv'
<1>1. TypeOK
  BY DEF IInv
<1>2. /\ conn' \in [Turn -> {"none", "opening", "open", "closing", "closed"}]
      /\ \A u \in Turn : conn'[u] \in {"opening", "open"} => conn[u] \in {"opening", "open"}
  BY <1>1 DEF TypeOK
<1>3. TypeOK'
  BY <1>1, <1>2 DEF TypeOK, store, history, backend, page
<1>4. StageInv'
  BY <1>2 DEF IInv, StageInv, history, backend
<1>5. EndsOnce' /\ OneStream' /\ TextInv'
  BY SameText DEF IInv, store
<1>6. ServerPart' /\ HistoryPart' /\ PageInv'
  BY Parts, SameServer, SameHistory, SamePage DEF backend, history
<1> QED
  BY <1>3, <1>4, <1>5, <1>6, Parts DEF IInv, HistoryPart, ServerPart

LEMMA TransportStep ==
    ASSUME IInv, NEW t \in Turn,
           ErrorFrame(t) \/ AbortSeen(t) \/ Break(t) \/ RefreshFails(t)
    PROVE  IInv'
<1>1. CASE ErrorFrame(t)
  <2>1. phase[t] \in Live /\ Close(t) /\ UNCHANGED <<app, server, written, row, token, extras>>
    BY <1>1 DEF ErrorFrame, IInv, StageInv, Live, backend
  <2>2. CASE app = "mobile"
    <3>1. FailTurn(t)
      BY <1>1, <2>2 DEF ErrorFrame
    <3> QED
      BY <2>1, <3>1, FailStep
  <2>3. CASE app # "mobile"
    <3>1. failed' \in [Turn -> BOOLEAN]
      BY <1>1, <2>3 DEF ErrorFrame, IInv, TypeOK
    <3>2. conn' = [conn EXCEPT ![t] = "closing"]
      BY <2>1, <2>3 DEF Close
    <3>3. UNCHANGED <<kind, phase, attempt, pos, buffer, result, ends, errors, store, history, page>>
      BY <1>1, <2>3 DEF ErrorFrame
    <3> QED
      BY <2>1, <3>1, <3>2, <3>3, ClosingStep DEF backend
  <2> QED
    BY <2>2, <2>3
<1>2. CASE AbortSeen(t)
  <2>1. conn' = [conn EXCEPT ![t] = "closed"] /\ UNCHANGED <<app, server, written, row, token, extras>>
    BY <1>2 DEF AbortSeen, backend
  <2>2. CASE Current(t)
    <3>1. FailTurn(t) /\ phase[t] \in Live
      BY <1>2, <2>2 DEF AbortSeen, Current, Live
    <3> QED
      BY <2>1, <3>1, FailStep
  <2>3. CASE ~Current(t)
    <3>1. UNCHANGED <<kind, phase, attempt, pos, failed, buffer, result, ends, errors, store, history, page>>
      BY <1>2, <2>3 DEF AbortSeen
    <3>2. failed' \in [Turn -> BOOLEAN]
      BY <3>1 DEF IInv, TypeOK
    <3> QED
      BY <2>1, <3>1, <3>2, ClosingStep DEF backend
  <2> QED
    BY <2>2, <2>3
<1>3. CASE Break(t)
  <2>1. /\ phase[t] \in Live /\ conn' = [conn EXCEPT ![t] = "closed"] /\ FailTurn(t) /\ Extra
        /\ UNCHANGED <<app, server, written, row, token>>
    BY <1>3 DEF Break, IInv, StageInv, Live, backend
  <2> QED
    BY <2>1, FailStep
<1>4. CASE RefreshFails(t)
  <2>1. /\ phase[t] = "refreshing" /\ phase[t] \in Live /\ FailTurn(t) /\ token' = "none"
        /\ UNCHANGED <<app, conn, server, written, row, extras>>
    BY <1>4 DEF RefreshFails, Live, backend
  <2> QED
    BY <2>1, FailStep
<1> QED
  BY <1>1, <1>2, <1>3, <1>4

LEMMA UnauthorizedStep == ASSUME IInv, NEW t \in Turn, Unauthorized(t) PROVE IInv'
<1>1. /\ server[t] \in Refusing /\ phase[t] = "asked" /\ phase[t] \in Live
      /\ server' = [server EXCEPT ![t] = "none"] /\ conn' = [conn EXCEPT ![t] = "closed"]
      /\ UNCHANGED <<app, written, row, extras>>
  BY DEF Unauthorized, Current, Live, Refusing
<1>2. CASE FailTurn(t)
  <2>1. token' \in {token, "none"}
    BY DEF Unauthorized
  <2> QED
    BY <1>1, <1>2, <2>1, FailStep
<1>3. CASE ~FailTurn(t)
  <2>1. /\ phase' = [phase EXCEPT ![t] = "refreshing"] /\ attempt[t] = 1
        /\ UNCHANGED <<kind, attempt, pos, failed, buffer, result, ends, errors, store,
                       history, page, token>>
    BY <1>3 DEF Unauthorized
  <2>2. TypeOK
    BY DEF IInv
  <2>3. /\ phase'[t] = "refreshing" /\ server'[t] = "none" /\ conn'[t] = "closed"
        /\ \A u \in Turn \ {t} : phase'[u] = phase[u] /\ server'[u] = server[u] /\ conn'[u] = conn[u]
    BY <1>1, <2>1, <2>2 DEF TypeOK
  <2>4. TypeOK'
    <3>1. /\ phase' \in [Turn -> {"unused", "asked", "refreshing", "done"}]
          /\ server' \in [Turn -> {"none", "asked", "refused", "working", "finished", "failed", "gone"}]
          /\ conn' \in [Turn -> {"none", "opening", "open", "closing", "closed"}]
      BY <1>1, <2>1, <2>2 DEF TypeOK
    <3> QED
      BY <1>1, <2>1, <2>2, <3>1 DEF TypeOK, store, history, page
  <2>5. StageInv'
    <3> SUFFICES ASSUME NEW u \in Turn
                 PROVE  /\ phase'[u] = "unused" =>
                             server'[u] = "none" /\ replaced'[u] = {} /\ attempt'[u] = 0
                        /\ phase'[u] = "refreshing" => server'[u] = "none" /\ attempt'[u] = 1
                        /\ phase'[u] # "unused" => kind'[u] \in Kind
                        /\ conn'[u] \in {"opening", "open"} => phase'[u] = "asked"
                        /\ phase'[u] # "done" => result'[u] = "none"
                        /\ result'[u] = "completed" => server'[u] = "finished"
      BY DEF StageInv
    <3>1. CASE u = t
      BY <1>1, <2>1, <2>3, <3>1 DEF IInv, StageInv
    <3>2. CASE u # t
      BY <2>1, <2>3, <3>2 DEF IInv, StageInv, history
    <3> QED
      BY <3>1, <3>2
  <2>6. EndsOnce'
    BY <1>1, <2>1, <2>3 DEF IInv, EndsOnce
  <2>7. \A u \in Turn : phase'[u] \in Live <=> phase[u] \in Live
    BY <1>1, <2>3 DEF Live
  <2>8. \A k \in Kind : Active(k)' = Active(k)
    BY <2>1, <2>7 DEF Active, Live
  <2>9. OneStream' /\ TextInv'
    <3>1. OneStream'
      BY <2>1, <2>8 DEF IInv, OneStream, SnapshotIsLive, store
    <3>2. ASSUME NEW u \in Turn PROVE IF phase'[u] \in Live THEN Text(u)' ELSE buffer'[u] = <<>>
      <4>1. IF phase[u] \in Live THEN Text(u) ELSE buffer[u] = <<>>
        BY DEF IInv, TextInv
      <4> QED
        BY <2>1, <2>7, <4>1 DEF Text, Got, store
    <3> QED
      BY <2>1, <3>1, <3>2 DEF IInv, TextInv, store
  <2>10. PosInv'
    BY <1>1, <2>1, <2>3 DEF IInv, PosInv
  <2>11. RowInv'
    BY <1>1, <2>1, <2>3 DEF IInv, RowInv, Cut, history, Refusing, Ended
  <2>12. HistoryInv'
    <3> SUFFICES ASSUME NEW u \in Turn, phase'[u] # "done"
                 PROVE  Known(u, answer[u])' /\ Known(u, cached[u])' /\ (cached[u] = 0 => u \in emptied)
      BY <2>1 DEF HistoryInv, history
    <3>1. Known(u, answer[u]) /\ Known(u, cached[u]) /\ (cached[u] = 0 => u \in emptied)
      BY <1>1, <2>3 DEF IInv, HistoryInv
    <3> QED
      BY <1>1, <2>1, <2>3, <3>1 DEF Known, Refusing, Ended, history
  <2>13. AnswerInv' /\ CompletedIsWhole'
    BY <2>1 DEF IInv, AnswerInv, CompletedIsWhole, Cut, history
  <2>14. PageInv'
    BY <1>1, <2>1, <2>8 DEF IInv, PageInv, page, Kind
  <2> QED
    BY <2>4, <2>5, <2>6, <2>9, <2>10, <2>11, <2>12, <2>13, <2>14 DEF IInv
<1> QED
  BY <1>2, <1>3

LEMMA RefreshedStep == ASSUME IInv, NEW t \in Turn, Refreshed(t) PROVE IInv'
<1>1. /\ phase[t] = "refreshing" /\ token' = "valid" /\ Attempt(t, "valid")
      /\ UNCHANGED <<app, kind, failed, buffer, result, ends, errors, store, history, written,
                     row, page, extras>>
  BY DEF Refreshed
<1>2. TypeOK
  BY DEF IInv
<1>3. server[t] = "none" /\ attempt[t] = 1 /\ pos[t] = 0 /\ result[t] = "none"
  BY <1>1 DEF IInv, StageInv, PosInv, Refusing
<1>4. /\ \A u \in Turn \ {t} : attempt'[u] = attempt[u] /\ conn'[u] = conn[u] /\ server'[u] = server[u]
               /\ phase'[u] = phase[u] /\ pos'[u] = pos[u]
      /\ attempt'[t] = attempt[t] + 1 /\ conn'[t] = "opening" /\ server'[t] \in {"asked", "refused"}
      /\ phase'[t] = "asked" /\ pos'[t] = 0
      /\ attempt' \in [Turn -> 0..2] /\ pos' \in [Turn -> 0..N + 1]
      /\ conn' \in [Turn -> {"none", "opening", "open", "closing", "closed"}]
      /\ server' \in [Turn -> {"none", "asked", "refused", "working", "finished", "failed", "gone"}]
      /\ phase' \in [Turn -> {"unused", "asked", "refreshing", "done"}]
  BY <1>1, <1>3, AttemptStep
<1>5. TypeOK'
  BY <1>1, <1>2, <1>4 DEF TypeOK, store, history, page
<1>6. StageInv'
  <2> SUFFICES ASSUME NEW u \in Turn
               PROVE  /\ phase'[u] = "unused" =>
                           server'[u] = "none" /\ replaced'[u] = {} /\ attempt'[u] = 0
                      /\ phase'[u] = "refreshing" => server'[u] = "none" /\ attempt'[u] = 1
                      /\ phase'[u] # "unused" => kind'[u] \in Kind
                      /\ conn'[u] \in {"opening", "open"} => phase'[u] = "asked"
                      /\ phase'[u] # "done" => result'[u] = "none"
                      /\ result'[u] = "completed" => server'[u] = "finished"
    BY DEF StageInv
  <2>1. CASE u = t
    BY <1>1, <1>3, <1>4, <2>1 DEF IInv, StageInv
  <2>2. CASE u # t
    BY <1>1, <1>4, <2>2 DEF IInv, StageInv, history
  <2> QED
    BY <2>1, <2>2
<1>7. EndsOnce'
  BY <1>1, <1>4 DEF IInv, EndsOnce
<1>8. \A u \in Turn : /\ phase'[u] \in Live <=> phase[u] \in Live
                      /\ Got(u)' = Got(u)
  BY <1>1, <1>3, <1>4 DEF Live, Got
<1>9. \A k \in Kind : Active(k)' = Active(k)
  BY <1>1, <1>8 DEF Active, Live
<1>10. OneStream'
  BY <1>1, <1>9 DEF IInv, OneStream, SnapshotIsLive, store
<1>11. TextInv'
  <2>1. ASSUME NEW u \in Turn PROVE IF phase'[u] \in Live THEN Text(u)' ELSE buffer'[u] = <<>>
    <3>1. IF phase[u] \in Live THEN Text(u) ELSE buffer[u] = <<>>
      BY DEF IInv, TextInv
    <3> QED
      BY <1>1, <1>8, <3>1 DEF Text, store
  <2> QED
    BY <1>1, <2>1 DEF IInv, TextInv, store
<1>12. PosInv'
  <2>1. \A u \in Turn : pos'[u] = pos[u] /\ written'[u] = written[u]
    BY <1>1, <1>3, <1>4
  <2>2. \A u \in Turn : server'[u] = server[u] \/ (u = t /\ server'[u] \in {"asked", "refused"})
    BY <1>4
  <2> QED
    BY <1>3, <2>1, <2>2 DEF IInv, PosInv, Refusing
<1>13. \A u \in Turn : \/ server'[u] = server[u] /\ written'[u] = written[u]
                       \/ server[u] \in Refusing /\ server'[u] \in Refusing /\ written'[u] = written[u]
  BY <1>1, <1>3, <1>4 DEF Refusing
<1>14. RowInv'
  BY <1>1, <1>13 DEF IInv, RowInv, Cut, history, Refusing, Ended
<1>15. HistoryInv'
  <2> SUFFICES ASSUME NEW u \in Turn, phase'[u] # "done"
               PROVE  Known(u, answer[u])' /\ Known(u, cached[u])' /\ (cached[u] = 0 => u \in emptied)
    BY <1>1 DEF HistoryInv, history
  <2>1. Known(u, answer[u]) /\ Known(u, cached[u]) /\ (cached[u] = 0 => u \in emptied)
    BY <1>1, <1>4 DEF IInv, HistoryInv
  <2> QED
    BY <1>1, <1>13, <2>1 DEF Known, Refusing, Ended, history
<1>16. AnswerInv' /\ CompletedIsWhole'
  BY <1>1 DEF IInv, AnswerInv, CompletedIsWhole, Cut, history
<1>17. PageInv'
  BY <1>1, <1>9 DEF IInv, PageInv, page, Kind
<1> QED
  BY <1>5, <1>6, <1>7, <1>10, <1>11, <1>12, <1>14, <1>15, <1>16, <1>17 DEF IInv

-----------------------------------------------------------------------------
(* The history query, the token, the page. *)

\* The turns, their text and the server stay as they are.
LEMMA AsideStep ==
    ASSUME IInv, UNCHANGED <<app, turns, store, backend, replaced>>
    PROVE  TurnsPart' /\ ServerPart'
  BY Parts, SameTurns, SameServer DEF backend, turns

LEMMA HistoryStep ==
    ASSUME IInv, Fetch \/ ReadHistory \/ HistoryArrives \/ HistoryFails
    PROVE  IInv'
<1>1. /\ UNCHANGED <<app, turns, store, backend, replaced, token, page>>
      /\ UNCHANGED extras \/ Extra
  BY DEF Fetch, ReadHistory, HistoryArrives, HistoryFails
<1>2. TypeOK
  BY DEF IInv
<1>3. TurnsPart' /\ ServerPart' /\ PageInv'
  BY <1>1, AsideStep, SamePage DEF IInv, turns
<1>4. extras' \in 0..MaxExtras
  BY <1>1, <1>2, BoundsAssumption DEF TypeOK, Extra
<1>5. All(Absent) \in Replies
  BY BoundsAssumption DEF All, Replies, Stored, Absent
<1>6. UNCHANGED <<kind, phase, result, server, written, row>>
  BY <1>1 DEF turns, backend
<1>7. \A u \in Turn : Known(u, Absent)
  BY DEF Known
<1>8. CASE Fetch
  <2>1. fetch' = "asked" /\ UNCHANGED <<cached, answer, emptied>>
    BY <1>8 DEF Fetch
  <2>2. TypeOK'
    BY <1>1, <1>2, <1>4, <2>1 DEF TypeOK, turns, store, backend, page
  <2>3. HistoryInv' /\ AnswerInv' /\ CompletedIsWhole'
    BY <1>1, <1>6, <2>1 DEF IInv, HistoryInv, AnswerInv, CompletedIsWhole, Known, Cut
  <2> QED
    BY <1>3, <2>2, <2>3, Parts DEF IInv, TurnsPart, ServerPart
<1>9. CASE ReadHistory
  <2>1. fetch' = "read" /\ answer' = row /\ UNCHANGED <<cached, emptied>>
    BY <1>9 DEF ReadHistory
  <2>2. TypeOK'
    BY <1>1, <1>2, <1>4, <2>1 DEF TypeOK, turns, store, backend, page
  <2>3. \A u \in Turn : Known(u, row[u])
    BY DEF IInv, RowInv, Known, Refusing, Ended
  <2>4. HistoryInv'
    <3> SUFFICES ASSUME NEW u \in Turn, phase[u] # "done"
                 PROVE  Known(u, answer[u])' /\ Known(u, cached[u])' /\ (cached[u] = 0 => u \in emptied)
      BY <1>6, <2>1 DEF HistoryInv
    <3>1. Known(u, cached[u]) /\ (cached[u] = 0 => u \in emptied)
      BY DEF IInv, HistoryInv
    <3> QED
      BY <1>6, <2>1, <2>3, <3>1 DEF Known
  <2>5. AnswerInv'
    <3> SUFFICES ASSUME NEW u \in Turn, result[u] = "completed", kind[u] = "chat", u \notin Cut
                 PROVE  row[u] = N
      BY <1>1, <1>6, <2>1 DEF AnswerInv, Cut
    <3>1. server[u] = "finished" /\ written[u] = N
      BY DEF IInv, StageInv, PosInv
    <3>2. row[u] # Absent
      BY <3>1 DEF IInv, RowInv, Refusing
    <3> QED
      BY <3>1, <3>2 DEF IInv, RowInv
  <2>6. CompletedIsWhole'
    BY <1>1, <1>6, <2>1 DEF IInv, CompletedIsWhole
  <2> QED
    BY <1>3, <2>2, <2>4, <2>5, <2>6 DEF IInv, TurnsPart, ServerPart
<1>10. CASE HistoryArrives
  <2>1. /\ fetch = "read" /\ fetch' = "none" /\ answer' = All(Absent) /\ cached' = answer
        /\ emptied' = emptied \cup {t \in Active("chat") : answer[t] = 0}
    BY <1>10 DEF HistoryArrives, NoFetch
  <2>2. TypeOK'
    <3>1. emptied' \in SUBSET Turn /\ answer \in Replies
      BY <1>2, <2>1 DEF TypeOK, Active
    <3> QED
      BY <1>1, <1>2, <1>4, <1>5, <2>1, <3>1 DEF TypeOK, turns, store, backend, page
  <2>3. HistoryInv'
    <3> SUFFICES ASSUME NEW u \in Turn, phase[u] # "done"
                 PROVE  Known(u, answer[u])' /\ Known(u, cached[u])' /\ (cached'[u] = 0 => u \in emptied')
      BY <1>6, <2>1 DEF HistoryInv
    <3>1. Known(u, answer[u])
      BY DEF IInv, HistoryInv
    <3>2. answer'[u] = Absent
      BY <2>1 DEF All
    <3>3. ASSUME answer[u] = 0 PROVE u \in emptied'
      <4>1. kind[u] = "chat" /\ server[u] # "none"
        BY <3>1, <3>3 DEF Known, Absent, Refusing, Ended
      <4>2. phase[u] \in Live
        BY <1>2, <4>1 DEF IInv, StageInv, TypeOK, Live
      <4> QED
        BY <2>1, <3>3, <4>1, <4>2 DEF Active, Live
    <3> QED
      BY <1>6, <2>1, <3>1, <3>2, <3>3 DEF Known
  <2>4. AnswerInv'
    BY <2>1 DEF AnswerInv
  <2>5. CompletedIsWhole'
    BY <1>1, <1>6, <2>1 DEF IInv, AnswerInv, CompletedIsWhole, Cut
  <2> QED
    BY <1>3, <2>2, <2>3, <2>4, <2>5 DEF IInv, TurnsPart, ServerPart
<1>11. CASE HistoryFails
  <2>1. fetch' = "none" /\ answer' = All(Absent) /\ UNCHANGED <<cached, emptied>>
    BY <1>11 DEF HistoryFails, NoFetch
  <2>2. TypeOK'
    BY <1>1, <1>2, <1>4, <1>5, <2>1 DEF TypeOK, turns, store, backend, page
  <2>3. HistoryInv'
    BY <1>6, <1>7, <2>1 DEF IInv, HistoryInv, Known, All
  <2>4. AnswerInv' /\ CompletedIsWhole'
    BY <1>1, <1>6, <2>1 DEF IInv, AnswerInv, CompletedIsWhole
  <2> QED
    BY <1>3, <2>2, <2>3, <2>4 DEF IInv, TurnsPart, ServerPart
<1> QED
  BY <1>8, <1>9, <1>10, <1>11

LEMMA IdleStep == ASSUME IInv, TokenExpires \/ LeaveTemporary \/ UNCHANGED vars PROVE IInv'
<1>1. /\ UNCHANGED <<app, turns, store, history, backend>>
      /\ token' \in {token, "expired"} /\ (UNCHANGED extras \/ Extra)
      /\ \/ UNCHANGED page
         \/ listed' = {} /\ recent' = {} /\ (app = "mobile" => Active("temporary") = {})
  BY DEF TokenExpires, LeaveTemporary, vars
<1>2. TypeOK
  BY DEF IInv
<1>3. TurnsPart' /\ ServerPart'
  BY <1>1, AsideStep DEF history
<1>4. HistoryPart'
  BY <1>1, Parts, SameHistory DEF turns, backend
<1>5. TypeOK'
  <2>1. extras' \in 0..MaxExtras
    BY <1>1, <1>2, BoundsAssumption DEF TypeOK, Extra
  <2>2. listed' \in SUBSET Turn /\ recent' \in SUBSET Turn
    BY <1>1, <1>2 DEF TypeOK, page
  <2> QED
    BY <1>1, <1>2, <2>1, <2>2 DEF TypeOK, turns, store, history, backend
<1>6. PageInv'
  BY <1>1 DEF IInv, PageInv, Active, turns, page
<1> QED
  BY <1>3, <1>4, <1>5, <1>6, Parts DEF IInv, TurnsPart, ServerPart, HistoryPart

-----------------------------------------------------------------------------
(* The invariant. *)

LEMMA Initially == Init => IInv
<1> SUFFICES ASSUME Init PROVE IInv
  OBVIOUS
<1> USE DEF Init, All
<1>1. TypeOK
  <2>1. Absent \in Stored
    BY BoundsAssumption DEF Stored, Absent
  <2>2. <<>> \in Seq(1..N) /\ <<>> \in Seq(Turn \X (1..N))
    OBVIOUS
  <2>3. 0 \in 0..N + 1 /\ 0 \in 0..N /\ 0 \in 0..2 /\ 0 \in 0..MaxExtras
    BY BoundsAssumption
  <2>4. cached \in Replies /\ answer \in Replies /\ row \in Replies
    BY <2>1 DEF Replies
  <2> QED
    BY <2>2, <2>3, <2>4 DEF TypeOK
<1>2. StageInv /\ EndsOnce
  BY DEF StageInv, EndsOnce
<1>3. OneStream
  BY DEF OneStream, SnapshotIsLive, Active
<1>4. TextInv /\ PosInv /\ RowInv
  BY DEF TextInv, PosInv, RowInv, Live, Refusing
<1>5. HistoryInv /\ AnswerInv /\ CompletedIsWhole
  BY DEF HistoryInv, AnswerInv, CompletedIsWhole, Known, Absent
<1>6. PageInv
  BY DEF PageInv, Active
<1> QED
  BY <1>1, <1>2, <1>3, <1>4, <1>5, <1>6 DEF IInv

LEMMA StepKeepsInvariant == IInv /\ [Next]_vars => IInv'
<1> SUFFICES ASSUME IInv, [Next]_vars PROVE IInv'
  OBVIOUS
<1>1. ASSUME NEW t \in Turn, Progress(t) PROVE IInv'
  <2>1. CASE Accept(t) \/ Write(t)
    BY <2>1, AcceptStep, WriteStep
  <2>2. CASE FinishReply(t)
    <3>1. "finished" \in Ended
      BY DEF Ended
    <3> QED
      BY <2>2, <3>1, ReplyEnds DEF FinishReply
  <2>3. CASE Receive(t) \/ Flush(t)
    BY <2>3, ReceiveStep, FlushStep
  <2>4. CASE ErrorFrame(t) \/ AbortSeen(t)
    BY <2>4, TransportStep
  <2>5. CASE EndFrame(t) \/ Unauthorized(t) \/ Refreshed(t)
    BY <2>5, EndFrameStep, UnauthorizedStep, RefreshedStep
  <2> QED
    BY <1>1, <2>1, <2>2, <2>3, <2>4, <2>5 DEF Progress
<1>2. ASSUME NEW t \in Turn, Trouble(t) \/ Stop(t) \/ Abandon(t) PROVE IInv'
  <2>1. CASE FailReply(t) \/ Abandon(t)
    <3>1. "failed" \in Ended /\ "gone" \in Ended
      BY DEF Ended
    <3> QED
      BY <2>1, <3>1, ReplyEnds DEF FailReply, Abandon
  <2>2. CASE Break(t) \/ RefreshFails(t)
    BY <2>2, TransportStep
  <2>3. CASE Stop(t)
    BY <2>3, StopStep
  <2> QED
    BY <1>2, <2>1, <2>2, <2>3 DEF Trouble
<1>3. ASSUME NEW t \in Turn, NEW k \in Kind, Ask(t, k) \/ AskBusy(t, k) PROVE IInv'
  BY <1>3, AskStep, AskBusyStep
<1>4. CASE LeaveStopping \/ LeaveTemporary \/ TokenExpires \/ UNCHANGED vars
  BY <1>4, LeaveStoppingStep, IdleStep
<1>5. CASE Fetch \/ ReadHistory \/ HistoryArrives \/ HistoryFails
  BY <1>5, HistoryStep
<1> QED
  BY <1>1, <1>2, <1>3, <1>4, <1>5 DEF Next

-----------------------------------------------------------------------------
(* Theorems *)

LEMMA Always == Spec => []IInv
<1> QED
  BY Initially, StepKeepsInvariant, PTL DEF Spec

\* The variables keep their types: no frame is read behind the last, and no reply is
\* longer than what was written.
THEOREM TypeSafety == Spec => []TypeOK
<1>1. IInv => TypeOK
  BY DEF IInv
<1> QED
  BY Always, <1>1, PTL

\* The text on screen and in the buffer is that of the stream under way, each delta
\* once and in order, however many streams of the conversation were stopped before.
THEOREM TextSafety == Spec => []TextInOrder
<1>1. IInv => TextInOrder
  <2> SUFFICES ASSUME IInv, NEW k \in Kind, NEW t \in Active(k)
               PROVE  Flushed(t) = [i \in 1..(IF pos[t] = 0 THEN 0 ELSE pos[t] - 1) |-> <<t, i>>]
    BY DEF TextInOrder
  <2>1. t \in Turn /\ phase[t] \in Live
    BY DEF Active, Live
  <2>2. /\ Got(t) \in 0..N /\ Flushed(t) \in Seq(Turn \X (1..N)) /\ Len(Flushed(t)) = Got(t)
        /\ \A i \in 1..Got(t) : Flushed(t)[i] = <<t, i>>
    BY <2>1, FlushedText
  <2>3. Flushed(t) = [i \in 1..Got(t) |-> <<t, i>>]
    BY <2>2
  <2> QED
    BY <2>3 DEF Got
<1> QED
  BY Always, <1>1, PTL

\* A completed reply is whole in the cached history, whatever requests were under way,
\* until an edit cuts it off or if its empty message was read before.
THEOREM CompletedSafety == Spec => []CompletedIsWhole
<1>1. IInv => CompletedIsWhole
  BY DEF IInv
<1> QED
  BY Always, <1>1, PTL

\* Every question is answered by one onEnd, and by an onError only if it failed; one
\* that is refused, by an onError alone.
THEOREM EndSafety == Spec => []EndsOnce
<1>1. IInv => EndsOnce
  BY DEF IInv
<1> QED
  BY Always, <1>1, PTL

\* A conversation is shown as being answered while one stream of it is under way.
THEOREM SnapshotSafety == Spec => []SnapshotIsLive
<1>1. IInv => SnapshotIsLive
  BY DEF IInv, OneStream
<1> QED
  BY Always, <1>1, PTL

\* What the mobile app lists on its temporary page was asked since the page was cleared.
THEOREM TemporarySafety == Spec => []TemporaryForgotten
<1>1. IInv => TemporaryForgotten
  BY DEF IInv, PageInv, TemporaryForgotten
<1> QED
  BY Always, <1>1, PTL

\* A stream that stops leaves what it received in the history, unless the history was
\* read while the reply was empty.
THEOREM StopSafety == Spec => StopKeepsPartial
<1> DEFINE Keeps ==
      \A t \in Turn :
          kind[t] = "chat" /\ pos[t] > 1 /\ result[t] = "none" /\ result'[t] = "stopped" =>
              cached'[t] >= pos[t] - 1 \/ t \in emptied
<1>1. IInv /\ [Next]_vars => [Keeps]_vars
  <2> SUFFICES ASSUME IInv, [Next]_vars, NEW t \in Turn,
                      kind[t] = "chat", pos[t] > 1, result[t] = "none", result'[t] = "stopped"
               PROVE  cached'[t] >= pos[t] - 1 \/ t \in emptied
    OBVIOUS
  <2>1. TypeOK /\ result \in [Turn -> {"none", "completed", "failed", "stopped", "refused"}]
    BY DEF IInv, TypeOK
  <2>2. Stop(t)
    <3>1. ASSUME NEW u \in Turn, NEW outcome \in Outcomes, Settle(u, outcome)
          PROVE  u = t /\ outcome = "stopped"
      BY <2>1, <3>1 DEF Settle
    <3>2. ~UNCHANGED result
      OBVIOUS
    <3>3. "failed" \in Outcomes /\ "completed" \in Outcomes /\ "stopped" \in Outcomes
      BY DEF Outcomes
    <3>4. ASSUME NEW u \in Turn, FailTurn(u) PROVE FALSE
      BY <3>1, <3>3, <3>4 DEF FailTurn
    <3>5. ASSUME NEW u \in Turn, Progress(u) \/ Trouble(u) \/ Abandon(u) PROVE FALSE
      <4>1. CASE Accept(u) \/ Write(u) \/ FinishReply(u) \/ FailReply(u) \/ Abandon(u) \/ Receive(u) \/ Flush(u)
                 \/ Refreshed(u)
        BY <3>2, <4>1 DEF Accept, Write, FinishReply, FailReply, Abandon, Receive, Flush, Refreshed, turns
      <4>2. CASE ErrorFrame(u) \/ AbortSeen(u) \/ Break(u) \/ Unauthorized(u) \/ RefreshFails(u)
        BY <3>2, <3>4, <4>2 DEF ErrorFrame, AbortSeen, Break, Unauthorized, RefreshFails
      <4>3. CASE EndFrame(u)
        BY <3>1, <3>3, <4>3 DEF EndFrame
      <4> QED
        BY <3>5, <4>1, <4>2, <4>3 DEF Progress, Trouble
    <3>6. ASSUME LeaveStopping PROVE FALSE
      <4>1. PICK u \in Active("temporary") : Settle(u, "stopped")
        BY <3>6 DEF LeaveStopping
      <4>2. u \in Turn /\ kind[u] = "temporary"
        BY DEF Active
      <4> QED
        BY <3>1, <3>3, <4>1, <4>2
    <3>7. ASSUME \/ \E u \in Turn, k \in Kind : Ask(u, k)
                 \/ LeaveTemporary \/ TokenExpires \/ Fetch \/ ReadHistory \/ HistoryArrives \/ HistoryFails
                 \/ UNCHANGED vars
          PROVE  FALSE
      BY <3>2, <3>7 DEF Ask, LeaveTemporary, TokenExpires, Fetch, ReadHistory, HistoryArrives, HistoryFails,
         turns, vars
    <3>8. ASSUME NEW u \in Turn, Stop(u) PROVE u = t
      BY <3>1, <3>3, <3>8 DEF Stop
    <3>9. ASSUME NEW u \in Turn, NEW k \in Kind, AskBusy(u, k) PROVE FALSE
      BY <2>1, <3>9 DEF AskBusy
    <3> QED
      BY <3>5, <3>6, <3>7, <3>8, <3>9 DEF Next
  <2>3. PersistPartial(t) /\ phase[t] \in Live
    BY <2>2 DEF Stop, Current, Live
  <2>4. /\ cached'[t] = IF Got(t) > 0 /\ cached[t] = Absent THEN Got(t) ELSE cached[t]
        /\ Got(t) \in 0..N
    BY <2>3, PersistStep, FlushedText
  <2>5. Got(t) = pos[t] - 1 /\ pos[t] \in Nat /\ Got(t) > 0
    BY <2>1, BoundsAssumption DEF TypeOK, Got
  <2>6. CASE cached[t] = Absent
    BY <2>4, <2>5, <2>6
  <2>7. CASE cached[t] # Absent
    <3>1. Known(t, cached[t]) /\ (cached[t] = 0 => t \in emptied)
      BY <2>3 DEF IInv, HistoryInv, Live
    <3>2. pos[t] <= written[t] + 1 /\ written[t] \in Nat
      BY <2>1, BoundsAssumption DEF IInv, PosInv, TypeOK
    <3>3. cached[t] = 0 \/ cached[t] = written[t]
      BY <2>7, <3>1 DEF Known
    <3> QED
      BY <2>4, <2>5, <2>7, <3>1, <3>2, <3>3
  <2> QED
    BY <2>6, <2>7
<1> QED
  BY Always, <1>1, PTL DEF Spec, StopKeepsPartial
=============================================================================
