------------------------ MODULE NodeConnection_proofs ------------------------
(***************************************************************************)
(* Type correctness and the safety invariants of NodeConnection, for every *)
(* number of failures and events.                                          *)
(*                                                                         *)
(* IdleIsQuiet is inductive as it stands.  The others need where a timer   *)
(* and a call may be: ChallengeTimer (the challenge timer of the current   *)
(* socket runs only while that socket waits for its challenge or closes),  *)
(* Retrying (who reconnects: the timer or its own call, never start()),    *)
(* Alone (without overlap a call has no socket beside it, and the timer    *)
(* none either) and Forgotten (what a removed identity cannot come from).  *)
(***************************************************************************)
EXTENDS NodeConnection, TLAPS

ChallengeTimer == challenge = "current" => socket \in {"open", "closing"}

Starting ==
    flow["start"] = "load" =>
        /\ state \in {"idle", "stopped"}
        /\ flow["register"] = "none" /\ flow["reconnect"] = "none"
        /\ socket = "none" /\ ~reconnect

Flags ==
    /\ heartbeat \in BOOLEAN /\ reconnect \in BOOLEAN /\ clearing \in BOOLEAN
    /\ overlap \in BOOLEAN /\ forgotten \in BOOLEAN

Shape ==
    /\ state \in {"idle", "registering", "connecting", "online", "reconnecting", "error",
                  "stopped"}
    /\ socket \in {"none", "opening", "open", "challenged", "closing"}
    /\ old \in Nat
    /\ challenge \in {"off", "current", "old"}
    /\ flow \in [Call -> Stage]
    /\ flow["start"] \in {"none", "load", "renew", "saveRenewed"}
    /\ flow["register"] \in {"none", "post", "save"}
    /\ flow["reconnect"] \in {"none", "renew", "saveRenewed"}
    /\ file \in Identity /\ cached \in Identity
    /\ enabling \in {"no", "pairing", "registering"}
    /\ failures \in 0..MaxFailures /\ events \in 0..MaxEvents

Retrying ==
    /\ state = "reconnecting" => reconnect \/ flow["reconnect"] # "none"
    /\ state = "connecting" =>
          socket \in {"opening", "closing"} \/ (socket = "open" /\ challenge = "current")

Alone ==
    ~overlap =>
        /\ old = 0
        /\ \A c, d \in Call : flow[c] # "none" /\ flow[d] # "none" => c = d
        /\ (\E c \in Call : flow[c] # "none") => socket = "none"
        /\ \A c \in Call : flow[c] \in {"renew", "saveRenewed"} => ~reconnect
        /\ reconnect => socket = "none"

Forgotten ==
    forgotten =>
        /\ file = "none" /\ cached = "none"
        /\ \A c \in Call : flow[c] \notin {"renew", "saveRenewed"}

Rest ==
    /\ IdleIsQuiet /\ OnlineIsConnected /\ ChallengeTimer /\ Starting
    /\ Retrying /\ Alone /\ Forgotten

IInv == Flags /\ Shape /\ Rest

-----------------------------------------------------------------------------
(* What connect() does up to its first wait, case by case. *)
LEMMA ConnectOutcome ==
    ASSUME NEW c \in Call, NEW id \in Identity, EnterConnect(c, id)
    PROVE  \/ /\ state \in {"stopped", "connecting", "online"}
              /\ To(c, "none") /\ Done(c) /\ UNCHANGED <<state, socket, old, timers>>
           \/ /\ state \notin {"stopped", "connecting", "online"} /\ id = "none"
              /\ heartbeat' = FALSE
              /\ IF c = "reconnect"
                 THEN state' = "reconnecting" /\ reconnect' = TRUE
                 ELSE reconnect' = FALSE /\ state' = IF c = "register" THEN "error" ELSE state
              /\ To(c, "none") /\ Done(c) /\ UNCHANGED <<socket, old, challenge>>
           \/ /\ state \notin {"stopped", "connecting", "online"} /\ id = "fresh"
              /\ heartbeat' = FALSE /\ reconnect' = FALSE /\ OpenSocket(c)
           \/ /\ state \notin {"stopped", "connecting", "online"} /\ id = "expiring"
              /\ heartbeat' = FALSE /\ reconnect' = FALSE /\ To(c, "renew")
              /\ UNCHANGED <<state, socket, old, challenge, enabling>>
<1>1. CASE state \in {"stopped", "connecting", "online"}
    BY <1>1 DEF EnterConnect
<1>2. CASE state \notin {"stopped", "connecting", "online"} /\ id = "none"
    BY <1>2 DEF EnterConnect
<1>3. CASE state \notin {"stopped", "connecting", "online"} /\ id = "fresh"
    BY <1>3 DEF EnterConnect
<1>4. CASE state \notin {"stopped", "connecting", "online"} /\ id = "expiring"
    BY <1>4 DEF EnterConnect
<1> QED
    BY <1>1, <1>2, <1>3, <1>4 DEF Identity

(* What becomes of the error of a call. *)
LEMMA FailOutcome ==
    ASSUME NEW c \in Call, Fail(c)
    PROVE  /\ To(c, "none") /\ Done(c)
           /\ \/ c = "register" /\ state' = "error" /\ UNCHANGED reconnect
              \/ c = "reconnect" /\ state = "stopped" /\ UNCHANGED <<state, reconnect>>
              \/ c = "reconnect" /\ state # "stopped" /\ state' = "reconnecting" /\ reconnect' = TRUE
              \/ c = "start" /\ UNCHANGED <<state, reconnect>>
<1>1. CASE c = "register"
    BY <1>1 DEF Fail
<1>2. CASE c = "reconnect"
    BY <1>2 DEF Fail, ScheduleReconnect
<1>3. CASE c = "start"
    BY <1>3 DEF Fail
<1> QED
    BY <1>1, <1>2, <1>3 DEF Call

-----------------------------------------------------------------------------
(* Every starting state of the process satisfies the invariant. *)
LEMMA InitInv == Init => IInv
<1> SUFFICES ASSUME Init PROVE IInv
    OBVIOUS
<1>1. Flags
    BY ConnectionAssumption DEF Init, Call, Identity, Stage, Flags
<1>2. Shape /\ Rest
    BY ConnectionAssumption DEF Init, Call, Identity, Stage, Flags, Shape, Rest, IdleIsQuiet, OnlineIsConnected, ChallengeTimer, Starting,
        Retrying, Alone, Forgotten, Identity, Stage
<1> QED
    BY <1>1, <1>2 DEF IInv

(* Every handler of the client, the settings page and the process keeps it. *)
LEMMA NextInv == IInv /\ [Next]_vars => IInv'
<1> SUFFICES ASSUME IInv, [Next]_vars PROVE IInv'
    OBVIOUS
<1> USE ConnectionAssumption DEF IInv, Shape, Rest, Call, Identity, Stage
<1> USE DEF IdleIsQuiet, OnlineIsConnected, ChallengeTimer, Starting, Retrying, Alone, Forgotten
<1>1. CASE Load
  <2>1. CASE cached' = "none"
    <3>1. Flags'
        BY <1>1, <2>1 DEF Flags, Load, Began, UnderWay, Unbounded, timers, To
    <3>2. (Shape /\ Rest)'
        BY <1>1, <2>1 DEF Load, Began, UnderWay, Unbounded, timers, To
    <3> QED
        BY <3>1, <3>2
  <2>2. cached' \in Identity
    BY <1>1 DEF Load, IInv, Shape
  <2>3. CASE /\ state \in {"stopped", "connecting", "online"}
             /\ To("start", "none") /\ Done("start")
             /\ UNCHANGED <<state, socket, old, timers>>
    <3>1. Flags'
        BY <1>1, <2>3 DEF Flags, Load, Began, UnderWay, Unbounded, timers, To, Done
    <3>2. (Shape /\ Rest)'
        BY <1>1, <2>3 DEF Load, Began, UnderWay, Unbounded, timers, To, Done
    <3> QED
        BY <3>1, <3>2
  <2>4. CASE /\ state \notin {"stopped", "connecting", "online"} /\ cached' = "none"
             /\ heartbeat' = FALSE
             /\ reconnect' = FALSE /\ state' = state
             /\ To("start", "none") /\ Done("start")
             /\ UNCHANGED <<socket, old, challenge>>
    <3>1. Flags'
        BY <1>1, <2>4 DEF Flags, Load, Began, UnderWay, Unbounded, timers, To, Done
    <3>2. (Shape /\ Rest)'
        BY <1>1, <2>4 DEF Load, Began, UnderWay, Unbounded, timers, To, Done
    <3> QED
        BY <3>1, <3>2
  <2>5. CASE /\ state \notin {"stopped", "connecting", "online"} /\ cached' = "fresh"
             /\ heartbeat' = FALSE /\ reconnect' = FALSE
             /\ OpenSocket("start")
    <3>1. Flags'
        BY <1>1, <2>5 DEF Flags, Load, Began, UnderWay, Unbounded, timers, OpenSocket, To, Done
    <3>2. (Shape /\ Rest)'
        BY <1>1, <2>5 DEF Load, Began, UnderWay, Unbounded, timers, OpenSocket, To, Done
    <3> QED
        BY <3>1, <3>2
  <2>6. CASE /\ state \notin {"stopped", "connecting", "online"} /\ cached' = "expiring"
             /\ heartbeat' = FALSE /\ reconnect' = FALSE
             /\ To("start", "renew")
             /\ UNCHANGED <<state, socket, old, challenge, enabling>>
    <3>1. Flags'
        BY <1>1, <2>6 DEF Flags, Load, Began, UnderWay, Unbounded, timers, To
    <3>2. (Shape /\ Rest)'
        BY <1>1, <2>6 DEF Load, Began, UnderWay, Unbounded, timers, To
    <3> QED
        BY <3>1, <3>2
  <2>7. CASE cached' # "none"
    <3>1. EnterConnect("start", cached')
        BY <1>1, <2>7 DEF Load
    <3> QED
        BY <3>1, <2>2, <2>3, <2>4, <2>5, <2>6, ConnectOutcome
  <2> QED
    BY <2>1, <2>7
<1>2. CASE Reconnect
  <2>1. CASE state \in {"stopped", "connecting", "online"}
    <3>1. Flags'
        BY <1>2, <2>1 DEF Flags, Reconnect, Began, UnderWay, Unbounded, timers, identity
    <3>2. (Shape /\ Rest)'
        BY <1>2, <2>1 DEF Reconnect, Began, UnderWay, Unbounded, timers, identity
    <3> QED
        BY <3>1, <3>2
  <2>2. CASE /\ state \in {"stopped", "connecting", "online"}
             /\ To("reconnect", "none") /\ Done("reconnect")
             /\ UNCHANGED <<state, socket, old, timers>>
    <3>1. Flags'
        BY <1>2, <2>2 DEF Flags, Reconnect, Began, UnderWay, Unbounded, timers, identity, To, Done
    <3>2. (Shape /\ Rest)'
        BY <1>2, <2>2 DEF Reconnect, Began, UnderWay, Unbounded, timers, identity, To, Done
    <3> QED
        BY <3>1, <3>2
  <2>3. CASE /\ state \notin {"stopped", "connecting", "online"} /\ cached = "none"
             /\ heartbeat' = FALSE
             /\ state' = "reconnecting" /\ reconnect' = TRUE
             /\ To("reconnect", "none") /\ Done("reconnect")
             /\ UNCHANGED <<socket, old, challenge>>
    <3>1. Flags'
        BY <1>2, <2>3 DEF Flags, Reconnect, Began, UnderWay, Unbounded, timers, identity, To, Done
    <3>2. (Shape /\ Rest)'
        BY <1>2, <2>3 DEF Reconnect, Began, UnderWay, Unbounded, timers, identity, To, Done
    <3> QED
        BY <3>1, <3>2
  <2>4. CASE /\ state \notin {"stopped", "connecting", "online"} /\ cached = "fresh"
             /\ heartbeat' = FALSE /\ reconnect' = FALSE
             /\ OpenSocket("reconnect")
    <3>1. Flags'
        BY <1>2, <2>4 DEF Flags, Reconnect, Began, UnderWay, Unbounded, timers, identity, OpenSocket, To, Done
    <3>2. (Shape /\ Rest)'
        BY <1>2, <2>4 DEF Reconnect, Began, UnderWay, Unbounded, timers, identity, OpenSocket, To, Done
    <3> QED
        BY <3>1, <3>2
  <2>5. CASE /\ state \notin {"stopped", "connecting", "online"} /\ cached = "expiring"
             /\ heartbeat' = FALSE /\ reconnect' = FALSE
             /\ To("reconnect", "renew")
             /\ UNCHANGED <<state, socket, old, challenge, enabling>>
    <3>1. Flags'
        BY <1>2, <2>5 DEF Flags, Reconnect, Began, UnderWay, Unbounded, timers, identity, To
    <3>2. (Shape /\ Rest)'
        BY <1>2, <2>5 DEF Reconnect, Began, UnderWay, Unbounded, timers, identity, To
    <3> QED
        BY <3>1, <3>2
  <2>6. CASE ~(state \in {"stopped", "connecting", "online"})
    <3>1. EnterConnect("reconnect", cached)
        BY <1>2, <2>6 DEF Reconnect
    <3> QED
        BY <3>1, <2>2, <2>3, <2>4, <2>5, ConnectOutcome
  <2> QED
    BY <2>1, <2>6
<1>3. CASE Register
  <2>1. Flags'
      BY <1>3 DEF Flags, Register, Began, Done, To, UnderWay, Unbounded, timers, identity
  <2>2. (Shape /\ Rest)'
      BY <1>3 DEF Register, Began, Done, To, UnderWay, Unbounded, timers, identity
  <2> QED
      BY <2>1, <2>2
<1>4. CASE Saved
  <2>1. CASE /\ state \in {"stopped", "connecting", "online"}
             /\ To("register", "none") /\ Done("register")
             /\ UNCHANGED <<state, socket, old, timers>>
    <3>1. Flags'
        BY <1>4, <2>1 DEF Flags, Saved, Unbounded, timers, To, Done
    <3>2. (Shape /\ Rest)'
        BY <1>4, <2>1 DEF Saved, Unbounded, timers, To, Done
    <3> QED
        BY <3>1, <3>2
  <2>2. CASE /\ state \notin {"stopped", "connecting", "online"} /\ "fresh" = "none"
             /\ heartbeat' = FALSE
             /\ reconnect' = FALSE /\ state' = "error"
             /\ To("register", "none") /\ Done("register")
             /\ UNCHANGED <<socket, old, challenge>>
    <3>1. Flags'
        BY <1>4, <2>2 DEF Flags, Saved, Unbounded, timers, To, Done
    <3>2. (Shape /\ Rest)'
        BY <1>4, <2>2 DEF Saved, Unbounded, timers, To, Done
    <3> QED
        BY <3>1, <3>2
  <2>3. CASE /\ state \notin {"stopped", "connecting", "online"} /\ "fresh" = "fresh"
             /\ heartbeat' = FALSE /\ reconnect' = FALSE
             /\ OpenSocket("register")
    <3>1. Flags'
        BY <1>4, <2>3 DEF Flags, Saved, Unbounded, timers, OpenSocket, To, Done
    <3>2. (Shape /\ Rest)'
        BY <1>4, <2>3 DEF Saved, Unbounded, timers, OpenSocket, To, Done
    <3> QED
        BY <3>1, <3>2
  <2>4. CASE /\ state \notin {"stopped", "connecting", "online"} /\ "fresh" = "expiring"
             /\ heartbeat' = FALSE /\ reconnect' = FALSE
             /\ To("register", "renew")
             /\ UNCHANGED <<state, socket, old, challenge, enabling>>
    <3>1. Flags'
        BY <1>4, <2>4 DEF Flags, Saved, Unbounded, timers, To
    <3>2. (Shape /\ Rest)'
        BY <1>4, <2>4 DEF Saved, Unbounded, timers, To
    <3> QED
        BY <3>1, <3>2
  <2>5. EnterConnect("register", "fresh")
    BY <1>4 DEF Saved
  <2> QED
    BY <2>1, <2>2, <2>3, <2>4, <2>5, ConnectOutcome DEF Identity
<1>5. CASE Opens
  <2>1. Flags'
      BY <1>5 DEF Flags, Opens, Unbounded, identity
  <2>2. (Shape /\ Rest)'
      BY <1>5 DEF Opens, Unbounded, identity
  <2> QED
      BY <2>1, <2>2
<1>6. CASE Challenged
  <2>1. Flags'
      BY <1>6 DEF Flags, Challenged, Unbounded, identity
  <2>2. (Shape /\ Rest)'
      BY <1>6 DEF Challenged, Unbounded, identity
  <2> QED
      BY <2>1, <2>2
<1>7. CASE ChallengeTimeout
  <2>1. Flags'
      BY <1>7 DEF Flags, ChallengeTimeout, Unbounded, Failure, identity
  <2>2. (Shape /\ Rest)'
      BY <1>7 DEF ChallengeTimeout, Unbounded, Failure, identity
  <2> QED
      BY <2>1, <2>2
<1>8. CASE Closes
  <2>1. Flags'
      BY <1>8 DEF Flags, Closes, Disconnected, ScheduleReconnect, Unbounded, identity
  <2>2. (Shape /\ Rest)'
      BY <1>8 DEF Closes, Disconnected, ScheduleReconnect, Unbounded, identity
  <2> QED
      BY <2>1, <2>2
<1>9. CASE Cleared
  <2>1. Flags'
      BY <1>9 DEF Flags, Cleared, Unbounded, UnderWay, timers
  <2>2. (Shape /\ Rest)'
      BY <1>9 DEF Cleared, Unbounded, UnderWay, timers
  <2> QED
      BY <2>1, <2>2
<1>10. ASSUME NEW c \in Call, Answered(c) PROVE IInv'
  <2>1. Flags'
      BY <1>10 DEF Flags, Answered, To, Unbounded, timers, identity
  <2>2. (Shape /\ Rest)'
      BY <1>10 DEF Answered, To, Unbounded, timers, identity
  <2> QED
      BY <2>1, <2>2
<1>11. ASSUME NEW c \in Call, SavedRenewed(c) PROVE IInv'
  <2>1. Flags'
      BY <1>11 DEF Flags, SavedRenewed, OpenSocket, Done, To, Unbounded
  <2>2. (Shape /\ Rest)'
      BY <1>11 DEF SavedRenewed, OpenSocket, Done, To, Unbounded
  <2> QED
      BY <2>1, <2>2
<1>12. CASE PairingFails
  <2>1. Flags'
      BY <1>12 DEF Flags, PairingFails, Failure, timers, identity
  <2>2. (Shape /\ Rest)'
      BY <1>12 DEF PairingFails, Failure, timers, identity
  <2> QED
      BY <2>1, <2>2
<1>13. CASE Mismatch
  <2>1. Flags'
      BY <1>13 DEF Flags, Mismatch, Failure, timers, identity
  <2>2. (Shape /\ Rest)'
      BY <1>13 DEF Mismatch, Failure, timers, identity
  <2> QED
      BY <2>1, <2>2
<1>14. CASE Breaks
  <2>1. Flags'
      BY <1>14 DEF Flags, Breaks, Disconnected, ScheduleReconnect, Failure, identity
  <2>2. (Shape /\ Rest)'
      BY <1>14 DEF Breaks, Disconnected, ScheduleReconnect, Failure, identity
  <2> QED
      BY <2>1, <2>2
<1>15. ASSUME NEW c \in Call, CallFails(c) PROVE IInv'
  <2>0. Fail(c)
    BY <1>15 DEF CallFails
  <2>1. Flags'
      BY <1>15, <2>0, FailOutcome DEF Flags, CallFails, Done, To, Failure, identity
  <2>2. flow' = [flow EXCEPT ![c] = "none"] /\ enabling' \in {"no", enabling}
    BY <2>0, FailOutcome DEF To, Done
  <2>3. state' \in {"error", "reconnecting", state}
    BY <2>0, FailOutcome
  <2>4. Shape'
    BY <1>15, <2>2, <2>3 DEF CallFails, Failure, identity
  <2>5. Rest'
    BY <1>15, <2>0, FailOutcome DEF CallFails, Done, To, Failure, identity
  <2> QED
      BY <2>1, <2>4, <2>5
<1>16. CASE PressEnable
  <2>1. Flags'
      BY <1>16 DEF Flags, PressEnable, Event, timers, identity
  <2>2. (Shape /\ Rest)'
      BY <1>16 DEF PressEnable, Event, timers, identity
  <2> QED
      BY <2>1, <2>2
<1>17. CASE Disconnect
  <2>1. Flags'
      BY <1>17 DEF Flags, Disconnect, Drop, Event, identity
  <2>2. (Shape /\ Rest)'
      BY <1>17 DEF Disconnect, Drop, Event, identity
  <2> QED
      BY <2>1, <2>2
<1>18. CASE RemoveNode
  <2>1. Flags'
      BY <1>18 DEF Flags, RemoveNode, Drop, Event
  <2>2. (Shape /\ Rest)'
      BY <1>18 DEF RemoveNode, Drop, Event
  <2> QED
      BY <2>1, <2>2
<1>19. CASE TokenExpires
  <2>1. Flags'
      BY <1>19 DEF Flags, TokenExpires, Event, timers
  <2>2. (Shape /\ Rest)'
      BY <1>19 DEF TokenExpires, Event, timers
  <2> QED
      BY <2>1, <2>2
<1>20. CASE Stop
  <2>1. Flags'
      BY <1>20 DEF Flags, Stop, Drop, Event, identity
  <2>2. (Shape /\ Rest)'
      BY <1>20 DEF Stop, Drop, Event, identity
  <2> QED
      BY <2>1, <2>2
<1>21. CASE Restart
  <2>1. Flags'
      BY <1>21 DEF Flags, Restart, Drop, Event
  <2>2. (Shape /\ Rest)'
      BY <1>21 DEF Restart, Drop, Event
  <2> QED
      BY <2>1, <2>2
<1>22. CASE UNCHANGED vars
    BY <1>22 DEF vars, timers, identity, Flags
<1> QED
    BY <1>1, <1>2, <1>3, <1>4, <1>5, <1>6, <1>7, <1>8, <1>9, <1>10, <1>11, <1>12, <1>13, <1>14, <1>15, <1>16, <1>17, <1>18, <1>19, <1>20, <1>21, <1>22
    DEF Next, Progress, Trouble, User

LEMMA Invariance == Spec => []IInv
BY InitInv, NextInv, PTL DEF Spec

-----------------------------------------------------------------------------
(* What the invariant says to a reader. *)

\* Type correctness of the client, its settings page and its identity file, for
\* every number of failures and events.
THEOREM TypeSafety == Spec => []TypeOK
<1>1. IInv => TypeOK
    BY DEF IInv, Flags, Shape, TypeOK
<1> QED
    BY <1>1, Invariance, PTL

\* A client that shows idle or stopped has neither a socket nor a timer of its own:
\* disconnect() and stop() switch everything off, and whatever goes on after a
\* wait changes the state first.
THEOREM QuietSafety == Spec => []IdleIsQuiet
<1>1. IInv => IdleIsQuiet
    BY DEF IInv, Rest
<1> QED
    BY <1>1, Invariance, PTL

\* A client that shows online holds the socket whose challenge it answered, with
\* its heartbeat running.
THEOREM OnlineSafety == Spec => []OnlineIsConnected
<1>1. IInv => OnlineIsConnected
    BY DEF IInv, Rest
<1> QED
    BY <1>1, Invariance, PTL

\* A client that reconnects or connects has a timer, a call or a socket that will
\* take it further: no early return of connect() or of the timer strands it.
THEOREM WaitSafety == Spec => []NeverStuck
<1>1. IInv => NeverStuck
    BY DEF IInv, Shape, Rest, Retrying, NeverStuck, Call
<1> QED
    BY <1>1, Invariance, PTL

\* A second connection is only opened by a call that overlaps another, or by a
\* registration beside a socket.
THEOREM SocketSafety == Spec => []OneConnection
<1>1. IInv => OneConnection
    BY DEF IInv, Shape, Rest, Alone, OneConnection
<1> QED
    BY <1>1, Invariance, PTL

\* An identity removed with no call under way stays off the disk until the next
\* registration, across restarts too.
THEOREM RemovalSafety == Spec => []RemovedIsForgotten
<1>1. IInv => RemovedIsForgotten
    BY DEF IInv, Rest, Forgotten, RemovedIsForgotten
<1> QED
    BY <1>1, Invariance, PTL
=============================================================================
