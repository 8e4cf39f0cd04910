--------------------------- MODULE NodeConnection ---------------------------
(***************************************************************************)
(* The life of the desktop node's connection: register, connect,           *)
(* disconnect, stop and reconnect of execution-node/client.ts, the calls   *)
(* of service.ts and the settings page that reach them, and the encrypted  *)
(* identity file.                                                          *)
(*                                                                         *)
(* register() and connect() test the state, wait for the network or the    *)
(* disk, and go on without testing again.  A call under way is in flow;    *)
(* everything else runs to its end in one step.                            *)
(*                                                                         *)
(* Bounds: at most one call of each kind is under way; MaxFailures and     *)
(* MaxEvents limit what fails and what the user and the clock do.          *)
(***************************************************************************)
EXTENDS Naturals

CONSTANTS MaxFailures, MaxEvents

ASSUME ConnectionAssumption == MaxFailures \in Nat /\ MaxEvents \in Nat

VARIABLES
    state,      \* state of the client
    socket,     \* the current socket: none, opening, open, challenged, closing
    old,        \* sockets replaced without being closed
    heartbeat, reconnect,   \* timers
    challenge,  \* challenge timer: off, or armed for the current or an old socket
    flow,       \* calls under way
    file,       \* identity on disk: none, or with a token that is fresh or expiring
    cached,     \* and in memory
    clearing,   \* removeNode waits for the disk
    enabling,   \* the settings page: no, pairing, registering
    failures, events,       \* bounds
    overlap,    \* history: a call began beside another, or a registration beside a socket
    forgotten   \* history: the identity was removed with nothing under way

identity == <<file, cached, clearing, forgotten>>
timers == <<heartbeat, reconnect, challenge>>
vars == <<state, socket, old, timers, flow, identity, enabling, failures, events, overlap>>

Call == {"start", "register", "reconnect"}
Stage == {"none", "load", "post", "save", "renew", "saveRenewed"}
Identity == {"none", "fresh", "expiring"}

TypeOK ==
    /\ state \in {"idle", "registering", "connecting", "online", "reconnecting", "error",
                  "stopped"}
    /\ socket \in {"none", "opening", "open", "challenged", "closing"}
    /\ old \in Nat
    /\ heartbeat \in BOOLEAN /\ reconnect \in BOOLEAN
    /\ challenge \in {"off", "current", "old"}
    /\ flow \in [Call -> Stage]
    /\ file \in Identity /\ cached \in Identity
    /\ clearing \in BOOLEAN
    /\ enabling \in {"no", "pairing", "registering"}
    /\ failures \in 0..MaxFailures /\ events \in 0..MaxEvents
    /\ overlap \in BOOLEAN /\ forgotten \in BOOLEAN

Init ==
    /\ state = "idle" /\ socket = "none" /\ old = 0
    /\ heartbeat = FALSE /\ reconnect = FALSE /\ challenge = "off"
    /\ flow = [c \in Call |-> IF c = "start" THEN "load" ELSE "none"]
    /\ file \in Identity /\ cached = "none"
    /\ clearing = FALSE /\ enabling = "no"
    /\ failures = 0 /\ events = 0
    /\ overlap = FALSE /\ forgotten = FALSE

Event == events < MaxEvents /\ events' = events + 1 /\ UNCHANGED failures
Failure == failures < MaxFailures /\ failures' = failures + 1 /\ UNCHANGED events
Unbounded == UNCHANGED <<failures, events>>

-----------------------------------------------------------------------------
(* Parts of the handlers. *)

UnderWay(c) == flow[c] # "none"
To(c, stage) == flow' = [flow EXCEPT ![c] = stage]

\* The settings page waits for its registration only.
Done(c) == enabling' = IF c = "register" THEN "no" ELSE enabling

Began(c) ==
    overlap' = \/ overlap
               \/ \E d \in Call \ {c} : UnderWay(d)
               \/ c = "register" /\ socket # "none"

\* connect() once the token is fresh: a new socket takes the place of the old.
OpenSocket(c) ==
    /\ state' = "connecting"
    /\ old' = IF socket = "none" THEN old ELSE old + 1
    /\ socket' = "opening"
    /\ challenge' = IF challenge = "current" THEN "old" ELSE challenge
    /\ To(c, "none") /\ Done(c)

ScheduleReconnect ==
    IF state = "stopped" THEN UNCHANGED <<state, reconnect>>
    ELSE state' = "reconnecting" /\ reconnect' = TRUE

\* Mutant: an error of the timer's call is only logged.
FailLogged(c) ==
    /\ state' = IF c = "register" THEN "error" ELSE state
    /\ UNCHANGED reconnect
    /\ To(c, "none") /\ Done(c)

\* What becomes of an error: register() shows it, the timer's call is repeated,
\* start() only logs it.
Fail(c) ==
    /\ CASE c = "register" -> state' = "error" /\ UNCHANGED reconnect
         [] c = "reconnect" -> ScheduleReconnect
         [] c = "start" -> UNCHANGED <<state, reconnect>>
    /\ To(c, "none") /\ Done(c)

\* connect() up to its first wait, called by c with identity id in memory.
EnterConnect(c, id) ==
    CASE state \in {"stopped", "connecting", "online"} ->
            /\ To(c, "none") /\ Done(c)
            /\ UNCHANGED <<state, socket, old, timers>>
      [] state \notin {"stopped", "connecting", "online"} /\ id = "none" ->
            /\ heartbeat' = FALSE
            /\ IF c = "reconnect"
               THEN state' = "reconnecting" /\ reconnect' = TRUE
               ELSE reconnect' = FALSE /\ state' = IF c = "register" THEN "error" ELSE state
            /\ To(c, "none") /\ Done(c)
            /\ UNCHANGED <<socket, old, challenge>>
      [] state \notin {"stopped", "connecting", "online"} /\ id = "fresh" ->
            /\ heartbeat' = FALSE /\ reconnect' = FALSE
            /\ OpenSocket(c)
      [] state \notin {"stopped", "connecting", "online"} /\ id = "expiring" ->
            /\ heartbeat' = FALSE /\ reconnect' = FALSE
            /\ To(c, "renew")
            /\ UNCHANGED <<state, socket, old, challenge, enabling>>

\* Mutant: the reconnect timer survives.
DropConnection ==
    /\ socket' = "none"
    /\ heartbeat' = FALSE /\ challenge' = "off"
    /\ UNCHANGED reconnect

\* disconnect() and stop(): every timer off, the current socket closed.
Drop ==
    /\ socket' = "none"
    /\ heartbeat' = FALSE /\ reconnect' = FALSE /\ challenge' = "off"

-----------------------------------------------------------------------------
(* Calls. *)

\* start(): the identity is read; without one nothing is done.
Load ==
    /\ flow["start"] = "load"
    /\ cached' = IF cached = "none" THEN file ELSE cached
    /\ IF cached' = "none"
       THEN To("start", "none") /\ UNCHANGED <<state, socket, old, timers, enabling>>
       ELSE EnterConnect("start", cached')
    /\ Began("start") /\ Unbounded
    /\ UNCHANGED <<file, clearing, forgotten>>

\* The timer fires.
Reconnect ==
    /\ reconnect /\ ~UnderWay("reconnect")
    /\ IF state \in {"stopped", "connecting", "online"}
       THEN /\ reconnect' = FALSE
            /\ UNCHANGED <<state, socket, old, heartbeat, challenge, flow, enabling>>
       ELSE EnterConnect("reconnect", cached)
    /\ Began("reconnect") /\ Unbounded
    /\ UNCHANGED identity

\* The form is shown while the state is idle; it asks the server for a code first.
PressEnable ==
    /\ state = "idle" /\ enabling = "no" /\ ~UnderWay("register")
    /\ enabling' = "pairing"
    /\ Event
    /\ UNCHANGED <<state, socket, old, timers, flow, identity, overlap>>

PairingFails ==
    /\ enabling = "pairing"
    /\ enabling' = "no"
    /\ Failure
    /\ UNCHANGED <<state, socket, old, timers, flow, identity, overlap>>

\* register() up to its request.  The request for a code outlasts the reads of
\* start().
Register ==
    /\ enabling = "pairing" /\ flow["start"] # "load"
    /\ IF state = "stopped"
       THEN enabling' = "no" /\ UNCHANGED <<state, flow>>
       ELSE /\ state' = "registering" /\ enabling' = "registering"
            /\ To("register", "post")
    /\ Began("register") /\ Unbounded
    /\ UNCHANGED <<socket, old, timers, identity>>

\* The server answers a registration or a renewal.
Answered(c) ==
    /\ \/ flow[c] = "post" /\ To(c, "save")
       \/ flow[c] = "renew" /\ To(c, "saveRenewed")
    /\ Unbounded
    /\ UNCHANGED <<state, socket, old, timers, identity, enabling, overlap>>

\* The request or the save that c waits for fails.
CallFails(c) ==
    /\ flow[c] \in {"post", "save", "renew", "saveRenewed"}
    /\ Fail(c)
    /\ Failure
    /\ UNCHANGED <<socket, old, heartbeat, challenge, identity, overlap>>

\* The new identity is on disk and in memory, and register() connects.
Saved ==
    /\ flow["register"] = "save"
    /\ file' = "fresh" /\ cached' = "fresh"
    /\ EnterConnect("register", "fresh")
    /\ forgotten' = FALSE
    /\ Unbounded
    /\ UNCHANGED <<clearing, overlap>>

\* The renewed identity is, and connect() goes on: the state is not tested again.
SavedRenewed(c) ==
    /\ flow[c] = "saveRenewed"
    /\ file' = "fresh" /\ cached' = "fresh"
    /\ OpenSocket(c)
    /\ Unbounded
    /\ UNCHANGED <<heartbeat, reconnect, clearing, forgotten, overlap>>

-----------------------------------------------------------------------------
(* Events of the current socket; those of an old one are ignored. *)

Opens ==
    /\ socket = "opening"
    /\ socket' = "open" /\ challenge' = "current"
    /\ Unbounded
    /\ UNCHANGED <<state, old, heartbeat, reconnect, flow, identity, enabling, overlap>>

\* handleChallenge.
Challenged ==
    /\ socket = "open"
    /\ IF cached = "none"
       THEN state' = "error" /\ UNCHANGED <<socket, heartbeat, challenge>>
       ELSE /\ state' = "online" /\ socket' = "challenged"
            /\ heartbeat' = TRUE /\ challenge' = "off"
    /\ Unbounded
    /\ UNCHANGED <<old, reconnect, flow, identity, enabling, overlap>>

\* Mutant: a retry is scheduled before the socket has closed.
MismatchRetries ==
    /\ socket = "open"
    /\ state' = "error" /\ socket' = "closing" /\ reconnect' = TRUE
    /\ Failure
    /\ UNCHANGED <<old, heartbeat, challenge, flow, identity, enabling, overlap>>

\* A challenge of another protocol version.
Mismatch ==
    /\ socket = "open"
    /\ state' = "error" /\ socket' = "closing"
    /\ Failure
    /\ UNCHANGED <<old, timers, flow, identity, enabling, overlap>>

\* Its timer ends a socket whose challenge is late (a failure) or went unanswered.
ChallengeTimeout ==
    /\ challenge # "off"
    /\ challenge' = "off"
    /\ IF challenge = "current"
       THEN socket' = "closing" /\ UNCHANGED old
       ELSE old' = (IF old = 0 THEN 0 ELSE old - 1) /\ UNCHANGED socket
    /\ IF challenge = "current" /\ state = "connecting" THEN Failure ELSE Unbounded
    /\ UNCHANGED <<state, heartbeat, reconnect, flow, identity, enabling, overlap>>

\* Mutant: no reconnect is scheduled.
DisconnectedForGood ==
    /\ socket' = "none"
    /\ heartbeat' = FALSE /\ challenge' = "off"
    /\ UNCHANGED <<state, reconnect, old, flow, identity, enabling, overlap>>

\* handleDisconnect.
Disconnected ==
    /\ socket' = "none"
    /\ heartbeat' = FALSE /\ challenge' = "off"
    /\ ScheduleReconnect
    /\ UNCHANGED <<old, flow, identity, enabling, overlap>>

Closes == socket = "closing" /\ Disconnected /\ Unbounded

Breaks == socket \in {"opening", "open", "challenged"} /\ Disconnected /\ Failure

-----------------------------------------------------------------------------
(* The user, the clock and the process. *)

\* The page shows these buttons unless the state is idle.
Disconnect ==
    /\ state \notin {"idle", "stopped"}
    /\ Drop
    /\ state' = "idle"
    /\ Event
    /\ UNCHANGED <<old, flow, identity, enabling, overlap>>

RemoveNode ==
    /\ state \notin {"idle", "stopped"} /\ ~clearing
    /\ Drop
    /\ state' = "idle" /\ clearing' = TRUE
    /\ Event
    /\ UNCHANGED <<old, flow, file, cached, forgotten, enabling, overlap>>

\* Mutant: the file is left.
ClearedInMemory ==
    /\ clearing
    /\ cached' = "none" /\ clearing' = FALSE
    /\ forgotten' = (\A c \in Call : ~UnderWay(c))
    /\ Unbounded
    /\ UNCHANGED <<state, socket, old, timers, flow, file, enabling, overlap>>

\* clear() of the identity store.
Cleared ==
    /\ clearing
    /\ file' = "none" /\ cached' = "none" /\ clearing' = FALSE
    /\ forgotten' = (\A c \in Call : ~UnderWay(c))
    /\ Unbounded
    /\ UNCHANGED <<state, socket, old, timers, flow, enabling, overlap>>

TokenExpires ==
    /\ cached = "fresh"
    /\ cached' = "expiring" /\ file' = "expiring"
    /\ Event
    /\ UNCHANGED <<state, socket, old, timers, flow, clearing, forgotten, enabling, overlap>>

\* before-quit.
Stop ==
    /\ state # "stopped"
    /\ Drop
    /\ state' = "stopped"
    /\ Event
    /\ UNCHANGED <<old, flow, identity, enabling, overlap>>

\* The process ends, in order or not, and is started again.
Restart ==
    /\ Drop
    /\ state' = "idle" /\ old' = 0
    /\ flow' = [c \in Call |-> IF c = "start" THEN "load" ELSE "none"]
    /\ cached' = "none" /\ clearing' = FALSE /\ enabling' = "no" /\ overlap' = FALSE
    /\ Event
    /\ UNCHANGED <<file, forgotten>>

-----------------------------------------------------------------------------
Progress ==
    \/ Load \/ Reconnect \/ Register \/ Saved \/ Opens \/ Challenged \/ ChallengeTimeout
    \/ Closes \/ Cleared
    \/ \E c \in Call : Answered(c) \/ SavedRenewed(c)

Trouble ==
    \/ PairingFails \/ Mismatch \/ Breaks
    \/ \E c \in Call : CallFails(c)

User == PressEnable \/ Disconnect \/ RemoveNode \/ TokenExpires \/ Stop \/ Restart

Next == Progress \/ Trouble \/ User

\* Timers fire, requests are answered, saves end, servers send their challenge.
Fairness ==
    /\ WF_vars(Reconnect) /\ WF_vars(Opens) /\ WF_vars(Challenged)
    /\ WF_vars(ChallengeTimeout) /\ WF_vars(Closes) /\ WF_vars(Saved)
    /\ \A c \in Call : WF_vars(Answered(c)) /\ WF_vars(SavedRenewed(c))

Spec == Init /\ [][Next]_vars /\ Fairness

-----------------------------------------------------------------------------
(* Properties *)

\* A client that shows idle or stopped holds no connection and no timer that
\* could bring one, whatever calls were under way when it was disconnected:
\* disconnect() and stop() leave nothing behind but those calls themselves.
IdleIsQuiet ==
    state \in {"idle", "stopped"} =>
        socket = "none" /\ ~heartbeat /\ ~reconnect /\ challenge # "current"

\* A client that shows online holds the socket whose challenge it answered, and
\* keeps it alive.
OnlineIsConnected == state = "online" => socket = "challenged" /\ heartbeat

\* A client that waits has something to wait for: a timer, a call, or a socket
\* that opens, is challenged in time, or closes.
NeverStuck ==
    /\ state = "reconnecting" =>
          reconnect \/ \E c \in Call : flow[c] \in {"renew", "saveRenewed"}
    /\ state = "connecting" =>
          socket \in {"opening", "closing"} \/ (socket = "open" /\ challenge = "current")

\* As long as calls do not overlap, a node has one connection: retries and errors
\* never open a second one beside the first.
OneConnection == old > 0 => overlap

\* removeNode with nothing under way: no key, token or result comes back on disk
\* before the node is registered anew.
RemovedIsForgotten == forgotten => file = "none"

\* A client that tries to connect gets there, or is stopped by its user or by an
\* error it shows; only one whose identity was removed under it tries for ever.
Reconnects ==
    state \in {"connecting", "reconnecting"} ~>
        state \notin {"connecting", "reconnecting"} \/ cached = "none"
=============================================================================
