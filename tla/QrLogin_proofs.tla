---------------------------- MODULE QrLogin_proofs ----------------------------
(***************************************************************************)
(* Type correctness of QrLogin, that a code gives at most one session, that*)
(* the scanner only closes on a code the server has approved, and that a   *)
(* code it was told is refused gives none, for every number of codes and of*)
(* extras.                                                                 *)
(*                                                                         *)
(* Types says what each slot of req may hold.  Polls carries OneSession: as*)
(* long as no page rendered again, two polls never run for one code, and a *)
(* code the panel waits on has neither an exchange nor a session.  Trusted *)
(* carries DoneMeansApproved: an answer that lets the scanner close tells  *)
(* of an approval, and is about the code under review.  Refusals carries   *)
(* DeniedStaysOut: who says that a code was refused says it of a row that  *)
(* no write under way can approve any more.                                *)
(***************************************************************************)
EXTENDS QrLogin, TLAPS

PanelState == {"creating", "waiting", "exchanging", "denied", "expired", "error",
               "closed", "signedIn"}
PhoneStage == {"camera", "inspecting", "review", "approving", "denying", "done",
               "denied", "expired", "error"}
Value == Status \cup {"none", "ok", "failed"}
Requests == [of : 0..Challenges,
             op : {"none", "inspect", "approve", "deny", "status", "exchange"},
             at : {"idle", "sent", "writing", "answered"},
             value : Value,
             current : BOOLEAN]

Ops(s) ==
    IF s \in Poll THEN {"status", "exchange"} ELSE {s}

\* What a request of this kind may write.
Writes(op) ==
    CASE op = "approve"  -> {"approved", "expired"}
      [] op = "deny"     -> {"denied", "expired"}
      [] op = "exchange" -> {"consumed", "expired"}
      [] OTHER           -> {"expired"}

\* What slot s may hold, given the rows of the server.
Fits(rows, s, r) ==
    /\ r \in Requests
    /\ r.at = "idle" => ~r.current
    /\ r.at # "idle" =>
          /\ r.of \in Challenge /\ rows[r.of] # "none"
          /\ r.op \in Ops(s)
          /\ s \in Poll => r.current
    /\ r.at = "writing" => r.value \in Writes(r.op)
    /\ r.at = "answered" => r.current

Slots ==
    /\ req \in [Slot -> Requests]
    /\ \A s \in Slot : Fits(row, s, req[s])

ServerTypes ==
    /\ row \in [Challenge -> Status \cup {"none"}]
    /\ past \subseteq Challenge
    /\ sessions \in [Challenge -> Nat]
    /\ approved \subseteq Challenge

TargetTypes ==
    /\ panel \in [state : PanelState, shown : 0..Challenges, polling : Poll \cup {"no"},
                  started : BOOLEAN]
    /\ creating \in BOOLEAN /\ redone \in BOOLEAN /\ lost \in BOOLEAN
    /\ panel.shown # 0 => row[panel.shown] # "none"
    /\ panel.state = "waiting" => panel.shown # 0

ScannerTypes ==
    /\ phone \in [stage : PhoneStage, review : 0..Challenges]
    /\ crossed \subseteq Challenge
    /\ phone.review # 0 => row[phone.review] # "none"
    /\ phone.stage \in {"review", "approving", "denying"} => phone.review # 0
    /\ \A s \in {"approve", "deny"} : req[s].current =>
          /\ phone.stage \notin {"camera", "inspecting"}
          /\ req[s].of = phone.review
    /\ ~Free("inspect") /\ phone.stage # "inspecting" => req["inspect"].of = phone.review

Types ==
    /\ Slots /\ ServerTypes /\ TargetTypes /\ ScannerTypes
    /\ extras \in 0..MaxExtras

Polls ==
    /\ \A c \in Challenge : sessions[c] > 0 => row[c] # "none"
    /\ redone \/
        /\ \A s, t \in Poll :
              s # t /\ ~Free(s) /\ ~Free(t) => req[s].of # req[t].of
        /\ panel.state = "waiting" =>
              /\ sessions[panel.shown] = 0
              /\ \A s \in Poll : ~Free(s) /\ req[s].of = panel.shown =>
                    req[s].op = "status" /\ panel.polling = s
              /\ \A s \in Poll : panel.polling = s => ~Free(s) /\ req[s].of = panel.shown
        /\ \A s \in Poll :
              ~Free(s) /\ (req[s].op = "exchange" => req[s].at # "answered")
                => sessions[req[s].of] = 0
        /\ \A c \in Challenge : sessions[c] <= 1

Trusted ==
    /\ \A c \in Challenge : row[c] \in {"approved", "consumed"} => c \in approved
    /\ \A s \in Slot :
          req[s].at = "writing" /\ req[s].value = "consumed" => req[s].of \in approved
    /\ req["approve"].at = "answered" /\ req["approve"].value = "ok"
          => req["approve"].of \in approved
    /\ req["inspect"].at = "answered" /\ req["inspect"].value \in {"approved", "consumed"}
          => req["inspect"].of \in approved
    /\ DoneMeansApproved

-----------------------------------------------------------------------------
(* The slots that exist, and which of them poll. *)
LEMMA SlotNames ==
    /\ {"inspect", "approve", "deny"} \subseteq Slot /\ Poll \subseteq Slot
    /\ Poll = {"poll1", "poll2"}
    /\ \A s \in Slot : s \in Poll \/ s \in {"inspect", "approve", "deny"}
    /\ "inspect" \notin Poll /\ "approve" \notin Poll /\ "deny" \notin Poll
BY DEF Slot, Poll, PhoneCall

(* An empty slot. *)
LEMMA FitsIdle ==
    ASSUME NEW rows, NEW s \in Slot
    PROVE  Fits(rows, s, Idle) /\ Idle.at = "idle" /\ ~Idle.current
<1>1. 0 \in 0..Challenges
    BY BoundsAssumption
<1> QED
    BY <1>1 DEF Fits, Idle, Requests, Value, Status

(* An empty slot holds nothing the scanner or the panel waits for. *)
LEMMA IdleIsIdle == Idle.at = "idle" /\ ~Idle.current
BY DEF Idle

(* A request just sent, for a code that exists. *)
LEMMA FitsRequest ==
    ASSUME NEW rows, NEW s \in Slot, NEW op \in Ops(s), NEW c \in Challenge,
           rows[c] # "none"
    PROVE  /\ Fits(rows, s, Request(op, c))
           /\ Request(op, c).at = "sent" /\ Request(op, c).of = c
           /\ Request(op, c).op = op /\ Request(op, c).current
<1>1. c \in 0..Challenges
    BY BoundsAssumption DEF Challenge
<1>2. op \in {"none", "inspect", "approve", "deny", "status", "exchange"}
    BY SlotNames DEF Ops
<1> QED
    BY <1>1, <1>2 DEF Fits, Request, Requests, Value, Status

(* A request of the scanner after ++requestVersion. *)
LEMMA FitsAbandoned ==
    ASSUME NEW rows, NEW s \in Slot, s \notin Poll, NEW r, Fits(rows, s, r)
    PROVE  /\ Fits(rows, s, Abandoned(r)) /\ ~Abandoned(r).current
           /\ Abandoned(r).at # "answered"
           /\ Abandoned(r).at # "idle" =>
                 /\ Abandoned(r).at = r.at /\ Abandoned(r).of = r.of
                 /\ Abandoned(r).value = r.value
<1>1. CASE r.at = "answered"
    BY <1>1, FitsIdle DEF Abandoned, Idle
<1>2. CASE r.at # "answered"
    BY <1>2 DEF Abandoned, Fits, Requests
<1> QED
    BY <1>1, <1>2

(* A request that is answered, or whose answer is dropped. *)
LEMMA FitsReply ==
    ASSUME NEW rows, NEW s \in Slot, NEW r, Fits(rows, s, r), r.at # "idle",
           NEW v \in Value
    PROVE  Fits(rows, s, IF r.current THEN [r EXCEPT !.at = "answered", !.value = v] ELSE Idle)
<1>1. CASE r.current
    BY <1>1 DEF Fits, Requests
<1>2. CASE ~r.current
    BY <1>2, FitsIdle
<1> QED
    BY <1>1, <1>2

(* A request stays as it is when the server writes a row. *)
LEMMA FitsKept ==
    ASSUME NEW rows, NEW later, \A c \in Challenge : rows[c] # "none" => later[c] # "none",
           NEW s \in Slot, NEW r, Fits(rows, s, r)
    PROVE  Fits(later, s, r)
BY DEF Fits

(* The scanner's requests after ++requestVersion: nothing it sent is its own. *)
LEMMA OutdatedFits ==
    ASSUME Slots
    PROVE  /\ Outdated \in [Slot -> Requests]
           /\ \A s \in Slot : Fits(row, s, Outdated[s])
           /\ Outdated["inspect"] = Idle
           /\ Outdated["approve"] = Abandoned(req["approve"])
           /\ Outdated["deny"] = Abandoned(req["deny"])
           /\ \A s \in Poll : Outdated[s] = req[s]
<1>1. /\ Outdated["inspect"] = Idle
      /\ Outdated["approve"] = Abandoned(req["approve"])
      /\ Outdated["deny"] = Abandoned(req["deny"])
      /\ \A s \in Poll : Outdated[s] = req[s]
    BY SlotNames DEF Outdated, Slots
<1>2. \A s \in Slot : Fits(row, s, Outdated[s])
    BY <1>1, SlotNames, FitsIdle, FitsAbandoned DEF Slots
<1>3. Outdated \in [Slot -> Requests]
  <2>1. DOMAIN Outdated = Slot /\ Outdated = [s \in Slot |-> Outdated[s]]
    BY DEF Outdated, Slots
  <2> QED
    BY <2>1, <1>2 DEF Fits
<1> QED
    BY <1>1, <1>2, <1>3

(* What a handler makes of the row, by the kind of call. *)
LEMMA OutcomeValue ==
    ASSUME NEW op, NEW c \in Challenge, row \in [Challenge -> Status \cup {"none"}],
           row[c] # "none"
    PROVE  /\ Outcome(op, c).at \in {"writing", "answered"}
           /\ Outcome(op, c).at = "writing" => Outcome(op, c).value \in Writes(op)
           /\ Outcome(op, c).at = "writing" /\ Outcome(op, c).value = "consumed"
                 => row[c] = "approved"
           /\ Outcome(op, c).at = "answered" =>
                 \/ Outcome(op, c).value = "failed"
                 \/ op = "approve" /\ Outcome(op, c).value = "ok" /\ row[c] = "approved"
                 \/ op \notin {"approve", "deny", "exchange"} /\ Outcome(op, c).value = row[c]
<1>1. CASE MustExpire(c)
    BY <1>1 DEF Outcome, Writes
<1>2. CASE ~MustExpire(c) /\ op = "approve"
    BY <1>2 DEF Outcome, Writes, ApproveOutcome
<1>3. CASE ~MustExpire(c) /\ op = "deny"
    BY <1>3 DEF Outcome, Writes, DenyOutcome
<1>4. CASE ~MustExpire(c) /\ op = "exchange"
    BY <1>4 DEF Outcome, Writes, ExchangeOutcome
<1>5. CASE ~MustExpire(c) /\ op \notin {"approve", "deny", "exchange"}
    BY <1>5 DEF Outcome, Writes
<1> QED
    BY <1>1, <1>2, <1>3, <1>4, <1>5

(* A handler that answers, and the slots it leaves alone. *)
LEMMA ReplyFits ==
    ASSUME Slots, NEW s \in Slot, ~Free(s), NEW v \in Value,
           NEW rows, \A c \in Challenge : row[c] # "none" => rows[c] # "none"
    PROVE  /\ Reply(s, v) \in [Slot -> Requests]
           /\ \A t \in Slot : Fits(rows, t, Reply(s, v)[t])
           /\ \A t \in Slot : t # s => Reply(s, v)[t] = req[t]
           /\ Reply(s, v)[s] = IF req[s].current
                               THEN [req[s] EXCEPT !.at = "answered", !.value = v] ELSE Idle
<1>1. /\ \A t \in Slot : t # s => Reply(s, v)[t] = req[t]
      /\ Reply(s, v)[s] = IF req[s].current
                          THEN [req[s] EXCEPT !.at = "answered", !.value = v] ELSE Idle
      /\ DOMAIN Reply(s, v) = Slot /\ Reply(s, v) = [t \in Slot |-> Reply(s, v)[t]]
    BY DEF Reply, Slots
<1>2. \A t \in Slot : Fits(rows, t, req[t])
    BY FitsKept DEF Slots
<1>3. Fits(rows, s, Reply(s, v)[s])
  <2>1. Fits(rows, s, IF req[s].current
                      THEN [req[s] EXCEPT !.at = "answered", !.value = v] ELSE Idle)
    BY <1>2, FitsReply DEF Free
  <2> QED
    BY <1>1, <2>1
<1>4. \A t \in Slot : Fits(rows, t, Reply(s, v)[t])
    BY <1>1, <1>2, <1>3
<1> QED
    BY <1>1, <1>4 DEF Fits

(* The panel's own state, in a step of the server or of the scanner. *)
LEMMA TargetKept ==
    ASSUME TargetTypes, UNCHANGED target,
           \A c \in Challenge : row[c] # "none" => row'[c] # "none"
    PROVE  TargetTypes'
<1>1. panel.shown # 0 => panel.shown \in Challenge
    BY BoundsAssumption DEF TargetTypes, Challenge
<1> QED
    BY <1>1 DEF TargetTypes, target

(* The scanner's own state, in a step of the server or of the panel. *)
LEMMA ScannerKept ==
    ASSUME ScannerTypes, UNCHANGED scanner,
           \A c \in Challenge : row[c] # "none" => row'[c] # "none",
           \A s \in {"inspect", "approve", "deny"} :
              /\ req'[s].current => req[s].current /\ req'[s].of = req[s].of
              /\ req'[s].at # "idle" => req[s].at # "idle" /\ req'[s].of = req[s].of
    PROVE  ScannerTypes'
<1>1. phone.review # 0 => phone.review \in Challenge
    BY BoundsAssumption DEF ScannerTypes, Challenge
<1> QED
    BY <1>1 DEF ScannerTypes, scanner, Free

(* The polls and the sessions, in a step of the scanner. *)
LEMMA PollsKept ==
    ASSUME Polls, UNCHANGED <<row, sessions, panel, redone>>,
           \A s \in Poll : req'[s] = req[s]
    PROVE  Polls'
BY DEF Polls, Free

(* What the scanner may believe, in a step that gives it no new answer. *)
LEMMA TrustedKept ==
    ASSUME Trusted,
           approved \subseteq approved',
           \A c \in Challenge : row'[c] \in {"approved", "consumed"} => c \in approved',
           \A s \in Slot : req'[s].at \in {"writing", "answered"} =>
              \/ /\ req[s].at = req'[s].at /\ req[s].of = req'[s].of
                 /\ req[s].value = req'[s].value
              \/ s \in Poll /\ req'[s].at = "answered",
           DoneMeansApproved'
    PROVE  Trusted'
BY SlotNames DEF Trusted

-----------------------------------------------------------------------------
(* The invariant holds before anything has been asked. *)
LEMMA InvInit == Init => Types /\ Polls /\ Trusted
<1> SUFFICES ASSUME Init PROVE Types /\ Polls /\ Trusted
    OBVIOUS
<1>1. /\ req \in [Slot -> Requests]
      /\ \A s \in Slot : req[s] = Idle /\ Fits(row, s, req[s])
    BY FitsIdle DEF Init, Fits
<1>2. Slots
    BY <1>1 DEF Slots
<1>3. ServerTypes
    BY DEF Init, ServerTypes
<1>4. TargetTypes
  <2>1. /\ panel.shown = 0 /\ panel.state = "creating"
        /\ creating \in BOOLEAN /\ redone \in BOOLEAN /\ lost \in BOOLEAN
    BY DEF Init
  <2>2. panel \in [state : PanelState, shown : 0..Challenges, polling : Poll \cup {"no"},
                  started : BOOLEAN]
    BY BoundsAssumption DEF Init, PanelState
  <2> QED
    BY <2>1, <2>2 DEF TargetTypes
<1>5. ScannerTypes
    BY <1>1, SlotNames, FitsIdle, BoundsAssumption DEF Init, ScannerTypes, PhoneStage, Free
<1>6. extras \in 0..MaxExtras
    BY BoundsAssumption DEF Init
<1>7. Polls
    BY <1>1, SlotNames, FitsIdle DEF Init, Polls, Free
<1>8. Trusted
    BY <1>1, SlotNames, FitsIdle DEF Init, Trusted, DoneMeansApproved
<1> QED
    BY <1>2, <1>3, <1>4, <1>5, <1>6, <1>7, <1>8 DEF Types

(* A counted event keeps the count in its bound. *)
LEMMA ExtraTyped ==
    ASSUME extras \in 0..MaxExtras, Extra
    PROVE  extras' \in 0..MaxExtras
BY BoundsAssumption DEF Extra

(* A slot's answer, in the terms of the polls: none is added, none changes its *)
(* code or its operation, and an exchange that had its answer keeps it.        *)
LEMMA PollsAnswered ==
    ASSUME Slots, Polls, UNCHANGED <<row, sessions, panel, redone>>,
           \A s \in Poll :
              /\ req'[s].at = "idle" <=> req[s].at = "idle"
              /\ req'[s].of = req[s].of /\ req'[s].op = req[s].op
              /\ req[s].at = "answered" => req'[s].at = "answered"
    PROVE  Polls'
<1>1. \A s \in Poll : Free(s)' <=> Free(s)
    BY DEF Free
<1> QED
    BY <1>1 DEF Polls

(* The handler has read the row: it answers, or goes on to write. *)
LEMMA ReadStep ==
    ASSUME Types, Polls, Trusted, NEW s \in Slot, Read(s)
    PROVE  Types' /\ Polls' /\ Trusted'
<1> DEFINE c == req[s].of
           o == Outcome(req[s].op, req[s].of)
<1>1. /\ req[s].at = "sent" /\ ~Free(s)
      /\ req' = IF o.at = "writing"
                THEN [req EXCEPT ![s].at = "writing", ![s].value = o.value]
                ELSE Reply(s, o.value)
      /\ UNCHANGED <<server, target, scanner, extras>>
    BY DEF Read, Free
<1>2. /\ req \in [Slot -> Requests] /\ \A t \in Slot : Fits(row, t, req[t])
      /\ Slots /\ ServerTypes /\ TargetTypes /\ ScannerTypes
    BY DEF Types, Slots
<1>3. c \in Challenge /\ row[c] # "none" /\ req[s].op \in Ops(s) /\ (s \in Poll => req[s].current)
    BY <1>1, <1>2 DEF Fits
<1>4. /\ o.at \in {"writing", "answered"}
      /\ o.at = "writing" => o.value \in Writes(req[s].op)
      /\ o.at = "writing" /\ o.value = "consumed" => row[c] = "approved"
      /\ o.at = "answered" =>
            \/ o.value = "failed"
            \/ req[s].op = "approve" /\ o.value = "ok" /\ row[c] = "approved"
            \/ req[s].op \notin {"approve", "deny", "exchange"} /\ o.value = row[c]
    BY <1>2, <1>3, OutcomeValue DEF ServerTypes
<1>5. o.value \in Value
    BY <1>2, <1>3, <1>4 DEF Writes, Value, Status, ServerTypes
<1>6. UNCHANGED <<row, past, sessions, approved, panel, creating, redone, lost, phone, crossed>>
    BY <1>1 DEF server, target, scanner
<1>7. /\ req' \in [Slot -> Requests]
      /\ \A t \in Slot : Fits(row, t, req'[t])
      /\ \A t \in Slot : t # s => req'[t] = req[t]
      /\ \/ /\ o.at = "writing"
            /\ req'[s] = [req[s] EXCEPT !.at = "writing", !.value = o.value]
         \/ /\ o.at = "answered" /\ req[s].current
            /\ req'[s] = [req[s] EXCEPT !.at = "answered", !.value = o.value]
         \/ o.at = "answered" /\ ~req[s].current /\ req'[s] = Idle
  <2>1. CASE o.at = "writing"
    <3>1. /\ req' = [req EXCEPT ![s] = [req[s] EXCEPT !.at = "writing", !.value = o.value]]
          /\ \A t \in Slot : t # s => req'[t] = req[t]
          /\ req'[s] = [req[s] EXCEPT !.at = "writing", !.value = o.value]
        BY <1>1, <1>2, <2>1
    <3>2. Fits(row, s, req'[s])
        BY <1>1, <1>2, <1>4, <1>5, <2>1, <3>1 DEF Fits, Requests
    <3> QED
        BY <1>2, <2>1, <3>1, <3>2 DEF Fits
  <2>2. CASE o.at = "answered"
    <3>1. req' = Reply(s, o.value)
        BY <1>1, <2>2
    <3>2. /\ req' \in [Slot -> Requests]
          /\ \A t \in Slot : Fits(row, t, req'[t])
          /\ \A t \in Slot : t # s => req'[t] = req[t]
          /\ req'[s] = IF req[s].current
                       THEN [req[s] EXCEPT !.at = "answered", !.value = o.value] ELSE Idle
      <4> HIDE DEF o
      <4>1. \A v \in Value :
                /\ Reply(s, v) \in [Slot -> Requests]
                /\ \A t \in Slot : Fits(row, t, Reply(s, v)[t])
                /\ \A t \in Slot : t # s => Reply(s, v)[t] = req[t]
                /\ Reply(s, v)[s] = IF req[s].current
                                    THEN [req[s] EXCEPT !.at = "answered", !.value = v] ELSE Idle
        BY <1>1, <1>2, ReplyFits
      <4> QED
        BY <1>5, <3>1, <4>1
    <3> QED
        BY <2>2, <3>2
  <2> QED
    BY <1>4, <2>1, <2>2
<1>8. Slots' /\ ServerTypes' /\ TargetTypes' /\ extras' \in 0..MaxExtras
    BY <1>1, <1>2, <1>6, <1>7, TargetKept DEF Slots, ServerTypes, Types
<1>9. \/ /\ o.at = "writing" /\ req'[s].at = "writing"
         /\ req'[s].of = c /\ req'[s].op = req[s].op /\ req'[s].value = o.value
         /\ req'[s].current = req[s].current
      \/ /\ o.at = "answered" /\ req[s].current /\ req'[s].at = "answered"
         /\ req'[s].of = c /\ req'[s].op = req[s].op /\ req'[s].value = o.value
      \/ /\ ~req[s].current /\ req'[s].at = "idle" /\ ~req'[s].current
  <2>1. req[s] \in Requests
    BY <1>2
  <2> QED
    BY <1>7, <2>1, IdleIsIdle DEF Requests
<1> HIDE DEF o, c
<1>10. ScannerTypes'
  <2>1. \A t \in {"inspect", "approve", "deny"} :
            /\ req'[t].current => req[t].current /\ req'[t].of = req[t].of
            /\ req'[t].at # "idle" => req[t].at # "idle" /\ req'[t].of = req[t].of
    BY <1>1, <1>7, <1>9, SlotNames DEF Free, c
  <2> QED
    BY <1>1, <1>2, <1>6, <2>1, ScannerKept
<1>11. Polls'
  <2>1. \A t \in Poll :
            /\ req'[t].at = "idle" <=> req[t].at = "idle"
            /\ req'[t].of = req[t].of /\ req'[t].op = req[t].op
            /\ req[t].at = "answered" => req'[t].at = "answered"
    BY <1>1, <1>3, <1>7, <1>9, SlotNames DEF c
  <2> QED
    BY <1>2, <1>6, <2>1, PollsAnswered
<1>12. Trusted'
  <2>1. req'[s].at = "writing" /\ req'[s].value = "consumed" => c \in approved /\ req'[s].of = c
    BY <1>3, <1>4, <1>9 DEF Trusted
  <2>2. req'["approve"].at = "answered" /\ req'["approve"].value = "ok" /\ s = "approve"
            => c \in approved /\ req'[s].of = c
    BY <1>2, <1>3, <1>4, <1>9, SlotNames DEF Trusted, ServerTypes, Status, Ops
  <2>3. req'["inspect"].at = "answered" /\ req'["inspect"].value \in {"approved", "consumed"}
            /\ s = "inspect" => c \in approved /\ req'[s].of = c
    BY <1>3, <1>4, <1>9, SlotNames DEF Trusted, Ops
  <2> QED
    BY <1>6, <1>7, <2>1, <2>2, <2>3, SlotNames DEF Trusted, DoneMeansApproved
<1> QED
    BY <1>8, <1>10, <1>11, <1>12 DEF Types

(* What a reply makes of a slot, field by field. *)
LEMMA ReplyFields ==
    ASSUME Slots, NEW s \in Slot, ~Free(s), NEW v \in Value,
           NEW rows, \A c \in Challenge : row[c] # "none" => rows[c] # "none",
           req' = Reply(s, v)
    PROVE  /\ req' \in [Slot -> Requests]
           /\ \A t \in Slot : Fits(rows, t, req'[t])
           /\ \A t \in Slot : t # s => req'[t] = req[t]
           /\ \/ /\ req[s].current /\ req'[s].at = "answered"
                 /\ req'[s].of = req[s].of /\ req'[s].op = req[s].op /\ req'[s].value = v
              \/ /\ ~req[s].current /\ req'[s].at = "idle" /\ ~req'[s].current
                 /\ s \notin Poll
           /\ \A t \in {"inspect", "approve", "deny"} :
                 /\ req'[t].current => req[t].current /\ req'[t].of = req[t].of
                 /\ req'[t].at # "idle" => req[t].at # "idle" /\ req'[t].of = req[t].of
           /\ \A t \in Poll :
                 /\ req'[t].at = "idle" <=> req[t].at = "idle"
                 /\ req'[t].of = req[t].of /\ req'[t].op = req[t].op
                 /\ req[t].at = "answered" => req'[t].at = "answered"
<1>1. /\ req' \in [Slot -> Requests]
      /\ \A t \in Slot : Fits(rows, t, req'[t])
      /\ \A t \in Slot : t # s => req'[t] = req[t]
      /\ req'[s] = IF req[s].current
                   THEN [req[s] EXCEPT !.at = "answered", !.value = v] ELSE Idle
    BY ReplyFits
<1>2. req[s] \in Requests /\ (s \in Poll => req[s].current)
    BY DEF Slots, Fits, Free
<1>3. \/ /\ req[s].current /\ req'[s].at = "answered"
         /\ req'[s].of = req[s].of /\ req'[s].op = req[s].op /\ req'[s].value = v
      \/ /\ ~req[s].current /\ req'[s].at = "idle" /\ ~req'[s].current
         /\ s \notin Poll
    BY <1>1, <1>2, IdleIsIdle DEF Requests
<1> QED
    BY <1>1, <1>3, SlotNames DEF Free

(* The handler writes the status it decided on, whatever the row says by now. *)
LEMMA WriteStep ==
    ASSUME Types, Polls, Trusted, NEW s \in Slot, Write(s)
    PROVE  Types' /\ Polls' /\ Trusted'
<1> DEFINE c == req[s].of
           status == req[s].value
           v == Answer(req[s].op, req[s].value)
<1>1. /\ req[s].at = "writing" /\ ~Free(s)
      /\ row' = [row EXCEPT ![c] = status]
      /\ sessions' = IF status = "consumed" THEN [sessions EXCEPT ![c] = @ + 1] ELSE sessions
      /\ approved' = IF status = "approved" THEN approved \cup {c} ELSE approved
      /\ req' = Reply(s, v)
      /\ UNCHANGED <<past, target, scanner, extras>>
    BY DEF Write, Free
<1>2. /\ Slots /\ ServerTypes /\ TargetTypes /\ ScannerTypes
      /\ row \in [Challenge -> Status \cup {"none"}]
      /\ sessions \in [Challenge -> Nat]
      /\ Fits(row, s, req[s])
    BY DEF Types, Slots, ServerTypes
<1>3. /\ c \in Challenge /\ row[c] # "none" /\ req[s].op \in Ops(s)
      /\ status \in Writes(req[s].op)
    BY <1>1, <1>2 DEF Fits
<1>4. status \in Status /\ (status = "consumed" => req[s].op = "exchange")
      /\ (status = "approved" => req[s].op = "approve")
    BY <1>3 DEF Writes, Status
<1>5. /\ v \in Value
      /\ req[s].op = "approve" /\ v = "ok" => status = "approved"
      /\ req[s].op = "inspect" => v = "expired"
    BY <1>3, <1>4 DEF Answer, Value, Status, Writes
<1> HIDE DEF v
<1>6. /\ row' \in [Challenge -> Status \cup {"none"}]
      /\ \A d \in Challenge : row[d] # "none" => row'[d] # "none"
      /\ row'[c] = status /\ \A d \in Challenge : d # c => row'[d] = row[d]
      /\ sessions' \in [Challenge -> Nat]
      /\ approved' \subseteq Challenge /\ approved \subseteq approved'
      /\ status = "approved" => c \in approved'
    BY <1>1, <1>2, <1>3, <1>4 DEF Status, ServerTypes
<1>7. /\ req' \in [Slot -> Requests]
      /\ \A t \in Slot : Fits(row', t, req'[t])
      /\ \A t \in Slot : t # s => req'[t] = req[t]
      /\ \/ /\ req[s].current /\ req'[s].at = "answered"
            /\ req'[s].of = c /\ req'[s].op = req[s].op /\ req'[s].value = v
         \/ /\ ~req[s].current /\ req'[s].at = "idle" /\ ~req'[s].current
            /\ s \notin Poll
      /\ \A t \in {"inspect", "approve", "deny"} :
            /\ req'[t].current => req[t].current /\ req'[t].of = req[t].of
            /\ req'[t].at # "idle" => req[t].at # "idle" /\ req'[t].of = req[t].of
      /\ \A t \in Poll :
            /\ req'[t].at = "idle" <=> req[t].at = "idle"
            /\ req'[t].of = req[t].of /\ req'[t].op = req[t].op
            /\ req[t].at = "answered" => req'[t].at = "answered"
  <2>1. /\ Slots /\ ~Free(s) /\ v \in Value /\ req' = Reply(s, v)
        /\ \A d \in Challenge : row[d] # "none" => row'[d] # "none"
    BY <1>1, <1>2, <1>5, <1>6
  <2> QED
    BY <2>1, ReplyFields
<1>8. UNCHANGED <<past, panel, creating, redone, lost, phone, crossed, extras>>
    BY <1>1 DEF target, scanner
<1>9. Slots' /\ ServerTypes' /\ TargetTypes' /\ ScannerTypes' /\ extras' \in 0..MaxExtras
  <2>1. Slots' /\ ServerTypes'
    BY <1>2, <1>6, <1>7, <1>8 DEF Slots, ServerTypes
  <2>2. TargetTypes'
    BY <1>1, <1>2, <1>6, TargetKept
  <2>3. ScannerTypes'
    BY <1>1, <1>2, <1>6, <1>7, ScannerKept
  <2> QED
    BY <1>8, <2>1, <2>2, <2>3 DEF Types
<1>10. Polls'
  <2>1. \A t \in Poll : Free(t)' <=> Free(t)
    BY <1>7 DEF Free
  <2>2. CASE status # "consumed"
    <3>1. sessions' = sessions
        BY <1>1, <2>2
    <3> QED
        BY <1>6, <1>7, <1>8, <2>1, <3>1 DEF Polls
  <2>3. CASE status = "consumed"
    <3>1. s \in Poll /\ req[s].op = "exchange" /\ req'[s].at = "answered"
        BY <1>3, <1>4, <1>7, <2>3, SlotNames DEF Ops, Slots, Fits
    <3>2. /\ sessions'[c] = sessions[c] + 1
          /\ \A d \in Challenge : d # c => sessions'[d] = sessions[d]
        BY <1>1, <1>2, <1>3, <2>3
    <3>3. row'[c] # "none"
        BY <1>4, <1>6 DEF Status
    <3>4. \A d \in Challenge : sessions'[d] > 0 => row'[d] # "none"
        BY <1>6, <3>2, <3>3 DEF Polls
    <3>5. ASSUME ~redone
          PROVE  /\ sessions[c] = 0
                 /\ panel.state = "waiting" => panel.shown # c
                 /\ \A t \in Poll : t # s /\ ~Free(t) => req[t].of # c
        BY <1>1, <3>1, <3>5 DEF Polls
    <3>6. /\ \A t \in Poll : ~Free(t) => req[t].of \in Challenge
          /\ panel.state = "waiting" => panel.shown \in Challenge
        BY <1>2, SlotNames, BoundsAssumption
           DEF Slots, Fits, Free, TargetTypes, Challenge
    <3>7. ASSUME ~redone
          PROVE  /\ \A t \in Poll :
                      ~Free(t)' /\ (req'[t].op = "exchange" => req'[t].at # "answered")
                        => sessions'[req'[t].of] = 0
                 /\ \A d \in Challenge : sessions'[d] <= 1
                 /\ panel.state = "waiting" => sessions'[panel.shown] = 0
      <4>1. \A t \in Poll :
              ~Free(t)' /\ (req'[t].op = "exchange" => req'[t].at # "answered")
                => sessions'[req'[t].of] = 0
        BY <1>7, <2>1, <3>1, <3>2, <3>5, <3>6, <3>7 DEF Polls
      <4>2. \A d \in Challenge : sessions'[d] <= 1
        BY <1>2, <3>2, <3>5, <3>7 DEF Polls
      <4>3. panel.state = "waiting" => sessions'[panel.shown] = 0
        BY <3>2, <3>5, <3>6, <3>7 DEF Polls
      <4> QED
        BY <4>1, <4>2, <4>3
    <3> QED
        BY <1>7, <1>8, <2>1, <3>4, <3>7 DEF Polls
  <2> QED
    BY <2>2, <2>3
<1>11. Trusted'
  <2>1. \A d \in Challenge : row'[d] \in {"approved", "consumed"} => d \in approved'
    <3>1. status = "consumed" => c \in approved
        BY <1>1 DEF Trusted
    <3> QED
        BY <1>6, <3>1 DEF Trusted
  <2>2. /\ req'["approve"].at = "answered" /\ req'["approve"].value = "ok" /\ s = "approve"
              => req'["approve"].of \in approved'
        /\ ~ (req'["inspect"].at = "answered" /\ s = "inspect"
                /\ req'["inspect"].value \in {"approved", "consumed"})
    BY <1>3, <1>5, <1>6, <1>7, SlotNames DEF Ops
  <2>3. DoneMeansApproved'
    BY <1>6, <1>8 DEF DoneMeansApproved, Trusted
  <2>4. \A t \in Slot : req'[t].at = "writing" /\ req'[t].value = "consumed"
            => req'[t].of \in approved'
    BY <1>6, <1>7 DEF Trusted
  <2> QED
    BY <1>6, <1>7, <2>1, <2>2, <2>3, <2>4, SlotNames DEF Trusted
<1> QED
    BY <1>9, <1>10, <1>11 DEF Types

(* A request that fails without, or after, having been served. *)
LEMMA LoseStep ==
    ASSUME Types, Polls, Trusted, NEW s \in Slot, Lose(s)
    PROVE  Types' /\ Polls' /\ Trusted'
<1>1. /\ ~Free(s) /\ Extra /\ req' = Reply(s, "failed")
      /\ UNCHANGED <<server, target, scanner>> /\ "failed" \in Value
    BY DEF Lose, Free, Value
<1>2. Slots /\ ServerTypes /\ TargetTypes /\ ScannerTypes /\ extras \in 0..MaxExtras
    BY DEF Types
<1>3. /\ req' \in [Slot -> Requests]
      /\ \A t \in Slot : Fits(row, t, req'[t])
      /\ \A t \in Slot : t # s => req'[t] = req[t]
      /\ \/ req'[s].at = "answered" /\ req'[s].value = "failed"
         \/ req'[s].at = "idle" /\ s \notin Poll
      /\ \A t \in {"inspect", "approve", "deny"} :
            /\ req'[t].current => req[t].current /\ req'[t].of = req[t].of
            /\ req'[t].at # "idle" => req[t].at # "idle" /\ req'[t].of = req[t].of
      /\ \A t \in Poll :
            /\ req'[t].at = "idle" <=> req[t].at = "idle"
            /\ req'[t].of = req[t].of /\ req'[t].op = req[t].op
            /\ req[t].at = "answered" => req'[t].at = "answered"
    BY <1>1, <1>2, ReplyFields
<1>4. UNCHANGED <<row, past, sessions, approved, panel, creating, redone, lost, phone, crossed>>
    BY <1>1 DEF server, target, scanner
<1>5. Slots' /\ ServerTypes' /\ extras' \in 0..MaxExtras
    BY <1>1, <1>2, <1>3, <1>4, ExtraTyped DEF Slots, ServerTypes
<1>6. TargetTypes' /\ ScannerTypes'
    BY <1>1, <1>2, <1>3, <1>4, TargetKept, ScannerKept
<1>7. Polls'
    BY <1>2, <1>3, <1>4, PollsAnswered
<1>8. Trusted'
    BY <1>3, <1>4, SlotNames DEF Trusted, DoneMeansApproved
<1> QED
    BY <1>5, <1>6, <1>7, <1>8 DEF Types

(* A code runs out: only its clock moves. *)
LEMMA ElapseStep ==
    ASSUME Types, Polls, Trusted, NEW c \in Challenge, Elapse(c)
    PROVE  Types' /\ Polls' /\ Trusted'
<1>1. /\ UNCHANGED <<row, sessions, approved, req, target, scanner>>
      /\ Extra /\ past' = past \cup {c}
    BY DEF Elapse
<1>2. UNCHANGED <<panel, creating, redone, lost, phone, crossed>>
    BY <1>1 DEF target, scanner
<1>3. Slots' /\ ServerTypes' /\ TargetTypes' /\ ScannerTypes' /\ extras' \in 0..MaxExtras
    BY <1>1, <1>2, ExtraTyped DEF Types, Slots, ServerTypes, TargetTypes, ScannerTypes, Free
<1>4. Polls' /\ Trusted'
    BY <1>1, <1>2 DEF Polls, Trusted, DoneMeansApproved, Free
<1> QED
    BY <1>3, <1>4 DEF Types

-----------------------------------------------------------------------------
(* A step of the panel alone: it stops waiting, or the page renders again. *)
LEMMA PanelAlone ==
    ASSUME Types, Polls, Trusted, UNCHANGED <<server, req, scanner>>,
           TargetTypes', extras' \in 0..MaxExtras,
           redone' \/ (panel'.state # "waiting" /\ redone' = redone)
    PROVE  Types' /\ Polls' /\ Trusted'
<1>1. UNCHANGED <<row, past, sessions, approved, phone, crossed, req>>
    BY DEF server, scanner
<1>2. Slots' /\ ServerTypes'
    BY <1>1 DEF Types, Slots, ServerTypes
<1>3. ScannerTypes'
    BY <1>1 DEF Types, ScannerTypes, Free
<1>4. Polls'
    BY <1>1 DEF Polls, Free
<1>5. Trusted'
    BY <1>1 DEF Trusted, DoneMeansApproved
<1> QED
    BY <1>2, <1>3, <1>4, <1>5 DEF Types

(* The panel fails to create, refreshes, is left, counts down, renders again. *)
LEMMA PanelStep ==
    ASSUME Types, Polls, Trusted,
           CreateFailed \/ Refresh \/ Back \/ Countdown \/ Rerender
    PROVE  Types' /\ Polls' /\ Trusted'
<1> USE BoundsAssumption
<1>1. TargetTypes /\ extras \in 0..MaxExtras
    BY DEF Types
<1>2. CASE CreateFailed
  <2>1. UNCHANGED <<server, req, scanner>> /\ UNCHANGED <<row, redone>> /\ panel'.state # "waiting"
    BY <1>1, <1>2 DEF CreateFailed, server, TargetTypes
  <2>2. TargetTypes'
    BY <1>1, <1>2, <2>1 DEF CreateFailed, TargetTypes, PanelState
  <2> QED
    BY <1>1, <1>2, <2>1, <2>2, ExtraTyped, PanelAlone DEF CreateFailed
<1>3. CASE Refresh
  <2>1. UNCHANGED <<server, req, scanner>> /\ UNCHANGED <<row, redone>> /\ panel'.state # "waiting"
    BY <1>1, <1>3 DEF Refresh, server, TargetTypes
  <2>2. TargetTypes'
    BY <1>1, <1>3, <2>1 DEF Refresh, TargetTypes, PanelState
  <2> QED
    BY <1>1, <1>3, <2>1, <2>2, ExtraTyped, PanelAlone DEF Refresh
<1>4. CASE Back
  <2>1. UNCHANGED <<server, req, scanner>> /\ UNCHANGED <<row, redone>> /\ panel'.state # "waiting"
    BY <1>1, <1>4 DEF Back, server, TargetTypes
  <2>2. TargetTypes'
    <3>1. /\ panel' = [panel EXCEPT !.state = "closed", !.shown = 0]
          /\ creating' = FALSE /\ UNCHANGED <<redone, lost>> /\ 0 \in 0..Challenges
        BY <1>4 DEF Back
    <3>2. panel'.shown = 0 /\ panel'.state = "closed"
        BY <1>1, <3>1 DEF TargetTypes
    <3> QED
        BY <1>1, <3>1, <3>2 DEF TargetTypes, PanelState
  <2> QED
    BY <1>1, <1>4, <2>1, <2>2, ExtraTyped, PanelAlone DEF Back
<1>5. CASE Countdown
  <2>1. /\ UNCHANGED <<server, req, scanner>> /\ UNCHANGED <<row, redone, extras>>
        /\ panel'.state # "waiting"
    BY <1>1, <1>5 DEF Countdown, server, TargetTypes
  <2>2. TargetTypes'
    BY <1>1, <1>5, <2>1 DEF Countdown, TargetTypes, PanelState
  <2> QED
    BY <1>1, <2>1, <2>2, PanelAlone
<1>6. CASE Rerender
  <2>1. UNCHANGED <<server, req, scanner>> /\ UNCHANGED row /\ redone'
    BY <1>6 DEF Rerender, server
  <2>2. TargetTypes'
    BY <1>1, <1>6, <2>1 DEF Rerender, TargetTypes, PanelState
  <2> QED
    BY <1>1, <1>6, <2>1, <2>2, ExtraTyped, PanelAlone DEF Rerender
<1> QED
    BY <1>2, <1>3, <1>4, <1>5, <1>6

(* A new code: nobody has asked about it yet. *)
LEMMA CreatedStep ==
    ASSUME Types, Polls, Trusted, Created
    PROVE  Types' /\ Polls' /\ Trusted'
<1>1. PICK c \in Challenge :
        /\ row[c] = "none" /\ row' = [row EXCEPT ![c] = "pending"]
        /\ panel' = [panel EXCEPT !.state = "waiting", !.shown = c, !.polling = "no"]
    BY DEF Created
<1>2. /\ creating' = FALSE
      /\ UNCHANGED <<past, sessions, approved, req, redone, lost, phone, crossed, told, extras>>
    BY DEF Created, scanner
<1>3. /\ Slots /\ ServerTypes /\ TargetTypes /\ ScannerTypes /\ extras \in 0..MaxExtras
      /\ c \in 0..Challenges /\ c # 0
    BY BoundsAssumption DEF Types, Challenge
<1>4. /\ row' \in [Challenge -> Status \cup {"none"}] /\ row'[c] = "pending"
      /\ \A d \in Challenge : d # c => row'[d] = row[d]
      /\ \A d \in Challenge : row[d] # "none" => row'[d] # "none"
    BY <1>1, <1>3 DEF ServerTypes, Status
<1>5. Slots' /\ ServerTypes'
    BY <1>2, <1>3, <1>4, FitsKept DEF Slots, ServerTypes
<1>6. /\ panel'.state = "waiting" /\ panel'.shown = c /\ panel'.polling = "no"
      /\ TargetTypes'
    BY <1>1, <1>2, <1>3, <1>4 DEF TargetTypes, PanelState
<1>7. ScannerTypes'
    BY <1>2, <1>3, <1>4, ScannerKept DEF scanner
<1>8. Polls'
  <2>1. \A s \in Poll : ~Free(s) => req[s].of # c
    BY <1>1, <1>3, SlotNames DEF Slots, Fits, Free
  <2>2. sessions[c] = 0
    BY <1>1, <1>3 DEF Polls, ServerTypes
  <2>3. "no" \notin Poll /\ (\A s \in Poll : Free(s)' <=> Free(s))
    BY <1>2 DEF Poll, Free
  <2> QED
    BY <1>2, <1>4, <1>6, <2>1, <2>2, <2>3 DEF Polls
<1>9. Trusted'
    BY <1>2, <1>4 DEF Trusted, DoneMeansApproved
<1> QED
    BY <1>2, <1>3, <1>5, <1>6, <1>7, <1>8, <1>9 DEF Types

(* A step of a poll: the server's rows and the scanner stay as they are. *)
LEMMA PollStep ==
    ASSUME Types, Trusted, NEW s \in Poll, UNCHANGED <<server, scanner, extras>>,
           TargetTypes', Polls',
           NEW r, Fits(row, s, r), r.at # "writing", req' = [req EXCEPT ![s] = r]
    PROVE  Types' /\ Polls' /\ Trusted'
<1>1. UNCHANGED <<row, past, sessions, approved, phone, crossed, extras>>
    BY DEF server, scanner
<1>2. /\ s \in Slot /\ s \notin {"inspect", "approve", "deny"}
      /\ Slots /\ ServerTypes /\ ScannerTypes /\ extras \in 0..MaxExtras
    BY SlotNames DEF Types
<1>3. /\ req' \in [Slot -> Requests] /\ req'[s] = r
      /\ \A t \in Slot : t # s => req'[t] = req[t]
    BY <1>2 DEF Slots, Fits
<1>4. Slots' /\ ServerTypes'
    BY <1>1, <1>2, <1>3 DEF Slots, ServerTypes
<1>5. ScannerTypes'
    BY <1>1, <1>2, <1>3, SlotNames, ScannerKept
<1>6. Trusted'
    BY <1>1, <1>2, <1>3, SlotNames DEF Trusted, DoneMeansApproved
<1> QED
    BY <1>1, <1>2, <1>4, <1>5, <1>6 DEF Types

(* A tick of the interval: the panel waits, and no poll of its code runs. *)
LEMMA StartPollStep ==
    ASSUME Types, Polls, Trusted, NEW s \in Poll, StartPoll(s)
    PROVE  Types' /\ Polls' /\ Trusted'
<1> DEFINE r == Request("status", panel.shown)
<1>1. /\ panel.state = "waiting" /\ panel.polling = "no" /\ Free(s)
      /\ req' = [req EXCEPT ![s] = r]
      /\ panel' = [panel EXCEPT !.polling = s]
      /\ UNCHANGED <<server, scanner, extras>> /\ UNCHANGED <<creating, redone, lost>>
    BY DEF StartPoll, Send
<1>2. /\ s \in Slot /\ TargetTypes /\ req \in [Slot -> Requests]
      /\ panel.shown \in Challenge /\ row[panel.shown] # "none" /\ "status" \in Ops(s)
    BY <1>1, SlotNames, BoundsAssumption DEF Types, TargetTypes, Challenge, Ops, Slots
<1>3. /\ Fits(row, s, r) /\ r.at = "sent" /\ r.of = panel.shown /\ r.op = "status"
    BY <1>2, FitsRequest
<1> HIDE DEF r
<1>4. UNCHANGED <<row, sessions>>
    BY <1>1 DEF server
<1>5. /\ TargetTypes'
      /\ panel'.state = "waiting" /\ panel'.shown = panel.shown /\ panel'.polling = s
    BY <1>1, <1>2, <1>4 DEF TargetTypes
<1>6. /\ req'[s] = r /\ ~Free(s)'
      /\ \A t \in Poll : t # s => req'[t] = req[t] /\ (Free(t)' <=> Free(t))
    BY <1>1, <1>2, <1>3, SlotNames DEF Free
<1>7. Polls'
  <2>1. CASE redone
    BY <1>1, <1>4, <2>1 DEF Polls
  <2>2. CASE ~redone
    <3>1. /\ sessions[panel.shown] = 0
          /\ \A t \in Poll : ~Free(t) => req[t].of # panel.shown
        BY <1>1, <2>2, SlotNames DEF Polls
    <3>2. \A t, u \in Poll : t # u /\ ~Free(t)' /\ ~Free(u)' => req'[t].of # req'[u].of
        BY <1>3, <1>6, <2>2, <3>1 DEF Polls
    <3>3. \A t \in Poll : ~Free(t)' /\ (req'[t].op = "exchange" => req'[t].at # "answered")
            => sessions[req'[t].of] = 0
        BY <1>3, <1>6, <2>2, <3>1 DEF Polls
    <3>4. /\ \A t \in Poll : ~Free(t)' /\ req'[t].of = panel'.shown =>
               req'[t].op = "status" /\ panel'.polling = t
          /\ \A t \in Poll : panel'.polling = t => ~Free(t)' /\ req'[t].of = panel'.shown
        BY <1>3, <1>5, <1>6, <3>1
    <3> QED
        BY <1>1, <1>4, <1>5, <2>2, <3>1, <3>2, <3>3, <3>4 DEF Polls
  <2> QED
    BY <2>1, <2>2
<1> QED
    BY <1>1, <1>3, <1>5, <1>7, PollStep

(* The exchange follows the poll that saw the approval, in the same slot. *)
LEMMA ExchangeSent ==
    ASSUME Types, Polls, Trusted, NEW s \in Poll, PollAnswered(s), req[s].value = "approved"
    PROVE  Types' /\ Polls' /\ Trusted'
<1> DEFINE r == Request("exchange", req[s].of)
<1>1. /\ req[s].op = "status" /\ req[s].at = "answered" /\ ~Free(s)
      /\ req' = [req EXCEPT ![s] = r]
      /\ panel' = [panel EXCEPT !.state = Showing("exchanging"), !.started = TRUE]
      /\ UNCHANGED <<server, scanner, extras>> /\ UNCHANGED <<creating, redone, lost>>
    BY DEF PollAnswered, Send, Free
<1>2. /\ s \in Slot /\ TargetTypes /\ req \in [Slot -> Requests]
      /\ req[s].of \in Challenge /\ row[req[s].of] # "none" /\ "exchange" \in Ops(s)
    BY <1>1, SlotNames DEF Types, Ops, Slots, Fits
<1>3. /\ Fits(row, s, r) /\ r.at = "sent" /\ r.of = req[s].of /\ r.op = "exchange"
    BY <1>2, FitsRequest
<1> HIDE DEF r
<1>4. UNCHANGED <<row, sessions>>
    BY <1>1 DEF server
<1>5. TargetTypes' /\ panel'.state # "waiting"
    BY <1>1, <1>2, <1>4 DEF TargetTypes, Showing, Unmounted, PanelState
<1>6. /\ req'[s] = r /\ ~Free(s)'
      /\ \A t \in Poll : t # s => req'[t] = req[t] /\ (Free(t)' <=> Free(t))
    BY <1>1, <1>2, <1>3, SlotNames DEF Free
<1>7. Polls'
  <2>1. CASE redone
    BY <1>1, <1>4, <2>1 DEF Polls
  <2>2. CASE ~redone
    <3>1. sessions[req[s].of] = 0
        BY <1>1, <2>2 DEF Polls
    <3>2. \A t, u \in Poll : t # u /\ ~Free(t)' /\ ~Free(u)' => req'[t].of # req'[u].of
        BY <1>1, <1>3, <1>6, <2>2 DEF Polls
    <3>3. \A t \in Poll : ~Free(t)' /\ (req'[t].op = "exchange" => req'[t].at # "answered")
            => sessions[req'[t].of] = 0
        BY <1>3, <1>6, <2>2, <3>1 DEF Polls
    <3> QED
        BY <1>1, <1>4, <1>5, <2>2, <3>2, <3>3 DEF Polls
  <2> QED
    BY <2>1, <2>2
<1> QED
    BY <1>1, <1>3, <1>5, <1>7, PollStep

(* A slot of the panel that becomes free; if the panel still waits, its flag  *)
(* falls with the poll it stood for.                                          *)
LEMMA PollFreed ==
    ASSUME Types, Polls, Trusted, NEW s \in Poll, ~Free(s),
           UNCHANGED <<server, scanner, extras>>, redone' = redone,
           req' = [req EXCEPT ![s] = Idle], TargetTypes',
           panel'.state = "waiting" =>
              /\ panel.state = "waiting" /\ panel'.shown = panel.shown
              /\ panel'.polling = Released(s)
    PROVE  Types' /\ Polls' /\ Trusted'
<1>1. UNCHANGED <<row, sessions>> /\ s \in Slot /\ req \in [Slot -> Requests]
    BY SlotNames DEF server, Types, Slots
<1>2. /\ req'[s] = Idle /\ Free(s)' /\ "no" \notin Poll
      /\ \A t \in Poll : t # s => req'[t] = req[t] /\ (Free(t)' <=> Free(t))
    BY <1>1, SlotNames, IdleIsIdle DEF Free
<1>3. Polls'
    BY <1>1, <1>2 DEF Polls, Released
<1> QED
    BY <1>1, <1>3, FitsIdle, PollStep

(* Any other answer of a poll, and the answer of an exchange. *)
LEMMA PollEnds ==
    ASSUME Types, Polls, Trusted, NEW s \in Poll,
           (PollAnswered(s) /\ req[s].value # "approved") \/ Exchanged(s)
    PROVE  Types' /\ Polls' /\ Trusted'
<1>1. /\ ~Free(s) /\ UNCHANGED <<server, scanner, extras>> /\ redone' = redone
      /\ req' = [req EXCEPT ![s] = Idle] /\ row' = row
    BY DEF PollAnswered, Exchanged, Free, server
<1>2. TargetTypes
    BY DEF Types
<1>3. \A v : Verdict(v) \in PanelState /\ (Verdict(v) = "waiting" => panel.state = "waiting")
    BY <1>2 DEF Verdict, Showing, Unmounted, TargetTypes, PanelState
<1>4. CASE panel' = [panel EXCEPT !.state = Verdict(req[s].value), !.polling = Released(s)]
           /\ UNCHANGED creating /\ lost' \in BOOLEAN
  <2>1. Released(s) \in Poll \cup {"no"}
    BY <1>2 DEF Released, TargetTypes
  <2>2. /\ panel'.state = Verdict(req[s].value) /\ panel'.polling = Released(s)
        /\ panel'.shown = panel.shown
    BY <1>2, <1>4 DEF TargetTypes
  <2>3. panel' \in [state : PanelState, shown : 0..Challenges, polling : Poll \cup {"no"},
                    started : BOOLEAN]
    BY <1>2, <1>3, <1>4, <2>1 DEF TargetTypes
  <2>4. TargetTypes'
    BY <1>1, <1>2, <1>3, <1>4, <2>2, <2>3 DEF TargetTypes
  <2> QED
    BY <1>1, <1>3, <2>2, <2>4, PollFreed
<1>5. CASE panel' = [panel EXCEPT !.state = Verdict("failed"), !.polling = Released(s)]
           /\ UNCHANGED creating /\ lost' \in BOOLEAN
  <2>1. Released(s) \in Poll \cup {"no"}
    BY <1>2 DEF Released, TargetTypes
  <2>2. /\ panel'.state = Verdict("failed") /\ panel'.polling = Released(s)
        /\ panel'.shown = panel.shown
    BY <1>2, <1>5 DEF TargetTypes
  <2>3. panel' \in [state : PanelState, shown : 0..Challenges, polling : Poll \cup {"no"},
                    started : BOOLEAN]
    BY <1>2, <1>3, <1>5, <2>1 DEF TargetTypes
  <2>4. TargetTypes'
    BY <1>1, <1>2, <1>3, <1>5, <2>2, <2>3 DEF TargetTypes
  <2> QED
    BY <1>1, <1>3, <2>2, <2>4, PollFreed
<1>6. CASE panel' = [panel EXCEPT !.state = "signedIn", !.shown = 0, !.polling = "no"]
           /\ creating' = FALSE /\ lost' \in BOOLEAN
  <2>1. 0 \in 0..Challenges
    BY BoundsAssumption
  <2>2. panel'.state = "signedIn" /\ panel'.shown = 0
    BY <1>2, <1>6 DEF TargetTypes
  <2>3. TargetTypes'
    BY <1>1, <1>2, <1>6, <2>1, <2>2 DEF TargetTypes, PanelState
  <2> QED
    BY <1>1, <2>2, <2>3, PollFreed
<1> QED
    BY <1>2, <1>4, <1>5, <1>6 DEF PollAnswered, Exchanged, TargetTypes

-----------------------------------------------------------------------------
\* What a step of the scanner makes of the requests: every slot still fits, the
\* polls are not its own, and no answer comes from nowhere.
Quiet(new) ==
    /\ new \in [Slot -> Requests]
    /\ \A s \in Slot : Fits(row, s, new[s])
    /\ \A s \in Poll : new[s] = req[s]
    /\ \A s \in {"inspect", "approve", "deny"} : new[s].at \in {"writing", "answered"} =>
          /\ new[s].at = req[s].at /\ new[s].of = req[s].of /\ new[s].value = req[s].value

(* A step of the scanner alone. *)
LEMMA ScannerAlone ==
    ASSUME Types, Polls, Trusted, UNCHANGED <<server, target>>, Quiet(req'),
           ScannerTypes', extras' \in 0..MaxExtras, DoneMeansApproved'
    PROVE  Types' /\ Polls' /\ Trusted'
<1>1. UNCHANGED <<row, past, sessions, approved, panel, creating, redone, lost>>
    BY DEF server, target
<1>2. Slots' /\ ServerTypes'
    BY <1>1 DEF Types, Slots, ServerTypes, Quiet
<1>3. TargetTypes'
    BY <1>1, TargetKept DEF Types, target
<1>4. Polls'
    BY <1>1, PollsKept DEF Quiet
<1>5. Trusted'
    BY <1>1, SlotNames DEF Trusted, Quiet
<1> QED
    BY <1>2, <1>3, <1>4, <1>5 DEF Types

(* One slot of the scanner is cleared, given up, or sent. *)
LEMMA SlotQuiet ==
    ASSUME Slots, NEW s \in {"inspect", "approve", "deny"}, NEW new, Quiet(new),
           NEW r, Fits(row, s, r), r.at \notin {"writing", "answered"} \/ r = Abandoned(req[s])
    PROVE  /\ Quiet([new EXCEPT ![s] = r])
           /\ [new EXCEPT ![s] = r][s] = r
           /\ \A t \in Slot : t # s => [new EXCEPT ![s] = r][t] = new[t]
<1>1. s \in Slot /\ s \notin Poll /\ r \in Requests /\ Fits(row, s, req[s])
    BY SlotNames DEF Fits, Slots
<1>2. /\ [new EXCEPT ![s] = r] \in [Slot -> Requests]
      /\ [new EXCEPT ![s] = r][s] = r
      /\ \A t \in Slot : t # s => [new EXCEPT ![s] = r][t] = new[t]
    BY <1>1 DEF Quiet
<1>3. r.at \in {"writing", "answered"} =>
         r.at = req[s].at /\ r.of = req[s].of /\ r.value = req[s].value
    BY <1>1, FitsAbandoned
<1> QED
    BY <1>1, <1>2, <1>3, SlotNames DEF Quiet

(* The requests as they are, and after ++requestVersion. *)
LEMMA QuietRequests ==
    ASSUME Slots
    PROVE  /\ Quiet(req) /\ Quiet(Outdated)
           /\ Outdated["inspect"].at = "idle" /\ ~Outdated["inspect"].current
           /\ ~Outdated["approve"].current /\ ~Outdated["deny"].current
<1>1. Quiet(req)
    BY DEF Quiet, Slots
<1>2. \A s \in {"approve", "deny"} :
        /\ ~Abandoned(req[s]).current /\ Abandoned(req[s]).at # "answered"
        /\ Abandoned(req[s]).at # "idle" =>
              /\ Abandoned(req[s]).at = req[s].at /\ Abandoned(req[s]).of = req[s].of
              /\ Abandoned(req[s]).value = req[s].value
    BY FitsAbandoned, SlotNames DEF Slots
<1> QED
    BY <1>1, <1>2, OutdatedFits, IdleIsIdle DEF Quiet

(* The scanner sends a call, and counts it. *)
LEMMA CallQuiet ==
    ASSUME Slots, NEW s \in {"inspect", "approve", "deny"}, NEW c \in Challenge,
           row[c] # "none", Call(s, s, c)
    PROVE  /\ Quiet(req') /\ req'[s].of = c
           /\ s # "inspect" => req'["inspect"].at = "idle"
           /\ \A t \in {"approve", "deny"} : t # s => ~req'[t].current
<1>1. s \in Slot /\ s \in Ops(s)
    BY SlotNames DEF Ops
<1>2. /\ Fits(row, s, Request(s, c)) /\ Request(s, c).at = "sent" /\ Request(s, c).of = c
  <2>1. \A op \in Ops(s) : /\ Fits(row, s, Request(op, c))
                          /\ Request(op, c).at = "sent" /\ Request(op, c).of = c
    BY <1>1, FitsRequest
  <2> QED
    BY <1>1, <2>1
<1>3. req' = [Outdated EXCEPT ![s] = Request(s, c)]
    BY DEF Call
<1>4. /\ Quiet(req') /\ req'[s] = Request(s, c)
      /\ \A t \in Slot : t # s => req'[t] = Outdated[t]
  <2> DEFINE new == [Outdated EXCEPT ![s] = Request(s, c)]
  <2>1. Quiet(new) /\ new[s] = Request(s, c) /\ \A t \in Slot : t # s => new[t] = Outdated[t]
    <3>1. Quiet(Outdated)
        BY QuietRequests
    <3> QED
        BY <1>2, <3>1, SlotQuiet
  <2> QED
    BY <1>3, <2>1
<1> QED
    BY <1>2, <1>4, QuietRequests, SlotNames

(* The scanner clears a slot, its answer read. *)
LEMMA ClearQuiet ==
    ASSUME Slots, NEW s \in {"inspect", "approve", "deny"}, req' = [req EXCEPT ![s] = Idle]
    PROVE  /\ Quiet(req') /\ req'[s].at = "idle" /\ ~req'[s].current
           /\ \A t \in Slot : t # s => req'[t] = req[t]
<1>1. s \in Slot
    BY SlotNames
<1>2. Fits(row, s, Idle) /\ Idle.at = "idle" /\ ~Idle.current /\ Quiet(req)
    BY <1>1, FitsIdle, IdleIsIdle, QuietRequests
<1> DEFINE new == [req EXCEPT ![s] = Idle]
<1>3. Quiet(new) /\ new[s] = Idle /\ \A t \in Slot : t # s => new[t] = req[t]
  <2>1. Idle.at \notin {"writing", "answered"}
    BY <1>2
  <2> HIDE DEF new
  <2>2. Quiet([req EXCEPT ![s] = Idle]) /\ [req EXCEPT ![s] = Idle][s] = Idle
        /\ \A t \in Slot : t # s => [req EXCEPT ![s] = Idle][t] = req[t]
    BY ONLY Slots, <1>2, <2>1, SlotQuiet
  <2> QED
    BY <2>2 DEF new
<1> QED
    BY <1>2, <1>3

-----------------------------------------------------------------------------
(* A code is scanned, and its status arrives. *)
LEMMA ScanStep ==
    ASSUME Types, Polls, Trusted, Scan \/ Inspected
    PROVE  Types' /\ Polls' /\ Trusted'
<1>1. Slots /\ TargetTypes /\ ScannerTypes /\ extras \in 0..MaxExtras
    BY DEF Types
<1>2. CASE Scan
  <2>1. panel.shown \in Challenge /\ row[panel.shown] # "none"
    BY <1>1, <1>2, BoundsAssumption DEF Scan, TargetTypes, Challenge
  <2>2. /\ Quiet(req')
        /\ ~req'["approve"].current /\ ~req'["deny"].current
    BY <1>1, <1>2, <2>1, CallQuiet DEF Scan
  <2>3. /\ UNCHANGED <<server, target, extras>> /\ row' = row /\ crossed' = crossed
        /\ phone' = [phone EXCEPT !.stage = "inspecting"]
    BY <1>2 DEF Scan, Stage, server
  <2>4. /\ phone' \in [stage : PhoneStage, review : 0..Challenges]
        /\ phone'.stage = "inspecting" /\ phone'.review = phone.review
    BY <1>1, <2>3 DEF ScannerTypes, PhoneStage
  <2>5. ScannerTypes' /\ DoneMeansApproved'
    BY <1>1, <2>2, <2>3, <2>4 DEF ScannerTypes, DoneMeansApproved
  <2> QED
    BY <1>1, <2>2, <2>3, <2>5, ScannerAlone
<1>3. CASE Inspected
  <2> DEFINE c == req["inspect"].of
  <2>1. /\ phone.stage = "inspecting"
        /\ phone' = [stage |-> StageOf(req["inspect"].value),
                     review |-> IF req["inspect"].value = "pending" THEN c ELSE 0]
        /\ req' = [req EXCEPT !["inspect"] = Idle]
        /\ UNCHANGED <<server, target, extras>> /\ row' = row /\ crossed' = crossed
        /\ req["inspect"].at = "answered"
    BY <1>3 DEF Inspected, Mine, server
  <2>2. /\ Quiet(req') /\ req'["inspect"].at = "idle"
        /\ \A t \in Slot : t # "inspect" => req'[t] = req[t]
    BY <1>1, <2>1, ClearQuiet
  <2>3. /\ c \in Challenge /\ row[c] # "none" /\ c \in 0..Challenges /\ c # 0
        /\ 0 \in 0..Challenges
    BY <1>1, <2>1, SlotNames, BoundsAssumption DEF Slots, Fits, Challenge
  <2>4. /\ StageOf(req["inspect"].value) \in {"review", "error", "expired", "denied"}
        /\ StageOf(req["inspect"].value) = "review" => req["inspect"].value = "pending"
    BY DEF StageOf
  <2>5. /\ phone' \in [stage : PhoneStage, review : 0..Challenges]
        /\ phone'.review \in {0, c} /\ (phone'.stage = "review" => phone'.review = c)
        /\ phone'.stage \in {"review", "error", "expired", "denied"}
    BY <2>1, <2>3, <2>4 DEF PhoneStage
  <2>6. ~req'["approve"].current /\ ~req'["deny"].current
    BY <1>1, <2>1, <2>2, SlotNames DEF ScannerTypes
  <2> HIDE DEF c
  <2>7. ScannerTypes' /\ DoneMeansApproved'
    BY <1>1, <2>1, <2>2, <2>3, <2>5, <2>6 DEF ScannerTypes, DoneMeansApproved, Free
  <2> QED
    BY <1>1, <2>1, <2>2, <2>7, ScannerAlone
<1> QED
    BY <1>2, <1>3

(* A decision is sent. *)
LEMMA DecideStep ==
    ASSUME Types, Polls, Trusted, Approve \/ Deny
    PROVE  Types' /\ Polls' /\ Trusted'
<1>1. /\ phone.stage = "review" /\ phone.review \in Challenge /\ row[phone.review] # "none"
      /\ Slots /\ ScannerTypes /\ extras \in 0..MaxExtras
    BY BoundsAssumption DEF Approve, Deny, Types, ScannerTypes, Challenge
<1>2. /\ UNCHANGED <<server, target, extras>> /\ row' = row
      /\ crossed' \subseteq Challenge
    BY <1>1 DEF Approve, Deny, Crosses, server, ScannerTypes
<1>3. PICK s \in {"approve", "deny"}, stage \in {"approving", "denying"} :
        /\ Call(s, s, phone.review)
        /\ phone' = [phone EXCEPT !.stage = stage]
    BY DEF Approve, Deny, Stage
<1>4. /\ Quiet(req') /\ req'[s].of = phone.review /\ req'["inspect"].at = "idle"
      /\ \A t \in {"approve", "deny"} : t # s => ~req'[t].current
    BY <1>1, <1>3, CallQuiet
<1>5. /\ phone' \in [stage : PhoneStage, review : 0..Challenges]
      /\ phone'.stage \in {"approving", "denying"} /\ phone'.review = phone.review
    BY <1>1, <1>3 DEF ScannerTypes, PhoneStage
<1>6. ScannerTypes' /\ DoneMeansApproved'
    BY <1>1, <1>2, <1>4, <1>5, BoundsAssumption
       DEF ScannerTypes, DoneMeansApproved, Free, Challenge
<1> QED
    BY <1>1, <1>2, <1>4, <1>6, ScannerAlone

(* A step that makes every call under way somebody else's, and leaves the code  *)
(* under review or forgets it; it may take the sign-in for done if approved.    *)
LEMMA OutdatedStep ==
    ASSUME Types, Polls, Trusted, UNCHANGED <<server, target, crossed>>,
           extras' \in 0..MaxExtras,
           Quiet(req'), req'["inspect"].at = "idle",
           ~req'["approve"].current, ~req'["deny"].current,
           \/ phone' = [stage |-> "camera", review |-> 0]
           \/ phone' = [phone EXCEPT !.stage = "expired"]
           \/ phone' = [phone EXCEPT !.stage = "done"] /\ phone.review \in approved
    PROVE  Types' /\ Polls' /\ Trusted'
<1>1. ScannerTypes /\ row' = row /\ approved' = approved /\ 0 \in 0..Challenges
    BY BoundsAssumption DEF Types, server
<1>2. /\ phone' \in [stage : PhoneStage, review : 0..Challenges]
      /\ phone'.review \in {0, phone.review}
      /\ phone'.stage \in {"camera", "expired", "done"}
      /\ phone'.stage = "done" => phone'.review \in approved
    BY <1>1 DEF ScannerTypes, PhoneStage
<1>3. ScannerTypes' /\ DoneMeansApproved'
    BY <1>1, <1>2 DEF ScannerTypes, DoneMeansApproved, Free
<1> QED
    BY <1>3, ScannerAlone

(* The page is reset, left, out of time, or told that the approval was accepted. *)
LEMMA OverStep ==
    ASSUME Types, Polls, Trusted,
           ScanAgain \/ LeaveScanner \/ ReviewElapsed \/ ApproveAccepted
    PROVE  Types' /\ Polls' /\ Trusted'
<1>1. Slots /\ ScannerTypes /\ extras \in 0..MaxExtras
    BY DEF Types
<1>2. /\ Quiet(Outdated) /\ Outdated["inspect"].at = "idle"
      /\ ~Outdated["approve"].current /\ ~Outdated["deny"].current
    BY <1>1, QuietRequests
<1>3. CASE ScanAgain
    BY <1>1, <1>2, <1>3, OutdatedStep DEF ScanAgain
<1>4. CASE LeaveScanner
    BY <1>1, <1>2, <1>4, ExtraTyped, OutdatedStep DEF LeaveScanner
<1>5. CASE ReviewElapsed
    BY <1>1, <1>2, <1>5, OutdatedStep DEF ReviewElapsed, Stage
<1>6. CASE ApproveAccepted
  <2> DEFINE new == [Outdated EXCEPT !["approve"] = Idle]
  <2>1. /\ Fits(row, "approve", Idle) /\ Idle.at \notin {"writing", "answered"} /\ ~Idle.current
        /\ "approve" \in Slot /\ "inspect" \in Slot /\ "deny" \in Slot
    BY FitsIdle, IdleIsIdle, SlotNames
  <2>2. Quiet(new) /\ new["approve"] = Idle /\ \A t \in Slot : t # "approve" => new[t] = Outdated[t]
    BY <1>1, <1>2, <2>1, SlotQuiet
  <2>3. phone.review \in approved
    BY <1>1, <1>6 DEF ApproveAccepted, Mine, ScannerTypes, Trusted
  <2>4. /\ req' = new /\ phone' = [phone EXCEPT !.stage = "done"]
        /\ UNCHANGED <<server, target, crossed, extras>>
    BY <1>6 DEF ApproveAccepted, Stage
  <2> HIDE DEF new
  <2> QED
    BY <1>1, <1>2, <2>1, <2>2, <2>3, <2>4, OutdatedStep
<1> QED
    BY <1>3, <1>4, <1>5, <1>6

(* The answer to a reconciliation. *)
LEMMA ReconciledStep ==
    ASSUME Types, Polls, Trusted, Completed \/ Undecided
    PROVE  Types' /\ Polls' /\ Trusted'
<1>1. Slots /\ ScannerTypes /\ extras \in 0..MaxExtras
    BY DEF Types
<1>2. /\ req["inspect"].at = "answered" /\ ~Free("inspect")
      /\ phone.stage \in {"approving", "expired", "denied"}
      /\ UNCHANGED <<server, target, crossed, extras>>
      /\ row' = row /\ approved' = approved
    BY DEF Completed, Undecided, Mine, Free, server
<1>3. req["inspect"].of = phone.review /\ phone.review # 0
  <2>1. req["inspect"].of \in Challenge
    BY <1>1, <1>2, SlotNames DEF Slots, Fits
  <2> QED
    BY <1>1, <1>2, <2>1, BoundsAssumption DEF ScannerTypes, Challenge
<1>4. CASE Completed /\ req["inspect"].value \in {"approved", "consumed"}
  <2>1. phone.review \in approved
    BY <1>2, <1>3, <1>4 DEF Trusted
  <2>2. req' = Outdated /\ phone' = [phone EXCEPT !.stage = "done"]
    BY <1>4 DEF Completed, Stage
  <2>3. /\ Quiet(req') /\ req'["inspect"].at = "idle"
        /\ ~req'["approve"].current /\ ~req'["deny"].current
    BY <1>1, <2>2, QuietRequests
  <2> QED
    BY <1>1, <1>2, <2>1, <2>2, <2>3, OutdatedStep
<1>5. CASE \/ Undecided
           \/ Completed /\ req["inspect"].value \notin {"approved", "consumed"}
  <2>1. /\ req' = [req EXCEPT !["inspect"] = Idle]
        /\ \/ phone' = phone
           \/ \E stage \in {"expired", "denied", "review"} : phone' = [phone EXCEPT !.stage = stage]
    BY <1>5 DEF Completed, Undecided, Stage
  <2>2. /\ Quiet(req') /\ req'["inspect"].at = "idle"
        /\ req'["approve"] = req["approve"] /\ req'["deny"] = req["deny"]
    BY <1>1, <2>1, ClearQuiet, SlotNames
  <2>3. /\ phone' \in [stage : PhoneStage, review : 0..Challenges] /\ phone'.review = phone.review
        /\ phone'.stage \in {"approving", "expired", "denied", "review"}
    BY <1>1, <1>2, <2>1 DEF ScannerTypes, PhoneStage
  <2>4. ScannerTypes' /\ DoneMeansApproved'
    BY <1>1, <1>2, <1>3, <2>2, <2>3 DEF ScannerTypes, DoneMeansApproved, Free
  <2> QED
    BY <1>1, <1>2, <2>2, <2>4, ScannerAlone
<1> QED
    BY <1>4, <1>5

(* The page looks at the code while, or after, it approves it. *)
LEMMA LookStep ==
    ASSUME Types, Polls, Trusted, Reconcile \/ ApproveInDoubt
    PROVE  Types' /\ Polls' /\ Trusted'
<1>1. Slots /\ ScannerTypes /\ extras \in 0..MaxExtras
    BY DEF Types
<1>2. /\ req["approve"].current /\ req["approve"].of = phone.review
      /\ phone.stage \notin {"camera", "inspecting"}
      /\ UNCHANGED <<server, target, scanner>> /\ row' = row /\ approved' = approved
      /\ phone' = phone /\ crossed' = crossed
    BY <1>1 DEF Reconcile, ApproveInDoubt, ScannerTypes, server, scanner
<1>3. phone.review \in Challenge /\ row[phone.review] # "none"
    BY <1>1, <1>2, SlotNames DEF Slots, Fits
<1>4. extras' \in 0..MaxExtras
    BY <1>1, ExtraTyped DEF Reconcile, ApproveInDoubt, GaveUp
<1> DEFINE look == Request("inspect", phone.review)
<1>5. /\ Fits(row, "inspect", look) /\ look.at \notin {"writing", "answered"}
      /\ look.of = phone.review
  <2>1. "inspect" \in Slot /\ "inspect" \in Ops("inspect")
    BY SlotNames DEF Ops
  <2>2. \A op \in Ops("inspect") : /\ Fits(row, "inspect", Request(op, phone.review))
                                   /\ Request(op, phone.review).at = "sent"
                                   /\ Request(op, phone.review).of = phone.review
    BY <1>3, <2>1, FitsRequest
  <2> QED
    BY <2>1, <2>2
<1>6. /\ Quiet(req') /\ req'["inspect"] = look
      /\ req'["approve"].current => req'["approve"] = req["approve"]
      /\ req'["deny"] = req["deny"]
  <2> HIDE DEF look
  <2>1. CASE Reconcile
    <3>1. req' = [req EXCEPT !["inspect"] = look] /\ Quiet(req)
        BY <1>1, <2>1, QuietRequests DEF Reconcile, Send, look
    <3>2. /\ Quiet([req EXCEPT !["inspect"] = look])
          /\ [req EXCEPT !["inspect"] = look]["inspect"] = look
          /\ \A t \in Slot : t # "inspect" => [req EXCEPT !["inspect"] = look][t] = req[t]
      <4>1. Slots /\ Quiet(req)
        BY <1>1, <3>1
      <4> QED
        BY ONLY <1>5, <4>1, SlotQuiet
    <3> QED
        BY <3>1, <3>2, SlotNames
  <2>2. CASE ApproveInDoubt
    <3> DEFINE given == Abandoned(req["approve"])
               mid == [req EXCEPT !["approve"] = given]
    <3>1. Fits(row, "approve", given) /\ ~given.current
        BY <1>1, SlotNames, FitsAbandoned DEF Slots
    <3>2. Quiet(req)
        BY <1>1, QuietRequests
    <3> HIDE DEF given
    <3>3. /\ Quiet(mid) /\ mid["approve"] = given
          /\ \A t \in Slot : t # "approve" => mid[t] = req[t]
        BY <1>1, <3>1, <3>2, SlotQuiet DEF given
    <3> HIDE DEF mid
    <3>4. /\ Quiet([mid EXCEPT !["inspect"] = look])
          /\ [mid EXCEPT !["inspect"] = look]["inspect"] = look
          /\ \A t \in Slot : t # "inspect" => [mid EXCEPT !["inspect"] = look][t] = mid[t]
        BY <1>1, <1>5, <3>3, SlotQuiet
    <3>5. req' = [mid EXCEPT !["inspect"] = look]
        BY <1>2, <2>2 DEF ApproveInDoubt, mid, given, look
    <3> QED
        BY <3>1, <3>3, <3>4, <3>5, SlotNames
  <2> QED
    BY <2>1, <2>2
<1> HIDE DEF look
<1>7. ScannerTypes'
    BY <1>1, <1>2, <1>5, <1>6 DEF ScannerTypes
<1>8. DoneMeansApproved'
    BY <1>2 DEF DoneMeansApproved, Trusted
<1> QED
    BY <1>2, <1>4, <1>6, <1>7, <1>8, ScannerAlone

(* A refusal is accepted, or is given up. *)
LEMMA DenyStep ==
    ASSUME Types, Polls, Trusted, DenyAccepted \/ DenyInDoubt
    PROVE  Types' /\ Polls' /\ Trusted'
<1>1. Slots /\ ScannerTypes /\ extras \in 0..MaxExtras
    BY DEF Types
<1>2. /\ req["deny"].current /\ req["deny"].of = phone.review
      /\ phone.stage \notin {"camera", "inspecting"}
      /\ UNCHANGED <<server, target, crossed>> /\ row' = row
      /\ \E stage \in {"denied", "review"} : phone' = [phone EXCEPT !.stage = stage]
    BY <1>1 DEF DenyAccepted, DenyInDoubt, Mine, ScannerTypes, Stage, server
<1>3. phone.review \in Challenge /\ phone.review # 0
    BY <1>1, <1>2, SlotNames, BoundsAssumption DEF Slots, Fits, Challenge
<1>4. extras' \in 0..MaxExtras
    BY <1>1, ExtraTyped DEF DenyAccepted, DenyInDoubt, GaveUp
<1>5. /\ Quiet(req') /\ ~req'["deny"].current
      /\ req'["approve"] = req["approve"] /\ req'["inspect"] = req["inspect"]
  <2>1. CASE DenyAccepted
    <3>1. req' = [req EXCEPT !["deny"] = Idle]
        BY <2>1 DEF DenyAccepted
    <3> QED
        BY <1>1, <3>1, ClearQuiet, SlotNames
  <2>2. CASE DenyInDoubt
    <3> DEFINE given == Abandoned(req["deny"])
    <3>1. Fits(row, "deny", given) /\ ~given.current
        BY <1>1, SlotNames, FitsAbandoned DEF Slots
    <3>2. Quiet(req)
        BY <1>1, QuietRequests
    <3>3. req' = [req EXCEPT !["deny"] = given]
        BY <2>2 DEF DenyInDoubt
    <3> HIDE DEF given
    <3>4. /\ Quiet([req EXCEPT !["deny"] = given])
          /\ [req EXCEPT !["deny"] = given]["deny"] = given
          /\ \A t \in Slot : t # "deny" => [req EXCEPT !["deny"] = given][t] = req[t]
        BY <1>1, <3>1, <3>2, SlotQuiet DEF given
    <3> QED
        BY <3>1, <3>3, <3>4, SlotNames
  <2> QED
    BY <2>1, <2>2
<1>6. /\ phone' \in [stage : PhoneStage, review : 0..Challenges] /\ phone'.review = phone.review
      /\ phone'.stage \in {"denied", "review"}
    BY <1>1, <1>2 DEF ScannerTypes, PhoneStage
<1>7. ScannerTypes' /\ DoneMeansApproved'
    BY <1>1, <1>2, <1>3, <1>5, <1>6 DEF ScannerTypes, DoneMeansApproved, Free
<1> QED
    BY <1>2, <1>4, <1>5, <1>7, ScannerAlone

-----------------------------------------------------------------------------
(* Every step keeps the invariant. *)
LEMMA InvStep ==
    ASSUME Types, Polls, Trusted, [Next]_vars
    PROVE  Types' /\ Polls' /\ Trusted'
<1>1. CASE UNCHANGED vars
  <2>1. UNCHANGED <<row, past, sessions, approved, req, panel, creating, redone, lost, phone,
                    crossed, extras>>
    BY <1>1 DEF vars, server, target, scanner
  <2>2. Types'
    BY <2>1 DEF Types, Slots, ServerTypes, TargetTypes, ScannerTypes, Free
  <2> QED
    BY <2>1, <2>2 DEF Polls, Trusted, DoneMeansApproved, Free
<1>2. CASE \E s \in Slot : Read(s) \/ Write(s) \/ Lose(s)
    BY <1>2, ReadStep, WriteStep, LoseStep
<1>3. CASE \E c \in Challenge : Elapse(c)
    BY <1>3, ElapseStep
<1>4. CASE \E s \in Poll : StartPoll(s) \/ PollAnswered(s) \/ Exchanged(s)
    BY <1>4, StartPollStep, ExchangeSent, PollEnds
<1> QED
    BY <1>1, <1>2, <1>3, <1>4, CreatedStep, PanelStep, ScanStep, DecideStep, OverStep,
       ReconciledStep, LookStep, DenyStep DEF Next

(* The invariant that the theorems below rest on. *)
LEMMA Invariant == Spec => [](Types /\ Polls /\ Trusted)
<1>1. Types /\ Polls /\ Trusted /\ [Next]_vars => (Types /\ Polls /\ Trusted)'
    BY InvStep
<1> QED
    BY InvInit, <1>1, PTL DEF Spec

-----------------------------------------------------------------------------
(* Refusals.  Nothing locks the row between the refusal's read and its write, *)
(* so that the write stands only as long as no approval was on its way too.   *)

Writing(s, c) == req[s].at = "writing" /\ req[s].of = c

\* No session was issued for c, and none is about to be.
NoSession(c) ==
    /\ sessions[c] = 0
    /\ \A s \in Slot : Writing(s, c) => req[s].value # "consumed"

\* A code out of use for good: no handler will find it approved.
Out(c) ==
    /\ row[c] \in {"denied", "expired"}
    /\ NoSession(c)
    /\ \A s \in Slot : Writing(s, c) => req[s].value # "approved"

\* The refusal of c is decided, not written.
Refusing(c) == Writing("deny", c) /\ req["deny"].value = "denied"

BothAsked(c) ==
    \A s \in {"approve", "deny"} : Pending(s) /\ req[s].of = c

\* The server or an answer under way says that c was refused, or did so once.
Told(c) ==
    \/ row[c] = "denied"
    \/ c \in told
    \/ req["inspect"].at = "answered" /\ req["inspect"].value = "denied" /\ req["inspect"].of = c
    \/ req["deny"].at = "answered" /\ req["deny"].value = "ok" /\ req["deny"].of = c

Fresh(c) == row[c] \in {"none", "pending"} => NoSession(c)

Refused(c) ==
    c \notin crossed =>
        /\ ~BothAsked(c)
        /\ Refusing(c) => row[c] \in {"pending", "expired"} /\ NoSession(c)
        /\ Told(c) => Out(c)

Refusals == \A c \in Challenge : Fresh(c) /\ Refused(c)

\* A slot in which a step starts no write and gives no answer.
Mute(s) == req'[s].at \in {"writing", "answered"} =>
              req'[s].at = req[s].at /\ req'[s].of = req[s].of /\ req'[s].value = req[s].value

LEMMA RefusalsInit == Init => Refusals
<1> SUFFICES ASSUME Init, NEW c \in Challenge PROVE Fresh(c) /\ Refused(c)
    BY DEF Refusals
<1>1. \A s \in Slot : req[s].at = "idle"
    BY IdleIsIdle DEF Init
<1>2. /\ row[c] = "none" /\ sessions[c] = 0 /\ told = {}
      /\ \A s \in Slot : ~Writing(s, c) /\ ~Pending(s)
    BY <1>1 DEF Init, Writing, Pending
<1> QED
    BY <1>1, <1>2, SlotNames DEF Fresh, Refused, NoSession, BothAsked, Refusing, Told

(* A step of the two pages. *)
LEMMA MuteStep ==
    ASSUME Slots, Refusals, UNCHANGED sessions, \A s \in Slot : Mute(s),
           \A c \in Challenge : row'[c] = row[c] \/ (row[c] = "none" /\ row'[c] = "pending"),
           \A c \in Challenge : c \in crossed => c \in crossed',
           \A c \in Challenge : c \notin crossed' /\ BothAsked(c)' => BothAsked(c),
           \A c \in Challenge : c \in told' => Told(c)
    PROVE  Refusals'
<1> SUFFICES ASSUME NEW c \in Challenge PROVE Fresh(c)' /\ Refused(c)'
    BY DEF Refusals
<1>1. Fresh(c) /\ Refused(c)
    BY DEF Refusals
<1>2. \A s \in Slot : Writing(s, c)' => Writing(s, c) /\ req'[s].value = req[s].value
    BY DEF Mute, Writing
<1>3. NoSession(c) => NoSession(c)'
    BY <1>2 DEF NoSession
<1>4. Out(c) => Out(c)'
    BY <1>2, <1>3 DEF Out
<1>5. Told(c)' => Told(c)
    BY SlotNames DEF Told, Mute
<1>6. Refusing(c)' => Refusing(c)
    BY <1>2, SlotNames DEF Refusing
<1>7. Fresh(c)'
    BY <1>1, <1>3 DEF Fresh
<1>8. Refused(c)'
    BY <1>1, <1>3, <1>4, <1>5, <1>6 DEF Refused
<1> QED
    BY <1>7, <1>8

(* What a handler writes depends on the row it has read. *)
LEMMA OutcomeWrites ==
    ASSUME NEW op, NEW c \in Challenge, Outcome(op, c).at = "writing"
    PROVE  /\ Outcome(op, c).value \in {"approved", "denied"} => row[c] = "pending"
           /\ Outcome(op, c).value = "consumed" => row[c] = "approved"
<1>1. CASE MustExpire(c)
    BY <1>1 DEF Outcome
<1>2. CASE ~MustExpire(c) /\ op = "approve"
    BY <1>2 DEF Outcome, ApproveOutcome
<1>3. CASE ~MustExpire(c) /\ op = "deny"
    BY <1>3 DEF Outcome, DenyOutcome
<1>4. CASE ~MustExpire(c) /\ op = "exchange"
    BY <1>4 DEF Outcome, ExchangeOutcome
<1>5. CASE ~MustExpire(c) /\ op \notin {"approve", "deny", "exchange"}
    BY <1>5 DEF Outcome
<1> QED
    BY <1>1, <1>2, <1>3, <1>4, <1>5

LEMMA ReadRefusals ==
    ASSUME Types, Refusals, NEW s \in Slot, Read(s)
    PROVE  Refusals'
<1>1. /\ Slots /\ row \in [Challenge -> Status \cup {"none"}]
      /\ req[s].at = "sent" /\ ~Free(s) /\ req[s].of \in Challenge /\ row[req[s].of] # "none"
      /\ req[s].op \in Ops(s)
    BY DEF Types, ServerTypes, Slots, Fits, Read, Free
<1> DEFINE o == Outcome(req[s].op, req[s].of)
<1>2. /\ o.at \in {"writing", "answered"}
      /\ o.at = "writing" => /\ o.value \in {"approved", "denied"} => row[req[s].of] = "pending"
                             /\ o.value = "consumed" => row[req[s].of] = "approved"
      /\ o.at = "answered" => \/ o.value = "failed"
                              \/ req[s].op = "approve" /\ o.value = "ok"
                              \/ req[s].op \notin {"approve", "deny", "exchange"} /\ o.value = row[req[s].of]
    BY <1>1, OutcomeValue, OutcomeWrites
<1>3. /\ UNCHANGED <<row, sessions, told, crossed>>
      /\ req' = IF o.at = "writing"
                THEN [req EXCEPT ![s].at = "writing", ![s].value = o.value]
                ELSE Reply(s, o.value)
    BY DEF Read, server, scanner
<1> HIDE DEF o
<1>4. /\ \A t \in Slot : t # s => req'[t] = req[t]
      /\ \/ o.at = "writing" /\ req'[s].at = "writing" /\ req'[s].value = o.value /\ req'[s].of = req[s].of
         \/ o.at = "answered" /\ req'[s].at = "answered" /\ req'[s].value = o.value /\ req'[s].of = req[s].of
         \/ req'[s].at = "idle"
    BY <1>1, <1>2, <1>3, IdleIsIdle DEF Slots, Requests, Reply
<1> SUFFICES ASSUME NEW c \in Challenge PROVE Fresh(c)' /\ Refused(c)'
    BY DEF Refusals
<1>5. Fresh(c) /\ Refused(c)
    BY DEF Refusals
<1>6. \A t \in Slot : Writing(t, c)' =>
        \/ Writing(t, c) /\ req'[t].value = req[t].value
        \/ /\ t = s /\ req[s].of = c
           /\ req'[t].value \in {"approved", "denied"} => row[c] = "pending"
           /\ req'[t].value = "consumed" => row[c] = "approved"
    BY <1>2, <1>4 DEF Writing
<1>7. row[c] # "approved" /\ NoSession(c) => NoSession(c)'
    BY <1>3, <1>6 DEF NoSession
<1>8. Out(c) => Out(c)'
    BY <1>3, <1>6, <1>7 DEF Out
<1>9. BothAsked(c)' => BothAsked(c)
    BY <1>1, <1>4, SlotNames DEF BothAsked, Pending
<1>10. Refusing(c)' => Refusing(c) \/ row[c] = "pending"
    BY <1>6, SlotNames DEF Refusing
<1>11. Told(c)' => Told(c)
  <2>1. /\ s = "inspect" => req[s].op = "inspect"
        /\ s = "deny" => req[s].op = "deny"
    BY <1>1, SlotNames DEF Ops
  <2>2. s = "inspect" /\ req'[s].at = "answered" /\ req'[s].value = "denied" /\ req'[s].of = c
           => row[c] = "denied"
    BY <1>2, <1>4, <2>1
  <2>3. ~(s = "deny" /\ req'[s].at = "answered" /\ req'[s].value = "ok")
    BY <1>1, <1>2, <1>4, <2>1 DEF ServerTypes, Status
  <2> QED
    BY <1>3, <1>4, <2>2, <2>3, SlotNames DEF Told
<1>12. Fresh(c)'
    BY <1>3, <1>5, <1>7 DEF Fresh
<1>13. Refused(c)'
    BY <1>3, <1>5, <1>7, <1>8, <1>9, <1>10, <1>11 DEF Refused, Fresh
<1> QED
    BY <1>12, <1>13

LEMMA WriteRefusals ==
    ASSUME Types, Refusals, NEW s \in Slot, Write(s)
    PROVE  Refusals'
<1>1. /\ Slots /\ row \in [Challenge -> Status \cup {"none"}] /\ sessions \in [Challenge -> Nat]
      /\ req[s].at = "writing" /\ ~Free(s) /\ req[s].of \in Challenge
      /\ req[s].op \in Ops(s) /\ req[s].value \in Writes(req[s].op)
    BY DEF Types, ServerTypes, Slots, Fits, Write, Free
<1> DEFINE d == req[s].of
           v == req[s].value
<1>2. /\ v \in {"approved", "denied", "consumed", "expired"}
      /\ v = "approved" => s = "approve"
      /\ v = "denied" => s = "deny"
      /\ s = "approve" => v \in {"approved", "expired"}
      /\ s = "inspect" => v = "expired"
      /\ s = "deny" => req[s].op = "deny" /\ v \in {"denied", "expired"}
      /\ s = "inspect" => req[s].op = "inspect"
    BY <1>1, SlotNames DEF Ops, Writes
<1>3. /\ row' = [row EXCEPT ![d] = v]
      /\ sessions' = IF v = "consumed" THEN [sessions EXCEPT ![d] = @ + 1] ELSE sessions
      /\ req' = Reply(s, Answer(req[s].op, v))
      /\ UNCHANGED <<told, crossed>>
    BY DEF Write, scanner
<1>4. /\ \A t \in Slot : t # s => req'[t] = req[t]
      /\ \/ req'[s].at = "answered" /\ req'[s].of = d /\ req'[s].value = Answer(req[s].op, v)
         \/ req'[s].at = "idle"
    BY <1>1, <1>3, IdleIsIdle DEF Slots, Requests, Reply
<1>5. /\ s = "inspect" => Answer(req[s].op, v) = "expired"
      /\ s = "deny" /\ Answer(req[s].op, v) = "ok" => v # "expired"
    BY <1>2 DEF Answer
<1> SUFFICES ASSUME NEW c \in Challenge PROVE Fresh(c)' /\ Refused(c)'
    BY DEF Refusals
<1> HIDE DEF d, v
<1>6. Fresh(c) /\ Refused(c)
    BY DEF Refusals
<1>7. \A t \in Slot : Writing(t, c)' => t # s /\ Writing(t, c) /\ req'[t].value = req[t].value
    BY <1>4 DEF Writing
<1>8. BothAsked(c)' => BothAsked(c) /\ s \notin {"approve", "deny"}
    BY <1>4, SlotNames DEF BothAsked, Pending
<1>9. Refusing(c)' => Refusing(c) /\ s # "deny"
    BY <1>7, SlotNames DEF Refusing
<1>10. CASE c # d
  <2>1. row'[c] = row[c] /\ sessions'[c] = sessions[c]
    BY <1>1, <1>3, <1>10
  <2>2. Told(c)' => Told(c)
    BY <1>3, <1>4, <1>10, <2>1, SlotNames DEF Told
  <2>3. NoSession(c) => NoSession(c)'
    BY <1>7, <2>1 DEF NoSession
  <2>4. Out(c) => Out(c)'
    BY <1>7, <2>1, <2>3 DEF Out
  <2>5. Fresh(c)'
    BY <1>6, <2>1, <2>3 DEF Fresh
  <2>6. Refused(c)'
    BY <1>3, <1>6, <1>8, <1>9, <2>1, <2>2, <2>3, <2>4 DEF Refused
  <2> QED
    BY <2>5, <2>6
<1>11. CASE c = d
  <2>1. row'[c] = v /\ Writing(s, c)
    BY <1>1, <1>3, <1>11 DEF Writing, d
  <2>2. NoSession(c) => v # "consumed"
    BY <2>1 DEF NoSession, v
  <2>3. NoSession(c) => NoSession(c)'
    BY <1>3, <1>7, <2>2 DEF NoSession
  <2>4. Fresh(c)'
    BY <1>2, <2>1 DEF Fresh
  <2>5. Out(c) => Out(c)'
    <3>1. Out(c) => v \in {"denied", "expired"}
      BY <1>2, <2>1, <2>2 DEF Out, v
    <3> QED
      BY <1>7, <2>1, <2>3, <3>1 DEF Out
  <2>6. ASSUME c \notin crossed PROVE Refusing(c)' => row'[c] \in {"pending", "expired"} /\ NoSession(c)'
    <3> SUFFICES ASSUME Refusing(c)' PROVE row'[c] \in {"pending", "expired"} /\ NoSession(c)'
      OBVIOUS
    <3>1. Refusing(c) /\ s # "deny" /\ NoSession(c) /\ ~BothAsked(c)
      BY <1>6, <1>9, <2>6 DEF Refused
    <3>2. s # "approve"
      BY <2>1, <3>1 DEF BothAsked, Pending, Refusing, Writing
    <3> QED
      BY <1>2, <2>1, <2>2, <2>3, <3>1, <3>2
  <2>7. ASSUME c \notin crossed PROVE Told(c)' => Out(c)'
    <3>1. CASE Told(c)
      BY <1>6, <2>5, <2>7, <3>1 DEF Refused
    <3>2. CASE v = "denied"
      <4>1. Refusing(c) /\ s = "deny"
        BY <1>2, <2>1, <3>2 DEF Refusing, v
      <4>2. NoSession(c) /\ ~BothAsked(c)
        BY <1>6, <2>7, <4>1 DEF Refused
      <4>3. \A t \in Slot : Writing(t, c)' => req'[t].value # "approved"
        <5> SUFFICES ASSUME NEW t \in Slot, Writing(t, c)', req'[t].value = "approved" PROVE FALSE
          OBVIOUS
        <5>1. t = "approve"
          <6>1. Writing(t, c) /\ req[t].value = "approved"
            BY <1>7
          <6>2. req[t].op \in Ops(t) /\ req[t].value \in Writes(req[t].op)
            BY <1>1, <6>1 DEF Slots, Fits, Writing
          <6> QED
            BY <6>1, <6>2, SlotNames DEF Ops, Writes
        <5> QED
          BY <1>7, <4>1, <4>2, <5>1 DEF BothAsked, Pending, Refusing, Writing
      <4> QED
        BY <2>1, <2>3, <3>2, <4>2, <4>3 DEF Out
    <3>3. CASE ~Told(c) /\ v # "denied"
      <4>1. ~Told(c)'
        BY <1>2, <1>3, <1>4, <1>5, <2>1, <3>3, SlotNames DEF Told
      <4> QED
        BY <4>1
    <3> QED
      BY <3>1, <3>2, <3>3
  <2>8. Refused(c)'
    BY <1>3, <1>6, <1>8, <2>6, <2>7 DEF Refused
  <2> QED
    BY <2>4, <2>8
<1> QED
    BY <1>10, <1>11

(* A request lost. *)
LEMMA LoseRefusals ==
    ASSUME Types, Refusals, NEW s \in Slot, Lose(s)
    PROVE  Refusals'
<1>1. /\ Slots /\ req[s].at \in {"sent", "answered"}
      /\ req' = Reply(s, "failed")
      /\ UNCHANGED <<row, sessions, told, crossed>>
    BY DEF Types, Lose, server, scanner
<1>2. /\ \A t \in Slot : t # s => req'[t] = req[t]
      /\ \/ req'[s].at = "answered" /\ req'[s].value = "failed" /\ req'[s].of = req[s].of
         \/ req'[s].at = "idle"
    BY <1>1, IdleIsIdle DEF Slots, Requests, Reply
<1> SUFFICES ASSUME NEW c \in Challenge PROVE Fresh(c)' /\ Refused(c)'
    BY DEF Refusals
<1>3. Fresh(c) /\ Refused(c)
    BY DEF Refusals
<1>4. \A t \in Slot : Writing(t, c)' => Writing(t, c) /\ req'[t].value = req[t].value
    BY <1>2 DEF Writing
<1>5. NoSession(c) => NoSession(c)'
    BY <1>1, <1>4 DEF NoSession
<1>6. Out(c) => Out(c)'
    BY <1>1, <1>4, <1>5 DEF Out
<1>7. BothAsked(c)' => BothAsked(c)
    BY <1>2, SlotNames DEF BothAsked, Pending
<1>8. Refusing(c)' => Refusing(c)
    BY <1>4, SlotNames DEF Refusing
<1>9. Told(c)' => Told(c)
    BY <1>1, <1>2, SlotNames DEF Told
<1>10. Fresh(c)'
    BY <1>1, <1>3, <1>5 DEF Fresh
<1>11. Refused(c)'
    BY <1>1, <1>3, <1>5, <1>6, <1>7, <1>8, <1>9 DEF Refused
<1> QED
    BY <1>10, <1>11


(* A step of the panel, or of the clock. *)
LEMMA PanelRefusals ==
    ASSUME Types, Refusals,
           \/ \E c \in Challenge : Elapse(c)
           \/ Created \/ CreateFailed \/ Refresh \/ Back \/ Countdown \/ Rerender
           \/ \E s \in Poll : StartPoll(s) \/ PollAnswered(s) \/ Exchanged(s)
    PROVE  Refusals'
<1>1. Slots /\ row \in [Challenge -> Status \cup {"none"}]
    BY DEF Types, ServerTypes
<1>2. UNCHANGED <<sessions, told, crossed>>
    BY DEF Elapse, Created, CreateFailed, Refresh, Back, Countdown, Rerender, StartPoll, PollAnswered,
       Exchanged, server, scanner
<1>3. \A c \in Challenge : row'[c] = row[c] \/ (row[c] = "none" /\ row'[c] = "pending")
  <2>1. CASE Created
    BY <1>1, <2>1 DEF Created
  <2>2. CASE ~Created
    BY <2>2 DEF Elapse, CreateFailed, Refresh, Back, Countdown, Rerender, StartPoll, PollAnswered,
       Exchanged, server
  <2> QED
    BY <2>1, <2>2
<1>4. /\ \A s \in Slot \ Poll : req'[s] = req[s]
      /\ \A s \in Poll : req'[s] = req[s] \/ req'[s].at \in {"idle", "sent"}
  <2>1. CASE \E s \in Poll : StartPoll(s) \/ PollAnswered(s) \/ Exchanged(s)
    <3>1. PICK s \in Poll : \E r : r.at \in {"idle", "sent"} /\ req' = [req EXCEPT ![s] = r]
      <4>1. \A op, c : Request(op, c).at \in {"idle", "sent"}
        BY DEF Request
      <4>2. Idle.at \in {"idle", "sent"}
        BY IdleIsIdle
      <4>3. PICK s \in Poll : StartPoll(s) \/ PollAnswered(s) \/ Exchanged(s)
        BY <2>1
      <4>4. \/ req' = [req EXCEPT ![s] = Idle]
            \/ req' = [req EXCEPT ![s] = Request("status", panel.shown)]
            \/ req' = [req EXCEPT ![s] = Request("exchange", req[s].of)]
        BY <4>3 DEF StartPoll, PollAnswered, Exchanged, Send
      <4> QED
        BY <4>1, <4>2, <4>4
    <3> QED
      BY <1>1, <3>1 DEF Slots
  <2>2. CASE ~\E s \in Poll : StartPoll(s) \/ PollAnswered(s) \/ Exchanged(s)
    BY <2>2 DEF Elapse, Created, CreateFailed, Refresh, Back, Countdown, Rerender
  <2> QED
    BY <2>1, <2>2
<1>5. \A s \in Slot : Mute(s)
    BY <1>4 DEF Mute
<1>6. \A c \in Challenge : BothAsked(c)' => BothAsked(c)
    BY <1>4, SlotNames DEF BothAsked, Pending
<1>7. \A c \in Challenge : c \in told' => Told(c)
    BY <1>2 DEF Told
<1> QED
    BY <1>1, <1>2, <1>3, <1>5, <1>6, <1>7, MuteStep

\* What the scanner makes of a slot of its own, short of sending from it.
Dropped(s) == req'[s] \in {req[s], Idle, Abandoned(req[s])}

LEMMA DroppedSlot ==
    ASSUME Slots, NEW s \in Slot, s \notin Poll, Dropped(s)
    PROVE  Mute(s) /\ (req'[s].at \in {"sent", "writing"} => Pending(s) /\ req'[s].of = req[s].of)
<1>1. Fits(row, s, req[s])
    BY DEF Slots
<1>2. Abandoned(req[s]).at # "answered" /\ (Abandoned(req[s]).at # "idle" =>
        /\ Abandoned(req[s]).at = req[s].at /\ Abandoned(req[s]).of = req[s].of
        /\ Abandoned(req[s]).value = req[s].value)
    BY <1>1, FitsAbandoned
<1>3. CASE req'[s] = req[s]
    BY <1>3 DEF Mute, Pending
<1>4. CASE req'[s] = Idle
    BY <1>4, IdleIsIdle DEF Mute
<1>5. CASE req'[s] = Abandoned(req[s])
    BY <1>2, <1>5 DEF Mute, Pending
<1> QED
    BY <1>3, <1>4, <1>5 DEF Dropped

(* A step of the scanner that sends no decision. *)
LEMMA ScannerRefusals ==
    ASSUME Types, Refusals, UNCHANGED <<server, crossed>>,
           \A s \in Poll : req'[s] = req[s],
           \A s \in {"approve", "deny"} : Dropped(s),
           Dropped("inspect") \/ req'["inspect"].at = "sent",
           \A c \in Challenge : c \in told' => Told(c)
    PROVE  Refusals'
<1>1. Slots /\ UNCHANGED <<row, sessions>>
    BY DEF Types, server
<1>2. \A s \in Slot : Mute(s)
    BY <1>1, SlotNames, DroppedSlot DEF Mute
<1>3. \A s \in {"approve", "deny"} : Pending(s)' => Pending(s) /\ req'[s].of = req[s].of
    BY <1>1, SlotNames, DroppedSlot DEF Pending
<1>4. \A c \in Challenge : BothAsked(c)' => BothAsked(c)
    BY <1>3 DEF BothAsked
<1> QED
    BY <1>1, <1>2, <1>4, MuteStep

(* ++requestVersion, and the slot that is written after it. *)
LEMMA OutdatedDrops ==
    ASSUME Slots, NEW s \in {"inspect", "approve", "deny"}, NEW r,
           req' = Outdated \/ req' = [Outdated EXCEPT ![s] = r]
    PROVE  /\ \A t \in Poll : req'[t] = req[t]
           /\ \A t \in {"inspect", "approve", "deny"} : t # s => Dropped(t)
           /\ req' = Outdated => Dropped(s)
           /\ req' = [Outdated EXCEPT ![s] = r] => req'[s] = r
<1>1. /\ Outdated \in [Slot -> Requests] /\ Outdated["inspect"] = Idle
      /\ Outdated["approve"] = Abandoned(req["approve"])
      /\ Outdated["deny"] = Abandoned(req["deny"])
      /\ \A t \in Poll : Outdated[t] = req[t]
    BY OutdatedFits
<1>2. \A t \in Slot : t # s \/ req' = Outdated => req'[t] = Outdated[t]
    BY <1>1
<1>3. req' = [Outdated EXCEPT ![s] = r] => req'[s] = r
    BY <1>1, SlotNames
<1> QED
    BY <1>1, <1>2, <1>3, SlotNames DEF Dropped

(* A decision is sent: crossed remembers the other one. *)
LEMMA DecideRefusals ==
    ASSUME Types, Refusals, Approve \/ Deny
    PROVE  Refusals'
<1>1. /\ Slots /\ UNCHANGED <<row, sessions>>
      /\ phone \in [stage : PhoneStage, review : 0..Challenges]
    BY DEF Types, ScannerTypes, Approve, Deny, server
<1>2. PICK s \in {"approve", "deny"}, other \in {"approve", "deny"} :
        /\ s # other /\ Call(s, s, phone.review) /\ Crosses(other)
        /\ \E stage \in {"approving", "denying"} : phone' = [phone EXCEPT !.stage = stage]
  <2>1. CASE Approve
    BY <2>1 DEF Approve, Stage
  <2>2. CASE Deny
    BY <2>2 DEF Deny, Stage
  <2> QED
    BY <2>1, <2>2
<1>3. told' = told
    BY <1>2 DEF Crosses
<1>4. Request(s, phone.review).at = "sent" /\ Request(s, phone.review).of = phone.review
    BY DEF Request
<1>5. req' = [Outdated EXCEPT ![s] = Request(s, phone.review)]
    BY <1>2 DEF Call
<1>6. /\ \A t \in Poll : req'[t] = req[t]
      /\ \A t \in {"inspect", "approve", "deny"} : t # s => Dropped(t)
      /\ req'[s].at = "sent" /\ req'[s].of = phone.review
    BY <1>1, <1>2, <1>4, <1>5, OutdatedDrops
<1>7. \A t \in Slot : Mute(t)
    BY <1>1, <1>6, SlotNames, DroppedSlot DEF Mute
<1>8. ASSUME NEW c \in Challenge, c \notin crossed', BothAsked(c)' PROVE FALSE
  <2>1. c = phone.review /\ Pending(other)' /\ req'[other].of = c
    BY <1>2, <1>6, <1>8 DEF BothAsked
  <2>2. Pending(other) /\ req[other].of = c
    BY <1>1, <1>2, <1>6, <2>1, SlotNames, DroppedSlot DEF Pending
  <2> QED
    BY <1>2, <1>8, <2>1, <2>2 DEF Crosses
<1>9. \A c \in Challenge : c \in crossed => c \in crossed'
    BY <1>2 DEF Crosses
<1>10. \A c \in Challenge : c \in told' => Told(c)
    BY <1>3 DEF Told
<1> QED
    BY <1>1, <1>7, <1>8, <1>9, <1>10, MuteStep

(* What the scanner shows of a refusal, it was told. *)
LEMMA PhoneRefusals ==
    ASSUME Types, Refusals,
           \/ Scan \/ Inspected \/ ApproveAccepted \/ ApproveInDoubt \/ Reconcile \/ Completed \/ Undecided
           \/ DenyAccepted \/ DenyInDoubt \/ ReviewElapsed \/ ScanAgain \/ LeaveScanner
    PROVE  Refusals'
<1>1. /\ Slots /\ ScannerTypes /\ phone \in [stage : PhoneStage, review : 0..Challenges]
      /\ req \in [Slot -> Requests]
    BY DEF Types, ScannerTypes, Slots
<1>2. UNCHANGED <<server, crossed>>
    BY DEF Scan, Inspected, ApproveAccepted, ApproveInDoubt, Reconcile, Completed, Undecided,
       DenyAccepted, DenyInDoubt, ReviewElapsed, ScanAgain, LeaveScanner, scanner
<1>3. \A op, c : Request(op, c).at = "sent"
    BY DEF Request
<1>4. /\ \A s \in Poll : req'[s] = req[s]
      /\ \A s \in {"approve", "deny"} : Dropped(s)
      /\ Dropped("inspect") \/ req'["inspect"].at = "sent"
  <2>1. CASE req' = Outdated
    BY <1>1, <2>1, OutdatedDrops, SlotNames
  <2>2. CASE Scan
    <3>1. req' = [Outdated EXCEPT !["inspect"] = Request("inspect", panel.shown)]
      BY <2>2 DEF Scan, Call
    <3>2. PICK r : r = Request("inspect", panel.shown) /\ r.at = "sent"
      BY <1>3
    <3>3. req' = [Outdated EXCEPT !["inspect"] = r]
      BY <3>1, <3>2
    <3>4. /\ \A t \in Poll : req'[t] = req[t]
          /\ \A t \in {"approve", "deny"} : Dropped(t)
          /\ req'["inspect"] = r
      BY <1>1, <3>3, OutdatedDrops
    <3> QED
      BY <3>2, <3>4
  <2>3. CASE ApproveAccepted
    BY <1>1, <2>3, OutdatedDrops DEF ApproveAccepted, Dropped
  <2>4. CASE \E s \in {"inspect", "deny"} : \E r \in {Idle, Abandoned(req[s])} : req' = [req EXCEPT ![s] = r]
    BY <1>1, <2>4, SlotNames DEF Dropped
  <2>5. CASE ApproveInDoubt \/ Reconcile
    BY <1>1, <1>3, <2>5, SlotNames DEF ApproveInDoubt, Reconcile, Send, Dropped
  <2> QED
    BY <2>1, <2>2, <2>3, <2>4, <2>5 DEF Inspected, Completed, Undecided, DenyAccepted, DenyInDoubt,
       ReviewElapsed, ScanAgain, LeaveScanner
<1>5. ASSUME NEW c \in Challenge, c \in told' PROVE Told(c)
  <2>1. CASE c \in told
    BY <2>1 DEF Told
  <2>2. CASE c \notin told /\ Inspected
    BY <1>5, <2>2 DEF Inspected, Hears, Mine, Told
  <2>3. CASE c \notin told /\ Completed
    BY <1>5, <2>3 DEF Completed, Hears, Mine, Told
  <2>4. CASE c \notin told /\ DenyAccepted
    BY <1>5, <2>4 DEF DenyAccepted, Hears, Mine, Told
  <2>5. CASE ~(Inspected \/ Completed \/ DenyAccepted)
    <3>1. told' = told
      BY <2>5 DEF Scan, ApproveAccepted, ApproveInDoubt, Reconcile, Undecided, DenyInDoubt,
         ReviewElapsed, ScanAgain, LeaveScanner, scanner
    <3> QED
      BY <1>5, <3>1 DEF Told
  <2> QED
    BY <2>1, <2>2, <2>3, <2>4, <2>5
<1> QED
    BY <1>2, <1>4, <1>5, ScannerRefusals

LEMMA RefusalsStep == Types /\ Refusals /\ [Next]_vars => Refusals'
<1> SUFFICES ASSUME Types, Refusals, [Next]_vars PROVE Refusals'
    OBVIOUS
<1>1. CASE UNCHANGED vars
  <2>1. UNCHANGED <<server, crossed, told, req>>
    BY <1>1 DEF vars, scanner
  <2>2. \A c \in Challenge : c \in told' => Told(c)
    BY <2>1 DEF Told
  <2> QED
    BY <2>1, <2>2, ScannerRefusals DEF Dropped
<1>2. CASE \E s \in Slot : Read(s) \/ Write(s) \/ Lose(s)
    BY <1>2, ReadRefusals, WriteRefusals, LoseRefusals
<1> QED
    BY <1>1, <1>2, PanelRefusals, DecideRefusals, PhoneRefusals DEF Next

(* The codes a scanner was told of exist. *)
LEMMA ToldStep ==
    ASSUME Types, told \subseteq Challenge, [Next]_vars
    PROVE  told' \subseteq Challenge
<1>1. \A s \in PhoneCall : Mine(s) => req[s].of \in Challenge
    BY SlotNames DEF Mine, PhoneCall, Types, Slots, Fits
<1>2. CASE Inspected \/ Completed \/ DenyAccepted
    BY <1>1, <1>2 DEF Inspected, Completed, DenyAccepted, Hears, PhoneCall
<1>3. CASE ~(Inspected \/ Completed \/ DenyAccepted)
  <2>1. told' = told
      BY <1>3 DEF Next, vars, scanner, Read, Write, Lose, Elapse, Created, CreateFailed, Refresh, Back,
         Countdown, Rerender, StartPoll, PollAnswered, Exchanged, Scan, Approve, Deny, Crosses,
         ApproveAccepted, ApproveInDoubt, Reconcile, Undecided, DenyInDoubt, ReviewElapsed,
         ScanAgain, LeaveScanner
  <2> QED
      BY <2>1
<1> QED
    BY <1>2, <1>3

LEMMA ToldTyped == Spec => [](told \subseteq Challenge)
<1>1. Init => told \subseteq Challenge
    BY DEF Init
<1>2. Types /\ told \subseteq Challenge /\ [Next]_vars => (told \subseteq Challenge)'
    BY ToldStep
<1> QED
    BY Invariant, <1>1, <1>2, PTL DEF Spec

-----------------------------------------------------------------------------
(* Every variable keeps its type: the slots of the requests hold what the three *)
(* handlers and the two pages put there, whatever is lost, late or repeated.    *)
THEOREM TypeSafety == Spec => []TypeOK
<1>1. Types /\ told \subseteq Challenge => TypeOK
  <2> SUFFICES ASSUME Types, told \subseteq Challenge PROVE TypeOK
    OBVIOUS
  <2>1. \A s \in Slot :
            /\ req[s].of \in 0..Challenges
            /\ req[s].op \in {"none", "inspect", "approve", "deny", "status", "exchange"}
            /\ req[s].at \in {"idle", "sent", "writing", "answered"}
            /\ req[s].value \in Status \cup {"none", "ok", "failed"}
            /\ req[s].current \in BOOLEAN
    <3> SUFFICES ASSUME NEW s \in Slot, req[s] \in Requests
                 PROVE  /\ req[s].of \in 0..Challenges
                        /\ req[s].op \in {"none", "inspect", "approve", "deny", "status",
                                          "exchange"}
                        /\ req[s].at \in {"idle", "sent", "writing", "answered"}
                        /\ req[s].value \in Status \cup {"none", "ok", "failed"}
                        /\ req[s].current \in BOOLEAN
        BY DEF Types, Slots
    <3> QED
        BY DEF Requests, Value
  <2> QED
    BY <2>1 DEF Types, ServerTypes, TargetTypes, ScannerTypes, TypeOK, PanelState, PhoneStage
<1> QED
    BY Invariant, ToldTyped, <1>1, PTL

(* A code gives at most one session as long as the web page did not render in   *)
(* the middle of a poll: the panel polls one call at a time, and the server's   *)
(* unlocked exchange (qr_login_service.py) is never asked twice at once.        *)
THEOREM SessionSafety == Spec => []OneSession
<1>1. Polls => OneSession
    BY DEF Polls, OneSession
<1> QED
    BY Invariant, <1>1, PTL

(* The scanner closes as after an approval only on a code the server approved,  *)
(* whichever of the approval's own answer and its reconciliations comes first.  *)
THEOREM ScannerSafety == Spec => []DoneMeansApproved
<1>1. Trusted => DoneMeansApproved
    BY DEF Trusted
<1> QED
    BY Invariant, <1>1, PTL

(* A code whose refusal the server has told the scanner, in answer to its own     *)
(* refusal, to a reconciliation or to a scan, has no session, then or later,      *)
(* whatever the server's handlers, which lock no row, were doing at once; the     *)
(* approvals the page gave up on excepted.  Nothing is said of a code scanned     *)
(* after its approval, for which the scanner shows the same words.                *)
THEOREM RefusalSafety == Spec => []DeniedStaysOut
<1>1. told \subseteq Challenge /\ Refusals => DeniedStaysOut
  <2> SUFFICES ASSUME told \subseteq Challenge, Refusals, NEW c \in told \ crossed
               PROVE  sessions[c] = 0
      BY DEF DeniedStaysOut
  <2>1. Refused(c) /\ Told(c)
      BY DEF Refusals, Told
  <2> QED
      BY <2>1 DEF Refused, Out, NoSession
<1> QED
    BY Invariant, ToldTyped, RefusalsInit, RefusalsStep, <1>1, PTL DEF Spec
=============================================================================
