------------------------------- MODULE QrLogin -------------------------------
(***************************************************************************)
(* Signing in with a code shown on a screen: the panel of the web page and *)
(* of the desktop's login window (QrLoginPanel.tsx), the scanner of a      *)
(* phone that is signed in (QrLoginScanner.tsx), and the challenge they    *)
(* share on the server (qr_login_service.py).                              *)
(*                                                                         *)
(* A request is a slot of req: sent, then read by the handler, which either*)
(* answers or goes on to write what the row it read allows.  Nothing locks *)
(* the row between the two.  A phone has one slot for each kind of call,   *)
(* the panel two for its polls, which an effect that React has replaced    *)
(* leaves running.                                                         *)
(*                                                                         *)
(* All clocks agree on when a challenge is past.  Bounds: Challenges codes;*)
(* MaxExtras for what may happen besides scanning and deciding: a request  *)
(* that fails or takes too long, a code that runs out, a page refreshed,   *)
(* rendered again or left; one phone, one request of each kind under way.  *)
(* An inspection the scanner has given up is forgotten: nobody reads its   *)
(* answer, and an expiry it may write the polls write as well.             *)
(***************************************************************************)
EXTENDS Naturals

CONSTANTS Challenges, MaxExtras

ASSUME BoundsAssumption ==
    /\ Challenges \in Nat \ {0}
    /\ MaxExtras \in Nat

VARIABLES
    row,        \* status of each challenge on the server
    past,       \* challenges that have outlived their time
    sessions,   \* sessions issued for each challenge
    req,        \* requests under way
    panel,      \* state, code shown (0 for none), poll of the current effect, exchangeStarted
    creating,   \* the panel waits for a new challenge
    phone,      \* stage, code under review (0 for none)
    extras,     \* what happened besides, bounded
    approved,   \* history: challenges the server has approved
    crossed,    \* history: challenges with an approval and a refusal under way at once
    told,       \* history: challenges the server has told the scanner are refused
    redone,     \* history: the web page rendered again during a poll
    lost        \* history: an exchange has failed

server == <<row, past, sessions, approved>>
target == <<panel, creating, redone, lost>>
scanner == <<phone, crossed, told>>
vars == <<server, req, target, scanner, extras>>

Challenge == 1..Challenges
PhoneCall == {"inspect", "approve", "deny"}
Poll == {"poll1", "poll2"}
Slot == PhoneCall \cup Poll
Status == {"pending", "approved", "denied", "expired", "consumed"}

TypeOK ==
    /\ row \in [Challenge -> Status \cup {"none"}]
    /\ past \subseteq Challenge
    /\ sessions \in [Challenge -> Nat]
    /\ \A s \in Slot :
        /\ req[s].of \in 0..Challenges
        /\ req[s].op \in {"none", "inspect", "approve", "deny", "status", "exchange"}
        /\ req[s].at \in {"idle", "sent", "writing", "answered"}
        /\ req[s].value \in Status \cup {"none", "ok", "failed"}
        /\ req[s].current \in BOOLEAN
    /\ panel.state \in {"creating", "waiting", "exchanging", "denied", "expired", "error",
                        "closed", "signedIn"}
    /\ panel.shown \in 0..Challenges
    /\ panel.polling \in Poll \cup {"no"}
    /\ panel.started \in BOOLEAN
    /\ creating \in BOOLEAN
    /\ phone.stage \in {"camera", "inspecting", "review", "approving", "denying", "done",
                        "denied", "expired", "error"}
    /\ phone.review \in 0..Challenges
    /\ extras \in 0..MaxExtras
    /\ approved \subseteq Challenge /\ crossed \subseteq Challenge /\ told \subseteq Challenge
    /\ redone \in BOOLEAN /\ lost \in BOOLEAN

Idle == [of |-> 0, op |-> "none", at |-> "idle", value |-> "none", current |-> FALSE]
Request(op, c) == [of |-> c, op |-> op, at |-> "sent", value |-> "none", current |-> TRUE]
Free(s) == req[s].at = "idle"
Send(s, op, c) == req' = [req EXCEPT ![s] = Request(op, c)]

Init ==
    /\ row = [c \in Challenge |-> "none"]
    /\ past = {} /\ sessions = [c \in Challenge |-> 0]
    /\ req = [s \in Slot |-> Idle]
    /\ panel = [state |-> "creating", shown |-> 0, polling |-> "no", started |-> FALSE]
    /\ creating = TRUE
    /\ phone = [stage |-> "camera", review |-> 0]
    /\ extras = 0
    /\ approved = {} /\ crossed = {} /\ told = {} /\ redone = FALSE /\ lost = FALSE

Extra == extras < MaxExtras /\ extras' = extras + 1

---------------------------------------------------------------------------
\* The server

\* What a handler does once it has read the row: write a status, or answer.
MustExpire(c) == row[c] \in {"pending", "approved"} /\ c \in past

ApproveOutcome(c) ==
    CASE row[c] = "pending"  -> [at |-> "writing", value |-> "approved"]
      [] row[c] = "approved" -> [at |-> "answered", value |-> "ok"]
      [] OTHER               -> [at |-> "answered", value |-> "failed"]

\* Mutant: a refusal is accepted whatever the row says, short of a session.
DenyAnything(c) ==
    IF row[c] # "consumed"
    THEN [at |-> "writing", value |-> "denied"]
    ELSE [at |-> "answered", value |-> "failed"]

DenyOutcome(c) ==
    IF row[c] = "pending"
    THEN [at |-> "writing", value |-> "denied"]
    ELSE [at |-> "answered", value |-> "failed"]

ExchangeOutcome(c) ==
    IF row[c] = "approved"
    THEN [at |-> "writing", value |-> "consumed"]
    ELSE [at |-> "answered", value |-> "failed"]

Outcome(op, c) ==
    IF MustExpire(c)
    THEN [at |-> "writing", value |-> "expired"]
    ELSE CASE op = "approve"  -> ApproveOutcome(c)
           [] op = "deny"     -> DenyOutcome(c)
           [] op = "exchange" -> ExchangeOutcome(c)
           [] OTHER           -> [at |-> "answered", value |-> row[c]]

\* An answer nobody waits for is dropped.
Reply(s, value) ==
    [req EXCEPT ![s] = IF @.current THEN [@ EXCEPT !.at = "answered", !.value = value] ELSE Idle]

Read(s) ==
    /\ req[s].at = "sent"
    /\ LET outcome == Outcome(req[s].op, req[s].of)
       IN  req' = IF outcome.at = "writing"
                  THEN [req EXCEPT ![s].at = "writing", ![s].value = outcome.value]
                  ELSE Reply(s, outcome.value)
    /\ UNCHANGED <<server, target, scanner, extras>>

\* The answer that follows the commit: the status for those who ask for it,
\* otherwise whether the call did what it was for.
Answer(op, status) ==
    IF op \in {"inspect", "status"} THEN status
    ELSE IF status = "expired" THEN "failed" ELSE "ok"

Write(s) ==
    /\ req[s].at = "writing"
    /\ LET c == req[s].of
           status == req[s].value
       IN  /\ row' = [row EXCEPT ![c] = status]
           /\ sessions' = IF status = "consumed" THEN [sessions EXCEPT ![c] = @ + 1]
                                                 ELSE sessions
           /\ approved' = IF status = "approved" THEN approved \cup {c} ELSE approved
           /\ req' = Reply(s, Answer(req[s].op, status))
    /\ UNCHANGED <<past, target, scanner, extras>>

\* The rate limit, or the network before or after the handler has run.
Lose(s) ==
    /\ \/ req[s].at = "sent"
       \/ req[s].at = "answered" /\ req[s].value # "failed"
    /\ Extra
    /\ req' = Reply(s, "failed")
    /\ UNCHANGED <<server, target, scanner>>

Elapse(c) ==
    /\ row[c] # "none" /\ c \notin past
    /\ Extra
    /\ past' = past \cup {c}
    /\ UNCHANGED <<row, sessions, approved, req, target, scanner>>

---------------------------------------------------------------------------
\* The panel

Unmounted == panel.state \in {"closed", "signedIn"}

\* setState of a component that may be gone.
Showing(state) == IF Unmounted THEN panel.state ELSE state

Created ==
    /\ creating
    /\ \E c \in Challenge :
        /\ row[c] = "none" /\ \A d \in 1..c - 1 : row[d] # "none"
        /\ row' = [row EXCEPT ![c] = "pending"]
        /\ panel' = [panel EXCEPT !.state = "waiting", !.shown = c, !.polling = "no"]
    /\ creating' = FALSE
    /\ UNCHANGED <<past, sessions, approved, req, redone, lost, scanner, extras>>

CreateFailed ==
    /\ creating
    /\ Extra
    /\ creating' = FALSE
    /\ panel' = [panel EXCEPT !.state = "error"]
    /\ UNCHANGED <<server, req, redone, lost, scanner>>

\* createChallenge(true): the code stays on screen until the next one arrives.
Refresh ==
    /\ panel.state \in {"waiting", "denied", "expired", "error"}
    /\ \E c \in Challenge : row[c] = "none"
    /\ Extra
    /\ panel' = [panel EXCEPT !.state = "creating", !.started = FALSE]
    /\ creating' = TRUE
    /\ UNCHANGED <<server, req, redone, lost, scanner>>

Back ==
    /\ ~Unmounted
    /\ Extra
    /\ panel' = [panel EXCEPT !.state = "closed", !.shown = 0]
    /\ creating' = FALSE
    /\ UNCHANGED <<server, req, redone, lost, scanner>>

Countdown ==
    /\ panel.state = "waiting" /\ panel.shown \in past
    /\ panel' = [panel EXCEPT !.state = "expired"]
    /\ UNCHANGED <<server, req, creating, redone, lost, scanner, extras>>

\* Mutant: a tick of the interval does not look at the poll under way.
PollAgain(s) ==
    /\ panel.state = "waiting" /\ ~panel.started
    /\ Free(s) /\ (s = "poll2" => ~Free("poll1"))
    /\ Send(s, "status", panel.shown)
    /\ panel' = [panel EXCEPT !.polling = s]
    /\ UNCHANGED <<server, creating, redone, lost, scanner, extras>>

StartPoll(s) ==
    /\ panel.state = "waiting" /\ ~panel.started /\ panel.polling = "no"
    /\ Free(s) /\ (s = "poll2" => ~Free("poll1"))
    /\ Send(s, "status", panel.shown)
    /\ panel' = [panel EXCEPT !.polling = s]
    /\ UNCHANGED <<server, creating, redone, lost, scanner, extras>>

\* The login page passes a new onAuthenticated with every render, and the
\* effect starts afresh with a flag of its own.
Rerender ==
    /\ panel.state = "waiting" /\ panel.polling # "no"
    /\ Extra
    /\ panel' = [panel EXCEPT !.polling = "no"]
    /\ redone' = TRUE
    /\ UNCHANGED <<server, req, creating, lost, scanner>>

\* Mutant: the flag is only reset by a poll that decides something.
KeepPolling(s) ==
    IF panel.polling = s /\ req[s].value # "pending" THEN "no" ELSE panel.polling

Released(s) == IF panel.polling = s THEN "no" ELSE panel.polling

\* What a poll that does not lead to an exchange puts on screen.
Verdict(value) ==
    CASE value = "pending"                 -> panel.state
      [] value \in {"denied", "consumed"}  -> Showing("denied")
      [] value = "expired"                 -> Showing("expired")
      [] OTHER -> IF panel.started THEN panel.state ELSE Showing("error")

PollAnswered(s) ==
    /\ req[s].op = "status" /\ req[s].at = "answered"
    /\ IF req[s].value = "approved"
       THEN /\ Send(s, "exchange", req[s].of)
            /\ panel' = [panel EXCEPT !.state = Showing("exchanging"), !.started = TRUE]
       ELSE /\ req' = [req EXCEPT ![s] = Idle]
            /\ panel' = [panel EXCEPT !.state = Verdict(req[s].value), !.polling = Released(s)]
    /\ UNCHANGED <<server, creating, redone, lost, scanner, extras>>

Exchanged(s) ==
    /\ req[s].op = "exchange" /\ req[s].at = "answered"
    /\ req' = [req EXCEPT ![s] = Idle]
    /\ IF req[s].value = "ok"
       THEN /\ panel' = [panel EXCEPT !.state = "signedIn", !.shown = 0, !.polling = "no"]
            /\ creating' = FALSE
            /\ UNCHANGED lost
       ELSE /\ panel' = [panel EXCEPT !.state = Verdict("failed"), !.polling = Released(s)]
            /\ lost' = TRUE
            /\ UNCHANGED creating
    /\ UNCHANGED <<server, redone, scanner, extras>>

---------------------------------------------------------------------------
\* The scanner

\* Mutant: the page does not count its requests.
StillOwned(request) == request

\* ++requestVersion: no call under way is the page's own any more.
Abandoned(request) ==
    IF request.at = "answered" THEN Idle ELSE [request EXCEPT !.current = FALSE]

Outdated == [req EXCEPT !["inspect"] = Idle, !["approve"] = Abandoned(@), !["deny"] = Abandoned(@)]
Call(s, op, c) == req' = [Outdated EXCEPT ![s] = Request(op, c)]

Stage(stage) == phone' = [phone EXCEPT !.stage = stage]
Mine(s) == req[s].at = "answered" /\ req[s].current
Rejected(s) == Mine(s) /\ req[s].value = "failed"
Pending(s) == req[s].at \in {"sent", "writing"}

\* withActionTimeout: a failure, or 15 seconds without an answer.
GaveUp(s) ==
    \/ Rejected(s) /\ UNCHANGED extras
    \/ Pending(s) /\ Extra

Scan ==
    /\ phone.stage = "camera" /\ panel.shown # 0
    /\ Call("inspect", "inspect", panel.shown)
    /\ Stage("inspecting")
    /\ UNCHANGED <<server, target, crossed, told, extras>>

\* History: the server has said of a code that it was refused.
Hears(status, c) == told' = IF status = "denied" THEN told \cup {c} ELSE told

StageOf(status) ==
    CASE status = "pending" -> "review"
      [] status = "failed"  -> "error"
      [] status = "expired" -> "expired"
      [] OTHER              -> "denied"

\* A code already approved or consumed is shown as refused as well, with
\* nothing under review.
Inspected ==
    /\ phone.stage = "inspecting" /\ Mine("inspect")
    /\ LET status == req["inspect"].value
       IN  /\ phone' = [stage |-> StageOf(status),
                        review |-> IF status = "pending" THEN req["inspect"].of ELSE 0]
           /\ Hears(status, req["inspect"].of)
    /\ req' = [req EXCEPT !["inspect"] = Idle]
    /\ UNCHANGED <<server, target, crossed, extras>>

\* History: the other decision on the same code is still on its way.
Crosses(other) ==
    /\ UNCHANGED told
    /\ crossed' = IF Pending(other) /\ req[other].of = phone.review
                  THEN crossed \cup {phone.review} ELSE crossed

Approve ==
    /\ phone.stage = "review" /\ Free("approve")
    /\ Call("approve", "approve", phone.review)
    /\ Stage("approving")
    /\ Crosses("deny")
    /\ UNCHANGED <<server, target, extras>>

\* returnToChat: the page closes as after an approval.
ApproveAccepted ==
    /\ Mine("approve") /\ req["approve"].value = "ok"
    /\ req' = [Outdated EXCEPT !["approve"] = Idle]
    /\ Stage("done")
    /\ UNCHANGED <<server, target, crossed, told, extras>>

\* The page asks what became of an approval that failed or took too long, in
\* place of a reconciliation under way.  The request that was given up goes on.
ApproveInDoubt ==
    /\ req["approve"].current
    /\ GaveUp("approve")
    /\ req' = [req EXCEPT
                  !["approve"] = Abandoned(@),
                  !["inspect"] = Request("inspect", req["approve"].of)]
    /\ UNCHANGED <<server, target, scanner>>

\* 750 ms into an approval the page looks as well, once or more: the effect
\* starts again with every render of the screen around it.
Reconcile ==
    /\ phone.stage = "approving" /\ req["approve"].current /\ Free("inspect")
    /\ Send("inspect", "inspect", phone.review)
    /\ UNCHANGED <<server, target, scanner, extras>>

\* completeApprovalStatus; an approval under way remains the page's own
\* unless the page closes.
Completed ==
    /\ phone.stage \in {"approving", "expired", "denied"} /\ Mine("inspect")
    /\ LET status == req["inspect"].value
       IN  IF status \in {"approved", "consumed"}
           THEN Stage("done") /\ req' = Outdated
           ELSE /\ status \in {"expired", "denied"}
                /\ Stage(status)
                /\ req' = [req EXCEPT !["inspect"] = Idle]
    /\ Hears(req["inspect"].value, req["inspect"].of)
    /\ UNCHANGED <<server, target, crossed, extras>>

\* Mutant: only the answer that decides something ends the wait.
WaitOn ==
    /\ phone.stage \in {"approving", "expired", "denied"} /\ Mine("inspect")
    /\ req["inspect"].value \in {"pending", "failed"}
    /\ req' = [req EXCEPT !["inspect"] = Idle]
    /\ UNCHANGED <<server, target, scanner, extras>>

\* Nothing is known: back to the decision, unless the approval is still awaited.
Undecided ==
    /\ phone.stage \in {"approving", "expired", "denied"} /\ Mine("inspect")
    /\ req["inspect"].value \in {"pending", "failed"}
    /\ req' = [req EXCEPT !["inspect"] = Idle]
    /\ IF req["approve"].current THEN UNCHANGED phone ELSE Stage("review")
    /\ UNCHANGED <<server, target, crossed, told, extras>>

Deny ==
    /\ phone.stage = "review" /\ Free("deny")
    /\ Call("deny", "deny", phone.review)
    /\ Stage("denying")
    /\ Crosses("approve")
    /\ UNCHANGED <<server, target, extras>>

DenyAccepted ==
    /\ Mine("deny") /\ req["deny"].value = "ok"
    /\ req' = [req EXCEPT !["deny"] = Idle]
    /\ Stage("denied")
    /\ Hears("denied", req["deny"].of)
    /\ UNCHANGED <<server, target, crossed, extras>>

DenyInDoubt ==
    /\ req["deny"].current
    /\ GaveUp("deny")
    /\ req' = [req EXCEPT !["deny"] = Abandoned(@)]
    /\ Stage("review")
    /\ UNCHANGED <<server, target, crossed, told>>

ReviewElapsed ==
    /\ phone.stage \in {"review", "approving", "denying"} /\ phone.review \in past
    /\ req' = Outdated
    /\ Stage("expired")
    /\ UNCHANGED <<server, target, crossed, told, extras>>

\* resetScanner, or the page opened again.
ScanAgain ==
    /\ phone.stage \in {"done", "denied", "expired", "error"}
    /\ req' = Outdated
    /\ phone' = [stage |-> "camera", review |-> 0]
    /\ UNCHANGED <<server, target, crossed, told, extras>>

\* The page is left without a decision, and opened again later.
LeaveScanner ==
    /\ phone.stage \in {"inspecting", "review", "approving", "denying"}
    /\ Extra
    /\ req' = Outdated
    /\ phone' = [stage |-> "camera", review |-> 0]
    /\ UNCHANGED <<server, target, crossed, told>>

---------------------------------------------------------------------------
Next ==
    \/ \E s \in Slot : Read(s) \/ Write(s) \/ Lose(s)
    \/ \E c \in Challenge : Elapse(c)
    \/ Created \/ CreateFailed \/ Refresh \/ Back \/ Countdown \/ Rerender
    \/ \E s \in Poll : StartPoll(s) \/ PollAnswered(s) \/ Exchanged(s)
    \/ Scan \/ Inspected
    \/ Approve \/ ApproveAccepted \/ ApproveInDoubt \/ Reconcile \/ Completed \/ Undecided
    \/ Deny \/ DenyAccepted \/ DenyInDoubt
    \/ ReviewElapsed \/ ScanAgain \/ LeaveScanner

\* Every request ends, within axios's 30 seconds, intervals tick, promises
\* settle.  No fairness for the user, the clock, or a failure.
Fairness ==
    /\ \A s \in Slot : WF_vars(Read(s) \/ Write(s))
    /\ \A s \in Poll : WF_vars(PollAnswered(s) \/ Exchanged(s))
    /\ WF_vars(Created) /\ WF_vars(\E s \in Poll : StartPoll(s))
    /\ WF_vars(Inspected \/ Completed \/ Undecided)
    /\ WF_vars(ApproveAccepted \/ ApproveInDoubt \/ DenyAccepted \/ DenyInDoubt)

Spec == Init /\ [][Next]_vars /\ Fairness

---------------------------------------------------------------------------
\* A challenge gives at most one session, though the server reads and writes
\* the row without a lock: the panel polls one call at a time and exchanges
\* from the poll.  Not so when the page rendered again during a poll.
OneSession == redone \/ \A c \in Challenge : sessions[c] <= 1

\* A code whose refusal the scanner has shown because the server told it so,
\* in answer to the refusal, to a reconciliation or to a scan, gives the screen
\* no session from then on, unless an approval the page had given up was still
\* on its way.  The scanner shows the same words for a code it scans after the
\* approval (QrLoginScanner.tsx:143): that code is not told.
DeniedStaysOut == \A c \in told \ crossed : sessions[c] = 0

\* When the scanner closes as after an approval, the server has approved the
\* code it had under review, however many answers were late, lost or repeated.
DoneMeansApproved == phone.stage = "done" => phone.review \in approved

\* While the panel waits on a code that was approved, it goes on to a session,
\* or the code changes, runs out, or the panel says that something is wrong.
ApprovalReachesTarget ==
    \A c \in Challenge :
        (panel.state = "waiting" /\ panel.shown = c /\ row[c] = "approved")
            ~> \/ panel.state \in {"signedIn", "denied", "expired", "error", "closed"}
               \/ panel.shown # c \/ c \in past \/ lost

\* The scanner never keeps its buttons disabled for good.
PhoneSettles ==
    phone.stage \in {"inspecting", "approving", "denying"}
        ~> phone.stage \notin {"inspecting", "approving", "denying"}
=============================================================================
