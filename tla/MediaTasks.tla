------------------------------- MODULE MediaTasks -----------------------------
(***************************************************************************)
(* One media task: an image, a piece of music, a song or a video that a    *)
(* user asks for in a conversation.  Its row is claimed, processed,        *)
(* cancelled and completed by media_generation_service.py, whose worker    *)
(* loop runs in every process of the API; the card in the conversation     *)
(* follows it through useMediaGeneration.ts.                               *)
(*                                                                         *)
(* A worker has a session: the row as loaded and the task object it works  *)
(* on.  A flush writes what differs between the two and nothing else.  A   *)
(* finalization holds the row lock up to its commit and is one step.  The  *)
(* text of the card's message is written with each final status, in the    *)
(* same transaction, and is left out, as are progress, size, notifications,*)
(* the check of the source files (one more way for a provider call to      *)
(* fail) and requests that fail.  The page has two caches, the list of the *)
(* tasks and the messages: each is replaced by the answer to a read of its *)
(* own, and an answer of the list is merged into the messages besides.     *)
(*                                                                         *)
(* Bounds: MaxExtras for what may happen besides creating and processing: a*)
(* worker interrupted, a lease that runs out under a live worker, the      *)
(* messages read once more; one number for each kind of task.              *)
(* MaxFailures polls may fail in a row.  One task: several only compete for*)
(* the workers.  Music without lyrics behaves as an image does.            *)
(***************************************************************************)
EXTENDS Naturals, FiniteSets

CONSTANTS Worker, Kinds, MaxFailures, MaxExtras

ASSUME MediaAssumption ==
    /\ IsFiniteSet(Worker)
    /\ Kinds \subseteq {"image", "song", "video"}
    /\ MaxFailures \in Nat \ {0}
    /\ MaxExtras \in [Kinds -> Nat]

VARIABLES
    kind,       \* what is generated
    row,        \* the row in the database
    stored,     \* objects in the object storage
    worker,     \* per worker: where it is, the row as loaded, its task object
    cancel,     \* cancel_media_task: idle, read (past its check), written
    creating,   \* the task is created, the page does not know yet
    list,       \* the task in the page's list: none, active or its final status
    card,       \* the task in the page's message: the same
    listCall,   \* the request for the list: idle, sent, or the answer on its way
    msgCall,    \* the request for the messages: the same
    extras,     \* what happened besides, bounded
    paid,       \* history: generations started at a provider
    late,       \* history: a cancel was written over a final status
    lapsed,     \* history: a lease ran out under a live worker
    revived,    \* history: a worker made a finished task run again
    orphaned,   \* history: an interrupted worker left an object behind
    overtaken   \* history: the last answer about the messages came after the list had ended

server == <<row, stored, worker, paid, orphaned, revived>>
page == <<creating, list, card, listCall, msgCall, overtaken>>
vars == <<kind, server, page, cancel, extras, late, lapsed>>

Active == {"queued", "running"}
Final == {"succeeded", "failed", "canceled"}
Row == [status : {"none"} \cup Active \cup Final, attempts : Nat, leased : BOOLEAN,
        provider : BOOLEAN, failures : 0..MaxFailures, result : BOOLEAN, poster : BOOLEAN]
Shown == {"none", "active"} \cup Final

\* A song (music with lyrics) and a video are known to their provider by an id; the
\* call for an image returns the result.
Resumable == kind \in {"song", "video"}
Busy(w) == worker[w].pc # "idle"

TypeOK ==
    /\ kind \in Kinds
    /\ row \in Row
    /\ stored \subseteq {"result", "poster"}
    /\ worker \in [Worker -> [pc : {"idle", "claimed", "calling", "generating", "completing",
                                    "failing", "retrying"},
                              loaded : Row, task : Row]]
    /\ cancel \in {"idle", "read", "written"}
    /\ creating \in BOOLEAN
    /\ list \in Shown /\ card \in Shown
    /\ listCall \in {"idle", "sent"} \cup Shown /\ msgCall \in {"idle", "sent"} \cup Shown
    /\ extras \in 0..MaxExtras[kind]
    /\ paid \in Nat
    /\ late \in BOOLEAN /\ lapsed \in BOOLEAN /\ orphaned \in BOOLEAN
    /\ revived \in BOOLEAN /\ overtaken \in BOOLEAN

NoRow == [status |-> "none", attempts |-> 0, leased |-> FALSE, provider |-> FALSE,
          failures |-> 0, result |-> FALSE, poster |-> FALSE]
IdleWorker == [pc |-> "idle", loaded |-> NoRow, task |-> NoRow]

Init ==
    /\ kind \in Kinds
    /\ row = NoRow /\ stored = {}
    /\ worker = [w \in Worker |-> IdleWorker]
    /\ cancel = "idle" /\ creating = FALSE
    /\ list = "none" /\ card = "none" /\ listCall = "sent" /\ msgCall = "sent"
    /\ extras = 0
    /\ paid = 0 /\ late = FALSE /\ lapsed = FALSE /\ revived = FALSE /\ orphaned = FALSE
    /\ overtaken = FALSE

Extra == extras < MaxExtras[kind] /\ extras' = extras + 1

---------------------------------------------------------------------------
\* The worker loop

Goto(w, pc) == worker' = [worker EXCEPT ![w].pc = pc]
Keeps(w, pc, task) == worker' = [worker EXCEPT ![w] = [@ EXCEPT !.pc = pc, !.task = task]]
Rest(w) == worker' = [worker EXCEPT ![w] = IdleWorker]

\* Mutant: nothing is flushed before the row is read again.
Unflushed(w) == row

\* What the row becomes when the session of w is flushed.
Flushed(w) ==
    [f \in DOMAIN row |-> IF worker[w].task[f] # worker[w].loaded[f]
                          THEN worker[w].task[f] ELSE row[f]]

\* Mutant: what was interrupted is not claimed again.
OnlyQueued == row.status = "queued"

Claimable == row.status = "queued" \/ (row.status = "running" /\ ~row.leased)

\* A call that cannot be resumed is repeated once.
WasInterrupted == row.status = "running" /\ kind # "video" /\ ~row.provider

\* _claim_next_task() gives up a call that was interrupted in its second attempt, or
\* claims the task.
GiveUp(w) ==
    /\ worker[w].pc = "idle" /\ Claimable
    /\ WasInterrupted /\ row.attempts >= 2
    /\ row' = [row EXCEPT !.status = "failed", !.leased = FALSE]
    /\ UNCHANGED <<stored, worker, paid, orphaned>>

\* Mutant: one attempt more.
ClaimThrice(w) ==
    /\ worker[w].pc = "idle" /\ Claimable
    /\ WasInterrupted => row.attempts <= 2
    /\ row' = [row EXCEPT
           !.attempts = IF row.status = "queued" \/ WasInterrupted THEN @ + 1 ELSE @,
           !.status = "running", !.leased = TRUE]
    /\ Goto(w, "claimed")
    /\ UNCHANGED <<stored, paid, orphaned>>

Claim(w) ==
    /\ worker[w].pc = "idle" /\ Claimable
    /\ WasInterrupted => row.attempts < 2
    /\ row' = [row EXCEPT
           !.attempts = IF row.status = "queued" \/ WasInterrupted THEN @ + 1 ELSE @,
           !.status = "running", !.leased = TRUE]
    /\ Goto(w, "claimed")
    /\ UNCHANGED <<stored, paid, orphaned>>

\* _process_claimed_task() up to its call of the provider, which starts a generation
\* unless there is one to ask for.
Load(w) ==
    /\ worker[w].pc = "claimed"
    /\ IF row.status = "canceled"
       THEN Rest(w) /\ UNCHANGED paid
       ELSE /\ worker' = [worker EXCEPT ![w] =
                [pc |-> IF kind = "song" /\ row.provider THEN "generating" ELSE "calling",
                 loaded |-> row, task |-> row]]
            /\ paid' = IF Resumable /\ row.provider THEN paid ELSE paid + 1
    /\ UNCHANGED <<row, stored, orphaned>>

\* The provider of songs has accepted: persist_music_provider_task_id().  The callback
\* reads the row again, under a lock, and returns if the task is canceled.
Accepted(w) ==
    /\ worker[w].pc = "calling" /\ kind = "song"
    /\ row' = IF row.status = "canceled" THEN row
              ELSE [row EXCEPT !.provider = TRUE, !.status = "running", !.leased = TRUE]
    /\ worker' = [worker EXCEPT ![w] = [pc |-> "generating", loaded |-> row', task |-> row']]
    /\ UNCHANGED <<stored, paid, orphaned>>

\* A poll of a song: persist_music_progress()
Progress(w) ==
    /\ worker[w].pc = "generating" /\ row.status # "canceled"
    /\ row' = [row EXCEPT !.status = "running", !.leased = TRUE]
    /\ worker' = [worker EXCEPT ![w].loaded = row', ![w].task = row']
    /\ UNCHANGED <<stored, paid, orphaned>>

\* Mutant: the status is written whatever it was.
PendingAnyway(w) ==
    /\ worker[w].pc = "calling" /\ kind = "video"
    /\ row' = [row EXCEPT !.provider = TRUE, !.failures = 0, !.status = "running", !.leased = TRUE]
    /\ Rest(w)
    /\ UNCHANGED <<stored, paid, orphaned>>

\* A video that is not ready yet: the worker commits what the provider said of it and
\* a new lease, and leaves the task for its next poll.
Pending(w) ==
    /\ worker[w].pc = "calling" /\ kind = "video"
    /\ LET task == [worker[w].task EXCEPT !.provider = TRUE, !.status = "running",
                                          !.failures = 0]
           loaded == worker[w].loaded
       IN  row' = [f \in DOMAIN row |-> IF f = "leased" THEN TRUE
                                        ELSE IF task[f] # loaded[f] THEN task[f] ELSE row[f]]
    /\ Rest(w)
    /\ UNCHANGED <<stored, paid, orphaned>>

\* The provider is asked for a result.
Answers(w) == worker[w].pc = IF kind = "song" THEN "generating" ELSE "calling"

\* The provider has the result: _persist_provider_output() or _persist_audio_output()
\* copies it, a video perhaps with a poster.
Generated(w) ==
    /\ Answers(w)
    /\ \E poster \in (IF kind = "video" THEN BOOLEAN ELSE {FALSE}) :
        /\ stored' = stored \cup {"result"} \cup (IF poster THEN {"poster"} ELSE {})
        /\ Keeps(w, "completing", [worker[w].task EXCEPT !.provider = @ \/ kind = "video",
                                                          !.result = TRUE, !.poster = poster])
    /\ UNCHANGED <<row, paid, orphaned>>

\* The provider has failed, or its result cannot be copied.
Refused(w) ==
    /\ Answers(w)
    /\ Keeps(w, "failing", [worker[w].task EXCEPT !.provider = @ \/ kind = "video"])
    /\ UNCHANGED <<row, stored, paid, orphaned>>

\* The call fails: a generation that is known is asked for again later.
CallFails(w) ==
    /\ worker[w].pc \in {"calling", "generating"}
    /\ Goto(w, IF Resumable /\ worker[w].task.provider THEN "retrying" ELSE "failing")
    /\ UNCHANGED <<row, stored, paid, orphaned>>

Succeeded(r) == [r EXCEPT !.status = "succeeded", !.leased = FALSE]
Failed(r) == [r EXCEPT !.status = "failed", !.leased = FALSE]

\* _retry_video_poll(), _retry_music_poll()
Retried(r) ==
    IF r.failures + 1 >= MaxFailures
    THEN [Failed(r) EXCEPT !.failures = MaxFailures]
    ELSE [r EXCEPT !.failures = @ + 1, !.status = "running", !.leased = TRUE]

Outcome(w, r) ==
    CASE worker[w].pc = "completing" -> Succeeded(r)
      [] worker[w].pc = "failing"    -> Failed(r)
      [] OTHER                       -> Retried(r)

\* _complete_task(), _fail_task() and the two retries: the row is flushed, locked and
\* read again; if it is canceled, what it names is deleted.
End(w) ==
    /\ worker[w].pc \in {"completing", "failing", "retrying"}
    /\ LET locked == Flushed(w)
       IN  IF locked.status = "canceled"
           THEN /\ row' = [locked EXCEPT !.result = FALSE, !.poster = FALSE]
                /\ stored' = stored \ {o \in {"result", "poster"} : locked[o]}
           ELSE row' = Outcome(w, locked) /\ UNCHANGED stored
    /\ Rest(w)
    /\ UNCHANGED <<paid, orphaned>>

NeedsPoster == kind = "video" /\ row.status = "succeeded" /\ row.result /\ ~row.poster

\* _claim_next_missing_video_poster() finds the row and keeps no lock,
\* _backfill_video_poster() looks again under one: together one step.  A repair that
\* fails changes nothing.
BackfillPoster(w) ==
    /\ worker[w].pc = "idle" /\ NeedsPoster
    /\ row' = [row EXCEPT !.poster = TRUE]
    /\ stored' = stored \cup {"poster"}
    /\ UNCHANGED <<kind, worker, paid, revived, orphaned, page, cancel, extras, late, lapsed>>

Work(w) ==
    /\ \/ GiveUp(w) \/ Claim(w) \/ Load(w) \/ Accepted(w) \/ Progress(w) \/ Pending(w)
       \/ Generated(w) \/ Refused(w) \/ CallFails(w) \/ End(w)
    /\ revived' = (revived \/ (row.status \in Final /\ row'.status = "running"))
    /\ UNCHANGED <<kind, page, cancel, extras, late, lapsed>>

\* A process dies, or an exception nobody names ends the round: the session rolls
\* back, the lease stays.
Interrupt(w) ==
    /\ worker[w].pc # "idle" /\ Extra
    /\ Rest(w)
    /\ orphaned' = (orphaned \/ worker[w].pc = "completing")
    /\ UNCHANGED <<kind, row, stored, paid, revived, page, cancel, late, lapsed>>

\* A lease ends when nobody works on the task, or while somebody still does.
EndLease ==
    /\ row.status = "running" /\ row.leased
    /\ row' = [row EXCEPT !.leased = FALSE]
    /\ UNCHANGED <<kind, stored, worker, paid, revived, orphaned, page, cancel, late>>

LeaseExpires == EndLease /\ (\A w \in Worker : ~Busy(w)) /\ UNCHANGED <<extras, lapsed>>
LeaseLapses == EndLease /\ (\E w \in Worker : Busy(w)) /\ Extra /\ lapsed' = TRUE

---------------------------------------------------------------------------
\* The user and the page

View(status) == IF status \in Active THEN "active" ELSE status

\* create_media_task()
CreateTask ==
    /\ row.status = "none"
    /\ row' = [row EXCEPT !.status = "queued"] /\ creating' = TRUE
    /\ UNCHANGED <<kind, stored, worker, paid, revived, orphaned, list, card, listCall,
                   msgCall, overtaken, cancel, extras, late, lapsed>>

\* useCreateMediaTask() puts the task into the list and into the messages, unless they
\* have it already, and reads the messages again: invalidateQueries() drops a read that
\* is under way.
Created ==
    /\ creating
    /\ creating' = FALSE
    /\ list' = IF list = "none" THEN "active" ELSE list
    /\ card' = IF card = "none" THEN "active" ELSE card
    /\ msgCall' = "sent"
    /\ UNCHANGED <<kind, server, listCall, overtaken, cancel, extras, late, lapsed>>

\* useMediaTasks(): the list is read while it shows an active task, and an answer that
\* changed is merged into the messages the page has.
Poll ==
    /\ list = "active" /\ listCall = "idle"
    /\ listCall' = "sent"
    /\ UNCHANGED <<kind, server, creating, list, card, msgCall, overtaken, cancel, extras,
                   late, lapsed>>

\* mergeTaskIntoMessages()
Merged(answer) == IF card = "none" \/ answer = "none" THEN card ELSE answer

\* Two active answers may be equal, and an equal answer is not merged.
ListArrives ==
    /\ listCall \in Shown
    /\ list' = listCall /\ listCall' = "idle"
    /\ \/ card' = Merged(listCall)
       \/ list = listCall /\ UNCHANGED card
    /\ UNCHANGED <<kind, server, creating, msgCall, overtaken, cancel, extras, late, lapsed>>

\* useMessages(): the conversation is opened again, or an answer in it has ended
\* (refetchQueries); a read under way is dropped.
Refetch ==
    /\ Extra
    /\ msgCall' = "sent"
    /\ UNCHANGED <<kind, server, creating, list, card, listCall, overtaken, cancel, late, lapsed>>

\* The answer replaces the messages, whatever was merged into them meanwhile.
MessagesArrive ==
    /\ msgCall \in Shown
    /\ card' = msgCall /\ msgCall' = "idle"
    /\ overtaken' = (msgCall = "active" /\ list \in Final)
    /\ UNCHANGED <<kind, server, creating, list, listCall, cancel, extras, late, lapsed>>

\* The server answers what the row says now.
ReadList ==
    /\ listCall = "sent" /\ listCall' = View(row.status)
    /\ UNCHANGED <<kind, server, creating, list, card, msgCall, overtaken, cancel, extras,
                   late, lapsed>>

ReadMessages ==
    /\ msgCall = "sent" /\ msgCall' = View(row.status)
    /\ UNCHANGED <<kind, server, creating, list, card, listCall, overtaken, cancel, extras,
                   late, lapsed>>

\* useCancelMediaTask() and cancel_media_task(), which checks the row before it writes
\* and holds no lock in between.
CancelRead ==
    /\ card = "active" /\ cancel = "idle" /\ row.status \in Active
    /\ cancel' = "read"
    /\ UNCHANGED <<kind, server, page, extras, late, lapsed>>

CancelWrite ==
    /\ cancel = "read"
    /\ row' = [row EXCEPT !.status = "canceled", !.leased = FALSE]
    /\ late' = (late \/ row.status \notin Active)
    /\ cancel' = "written"
    /\ UNCHANGED <<kind, stored, worker, paid, revived, orphaned, page, extras, lapsed>>

Canceled ==
    /\ cancel = "written"
    /\ cancel' = "idle"
    /\ list' = IF list = "none" THEN list ELSE "canceled"
    /\ card' = Merged("canceled")
    /\ UNCHANGED <<kind, server, creating, listCall, msgCall, overtaken, extras, late, lapsed>>

Handlers == CancelWrite \/ ReadList \/ ReadMessages
Page == Created \/ Poll \/ ListArrives \/ MessagesArrive \/ Canceled
User == CreateTask \/ CancelRead \/ Refetch
Trouble == LeaseLapses \/ \E w \in Worker : Interrupt(w)

Next ==
    \/ \E w \in Worker : Work(w) \/ BackfillPoster(w)
    \/ LeaseExpires \/ Handlers \/ Page \/ User \/ Trouble

\* The loop goes on, every request is answered and every answer taken in, leases end,
\* and a provider that is asked again and again finally has a result.
Fairness ==
    /\ \A w \in Worker : WF_vars(Work(w))
    /\ \A w \in Worker : SF_vars(Generated(w) /\ Work(w))
    /\ WF_vars(LeaseExpires)
    /\ WF_vars(CancelWrite) /\ WF_vars(ReadList) /\ WF_vars(ReadMessages)
    /\ WF_vars(Created) /\ WF_vars(Canceled)
    /\ WF_vars(Poll) /\ WF_vars(ListArrives) /\ WF_vars(MessagesArrive)

Spec == Init /\ [][Next]_vars /\ Fairness

---------------------------------------------------------------------------
\* Properties

\* A generation is started once, and what cannot be resumed at most twice, however often
\* its workers are interrupted or overtaken (attempt_count, provider_task_id).  A video
\* has no such limit: a crash between create_agnes_video() and the commit of its id
\* starts another.
Generations ==
    /\ extras = 0 => paid <= 1
    /\ kind # "video" => paid <= 2

\* A finished task names a result that exists, and a canceled one leaves nothing in the
\* object storage, whoever stored it when (_discard_canceled_result).  Excepted: an
\* object whose worker was interrupted, a cancel written over a result, a task that
\* had finished before another worker made it run again: its result may have been
\* deleted meanwhile, and a session that loaded the row before does not write the
\* key again.
Objects ==
    /\ row.status = "succeeded" /\ ~revived => row.result /\ "result" \in stored
    /\ row.status = "canceled" /\ (\A w \in Worker : ~Busy(w)) /\ ~orphaned /\ ~late /\ ~revived
        => stored = {}

\* A canceled task stays canceled, whatever its workers hold or hear later, unless it had
\* finished before; one that succeeded or failed stays so unless a lease had lapsed or a
\* cancel was on its way.
FinalStays ==
    [][/\ row.status = "canceled" /\ ~late /\ ~revived => row'.status = "canceled"
       /\ row.status \in {"succeeded", "failed"} /\ ~lapsed /\ ~late'
            => row'.status = row.status]_vars

\* The page does not go on showing a task as being generated: in the end its card says
\* how the task ended, whatever the list and the messages were told in which order.
\* Excepted: a list read before the task was there, which has made the page forget to
\* poll, and an answer about the messages from before the end that came after the list
\* had ended, when nothing asks again.
CardSettles == <>[](card = "active" => list = "none" \/ overtaken)
=============================================================================
