--------------------------- MODULE MediaTasks_proofs ---------------------------
(***************************************************************************)
(* Type correctness of MediaTasks, that a task pays for at most one        *)
(* generation (two, if it cannot be resumed), that a final status stays,   *)
(* and that rows name the objects there are, for every finite set of       *)
(* workers and every bound on what goes wrong.                             *)
(*                                                                         *)
(* Steps says once what each step of a worker does to the fields the       *)
(* invariants look at.  Sessions carries FinalStays: a flush never writes a*)
(* status of its own.  Alone is the lease: until one lapses, no two workers*)
(* have the task.  PaidOnce and PaidTwice carry Generations; the second    *)
(* counts the workers that have claimed the task and not yet paid.         *)
(* ObjectsKept carries Objects: each object that the row does not name is  *)
(* that of a worker about to complete, which names it or deletes it.       *)
(***************************************************************************)
EXTENDS MediaTasks, FiniteSetTheorems, TLAPS

Working(w) == worker[w].pc \notin {"idle", "claimed"}
Settled == {"succeeded", "failed"}
Claimed == {w \in Worker : worker[w].pc = "claimed"}

\* What is true of the row before and after the first claim.
Started ==
    /\ \A w \in Worker : Busy(w) => row.status \notin {"none", "queued"}
    /\ row.status \in {"none", "queued"} => row.attempts = 0 /\ ~row.provider
    /\ extras = 0 => ~lapsed
    /\ row.provider => Resumable
    /\ \A w \in Worker : worker[w].pc = "retrying" => worker[w].task.provider
    /\ \A w \in Worker : Working(w) /\ worker[w].task.provider => Resumable

\* What a session knows: it never has a status, a lease or an attempt of its own to
\* write, and a row it loaded as finished was finished.
Session(w) ==
    LET loaded == worker[w].loaded
        task == worker[w].task
    IN  /\ task.status = loaded.status
        /\ task.attempts = loaded.attempts
        /\ loaded.provider => task.provider /\ row.provider
        /\ kind = "video" => loaded.status \in {"running"} \cup Settled
        /\ loaded.status \in Settled => row.status \in Settled \/ late \/ revived

Sessions == \A w \in Worker : Working(w) => Session(w)

\* Until a lease lapses, one worker has the task, and its row is leased or canceled.
Alone ==
    ~lapsed =>
        /\ \A w, v \in Worker : Busy(w) /\ Busy(v) => w = v
        /\ \A w \in Worker : Busy(w) =>
              row.status = "canceled" \/ (row.status = "running" /\ row.leased)
        /\ \A w \in Worker : Working(w) /\ kind = "video" => worker[w].loaded.status = "running"

PaidOnce ==
    extras = 0 =>
        /\ paid <= 1
        /\ paid = 1 => \/ row.status \in Final
                       \/ row.provider
                       \/ \E w \in Worker : Working(w)

PaidTwice ==
    kind # "video" =>
        /\ row.attempts <= 2 /\ paid <= 2
        /\ ~row.provider => paid + Cardinality(Claimed) <= row.attempts

Fields == {"status", "attempts", "leased", "provider", "failures", "result", "poster"}
WorkerState == [pc : {"idle", "claimed", "calling", "generating", "completing",
                      "failing", "retrying"},
                loaded : Row, task : Row]

(* A row is given by its fields. *)
LEMMA RowFields ==
    ASSUME NEW g, DOMAIN g = Fields, g = [f \in Fields |-> g[f]],
           g["status"] \in {"none"} \cup Active \cup Final, g["attempts"] \in Nat,
           g["leased"] \in BOOLEAN, g["provider"] \in BOOLEAN,
           g["failures"] \in 0..MaxFailures, g["result"] \in BOOLEAN, g["poster"] \in BOOLEAN
    PROVE  g \in Row
BY DEF Row, Fields

LEMMA RowDomain ==
    ASSUME NEW r \in Row
    PROVE  DOMAIN r = Fields
BY DEF Row, Fields

(* What a flush or the commit of a pending video writes is a row. *)
LEMMA Mixed ==
    ASSUME NEW r \in Row, NEW l \in Row, NEW t \in Row
    PROVE  /\ [f \in DOMAIN r |-> IF t[f] # l[f] THEN t[f] ELSE r[f]] \in Row
           /\ [f \in DOMAIN r |-> IF f = "leased" THEN TRUE
                                  ELSE IF t[f] # l[f] THEN t[f] ELSE r[f]] \in Row
<1>2. /\ r.status \in {"none"} \cup Active \cup Final /\ t.status \in {"none"} \cup Active \cup Final
      /\ r.attempts \in Nat /\ t.attempts \in Nat /\ r.leased \in BOOLEAN /\ t.leased \in BOOLEAN
      /\ r.provider \in BOOLEAN /\ t.provider \in BOOLEAN
      /\ r.failures \in 0..MaxFailures /\ t.failures \in 0..MaxFailures
      /\ r.result \in BOOLEAN /\ t.result \in BOOLEAN /\ r.poster \in BOOLEAN /\ t.poster \in BOOLEAN
    BY DEF Row
<1>3. [f \in DOMAIN r |-> IF t[f] # l[f] THEN t[f] ELSE r[f]] \in Row
  <2> DEFINE g == [f \in DOMAIN r |-> IF t[f] # l[f] THEN t[f] ELSE r[f]]
  <2>1. g = [f \in Fields |-> IF t[f] # l[f] THEN t[f] ELSE r[f]]
      BY RowDomain
  <2> QED
      BY <2>1, <1>2, RowFields DEF Fields
<1>4. [f \in DOMAIN r |-> IF f = "leased" THEN TRUE
                          ELSE IF t[f] # l[f] THEN t[f] ELSE r[f]] \in Row
  <2> DEFINE g == [f \in DOMAIN r |-> IF f = "leased" THEN TRUE
                                      ELSE IF t[f] # l[f] THEN t[f] ELSE r[f]]
  <2>1. g = [f \in Fields |-> IF f = "leased" THEN TRUE
                              ELSE IF t[f] # l[f] THEN t[f] ELSE r[f]]
      BY RowDomain
  <2> QED
      BY <2>1, <1>2, RowFields DEF Fields
<1> QED
    BY <1>3, <1>4

(* The row after a video was not ready yet. *)
LEMMA PendingRow ==
    ASSUME TypeOK, NEW w \in Worker, Pending(w)
    PROVE  /\ row' \in Row
           /\ row'.leased
           /\ row'.status = IF worker[w].loaded.status # "running" THEN "running" ELSE row.status
           /\ row'.attempts = IF worker[w].task.attempts # worker[w].loaded.attempts
                              THEN worker[w].task.attempts ELSE row.attempts
           /\ row'.provider = IF worker[w].loaded.provider THEN row.provider ELSE TRUE
<1> DEFINE l == worker[w].loaded
           t == [worker[w].task EXCEPT !.provider = TRUE, !.status = "running", !.failures = 0]
<1>1. row \in Row /\ l \in Row /\ worker[w].task \in Row
    BY DEF TypeOK
<1>0. 0 \in 0..MaxFailures
    BY MediaAssumption
<1>2. t \in Row /\ t.status = "running" /\ t.provider /\ t.attempts = worker[w].task.attempts
    BY <1>0, <1>1 DEF Row, Active
<1>3. row' = [f \in DOMAIN row |-> IF f = "leased" THEN TRUE
                                   ELSE IF t[f] # l[f] THEN t[f] ELSE row[f]]
    BY DEF Pending
<1>4. DOMAIN row = Fields
    BY <1>1, RowDomain
<1>5. l.provider \in BOOLEAN
    BY <1>1 DEF Row
<1> HIDE DEF l, t
<1>6. row' \in Row
    BY <1>1, <1>2, <1>3, Mixed
<1>7. /\ row'["leased"] = TRUE
      /\ row'["status"] = IF t["status"] # l["status"] THEN t["status"] ELSE row["status"]
      /\ row'["attempts"] = IF t["attempts"] # l["attempts"] THEN t["attempts"] ELSE row["attempts"]
      /\ row'["provider"] = IF t["provider"] # l["provider"] THEN t["provider"] ELSE row["provider"]
    BY <1>3, <1>4 DEF Fields
<1> QED
    BY <1>2, <1>5, <1>6, <1>7 DEF l

(* The row as a flush leaves it. *)
LEMMA FlushedRow ==
    ASSUME TypeOK, NEW w \in Worker
    PROVE  /\ Flushed(w) \in Row
           /\ \A f \in Fields : Flushed(w)[f] = IF worker[w].task[f] # worker[w].loaded[f]
                                                THEN worker[w].task[f] ELSE row[f]
<1>1. row \in Row /\ worker[w].loaded \in Row /\ worker[w].task \in Row
    BY DEF TypeOK
<1>2. DOMAIN row = Fields
    BY <1>1, RowDomain
<1>3. Flushed(w) \in Row
    BY <1>1, Mixed DEF Flushed
<1> QED
    BY <1>2, <1>3 DEF Flushed

(* What a finalization makes of the row it has locked. *)
LEMMA EndRow ==
    ASSUME TypeOK, NEW w \in Worker, End(w)
    PROVE  /\ row' \in Row
           /\ row'.attempts = Flushed(w).attempts
           /\ row'.provider = Flushed(w).provider
           /\ Flushed(w).status = "canceled" => row'.status = "canceled"
           /\ Flushed(w).status # "canceled" =>
                \/ row'.status \in {"succeeded", "failed"}
                \/ (worker[w].pc = "retrying" /\ row'.status = "running" /\ row'.leased)
<1> DEFINE locked == Flushed(w)
<1>1. locked \in Row
    BY FlushedRow
<1>2. worker[w].pc \in {"completing", "failing", "retrying"}
    BY DEF End
<1>3. CASE locked.status = "canceled"
  <2>1. row' = [locked EXCEPT !.result = FALSE, !.poster = FALSE]
      BY <1>3 DEF End
  <2> HIDE DEF locked
  <2>2. /\ row' \in Row /\ row'.attempts = locked.attempts /\ row'.provider = locked.provider
        /\ row'.status = locked.status
      BY <1>1, <2>1 DEF Row
  <2> QED
      BY <1>3, <2>2 DEF locked
<1>4. CASE locked.status # "canceled"
  <2>1. row' = Outcome(w, locked)
      BY <1>4 DEF End
  <2> HIDE DEF locked
  <2>2. /\ locked.failures \in 0..MaxFailures
        /\ MaxFailures \in Nat \ {0} /\ MaxFailures \in 0..MaxFailures
      BY <1>1, MediaAssumption DEF Row
  <2>3. \/ row' = Succeeded(locked)
        \/ row' = Failed(locked)
        \/ worker[w].pc = "retrying" /\ row' = Retried(locked)
      BY <1>2, <2>1 DEF Outcome
  <2>4. CASE row' = Succeeded(locked)
      BY <1>1, <1>4, <2>4 DEF Succeeded, Row, Final, locked
  <2>5. CASE row' = Failed(locked)
      BY <1>1, <1>4, <2>5 DEF Failed, Row, Final, locked
  <2>6. CASE worker[w].pc = "retrying" /\ row' = Retried(locked)
    <3>1. CASE locked.failures + 1 >= MaxFailures
      <4>1. row' = [Failed(locked) EXCEPT !.failures = MaxFailures]
          BY <2>6, <3>1 DEF Retried
      <4> QED
          BY <1>1, <1>4, <2>2, <4>1 DEF Failed, Row, Final, locked
    <3>2. CASE ~(locked.failures + 1 >= MaxFailures)
      <4>1. row' = [locked EXCEPT !.failures = @ + 1, !.status = "running", !.leased = TRUE]
          BY <2>6, <3>2 DEF Retried
      <4>2. locked.failures + 1 \in 0..MaxFailures
          BY <2>2, <3>2
      <4> QED
          BY <1>1, <1>4, <2>6, <4>1, <4>2 DEF Row, Active, locked
    <3> QED
        BY <3>1, <3>2
  <2> QED
      BY <2>3, <2>4, <2>5, <2>6
<1> QED
    BY <1>3, <1>4

(* The fields of a row, of a session and of the actions' rows. *)
LEMMA Fresh == NoRow \in Row /\ IdleWorker \in WorkerState
<1>1. 0 \in 0..MaxFailures
    BY MediaAssumption
<1>2. NoRow \in Row
    BY <1>1 DEF NoRow, Row
<1> QED
    BY <1>2 DEF IdleWorker, WorkerState

-----------------------------------------------------------------------------
(* Type correctness *)

LEMMA WorkTypes ==
    ASSUME TypeOK, NEW w \in Worker, Work(w)
    PROVE  TypeOK'
<1>0. /\ worker \in [Worker -> WorkerState] /\ row \in Row /\ stored \subseteq {"result", "poster"}
      /\ paid \in Nat /\ orphaned \in BOOLEAN
      /\ worker[w].loaded \in Row /\ worker[w].task \in Row
    BY DEF TypeOK, WorkerState
<1> SUFFICES /\ row' \in Row /\ stored' \subseteq {"result", "poster"}
             /\ worker' \in [Worker -> WorkerState]
             /\ paid' \in Nat /\ orphaned' \in BOOLEAN
  <2>1. revived' \in BOOLEAN
      BY DEF Work, TypeOK
  <2> QED
      BY <2>1 DEF Work, TypeOK, WorkerState, page
<1>1. CASE GiveUp(w)
  <2>1. row' \in Row
      BY <1>0, <1>1 DEF GiveUp, Row, Final
  <2> QED
      BY <1>0, <1>1, <2>1 DEF GiveUp
<1>2. CASE Claim(w)
  <2>1. row' \in Row
    <3> DEFINE a == IF row.status = "queued" \/ WasInterrupted
                    THEN row.attempts + 1 ELSE row.attempts
    <3>1. row' = [row EXCEPT !.attempts = a, !.status = "running", !.leased = TRUE]
        BY <1>2 DEF Claim
    <3>2. a \in Nat
        BY <1>0 DEF Row
    <3> QED
        BY <1>0, <3>1, <3>2 DEF Row, Active
  <2>2. worker' \in [Worker -> WorkerState]
      BY <1>0, <1>2 DEF Claim, Goto, WorkerState
  <2> QED
      BY <1>0, <1>2, <2>1, <2>2 DEF Claim
<1>3. CASE Load(w)
  <2>1. worker' \in [Worker -> WorkerState]
      BY <1>0, <1>3, Fresh DEF Load, Rest, WorkerState
  <2> QED
      BY <1>0, <1>3, <2>1 DEF Load
<1>4. CASE Accepted(w)
  <2>1. row' \in Row
      BY <1>0, <1>4 DEF Accepted, Row, Active
  <2>2. worker' \in [Worker -> WorkerState]
      BY <1>0, <1>4, <2>1 DEF Accepted, WorkerState
  <2> QED
      BY <1>0, <1>4, <2>1, <2>2 DEF Accepted
<1>5. CASE Progress(w)
  <2>1. row' \in Row
      BY <1>0, <1>5 DEF Progress, Row, Active
  <2>2. worker' \in [Worker -> WorkerState]
      BY <1>0, <1>5, <2>1 DEF Progress, WorkerState
  <2> QED
      BY <1>0, <1>5, <2>1, <2>2 DEF Progress
<1>6. CASE Pending(w)
  <2>1. worker' \in [Worker -> WorkerState]
      BY <1>0, <1>6, Fresh DEF Pending, Rest
  <2> QED
      BY <1>0, <1>6, <2>1, PendingRow DEF Pending
<1>7. CASE Generated(w)
  <2>0. PICK poster \in BOOLEAN :
        /\ stored' \subseteq stored \cup {"result", "poster"}
        /\ Keeps(w, "completing", [worker[w].task EXCEPT !.provider = @ \/ kind = "video",
                                                          !.result = TRUE, !.poster = poster])
      BY <1>7 DEF Generated
  <2> DEFINE t == [worker[w].task EXCEPT !.provider = @ \/ kind = "video",
                                          !.result = TRUE, !.poster = poster]
  <2>1. worker' \in [Worker -> WorkerState]
    <3>1. worker[w].task.provider \in BOOLEAN
        BY <1>0 DEF Row
    <3>2. t \in Row
        BY <1>0, <3>1 DEF Row
    <3>3. worker' = [worker EXCEPT ![w] = [worker[w] EXCEPT !.pc = "completing", !.task = t]]
        BY <2>0 DEF Keeps
    <3> HIDE DEF t
    <3> QED
        BY <1>0, <3>2, <3>3 DEF WorkerState
  <2> QED
      BY <1>0, <1>7, <2>0, <2>1 DEF Generated
<1>8. CASE Refused(w)
  <2> DEFINE t == [worker[w].task EXCEPT !.provider = @ \/ kind = "video"]
  <2>1. worker' \in [Worker -> WorkerState]
    <3>1. worker[w].task.provider \in BOOLEAN
        BY <1>0 DEF Row
    <3>2. t \in Row
        BY <1>0, <3>1 DEF Row
    <3>3. worker' = [worker EXCEPT ![w] = [worker[w] EXCEPT !.pc = "failing", !.task = t]]
        BY <1>8 DEF Refused, Keeps
    <3> HIDE DEF t
    <3> QED
        BY <1>0, <3>2, <3>3 DEF WorkerState
  <2> QED
      BY <1>0, <1>8, <2>1 DEF Refused
<1>9. CASE CallFails(w)
  <2>1. worker' \in [Worker -> WorkerState]
      BY <1>0, <1>9 DEF CallFails, Goto, WorkerState
  <2> QED
      BY <1>0, <1>9, <2>1 DEF CallFails
<1>10. CASE End(w)
  <2>1. worker' \in [Worker -> WorkerState]
      BY <1>0, <1>10, Fresh DEF End, Rest
  <2>2. stored' \subseteq {"result", "poster"}
      BY <1>0, <1>10 DEF End
  <2> QED
      BY <1>0, <1>10, <2>1, <2>2, EndRow DEF End
<1> QED
    BY <1>1, <1>2, <1>3, <1>4, <1>5, <1>6, <1>7, <1>8, <1>9, <1>10 DEF Work

LEMMA OtherTypes ==
    ASSUME TypeOK,
           \/ \E w \in Worker : BackfillPoster(w) \/ Interrupt(w)
           \/ LeaseExpires \/ LeaseLapses \/ Handlers \/ Page \/ User
    PROVE  TypeOK'
<1>0. /\ row \in Row /\ worker \in [Worker -> WorkerState] /\ extras \in 0..MaxExtras[kind]
      /\ MaxExtras[kind] \in Nat /\ View(row.status) \in Shown
      /\ stored \subseteq {"result", "poster"}
    BY MediaAssumption DEF TypeOK, WorkerState, View, Shown, Row
<1>1. ASSUME NEW w \in Worker, BackfillPoster(w)
      PROVE  TypeOK'
  <2>1. row' \in Row
      BY <1>0, <1>1 DEF BackfillPoster, Row
  <2> QED
      BY <1>0, <1>1, <2>1 DEF BackfillPoster, TypeOK, page
<1>2. ASSUME NEW w \in Worker, Interrupt(w)
      PROVE  TypeOK'
  <2>1. worker' \in [Worker -> WorkerState]
      BY <1>0, <1>2, Fresh DEF Interrupt, Rest
  <2>2. extras' \in 0..MaxExtras[kind] /\ kind' = kind
      BY <1>0, <1>2 DEF Interrupt, Extra
  <2> QED
      BY <1>0, <1>2, <2>1, <2>2 DEF Interrupt, TypeOK, page, WorkerState
<1>3. CASE LeaseExpires \/ LeaseLapses
  <2>1. row' \in Row
      BY <1>0, <1>3 DEF LeaseExpires, LeaseLapses, EndLease, Row
  <2>2. extras' \in 0..MaxExtras[kind] /\ kind' = kind
      BY <1>0, <1>3 DEF LeaseExpires, LeaseLapses, EndLease, Extra
  <2> QED
      BY <1>3, <2>1, <2>2 DEF LeaseExpires, LeaseLapses, EndLease, TypeOK, page
<1>4. CASE CancelWrite
  <2>1. row' \in Row
      BY <1>0, <1>4 DEF CancelWrite, Row, Final
  <2> QED
      BY <1>4, <2>1 DEF CancelWrite, TypeOK, page
<1>5. CASE ReadList \/ ReadMessages
    BY <1>0, <1>5 DEF ReadList, ReadMessages, TypeOK, server
<1>6. CASE Created
    BY <1>6 DEF Created, TypeOK, server, Shown
<1>7. CASE Poll
    BY <1>7 DEF Poll, TypeOK, server
<1>8. CASE ListArrives \/ MessagesArrive
    BY <1>8 DEF ListArrives, MessagesArrive, TypeOK, server, Shown, Merged
<1>9. CASE Canceled
    BY <1>9 DEF Canceled, TypeOK, server, Shown, Final, Merged
<1>10. CASE CreateTask
  <2>1. row' \in Row
      BY <1>0, <1>10 DEF CreateTask, Row, Active
  <2> QED
      BY <1>10, <2>1 DEF CreateTask, TypeOK
<1>11. CASE CancelRead
    BY <1>11 DEF CancelRead, TypeOK, server, page
<1>12. CASE Refetch
    BY <1>0, <1>12 DEF Refetch, Extra, TypeOK, server
<1> QED
    BY <1>1, <1>2, <1>3, <1>4, <1>5, <1>6, <1>7, <1>8, <1>9, <1>10, <1>11, <1>12
    DEF Handlers, Page, User

LEMMA InitTypes == Init => TypeOK
<1>1. Init => 0 \in 0..MaxExtras[kind]
    BY MediaAssumption DEF Init
<1>2. ASSUME Init
      PROVE  worker \in [Worker -> WorkerState]
    BY <1>2, Fresh DEF Init
<1>3. ASSUME Init
      PROVE  row \in Row
    BY <1>3, Fresh DEF Init
<1>4. ASSUME Init
      PROVE  /\ kind \in Kinds /\ stored = {} /\ cancel = "idle" /\ creating = FALSE
             /\ list = "none" /\ card = "none" /\ listCall = "sent" /\ msgCall = "sent"
             /\ extras = 0 /\ paid = 0 /\ overtaken = FALSE
             /\ late = FALSE /\ lapsed = FALSE /\ revived = FALSE /\ orphaned = FALSE
    BY <1>4 DEF Init
<1> QED
    BY <1>1, <1>2, <1>3, <1>4 DEF TypeOK, Shown, WorkerState

LEMMA NextTypes == TypeOK /\ [Next]_vars => TypeOK'
<1>1. ASSUME TypeOK, UNCHANGED vars
      PROVE  TypeOK'
    BY <1>1 DEF vars, server, page, TypeOK
<1> QED
    BY <1>1, WorkTypes, OtherTypes DEF Next, Trouble

(* Every part of the row, of the sessions and of the page keeps its kind of value. *)
THEOREM TypeCorrect == Spec => []TypeOK
BY InitTypes, NextTypes, PTL DEF Spec

-----------------------------------------------------------------------------
(* Sessions *)

(* A flush keeps the status and the attempts of the row, and only adds what is known of
   the provider. *)
LEMMA FlushedSession ==
    ASSUME TypeOK, NEW w \in Worker, Working(w), Session(w)
    PROVE  /\ Flushed(w).status = row.status
           /\ Flushed(w).attempts = row.attempts
           /\ row.provider \/ worker[w].task.provider => Flushed(w).provider
<1>1. /\ worker[w].loaded \in Row /\ worker[w].task \in Row /\ row \in Row
    BY DEF TypeOK
<1>2. /\ worker[w].loaded.provider \in BOOLEAN /\ worker[w].task.provider \in BOOLEAN
      /\ row.provider \in BOOLEAN
    BY <1>1 DEF Row
<1>3. /\ Flushed(w)["status"] = IF worker[w].task["status"] # worker[w].loaded["status"]
                                THEN worker[w].task["status"] ELSE row["status"]
      /\ Flushed(w)["attempts"] = IF worker[w].task["attempts"] # worker[w].loaded["attempts"]
                                  THEN worker[w].task["attempts"] ELSE row["attempts"]
      /\ Flushed(w)["provider"] = IF worker[w].task["provider"] # worker[w].loaded["provider"]
                                  THEN worker[w].task["provider"] ELSE row["provider"]
    BY FlushedRow DEF Fields
<1> QED
    BY <1>2, <1>3 DEF Session

(* A worker's step is its own. *)
LEMMA Others ==
    ASSUME TypeOK, NEW w \in Worker, Work(w)
    PROVE  /\ \A v \in Worker : v # w => worker'[v] = worker[v]
           /\ worker \in [Worker -> WorkerState] /\ row \in Row
           /\ kind' = kind /\ extras' = extras /\ late' = late /\ lapsed' = lapsed
           /\ revived => revived'
           /\ row.status \in Settled /\ row'.status = "running" => revived'
<1>1. worker \in [Worker -> WorkerState] /\ row \in Row
    BY DEF TypeOK, WorkerState
<1>2. \A v \in Worker : v # w => worker'[v] = worker[v]
  <2>1. CASE Generated(w)
      BY <1>1, <2>1 DEF Generated, Keeps
  <2>2. CASE Refused(w)
      BY <1>1, <2>2 DEF Refused, Keeps
  <2> QED
      BY <1>1, <2>1, <2>2
      DEF Work, GiveUp, Claim, Load, Accepted, Progress, Pending, CallFails, End, Goto, Rest
<1> QED
    BY <1>1, <1>2 DEF Work, Settled, Final

(* What each step of a worker does, without its records. *)
LEMMA Steps ==
    ASSUME TypeOK, Sessions, NEW w \in Worker, Work(w)
    PROVE
      \/ /\ GiveUp(w)
         /\ worker' = worker /\ paid' = paid /\ row.status = "running" /\ ~row.leased
         /\ row'.status = "failed" /\ row'.attempts = row.attempts /\ row'.provider = row.provider
      \/ /\ Claim(w)
         /\ worker[w].pc = "idle" /\ worker'[w].pc = "claimed" /\ paid' = paid
         /\ row.status = "queued" \/ (row.status = "running" /\ ~row.leased)
         /\ row'.status = "running" /\ row'.leased /\ row'.provider = row.provider
      \/ /\ Load(w)
         /\ worker[w].pc = "claimed" /\ row' = row
         /\ \/ row.status = "canceled" /\ worker'[w].pc = "idle" /\ paid' = paid
            \/ /\ row.status # "canceled" /\ worker'[w].pc \in {"calling", "generating"}
               /\ worker'[w].loaded = row /\ worker'[w].task = row
               /\ paid' = IF Resumable /\ row.provider THEN paid ELSE paid + 1
      \/ /\ Accepted(w) \/ Progress(w)
         /\ Working(w) /\ worker'[w].pc = "generating" /\ paid' = paid
         /\ worker'[w].loaded = row' /\ worker'[w].task = row'
         /\ row'.attempts = row.attempts
         /\ row' = row \/ (row'.status = "running" /\ row'.leased)
         /\ row.status = "canceled" <=> row'.status = "canceled"
         /\ row.provider => row'.provider
         /\ row'.provider => row.provider \/ kind = "song"
         /\ row'.status # "running" => kind = "song"
      \/ /\ Pending(w)
         /\ Working(w) /\ worker'[w].pc = "idle" /\ paid' = paid /\ kind = "video"
         /\ row'.leased /\ row'.provider /\ row'.attempts = row.attempts
         /\ row'.status = IF worker[w].loaded.status # "running" THEN "running" ELSE row.status
      \/ /\ Generated(w) \/ Refused(w) \/ CallFails(w)
         /\ Working(w) /\ row' = row /\ paid' = paid
         /\ worker'[w].pc \in {"completing", "failing", "retrying"}
         /\ worker'[w].loaded = worker[w].loaded
         /\ worker'[w].task.status = worker[w].task.status
         /\ worker'[w].task.attempts = worker[w].task.attempts
         /\ worker[w].task.provider => worker'[w].task.provider
         /\ worker'[w].task.provider => worker[w].task.provider \/ kind = "video"
         /\ worker'[w].pc = "retrying" => worker'[w].task.provider
      \/ /\ End(w)
         /\ Working(w) /\ worker'[w].pc = "idle" /\ paid' = paid
         /\ row'.attempts = row.attempts
         /\ row.provider \/ worker[w].task.provider => row'.provider
         /\ row'.provider => row.provider \/ worker[w].task.provider
         /\ row.status = "canceled" => row'.status = "canceled"
         /\ row.status # "canceled" =>
               \/ row'.status \in Settled
               \/ (worker[w].pc = "retrying" /\ row'.status = "running" /\ row'.leased)
<1>1. /\ worker \in [Worker -> WorkerState] /\ row \in Row
      /\ worker[w].loaded \in Row /\ worker[w].task \in Row
    BY DEF TypeOK, WorkerState
<1>2. CASE GiveUp(w)
    BY <1>1, <1>2 DEF GiveUp, Claimable, WasInterrupted, Row
<1>3. CASE Claim(w)
    BY <1>1, <1>3 DEF Claim, Claimable, Goto, Row, WorkerState
<1>4. CASE Load(w)
    BY <1>1, <1>4 DEF Load, Rest, IdleWorker
<1>5. CASE Accepted(w)
  <2>1. /\ worker'[w].pc = "generating" /\ worker'[w].loaded = row' /\ worker'[w].task = row'
        /\ Working(w) /\ paid' = paid /\ kind = "song"
      BY <1>1, <1>5 DEF Accepted, Working
  <2>2. CASE row.status = "canceled"
    <3>1. row' = row
        BY <1>5, <2>2 DEF Accepted
    <3> QED
        BY <1>5, <2>1, <3>1
  <2>3. CASE row.status # "canceled"
    <3>1. row' = [row EXCEPT !.provider = TRUE, !.status = "running", !.leased = TRUE]
        BY <1>5, <2>3 DEF Accepted
    <3>2. /\ row'.attempts = row.attempts /\ row'.status = "running" /\ row'.leased /\ row'.provider
        BY <1>1, <3>1 DEF Row
    <3> QED
        BY <1>5, <2>1, <2>3, <3>2
  <2> QED
      BY <2>2, <2>3
<1>6. CASE Progress(w)
    BY <1>1, <1>6 DEF Progress, Row, Working, WorkerState
<1>7. CASE Pending(w)
  <2>1. worker'[w].pc = "idle" /\ kind = "video" /\ Working(w) /\ paid' = paid
      BY <1>1, <1>7 DEF Pending, Rest, IdleWorker, Working
  <2>2. Session(w)
      BY <2>1 DEF Sessions
  <2> QED
      BY <1>7, <2>1, <2>2, PendingRow DEF Session
<1>8. CASE Generated(w)
  <2>1. PICK poster \in BOOLEAN :
            Keeps(w, "completing", [worker[w].task EXCEPT !.provider = @ \/ kind = "video",
                                                          !.result = TRUE, !.poster = poster])
      BY <1>8 DEF Generated
  <2>2. Working(w) /\ row' = row /\ paid' = paid
      BY <1>8 DEF Generated, Answers, Working
  <2>3. /\ worker'[w].pc = "completing" /\ worker'[w].loaded = worker[w].loaded
        /\ worker'[w].task = [worker[w].task EXCEPT !.provider = @ \/ kind = "video",
                                                    !.result = TRUE, !.poster = poster]
      BY <1>1, <2>1 DEF Keeps, WorkerState
  <2>4. /\ worker'[w].task.status = worker[w].task.status
        /\ worker'[w].task.attempts = worker[w].task.attempts
        /\ worker'[w].task.provider = (worker[w].task.provider \/ kind = "video")
      BY <1>1, <2>3 DEF Row
  <2> QED
      BY <1>8, <2>2, <2>3, <2>4
<1>9. CASE Refused(w)
    BY <1>1, <1>9 DEF Refused, Answers, Keeps, Row, Working, WorkerState
<1>10. CASE CallFails(w)
    BY <1>1, <1>10 DEF CallFails, Goto, Row, Working, WorkerState
<1>11. CASE End(w)
  <2>1. worker'[w].pc = "idle" /\ Working(w) /\ paid' = paid
      BY <1>1, <1>11 DEF End, Rest, IdleWorker, Working
  <2>2. Session(w)
      BY <2>1 DEF Sessions
  <2>3. Flushed(w).provider => row.provider \/ worker[w].task.provider
      BY FlushedRow DEF Fields
  <2> QED
      BY <1>11, <2>1, <2>2, <2>3, EndRow, FlushedSession DEF Settled
<1> QED
    BY <1>2, <1>3, <1>4, <1>5, <1>6, <1>7, <1>8, <1>9, <1>10, <1>11 DEF Work

LEMMA StartedWork ==
    ASSUME TypeOK, Sessions, Started, NEW w \in Worker, Work(w)
    PROVE  Started'
<1>1. /\ \A v \in Worker : v # w => worker'[v] = worker[v]
      /\ kind' = kind /\ extras' = extras /\ lapsed' = lapsed
    BY Others
<1>2. /\ \A v \in Worker : v # w => (Busy(v)' <=> Busy(v)) /\ (Working(v)' <=> Working(v))
      /\ Resumable' <=> Resumable
      /\ Working(w) => Busy(w)
    BY <1>1 DEF Busy, Working, Resumable
<1>3. Busy(w) => row.status \notin {"none", "queued"}
    BY DEF Started
<1>4. row'.status \in {"none", "queued"} =>
          row.status \in {"none", "queued"} /\ row'.attempts = row.attempts
             /\ row'.provider = row.provider /\ ~Busy(w) /\ worker' = worker
    BY <1>3, Steps DEF Settled, Busy, Working
<1>5. /\ (\A v \in Worker : Busy(v) => row.status \notin {"none", "queued"})'
      /\ (row.status \in {"none", "queued"} => row.attempts = 0 /\ ~row.provider)'
    BY <1>3, <1>4 DEF Started, Busy
<1>6. (row.provider => Resumable)'
    BY <1>2, Steps DEF Started, Resumable
<1>7. (\A v \in Worker : worker[v].pc = "retrying" => worker[v].task.provider)'
    BY <1>1, Steps DEF Started
<1>8. (\A v \in Worker : Working(v) /\ worker[v].task.provider => Resumable)'
    BY <1>1, <1>2, <1>6, Steps DEF Started, Resumable, Working
<1> QED
    BY <1>1, <1>5, <1>6, <1>7, <1>8 DEF Started

LEMMA SessionsWork ==
    ASSUME TypeOK, Sessions, Started, NEW w \in Worker, Work(w)
    PROVE  Sessions'
<1>1. /\ \A v \in Worker : v # w => worker'[v] = worker[v]
      /\ kind' = kind /\ late' = late /\ (revived => revived')
      /\ row.status \in Settled /\ row'.status = "running" => revived'
    BY Others
<1>2. row.provider => row'.provider
    BY Steps
<1>3. row.status \in Settled => row'.status \in Settled \/ revived'
    BY <1>1, Steps DEF Settled
<1>4. ASSUME NEW v \in Worker, Working(v)', v # w
      PROVE  Session(v)'
  <2>1. worker'[v] = worker[v] /\ Working(v)
      BY <1>1, <1>4 DEF Working
  <2> QED
      BY <1>1, <1>2, <1>3, <2>1 DEF Sessions, Session
<1>5. ASSUME Working(w)'
      PROVE  Session(w)'
  <2>1. CASE Load(w)
    <3>1. Busy(w) /\ row \in Row
        BY <2>1 DEF Load, Busy, TypeOK
    <3>2. row.status \in {"running", "canceled"} \cup Settled
        BY <3>1 DEF Started, Row, Active, Final, Settled
    <3>3. /\ worker'[w].loaded = row /\ worker'[w].task = row /\ row' = row
          /\ row.status # "canceled"
        BY <1>5, <2>1, Steps DEF Load, Working, Claim, GiveUp, End, Pending, Accepted, Progress,
           Generated, Answers, Refused, CallFails
    <3> QED
        BY <3>2, <3>3 DEF Session
  <2>2. CASE Working(w)
      BY <1>1, <1>2, <1>3, <1>5, <2>2, Steps DEF Session, Sessions, Working
  <2> QED
      BY <1>5, <2>1, <2>2, Steps DEF Working
<1> QED
    BY <1>4, <1>5 DEF Sessions

LEMMA AloneWork ==
    ASSUME TypeOK, Sessions, Started, Alone, NEW w \in Worker, Work(w)
    PROVE  Alone'
<1>1. /\ \A v \in Worker : v # w => worker'[v] = worker[v]
      /\ kind' = kind /\ lapsed' = lapsed
    BY Others
<1> SUFFICES ASSUME ~lapsed
             PROVE  /\ \A u, v \in Worker : Busy(u)' /\ Busy(v)' => u = v
                    /\ \A v \in Worker : Busy(v)' =>
                         row'.status = "canceled" \/ (row'.status = "running" /\ row'.leased)
                    /\ \A v \in Worker : Working(v)' /\ kind' = "video"
                         => worker'[v].loaded.status = "running"
    BY <1>1 DEF Alone
<1>2. \A v \in Worker : v # w => (Busy(v)' <=> Busy(v))
    BY <1>1 DEF Busy
<1>3. CASE GiveUp(w) \/ Claim(w)
  <2>1. \A v \in Worker : ~Busy(v)
      BY <1>3 DEF Alone, Started, GiveUp, Claim, Claimable
  <2> QED
      BY <1>1, <1>2, <1>3, <2>1, Steps DEF Busy, Working
<1>4. CASE Busy(w)
  <2>1. \A v \in Worker : Busy(v) => v = w
      BY <1>4 DEF Alone
  <2>2. \A v \in Worker : Busy(v)' => v = w
      BY <1>2, <2>1
  <2>3. row.status = "canceled" \/ (row.status = "running" /\ row.leased)
      BY <1>4 DEF Alone
  <2>4. Busy(w)' => row'.status = "canceled" \/ (row'.status = "running" /\ row'.leased)
      BY <1>4, <2>3, Steps DEF Busy
  <2>5. Working(w)' /\ kind' = "video" => worker'[w].loaded.status = "running"
    <3>1. Working(w) /\ kind = "video" => worker[w].loaded.status = "running"
        BY DEF Alone
    <3> QED
        BY <1>1, <2>3, <3>1, Steps DEF Working
  <2> QED
      BY <2>2, <2>4, <2>5 DEF Busy, Working
<1> QED
    BY <1>3, <1>4, Steps DEF Busy, Working

-----------------------------------------------------------------------------
(* What is paid for *)

LEMMA PaidOnceWork ==
    ASSUME TypeOK, Sessions, Started, Alone, PaidOnce, NEW w \in Worker, Work(w)
    PROVE  PaidOnce'
<1>1. /\ \A v \in Worker : v # w => worker'[v] = worker[v]
      /\ kind' = kind /\ extras' = extras /\ lapsed' = lapsed
    BY Others
<1> SUFFICES ASSUME extras = 0
             PROVE  /\ paid' <= 1
                    /\ paid' = 1 => \/ row'.status \in Final
                                    \/ row'.provider
                                    \/ \E v \in Worker : Working(v)'
    BY <1>1 DEF PaidOnce
<1>2. /\ ~lapsed /\ paid \in Nat /\ paid <= 1
      /\ paid = 1 => row.status \in Final \/ row.provider \/ \E v \in Worker : Working(v)
    BY DEF Started, PaidOnce, TypeOK
<1>3. Settled \subseteq Final /\ "canceled" \in Final /\ "queued" \notin Final
      /\ "running" \notin Final /\ "failed" \in Final
    BY DEF Settled, Final
<1>4. CASE GiveUp(w)
    BY <1>2, <1>3, <1>4, Steps DEF GiveUp
<1>5. CASE Claim(w)
  <2>1. \A v \in Worker : ~Busy(v)
      BY <1>2, <1>5 DEF Alone, Started, Claim, Claimable
  <2>2. \A v \in Worker : ~Working(v)
      BY <2>1 DEF Busy, Working
  <2>3. row'.provider = row.provider /\ paid' = paid
      BY <1>5, Steps DEF Claim, GiveUp, Working, Load
  <2>4. row.status \notin Final
      BY <1>3, <1>5 DEF Claim, Claimable
  <2> QED
      BY <1>2, <2>2, <2>3, <2>4
<1>6. CASE Load(w)
  <2>1. worker[w].pc = "claimed" /\ row' = row
      BY <1>6 DEF Load
  <2>2. \A v \in Worker : ~Working(v)
      BY <1>2, <2>1 DEF Alone, Busy, Working
  <2>3. row.status = "canceled" \/ row.status = "running"
      BY <1>2, <2>1 DEF Alone, Busy
  <2>4. CASE row.status = "canceled"
    <3>1. paid' = paid
        BY <1>6, <2>4 DEF Load
    <3> QED
        BY <1>2, <1>3, <2>1, <2>4, <3>1
  <2>5. CASE row.status # "canceled"
    <3>1. Working(w)' /\ paid' = IF Resumable /\ row.provider THEN paid ELSE paid + 1
        BY <1>6, <2>1, <2>5, Steps DEF Working, Load
    <3>2. row.provider => Resumable
        BY DEF Started
    <3> QED
        BY <1>2, <1>3, <2>2, <2>3, <2>5, <3>1, <3>2
  <2> QED
      BY <2>4, <2>5
<1>7. CASE Working(w)
  <2>1. paid' = paid
      BY <1>7, Steps DEF Working
  <2>2. Working(w)' \/ row'.status \in Final \/ row'.provider
      BY <1>3, <1>7, Steps DEF Working, Started
  <2> QED
      BY <1>2, <2>1, <2>2
<1> QED
    BY <1>4, <1>5, <1>6, <1>7, Steps

LEMMA PaidTwiceWork ==
    ASSUME TypeOK, Sessions, Started, PaidTwice, NEW w \in Worker, Work(w)
    PROVE  PaidTwice'
<1>1. /\ \A v \in Worker : v # w => worker'[v] = worker[v]
      /\ kind' = kind
    BY Others
<1> SUFFICES ASSUME kind # "video"
             PROVE  /\ row'.attempts <= 2 /\ paid' <= 2
                    /\ ~row'.provider => paid' + Cardinality(Claimed') <= row'.attempts
    BY <1>1 DEF PaidTwice
<1>2. /\ row.attempts <= 2 /\ paid <= 2 /\ paid \in Nat /\ row.attempts \in Nat
      /\ ~row.provider => paid + Cardinality(Claimed) <= row.attempts
      /\ row.provider \in BOOLEAN
    BY DEF PaidTwice, TypeOK, Row
<1>3. IsFiniteSet(Claimed) /\ Cardinality(Claimed) \in Nat
    BY MediaAssumption, FS_Subset, FS_CardinalityType DEF Claimed
<1>4. CASE GiveUp(w)
  <2>1. worker' = worker /\ paid' = paid /\ row'.attempts = row.attempts
        /\ row'.provider = row.provider
      BY <1>4, Steps DEF GiveUp, Claim, Load, Working
  <2>2. Claimed' = Claimed
      BY <2>1 DEF Claimed
  <2> QED
      BY <1>2, <2>1, <2>2
<1>5. CASE Claim(w)
  <2>1. worker[w].pc = "idle" /\ worker'[w].pc = "claimed" /\ paid' = paid
        /\ row'.provider = row.provider
      BY <1>5, Steps DEF GiveUp, Claim, Load, Working
  <2>2. Claimed' = Claimed \cup {w} /\ w \notin Claimed
      BY <1>1, <2>1 DEF Claimed
  <2>3. Cardinality(Claimed') = Cardinality(Claimed) + 1
      BY <1>3, <2>2, FS_AddElement
  <2>4. row'.attempts = IF row.status = "queued" \/ WasInterrupted
                        THEN row.attempts + 1 ELSE row.attempts
      BY <1>5 DEF Claim, TypeOK, Row
  <2>5. /\ row.status = "queued" => row.attempts = 0
        /\ WasInterrupted => row.attempts < 2
        /\ row.provider \/ row.status = "queued" \/ WasInterrupted
      BY <1>5 DEF Claim, Started, Claimable, WasInterrupted
  <2> QED
      BY <1>2, <1>3, <2>1, <2>3, <2>4, <2>5
<1>6. CASE Load(w)
  <2>1. w \in Claimed /\ row' = row /\ worker'[w].pc # "claimed"
      BY <1>6, Steps DEF Load, Claimed, GiveUp, Claim, Working
  <2>2. Claimed' = Claimed \ {w}
      BY <1>1, <2>1 DEF Claimed
  <2>3. Cardinality(Claimed') = Cardinality(Claimed) - 1
      BY <1>3, <2>1, <2>2, FS_RemoveElement
  <2>4. Cardinality(Claimed) >= 1
    <3>1. Cardinality(Claimed') \in Nat
        BY <1>3, <2>2, FS_Subset, FS_CardinalityType
    <3> QED
        BY <1>3, <2>3, <3>1
  <2>5. paid' = paid \/ (paid' = paid + 1 /\ ~(Resumable /\ row.provider))
      BY <1>6 DEF Load
  <2>6. row.provider => Resumable
      BY DEF Started
  <2> QED
      BY <1>2, <1>3, <2>1, <2>3, <2>4, <2>5, <2>6
<1>7. CASE Working(w)
  <2>1. paid' = paid /\ row'.attempts = row.attempts /\ (row.provider => row'.provider)
        /\ worker'[w].pc # "claimed"
      BY <1>7, Steps DEF Working
  <2>2. Claimed' = Claimed
      BY <1>1, <1>7, <2>1 DEF Claimed, Working
  <2> QED
      BY <1>2, <1>3, <2>1, <2>2
<1> QED
    BY <1>4, <1>5, <1>6, <1>7, Steps

-----------------------------------------------------------------------------
(* The inductive invariant *)

IInv == TypeOK /\ Sessions /\ Started /\ Alone /\ PaidOnce /\ PaidTwice

LEMMA InitInv == Init => IInv
<1> SUFFICES ASSUME Init
             PROVE  IInv
    OBVIOUS
<1>1. TypeOK
    BY InitTypes
<1>2. /\ row.status = "none" /\ row.attempts = 0 /\ ~row.provider /\ paid = 0 /\ ~lapsed
      /\ \A w \in Worker : worker[w].pc = "idle"
    BY DEF Init, NoRow, IdleWorker
<1>3. Claimed = {}
    BY <1>2 DEF Claimed
<1>4. PaidTwice
    BY <1>2, <1>3, FS_EmptySet DEF PaidTwice
<1> QED
    BY <1>1, <1>2, <1>4 DEF IInv, Sessions, Started, Alone, PaidOnce, Working, Busy

(* The invariant looks at nothing of the page. *)
LEMMA QuietInv ==
    ASSUME IInv, TypeOK', UNCHANGED <<kind, row, worker, paid, extras, late, lapsed>>,
           revived => revived'
    PROVE  IInv'
<1>1. /\ \A w \in Worker : (Busy(w)' <=> Busy(w)) /\ (Working(w)' <=> Working(w))
      /\ Resumable' = Resumable /\ Claimed' = Claimed
    BY DEF Busy, Working, Resumable, Claimed
<1>2. Sessions'
    BY <1>1 DEF IInv, Sessions, Session
<1>3. Started'
    BY <1>1 DEF IInv, Started
<1>4. Alone' /\ PaidOnce' /\ PaidTwice'
    BY <1>1 DEF IInv, Alone, PaidOnce, PaidTwice
<1> QED
    BY <1>2, <1>3, <1>4 DEF IInv

(* The invariant and a row somebody else has written. *)
LEMMA RowInv ==
    ASSUME IInv, TypeOK', UNCHANGED <<kind, worker, paid, revived>>,
           row'.attempts = row.attempts, row'.provider = row.provider,
           extras' = extras \/ extras' # 0, late => late', lapsed => lapsed',
           extras' = 0 => ~lapsed',
           \/ row'.status = row.status
           \/ row.status = "none" /\ row'.status = "queued"
           \/ row'.status = "canceled" /\ (row.status \notin Settled \/ late'),
           row'.leased = row.leased \/ lapsed' \/ row'.status = "canceled"
              \/ \A w \in Worker : ~Busy(w)
    PROVE  IInv'
<1>1. /\ \A w \in Worker : (Busy(w)' <=> Busy(w)) /\ (Working(w)' <=> Working(w))
      /\ \A w \in Worker : Working(w) => Busy(w)
      /\ Resumable' = Resumable /\ Claimed' = Claimed
    BY DEF Busy, Working, Resumable, Claimed
<1>2. row.status = "none" => \A w \in Worker : ~Busy(w)
    BY DEF IInv, Started
<1>3. Sessions'
    BY <1>1, <1>2 DEF IInv, Sessions, Session, Settled
<1>4. Started'
    BY <1>1, <1>2 DEF IInv, Started
<1>5. Alone'
    BY <1>1, <1>2 DEF IInv, Alone
<1>6. PaidOnce'
  <2>1. extras' = 0 => extras = 0
      BY DEF IInv, TypeOK
  <2>2. row.status \in Final => row'.status \in Final
      BY DEF Final
  <2>3. row.status = "none" => ~row.provider
      BY DEF IInv, Started
  <2> QED
      BY <1>1, <1>2, <2>1, <2>2, <2>3 DEF IInv, PaidOnce
<1>7. PaidTwice'
    BY <1>1 DEF IInv, PaidTwice
<1> QED
    BY <1>3, <1>4, <1>5, <1>6, <1>7 DEF IInv

LEMMA InterruptInv ==
    ASSUME IInv, TypeOK', NEW w \in Worker, Interrupt(w)
    PROVE  IInv'
<1>1. /\ worker' = [worker EXCEPT ![w] = IdleWorker] /\ extras' = extras + 1
      /\ UNCHANGED <<kind, row, paid, revived, late, lapsed>>
    BY DEF Interrupt, Rest, Extra
<1>2. worker'[w].pc = "idle" /\ \A v \in Worker : v # w => worker'[v] = worker[v]
    BY <1>1 DEF IInv, TypeOK, IdleWorker
<1>3. /\ \A v \in Worker : Busy(v)' => Busy(v) /\ worker'[v] = worker[v]
      /\ \A v \in Worker : Working(v)' => Working(v) /\ worker'[v] = worker[v]
      /\ Resumable' = Resumable
    BY <1>1, <1>2 DEF Busy, Working, Resumable
<1>4. extras' # 0
    BY <1>1 DEF IInv, TypeOK
<1>5. Sessions'
    BY <1>1, <1>3 DEF IInv, Sessions, Session
<1>6. Started'
    BY <1>1, <1>2, <1>3, <1>4 DEF IInv, Started
<1>7. Alone'
    BY <1>1, <1>3 DEF IInv, Alone
<1>8. PaidOnce'
    BY <1>4 DEF PaidOnce
<1>9. PaidTwice'
  <2>1. Claimed' \subseteq Claimed /\ IsFiniteSet(Claimed)
      BY <1>2, MediaAssumption, FS_Subset DEF Claimed
  <2>2. /\ Cardinality(Claimed') <= Cardinality(Claimed)
        /\ Cardinality(Claimed) \in Nat /\ Cardinality(Claimed') \in Nat
      BY <2>1, FS_Subset, FS_CardinalityType
  <2>3. row.attempts \in Nat /\ paid \in Nat
      BY DEF IInv, TypeOK, Row
  <2> QED
      BY <1>1, <2>2, <2>3 DEF IInv, PaidTwice
<1> QED
    BY <1>5, <1>6, <1>7, <1>8, <1>9 DEF IInv

LEMMA NextInv == IInv /\ [Next]_vars => IInv'
<1> SUFFICES ASSUME IInv, [Next]_vars
             PROVE  IInv'
    OBVIOUS
<1>0. TypeOK /\ TypeOK' /\ row \in Row /\ extras \in Nat
    BY NextTypes DEF IInv, TypeOK
<1>1. ASSUME NEW w \in Worker, Work(w)
      PROVE  IInv'
    BY <1>0, <1>1, StartedWork, SessionsWork, AloneWork, PaidOnceWork, PaidTwiceWork DEF IInv
<1>2. ASSUME NEW w \in Worker, BackfillPoster(w)
      PROVE  IInv'
  <2>1. row' = [row EXCEPT !.poster = TRUE] /\ row.status = "succeeded"
      BY <1>2 DEF BackfillPoster, NeedsPoster
  <2>2. /\ row'.status = row.status /\ row'.attempts = row.attempts
        /\ row'.provider = row.provider /\ row'.leased = row.leased
      BY <1>0, <2>1 DEF Row
  <2>3. extras' = 0 => ~lapsed'
      BY <1>2 DEF BackfillPoster, IInv, Started
  <2> QED
      BY <1>0, <1>2, <2>2, <2>3, RowInv DEF BackfillPoster
<1>3. ASSUME NEW w \in Worker, Interrupt(w)
      PROVE  IInv'
    BY <1>0, <1>3, InterruptInv
<1>4. CASE LeaseExpires \/ LeaseLapses
  <2>1. row' = [row EXCEPT !.leased = FALSE] /\ UNCHANGED <<kind, worker, paid, revived, late>>
      BY <1>4 DEF LeaseExpires, LeaseLapses, EndLease
  <2>2. row'.status = row.status /\ row'.attempts = row.attempts /\ row'.provider = row.provider
      BY <1>0, <2>1 DEF Row
  <2>3. CASE LeaseExpires
    <3>1. UNCHANGED <<extras, lapsed>> /\ \A w \in Worker : ~Busy(w)
        BY <2>3 DEF LeaseExpires
    <3>2. extras' = 0 => ~lapsed'
        BY <3>1 DEF IInv, Started
    <3> QED
        BY <1>0, <2>1, <2>2, <3>1, <3>2, RowInv
  <2>4. CASE LeaseLapses
    <3>1. extras' # 0 /\ lapsed'
        BY <1>0, <2>4 DEF LeaseLapses, Extra
    <3> QED
        BY <1>0, <2>1, <2>2, <3>1, RowInv
  <2> QED
      BY <1>4, <2>3, <2>4
<1>5. CASE CreateTask
  <2>1. row' = [row EXCEPT !.status = "queued"] /\ row.status = "none"
        /\ UNCHANGED <<kind, worker, paid, revived, extras, late, lapsed>>
      BY <1>5 DEF CreateTask
  <2>2. /\ row'.status = "queued" /\ row'.attempts = row.attempts
        /\ row'.provider = row.provider /\ row'.leased = row.leased
      BY <1>0, <2>1 DEF Row
  <2>3. extras' = 0 => ~lapsed'
      BY <2>1 DEF IInv, Started
  <2> QED
      BY <1>0, <2>1, <2>2, <2>3, RowInv
<1>6. CASE CancelWrite
  <2>1. row' = [row EXCEPT !.status = "canceled", !.leased = FALSE]
        /\ late' = (late \/ row.status \notin Active)
        /\ UNCHANGED <<kind, worker, paid, revived, extras, lapsed>>
      BY <1>6 DEF CancelWrite
  <2>2. row'.status = "canceled" /\ row'.attempts = row.attempts /\ row'.provider = row.provider
      BY <1>0, <2>1 DEF Row
  <2>3. /\ extras' = 0 => ~lapsed'
        /\ late => late'
        /\ row.status \notin Settled \/ late'
      BY <2>1 DEF IInv, Started, Settled, Active
  <2> QED
      BY <1>0, <2>1, <2>2, <2>3, RowInv
<1>7. CASE Page \/ ReadList \/ ReadMessages \/ CancelRead \/ UNCHANGED vars
    BY <1>0, <1>7, QuietInv
    DEF Page, Created, Poll, ListArrives, MessagesArrive, Canceled, ReadList, ReadMessages,
       CancelRead, server, page, vars
<1>8. CASE Refetch
  <2>1. UNCHANGED <<kind, row, worker, paid, revived, late, lapsed>> /\ extras' # 0
      BY <1>8, MediaAssumption DEF Refetch, Extra, server, TypeOK, IInv
  <2> QED
      BY <1>0, <2>1, RowInv
<1> QED
    BY <1>1, <1>2, <1>3, <1>4, <1>5, <1>6, <1>7, <1>8 DEF Next, Trouble, Handlers, User

-----------------------------------------------------------------------------
(* Objects.  Until a finished task runs again, only a worker that completes  *)
(* has an object of its own to name, and only a row that was final names one.*)

\* What a session knows of the objects.
Copied(w) ==
    /\ Working(w) /\ worker[w].pc # "completing" =>
          /\ worker[w].task.result = worker[w].loaded.result
          /\ worker[w].task.poster = worker[w].loaded.poster
    /\ worker[w].pc = "completing" =>
          /\ worker[w].task.result
          /\ row.status # "canceled" => "result" \in stored
    /\ Working(w) /\ (worker[w].loaded.result \/ worker[w].loaded.poster) =>
          worker[w].loaded.status \in Settled \/ late
    /\ Working(w) /\ worker[w].loaded.result =>
          row.status = "canceled" \/ (row.status \in Settled /\ row.result)

AllCopied == \A w \in Worker : Copied(w)

\* What the row names.
RowNames ==
    /\ row.result \/ row.poster => row.status \in Final
    /\ row.result /\ row.status # "canceled" => "result" \in stored
    /\ row.status = "succeeded" => row.result
    /\ row.status = "canceled" /\ ~late => ~row.result /\ ~row.poster

\* An object that no row names yet has a worker that will name it, or delete it.
Accounted ==
    ~late /\ ~orphaned /\ row.status \notin Settled =>
        \A o \in stored : \E w \in Worker : worker[w].pc = "completing" /\ worker[w].task[o]

ObjectsKept == ~revived => AllCopied /\ RowNames /\ Accounted

\* What a worker's step makes of the row's names and of the storage.
RowChange(w) ==
    /\ row.status = "canceled" => row'.status = "canceled"
    /\ row.status \in Settled => row'.status \in Settled
    /\ row'.status = "canceled" =>
          row.status = "canceled" /\ (row'.result => row.result) /\ (row'.poster => row.poster)
    /\ row'.status # "canceled" => (row.result => row'.result) /\ stored \subseteq stored'
    /\ row'.result => row.result \/ (worker[w].pc = "completing" /\ row'.status \in Settled)
    /\ row'.poster => row.poster \/ row'.status \in Settled
    /\ row'.status = "succeeded" => row.status = "succeeded" \/ row'.result

LEMMA ObjectsInit == Init => ObjectsKept
<1> SUFFICES ASSUME Init PROVE AllCopied /\ RowNames /\ Accounted
    BY DEF ObjectsKept
<1>1. /\ row.status = "none" /\ ~row.result /\ ~row.poster /\ stored = {}
      /\ \A w \in Worker : worker[w].pc = "idle"
    BY DEF Init, NoRow, IdleWorker
<1> QED
    BY <1>1 DEF AllCopied, Copied, Working, RowNames, Accounted

(* What a finalization makes of the names of the row it has locked. *)
LEMMA EndNames ==
    ASSUME TypeOK, Sessions, NEW w \in Worker, End(w)
    PROVE  \/ /\ row.status = "canceled" /\ row'.status = "canceled"
              /\ ~row'.result /\ ~row'.poster
              /\ stored' = stored \ {o \in {"result", "poster"} : Flushed(w)[o]}
           \/ /\ row.status # "canceled" /\ stored' = stored
              /\ row'.result = Flushed(w).result /\ row'.poster = Flushed(w).poster
              /\ worker[w].pc = "completing" => row'.status = "succeeded"
              /\ row'.status = "succeeded" => worker[w].pc = "completing"
              /\ row'.status \in Settled \/ row'.status = "running"
<1> DEFINE locked == Flushed(w)
<1>1. locked \in Row
    BY FlushedRow
<1>2. worker[w].pc \in {"completing", "failing", "retrying"} /\ locked.status = row.status
  <2>1. worker[w].pc \in {"completing", "failing", "retrying"}
      BY DEF End
  <2>2. Working(w) /\ Session(w)
      BY <2>1 DEF Working, Sessions
  <2> QED
      BY <2>1, <2>2, FlushedSession
<1>3. CASE locked.status = "canceled"
  <2>1. /\ row' = [locked EXCEPT !.result = FALSE, !.poster = FALSE]
        /\ stored' = stored \ {o \in {"result", "poster"} : locked[o]}
      BY <1>3 DEF End
  <2> HIDE DEF locked
  <2>2. ~row'.result /\ ~row'.poster /\ row'.status = "canceled"
      BY <1>1, <1>3, <2>1 DEF Row
  <2> QED
      BY <1>2, <1>3, <2>1, <2>2 DEF locked
<1>4. CASE locked.status # "canceled"
  <2>1. row' = Outcome(w, locked) /\ stored' = stored
      BY <1>4 DEF End
  <2> HIDE DEF locked
  <2>2. \/ worker[w].pc = "completing" /\ row' = Succeeded(locked)
        \/ worker[w].pc = "failing" /\ row' = Failed(locked)
        \/ worker[w].pc = "retrying" /\ row' = Retried(locked)
      BY <1>2, <2>1 DEF Outcome
  <2>3. /\ Succeeded(locked).result = locked.result /\ Succeeded(locked).poster = locked.poster
        /\ Succeeded(locked).status = "succeeded"
      BY <1>1 DEF Succeeded, Row
  <2>4. /\ Failed(locked).result = locked.result /\ Failed(locked).poster = locked.poster
        /\ Failed(locked).status = "failed"
      BY <1>1 DEF Failed, Row
  <2>5. /\ Retried(locked).result = locked.result /\ Retried(locked).poster = locked.poster
        /\ Retried(locked).status \in {"failed", "running"}
    <3>1. CASE locked.failures + 1 >= MaxFailures
        BY <1>1, <3>1 DEF Retried, Failed, Row
    <3>2. CASE ~(locked.failures + 1 >= MaxFailures)
        BY <1>1, <3>2 DEF Retried, Row
    <3> QED
        BY <3>1, <3>2
  <2> QED
      BY <1>2, <1>4, <2>1, <2>2, <2>3, <2>4, <2>5 DEF locked, Settled
<1> QED
    BY <1>3, <1>4

(* What a flush writes of the names. *)
LEMMA FlushedNames ==
    ASSUME TypeOK, NEW w \in Worker, Copied(w), Working(w)
    PROVE  /\ \A o \in {"result", "poster"} :
                Flushed(w)[o] = IF worker[w].task[o] # worker[w].loaded[o]
                                THEN worker[w].task[o] ELSE row[o]
           /\ worker[w].pc # "completing" =>
                Flushed(w).result = row.result /\ Flushed(w).poster = row.poster
           /\ worker[w].pc = "completing" /\ row.status # "canceled" => Flushed(w).result
<1>1. \A o \in {"result", "poster"} :
         Flushed(w)[o] = IF worker[w].task[o] # worker[w].loaded[o]
                         THEN worker[w].task[o] ELSE row[o]
    BY FlushedRow DEF Fields
<1>2. /\ Flushed(w)["result"] = IF worker[w].task["result"] # worker[w].loaded["result"]
                                THEN worker[w].task["result"] ELSE row["result"]
      /\ Flushed(w)["poster"] = IF worker[w].task["poster"] # worker[w].loaded["poster"]
                                THEN worker[w].task["poster"] ELSE row["poster"]
    BY <1>1
<1>3. /\ worker[w].loaded.result \in BOOLEAN /\ worker[w].task.result \in BOOLEAN
    BY DEF TypeOK, Row
<1> QED
    BY <1>1, <1>2, <1>3 DEF Copied

(* The objects and the names that each step of a worker writes. *)
LEMMA NameSteps ==
    ASSUME TypeOK, Sessions, NEW w \in Worker, Copied(w), Work(w)
    PROVE
      \/ /\ worker[w].pc \in {"idle", "claimed"} /\ stored' = stored
         /\ worker'[w].pc \in {"idle", "claimed"}
         /\ row'.result = row.result /\ row'.poster = row.poster
         /\ row' = row \/ (row.status \in Active /\ row'.status \in {"failed", "running"})
      \/ /\ worker[w].pc # "completing" /\ stored' = stored
         /\ worker'[w].pc \in {"calling", "generating"}
         /\ worker'[w].loaded = row' /\ worker'[w].task = row'
         /\ row'.result = row.result /\ row'.poster = row.poster
         /\ row' = row \/ (row.status # "canceled" /\ row'.status = "running")
      \/ /\ worker[w].pc # "completing" /\ stored' = stored /\ worker'[w].pc = "idle"
         /\ row'.result = row.result /\ row'.poster = row.poster
         /\ row'.status = row.status \/ row'.status = "running"
      \/ /\ Generated(w) /\ worker[w].pc # "completing" /\ Working(w) /\ row' = row
         /\ worker'[w].pc = "completing" /\ worker'[w].loaded = worker[w].loaded
         /\ worker'[w].task.result
         /\ stored' = stored \cup {"result"} \cup (IF worker'[w].task.poster THEN {"poster"} ELSE {})
      \/ /\ worker[w].pc # "completing" /\ Working(w) /\ row' = row /\ stored' = stored
         /\ worker'[w].pc \in {"failing", "retrying"} /\ worker'[w].loaded = worker[w].loaded
         /\ worker'[w].task.result = worker[w].task.result
         /\ worker'[w].task.poster = worker[w].task.poster
      \/ End(w) /\ Working(w) /\ worker'[w].pc = "idle"
<1>1. /\ worker \in [Worker -> WorkerState] /\ row \in Row
      /\ worker[w].loaded \in Row /\ worker[w].task \in Row
    BY DEF TypeOK, WorkerState
<1>2. CASE GiveUp(w)
    BY <1>1, <1>2 DEF GiveUp, Claimable, WasInterrupted, Row, Active
<1>3. CASE Claim(w)
    BY <1>1, <1>3 DEF Claim, Claimable, Goto, Row, WorkerState, Active
<1>4. CASE Load(w)
    BY <1>1, <1>4 DEF Load, Rest, IdleWorker
<1>5. CASE Accepted(w)
    BY <1>1, <1>5 DEF Accepted, Row
<1>6. CASE Progress(w)
    BY <1>1, <1>6 DEF Progress, Row, WorkerState
<1>7. CASE Pending(w)
  <2> DEFINE task == [worker[w].task EXCEPT !.provider = TRUE, !.status = "running", !.failures = 0]
             loaded == worker[w].loaded
  <2>1. worker'[w].pc = "idle" /\ worker[w].pc = "calling" /\ stored' = stored
      BY <1>1, <1>7 DEF Pending, Rest, IdleWorker
  <2>2. /\ task.result = loaded.result /\ task.poster = loaded.poster
        /\ task.status = "running"
      BY <1>1, <2>1 DEF Copied, Working, Row
  <2>3. row' = [f \in DOMAIN row |-> IF f = "leased" THEN TRUE
                                     ELSE IF task[f] # loaded[f] THEN task[f] ELSE row[f]]
      BY <1>7 DEF Pending
  <2>4. DOMAIN row = Fields
      BY <1>1, RowDomain
  <2> HIDE DEF task, loaded
  <2>5. /\ row'["result"] = IF task["result"] # loaded["result"] THEN task["result"] ELSE row["result"]
        /\ row'["poster"] = IF task["poster"] # loaded["poster"] THEN task["poster"] ELSE row["poster"]
        /\ row'["status"] = IF task["status"] # loaded["status"] THEN task["status"] ELSE row["status"]
      BY <2>3, <2>4 DEF Fields
  <2> QED
      BY <2>1, <2>2, <2>5
<1>8. CASE Generated(w)
  <2>1. PICK poster \in BOOLEAN :
            /\ stored' = stored \cup {"result"} \cup (IF poster THEN {"poster"} ELSE {})
            /\ Keeps(w, "completing", [worker[w].task EXCEPT !.provider = @ \/ kind = "video",
                                                             !.result = TRUE, !.poster = poster])
      BY <1>8 DEF Generated
  <2>2. Working(w) /\ row' = row /\ worker[w].pc # "completing"
      BY <1>8 DEF Generated, Answers, Working
  <2>3. /\ worker'[w].pc = "completing" /\ worker'[w].loaded = worker[w].loaded
        /\ worker'[w].task = [worker[w].task EXCEPT !.provider = @ \/ kind = "video",
                                                    !.result = TRUE, !.poster = poster]
      BY <1>1, <2>1 DEF Keeps, WorkerState
  <2>4. worker'[w].task.result /\ worker'[w].task.poster = poster
      BY <1>1, <2>3 DEF Row
  <2> QED
      BY <1>8, <2>1, <2>2, <2>3, <2>4
<1>9. CASE Refused(w)
    BY <1>1, <1>9 DEF Refused, Answers, Keeps, Row, Working, WorkerState
<1>10. CASE CallFails(w)
    BY <1>1, <1>10 DEF CallFails, Goto, Row, Working, WorkerState
<1>11. CASE End(w)
    BY <1>1, <1>11 DEF End, Rest, IdleWorker, Working
<1> QED
    BY <1>2, <1>3, <1>4, <1>5, <1>6, <1>7, <1>8, <1>9, <1>10, <1>11 DEF Work

LEMMA RowChanges ==
    ASSUME TypeOK, Sessions, NEW w \in Worker, Copied(w), Work(w), ~revived'
    PROVE  RowChange(w)
<1>0. row \in Row /\ (row'.status = "running" => row.status \notin Final)
    BY DEF Work, TypeOK
<1>1. CASE End(w)
  <2>1. Working(w)
      BY <1>1 DEF End, Working
  <2>2. row.status # "canceled" =>
            /\ worker[w].pc # "completing" => row'.result = row.result /\ row'.poster = row.poster
            /\ worker[w].pc = "completing" => row'.result /\ row'.status = "succeeded"
            /\ row.result => row'.result
      BY <1>1, <2>1, EndNames, FlushedNames
  <2> QED
      BY <1>0, <1>1, <2>2, EndNames DEF RowChange, Settled, Final, TypeOK, Row
<1>2. CASE ~End(w)
  <2>1. /\ row'.result = row.result /\ row'.poster = row.poster /\ stored \subseteq stored'
        /\ \/ row'.status = row.status
           \/ row.status \in Active /\ row'.status \in {"failed", "running"}
           \/ row'.status = "running"
      BY <1>2, NameSteps
  <2>2. \/ row'.status = row.status
        \/ row.status \notin Final /\ row'.status \in {"failed", "running"}
      BY <1>0, <2>1 DEF Active, Final
  <2> QED
      BY <2>1, <2>2 DEF RowChange, Settled, Final
<1> QED
    BY <1>1, <1>2

LEMMA CopiedWork ==
    ASSUME TypeOK, Sessions, AllCopied, RowNames, NEW w \in Worker, Work(w), ~revived'
    PROVE  AllCopied'
<1>1. RowChange(w) /\ Copied(w) /\ late' = late /\ \A v \in Worker : v # w => worker'[v] = worker[v]
    BY RowChanges, Others DEF AllCopied
<1>2. ASSUME NEW v \in Worker, v # w PROVE Copied(v)'
  <2>1. worker'[v] = worker[v] /\ Copied(v)
      BY <1>1, <1>2 DEF AllCopied
  <2> QED
      BY <1>1, <2>1 DEF Copied, Working, RowChange
<1>3. Copied(w)'
  <2>1. row \in Row /\ (row'.status = "running" => row.status \notin Final)
      BY DEF Work, TypeOK
  <2>2. CASE worker'[w].pc \in {"calling", "generating"}
    <3>1. /\ worker'[w].loaded = row' /\ worker'[w].task = row'
          /\ row'.result = row.result /\ row'.poster = row.poster
          /\ row' = row \/ row'.status = "running"
        BY <1>1, <2>2, NameSteps
    <3>2. row.result \/ row.poster => row' = row
        BY <2>1, <3>1 DEF RowNames
    <3> QED
        BY <1>1, <2>2, <3>1, <3>2 DEF Copied, Working, RowNames, Final, Settled
  <2>3. CASE worker'[w].pc = "completing"
    <3>1. /\ worker'[w].task.result /\ "result" \in stored' /\ row' = row
          /\ worker'[w].loaded = worker[w].loaded /\ Working(w)
        BY <1>1, <2>3, NameSteps
    <3> QED
        BY <1>1, <2>3, <3>1 DEF Copied, Working
  <2>4. CASE worker'[w].pc \in {"failing", "retrying"}
    <3>1. /\ row' = row /\ worker'[w].loaded = worker[w].loaded /\ Working(w)
          /\ worker[w].pc # "completing"
          /\ worker'[w].task.result = worker[w].task.result
          /\ worker'[w].task.poster = worker[w].task.poster
        BY <1>1, <2>4, NameSteps
    <3> QED
        BY <1>1, <2>4, <3>1 DEF Copied, Working
  <2>5. CASE worker'[w].pc \in {"idle", "claimed"}
      BY <2>5 DEF Copied, Working
  <2> QED
      BY <1>1, <2>2, <2>3, <2>4, <2>5, NameSteps
<1> QED
    BY <1>2, <1>3 DEF AllCopied

LEMMA NamesWork ==
    ASSUME TypeOK, Sessions, AllCopied, RowNames, NEW w \in Worker, Work(w), ~revived'
    PROVE  RowNames'
<1>1. RowChange(w) /\ Copied(w) /\ late' = late
    BY RowChanges, Others DEF AllCopied
<1>2. row \in Row /\ row.result \in BOOLEAN /\ row.poster \in BOOLEAN
    BY DEF TypeOK, Row
<1>3. row'.result \/ row'.poster => row'.status \in Final
    BY <1>1 DEF RowChange, RowNames, Final, Settled
<1>4. row'.result /\ row'.status # "canceled" => "result" \in stored'
    BY <1>1 DEF RowChange, RowNames, Copied
<1>5. row'.status = "succeeded" => row'.result
    BY <1>1 DEF RowChange, RowNames
<1>6. row'.status = "canceled" /\ ~late' => ~row'.result /\ ~row'.poster
    BY <1>1 DEF RowChange, RowNames
<1> QED
    BY <1>3, <1>4, <1>5, <1>6 DEF RowNames

LEMMA AccountedWork ==
    ASSUME TypeOK, Sessions, AllCopied, Accounted, NEW w \in Worker, Work(w), ~revived'
    PROVE  Accounted'
<1> SUFFICES ASSUME ~late', ~orphaned', row'.status \notin Settled, NEW o \in stored'
             PROVE  \E v \in Worker : worker'[v].pc = "completing" /\ worker'[v].task[o]
    BY DEF Accounted
<1>1. /\ RowChange(w) /\ Copied(w) /\ late' = late /\ ~revived
      /\ \A v \in Worker : v # w => worker'[v] = worker[v]
      /\ orphaned' = orphaned
  <2>1. orphaned' = orphaned /\ ~revived
      BY DEF Work, GiveUp, Claim, Load, Accepted, Progress, Pending, Generated, Refused, CallFails, End
  <2> QED
      BY <2>1, RowChanges, Others DEF AllCopied
<1>2. row.status \notin Settled /\ \A i \in stored : i \in {"result", "poster"}
    BY <1>1 DEF RowChange, TypeOK
<1>3. CASE o \notin stored
  <2>1. /\ worker'[w].pc = "completing" /\ worker'[w].task.result
        /\ stored' = stored \cup {"result"} \cup (IF worker'[w].task.poster THEN {"poster"} ELSE {})
    <3>1. End(w) => stored' \subseteq stored
        BY EndNames
    <3> QED
        BY <1>1, <1>3, <3>1, NameSteps
  <2> QED
      BY <1>3, <2>1
<1>4. CASE o \in stored
  <2>1. PICK v \in Worker : worker[v].pc = "completing" /\ worker[v].task[o]
      BY <1>1, <1>2, <1>4 DEF Accounted
  <2>2. CASE v # w
      BY <1>1, <2>1, <2>2
  <2>3. CASE v = w
    <3>1. End(w) /\ Working(w)
        BY <1>1, <2>1, <2>3, NameSteps
    <3>2. /\ row.status = "canceled"
          /\ stored' = stored \ {i \in {"result", "poster"} : Flushed(w)[i]}
        BY <2>1, <2>3, <3>1, EndNames DEF Settled
    <3>3. Session(w) /\ ~worker[w].loaded.result /\ ~worker[w].loaded.poster
        BY <1>1, <1>2, <3>1 DEF Sessions, Session, Copied
    <3>4. /\ worker[w].task.result \in BOOLEAN /\ worker[w].loaded.result \in BOOLEAN
          /\ worker[w].task.poster \in BOOLEAN /\ worker[w].loaded.poster \in BOOLEAN
        BY DEF TypeOK, Row
    <3>5. Flushed(w)[o]
      <4>1. CASE o = "result"
          BY <1>1, <2>1, <2>3, <3>1, <3>3, <3>4, <4>1, FlushedNames
      <4>2. CASE o = "poster"
          BY <1>1, <2>1, <2>3, <3>1, <3>3, <3>4, <4>2, FlushedNames
      <4> QED
          BY <1>2, <1>4, <4>1, <4>2
    <3> QED
        BY <1>2, <1>4, <3>2, <3>5
  <2> QED
      BY <2>2, <2>3
<1> QED
    BY <1>3, <1>4

-----------------------------------------------------------------------------
(* A step that writes neither the names of the row nor a worker. *)
LEMMA ObjectsQuiet ==
    ASSUME ObjectsKept, UNCHANGED <<worker, stored, revived, orphaned>>, late => late',
           row'.result = row.result, row'.poster = row.poster,
           \/ row'.status = row.status
           \/ row.status \notin Final /\ row'.status \notin Final
           \/ row'.status = "canceled" /\ (row.status \in Active \/ late')
    PROVE  ObjectsKept'
<1> SUFFICES ASSUME ~revived PROVE AllCopied' /\ RowNames' /\ Accounted'
    BY DEF ObjectsKept
<1>1. AllCopied /\ RowNames /\ Accounted
    BY DEF ObjectsKept
<1>2. row.status \in Active => row.status \notin Final
    BY DEF Active, Final
<1>3. ASSUME NEW w \in Worker PROVE Copied(w)'
  <2>1. Copied(w)
      BY <1>1 DEF AllCopied
  <2> QED
      BY <1>1, <2>1 DEF Copied, Working, Final, Settled
<1>4. RowNames'
    BY <1>1, <1>2 DEF RowNames, Final
<1>5. Accounted'
    BY <1>1, <1>2 DEF Accounted, Final, Settled
<1> QED
    BY <1>3, <1>4, <1>5 DEF AllCopied

LEMMA ObjectsStep == IInv /\ ObjectsKept /\ [Next]_vars => ObjectsKept'
<1> SUFFICES ASSUME IInv, ObjectsKept, [Next]_vars
             PROVE  ObjectsKept'
    OBVIOUS
<1>0. TypeOK /\ Sessions /\ row \in Row
    BY DEF IInv, TypeOK
<1>1. ASSUME NEW w \in Worker, Work(w)
      PROVE  ObjectsKept'
  <2> SUFFICES ASSUME ~revived' PROVE AllCopied' /\ RowNames' /\ Accounted'
      BY DEF ObjectsKept
  <2>1. AllCopied /\ RowNames /\ Accounted
      BY <1>0, <1>1, Others DEF ObjectsKept
  <2> QED
      BY <1>0, <1>1, <2>1, CopiedWork, NamesWork, AccountedWork
<1>2. ASSUME NEW w \in Worker, BackfillPoster(w)
      PROVE  ObjectsKept'
  <2>1. /\ row' = [row EXCEPT !.poster = TRUE] /\ row.status = "succeeded" /\ row.result
        /\ stored' = stored \cup {"poster"} /\ UNCHANGED <<worker, revived, orphaned, late>>
      BY <1>2 DEF BackfillPoster, NeedsPoster
  <2>2. row'.status = "succeeded" /\ row'.result
      BY <1>0, <2>1 DEF Row
  <2> SUFFICES ASSUME ~revived PROVE AllCopied' /\ RowNames' /\ Accounted'
      BY <2>1 DEF ObjectsKept
  <2>3. AllCopied /\ RowNames /\ Accounted
      BY DEF ObjectsKept
  <2>4. AllCopied'
      BY <2>1, <2>2, <2>3 DEF AllCopied, Copied, Working, Settled
  <2>5. RowNames' /\ Accounted'
      BY <2>1, <2>2, <2>3 DEF RowNames, Accounted, Settled, Final
  <2> QED
      BY <2>4, <2>5
<1>3. ASSUME NEW w \in Worker, Interrupt(w)
      PROVE  ObjectsKept'
  <2>1. /\ worker' = [worker EXCEPT ![w] = IdleWorker] /\ UNCHANGED <<row, stored, revived, late>>
        /\ orphaned' = (orphaned \/ worker[w].pc = "completing")
      BY <1>3 DEF Interrupt, Rest
  <2>2. worker'[w].pc = "idle" /\ \A v \in Worker : v # w => worker'[v] = worker[v]
      BY <1>0, <2>1 DEF TypeOK, IdleWorker
  <2> SUFFICES ASSUME ~revived PROVE AllCopied' /\ RowNames' /\ Accounted'
      BY <2>1 DEF ObjectsKept
  <2>3. AllCopied /\ RowNames /\ Accounted
      BY DEF ObjectsKept
  <2>4. AllCopied'
    <3>1. ASSUME NEW v \in Worker PROVE Copied(v)'
      <4>1. CASE v = w
          BY <2>2, <4>1 DEF Copied, Working
      <4>2. CASE v # w
          BY <2>1, <2>2, <2>3, <4>2 DEF AllCopied, Copied, Working
      <4> QED
          BY <4>1, <4>2
    <3> QED
        BY <3>1 DEF AllCopied
  <2>5. RowNames'
      BY <2>1, <2>3 DEF RowNames
  <2>6. Accounted'
      BY <2>1, <2>2, <2>3 DEF Accounted
  <2> QED
      BY <2>4, <2>5, <2>6
<1>4. CASE LeaseExpires \/ LeaseLapses \/ CreateTask
  <2>1. /\ UNCHANGED <<worker, stored, revived, orphaned, late>>
        /\ \/ row' = [row EXCEPT !.leased = FALSE]
           \/ row' = [row EXCEPT !.status = "queued"] /\ row.status = "none"
      BY <1>4 DEF LeaseExpires, LeaseLapses, EndLease, CreateTask
  <2>2. /\ row'.result = row.result /\ row'.poster = row.poster
        /\ row'.status = row.status \/ (row.status \notin Final /\ row'.status \notin Final)
      BY <1>0, <2>1 DEF Row, Final
  <2> QED
      BY <2>1, <2>2, ObjectsQuiet
<1>5. CASE CancelWrite
  <2>1. /\ row' = [row EXCEPT !.status = "canceled", !.leased = FALSE]
        /\ late' = (late \/ row.status \notin Active)
        /\ UNCHANGED <<worker, stored, revived, orphaned>>
      BY <1>5 DEF CancelWrite
  <2>2. row'.result = row.result /\ row'.poster = row.poster /\ row'.status = "canceled"
      BY <1>0, <2>1 DEF Row
  <2>3. (late => late') /\ (row.status \in Active \/ late')
      BY <2>1
  <2> QED
      BY <2>1, <2>2, <2>3, ObjectsQuiet
<1>6. CASE Page \/ ReadList \/ ReadMessages \/ CancelRead \/ Refetch \/ UNCHANGED vars
  <2>1. UNCHANGED <<worker, stored, revived, orphaned, late, row>>
      BY <1>6 DEF Page, Created, Poll, ListArrives, MessagesArrive, Canceled, ReadList, ReadMessages,
       CancelRead, Refetch, server, page, vars
  <2> QED
      BY <2>1, ObjectsQuiet
<1> QED
    BY <1>1, <1>2, <1>3, <1>4, <1>5, <1>6 DEF Next, Trouble, Handlers, User

-----------------------------------------------------------------------------
(* The theorems *)

(* A generation is started at its provider once while nothing is interrupted or
   overtaken, and one that cannot be resumed at most twice whatever happens. *)
THEOREM GenerationsLimited == Spec => []Generations
<1>1. IInv => Generations
    BY DEF IInv, Generations, PaidOnce, PaidTwice
<1> QED
    BY <1>1, InitInv, NextInv, PTL DEF Spec

(* What FinalStays says of a step. *)
FinalStep ==
    /\ row.status = "canceled" /\ ~late /\ ~revived => row'.status = "canceled"
    /\ row.status \in {"succeeded", "failed"} /\ ~lapsed /\ ~late'
         => row'.status = row.status

LEMMA FinalSteps == IInv /\ [Next]_vars => FinalStep
<1> SUFFICES ASSUME IInv, [Next]_vars
             PROVE  FinalStep
    OBVIOUS
<1>0. TypeOK /\ Sessions /\ row \in Row
    BY DEF IInv, TypeOK
<1>1. ASSUME NEW w \in Worker, Work(w)
      PROVE  FinalStep
  <2>1. ASSUME row.status = "canceled", ~late, ~revived
        PROVE  row'.status = "canceled"
    <3>1. Pending(w) => worker[w].loaded.status = "running"
      <4>1. ASSUME Pending(w)
            PROVE  Working(w) /\ kind = "video"
          BY <4>1 DEF Pending, Working
      <4> QED
          BY <1>0, <2>1, <4>1 DEF Sessions, Session, Settled
    <3> QED
        BY <1>0, <1>1, <2>1, <3>1, Steps
  <2>2. ASSUME row.status \in {"succeeded", "failed"}, ~lapsed
        PROVE  FALSE
    <3>1. ~Busy(w)
        BY <2>2 DEF IInv, Alone
    <3> QED
        BY <1>0, <1>1, <2>2, <3>1, Steps DEF Busy, Working
  <2> QED
      BY <2>1, <2>2 DEF FinalStep
<1>2. ASSUME NEW w \in Worker, BackfillPoster(w)
      PROVE  FinalStep
    BY <1>0, <1>2 DEF BackfillPoster, FinalStep, Row
<1>3. ASSUME NEW w \in Worker, Interrupt(w)
      PROVE  FinalStep
    BY <1>3 DEF Interrupt, FinalStep
<1>4. CASE LeaseExpires \/ LeaseLapses \/ CreateTask
    BY <1>0, <1>4 DEF LeaseExpires, LeaseLapses, EndLease, CreateTask, FinalStep
<1>5. CASE CancelWrite
  <2>1. row'.status = "canceled"
      BY <1>0, <1>5 DEF CancelWrite, Row
  <2> QED
      BY <1>5, <2>1 DEF CancelWrite, FinalStep, Active
<1>6. CASE Page \/ ReadList \/ ReadMessages \/ CancelRead \/ Refetch \/ UNCHANGED vars
    BY <1>6
    DEF Page, Created, Poll, ListArrives, MessagesArrive, Canceled, ReadList, ReadMessages,
       CancelRead, Refetch, server, page, vars, FinalStep
<1> QED
    BY <1>1, <1>2, <1>3, <1>4, <1>5, <1>6 DEF Next, Trouble, Handlers, User

(* A canceled task stays canceled unless it had finished before, and a finished one keeps
   its status unless a lease had lapsed or a cancel was on its way. *)
THEOREM FinalStatusStays == Spec => FinalStays
<1>1. IInv /\ [Next]_vars => [FinalStep]_vars
    BY FinalSteps
<1> QED
    BY <1>1, InitInv, NextInv, PTL DEF Spec, FinalStays, FinalStep

(* A finished task names a result that exists, and a canceled one leaves nothing in the
   object storage: for any number of workers, interruptions and lapsed leases. *)
THEOREM ObjectsSafety == Spec => []Objects
<1>1. TypeOK /\ ObjectsKept => Objects
  <2> SUFFICES ASSUME TypeOK, ObjectsKept, ~revived
               PROVE  /\ row.status = "succeeded" => row.result /\ "result" \in stored
                      /\ row.status = "canceled" /\ (\A w \in Worker : ~Busy(w)) /\ ~orphaned /\ ~late
                            => stored = {}
      BY DEF Objects
  <2>1. RowNames /\ Accounted
      BY DEF ObjectsKept
  <2> QED
      BY <2>1 DEF RowNames, Accounted, Busy, Settled
<1>2. IInv => TypeOK
    BY DEF IInv
<1> QED
    BY <1>1, <1>2, InitInv, NextInv, ObjectsInit, ObjectsStep, PTL DEF Spec
=============================================================================
