---------------------- MODULE AgentEventStream_proofs ----------------------
(* Theorems about the event log of AgentEventStream, for every set of        *)
(* workers, handlers and connections and every number of retries.            *)
EXTENDS AgentEventStream, SequenceTheorems, FiniteSetTheorems, WellFoundedInduction, TLAPS

\* The committed events are numbered 1..n, and each append has its place.
RowsType == rows \in Seq(EventType)

AppendType ==
    append \in [Producers -> [pc : {"idle", "max", "insert", "commit"}, slot : Nat,
                              type : EventType, tries : 0..Retries]]

\* A number chosen is not beyond the next one ...
ChosenInRange ==
    \A p \in Producers : append[p].pc = "insert" => append[p].slot \in 1..(Len(rows) + 1)

\* ... a number inserted and not yet committed is the next one ...
InsertedIsNext ==
    \A p \in Producers : append[p].pc = "commit" => append[p].slot = Len(rows) + 1

\* ... and one append at a time has it.
OneInserted ==
    \A p, q \in Producers : append[p].pc = "commit" /\ append[q].pc = "commit" => p = q

LogInv == RowsType /\ AppendType /\ ChosenInRange /\ InsertedIsNext /\ OneInserted

-----------------------------------------------------------------------------
(* Facts about the numbering.                                                *)

LEMMA RowsDomain ==
    ASSUME RowsType
    PROVE  Len(rows) \in Nat /\ DOMAIN rows = 1..Len(rows)
BY DEF RowsType

LEMMA LastIsLength ==
    ASSUME RowsType
    PROVE  LastSequence = Len(rows)
<1>1. CASE rows = <<>>
  BY <1>1 DEF LastSequence
<1>2. CASE rows # <<>>
  <2>1. Len(rows) \in Nat \ {0}
    BY <1>2, EmptySeq DEF RowsType
  <2>2. DOMAIN rows = 1..Len(rows)
    BY RowsDomain
  <2>3. \A s \in 1..Len(rows) : (\A q \in 1..Len(rows) : q <= s) <=> s = Len(rows)
    BY <2>1
  <2>4. LastSequence = CHOOSE s \in 1..Len(rows) : \A q \in 1..Len(rows) : q <= s
    BY <1>2, <2>2 DEF LastSequence
  <2>5. \E s \in 1..Len(rows) : \A q \in 1..Len(rows) : q <= s
    BY <2>1, <2>3
  <2> QED
    BY <2>3, <2>4, <2>5
<1> QED
  BY <1>1, <1>2

LEMMA FunctionIsSeq ==
    ASSUME NEW S, NEW n \in Nat, NEW f \in [1..n -> S]
    PROVE  f \in Seq(S) /\ Len(f) = n
<1>1. f \in Seq(S)
  <2>1. Seq(S) = UNION {[1..m -> S] : m \in Nat}
    BY SeqDef, Zenon
  <2>2. [1..n -> S] \in {[1..m -> S] : m \in Nat}
    BY Zenon
  <2> QED
    BY <2>1, <2>2, Zenon
<1>2. Len(f) \in Nat /\ 1..Len(f) = 1..n
  BY <1>1, LenProperties
<1> QED
  BY <1>1, <1>2

\* What CommitEvent does to the log, in terms of Append.
LEMMA CommitExtends ==
    ASSUME RowsType, NEW t \in EventType,
           rows' = [q \in DOMAIN rows \cup {Len(rows) + 1} |->
                       IF q = Len(rows) + 1 THEN t ELSE rows[q]]
    PROVE  Log!Extend(t)
<1>1. Len(rows) \in Nat /\ DOMAIN rows = 1..Len(rows)
  BY RowsDomain
<1>2. DOMAIN rows \cup {Len(rows) + 1} = 1..(Len(rows) + 1)
  BY <1>1
<1>3. rows' = [q \in 1..(Len(rows) + 1) |-> IF q = Len(rows) + 1 THEN t ELSE rows[q]]
  BY <1>2
<1>4. rows' = Append(rows, t)
  <2>1. rows' \in Seq(EventType) /\ Len(rows') = Len(rows) + 1
    <3>1. \A q \in 1..Len(rows) : rows[q] \in EventType
      BY DEF RowsType
    <3>2. rows' \in [1..(Len(rows) + 1) -> EventType]
      BY <1>1, <1>3, <3>1
    <3>3. Len(rows) + 1 \in Nat
      BY <1>1
    <3> QED
      BY <3>2, <3>3, FunctionIsSeq, Zenon
  <2>2. /\ Append(rows, t) \in Seq(EventType) /\ Len(Append(rows, t)) = Len(rows) + 1
        /\ \A i \in 1..Len(rows) : Append(rows, t)[i] = rows[i]
        /\ Append(rows, t)[Len(rows) + 1] = t
    BY AppendProperties DEF RowsType
  <2>3. \A i \in 1..Len(rows') : rows'[i] = Append(rows, t)[i]
    BY <1>1, <1>3, <2>1, <2>2
  <2> QED
    BY <2>1, <2>2, <2>3, SeqEqual
<1> QED
  BY <1>4 DEF Log!Extend

-----------------------------------------------------------------------------
(* The invariant.                                                            *)

LEMMA LogInvInit == Init => LogInv
BY EventLogAssumption
   DEF Init, LogInit, NoAppend, LogInv, RowsType, AppendType, ChosenInRange, InsertedIsNext,
       OneInserted, EventType

LEMMA LogInvStutter == LogInv /\ UNCHANGED <<rows, append>> => LogInv'
BY DEF LogInv, RowsType, AppendType, ChosenInRange, InsertedIsNext, OneInserted

\* A producer that begins an append, or loses it, is between no two steps of one.
LEMMA LogInvReset ==
    ASSUME LogInv, UNCHANGED rows, NEW p \in Producers,
           NEW a \in [pc : {"idle", "max"}, slot : Nat, type : EventType, tries : 0..Retries],
           append' = [append EXCEPT ![p] = a]
    PROVE  LogInv'
BY DEF LogInv, RowsType, AppendType, ChosenInRange, InsertedIsNext, OneInserted

LEMMA NoAppendType ==
    NoAppend \in [pc : {"idle", "max"}, slot : Nat, type : EventType, tries : 0..Retries]
BY EventLogAssumption DEF NoAppend, EventType

LEMMA LogInvBegin ==
    ASSUME LogInv, UNCHANGED rows, NEW p \in Producers, NEW t \in EventType, BeginAppend(p, t)
    PROVE  LogInv'
BY EventLogAssumption
   DEF BeginAppend, LogInv, RowsType, AppendType, ChosenInRange, InsertedIsNext, OneInserted

LEMMA LogInvSelect ==
    ASSUME LogInv, NEW p \in Producers, SelectMax(p)
    PROVE  LogInv'
<1>1. LastSequence = Len(rows) /\ Len(rows) \in Nat
  BY LastIsLength, RowsDomain DEF LogInv
<1>2. AppendType'
  <2>1. Len(rows) + 1 \in Nat
    BY <1>1
  <2>2. append' = [append EXCEPT ![p].pc = "insert", ![p].slot = Len(rows) + 1]
    BY <1>1 DEF SelectMax
  <2> QED
    BY <2>1, <2>2 DEF LogInv, AppendType
<1>3. append'[p].pc = "insert" /\ append'[p].slot = Len(rows) + 1
  BY <1>1 DEF SelectMax, LogInv, AppendType
<1>4. \A q \in Producers \ {p} : append'[q] = append[q]
  BY DEF SelectMax, LogInv, AppendType
<1>5. rows' = rows
  BY DEF SelectMax
<1> QED
  BY <1>1, <1>2, <1>3, <1>4, <1>5
     DEF LogInv, RowsType, ChosenInRange, InsertedIsNext, OneInserted

LEMMA LogInvInsert ==
    ASSUME LogInv, NEW p \in Producers, Insert(p)
    PROVE  LogInv'
<1>1. Len(rows) \in Nat /\ DOMAIN rows = 1..Len(rows)
  BY RowsDomain DEF LogInv
<1>2. append[p].pc = "insert" /\ append[p].slot = Len(rows) + 1
  BY <1>1 DEF Insert, CanInsert, LogInv, ChosenInRange
<1>3. \A q \in Producers : append[q].pc # "commit"
  BY <1>2 DEF Insert, CanInsert, LogInv, InsertedIsNext
<1> QED
  BY <1>2, <1>3
     DEF Insert, LogInv, RowsType, AppendType, ChosenInRange, InsertedIsNext, OneInserted

LEMMA LogInvConflict ==
    ASSUME LogInv, NEW p \in Producers, Conflict(p)
    PROVE  LogInv'
BY EventLogAssumption
   DEF Conflict, LogInv, RowsType, AppendType, ChosenInRange, InsertedIsNext, OneInserted

LEMMA CommitIsExtend ==
    ASSUME LogInv, NEW p \in Producers, CommitEvent(p)
    PROVE  Log!Extend(append[p].type)
<1>1. append[p].slot = Len(rows) + 1 /\ append[p].type \in EventType
  BY DEF CommitEvent, LogInv, AppendType, InsertedIsNext
<1>2. rows' = [q \in DOMAIN rows \cup {Len(rows) + 1} |->
                  IF q = Len(rows) + 1 THEN append[p].type ELSE rows[q]]
  BY <1>1 DEF CommitEvent
<1> QED
  BY <1>1, <1>2, CommitExtends DEF LogInv

LEMMA LogInvCommit ==
    ASSUME LogInv, NEW p \in Producers, CommitEvent(p)
    PROVE  LogInv'
<1>1. append[p].type \in EventType /\ Len(rows) \in Nat
  BY RowsDomain DEF LogInv, AppendType
<1>2. rows' \in Seq(EventType) /\ Len(rows') = Len(rows) + 1
  BY <1>1, CommitIsExtend DEF LogInv, RowsType, Log!Extend
<1>3. append' = [append EXCEPT ![p] = NoAppend]
  BY DEF CommitEvent
<1>4. \A q \in Producers : append'[q].pc # "commit"
  BY <1>3 DEF CommitEvent, LogInv, AppendType, OneInserted, NoAppend
<1>5. \A q \in Producers : append'[q].pc = "insert" => append'[q] = append[q]
  BY <1>3 DEF LogInv, AppendType, NoAppend
<1>6. RowsType' /\ InsertedIsNext' /\ OneInserted'
  BY <1>2, <1>4 DEF RowsType, InsertedIsNext, OneInserted
<1>7. ChosenInRange'
  BY <1>1, <1>2, <1>5 DEF LogInv, ChosenInRange
<1>8. AppendType'
  BY <1>3, NoAppendType DEF LogInv, AppendType
<1> QED
  BY <1>6, <1>7, <1>8 DEF LogInv

\* Every step either commits an event or leaves the log alone.
LEMMA LogInvNext ==
    ASSUME LogInv, [Next]_vars
    PROVE  LogInv' /\ (rows' = rows \/ \E t \in EventType : Log!Extend(t))
<1>1. ASSUME NEW p \in Producers, CommitEvent(p) PROVE LogInv' /\ \E t \in EventType : Log!Extend(t)
  BY <1>1, LogInvCommit, CommitIsExtend DEF LogInv, AppendType
<1>2. ASSUME NEW p \in Producers, AppendStep(p), ~CommitEvent(p) PROVE LogInv' /\ rows' = rows
  <2>1. CASE SelectMax(p)
    BY <2>1, LogInvSelect DEF SelectMax
  <2>2. CASE Insert(p)
    BY <2>2, LogInvInsert DEF Insert
  <2>3. CASE Conflict(p)
    BY <2>3, LogInvConflict DEF Conflict
  <2>4. CASE GiveUp(p)
    BY <2>4, LogInvReset, NoAppendType DEF GiveUp
  <2> QED
    BY <1>2, <2>1, <2>2, <2>3, <2>4 DEF AppendStep
<1>3. ASSUME NEW w \in Workers,
             BeginAttempt(w) \/ EmitProgress(w) \/ EmitCompleted(w) \/ EndAttempt(w) \/ AttemptDies(w)
      PROVE  LogInv' /\ rows' = rows
  <2>1. w \in Producers
    BY DEF Producers
  <2>2. CASE BeginAttempt(w) \/ EndAttempt(w)
    BY <2>2, LogInvStutter DEF BeginAttempt, EndAttempt
  <2>3. CASE EmitProgress(w) \/ EmitCompleted(w)
    BY <2>1, <2>3, LogInvBegin DEF EmitProgress, EmitCompleted, EventType
  <2>4. CASE AttemptDies(w)
    BY <2>1, <2>4, LogInvReset, NoAppendType DEF AttemptDies
  <2> QED
    BY <1>3, <2>2, <2>3, <2>4
<1>4. ASSUME NEW h \in Handlers, CancelRun(h) \/ EmitResolved(h) \/ HandlerDies(h)
      PROVE  LogInv' /\ rows' = rows
  <2>1. h \in Producers
    BY DEF Producers
  <2>2. CASE CancelRun(h) \/ EmitResolved(h)
    BY <2>1, <2>2, LogInvBegin DEF CancelRun, EmitResolved, EventType
  <2>3. CASE HandlerDies(h)
    BY <2>1, <2>3, LogInvReset, NoAppendType DEF HandlerDies
  <2> QED
    BY <1>4, <2>2, <2>3
<1>5. ASSUME NEW k \in Conns, StreamStep(k) \/ Disconnect(k) PROVE UNCHANGED <<rows, append>>
  BY <1>5 DEF StreamStep, Replay, ReadStatus, Connect, Open, ReceiveEvent, ReceiveDone,
     EndOfStream, Disconnect, logVars
<1>6. ASSUME NEW why \in {"event", "done"}, RunRead(why) \/ RunReadFails(why)
      PROVE  UNCHANGED <<rows, append>>
  BY <1>6 DEF RunRead, RunReadFails, logVars
<1>7. ASSUME Close \/ UNCHANGED vars PROVE UNCHANGED <<rows, append>>
  BY <1>7 DEF Close, vars, logVars
<1>8. CASE LogNext
  BY <1>1, <1>2, <1>3, <1>4, <1>8 DEF LogNext
<1>9. CASE ~LogNext
  BY <1>5, <1>6, <1>7, <1>9, LogInvStutter DEF Next
<1> QED
  BY <1>8, <1>9

\* The sequences chosen by appends stay within reach of the log: the next one is
\* given to one append at a time (constraint and retry of EventStore.append).
THEOREM LogInvariant == Spec => []LogInv
<1>1. LogInv /\ [Next]_vars => LogInv'
  BY LogInvNext
<1> QED
  BY <1>1, LogInvInit, PTL DEF Spec

-----------------------------------------------------------------------------

\* The events of a run grow at the end, one by one, whatever appends overlap,
\* conflict, give up or die (EventStore.append, event_service.py).
THEOREM LogRefinement == Spec => ImplementsLog
<1>1. Init => Log!Init
  BY DEF Init, LogInit, Log!Init
<1>2. LogInv /\ [Next]_vars => [Log!Next]_rows
  BY LogInvNext DEF Log!Next
<1> QED
  BY <1>1, <1>2, LogInvariant, PTL DEF Spec, ImplementsLog, Log!Spec
-----------------------------------------------------------------------------
(* What a page of replay_after holds.                                        *)

LEMMA NatWellFounded ==
    \E R : IsWellFoundedOn(R, Nat) /\ \A m, n \in Nat : m < n => <<m, n>> \in R
<1>1. \A m, n \in Nat : m < n => <<m, n>> \in OpToRel(<, Nat)
  BY DEF OpToRel
<1> QED
  BY <1>1, NatLessThanWellFounded, Zenon

LEMMA LeastNatural ==
    ASSUME NEW T \in SUBSET Nat, T # {}
    PROVE  \E m \in T : \A n \in T : m <= n
<1>1. PICK R : IsWellFoundedOn(R, Nat) /\ \A m, n \in Nat : m < n => <<m, n>> \in R
  BY NatWellFounded, Zenon
<1>2. PICK m \in T : \A n \in T : ~(<<n, m>> \in R)
  <2>1. IsWellFoundedOn(R, Nat) /\ T \subseteq Nat
    BY <1>1
  <2> HIDE <1>1
  <2> QED
    BY <2>1, WFMin
<1>3. \A n \in T : ~(n < m)
  BY <1>1, <1>2, Zenon
<1> QED
  BY <1>2, <1>3

\* The n numbers after c
After(c, n) == (c + 1)..(c + n)

\* Numbers between c and l that lack none below one of them
Closed(S, c, l) ==
    /\ \A s \in S : s \in Nat /\ c < s /\ s <= l
    /\ \A s \in S : \A q \in Nat : c < q /\ q <= s => q \in S

\* They are an interval.
LEMMA ClosedIsInterval ==
    ASSUME NEW c \in Nat, NEW l \in Nat, c <= l, NEW S, Closed(S, c, l)
    PROVE  \E n \in 0..(l - c) : S = After(c, n)
<1> DEFINE T == {n \in Nat : c + n + 1 \notin S}
<1>0. /\ \A s \in S : s \in Nat /\ c < s /\ s <= l
      /\ \A s \in S : \A q \in Nat : c < q /\ q <= s => q \in S
  BY DEF Closed
<1>1. l - c \in T
  BY <1>0
<1>2. PICK n \in T : \A m \in T : n <= m
  <2>1. T \in SUBSET Nat /\ T # {}
    BY <1>1
  <2> QED
    BY <2>1, LeastNatural, Zenon
<1>3. n \in 0..(l - c)
  <2>1. n \in Nat
    OBVIOUS
  <2>2. n <= l - c
    BY <1>1, <1>2
  <2> HIDE DEF T
  <2> QED
    BY <2>1, <2>2
<1>4. ASSUME NEW s \in S PROVE s \in (c + 1)..(c + n)
  <2>1. s \in Nat /\ c < s
    BY <1>0
  <2>2. ~(c + n + 1 <= s)
    BY <1>0, <1>2, <1>3, <2>1
  <2> QED
    BY <1>3, <2>1, <2>2
<1>5. ASSUME NEW s \in (c + 1)..(c + n) PROVE s \in S
  <2>1. s - c - 1 \in Nat /\ s - c - 1 < n /\ c + (s - c - 1) + 1 = s
    BY <1>3
  <2> QED
    BY <1>2, <2>1
<1>6. S = (c + 1)..(c + n)
  BY <1>4, <1>5
<1> QED
  BY <1>3, <1>6 DEF After

\* There is one way to count through an interval upwards.
LEMMA CountingUp ==
    ASSUME NEW c \in Nat, NEW n \in Nat, NEW q \in [1..n -> (c + 1)..(c + n)],
           \A i, j \in 1..n : i < j => q[i] < q[j]
    PROVE  \A i \in 1..n : q[i] = c + i
<1>1. \A i \in 1..n : q[i] >= c + i
  <2> SUFFICES ASSUME NEW k \in 1..n, q[k] < c + k PROVE FALSE
    OBVIOUS
  <2> DEFINE T == {i \in 1..n : q[i] < c + i}
  <2>1. PICK m \in T : \A i \in T : m <= i
    <3>1. k \in T
      OBVIOUS
    <3>2. T \subseteq Nat
      OBVIOUS
    <3> QED
      BY <3>1, <3>2, LeastNatural, Zenon
  <2>2. m # 1
    BY <2>1
  <2>3. m - 1 \in 1..n /\ m - 1 \notin T
    BY <2>1, <2>2
  <2>4. q[m - 1] >= c + (m - 1) /\ q[m - 1] < q[m]
    BY <2>1, <2>3
  <2> QED
    BY <2>1, <2>3, <2>4
<1>2. \A i \in 1..n : q[i] <= c + i
  <2> SUFFICES ASSUME NEW k \in 1..n, q[k] > c + k PROVE FALSE
    OBVIOUS
  <2> DEFINE T == {d \in 0..(n - 1) : q[n - d] > c + (n - d)}
  <2>1. PICK d \in T : \A e \in T : d <= e
    <3>1. n - k \in T
      OBVIOUS
    <3>2. T \subseteq Nat
      OBVIOUS
    <3> QED
      BY <3>1, <3>2, LeastNatural, Zenon
  <2>2. d # 0
    BY <2>1
  <2>3. d - 1 \in 0..(n - 1) /\ d - 1 \notin T
    <3>1. d \in 1..(n - 1)
      BY <2>1, <2>2
    <3>2. d - 1 \in 0..(n - 1) /\ ~(d <= d - 1)
      BY <3>1
    <3> HIDE DEF T
    <3> QED
      BY <2>1, <3>2
  <2>4. q[n - (d - 1)] <= c + (n - (d - 1))
    BY <2>3
  <2>5. n - d \in 1..n /\ n - (d - 1) \in 1..n /\ n - d < n - (d - 1)
    BY <2>1, <2>2
  <2>6. q[n - d] < q[n - (d - 1)]
    BY <2>5
  <2> QED
    BY <2>1, <2>4, <2>5, <2>6
<1> QED
  BY <1>1, <1>2

LEMMA IntervalInOrder ==
    ASSUME NEW c \in Nat, NEW n \in Nat
    PROVE  LET q == InOrder(After(c, n))
           IN  q \in Seq(Nat) /\ Len(q) = n /\ \A i \in 1..n : q[i] = c + i
<1> DEFINE S == (c + 1)..(c + n)
           Up(q) == \A i, j \in DOMAIN q : i < j => q[i] < q[j]
           r == [i \in 1..n |-> c + i]
           q == InOrder(S)
<1>1. Cardinality(S) = n
  BY FS_Interval
<1>2. r \in [1..n -> S] /\ Up(r)
  OBVIOUS
<1>3. q = CHOOSE x \in [1..n -> S] : Up(x)
  BY <1>1 DEF InOrder, After
<1>4. q \in [1..n -> S] /\ Up(q)
  <2> HIDE DEF S, Up, r, q
  <2> QED
    BY <1>2, <1>3, Zenon
<1>5. \A i \in 1..n : q[i] = c + i
  <2>1. \A i, j \in 1..n : i < j => q[i] < q[j]
    BY <1>4
  <2> HIDE DEF q
  <2> QED
    BY <1>4, <2>1, CountingUp
<1>6. q \in Seq(Nat) /\ Len(q) = n
  <2>1. q \in [1..n -> Nat]
    BY <1>4
  <2> HIDE DEF q
  <2> QED
    BY <2>1, FunctionIsSeq
<1> QED
  BY <1>5, <1>6 DEF After

\* A closed set of numbers in order counts on from c.
LEMMA ClosedInOrder ==
    ASSUME NEW c \in Nat, NEW l \in Nat, c <= l, NEW S, Closed(S, c, l)
    PROVE  \E n \in 0..(l - c) :
              /\ InOrder(S) \in Seq(Nat) /\ Len(InOrder(S)) = n
              /\ \A i \in 1..n : InOrder(S)[i] = c + i
<1>1. PICK n \in 0..(l - c) : S = After(c, n)
  BY ClosedIsInterval
<1>2. n \in Nat
  OBVIOUS
<1> QED
  BY <1>1, <1>2, IntervalInOrder

\* A page continues behind the cursor, without gaps and within the log.
LEMMA PageContinues ==
    ASSUME RowsType, NEW k \in Conns, conn[k].cursor \in 0..Len(rows)
    PROVE  \E n \in 0..(Len(rows) - conn[k].cursor) :
              Page(k) \in Seq(Nat) /\ Len(Page(k)) = n /\ \A i \in 1..n : Page(k)[i] = conn[k].cursor + i
<1>1. PICK c \in Nat, l \in Nat : c = conn[k].cursor /\ l = Len(rows) /\ DOMAIN rows = 1..l /\ c <= l
  <2>1. Len(rows) \in Nat /\ DOMAIN rows = 1..Len(rows)
    BY RowsDomain
  <2>2. conn[k].cursor \in Nat /\ conn[k].cursor <= Len(rows)
    BY <2>1
  <2> QED
    BY <2>1, <2>2, Zenon
<1>2. c \in Nat /\ l \in Nat /\ c <= l
  BY <1>1
<1> DEFINE new == {s \in DOMAIN rows : s > c}
           page == {s \in new : Cardinality({q \in new : q < s}) < PageLimit}
           S == {s \in page : \A q \in page : q < s => rows[q] \notin Final}
<1>3. new = (c + 1)..l
  BY <1>1
<1>4. ASSUME NEW s \in page, NEW q \in (c + 1)..s PROVE q \in page
  <2>1. s \in new /\ q \in new /\ q \in Nat /\ s \in Nat /\ q <= s
    BY <1>1, <1>3
  <2>2. IsFiniteSet(new)
    <3>1. c + 1 \in Int /\ l \in Int
      OBVIOUS
    <3>2. IsFiniteSet((c + 1)..l)
      BY <3>1, FS_Interval
    <3> QED
      BY <1>3, <3>2
  <2> DEFINE Below(x) == {y \in new : y < x}
  <2>3. IsFiniteSet(Below(s)) /\ IsFiniteSet(Below(q))
    BY <2>2, FS_Subset
  <2>4. Below(q) \subseteq Below(s)
    BY <1>1, <1>3, <2>1
  <2>5. Cardinality(Below(q)) <= Cardinality(Below(s))
    BY <2>3, <2>4, FS_Subset
  <2>6. Cardinality(Below(q)) \in Nat /\ Cardinality(Below(s)) \in Nat
    BY <2>3, FS_CardinalityType
  <2>7. Cardinality(Below(s)) < PageLimit
    OBVIOUS
  <2>8. Cardinality(Below(q)) < PageLimit
    <3> HIDE DEF Below
    <3> QED
      BY <2>5, <2>6, <2>7, StreamAssumption
  <2> QED
    BY <2>1, <2>8
<1>5. ASSUME NEW s \in S, NEW q \in (c + 1)..s PROVE q \in S
  <2>1. s \in page /\ s \in Nat /\ q \in Nat /\ q <= s
    BY <1>1, <1>3
  <2>2. q \in page
    BY <1>4, <2>1
  <2>3. ASSUME NEW x \in page, x < q PROVE rows[x] \notin Final
    <3>1. x \in Nat
      BY <1>1, <1>3
    <3>2. x < s
      BY <2>1, <2>3, <3>1
    <3> HIDE DEF page
    <3> QED
      BY <3>2
  <2> HIDE DEF page
  <2> QED
    BY <2>2, <2>3
<1>6. S \in SUBSET ((c + 1)..l)
  BY <1>3
<1>7. Page(k) = InOrder(S)
  BY <1>1 DEF Page
<1>8. Closed(S, c, l)
  <2>1. \A s \in S : s \in Nat /\ c < s /\ s <= l
    BY <1>6
  <2>2. \A s \in S : \A q \in (c + 1)..s : q \in S
    BY <1>5
  <2> HIDE DEF S
  <2> QED
    BY <2>1, <2>2 DEF Closed
<1> HIDE DEF S
<1>9. \E n \in 0..(l - c) :
        /\ InOrder(S) \in Seq(Nat) /\ Len(InOrder(S)) = n
        /\ \A i \in 1..n : InOrder(S)[i] = c + i
  BY <1>2, <1>8, ClosedInOrder
<1> QED
  BY <1>1, <1>7, <1>9, Zenon

-----------------------------------------------------------------------------
(* What is on its way to the client, and what it has.                        *)

ConnState == [pc : {"free", "replay", "status", "ended"}, cursor : Nat, wire : Seq(Nat)]

\* The frames on their way are the events up to the cursor, and perhaps [DONE];
\* of those before them the client has all, if it has m events.
Runs(g, m) ==
    \E n \in 0..g.cursor :
        /\ g.cursor - n <= m
        /\ \A i \in 1..n : g.wire[i] = g.cursor - n + i
        /\ \/ Len(g.wire) = n
           \/ Len(g.wire) = n + 1 /\ g.wire[n + 1] = DONE /\ g.pc = "ended"

InStep(g, m, l) == g \in ConnState /\ g.cursor <= l /\ Runs(g, m)

Counted(s, l) == s \in Seq(Nat) /\ Len(s) <= l /\ \A i \in 1..Len(s) : s[i] = i

StreamInv ==
    /\ conn \in [Conns -> ConnState]
    /\ \A k \in Conns : InStep(conn[k], Len(received), Len(rows))
    /\ Counted(received, Len(rows))
    /\ lastEventId = Len(received)

LEMMA InStepLater ==
    ASSUME NEW m \in Nat, NEW m2 \in Nat, NEW l \in Nat, NEW l2 \in Nat, m <= m2, l <= l2,
           NEW g, InStep(g, m, l)
    PROVE  InStep(g, m2, l2)
<1>1. g \in ConnState /\ g.cursor \in Nat /\ g.cursor <= l2
  BY DEF InStep, ConnState
<1>2. PICK n \in 0..g.cursor :
        /\ g.cursor - n <= m
        /\ \A i \in 1..n : g.wire[i] = g.cursor - n + i
        /\ \/ Len(g.wire) = n
           \/ Len(g.wire) = n + 1 /\ g.wire[n + 1] = DONE /\ g.pc = "ended"
  BY DEF InStep, Runs
<1>3. g.cursor - n <= m2
  BY <1>1, <1>2
<1> QED
  BY <1>1, <1>2, <1>3 DEF InStep, Runs

LEMMA InStepOpened ==
    ASSUME NEW m \in Nat, NEW l \in Nat, m <= l
    PROVE  /\ InStep(Free, m, l)
           /\ InStep([pc |-> "replay", cursor |-> m, wire |-> <<>>], m, l)
<1>1. <<>> \in Seq(Nat) /\ Len(<<>>) = 0
  BY EmptySeq
<1>2. ASSUME NEW g \in ConnState, g.wire = <<>>, g.cursor <= m PROVE InStep(g, m, l)
  <2>1. g.cursor \in Nat /\ g.cursor <= l
    BY <1>2 DEF ConnState
  <2>2. 0 \in 0..g.cursor /\ g.cursor - 0 <= m /\ Len(g.wire) = 0
    BY <1>1, <1>2, <2>1
  <2>3. Runs(g, m)
    BY <2>2 DEF Runs
  <2> QED
    BY <2>1, <2>3 DEF InStep
<1>3. /\ Free \in ConnState /\ Free.wire = <<>> /\ Free.cursor = 0
      /\ [pc |-> "replay", cursor |-> m, wire |-> <<>>] \in ConnState
  BY <1>1 DEF Free, ConnState
<1> QED
  BY <1>2, <1>3

\* Replay puts the next events on the way, and [DONE] behind a final one.
LEMMA InStepReplayed ==
    ASSUME NEW m \in Nat, NEW l \in Nat, NEW g, InStep(g, m, l), g.pc = "replay",
           NEW page \in Seq(Nat), g.cursor + Len(page) <= l,
           \A i \in 1..Len(page) : page[i] = g.cursor + i
    PROVE  /\ InStep([pc |-> "status", cursor |-> g.cursor + Len(page), wire |-> g.wire \o page], m, l)
           /\ InStep([pc |-> "ended", cursor |-> g.cursor + Len(page),
                      wire |-> (g.wire \o page) \o <<DONE>>], m, l)
<1>1. g \in ConnState /\ g.cursor \in Nat /\ g.wire \in Seq(Nat) /\ Len(page) \in Nat
  BY DEF InStep, ConnState
<1>2. PICK n \in 0..g.cursor :
        g.cursor - n <= m /\ Len(g.wire) = n /\ \A i \in 1..n : g.wire[i] = g.cursor - n + i
  BY DEF InStep, Runs
<1> DEFINE c == g.cursor + Len(page)
           n2 == n + Len(page)
           w == g.wire \o page
           w2 == w \o <<DONE>>
<1>3. c \in Nat /\ n2 \in 0..c /\ c - n2 = g.cursor - n /\ c <= l
  BY <1>1, <1>2
<1>4. /\ w \in Seq(Nat) /\ Len(w) = n2
      /\ \A i \in 1..n2 : w[i] = IF i <= n THEN g.wire[i] ELSE page[i - n]
  BY <1>1, <1>2, ConcatProperties
<1>5. \A i \in 1..n2 : w[i] = c - n2 + i
  <2> SUFFICES ASSUME NEW i \in 1..n2 PROVE w[i] = c - n2 + i
    OBVIOUS
  <2>1. CASE i <= n
    BY <1>1, <1>2, <1>4, <2>1
  <2>2. CASE ~(i <= n)
    <3>1. i - n \in 1..Len(page)
      BY <1>1, <1>2, <2>2
    <3>2. page[i - n] = g.cursor + (i - n)
      BY <3>1
    <3> QED
      BY <1>1, <1>2, <1>4, <2>2, <3>2
  <2> QED
    BY <2>1, <2>2
<1>6. <<DONE>> \in Seq(Nat) /\ Len(<<DONE>>) = 1 /\ <<DONE>>[1] = DONE
  BY DEF DONE
<1>7. /\ w2 \in Seq(Nat) /\ Len(w2) = n2 + 1 /\ w2[n2 + 1] = DONE
      /\ \A i \in 1..n2 : w2[i] = w[i]
  <2> HIDE DEF w, n2, c
  <2>1. n2 \in Nat
    BY <1>3
  <2>2. /\ w2 \in Seq(Nat) /\ Len(w2) = n2 + 1
        /\ \A i \in 1..(n2 + 1) : w2[i] = IF i <= n2 THEN w[i] ELSE <<DONE>>[i - n2]
    BY <1>4, <1>6, ConcatProperties
  <2> HIDE DEF w2
  <2>3. n2 + 1 \in 1..(n2 + 1) /\ ~(n2 + 1 <= n2) /\ (n2 + 1) - n2 = 1 /\ 1..n2 \subseteq 1..(n2 + 1)
    BY <2>1
  <2> QED
    BY <1>6, <2>1, <2>2, <2>3
<1> HIDE DEF c, n2, w, w2
<1>8. ASSUME NEW h \in ConnState, h.cursor = c,
             \/ h.wire = w
             \/ h.wire = w2 /\ h.pc = "ended"
      PROVE  InStep(h, m, l)
  <2>1. c - n2 <= m
    BY <1>1, <1>2, <1>3
  <2>2. \A i \in 1..n2 : h.wire[i] = c - n2 + i
    BY <1>5, <1>7, <1>8
  <2>3. Runs(h, m)
    BY <1>3, <1>4, <1>7, <1>8, <2>1, <2>2 DEF Runs
  <2> QED
    BY <1>3, <1>8, <2>3 DEF InStep
<1>9. /\ [pc |-> "status", cursor |-> c, wire |-> w] \in ConnState
      /\ [pc |-> "ended", cursor |-> c, wire |-> w2] \in ConnState
  BY <1>3, <1>4, <1>7 DEF ConnState
<1> QED
  BY <1>8, <1>9 DEF c, w, w2

LEMMA InStepDone ==
    ASSUME NEW m \in Nat, NEW l \in Nat, NEW g, InStep(g, m, l), g.pc = "status"
    PROVE  /\ InStep([g EXCEPT !.pc = "ended", !.wire = Append(g.wire, DONE)], m, l)
           /\ InStep([g EXCEPT !.pc = "replay"], m, l)
<1>1. g \in ConnState /\ g.cursor \in Nat /\ g.wire \in Seq(Nat) /\ g.cursor <= l
  BY DEF InStep, ConnState
<1>2. PICK n \in 0..g.cursor :
        g.cursor - n <= m /\ Len(g.wire) = n /\ \A i \in 1..n : g.wire[i] = g.cursor - n + i
  BY DEF InStep, Runs
<1> DEFINE w == Append(g.wire, DONE)
           h == [g EXCEPT !.pc = "ended", !.wire = w]
           h2 == [g EXCEPT !.pc = "replay"]
<1>3. /\ w \in Seq(Nat) /\ Len(w) = n + 1 /\ w[n + 1] = DONE
      /\ \A i \in 1..n : w[i] = g.wire[i]
  BY <1>1, <1>2, AppendProperties DEF DONE
<1> HIDE DEF w
<1>4. /\ h \in ConnState /\ h.cursor = g.cursor /\ h.wire = w /\ h.pc = "ended"
      /\ h2 \in ConnState /\ h2.cursor = g.cursor /\ h2.wire = g.wire
  BY <1>1, <1>3 DEF ConnState
<1> HIDE DEF h, h2
<1>5. Runs(h, m)
  BY <1>2, <1>3, <1>4 DEF Runs
<1>6. Runs(h2, m)
  BY <1>2, <1>4 DEF Runs
<1> QED
  BY <1>1, <1>4, <1>5, <1>6 DEF InStep, h, h2, w

\* The first frame on the way is the next event for the client, one it has, or
\* [DONE].
LEMMA InStepArrived ==
    ASSUME NEW m \in Nat, NEW l \in Nat, NEW g, InStep(g, m, l), g.wire # <<>>
    PROVE  /\ Head(g.wire) \in Nat /\ Head(g.wire) <= m + 1 /\ Head(g.wire) <= l
           /\ \A m2 \in Nat : m <= m2 /\ Head(g.wire) <= m2 => InStep([g EXCEPT !.wire = Tail(@)], m2, l)
<1>1. g \in ConnState /\ g.cursor \in Nat /\ g.wire \in Seq(Nat) /\ g.cursor <= l
  BY DEF InStep, ConnState
<1>2. PICK n \in 0..g.cursor :
        /\ g.cursor - n <= m
        /\ \A i \in 1..n : g.wire[i] = g.cursor - n + i
        /\ \/ Len(g.wire) = n
           \/ Len(g.wire) = n + 1 /\ g.wire[n + 1] = DONE /\ g.pc = "ended"
  BY DEF InStep, Runs
<1> DEFINE w == Tail(g.wire)
           h == [g EXCEPT !.wire = Tail(@)]
<1>3. /\ Len(g.wire) \in Nat \ {0} /\ Head(g.wire) = g.wire[1]
      /\ w \in Seq(Nat) /\ Len(w) = Len(g.wire) - 1 /\ \A i \in 1..Len(w) : w[i] = g.wire[i + 1]
  BY <1>1, EmptySeq, HeadTailProperties
<1> HIDE DEF w
<1>4. h \in ConnState /\ h.cursor = g.cursor /\ h.wire = w /\ h.pc = g.pc
  BY <1>1, <1>3 DEF ConnState, w
<1> HIDE DEF h
<1>5. CASE n = 0
  <2>1. Len(w) = 0 /\ Head(g.wire) = 0 /\ g.cursor <= m
    BY <1>1, <1>2, <1>3, <1>5 DEF DONE
  <2>2. ASSUME NEW m2 \in Nat, m <= m2 PROVE Runs(h, m2)
    <3>1. 0 \in 0..h.cursor /\ h.cursor - 0 <= m2 /\ Len(h.wire) = 0
      BY <1>1, <1>4, <2>1, <2>2
    <3> QED
      BY <3>1 DEF Runs
  <2>3. Head(g.wire) \in Nat /\ Head(g.wire) <= m + 1 /\ Head(g.wire) <= l
    BY <2>1
  <2>4. \A m2 \in Nat : m <= m2 => InStep(h, m2, l)
    BY <1>1, <1>4, <2>2 DEF InStep
  <2> QED
    BY <2>3, <2>4 DEF h
<1>6. CASE n # 0
  <2>1. n - 1 \in 0..g.cursor /\ Head(g.wire) = g.cursor - (n - 1)
    BY <1>1, <1>2, <1>3, <1>6
  <2>2. Head(g.wire) <= m + 1 /\ Head(g.wire) <= l /\ Head(g.wire) \in Nat
    <3>1. g.cursor \in Nat /\ n \in Nat /\ n # 0 /\ n <= g.cursor /\ g.cursor - n <= m /\ g.cursor <= l
      BY <1>1, <1>2, <1>6
    <3>2. \A c, k \in Nat : k # 0 /\ k <= c /\ c - k <= m /\ c <= l
              => c - (k - 1) <= m + 1 /\ c - (k - 1) <= l /\ c - (k - 1) \in Nat
      OBVIOUS
    <3> QED
      BY <2>1, <3>1, <3>2
  <2>3. \A i \in 1..(n - 1) : w[i] = g.cursor - (n - 1) + i
    <3> TAKE i \in 1..(n - 1)
    <3>1. i \in 1..Len(w) /\ i + 1 \in 1..n
      BY <1>2, <1>3, <1>6
    <3>2. w[i] = g.wire[i + 1] /\ g.wire[i + 1] = g.cursor - n + (i + 1)
      BY <1>2, <1>3, <3>1
    <3>3. \A c, k \in Int : c - k + (i + 1) = c - (k - 1) + i
      OBVIOUS
    <3>4. g.cursor \in Int /\ n \in Int
      BY <1>1
    <3> QED
      BY <3>2, <3>3, <3>4
  <2>4. \/ Len(w) = n - 1
        \/ Len(w) = (n - 1) + 1 /\ w[(n - 1) + 1] = DONE /\ g.pc = "ended"
    <3>1. CASE Len(g.wire) = n
      BY <1>3, <3>1
    <3>2. CASE Len(g.wire) = n + 1 /\ g.wire[n + 1] = DONE /\ g.pc = "ended"
      <4>1. Len(w) = n /\ n \in 1..Len(w) /\ (n - 1) + 1 = n
        BY <1>2, <1>3, <1>6, <3>2
      <4> QED
        BY <1>3, <3>2, <4>1
    <3> QED
      BY <1>2, <3>1, <3>2
  <2>5. ASSUME NEW m2 \in Nat, Head(g.wire) <= m2 PROVE Runs(h, m2)
    <3> DEFINE p == n - 1
    <3>1. p \in 0..h.cursor /\ h.cursor - p <= m2
      BY <1>4, <2>1, <2>5
    <3>2. \A i \in 1..p : h.wire[i] = h.cursor - p + i
      BY <1>4, <2>3
    <3>3. \/ Len(h.wire) = p
          \/ Len(h.wire) = p + 1 /\ h.wire[p + 1] = DONE /\ h.pc = "ended"
      BY <1>4, <2>4
    <3> HIDE DEF p
    <3> QED
      BY <3>1, <3>2, <3>3 DEF Runs
  <2> QED
    BY <1>1, <1>4, <2>2, <2>5 DEF InStep, h
<1> QED
  BY <1>5, <1>6

LEMMA StreamInvInit == Init => StreamInv
<1> SUFFICES ASSUME Init PROVE StreamInv
  OBVIOUS
<1>1. received \in Seq(Nat) /\ Len(received) = 0 /\ Len(rows) = 0 /\ lastEventId = 0
  BY EmptySeq DEF Init, LogInit
<1>2. InStep(Free, 0, 0)
  <2>1. \A n \in Nat : n <= n => InStep(Free, n, n)
    BY InStepOpened
  <2> QED
    BY <2>1
<1>3. \A k \in Conns : conn[k] = Free
  BY DEF Init
<1>4. conn \in [Conns -> ConnState]
  BY <1>2 DEF Init, InStep
<1>5. Counted(received, Len(rows))
  BY <1>1 DEF Counted
<1> QED
  BY <1>1, <1>2, <1>3, <1>4, <1>5 DEF StreamInv

\* A step that gives one connection another state, and nothing to the client.
LEMMA StreamInvConn ==
    ASSUME StreamInv, UNCHANGED <<rows, received, lastEventId>>, NEW k \in Conns, NEW g,
           conn' = [conn EXCEPT ![k] = g], InStep(g, Len(received), Len(rows))
    PROVE  StreamInv'
<1>1. g \in ConnState
  BY DEF InStep
<1>2. conn' \in [Conns -> ConnState] /\ \A j \in Conns : conn'[j] = IF j = k THEN g ELSE conn[j]
  BY <1>1 DEF StreamInv
<1>3. \A j \in Conns : InStep(conn'[j], Len(received), Len(rows))
  BY <1>2 DEF StreamInv
<1> QED
  BY <1>2, <1>3 DEF StreamInv

LEMMA StreamInvReplay ==
    ASSUME LogInv, StreamInv, NEW k \in Conns, Replay(k)
    PROVE  StreamInv'
<1> DEFINE page == Page(k)
           g == conn[k]
           last == page # <<>> /\ rows[Last(page)] \in Final
           h == [pc |-> IF last THEN "ended" ELSE "status",
                 cursor |-> IF page = <<>> THEN g.cursor ELSE Last(page),
                 wire |-> g.wire \o page \o IF last THEN <<DONE>> ELSE <<>>]
<1>1. RowsType /\ Len(rows) \in Nat /\ Len(received) \in Nat
  BY RowsDomain DEF LogInv, StreamInv, Counted
<1>2. g \in ConnState /\ g.cursor \in 0..Len(rows) /\ g.wire \in Seq(Nat)
  BY <1>1 DEF StreamInv, InStep, ConnState
<1>3. PICK n \in 0..(Len(rows) - g.cursor) :
        page \in Seq(Nat) /\ Len(page) = n /\ \A i \in 1..n : page[i] = g.cursor + i
  BY <1>1, <1>2, PageContinues
<1>4. g.cursor + Len(page) <= Len(rows) /\ n \in Nat
  BY <1>1, <1>2, <1>3
<1>5. (IF page = <<>> THEN g.cursor ELSE Last(page)) = g.cursor + Len(page)
  <2>1. CASE page = <<>>
    BY <1>2, <2>1
  <2>2. CASE page # <<>>
    <3> HIDE DEF page
    <3>1. Len(page) \in 1..n
      BY <1>3, <1>4, <2>2, EmptySeq
    <3> QED
      BY <1>3, <2>2, <3>1 DEF Last
  <2> QED
    BY <2>1, <2>2
<1>6. /\ InStep([pc |-> "status", cursor |-> g.cursor + Len(page), wire |-> g.wire \o page],
                Len(received), Len(rows))
      /\ InStep([pc |-> "ended", cursor |-> g.cursor + Len(page), wire |-> (g.wire \o page) \o <<DONE>>],
                Len(received), Len(rows))
  <2>1. InStep(g, Len(received), Len(rows)) /\ g.pc = "replay"
    BY DEF StreamInv, Replay
  <2> HIDE DEF page, g
  <2> QED
    BY <1>1, <1>3, <1>4, <2>1, InStepReplayed
<1>7. InStep(h, Len(received), Len(rows))
  <2>1. CASE last
    BY <1>5, <1>6, <2>1
  <2>2. CASE ~last
    <3> HIDE DEF page
    <3>1. g.wire \o page \in Seq(Nat)
      BY <1>2, <1>3, ConcatProperties
    <3>2. (g.wire \o page) \o <<>> = g.wire \o page
      BY <3>1, ConcatEmptySeq
    <3>3. h = [pc |-> "status", cursor |-> g.cursor + Len(page), wire |-> g.wire \o page]
      BY <1>5, <2>2, <3>2
    <3> QED
      BY <1>6, <3>3
  <2> QED
    BY <2>1, <2>2
<1>8. conn' = [conn EXCEPT ![k] = h] /\ UNCHANGED <<rows, received, lastEventId>>
  BY DEF Replay, logVars, clientVars
<1> QED
  BY <1>7, <1>8, StreamInvConn

LEMMA StreamInvReceive ==
    ASSUME LogInv, StreamInv, NEW k \in Conns, ReceiveEvent(k) \/ ReceiveDone(k)
    PROVE  StreamInv'
<1> DEFINE g == conn[k]
           s == Head(g.wire)
           h == [g EXCEPT !.wire = Tail(@)]
           m == Len(received)
<1>1. /\ m \in Nat /\ Len(rows) \in Nat /\ received \in Seq(Nat) /\ m <= Len(rows)
      /\ \A i \in 1..m : received[i] = i
  BY RowsDomain DEF LogInv, StreamInv, Counted
<1>2. InStep(g, m, Len(rows)) /\ g.wire # <<>>
  BY DEF StreamInv, ReceiveEvent, ReceiveDone, Arrived
<1>3. /\ s \in Nat /\ s <= m + 1 /\ s <= Len(rows)
      /\ \A m2 \in Nat : m <= m2 /\ s <= m2 => InStep(h, m2, Len(rows))
  <2> HIDE DEF g, m
  <2> QED
    BY <1>1, <1>2, InStepArrived
<1>4. conn' = [conn EXCEPT ![k] = h] /\ UNCHANGED rows
  BY DEF ReceiveEvent, ReceiveDone, logVars, StreamInv
<1>5. CASE ReceiveDone(k) \/ \E i \in 1..Len(received) : received[i] = s
  <2>1. s <= m
    BY <1>1, <1>5 DEF ReceiveDone, DONE
  <2>2. UNCHANGED <<received, lastEventId>>
    BY <1>5 DEF ReceiveDone, ReceiveEvent
  <2> QED
    <3>1. InStep(h, m, Len(rows))
      <4>1. m <= m
        BY <1>1
      <4> HIDE DEF h, m, s
      <4> QED
        BY <1>1, <1>3, <2>1, <4>1
    <3> HIDE DEF h
    <3> QED
      BY <1>4, <2>2, <3>1, StreamInvConn
<1>6. CASE ReceiveEvent(k) /\ ~\E i \in 1..Len(received) : received[i] = s
  <2>1. s = m + 1
    <3>1. s # 0
      BY <1>6 DEF ReceiveEvent, DONE
    <3>2. ~(s \in 1..m)
      BY <1>1, <1>6
    <3> QED
      BY <1>1, <1>3, <3>1, <3>2
  <2>2. received' = Append(received, s) /\ lastEventId' = s
    BY <1>1, <1>6, <2>1 DEF ReceiveEvent, StreamInv
  <2>3. /\ received' \in Seq(Nat) /\ Len(received') = m + 1 /\ received'[m + 1] = m + 1
        /\ \A i \in 1..m : received'[i] = received[i]
    BY <1>1, <1>3, <2>1, <2>2, AppendProperties
  <2>4. Counted(received', Len(rows'))
    <3>1. \A i \in 1..(m + 1) : i \in 1..m \/ i = m + 1
      BY <1>1
    <3>2. Len(received') <= Len(rows')
      BY <1>3, <1>4, <2>1, <2>3
    <3> HIDE DEF m
    <3> QED
      BY <1>1, <2>3, <3>1, <3>2 DEF Counted
  <2>5. InStep(h, m + 1, Len(rows))
    <3>1. m + 1 \in Nat /\ m <= m + 1 /\ s <= m + 1
      BY <1>1, <2>1
    <3> HIDE DEF h, m, s
    <3> QED
      BY <1>3, <3>1
  <2>6. \A j \in Conns : InStep(conn[j], m + 1, Len(rows))
    <3>1. m + 1 \in Nat /\ m <= m + 1
      BY <1>1
    <3> QED
      BY <1>1, <3>1, InStepLater DEF StreamInv
  <2>7. conn' \in [Conns -> ConnState] /\ \A j \in Conns : conn'[j] = IF j = k THEN h ELSE conn[j]
    <3>1. h \in ConnState
      BY <2>5 DEF InStep
    <3> HIDE DEF h
    <3> QED
      BY <1>4, <3>1 DEF StreamInv
  <2> HIDE DEF g, h, m, s
  <2> QED
    BY <1>4, <2>1, <2>2, <2>3, <2>4, <2>5, <2>6, <2>7 DEF StreamInv
<1> QED
  BY <1>5, <1>6

LEMMA StreamInvNext ==
    ASSUME LogInv, StreamInv, [Next]_vars
    PROVE  StreamInv'
<1>1. Len(received) \in Nat /\ Len(rows) \in Nat /\ Len(received) <= Len(rows)
  BY RowsDomain DEF LogInv, StreamInv, Counted
<1>2. InStep(Free, Len(received), Len(rows))
  BY <1>1, InStepOpened
<1>3. CASE LogNext /\ UNCHANGED <<conn, clientVars>>
  <2>1. Len(rows') \in Nat /\ Len(rows) <= Len(rows')
    <3>1. ASSUME NEW t \in EventType, Log!Extend(t) PROVE Len(rows') = Len(rows) + 1
      BY <3>1, AppendProperties DEF Log!Extend, LogInv, RowsType
    <3> QED
      BY <1>1, <3>1, LogInvNext
  <2>2. UNCHANGED <<conn, received, lastEventId>>
    BY <1>3 DEF clientVars
  <2>3. \A k \in Conns : InStep(conn[k], Len(received), Len(rows'))
    BY <1>1, <2>1, InStepLater DEF StreamInv
  <2> QED
    BY <1>1, <2>1, <2>2, <2>3 DEF StreamInv, Counted
<1>4. ASSUME NEW k \in Conns, Replay(k) PROVE StreamInv'
  BY <1>4, StreamInvReplay
<1>5. ASSUME NEW k \in Conns, ReadStatus(k) PROVE StreamInv'
  <2> DEFINE h == [conn[k] EXCEPT !.pc = "ended", !.wire = Append(conn[k].wire, DONE)]
             h2 == [conn[k] EXCEPT !.pc = "replay"]
  <2>1. InStep(h, Len(received), Len(rows)) /\ InStep(h2, Len(received), Len(rows))
    BY <1>1, <1>5, InStepDone DEF ReadStatus, StreamInv
  <2>2. conn' = [conn EXCEPT ![k] = h] \/ conn' = [conn EXCEPT ![k] = h2]
    BY <1>5 DEF ReadStatus, StreamInv
  <2>3. UNCHANGED <<rows, received, lastEventId>>
    BY <1>5 DEF ReadStatus, logVars, clientVars
  <2> HIDE DEF h, h2
  <2> QED
    BY <2>1, <2>2, <2>3, StreamInvConn
<1>6. ASSUME NEW k \in Conns, Connect(k) PROVE StreamInv'
  <2>1. InStep([pc |-> "replay", cursor |-> Len(received), wire |-> <<>>], Len(received), Len(rows))
    BY <1>1, InStepOpened
  <2>2. /\ conn' = [conn EXCEPT ![k] = [pc |-> "replay", cursor |-> Len(received), wire |-> <<>>]]
        /\ UNCHANGED <<rows, received, lastEventId>>
    BY <1>6 DEF Connect, Open, logVars, StreamInv
  <2> QED
    BY <2>1, <2>2, StreamInvConn
<1>7. ASSUME NEW k \in Conns, ReceiveEvent(k) \/ ReceiveDone(k) PROVE StreamInv'
  BY <1>7, StreamInvReceive
<1>8. ASSUME NEW k \in Conns, EndOfStream(k) \/ Disconnect(k) PROVE StreamInv'
  <2>1. conn' = [conn EXCEPT ![k] = Free] /\ UNCHANGED <<rows, received, lastEventId>>
    BY <1>8 DEF EndOfStream, Disconnect, logVars, clientVars
  <2> QED
    BY <1>2, <2>1, StreamInvConn
<1>9. CASE Close
  <2>1. /\ conn' = [k \in Conns |-> IF k = handle THEN Free ELSE conn[k]]
        /\ UNCHANGED <<rows, received, lastEventId>>
    BY <1>9 DEF Close, logVars
  <2>2. Free \in ConnState
    BY <1>2 DEF InStep
  <2> QED
    BY <1>2, <2>1, <2>2 DEF StreamInv
<1>10. CASE UNCHANGED vars \/ \E why \in {"event", "done"} : RunRead(why) \/ RunReadFails(why)
  <2>1. UNCHANGED <<conn, rows, received, lastEventId>>
    BY <1>10 DEF vars, logVars, clientVars, RunRead, RunReadFails
  <2> QED
    BY <2>1 DEF StreamInv
<1> QED
  BY <1>3, <1>4, <1>5, <1>6, <1>7, <1>8, <1>9, <1>10 DEF Next, StreamStep

-----------------------------------------------------------------------------
\* The variables that neither invariant speaks of
OtherTypes ==
    /\ status \in {"active"} \cup Terminal
    /\ attempt \in [Workers -> {"off", "on", "final"}]
    /\ events \in 0..MaxEvents /\ faults \in 0..MaxFaults
    /\ handle \in Conns \cup {NoConn}
    /\ timer \in BOOLEAN /\ closed \in BOOLEAN /\ notified \in BOOLEAN
    /\ asks \in [{"event", "done"} -> Nat]

\* Changes of these variables that are within their types
LEMMA OtherTypesParts ==
    ASSUME OtherTypes, UNCHANGED <<status, attempt, events, closed>>,
           UNCHANGED faults \/ Fault,
           UNCHANGED handle \/ handle' \in Conns,
           UNCHANGED timer \/ timer' = FALSE \/ ScheduleReconnect,
           UNCHANGED notified \/ notified' = (notified \/ status \in Terminal),
           UNCHANGED asks \/ \E why \in {"event", "done"} : Ask(why) \/ Answered(why)
    PROVE  OtherTypes'
<1>1. faults' \in 0..MaxFaults
  BY EventLogAssumption DEF OtherTypes, Fault
<1>2. asks' \in [{"event", "done"} -> Nat]
  BY DEF OtherTypes, Ask, Answered
<1>3. timer' \in BOOLEAN /\ notified' \in BOOLEAN
  BY Zenon DEF OtherTypes, ScheduleReconnect
<1> QED
  BY <1>1, <1>2, <1>3 DEF OtherTypes

LEMMA OtherTypesNext ==
    ASSUME OtherTypes, [Next]_vars
    PROVE  OtherTypes'
<1> USE EventLogAssumption
<1>1. CASE LogNext /\ UNCHANGED <<conn, clientVars>>
  <2>1. ASSUME NEW p \in Producers, AppendStep(p) PROVE OtherTypes'
    BY <1>1, <2>1 DEF AppendStep, SelectMax, Insert, Conflict, GiveUp, CommitEvent, OtherTypes, clientVars
  <2>2. ASSUME NEW w \in Workers, BeginAttempt(w) \/ EmitProgress(w) \/ EmitCompleted(w)
                                  \/ EndAttempt(w) \/ AttemptDies(w)
        PROVE  OtherTypes'
    BY <1>1, <2>2 DEF BeginAttempt, EmitProgress, EmitCompleted, EndAttempt, AttemptDies,
       BeginAppend, Fault, Terminal, OtherTypes, clientVars
  <2>3. ASSUME NEW h \in Handlers, CancelRun(h) \/ EmitResolved(h) \/ HandlerDies(h)
        PROVE  OtherTypes'
    BY <1>1, <2>3 DEF CancelRun, EmitResolved, HandlerDies, BeginAppend, Fault, Terminal,
       OtherTypes, clientVars
  <2> QED
    BY <1>1, <2>1, <2>2, <2>3 DEF LogNext
<1>2. ASSUME NEW k \in Conns, StreamStep(k) \/ Disconnect(k) PROVE OtherTypes'
  <2>1. UNCHANGED <<status, attempt, events>> /\ (UNCHANGED faults \/ Fault)
    BY <1>2 DEF StreamStep, Replay, ReadStatus, Connect, Open, ReceiveEvent, ReceiveDone, EndOfStream,
       Disconnect, logVars
  <2>2. UNCHANGED <<closed, notified>> /\ (UNCHANGED handle \/ handle' = k)
    BY <1>2 DEF StreamStep, Replay, ReadStatus, Connect, Open, ReceiveEvent, ReceiveDone, EndOfStream,
       Disconnect, clientVars
  <2>3. UNCHANGED timer \/ timer' = FALSE \/ ScheduleReconnect
    BY <1>2 DEF StreamStep, Replay, ReadStatus, Connect, Open, ReceiveEvent, ReceiveDone, EndOfStream,
       Disconnect, clientVars
  <2>4. UNCHANGED asks \/ \E why \in {"event", "done"} : Ask(why)
    BY <1>2 DEF StreamStep, Replay, ReadStatus, Connect, Open, ReceiveEvent, ReceiveDone, EndOfStream,
       Disconnect, clientVars
  <2> QED
    BY <2>1, <2>2, <2>3, <2>4, OtherTypesParts
<1>3. ASSUME NEW why \in {"event", "done"}, RunRead(why) \/ RunReadFails(why) PROVE OtherTypes'
  <2>1. UNCHANGED <<status, attempt, events, handle, closed>> /\ (UNCHANGED faults \/ Fault)
    BY <1>3 DEF RunRead, RunReadFails, logVars
  <2>2. UNCHANGED timer \/ ScheduleReconnect
    BY <1>3 DEF RunRead, RunReadFails
  <2>3. UNCHANGED notified \/ notified' = (notified \/ status \in Terminal)
    BY <1>3 DEF RunRead, RunReadFails
  <2>4. Answered(why)
    BY <1>3 DEF RunRead, RunReadFails
  <2> QED
    BY <2>1, <2>2, <2>3, <2>4, OtherTypesParts
<1>4. CASE Close \/ UNCHANGED vars
  BY <1>4 DEF Close, vars, OtherTypes, logVars, clientVars
<1> QED
  BY <1>1, <1>2, <1>3, <1>4 DEF Next

IInv == LogInv /\ StreamInv /\ OtherTypes

LEMMA Always == Spec => []IInv
<1>1. Init => IInv
  <2>1. Init => OtherTypes
    <3> SUFFICES ASSUME Init PROVE OtherTypes
      OBVIOUS
    <3>1. events \in 0..MaxEvents /\ faults \in 0..MaxFaults /\ asks \in [{"event", "done"} -> Nat]
      BY EventLogAssumption DEF Init, LogInit
    <3>2. timer \in BOOLEAN /\ closed \in BOOLEAN /\ notified \in BOOLEAN
      BY DEF Init
    <3> QED
      BY <3>1, <3>2 DEF Init, LogInit, OtherTypes
  <2> QED
    BY <2>1, LogInvInit, StreamInvInit DEF IInv
<1>2. IInv /\ [Next]_vars => IInv'
  BY LogInvNext, StreamInvNext, OtherTypesNext DEF IInv
<1> QED
  BY <1>1, <1>2, PTL DEF Spec

\* Log, server streams and client keep their types, whatever connections and
\* processes die.
THEOREM TypeSafety == Spec => []TypeOK
<1>1. IInv => TypeOK
  BY RowsDomain
     DEF IInv, LogInv, RowsType, AppendType, StreamInv, ConnState, Counted, OtherTypes, TypeOK, LogTypeOK
<1> QED
  BY <1>1, Always, PTL

\* The client is given the events of the run once each, in order and without a
\* gap, for any number of connections, retries of append and lost frames.
THEOREM OrderSafety == Spec => []ReceivedInOrder
<1>1. IInv => ReceivedInOrder
  <2> SUFFICES ASSUME IInv PROVE ReceivedInOrder
    OBVIOUS
  <2>1. Len(rows) \in Nat /\ DOMAIN rows = 1..Len(rows)
    BY RowsDomain DEF IInv, LogInv
  <2>2. Cardinality(1..Len(rows)) = Len(rows)
    <3>1. \A n \in Nat : Cardinality(1..n) = n
      BY FS_Interval
    <3> QED
      BY <2>1, <3>1
  <2> QED
    BY <2>1, <2>2 DEF IInv, StreamInv, Counted, ReceivedInOrder
<1> QED
  BY <1>1, Always, PTL
=============================================================================
