------------------------ MODULE AgentRuntime_proofs ------------------------
(* Theorems about AgentRuntime, for every set of runs, workers, clients and  *)
(* every budget.                                                             *)
EXTENDS AgentRuntime, SequenceTheorems, FiniteSetTheorems, TLAPS

\* A process that is busy has a run in hand.
InHandOK ==
    /\ \A w \in Workers : wpc[w] # "idle" => job[w] \in Runs
    /\ \A c \in Clients : cpc[c] # "idle" => creq[c] \in Runs
    /\ rstep # "next" => rjob \in Runs

TypeInv == TypeOK /\ InHandOK

\* The right end of a non-empty queue is a run, and the rest is a queue.
LEMMA QueueEnd ==
    ASSUME queue \in Seq(Runs), queue # <<>>
    PROVE  NextDelivery \in Runs /\ SubSeq(queue, 1, Len(queue) - 1) \in Seq(Runs)
BY DEF NextDelivery

\* Each Redis command keeps the types of the keys.
LEMMA RedisType ==
    ASSUME RedisTypeOK, NEW r \in Runs,
           \/ Sadd(r) \/ Srem(r) \/ Rpush(r) \/ LremProcessing(r)
           \/ RecoverDelivery(r) \/ SetCancel(r)
    PROVE  RedisTypeOK'
<1> USE DEF RedisTypeOK
<1>1. CASE Sadd(r) \/ Srem(r) \/ SetCancel(r)
  BY <1>1 DEF Sadd, Srem, SetCancel
<1>2. CASE Rpush(r)
  BY <1>2 DEF Rpush
<1>3. CASE LremProcessing(r)
  BY <1>3 DEF LremProcessing
<1>4. CASE RecoverDelivery(r)
  BY <1>4 DEF RecoverDelivery, Recoverable
<1> QED
  BY <1>1, <1>2, <1>3, <1>4

LEMMA LeaseType ==
    ASSUME RedisTypeOK, NEW r \in Runs, NEW w \in Workers \cup {Nobody},
           AcquireLease(r, w) \/ ReleaseLease(r, w) \/ SetLease(r, w)
    PROVE  RedisTypeOK'
BY DEF RedisTypeOK, AcquireLease, ReleaseLease, SetLease, redisVars

LEMMA RedisTypePop == RedisTypeOK /\ RpopLpush => RedisTypeOK'
BY QueueEnd DEF RedisTypeOK, RpopLpush

LEMMA RedisTypeStutter == RedisTypeOK /\ UNCHANGED redisVars => RedisTypeOK'
BY DEF RedisTypeOK, redisVars

LEMMA SpendType ==
    ASSUME budget \in [BudgetKinds -> Nat], NEW k \in BudgetKinds, Spend(k)
    PROVE  budget' \in [BudgetKinds -> Nat]
BY DEF Spend, BudgetKinds

LEMMA TypeInit == Init => TypeInv
BY RuntimeAssumption, OwnersDistinct
   DEF Init, RedisInit, TypeInv, TypeOK, RedisTypeOK, InHandOK, Status, WorkerPc, ClientPc, Item

\* One step per action of the API handlers.
LEMMA TypeClients ==
    ASSUME TypeInv, NEW c \in Clients, HandlerStep(c) \/ RequestStep(c)
    PROVE  TypeInv'
<1> USE SpendType, RedisType, LeaseType, RedisTypeStutter, RuntimeAssumption
    DEF TypeInv, TypeOK, InHandOK, Status, Terminal, ClientPc, BudgetKinds,
        dbVars, workerVars, recVars
<1>1. ASSUME NEW r \in Runs, Submit(c, r) PROVE TypeInv'
  BY <1>1 DEF Submit, ClientStart
<1>2. CASE EnqueueSadd(c)
  BY <1>2 DEF EnqueueSadd, ClientGoto
<1>3. CASE EnqueueRpush(c)
  BY <1>3 DEF EnqueueRpush, ClientGoto
<1>4. CASE EnqueueError(c)
  BY <1>4 DEF EnqueueError, ClientGoto
<1>5. CASE EnqueueUndo(c)
  BY <1>5 DEF EnqueueUndo, ClientGoto
<1>6. CASE AbandonRequest(c)
  BY <1>6 DEF AbandonRequest, ClientGoto
<1>7. ASSUME NEW r \in Runs, CancelRow(c, r) PROVE TypeInv'
  BY <1>7 DEF CancelRow, ClientStart
<1>8. CASE CancelToken(c)
  BY <1>8 DEF CancelToken, ClientGoto
<1>9. ASSUME NEW r \in Runs, DecideRead(c, r) PROVE TypeInv'
  BY <1>9 DEF DecideRead, ClientStart
<1>10. CASE DecideWrite(c)
  BY <1>10 DEF DecideWrite, ClientGoto
<1> QED
  BY <1>1, <1>2, <1>3, <1>4, <1>5, <1>6, <1>7, <1>8, <1>9, <1>10 DEF HandlerStep, RequestStep

\* One step per action of a worker.
LEMMA TypeWorkers ==
    ASSUME TypeInv, NEW w \in Workers, DeliveryStep(w) \/ ExecutionStep(w) \/ WorkerFault(w)
    PROVE  TypeInv'
<1> USE SpendType, RedisType, LeaseType, RedisTypeStutter, RuntimeAssumption, OwnersDistinct
    DEF TypeInv, TypeOK, InHandOK, Status, Terminal, WorkerPc, Holding, InSession, Unacked,
        BudgetKinds, Goto, dbVars, clientVars, recVars
<1>1. CASE Dequeue(w)
  BY <1>1, QueueEnd, RedisTypePop DEF Dequeue, RpopLpush, RedisTypeOK
<1>2. CASE CheckDelivery(w)
  BY <1>2 DEF CheckDelivery
<1>3. CASE Acquire(w)
  BY <1>3 DEF Acquire
<1>4. CASE AckLrem(w)
  BY <1>4 DEF AckLrem
<1>5. CASE AckSrem(w)
  BY <1>5 DEF AckSrem
<1>6. CASE CheckStart(w)
  BY <1>6 DEF CheckStart
<1>7. CASE Load(w)
  BY <1>7 DEF Load
<1>8. CASE Begin(w)
  BY <1>8 DEF Begin, Assign, Terminal
<1>9. CASE Flush(w)
  BY <1>9 DEF Flush, workerVars
<1>10. CASE Checkpoint(w)
  BY <1>10 DEF Checkpoint, Assign
<1>11. CASE FinishSome(w)
  BY <1>11 DEF FinishSome, Finish, Assign
<1>12. CASE CloudTool(w)
  BY <1>12 DEF CloudTool
<1>13. CASE DesktopDispatch(w)
  BY <1>13 DEF DesktopDispatch, CommitSession
<1>14. CASE DesktopReturn(w)
  BY <1>14 DEF DesktopReturn
<1>15. CASE Commit(w)
  BY <1>15 DEF Commit, CommitSession
<1>16. CASE Release(w)
  BY <1>16 DEF Release
<1>17. CASE RenewalRefused(w)
  BY <1>17 DEF RenewalRefused
<1>18. CASE StopWorker(w)
  BY <1>18 DEF StopWorker
<1>19. CASE RestartWorker(w)
  BY <1>19 DEF RestartWorker
<1>20. CASE LeaseLapse(w)
  BY <1>20 DEF LeaseLapse
<1>21. CASE HandlerRaises(w)
  BY <1>21 DEF HandlerRaises, Rollback
<1>22. CASE CrashWorker(w)
  BY <1>22 DEF CrashWorker, Rollback, RedisTypeOK
<1> QED
  BY <1>1, <1>2, <1>3, <1>4, <1>5, <1>6, <1>7, <1>8, <1>9, <1>10, <1>11, <1>12,
      <1>13, <1>14, <1>15, <1>16, <1>17, <1>18, <1>19, <1>20, <1>21, <1>22 DEF
      DeliveryStep, ExecutionStep, WorkerFault

\* One step per action of the recovery worker, its crash and key expiry.
LEMMA TypeRecovery ==
    ASSUME TypeInv, RecoveryStep \/ CrashRecovery \/ \E r \in Runs : LeaseExpire(r)
    PROVE  TypeInv'
<1> USE SpendType, RedisType, LeaseType, RedisTypeStutter, RuntimeAssumption
    DEF TypeInv, TypeOK, InHandOK, Status, Terminal, BudgetKinds, Item, RecoveryFrame,
        NextItem, dbVars, workerVars, clientVars, recVars
<1>1. CASE RecoveryBegin
  BY <1>1 DEF RecoveryBegin
<1>2. ASSUME NEW i \in rtodo, RecoverInflight(i) PROVE TypeInv'
  BY <1>2 DEF RecoverInflight
<1>14. CASE RecoverChecked
  BY <1>14 DEF RecoverChecked, TakeDelivery
<1>3. CASE RecoveryLrem
  BY <1>3 DEF RecoveryLrem
<1>4. CASE RecoverySrem
  BY <1>4 DEF RecoverySrem
<1>5. ASSUME NEW r \in rfound, RequeueFound(r) PROVE TypeInv'
  BY <1>5 DEF RequeueFound
<1>6. CASE ListRunning
  BY <1>6 DEF ListRunning, Requeuable
<1>7. ASSUME NEW i \in rtodo, ScanLease(i) PROVE TypeInv'
  BY <1>7 DEF ScanLease
<1>8. CASE ScanMarks
  BY <1>8 DEF ScanMarks
<1>9. CASE RequeueRow
  BY <1>9 DEF RequeueRow
<1>10. CASE RequeueSadd
  BY <1>10 DEF RequeueSadd
<1>11. CASE RequeueRpush
  BY <1>11 DEF RequeueRpush
<1>12. CASE CrashRecovery
  BY <1>12 DEF CrashRecovery
<1>13. ASSUME NEW r \in Runs, LeaseExpire(r) PROVE TypeInv'
  BY <1>13 DEF LeaseExpire
<1> QED
  BY <1>1, <1>2, <1>3, <1>4, <1>5, <1>6, <1>7, <1>8, <1>9, <1>10, <1>11, <1>12,
      <1>13, <1>14 DEF RecoveryStep

LEMMA TypeNext == TypeInv /\ [Next]_vars => TypeInv'
<1> SUFFICES ASSUME TypeInv, [Next]_vars PROVE TypeInv'
  OBVIOUS
<1>1. CASE UNCHANGED vars
  BY <1>1 DEF vars, redisVars, dbVars, workerVars, clientVars, recVars,
              TypeInv, TypeOK, InHandOK, RedisTypeOK
<1>2. CASE Next
  BY <1>2, TypeClients, TypeWorkers, TypeRecovery DEF Next
<1> QED
  BY <1>1, <1>2

\* Every variable keeps its type, and a busy process has a run in hand, in
\* every interleaving of handlers, workers, recovery and failures.
THEOREM TypeCorrect == Spec => []TypeInv
<1>1. Init => TypeInv
  BY TypeInit
<1>2. TypeInv /\ [Next]_vars => TypeInv'
  BY TypeNext
<1> QED
  BY <1>1, <1>2, PTL DEF Spec

THEOREM TypeSafety == Spec => []TypeOK
<1>1. TypeInv => TypeOK
  BY DEF TypeInv
<1> QED
  BY <1>1, TypeCorrect, PTL

-----------------------------------------------------------------------------
(* The lease.  LeaseExclusion alone is not inductive: a worker that left its *)
(* lease must not stay in lapsed, or its next lease would not be protected.  *)

LeaseInv ==
    /\ LeaseExclusion
    /\ \A w \in lapsed : wpc[w] \in Holding

LEMMA LeaseInit == Init => LeaseInv /\ Lease!Init
BY DEF Init, RedisInit, LeaseInv, LeaseExclusion, Holding, InSession, Lease!Init, HeldRuns

leaseVars == <<wpc, job, lease, lapsed>>

\* Handlers and the recovery worker touch neither leases nor workers.
LEMMA LeaseFrame ==
    ASSUME TypeInv,
           \/ \E c \in Clients : HandlerStep(c) \/ RequestStep(c)
           \/ RecoveryStep \/ CrashRecovery
    PROVE  UNCHANGED leaseVars
<1> USE DEF leaseVars, redisVars, workerVars, Sadd, Srem, Rpush, SetCancel, LremProcessing,
            RecoverDelivery, RecoveryFrame
<1>1. ASSUME NEW c \in Clients, HandlerStep(c) \/ RequestStep(c)
      PROVE  UNCHANGED leaseVars
  BY <1>1 DEF HandlerStep, RequestStep, EnqueueSadd, EnqueueRpush, EnqueueUndo, CancelToken,
              DecideWrite, Submit, CancelRow, DecideRead, EnqueueError, AbandonRequest
<1>2. CASE RecoveryStep
  BY <1>2 DEF RecoveryStep, RecoveryBegin, RecoveryLrem, RecoverySrem, ListRunning, ScanMarks,
              RequeueRow, RequeueSadd, RequeueRpush, RecoverInflight, RecoverChecked, ScanLease, RequeueFound
<1>3. CASE CrashRecovery
  BY <1>3 DEF CrashRecovery
<1> QED
  BY <1>1, <1>2, <1>3

\* Worker steps that neither take nor leave a lease.
LEMMA LeaseKeptByWorker ==
    ASSUME TypeInv, LeaseInv, NEW w \in Workers,
           \/ Dequeue(w) \/ CheckDelivery(w) \/ AckLrem(w) \/ AckSrem(w) \/ CheckStart(w)
           \/ Load(w) \/ Begin(w) \/ Flush(w) \/ Checkpoint(w) \/ FinishSome(w) \/ CloudTool(w)
           \/ DesktopDispatch(w) \/ DesktopReturn(w) \/ Commit(w) \/ RenewalRefused(w)
           \/ StopWorker(w) \/ RestartWorker(w) \/ HandlerRaises(w)
    PROVE  /\ UNCHANGED <<lease, lapsed>>
           /\ \A v \in Workers : wpc'[v] \in Holding <=> wpc[v] \in Holding
           /\ \A v \in Workers : wpc[v] \in Holding => job'[v] = job[v]
<1> USE DEF TypeInv, TypeOK, redisVars, workerVars, Holding, InSession, Goto
<1>1. CASE \/ Dequeue(w) \/ CheckDelivery(w) \/ AckLrem(w) \/ AckSrem(w) \/ CheckStart(w)
  BY <1>1 DEF Dequeue, RpopLpush, CheckDelivery, AckLrem, LremProcessing, AckSrem, Srem, CheckStart
<1>2. CASE \/ Load(w) \/ Begin(w) \/ Flush(w) \/ Checkpoint(w) \/ FinishSome(w) \/ CloudTool(w)
  BY <1>2 DEF Load, Begin, Flush, Checkpoint, FinishSome, Finish, CloudTool
<1>3. CASE \/ DesktopDispatch(w) \/ DesktopReturn(w) \/ Commit(w) \/ RenewalRefused(w)
  BY <1>3 DEF DesktopDispatch, DesktopReturn, Commit, RenewalRefused
<1>4. CASE \/ StopWorker(w) \/ RestartWorker(w) \/ HandlerRaises(w)
  BY <1>4 DEF StopWorker, RestartWorker, HandlerRaises
<1> QED
  BY <1>1, <1>2, <1>3, <1>4

LEMMA HeldRunsSame ==
    ASSUME \A v \in Workers : wpc'[v] \in Holding <=> wpc[v] \in Holding,
           \A v \in Workers : wpc[v] \in Holding => job'[v] = job[v]
    PROVE  HeldRuns' = HeldRuns
BY DEF HeldRuns

\* Every step keeps LeaseInv and is a step of the abstract lease or leaves
\* its two variables alone.
LEMMA LeaseNext ==
    ASSUME TypeInv, LeaseInv, [Next]_vars
    PROVE  LeaseInv' /\ [Lease!Next]_<<HeldRuns, lapsed>>
<1> USE OwnersDistinct, RuntimeAssumption
<1>1. CASE UNCHANGED leaseVars
  BY <1>1 DEF leaseVars, LeaseInv, LeaseExclusion, HeldRuns
<1>2. ASSUME NEW w \in Workers,
             /\ UNCHANGED <<lease, lapsed>>
             /\ \A v \in Workers : wpc'[v] \in Holding <=> wpc[v] \in Holding
             /\ \A v \in Workers : wpc[v] \in Holding => job'[v] = job[v]
      PROVE  LeaseInv' /\ [Lease!Next]_<<HeldRuns, lapsed>>
  BY <1>2, HeldRunsSame DEF LeaseInv, LeaseExclusion, TypeInv, TypeOK
<1>3. ASSUME NEW w \in Workers, Acquire(w)
      PROVE  LeaseInv' /\ [Lease!Next]_<<HeldRuns, lapsed>>
  <2> DEFINE r == job[w]
  <2>0. r \in Runs /\ wpc[w] = "acquire" /\ w \notin lapsed
    BY <1>3 DEF Acquire, TypeInv, InHandOK, LeaseInv, Holding, InSession
  <2>1. CASE lease[r] # Nobody
    <3>1. /\ UNCHANGED <<lease, lapsed>>
          /\ \A v \in Workers : wpc'[v] \in Holding <=> wpc[v] \in Holding
          /\ \A v \in Workers : wpc[v] \in Holding => job'[v] = job[v]
      BY <1>3, <2>1 DEF Acquire, AcquireLease, Goto, redisVars, TypeInv, TypeOK, Holding, InSession
    <3> QED
      BY <1>2, <3>1
  <2>2. CASE lease[r] = Nobody
    <3>1. /\ lease' = [lease EXCEPT ![r] = w]
          /\ wpc' = [wpc EXCEPT ![w] = "ackLrem"]
          /\ UNCHANGED <<job, lapsed>>
      BY <1>3, <2>2 DEF Acquire, AcquireLease, SetLease, Goto
    <3>2. \A v \in Workers : wpc[v] \in Holding /\ job[v] = r => v \in lapsed
      BY <2>2 DEF LeaseInv, LeaseExclusion
    <3>3. LeaseInv'
      BY <2>0, <3>1, <3>2 DEF LeaseInv, LeaseExclusion, TypeInv, TypeOK, RedisTypeOK, Holding, InSession
    <3>4. HeldRuns[w] = NoRun /\ HeldRuns' = [HeldRuns EXCEPT ![w] = r]
      BY <2>0, <3>1 DEF HeldRuns, TypeInv, TypeOK, Holding, InSession
    <3>5. Lease!Grant(w, r)
      BY <2>0, <3>1, <3>2, <3>4 DEF Lease!Grant, Lease!Free, HeldRuns
    <3> QED
      BY <2>0, <3>3, <3>5 DEF Lease!Next
  <2> QED
    BY <2>1, <2>2
<1>4. ASSUME NEW w \in Workers, Release(w) \/ CrashWorker(w)
      PROVE  LeaseInv' /\ [Lease!Next]_<<HeldRuns, lapsed>>
  <2>1. /\ wpc' = [wpc EXCEPT ![w] = "idle"] /\ job' = [job EXCEPT ![w] = NoRun]
        /\ lapsed' = lapsed \ {w} /\ wpc[w] # "idle"
        /\ \A r \in Runs : lease[r] # w => lease'[r] = lease[r]
    BY <1>4 DEF Release, CrashWorker, ReleaseLease, SetLease, Goto, redisVars, TypeInv, TypeOK,
                RedisTypeOK
  <2>2. LeaseInv'
    BY <2>1 DEF LeaseInv, LeaseExclusion, TypeInv, TypeOK, InHandOK, RedisTypeOK, Holding, InSession
  <2>3. HeldRuns' = [HeldRuns EXCEPT ![w] = NoRun]
    BY <2>1 DEF HeldRuns, TypeInv, TypeOK, Holding, InSession
  <2>4. CASE wpc[w] \in Holding
    <3>1. HeldRuns[w] # NoRun
      BY <2>1, <2>4 DEF HeldRuns, TypeInv, InHandOK
    <3> QED
      BY <2>1, <2>2, <2>3, <3>1 DEF Lease!Next, Lease!GiveUp
  <2>5. CASE wpc[w] \notin Holding
    <3>1. lapsed' = lapsed /\ HeldRuns' = HeldRuns
      BY <2>1, <2>3, <2>5 DEF LeaseInv, HeldRuns
    <3> QED
      BY <2>2, <3>1
  <2> QED
    BY <2>4, <2>5
<1>5. ASSUME NEW w \in Workers, LeaseLapse(w)
      PROVE  LeaseInv' /\ [Lease!Next]_<<HeldRuns, lapsed>>
  <2>1. /\ UNCHANGED <<wpc, job>> /\ wpc[w] \in Holding
        /\ lapsed' = lapsed \cup {w} /\ lease[job[w]] = w
        /\ lease' = [lease EXCEPT ![job[w]] = Nobody]
    BY <1>5 DEF LeaseLapse, SetLease
  <2>2. job[w] \in Runs
    BY <2>1 DEF TypeInv, InHandOK, Holding, InSession
  <2>3. LeaseInv'
    BY <2>1, <2>2 DEF LeaseInv, LeaseExclusion, TypeInv, TypeOK, RedisTypeOK
  <2>4. Lease!Revoke(w)
    BY <2>1, <2>2 DEF Lease!Revoke, HeldRuns
  <2> QED
    BY <2>3, <2>4 DEF Lease!Next
<1>6. ASSUME NEW r \in Runs, LeaseExpire(r)
      PROVE  LeaseInv' /\ [Lease!Next]_<<HeldRuns, lapsed>>
  <2>1. /\ UNCHANGED <<wpc, job, lapsed>>
        /\ lease[r] = Former /\ lease' = [lease EXCEPT ![r] = Nobody]
    BY <1>6 DEF LeaseExpire, SetLease, workerVars
  <2> QED
    BY <2>1 DEF LeaseInv, LeaseExclusion, HeldRuns, TypeInv, TypeOK, RedisTypeOK
<1>7. CASE UNCHANGED vars
  BY <1>1, <1>7 DEF vars, redisVars, workerVars, leaseVars
<1>8. CASE Next
  BY <1>1, <1>2, <1>3, <1>4, <1>5, <1>6, <1>8, LeaseFrame, LeaseKeptByWorker
     DEF Next, DeliveryStep, ExecutionStep, WorkerFault
<1> QED
  BY <1>7, <1>8

\* At most one worker executes a run under a live lease.
THEOREM LeaseSafety == Spec => []LeaseExclusion
<1>1. Init => LeaseInv
  BY LeaseInit
<1>2. TypeInv /\ LeaseInv /\ [Next]_vars => LeaseInv'
  BY LeaseNext
<1>3. LeaseInv => LeaseExclusion
  BY DEF LeaseInv
<1> QED
  BY <1>1, <1>2, <1>3, TypeCorrect, PTL DEF Spec

\* The runtime implements the abstract lease.
THEOREM LeaseRefinement == Spec => ImplementsLease
<1>1. Init => LeaseInv /\ Lease!Init
  BY LeaseInit
<1>2. TypeInv /\ LeaseInv /\ [Next]_vars => LeaseInv' /\ [Lease!Next]_<<HeldRuns, lapsed>>
  BY LeaseNext
<1> QED
  BY <1>1, <1>2, TypeCorrect, PTL DEF Spec, ImplementsLease, Lease!Spec

-----------------------------------------------------------------------------
(* Settled rows.  Both properties are preserved step by step under TypeInv.  *)

\* The row update of a recovery pass is the only one of its steps that writes
\* a status, and it does so only on a row it found queued or running.
LEMMA RecoveryWrites ==
    ASSUME TypeInv, RecoveryStep, NEW r \in Runs, status[r] \notin Active
    PROVE  status'[r] = status[r]
<1> USE DEF TypeInv, TypeOK, Active
<1>1. CASE RequeueRow
  BY <1>1 DEF RequeueRow, Requeuable
<1>2. CASE ~RequeueRow
  BY <1>2 DEF RecoveryStep, RecoveryBegin, RecoveryLrem, RecoverySrem, ListRunning, ScanMarks,
              RequeueSadd, RequeueRpush, RecoverInflight, RecoverChecked, ScanLease, RequeueFound
<1> QED
  BY <1>1, <1>2

\* A recovery pass never changes a terminal or waiting row, however stale the
\* list it works from.
THEOREM RecoverySettled == Spec => RecoveryKeepsSettledRows
<1>1. TypeInv /\ [Next]_vars =>
        [RecoveryStep => \A r \in Runs : status[r] \notin Active => status'[r] = status[r]]_vars
  BY RecoveryWrites
<1> QED
  BY <1>1, TypeCorrect, PTL DEF Spec, RecoveryKeepsSettledRows

\* Handlers: only a decision read earlier could write over the cancel.
LEMMA CancelKeptByClients ==
    ASSUME TypeInv, NEW c \in Clients, HandlerStep(c) \/ RequestStep(c),
           NEW r \in Runs, CancelSettled(r)
    PROVE  CancelSettled(r)'
<1> USE RuntimeAssumption
    DEF TypeInv, TypeOK, RedisTypeOK, InHandOK, CancelSettled, NoWriterInFlight, Terminal, ClientPc,
        redisVars, workerVars, ClientGoto, ClientStart, Sadd, Srem, Rpush, SetCancel
<1>1. CASE EnqueueSadd(c) \/ EnqueueRpush(c) \/ EnqueueUndo(c) \/ CancelToken(c)
  BY <1>1 DEF EnqueueSadd, EnqueueRpush, EnqueueUndo, CancelToken, dbVars
<1>2. CASE EnqueueError(c) \/ AbandonRequest(c)
  BY <1>2 DEF EnqueueError, AbandonRequest, dbVars
<1>3. CASE DecideWrite(c)
  <2>1. creq[c] \in Runs \ {r} /\ UNCHANGED <<cancelKey, wpc, job>>
    BY <1>3 DEF DecideWrite
  <2>2. status'[r] = status[r]
    BY <1>3, <2>1 DEF DecideWrite
  <2>3. \A d \in Clients : cpc'[d] = "decide" => cpc[d] = "decide" /\ creq'[d] = creq[d]
    BY <1>3 DEF DecideWrite
  <2> QED
    BY <2>1, <2>2, <2>3 DEF CancelSettled, NoWriterInFlight
<1>4. ASSUME NEW q \in Runs, Submit(c, q) \/ CancelRow(c, q) \/ DecideRead(c, q)
      PROVE  CancelSettled(r)'
  BY <1>4 DEF Submit, CancelRow, DecideRead, dbVars
<1> QED
  BY <1>1, <1>2, <1>3, <1>4 DEF HandlerStep, RequestStep

\* Workers: a new delivery stops at CheckStart, which reads the cancel key.
LEMMA CancelKeptByWorkers ==
    ASSUME TypeInv, NEW w \in Workers, DeliveryStep(w) \/ ExecutionStep(w) \/ WorkerFault(w),
           NEW r \in Runs, CancelSettled(r)
    PROVE  CancelSettled(r)'
<1> USE RuntimeAssumption
    DEF TypeInv, TypeOK, RedisTypeOK, InHandOK, CancelSettled, NoWriterInFlight, InSession,
        redisVars, dbVars, clientVars, Goto
<1>1. CASE DeliveryStep(w)
  BY <1>1 DEF DeliveryStep, Dequeue, RpopLpush, CheckDelivery, Acquire, AcquireLease, SetLease,
              AckLrem, LremProcessing, AckSrem, Srem, Cancelled
<1>2. CASE CheckStart(w)
  BY <1>2 DEF CheckStart, Cancelled
<1>3. CASE Load(w) \/ Begin(w) \/ Flush(w) \/ Checkpoint(w)
  BY <1>3 DEF Load, Begin, Flush, Checkpoint, Assign, workerVars
<1>4. CASE FinishSome(w) \/ CloudTool(w) \/ DesktopReturn(w) \/ RenewalRefused(w)
  BY <1>4 DEF FinishSome, Finish, Assign, CloudTool, DesktopReturn, RenewalRefused
<1>5. CASE DesktopDispatch(w) \/ Commit(w)
  BY <1>5 DEF DesktopDispatch, Commit, CommitSession
<1>6. CASE Release(w)
  BY <1>6 DEF Release, ReleaseLease, SetLease
<1>7. CASE WorkerFault(w)
  BY <1>7 DEF WorkerFault, StopWorker, RestartWorker, LeaseLapse, SetLease, HandlerRaises,
              CrashWorker, Rollback
<1> QED
  BY <1>1, <1>2, <1>3, <1>4, <1>5, <1>6, <1>7 DEF ExecutionStep

\* Recovery leaves handlers and workers alone, and cancelled rows.
LEMMA CancelKeptByRecovery ==
    ASSUME TypeInv, RecoveryStep \/ CrashRecovery \/ \E q \in Runs : LeaseExpire(q),
           NEW r \in Runs, CancelSettled(r)
    PROVE  CancelSettled(r)'
<1> USE DEF CancelSettled, NoWriterInFlight, redisVars, workerVars, clientVars
<1>1. CASE RecoveryStep
  <2>1. status'[r] = status[r]
    BY <1>1, RecoveryWrites DEF Active
  <2>2. UNCHANGED <<cancelKey, wpc, job, cpc, creq>>
    BY <1>1 DEF RecoveryStep, RecoveryBegin, RecoveryLrem, RecoverySrem, ListRunning, ScanMarks,
                RequeueRow, RequeueSadd, RequeueRpush, RecoverInflight, RecoverChecked, ScanLease, RequeueFound,
                RecoveryFrame, LremProcessing, Srem, Sadd, Rpush, RecoverDelivery
  <2> QED
    BY <2>1, <2>2
<1>2. CASE CrashRecovery
  BY <1>2 DEF CrashRecovery, RecoveryFrame
<1>3. ASSUME NEW q \in Runs, LeaseExpire(q) PROVE CancelSettled(r)'
  BY <1>3 DEF LeaseExpire, SetLease, dbVars
<1> QED
  BY <1>1, <1>2, <1>3

\* A complete cancel is never undone by a later delivery, retry or pass.
THEOREM CancelSafety == Spec => CancelSticks
<1>1. TypeInv /\ [Next]_vars => [\A r \in Runs : CancelSettled(r) => CancelSettled(r)']_vars
  BY CancelKeptByClients, CancelKeptByWorkers, CancelKeptByRecovery DEF Next
<1> QED
  BY <1>1, TypeCorrect, PTL DEF Spec, CancelSticks

-----------------------------------------------------------------------------
(* Runs that ended.                                                          *)

\* The session of w read a final row and is about to refuse the run, or it is
\* about to commit failed, for that reason or another.
ReadEnded(w) ==
    \/ wpc[w] = "begin" /\ copy[w] \in Terminal /\ ~dirty[w]
    \/ wpc[w] = "commit" /\ copy[w] = "failed"

\* r has ended, and no session and no decider read its row before that.
Ended(r) ==
    /\ status[r] \in Terminal
    /\ \A w \in Workers : job[w] = r /\ wpc[w] \in InSession => ReadEnded(w)
    /\ \A c \in Clients : creq[c] = r => cpc[c] # "decide"

\* It stays so, and its status changes to failed at most.
EndKept(r) == Ended(r)' /\ status'[r] \in {status[r], "failed"}

\* Handlers: a new decision needs a waiting run, and a cancel spares a final row.
LEMMA EndKeptByClients ==
    ASSUME TypeInv, NEW c \in Clients, HandlerStep(c) \/ RequestStep(c),
           NEW r \in Runs, Ended(r)
    PROVE  EndKept(r)
<1> USE RuntimeAssumption
    DEF TypeInv, TypeOK, InHandOK, Ended, EndKept, ReadEnded, Terminal, ClientPc, ClientGoto, ClientStart
<1>1. CASE EnqueueSadd(c) \/ EnqueueRpush(c) \/ EnqueueUndo(c) \/ CancelToken(c)
  BY <1>1 DEF EnqueueSadd, EnqueueRpush, EnqueueUndo, CancelToken, dbVars, workerVars
<1>2. CASE EnqueueError(c) \/ AbandonRequest(c)
  BY <1>2 DEF EnqueueError, AbandonRequest, dbVars, workerVars
<1>3. CASE DecideWrite(c)
  <2>1. creq[c] \in Runs \ {r} /\ UNCHANGED <<wpc, job, copy, dirty>>
    BY <1>3 DEF DecideWrite, workerVars
  <2>2. status'[r] = status[r]
    BY <1>3, <2>1 DEF DecideWrite
  <2>3. \A d \in Clients : cpc'[d] = "decide" => cpc[d] = "decide" /\ creq'[d] = creq[d]
    BY <1>3 DEF DecideWrite
  <2> QED
    BY <2>1, <2>2, <2>3
<1>4. ASSUME NEW q \in Runs, Submit(c, q) \/ CancelRow(c, q) \/ DecideRead(c, q)
      PROVE  EndKept(r)
  BY <1>4 DEF Submit, CancelRow, DecideRead, dbVars, workerVars
<1> QED
  BY <1>1, <1>2, <1>3, <1>4 DEF HandlerStep, RequestStep

\* Workers: a session that reads the row now reads a final status, and Begin
\* sends it to the commit of failed.
LEMMA EndKeptByWorkers ==
    ASSUME TypeInv, NEW w \in Workers, DeliveryStep(w) \/ ExecutionStep(w) \/ WorkerFault(w),
           NEW r \in Runs, Ended(r)
    PROVE  EndKept(r)
<1> USE RuntimeAssumption
    DEF TypeInv, TypeOK, InHandOK, Ended, EndKept, ReadEnded, InSession, Terminal, dbVars, clientVars, Goto
<1>1. CASE DeliveryStep(w)
  BY <1>1 DEF DeliveryStep, Dequeue, RpopLpush, CheckDelivery, Acquire, AckLrem, AckSrem
<1>2. CASE CheckStart(w) \/ Load(w)
  BY <1>2 DEF CheckStart, Load
<1>3. CASE Begin(w)
  BY <1>3 DEF Begin, Assign
<1>4. CASE Flush(w) \/ Checkpoint(w)
  BY <1>4 DEF Flush, Checkpoint, Assign, workerVars
<1>5. CASE FinishSome(w) \/ CloudTool(w) \/ DesktopReturn(w) \/ RenewalRefused(w)
  BY <1>5 DEF FinishSome, Finish, Assign, CloudTool, DesktopReturn, RenewalRefused
<1>6. CASE DesktopDispatch(w) \/ Commit(w)
  BY <1>6 DEF DesktopDispatch, Commit, CommitSession
<1>7. CASE Release(w)
  BY <1>7 DEF Release
<1>8. CASE WorkerFault(w)
  BY <1>8 DEF WorkerFault, StopWorker, RestartWorker, LeaseLapse, HandlerRaises, CrashWorker, Rollback
<1> QED
  BY <1>1, <1>2, <1>3, <1>4, <1>5, <1>6, <1>7, <1>8 DEF ExecutionStep

\* Recovery writes queued and running rows only.
LEMMA EndKeptByRecovery ==
    ASSUME TypeInv, RecoveryStep \/ CrashRecovery \/ \E q \in Runs : LeaseExpire(q),
           NEW r \in Runs, Ended(r)
    PROVE  EndKept(r)
<1> USE DEF Ended, EndKept, ReadEnded, workerVars, clientVars
<1>1. CASE RecoveryStep
  <2>1. status'[r] = status[r]
    BY <1>1, RecoveryWrites DEF Active, Terminal
  <2>2. UNCHANGED <<wpc, job, copy, dirty, cpc, creq>>
    BY <1>1 DEF RecoveryStep, RecoveryBegin, RecoveryLrem, RecoverySrem, ListRunning, ScanMarks,
                RequeueRow, RequeueSadd, RequeueRpush, RecoverInflight, RecoverChecked, ScanLease, RequeueFound,
                RecoveryFrame
  <2> QED
    BY <2>1, <2>2
<1>2. CASE CrashRecovery
  BY <1>2 DEF CrashRecovery, RecoveryFrame
<1>3. ASSUME NEW q \in Runs, LeaseExpire(q) PROVE EndKept(r)
  BY <1>3 DEF LeaseExpire, dbVars
<1> QED
  BY <1>1, <1>2, <1>3

\* A run that ended is never executed, queued or approved again, whatever is
\* delivered, recovered, cancelled or decided afterwards: once no session and no
\* decider that read its row earlier is left, the status stays final.  It may
\* still become failed, by a worker it was delivered to (coordinator.py:248), which
\* is the step the run of TerminalIsFinal finds.
THEOREM EndSafety == Spec => [][\A r \in Runs : Ended(r) => EndKept(r)]_vars
<1>1. ASSUME TypeInv, [Next]_vars, NEW r \in Runs, Ended(r), vars' # vars
      PROVE  EndKept(r)
  BY <1>1, EndKeptByClients, EndKeptByWorkers, EndKeptByRecovery DEF Next
<1>2. TypeInv /\ [Next]_vars => [\A r \in Runs : Ended(r) => EndKept(r)]_vars
  BY <1>1
<1> QED
  BY <1>2, TypeCorrect, PTL DEF Spec

-----------------------------------------------------------------------------
(* The pending marker, until a process dies or a handler is cut short.       *)

BudgetInv == \A k \in BudgetKinds : budget[k] <= Budget[k]

InQueue(r) == \E i \in 1..Len(queue) : queue[i] = r

\* The parts of MarkerCovered that concern one run.
DeliveryOf(r) == InQueue(r) \/ processing[r] > 0
ClientFor(r) == \E c \in Clients : creq[c] = r /\ cpc[c] \in {"rpush", "undo"}
WorkerFor(r) == \E w \in Workers : job[w] = r /\ wpc[w] \in {"ackSrem", "dropSrem"}
RecoveryFor(r) == rjob = r /\ rstep \in {"srem", "rpush"}
Covered(r) == DeliveryOf(r) \/ ClientFor(r) \/ WorkerFor(r) \/ RecoveryFor(r)
AllCovered == \A r \in pending : Covered(r)

LEMMA MarkerParts == \A r : Marked(r) <=> Covered(r)
BY DEF Marked, Covered, DeliveryOf, InQueue, ClientFor, WorkerFor, RecoveryFor

\* Appending adds a delivery and keeps the others.
LEMMA AppendDelivers ==
    ASSUME TypeInv, NEW r \in Runs, queue' = Append(queue, r)
    PROVE  InQueue(r)' /\ \A q \in Runs : InQueue(q) => InQueue(q)'
<1>1. /\ Len(queue) \in Nat /\ Len(queue') = Len(queue) + 1
      /\ queue'[Len(queue) + 1] = r
      /\ \A i \in 1..Len(queue) : queue'[i] = queue[i]
  BY DEF TypeInv, TypeOK, RedisTypeOK
<1>2. InQueue(r)'
  BY <1>1 DEF InQueue
<1>3. ASSUME NEW q \in Runs, NEW i \in 1..Len(queue), queue[i] = q
      PROVE  InQueue(q)'
  BY <1>1, <1>3 DEF InQueue
<1> QED
  BY <1>2, <1>3 DEF InQueue

LEMMA SequenceFront ==
    ASSUME NEW S, NEW s \in Seq(S), s # <<>>
    PROVE  /\ Len(s) \in Nat \ {0}
           /\ Len(SubSeq(s, 1, Len(s) - 1)) = Len(s) - 1
           /\ \A i \in 1..(Len(s) - 1) : SubSeq(s, 1, Len(s) - 1)[i] = s[i]
<1>1. Len(s) \in Nat \ {0}
  BY EmptySeq
<1> DEFINE n == Len(s) - 1
           t == SubSeq(s, 1, n)
<1>2. \A i \in 1..n : s[i] \in S
  BY <1>1
<1>3. n \in Nat
  BY <1>1
<1>4. /\ Len(t) = IF 1 <= n THEN n - 1 + 1 ELSE 0
      /\ \A i \in 1..(n - 1 + 1) : t[i] = s[1 + i - 1]
  <2> HIDE DEF n
  <2> QED
    BY <1>2, <1>3, SubSeqProperties
<1>5. Len(t) = n /\ \A i \in 1..n : t[i] = s[i]
  <2> HIDE DEF n, t
  <2> QED
    BY <1>3, <1>4
<1> QED
  BY <1>1, <1>5, Zenon

\* Popping moves the last delivery to the processing list.
LEMMA PopDelivers ==
    ASSUME TypeInv, RpopLpush, NEW q \in Runs, DeliveryOf(q)
    PROVE  DeliveryOf(q)'
<1>1. /\ Len(queue) \in Nat \ {0} /\ Len(queue') = Len(queue) - 1
      /\ \A i \in 1..(Len(queue) - 1) : queue'[i] = queue[i]
  <2>1. /\ queue \in Seq(Runs) /\ queue # <<>>
        /\ queue' = SubSeq(queue, 1, Len(queue) - 1)
    BY DEF RpopLpush, TypeInv, TypeOK, RedisTypeOK
  <2> QED
    BY <2>1, SequenceFront
<1>2. NextDelivery \in Runs /\ processing' = [processing EXCEPT ![NextDelivery] = @ + 1]
  BY QueueEnd DEF RpopLpush, TypeInv, TypeOK, RedisTypeOK
<1>3. CASE q = NextDelivery
  BY <1>2, <1>3 DEF DeliveryOf, TypeInv, TypeOK, RedisTypeOK
<1>4. CASE q # NextDelivery
  <2>1. processing'[q] = processing[q]
    BY <1>2, <1>4
  <2>2. ASSUME NEW i \in 1..Len(queue), queue[i] = q PROVE InQueue(q)'
    <3>1. i \in 1..(Len(queue) - 1)
      BY <1>1, <1>4, <2>2 DEF NextDelivery
    <3> QED
      BY <1>1, <2>2, <3>1 DEF InQueue
  <2> QED
    BY <2>1, <2>2 DEF DeliveryOf, InQueue
<1> QED
  BY <1>3, <1>4

LEMMA MarkerByClients ==
    ASSUME TypeInv, BudgetInv, AllCovered, Undisturbed', NEW c \in Clients, HandlerStep(c) \/ RequestStep(c)
    PROVE  AllCovered'
<1> SUFFICES ASSUME NEW r \in Runs, r \in pending' PROVE Covered(r)'
  BY RedisType, TypeClients DEF AllCovered, Covered, DeliveryOf, InQueue, ClientFor,
     WorkerFor, RecoveryFor, TypeInv, TypeOK, RedisTypeOK
<1> USE DEF TypeInv, TypeOK, RedisTypeOK, InHandOK, ClientPc, ClientGoto, ClientStart, redisVars,
        workerVars, recVars
<1>1. r \in pending => Covered(r)
  BY DEF AllCovered
<1>2. UNCHANGED <<wpc, job, rjob, rstep, processing>>
  BY DEF HandlerStep, RequestStep, EnqueueSadd, EnqueueRpush, EnqueueUndo, CancelToken, DecideWrite,
         Submit, CancelRow, DecideRead, EnqueueError, AbandonRequest, Sadd, Srem, Rpush, SetCancel
<1>3. CASE EnqueueSadd(c)
  BY <1>1, <1>2, <1>3 DEF EnqueueSadd, Sadd, Covered, DeliveryOf, InQueue, ClientFor, WorkerFor, RecoveryFor
<1>4. CASE EnqueueRpush(c)
  <2>1. \A q \in Runs : (InQueue(q) \/ q = creq[c]) => InQueue(q)'
    BY <1>4, AppendDelivers DEF EnqueueRpush, Rpush
  <2> QED
    BY <1>1, <1>2, <1>4, <2>1 DEF EnqueueRpush, Rpush, Covered, DeliveryOf, ClientFor, WorkerFor, RecoveryFor
<1>5. CASE EnqueueUndo(c)
  BY <1>1, <1>2, <1>5 DEF EnqueueUndo, Srem, Covered, DeliveryOf, InQueue, ClientFor, WorkerFor, RecoveryFor
<1>6. CASE CancelToken(c) \/ DecideWrite(c) \/ \E q \in Runs : Submit(c, q) \/ CancelRow(c, q) \/ DecideRead(c, q)
  <2>1. UNCHANGED <<queue, pending>> /\ cpc[c] \notin {"rpush", "undo"}
    BY <1>6 DEF CancelToken, SetCancel, DecideWrite, Submit, CancelRow, DecideRead
  <2>2. \A d \in Clients : d # c => cpc'[d] = cpc[d] /\ creq'[d] = creq[d]
    BY <1>6 DEF CancelToken, DecideWrite, Submit, CancelRow, DecideRead
  <2> QED
    BY <1>1, <1>2, <2>1, <2>2 DEF Covered, DeliveryOf, InQueue, ClientFor, WorkerFor, RecoveryFor
<1>7. ~(EnqueueError(c) \/ AbandonRequest(c))
  BY DEF EnqueueError, AbandonRequest, Spend, Undisturbed, BudgetInv, BudgetKinds
<1> QED
  BY <1>3, <1>4, <1>5, <1>6, <1>7 DEF HandlerStep, RequestStep

LEMMA MarkerByWorkers ==
    ASSUME TypeInv, BudgetInv, AllCovered, Undisturbed',
           NEW w \in Workers, DeliveryStep(w) \/ ExecutionStep(w) \/ WorkerFault(w)
    PROVE  AllCovered'
<1> SUFFICES ASSUME NEW r \in Runs, r \in pending' PROVE Covered(r)'
  BY TypeWorkers DEF AllCovered, Covered, DeliveryOf, InQueue, ClientFor,
     WorkerFor, RecoveryFor, TypeInv, TypeOK, RedisTypeOK
<1> USE DEF TypeInv, TypeOK, RedisTypeOK, InHandOK, redisVars, clientVars, recVars, Goto
<1>1. r \in pending => Covered(r)
  BY DEF AllCovered
<1>2. UNCHANGED <<cpc, creq, rjob, rstep>>
  BY DEF DeliveryStep, Dequeue, CheckDelivery, Acquire, AckLrem, AckSrem, ExecutionStep, CheckStart,
         Load, Begin, Flush, Checkpoint, FinishSome, Finish, CloudTool, DesktopDispatch,
         DesktopReturn, Commit, Release, RenewalRefused, WorkerFault, StopWorker, RestartWorker,
         LeaseLapse, HandlerRaises, CrashWorker
<1>3. CASE Dequeue(w)
  <2>1. pending' = pending /\ wpc[w] = "idle" /\ RpopLpush
    BY <1>3 DEF Dequeue, RpopLpush
  <2>2. \A v \in Workers : v # w => wpc'[v] = wpc[v] /\ job'[v] = job[v]
    BY <1>3 DEF Dequeue
  <2> QED
    BY <1>1, <1>2, <2>1, <2>2, PopDelivers DEF Covered, ClientFor, WorkerFor, RecoveryFor
<1>4. CASE AckLrem(w)
  BY <1>1, <1>2, <1>4 DEF AckLrem, LremProcessing, Covered, DeliveryOf, InQueue, ClientFor, WorkerFor, RecoveryFor
<1>5. CASE AckSrem(w)
  <2>1. /\ r # job[w] /\ r \in pending
        /\ UNCHANGED <<queue, processing>>
        /\ \A v \in Workers : v # w => wpc'[v] = wpc[v] /\ job'[v] = job[v]
    BY <1>5 DEF AckSrem, Srem
  <2> QED
    BY <1>1, <1>2, <2>1 DEF Covered, DeliveryOf, InQueue, ClientFor, WorkerFor, RecoveryFor
<1>6. CASE \/ CheckDelivery(w) \/ Acquire(w) \/ ExecutionStep(w)
           \/ StopWorker(w) \/ RestartWorker(w) \/ LeaseLapse(w) \/ HandlerRaises(w)
  <2>1. /\ UNCHANGED <<queue, processing, pending>>
        /\ wpc[w] \in {"ackSrem", "dropSrem"} => UNCHANGED <<wpc, job>>
        /\ \A v \in Workers : v # w => wpc'[v] = wpc[v] /\ job'[v] = job[v]
    BY <1>6 DEF CheckDelivery, Acquire, AcquireLease, SetLease, ExecutionStep, CheckStart,
         Load, Begin, Flush, Checkpoint, FinishSome, Finish, CloudTool, DesktopDispatch, workerVars,
         DesktopReturn, Commit, Release, ReleaseLease, RenewalRefused, StopWorker, RestartWorker,
         LeaseLapse, HandlerRaises, InSession, Holding
  <2> QED
    BY <1>1, <1>2, <2>1 DEF Covered, DeliveryOf, InQueue, ClientFor, WorkerFor, RecoveryFor
<1>7. ~CrashWorker(w)
  BY DEF CrashWorker, Spend, Undisturbed, BudgetInv, BudgetKinds
<1> QED
  BY <1>3, <1>4, <1>5, <1>6, <1>7 DEF DeliveryStep, WorkerFault

LEMMA MarkerByRecovery ==
    ASSUME TypeInv, BudgetInv, AllCovered, Undisturbed',
           RecoveryStep \/ CrashRecovery \/ \E q \in Runs : LeaseExpire(q)
    PROVE  AllCovered'
<1> SUFFICES ASSUME NEW r \in Runs, r \in pending' PROVE Covered(r)'
  BY TypeRecovery DEF AllCovered, Covered, DeliveryOf, InQueue, ClientFor,
     WorkerFor, RecoveryFor, TypeInv, TypeOK, RedisTypeOK
<1> USE DEF TypeInv, TypeOK, RedisTypeOK, InHandOK, redisVars, workerVars, clientVars, RecoveryFrame, NextItem
<1>1. r \in pending => Covered(r)
  BY DEF AllCovered
<1>2. UNCHANGED <<cpc, creq, wpc, job>>
  BY DEF RecoveryStep, RecoveryBegin, RecoveryLrem, RecoverySrem, ListRunning, ScanMarks, RequeueRow,
         RequeueSadd, RequeueRpush, RecoverInflight, RecoverChecked, ScanLease, RequeueFound, CrashRecovery, LeaseExpire
<1>3. CASE RecoveryLrem
  BY <1>1, <1>2, <1>3 DEF RecoveryLrem, LremProcessing, Covered, DeliveryOf, InQueue, ClientFor, WorkerFor, RecoveryFor
<1>4. CASE RecoverySrem
  BY <1>1, <1>2, <1>4 DEF RecoverySrem, Srem, Covered, DeliveryOf, InQueue, ClientFor, WorkerFor, RecoveryFor
<1>5. CASE RequeueSadd
  BY <1>1, <1>2, <1>5 DEF RequeueSadd, Sadd, Covered, DeliveryOf, InQueue, ClientFor, WorkerFor, RecoveryFor
<1>6. CASE RequeueRpush
  <2>1. \A q \in Runs : (InQueue(q) \/ q = rjob) => InQueue(q)'
    BY <1>6, AppendDelivers DEF RequeueRpush, Rpush
  <2> QED
    BY <1>1, <1>2, <1>6, <2>1 DEF RequeueRpush, Rpush, Covered, DeliveryOf, ClientFor, WorkerFor, RecoveryFor
<1>7. CASE RecoverChecked
  <2>1. r \in pending /\ rstep = "inflight" /\ rjob \in Runs
    BY <1>7 DEF RecoverChecked, RecoverDelivery
  <2>2. CASE UNCHANGED <<queue, processing>>
    BY <1>1, <1>2, <2>1, <2>2 DEF Covered, DeliveryOf, InQueue, ClientFor, WorkerFor, RecoveryFor
  <2>3. CASE RecoverDelivery(rjob)
    <3>1. \A q \in Runs : (InQueue(q) \/ q = rjob) => InQueue(q)'
      BY <2>1, <2>3, AppendDelivers DEF RecoverDelivery
    <3>2. \A q \in Runs : q # rjob => processing'[q] = processing[q]
      BY <2>3 DEF RecoverDelivery
    <3> QED
      BY <1>1, <1>2, <2>1, <3>1, <3>2 DEF Covered, DeliveryOf, ClientFor, WorkerFor, RecoveryFor
  <2> QED
    BY <1>7, <2>2, <2>3 DEF RecoverChecked
<1>8. CASE \/ RecoveryBegin \/ ListRunning \/ ScanMarks \/ RequeueRow
           \/ (\E i \in rtodo : RecoverInflight(i) \/ ScanLease(i)) \/ (\E q \in rfound : RequeueFound(q))
           \/ (\E q \in Runs : LeaseExpire(q))
  <2>1. /\ UNCHANGED <<queue, processing, pending>>
        /\ rstep \in {"srem", "rpush"} => UNCHANGED <<rstep, rjob>>
    BY <1>8 DEF RecoveryBegin, RecoverInflight, ListRunning, ScanMarks, RequeueRow, ScanLease, RequeueFound,
                LeaseExpire, SetLease, recVars
  <2> QED
    BY <1>1, <1>2, <2>1 DEF Covered, DeliveryOf, InQueue, ClientFor, WorkerFor, RecoveryFor
<1>9. ~CrashRecovery
  BY DEF CrashRecovery, Spend, Undisturbed, BudgetInv, BudgetKinds
<1> QED
  BY <1>3, <1>4, <1>5, <1>6, <1>7, <1>8, <1>9 DEF RecoveryStep

\* No budget is ever given back.
LEMMA BudgetSpent ==
    ASSUME [Next]_vars
    PROVE  budget' = budget \/ \E k \in BudgetKinds : Spend(k)
<1>1. CASE UNCHANGED vars
  BY <1>1 DEF vars
<1>2. ASSUME NEW c \in Clients, HandlerStep(c) \/ RequestStep(c)
      PROVE  budget' = budget \/ \E k \in BudgetKinds : Spend(k)
  BY <1>2 DEF BudgetKinds, HandlerStep, RequestStep, EnqueueSadd, EnqueueRpush, EnqueueUndo,
     CancelToken, DecideWrite, Submit, CancelRow, DecideRead, EnqueueError, AbandonRequest, ClientStart
<1>3. ASSUME NEW w \in Workers, DeliveryStep(w) \/ ExecutionStep(w) \/ WorkerFault(w)
      PROVE  budget' = budget \/ \E k \in BudgetKinds : Spend(k)
  BY <1>3 DEF BudgetKinds, DeliveryStep, Dequeue, CheckDelivery, Acquire, AckLrem, AckSrem,
     ExecutionStep, CheckStart, Load, Begin, Flush, Checkpoint, FinishSome, Finish, CloudTool,
     DesktopDispatch, DesktopReturn, Commit, Release, RenewalRefused, WorkerFault, StopWorker,
     RestartWorker, LeaseLapse, HandlerRaises, CrashWorker
<1>4. CASE RecoveryStep \/ CrashRecovery \/ \E q \in Runs : LeaseExpire(q)
  BY <1>4 DEF BudgetKinds, RecoveryStep, RecoveryBegin, RecoveryLrem, RecoverySrem, ListRunning,
     ScanMarks, RequeueRow, RequeueSadd, RequeueRpush, RecoverInflight, RecoverChecked, TakeDelivery, ScanLease,
     RequeueFound, CrashRecovery, LeaseExpire
<1> QED
  BY <1>1, <1>2, <1>3, <1>4 DEF Next

LEMMA BudgetNext ==
    TypeInv /\ BudgetInv /\ [Next]_vars => BudgetInv' /\ (Undisturbed' => Undisturbed)
BY BudgetSpent, RuntimeAssumption
   DEF TypeInv, TypeOK, Undisturbed, BudgetInv, Spend, BudgetKinds

LEMMA MarkerNext ==
    ASSUME TypeInv, BudgetInv, MarkerCovered, [Next]_vars
    PROVE  MarkerCovered'
<1> SUFFICES ASSUME Undisturbed' PROVE AllCovered'
  BY MarkerParts DEF MarkerCovered, Marked, AllCovered, Covered, DeliveryOf, InQueue, ClientFor,
     WorkerFor, RecoveryFor
<1>1. AllCovered
  BY BudgetNext, MarkerParts DEF MarkerCovered, AllCovered
<1>2. CASE UNCHANGED vars
  BY <1>1, <1>2 DEF vars, redisVars, workerVars, clientVars, recVars, AllCovered, Covered,
     DeliveryOf, InQueue, ClientFor, WorkerFor, RecoveryFor
<1>3. CASE Next
  BY <1>1, <1>3, MarkerByClients, MarkerByWorkers, MarkerByRecovery DEF Next
<1> QED
  BY <1>2, <1>3

\* Until a process dies or a handler is cut short, a pending marker always has
\* a delivery or a process about to add one or take the marker away.
THEOREM MarkerSafety == Spec => []MarkerCovered
<1>1. Init => BudgetInv /\ MarkerCovered
  BY RuntimeAssumption DEF Init, RedisInit, BudgetInv, BudgetKinds, MarkerCovered
<1>2. TypeInv /\ BudgetInv /\ MarkerCovered /\ [Next]_vars => BudgetInv' /\ MarkerCovered'
  BY BudgetNext, MarkerNext
<1> QED
  BY <1>1, <1>2, TypeCorrect, PTL DEF Spec

-----------------------------------------------------------------------------
(* The deliveries of a run. *)

\* What can still become, or is, a delivery of r: entries of the queue, pushes
\* under way, and workers that have not taken the marker away yet.
Entries(r) == {i \in 1..Len(queue) : queue[i] = r}
Pushers(r) == {c \in Clients : creq[c] = r /\ cpc[c] \in {"rpush", "undo"}}
RecoveryPush(r) == IF rjob = r /\ rstep = "rpush" THEN 1 ELSE 0
Takers(r) == {w \in Workers : job[w] = r /\ wpc[w] \in Unacked \cup {"ackSrem", "dropSrem"}}
Claims(r) ==
    Cardinality(Entries(r)) + Cardinality(Pushers(r)) + RecoveryPush(r) + Cardinality(Takers(r))

\* The workers that account for the entries of agent:processing.
Unacking(r) == {w \in Workers : job[w] = r /\ wpc[w] \in Unacked}

\* A marker stands for one claim; each overtake adds one without a marker.
ClaimsBounded(r) == Claims(r) <= Overtaken + (IF r \in pending THEN 1 ELSE 0)
ProcessingHeld(r) == processing[r] <= Cardinality(Unacking(r))
NotDropped(r) == rjob = r => rstep \notin {"lrem", "srem"}
DeliveryInv(r) == ClaimsBounded(r) /\ ProcessingHeld(r) /\ NotDropped(r)
AllBounded == \A r \in Runs \ cancelKey : DeliveryInv(r)

-----------------------------------------------------------------------------
(* Counting.                                                                 *)

One(b) == IF b THEN 1 ELSE 0

\* Two sets that differ in x at most.
LEMMA CountMove ==
    ASSUME NEW S, NEW T, NEW x, IsFiniteSet(S), S \ {x} = T \ {x}
    PROVE  /\ IsFiniteSet(T) /\ Cardinality(S) \in Nat /\ Cardinality(T) \in Nat
           /\ Cardinality(T) = Cardinality(S) + One(x \in T) - One(x \in S)
<1> DEFINE R == S \ {x}
<1>1. /\ IsFiniteSet(R) /\ Cardinality(R) \in Nat /\ Cardinality(S) \in Nat
      /\ Cardinality(S) = Cardinality(R) + One(x \in S)
  BY FS_RemoveElement, FS_CardinalityType DEF One
<1>2. /\ IsFiniteSet(R \cup {x}) /\ Cardinality(R \cup {x}) = Cardinality(R) + 1
  BY <1>1, FS_AddElement
<1>3. CASE x \in T
  <2>1. T = R \cup {x}
    BY <1>3
  <2> QED
    BY <1>1, <1>2, <1>3, <2>1 DEF One
<1>4. CASE x \notin T
  <2>1. T = R
    BY <1>4
  <2> QED
    BY <1>1, <1>4, <2>1 DEF One
<1> QED
  BY <1>3, <1>4

\* Every set that is counted is finite.
LEMMA FiniteCounts ==
    ASSUME TypeInv, NEW r
    PROVE  /\ IsFiniteSet(Entries(r)) /\ IsFiniteSet(Pushers(r))
           /\ IsFiniteSet(Takers(r)) /\ IsFiniteSet(Unacking(r))
           /\ Cardinality(Entries(r)) \in Nat /\ Cardinality(Pushers(r)) \in Nat
           /\ Cardinality(Takers(r)) \in Nat /\ Cardinality(Unacking(r)) \in Nat
           /\ Cardinality(Unacking(r)) <= Cardinality(Takers(r))
<1>1. IsFiniteSet(Entries(r))
  <2>1. Len(queue) \in Nat
    BY DEF TypeInv, TypeOK, RedisTypeOK
  <2>2. IsFiniteSet(1..Len(queue)) /\ Entries(r) \in SUBSET (1..Len(queue))
    BY <2>1, FS_Interval DEF Entries
  <2> QED
    BY <2>2, FS_Subset
<1>2. IsFiniteSet(Pushers(r))
  <2>1. Pushers(r) \in SUBSET Clients
    BY DEF Pushers
  <2> QED
    BY <2>1, RuntimeAssumption, FS_Subset
<1>3. IsFiniteSet(Takers(r))
  <2>1. Takers(r) \in SUBSET Workers
    BY DEF Takers
  <2> QED
    BY <2>1, RuntimeAssumption, FS_Subset
<1>4. Unacking(r) \in SUBSET Takers(r)
  BY DEF Unacking, Takers
<1>5. IsFiniteSet(Unacking(r)) /\ Cardinality(Unacking(r)) <= Cardinality(Takers(r))
  BY <1>3, <1>4, FS_Subset
<1> QED
  BY <1>1, <1>2, <1>3, <1>5, FS_CardinalityType

LEMMA EntriesAppend ==
    ASSUME TypeInv, NEW q \in Runs, queue' = Append(queue, q), NEW r
    PROVE  Cardinality(Entries(r)') = Cardinality(Entries(r)) + One(q = r)
<1> DEFINE n == Len(queue) + 1
<1>1. /\ Len(queue) \in Nat /\ Len(queue') = n /\ queue'[n] = q
      /\ \A i \in 1..Len(queue) : queue'[i] = queue[i]
  BY DEF TypeInv, TypeOK, RedisTypeOK
<1>2. Entries(r) \ {n} = Entries(r)' \ {n}
  BY <1>1 DEF Entries
<1>3. n \notin Entries(r) /\ (n \in Entries(r)' <=> q = r)
  BY <1>1 DEF Entries
<1>4. /\ Cardinality(Entries(r)) \in Nat
      /\ Cardinality(Entries(r)') = Cardinality(Entries(r)) + One(n \in Entries(r)') - One(n \in Entries(r))
  <2> HIDE DEF n
  <2> QED
    BY <1>2, CountMove, FiniteCounts
<1> QED
  BY <1>3, <1>4 DEF One

LEMMA EntriesPop ==
    ASSUME TypeInv, RpopLpush, NEW r
    PROVE  Cardinality(Entries(r)') = Cardinality(Entries(r)) - One(NextDelivery = r)
<1> DEFINE n == Len(queue)
<1>1. /\ n \in Nat \ {0} /\ Len(queue') = n - 1
      /\ \A i \in 1..(n - 1) : queue'[i] = queue[i]
  <2>1. /\ queue \in Seq(Runs) /\ queue # <<>>
        /\ queue' = SubSeq(queue, 1, Len(queue) - 1)
    BY DEF RpopLpush, TypeInv, TypeOK, RedisTypeOK
  <2> QED
    BY <2>1, SequenceFront
<1>2. Entries(r) \ {n} = Entries(r)' \ {n}
  BY <1>1 DEF Entries
<1>3. n \notin Entries(r)' /\ (n \in Entries(r) <=> NextDelivery = r)
  BY <1>1 DEF Entries, NextDelivery
<1>4. /\ Cardinality(Entries(r)) \in Nat
      /\ Cardinality(Entries(r)') = Cardinality(Entries(r)) + One(n \in Entries(r)') - One(n \in Entries(r))
  <2> HIDE DEF n
  <2> QED
    BY <1>2, CountMove, FiniteCounts
<1> QED
  BY <1>3, <1>4 DEF One

LEMMA EntriesSame ==
    ASSUME queue' = queue, NEW r
    PROVE  Cardinality(Entries(r)') = Cardinality(Entries(r))
BY DEF Entries

\* A step of one client, or of one worker, moves at most this one.
LEMMA PushersMove ==
    ASSUME TypeInv, NEW c \in Clients, NEW r,
           \A d \in Clients : d # c => cpc'[d] = cpc[d] /\ creq'[d] = creq[d]
    PROVE  Cardinality(Pushers(r)') =
               Cardinality(Pushers(r)) + One(c \in Pushers(r)') - One(c \in Pushers(r))
<1>1. Pushers(r) \ {c} = Pushers(r)' \ {c}
  BY DEF Pushers
<1> QED
  BY <1>1, CountMove, FiniteCounts

LEMMA TakersMove ==
    ASSUME TypeInv, NEW w \in Workers, NEW r,
           \A v \in Workers : v # w => wpc'[v] = wpc[v] /\ job'[v] = job[v]
    PROVE  /\ Cardinality(Takers(r)') =
                Cardinality(Takers(r)) + One(w \in Takers(r)') - One(w \in Takers(r))
           /\ Cardinality(Unacking(r)') =
                Cardinality(Unacking(r)) + One(w \in Unacking(r)') - One(w \in Unacking(r))
<1>1. Takers(r) \ {w} = Takers(r)' \ {w} /\ Unacking(r) \ {w} = Unacking(r)' \ {w}
  BY DEF Takers, Unacking
<1> QED
  BY <1>1, CountMove, FiniteCounts

LEMMA UnackingNext ==
    ASSUME NEW r
    PROVE  IsFiniteSet(Unacking(r)')
<1>1. Unacking(r)' \in SUBSET Workers
  BY DEF Unacking
<1> QED
  BY <1>1, RuntimeAssumption, FS_Subset

LEMMA EntriesNext ==
    ASSUME TypeInv, [Next]_vars, NEW r
    PROVE  Cardinality(Entries(r)') \in Nat
<1>1. Len(queue') \in Nat
  BY TypeNext DEF TypeInv, TypeOK, RedisTypeOK
<1>2. IsFiniteSet(1..Len(queue')) /\ Entries(r)' \in SUBSET (1..Len(queue'))
  BY <1>1, FS_Interval DEF Entries
<1> QED
  BY <1>2, FS_Subset, FS_CardinalityType

LEMMA CancelKeyGrows ==
    ASSUME [Next]_vars
    PROVE  cancelKey \subseteq cancelKey'
<1> USE DEF redisVars
<1>1. CASE UNCHANGED vars
  BY <1>1 DEF vars
<1>2. ASSUME NEW c \in Clients, HandlerStep(c) \/ RequestStep(c) PROVE cancelKey \subseteq cancelKey'
  BY <1>2 DEF HandlerStep, RequestStep, EnqueueSadd, EnqueueRpush, EnqueueUndo, CancelToken, DecideWrite,
     Submit, CancelRow, DecideRead, EnqueueError, AbandonRequest, Sadd, Srem, Rpush, SetCancel
<1>3. ASSUME NEW w \in Workers, DeliveryStep(w) \/ ExecutionStep(w) \/ WorkerFault(w)
      PROVE  cancelKey \subseteq cancelKey'
  BY <1>3 DEF DeliveryStep, Dequeue, CheckDelivery, Acquire, AckLrem, AckSrem, RpopLpush, Srem,
     LremProcessing, AcquireLease, ReleaseLease, SetLease, ExecutionStep, CheckStart, Load, Begin, Flush,
     Checkpoint, FinishSome, Finish, CloudTool, DesktopDispatch, DesktopReturn, Commit, Release,
     RenewalRefused, WorkerFault, StopWorker, RestartWorker, LeaseLapse, HandlerRaises, CrashWorker
<1>4. CASE RecoveryStep \/ CrashRecovery \/ \E q \in Runs : LeaseExpire(q)
  BY <1>4 DEF RecoveryStep, RecoveryBegin, RecoveryLrem, RecoverySrem, ListRunning, ScanMarks,
     RequeueRow, RequeueSadd, RequeueRpush, RecoverInflight, RecoverChecked, RecoverDelivery, ScanLease, RequeueFound,
     CrashRecovery, LeaseExpire, SetLease, LremProcessing, Sadd, Srem, Rpush
<1> QED
  BY <1>1, <1>2, <1>3, <1>4 DEF Next

LEMMA OvertakenGrows ==
    ASSUME TypeInv, [Next]_vars
    PROVE  Overtaken \in Int /\ Overtaken' \in Int /\ Overtaken <= Overtaken'
BY BudgetSpent, RuntimeAssumption DEF TypeInv, TypeOK, Overtaken, Spend, BudgetKinds

-----------------------------------------------------------------------------
(* The invariant, step by step.                                              *)

LEMMA ClaimsType ==
    ASSUME TypeInv, NEW r
    PROVE  RecoveryPush(r) \in Nat /\ Claims(r) \in Nat
BY FiniteCounts DEF Claims, RecoveryPush

\* A step keeps the bound when the claims grow no more than overtakes and marker.
LEMMA Balance ==
    ASSUME TypeInv, [Next]_vars, NEW r, DeliveryInv(r), ProcessingHeld(r)', NotDropped(r)',
           Claims(r)' <= Claims(r) + (Overtaken' - Overtaken) + One(r \in pending') - One(r \in pending),
           Claims(r)' \in Int
    PROVE  DeliveryInv(r)'
<1>1. Claims(r) \in Int
  BY ClaimsType
<1>2. Claims(r) <= Overtaken + One(r \in pending)
  BY DEF DeliveryInv, ClaimsBounded, One
<1>3. One(r \in pending) \in Int /\ One(r \in pending') \in Int
  BY DEF One
<1>4. Claims(r)' <= Overtaken' + One(r \in pending')
  BY <1>1, <1>2, <1>3, OvertakenGrows
<1> QED
  BY <1>4 DEF DeliveryInv, ClaimsBounded, One

LEMMA DeliveriesByClients ==
    ASSUME TypeInv, [Next]_vars, NEW r \in Runs, DeliveryInv(r),
           NEW c \in Clients, HandlerStep(c) \/ RequestStep(c)
    PROVE  DeliveryInv(r)'
<1>0. /\ cpc \in [Clients -> ClientPc] /\ creq \in [Clients -> Runs \cup {NoRun}]
      /\ cpc[c] # "idle" => creq[c] \in Runs
  BY DEF TypeInv, TypeOK, InHandOK
<1>1. UNCHANGED <<wpc, job, rjob, rstep, processing>>
  BY DEF workerVars, recVars, redisVars, HandlerStep, RequestStep, EnqueueSadd, EnqueueRpush, EnqueueUndo,
         CancelToken, DecideWrite, Submit, CancelRow, DecideRead, EnqueueError, AbandonRequest, Sadd, Srem, Rpush, SetCancel
<1>2. \A d \in Clients : d # c => cpc'[d] = cpc[d] /\ creq'[d] = creq[d]
  BY <1>0 DEF HandlerStep, RequestStep, EnqueueSadd, EnqueueRpush, EnqueueUndo, CancelToken, DecideWrite,
         Submit, CancelRow, DecideRead, EnqueueError, AbandonRequest, ClientGoto, ClientStart
<1>3. /\ Takers(r)' = Takers(r) /\ Unacking(r)' = Unacking(r) /\ RecoveryPush(r)' = RecoveryPush(r)
  BY <1>1 DEF Takers, Unacking, RecoveryPush
<1>4. ProcessingHeld(r)' /\ NotDropped(r)'
  BY <1>1, <1>3 DEF DeliveryInv, ProcessingHeld, NotDropped
<1> DEFINE added == Cardinality(Entries(r)') - Cardinality(Entries(r))
           moved == One(c \in Pushers(r)') - One(c \in Pushers(r))
<1>5. Cardinality(Pushers(r)') = Cardinality(Pushers(r)) + moved
  BY <1>2, PushersMove
<1>6. added \in Int /\ added + moved <= One(r \in pending') - One(r \in pending)
  <2>1. CASE EnqueueSadd(c)
    <3>1. queue' = queue
      BY <2>1 DEF EnqueueSadd, Sadd
    <3>2. /\ c \notin Pushers(r)
          /\ c \in Pushers(r)' <=> creq[c] = r /\ creq[c] \notin pending
          /\ r \in pending' <=> r \in pending \/ creq[c] = r
      BY <1>0, <2>1 DEF EnqueueSadd, Sadd, ClientGoto, Pushers
    <3> QED
      BY <3>1, <3>2, EntriesSame, FiniteCounts DEF One
  <2>2. CASE EnqueueRpush(c)
    <3>1. added = One(creq[c] = r)
      BY <1>0, <2>2, EntriesAppend, FiniteCounts DEF EnqueueRpush, Rpush, One
    <3>2. /\ pending' = pending /\ c \notin Pushers(r)'
          /\ c \in Pushers(r) <=> creq[c] = r
      BY <1>0, <2>2 DEF EnqueueRpush, Rpush, ClientGoto, Pushers
    <3> QED
      BY <3>1, <3>2 DEF One
  <2>3. CASE EnqueueUndo(c)
    <3>1. queue' = queue
      BY <2>3 DEF EnqueueUndo, Srem
    <3>2. /\ c \notin Pushers(r)'
          /\ c \in Pushers(r) <=> creq[c] = r
          /\ r \in pending' <=> r \in pending /\ creq[c] # r
      BY <1>0, <2>3 DEF EnqueueUndo, Srem, ClientGoto, Pushers
    <3> QED
      BY <3>1, <3>2, EntriesSame, FiniteCounts DEF One
  <2>4. CASE \/ CancelToken(c) \/ DecideWrite(c) \/ EnqueueError(c) \/ AbandonRequest(c)
             \/ \E q \in Runs : Submit(c, q) \/ CancelRow(c, q) \/ DecideRead(c, q)
    <3>1. queue' = queue /\ pending' = pending /\ (c \in Pushers(r)' => c \in Pushers(r))
      BY <1>0, <2>4 DEF redisVars, CancelToken, SetCancel, DecideWrite, Submit, CancelRow, DecideRead, EnqueueError,
                  AbandonRequest, ClientGoto, ClientStart, Pushers
    <3> QED
      BY <3>1, EntriesSame, FiniteCounts DEF One
  <2> QED
    BY <2>1, <2>2, <2>3, <2>4 DEF HandlerStep, RequestStep
<1>7. moved \in Int /\ One(r \in pending') - One(r \in pending) \in Int
  BY DEF One
<1>8. Claims(r)' = Claims(r) + added + moved
  <2> HIDE DEF moved
  <2> QED
    BY <1>3, <1>5, <1>7, FiniteCounts, EntriesNext, ClaimsType DEF Claims
<1> HIDE DEF added, moved
<1>9. /\ Claims(r)' \in Int
      /\ Claims(r)' <= Claims(r) + (Overtaken' - Overtaken) + One(r \in pending') - One(r \in pending)
  BY <1>6, <1>7, <1>8, ClaimsType, OvertakenGrows
<1> QED
  BY <1>4, <1>9, Balance

LEMMA DeliveriesByWorkers ==
    ASSUME TypeInv, [Next]_vars, BudgetInv, Undisturbed', NEW r \in Runs, DeliveryInv(r),
           NEW w \in Workers, DeliveryStep(w) \/ ExecutionStep(w) \/ WorkerFault(w)
    PROVE  DeliveryInv(r)'
<1>0. /\ wpc \in [Workers -> WorkerPc] /\ job \in [Workers -> Runs \cup {NoRun}]
      /\ wpc[w] # "idle" => job[w] \in Runs
      /\ processing \in [Runs -> Nat]
  BY DEF TypeInv, TypeOK, RedisTypeOK, InHandOK
<1>1. UNCHANGED <<cpc, creq, rjob, rstep>>
  BY DEF clientVars, recVars, DeliveryStep, Dequeue, CheckDelivery, Acquire, AckLrem, AckSrem, ExecutionStep,
         CheckStart, Load, Begin, Flush, Checkpoint, FinishSome, Finish, CloudTool, DesktopDispatch,
         DesktopReturn, Commit, Release, RenewalRefused, WorkerFault, StopWorker, RestartWorker,
         LeaseLapse, HandlerRaises, CrashWorker
<1>2. ~CrashWorker(w)
  BY DEF CrashWorker, Spend, Undisturbed, BudgetInv, BudgetKinds, TypeInv, TypeOK
<1>3. \A v \in Workers : v # w => wpc'[v] = wpc[v] /\ job'[v] = job[v]
  BY <1>0, <1>2 DEF workerVars, DeliveryStep, Dequeue, CheckDelivery, Acquire, AckLrem, AckSrem, ExecutionStep,
         CheckStart, Load, Begin, Flush, Checkpoint, FinishSome, Finish, CloudTool, DesktopDispatch,
         DesktopReturn, Commit, Release, RenewalRefused, WorkerFault, StopWorker, RestartWorker,
         LeaseLapse, HandlerRaises, Goto
<1>4. /\ Pushers(r)' = Pushers(r) /\ RecoveryPush(r)' = RecoveryPush(r) /\ NotDropped(r)'
  BY <1>1 DEF Pushers, RecoveryPush, DeliveryInv, NotDropped
<1> DEFINE added == Cardinality(Entries(r)') - Cardinality(Entries(r))
           moved == One(w \in Takers(r)') - One(w \in Takers(r))
           freed == One(w \in Unacking(r)') - One(w \in Unacking(r))
<1>5. /\ Cardinality(Takers(r)') = Cardinality(Takers(r)) + moved
      /\ Cardinality(Unacking(r)') = Cardinality(Unacking(r)) + freed
  BY <1>3, TakersMove
<1>6. /\ added \in Int /\ added + moved <= One(r \in pending') - One(r \in pending)
      /\ processing'[r] <= processing[r] + freed \/ (processing'[r] = 0 /\ processing[r] = 0)
  <2>1. CASE Dequeue(w)
    <3>1. /\ wpc[w] = "idle" /\ RpopLpush /\ pending' = pending
          /\ job'[w] = NextDelivery /\ wpc'[w] = "fetched" /\ NextDelivery \in Runs
      BY <1>0, <2>1, QueueEnd DEF Dequeue, RpopLpush, Goto, TypeInv, TypeOK, RedisTypeOK
    <3>2. processing'[r] = processing[r] + One(NextDelivery = r)
      BY <1>0, <3>1 DEF RpopLpush, One
    <3>3. /\ w \notin Takers(r) /\ w \notin Unacking(r)
          /\ w \in Takers(r)' <=> NextDelivery = r
          /\ w \in Unacking(r)' <=> NextDelivery = r
      BY <3>1 DEF Takers, Unacking, Unacked
    <3>4. added = - One(NextDelivery = r)
      BY <3>1, EntriesPop, FiniteCounts DEF One
    <3> QED
      BY <1>0, <3>1, <3>2, <3>3, <3>4 DEF One
  <2>2. CASE AckLrem(w)
    <3>1. queue' = queue /\ pending' = pending
      BY <2>2 DEF AckLrem, LremProcessing
    <3>2. processing'[r] = IF job[w] = r /\ processing[r] # 0 THEN processing[r] - 1 ELSE processing[r]
      BY <1>0, <2>2 DEF AckLrem, LremProcessing
    <3>3. /\ w \in Takers(r)' <=> w \in Takers(r)
          /\ w \in Unacking(r) <=> job[w] = r
          /\ w \notin Unacking(r)'
      BY <1>0, <2>2 DEF AckLrem, Goto, Takers, Unacking, Unacked
    <3> QED
      BY <1>0, <3>1, <3>2, <3>3, EntriesSame, FiniteCounts DEF One
  <2>3. CASE AckSrem(w)
    <3>1. queue' = queue /\ processing' = processing
      BY <2>3 DEF AckSrem, Srem
    <3>2. r \in pending' <=> r \in pending /\ job[w] # r
      BY <2>3 DEF AckSrem, Srem
    <3>3. /\ w \notin Takers(r)' /\ (w \in Takers(r) <=> job[w] = r)
          /\ w \notin Unacking(r)' /\ w \notin Unacking(r)
      BY <1>0, <2>3 DEF AckSrem, Goto, Takers, Unacking, Unacked
    <3> QED
      BY <1>0, <3>1, <3>2, <3>3, EntriesSame, FiniteCounts DEF One
  <2>4. CASE \/ CheckDelivery(w) \/ Acquire(w) \/ ExecutionStep(w)
             \/ StopWorker(w) \/ RestartWorker(w) \/ LeaseLapse(w) \/ HandlerRaises(w)
    <3>1. UNCHANGED <<queue, processing, pending>>
      BY <2>4 DEF redisVars, workerVars, CheckDelivery, Acquire, AcquireLease, SetLease, ExecutionStep,
         CheckStart, Load, Begin, Flush, Checkpoint, FinishSome, Finish, CloudTool, DesktopDispatch,
         DesktopReturn, Commit, Release, ReleaseLease, RenewalRefused, StopWorker, RestartWorker,
         LeaseLapse, HandlerRaises
    <3>2. /\ w \in Takers(r)' <=> w \in Takers(r)
          /\ w \in Unacking(r)' <=> w \in Unacking(r)
      BY <1>0, <2>4 DEF workerVars, CheckDelivery, Acquire, ExecutionStep, Goto, Takers, Unacking, Unacked,
         CheckStart, Load, Begin, Flush, Checkpoint, FinishSome, Finish, CloudTool, DesktopDispatch,
         DesktopReturn, Commit, Release, RenewalRefused, StopWorker, RestartWorker,
         LeaseLapse, HandlerRaises, InSession, Holding
    <3> QED
      BY <1>0, <3>1, <3>2, EntriesSame, FiniteCounts DEF One
  <2> QED
    BY <1>2, <2>1, <2>2, <2>3, <2>4 DEF DeliveryStep, WorkerFault
<1>7. /\ moved \in Int /\ freed \in Int /\ One(r \in pending') - One(r \in pending) \in Int
      /\ freed >= 0 - One(w \in Unacking(r))
  BY DEF One
<1>8. ProcessingHeld(r)'
  <2>1. processing[r] <= Cardinality(Unacking(r)) /\ processing[r] \in Nat /\ processing'[r] \in Int
    BY <1>0, TypeNext DEF DeliveryInv, ProcessingHeld, TypeInv, TypeOK, RedisTypeOK
  <2>2. Cardinality(Unacking(r)) + freed >= 0
    <3>1. IsFiniteSet(Unacking(r)')
      BY UnackingNext
    <3> QED
      BY <1>5, <3>1, FS_CardinalityType
  <2> HIDE DEF freed
  <2> QED
    BY <1>5, <1>6, <1>7, <2>1, <2>2, FiniteCounts DEF ProcessingHeld
<1>9. Claims(r)' = Claims(r) + added + moved
  <2> HIDE DEF moved
  <2> QED
    BY <1>4, <1>5, <1>7, FiniteCounts, EntriesNext, ClaimsType DEF Claims
<1> HIDE DEF added, moved
<1>10. /\ Claims(r)' \in Int
       /\ Claims(r)' <= Claims(r) + (Overtaken' - Overtaken) + One(r \in pending') - One(r \in pending)
  BY <1>6, <1>7, <1>9, ClaimsType, OvertakenGrows
<1> QED
  BY <1>4, <1>8, <1>10, Balance

LEMMA DeliveriesByRecovery ==
    ASSUME TypeInv, [Next]_vars, BudgetInv, Undisturbed', NEW r \in Runs \ cancelKey, DeliveryInv(r),
           RecoveryStep \/ CrashRecovery \/ \E q \in Runs : LeaseExpire(q)
    PROVE  DeliveryInv(r)'
<1>0. /\ processing \in [Runs -> Nat] /\ rtodo \subseteq Item
      /\ rstep # "next" => rjob \in Runs
  BY DEF TypeInv, TypeOK, RedisTypeOK, InHandOK
<1>1. UNCHANGED <<cpc, creq, wpc, job>>
  BY DEF RecoveryFrame, workerVars, clientVars, RecoveryStep, RecoveryBegin, RecoveryLrem, RecoverySrem,
         ListRunning, ScanMarks, RequeueRow, RequeueSadd, RequeueRpush, RecoverInflight, RecoverChecked, ScanLease,
         RequeueFound, CrashRecovery, LeaseExpire
<1>2. Pushers(r)' = Pushers(r) /\ Takers(r)' = Takers(r) /\ Unacking(r)' = Unacking(r)
  BY <1>1 DEF Pushers, Takers, Unacking
<1>3. ~CrashRecovery
  BY DEF CrashRecovery, Spend, Undisturbed, BudgetInv, BudgetKinds, TypeInv, TypeOK
<1> DEFINE added == Cardinality(Entries(r)') - Cardinality(Entries(r))
           moved == RecoveryPush(r)' - RecoveryPush(r)
<1>4. Claims(r)' = Claims(r) + added + moved /\ added \in Int /\ moved \in Int
  BY <1>2, FiniteCounts, EntriesNext, ClaimsType DEF Claims, RecoveryPush
<1>5. SUFFICES
        /\ processing'[r] <= processing[r] /\ processing'[r] \in Int
        /\ NotDropped(r)'
        /\ added + moved <= (Overtaken' - Overtaken) + One(r \in pending') - One(r \in pending)
  <2>1. ProcessingHeld(r)'
    BY <1>0, <1>2, <1>5, FiniteCounts DEF DeliveryInv, ProcessingHeld
  <2>2. One(r \in pending') - One(r \in pending) \in Int
    BY DEF One
  <2> HIDE DEF added, moved
  <2>3. /\ Claims(r)' \in Int
        /\ Claims(r)' <= Claims(r) + (Overtaken' - Overtaken) + One(r \in pending') - One(r \in pending)
    BY <1>4, <1>5, <2>2, ClaimsType, OvertakenGrows
  <2> QED
    BY <1>5, <2>1, <2>3, Balance
<1>6. CASE RecoveryLrem \/ RecoverySrem
  <2>1. rjob # r
    BY <1>6 DEF RecoveryLrem, RecoverySrem, DeliveryInv, NotDropped
  <2>2. queue' = queue /\ processing'[r] = processing[r] /\ (r \in pending' <=> r \in pending)
    BY <1>0, <1>6, <2>1 DEF RecoveryLrem, RecoverySrem, LremProcessing, Srem
  <2>3. moved = 0 /\ NotDropped(r)'
    BY <1>6, <2>1 DEF RecoveryLrem, RecoverySrem, NextItem, RecoveryPush, NotDropped
  <2> QED
    BY <1>0, <2>2, <2>3, EntriesSame, FiniteCounts, OvertakenGrows DEF One
<1>7. CASE RequeueSadd
  <2>1. queue' = queue /\ processing' = processing /\ NotDropped(r)'
    BY <1>7 DEF RequeueSadd, Sadd, NextItem, NotDropped
  <2>2. moved <= One(r \in pending') - One(r \in pending)
    BY <1>0, <1>7 DEF RequeueSadd, Sadd, NextItem, RecoveryPush, One
  <2> QED
    BY <1>0, <1>4, <2>1, <2>2, EntriesSame, FiniteCounts, OvertakenGrows DEF One
<1>8. CASE RequeueRpush
  <2>1. processing' = processing /\ pending' = pending /\ NotDropped(r)'
    BY <1>8 DEF RequeueRpush, Rpush, NextItem, NotDropped
  <2>2. added = One(rjob = r)
    BY <1>0, <1>8, EntriesAppend, FiniteCounts DEF RequeueRpush, Rpush, One
  <2>3. moved <= 0 - One(rjob = r)
    BY <1>0, <1>8 DEF RequeueRpush, NextItem, RecoveryPush, One
  <2> QED
    BY <1>0, <1>4, <2>1, <2>2, <2>3, OvertakenGrows DEF One
<1>9. CASE RecoverChecked
  <2>1. /\ rjob \in Runs /\ pending' = pending /\ rstep = "inflight"
        /\ moved = 0
    BY <1>0, <1>9 DEF RecoverChecked, RecoverDelivery, NextItem, redisVars, RecoveryPush
  <2>2. NotDropped(r)'
    BY <1>9, <2>1 DEF RecoverChecked, NextItem, NotDropped
  <2>3. CASE UNCHANGED <<queue, processing>>
    BY <1>0, <2>1, <2>2, <2>3, EntriesSame, FiniteCounts, OvertakenGrows DEF One
  <2>4. CASE RecoverDelivery(rjob) /\ TakeDelivery(rjob)
    <3>1. added = One(rjob = r)
      BY <2>1, <2>4, EntriesAppend, FiniteCounts DEF RecoverDelivery, One
    <3>2. processing'[r] = processing[r] - One(rjob = r)
      BY <1>0, <2>1, <2>4 DEF RecoverDelivery, One
    <3>3. CASE rjob = r
      <4>1. Cardinality(Unacking(r)) > 0
        BY <1>0, <2>4, <3>3, FiniteCounts DEF RecoverDelivery, Recoverable, DeliveryInv, ProcessingHeld
      <4>2. InHand(r)
        BY <4>1, FS_EmptySet DEF Unacking, InHand
      <4>3. Overtaken' = Overtaken + 1
        BY <2>4, <3>3, <4>2, RuntimeAssumption
           DEF TakeDelivery, Spend, Overtaken, BudgetKinds, TypeInv, TypeOK
      <4> QED
        BY <1>0, <2>1, <2>2, <3>1, <3>2, <4>3, OvertakenGrows DEF One
    <3>4. CASE rjob # r
      BY <1>0, <2>1, <2>2, <3>1, <3>2, <3>4, OvertakenGrows DEF One
    <3> QED
      BY <3>3, <3>4
  <2> QED
    BY <1>9, <2>3, <2>4 DEF RecoverChecked, redisVars
<1>10. CASE \/ RecoveryBegin \/ ListRunning \/ ScanMarks \/ RequeueRow
            \/ (\E i \in rtodo : RecoverInflight(i) \/ ScanLease(i)) \/ (\E q \in rfound : RequeueFound(q))
            \/ (\E q \in Runs : LeaseExpire(q))
  <2>1. /\ UNCHANGED <<queue, processing, pending>>
        /\ rstep \in {"lrem", "srem", "rpush"} => UNCHANGED <<rstep, rjob>>
        /\ rstep' \in {"lrem", "srem", "rpush"} => UNCHANGED <<rstep, rjob>>
    BY <1>10 DEF RecoveryBegin, RecoverInflight, ListRunning, ScanMarks, RequeueRow, ScanLease, RequeueFound,
                 LeaseExpire, SetLease, recVars, redisVars, NextItem
  <2>2. NotDropped(r)' /\ moved = 0
    BY <2>1 DEF NotDropped, DeliveryInv, RecoveryPush
  <2> QED
    BY <1>0, <2>1, <2>2, EntriesSame, FiniteCounts, OvertakenGrows DEF One
<1> QED
  BY <1>3, <1>6, <1>7, <1>8, <1>9, <1>10 DEF RecoveryStep

-----------------------------------------------------------------------------

LEMMA BoundedNext ==
    ASSUME TypeInv, BudgetInv, Undisturbed => AllBounded, [Next]_vars
    PROVE  (Undisturbed => AllBounded)'
<1> SUFFICES ASSUME Undisturbed', NEW r \in Runs, r \notin cancelKey' PROVE DeliveryInv(r)'
  BY DEF AllBounded
<1>1. cancelKey \subseteq cancelKey'
  BY CancelKeyGrows
<1>2. DeliveryInv(r)
  BY <1>1, BudgetNext DEF AllBounded
<1>3. CASE UNCHANGED vars
  BY <1>2, <1>3 DEF vars, redisVars, workerVars, clientVars, recVars, DeliveryInv, ClaimsBounded,
     ProcessingHeld, NotDropped, Claims, Entries, Pushers, RecoveryPush, Takers, Unacking, Overtaken
<1>4. CASE Next
  BY <1>1, <1>2, <1>4, DeliveriesByClients, DeliveriesByWorkers, DeliveriesByRecovery DEF Next
<1> QED
  BY <1>3, <1>4

LEMMA BoundedInit == Init => AllBounded
<1> SUFFICES ASSUME Init, NEW r \in Runs PROVE DeliveryInv(r)
  BY DEF AllBounded
<1>1. Entries(r) = {} /\ Pushers(r) = {} /\ Takers(r) = {} /\ Unacking(r) = {}
  BY DEF Init, RedisInit, Entries, Pushers, Takers, Unacking, Unacked
<1>2. RecoveryPush(r) = 0 /\ processing[r] = 0 /\ NotDropped(r)
  BY DEF Init, RedisInit, RecoveryPush, NotDropped
<1>3. Overtaken = 0
  BY RuntimeAssumption DEF Init, Overtaken, BudgetKinds
<1> QED
  BY <1>1, <1>2, <1>3, FS_EmptySet
     DEF Init, RedisInit, DeliveryInv, ClaimsBounded, ProcessingHeld, Claims

LEMMA BoundedCopies ==
    ASSUME TypeInv, AllBounded, NEW r \in Runs \ cancelKey
    PROVE  Copies(r) <= 1 + Overtaken
<1>1. /\ DeliveryInv(r) /\ processing[r] \in Nat /\ Overtaken \in Int
      /\ Copies(r) = Cardinality(Entries(r)) + processing[r]
  BY RuntimeAssumption
     DEF AllBounded, TypeInv, TypeOK, RedisTypeOK, Copies, Entries, Overtaken, BudgetKinds
<1> QED
  BY <1>1, FiniteCounts, ClaimsType DEF DeliveryInv, ClaimsBounded, ProcessingHeld, Claims

\* While nothing is cut short, the deliveries of a run no user cancelled are one,
\* plus one for each delivery recovery took from under a live worker.
THEOREM DeliverySafety == Spec => []DeliveriesBounded
<1>1. Init => BudgetInv /\ (Undisturbed => AllBounded)
  BY RuntimeAssumption, BoundedInit DEF Init, BudgetInv, BudgetKinds
<1>2. TypeInv /\ BudgetInv /\ (Undisturbed => AllBounded) /\ [Next]_vars
        => BudgetInv' /\ (Undisturbed => AllBounded)'
  BY BudgetNext, BoundedNext
<1>3. TypeInv /\ (Undisturbed => AllBounded) => DeliveriesBounded
  BY BoundedCopies DEF DeliveriesBounded
<1> QED
  BY <1>1, <1>2, <1>3, TypeCorrect, PTL DEF Spec
=============================================================================
