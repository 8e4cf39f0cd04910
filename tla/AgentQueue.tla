----------------------------- MODULE AgentQueue -----------------------------
(***************************************************************************)
(* The Redis side of the agent runtime (services/agent/queue.py).  Each    *)
(* operator is ONE Redis command or one Lua script, the unit that Redis    *)
(* executes atomically; the methods of AgentQueue that issue several       *)
(* commands are several steps of the module that uses these operators.     *)
(*                                                                         *)
(* A run stands for the QueueItem <<tenant_id, run_id>>: its payload is a  *)
(* stable byte string, so equal items are indistinguishable in the lists.  *)
(***************************************************************************)
EXTENDS Naturals, Sequences

CONSTANTS
    Runs,       \* AgentRun ids
    Workers,    \* agent_worker processes
    Nobody,     \* no lease / no lock
    Former      \* a lease owner whose process is gone (worker ids are fresh uuids)

ASSUME OwnersDistinct ==
    /\ Nobody \notin Workers
    /\ Former \notin Workers
    /\ Nobody # Former

VARIABLES
    queue,      \* list agent:queue, right end last
    processing, \* list agent:processing, as a count per run: its order is never used
    pending,    \* runs whose agent:pending:<run> set is not empty
    lease,      \* agent:lease:<run>
    cancelKey   \* runs whose agent:cancel:<run> key exists (24 h, longer than any behaviour here)

redisVars == <<queue, processing, pending, lease, cancelKey>>

RedisTypeOK ==
    /\ queue \in Seq(Runs)
    /\ processing \in [Runs -> Nat]
    /\ pending \subseteq Runs
    /\ lease \in [Runs -> Workers \cup {Nobody, Former}]
    /\ cancelKey \subseteq Runs

RedisInit ==
    /\ queue = <<>>
    /\ processing = [r \in Runs |-> 0]
    /\ pending = {}
    /\ lease = [r \in Runs |-> Nobody]
    /\ cancelKey = {}

-----------------------------------------------------------------------------
(* Queue and delivery. *)

Sadd(r) ==
    /\ pending' = pending \cup {r}
    /\ UNCHANGED <<queue, processing, lease, cancelKey>>

Srem(r) ==
    /\ pending' = pending \ {r}
    /\ UNCHANGED <<queue, processing, lease, cancelKey>>

Rpush(r) ==
    /\ queue' = Append(queue, r)
    /\ UNCHANGED <<processing, pending, lease, cancelKey>>

\* RPOPLPUSH takes the RIGHT end, the one RPUSH appends to.
NextDelivery == queue[Len(queue)]

RpopLpush ==
    /\ queue # <<>>
    /\ queue' = SubSeq(queue, 1, Len(queue) - 1)
    /\ processing' = [processing EXCEPT ![NextDelivery] = @ + 1]
    /\ UNCHANGED <<pending, lease, cancelKey>>

LremProcessing(r) ==
    /\ processing' = [processing EXCEPT ![r] = IF @ = 0 THEN 0 ELSE @ - 1]
    /\ UNCHANGED <<queue, pending, lease, cancelKey>>

\* _RECOVER_DELIVERY_SCRIPT: refuses when a lease or no entry exists, else
\* moves one entry back; the pending marker stays until a worker acks.
Recoverable(r) == lease[r] = Nobody /\ processing[r] > 0

RecoverDelivery(r) ==
    /\ Recoverable(r)
    /\ processing' = [processing EXCEPT ![r] = @ - 1]
    /\ queue' = Append(queue, r)
    /\ UNCHANGED <<pending, lease, cancelKey>>

-----------------------------------------------------------------------------
(* Lease and cancellation keys. *)

SetLease(r, o) ==
    /\ lease' = [lease EXCEPT ![r] = o]
    /\ UNCHANGED <<queue, processing, pending, cancelKey>>

\* Mutant: SET without NX.
SetLeaseAnyway(r, w) == SetLease(r, w)

\* SET NX EX 60
AcquireLease(r, w) == lease[r] = Nobody /\ SetLease(r, w)

\* Mutant: DEL without comparing the owner.
DeleteLease(r, w) == SetLease(r, Nobody)

\* _RELEASE_LEASE_SCRIPT: compare the owner, then delete.
ReleaseLease(r, w) ==
    IF lease[r] = w THEN SetLease(r, Nobody) ELSE UNCHANGED redisVars

SetCancel(r) ==
    /\ cancelKey' = cancelKey \cup {r}
    /\ UNCHANGED <<queue, processing, pending, lease>>
=============================================================================
