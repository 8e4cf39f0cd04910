------------------------------ MODULE RunLease ------------------------------
(***************************************************************************)
(* What the lease of an agent run promises (phase-5-agent-runtime.md 5:    *)
(* "Worker obtains the lease", "recovery re-queues runs without lease"):   *)
(* a worker is granted a run only when every earlier holder of that run    *)
(* gave it up or had its lease revoked by the passing of time.             *)
(***************************************************************************)
CONSTANTS Runs, Workers, NoRun

VARIABLES
    holds,      \* the run each worker works on under a lease
    revoked     \* holders whose lease has ended without their doing

Init ==
    /\ holds = [w \in Workers |-> NoRun]
    /\ revoked = {}

Free(r) == \A v \in Workers : holds[v] = r => v \in revoked

Grant(w, r) ==
    /\ holds[w] = NoRun
    /\ Free(r)
    /\ holds' = [holds EXCEPT ![w] = r]
    /\ UNCHANGED revoked

Revoke(w) ==
    /\ holds[w] # NoRun
    /\ revoked' = revoked \cup {w}
    /\ UNCHANGED holds

GiveUp(w) ==
    /\ holds[w] # NoRun
    /\ holds' = [holds EXCEPT ![w] = NoRun]
    /\ revoked' = revoked \ {w}

Next == \E w \in Workers : (\E r \in Runs : Grant(w, r)) \/ Revoke(w) \/ GiveUp(w)

Spec == Init /\ [][Next]_<<holds, revoked>>
=============================================================================
