--------------------------- MODULE AppendOnlyLog ----------------------------
(***************************************************************************)
(* What agent_events promises to a reader with a cursor                    *)
(* (phase-5-agent-runtime.md:189, a sequence unique within the run): event *)
(* n + 1 becomes visible after events 1..n, and none ever changes.         *)
(***************************************************************************)
EXTENDS Sequences

CONSTANT Events
VARIABLE log

Init == log = <<>>

Extend(e) == log' = Append(log, e)

Next == \E e \in Events : Extend(e)

Spec == Init /\ [][Next]_log
=============================================================================
