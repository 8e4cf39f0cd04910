--------------------------- MODULE MCAgentRuntime ---------------------------
(* Budgets for the model-checking runs of AgentRuntime. *)
EXTENDS AgentRuntime, TLC

NoEvents == [k \in BudgetKinds |-> 0]

\* A submitted run and two more requests, stops or failures of any kind.
SafetyBudget ==
    [NoEvents EXCEPT !["request"] = 2, !["crash"] = 1, !["stop"] = 1, !["lapse"] = 1,
                     !["overtake"] = 1, !["fault"] = 1, !["events"] = 3]

\* A submitted run, and one more request or failure.
LiveBudget == [SafetyBudget EXCEPT !["events"] = 2]

TwoRequests == [NoEvents EXCEPT !["request"] = 2, !["events"] = 2]
OneFault == [NoEvents EXCEPT !["request"] = 1, !["fault"] = 1, !["events"] = 2]

WorkerSymmetry == Permutations(Workers)
=============================================================================
