--------------------------- MODULE MCWorkflowEngine ---------------------------
(* Small workflows for TLC. *)
EXTENDS WorkflowEngine, TLC

CONSTANTS r1, r2, wf1, w1, w2

OneRun == [r \in {r1} |-> wf1]
TwoRuns == [r \in {r1, r2} |-> wf1]

\* A skip that may take the first gate with it, then an order that needs its own.
GatedPlan == [wf \in {wf1} |-> <<"skip_if", "gate", "gated_order", "order">>]
OneGatePlan == [wf \in {wf1} |-> <<"gated_order">>]
UngatedPlan == [wf \in {wf1} |-> <<"condition", "task", "order">>]

\* registry: fetches retry, actions once, the rest never; cut to one retry, and to
\* none for the order that has a gate of its own.
Retries == [k \in Kinds |-> IF k \in {"task", "order"} THEN 1 ELSE 0]

RunSymmetry == Permutations({w1, w2}) \cup Permutations({r1, r2})

=============================================================================
