-------------------------- MODULE MCWorkflowTriggers --------------------------
(* Small trigger lists for TLC. *)
EXTENDS WorkflowTriggers

CONSTANTS wf1

T(kind, at) == [kind |-> kind, at |-> at]

\* A schedule with a release; a one-time agent; an IPO; two pieces of news.
MixedPlans ==
  { <<T("cron", {2}), T("macro", {1, 2})>>,
    <<T("once", {2})>>,
    <<T("ipo", {1})>>,
    <<T("event", {1, 2})>> }

SchedulePlans == { <<T("cron", {1, 3}), T("macro", {1})>>, <<T("once", {2})>> }
SiblingPlans == { <<T("once", {1}), T("once", {2})>> }

Forever == {None}
MCExpiries == {None, 2}

=============================================================================
