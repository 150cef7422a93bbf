---------------------------- MODULE RunProgress -----------------------------
(***************************************************************************)
(* RunExecution, with a code execution workspace, implements PlanProgress. *)
(***************************************************************************)
EXTENDS RunExecution

Done == {n \in Nodes : node[n] = "completed"}
Busy == {n \in Nodes : node[n] \in {"running", "candidate", "verifying"}}

Progress == INSTANCE PlanProgress WITH status <- run, done <- Done, busy <- Busy

\* Whatever the host, its tasks, the operator and people on other threads do to each
\* other, an observer of the Run sees a plan that makes progress as promised.
ImplementsPlan == Progress!Spec
=============================================================================
