--------------------------- MODULE MCWorkspaceHosts ---------------------------
(* Two workspaces of which one takes all the capacity there is. *)
EXTENDS WorkspaceHosts, TLC
CONSTANTS small, large

Apart == small :> {} @@ large :> {}
Sizes == small :> 1 @@ large :> 2

\* Also when a start overtakes the end of an earlier one of the same workspace, the hosts that serve
\* stay within the capacity the manager reserves (WorkspaceSupervisor._start, _shutdown_owned).
ServedWithinCapacity ==
    FoldSet(LAMBDA i, n : n + Capacity[child[i].of], 0, {i \in DOMAIN child : child[i].pc = "healthy"}) <= MaxCapacity
=============================================================================
