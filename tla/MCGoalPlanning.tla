---------------------------- MODULE MCGoalPlanning ----------------------------
(* Requests and keys that may be exchanged for one another; and the hosts of two     *)
(* workspaces, with a stop and a forwarded write or with starts alone: `part` says   *)
(* which of the three a behaviour follows.                                           *)
EXTENDS GoalPlanning, TLC

CONSTANTS small, large, Starters, Stoppers, Overlaps, None
VARIABLES part, manager, manifest, status, host, child, mutex, shutting, task, write, busy

Sym == Permutations(Keys) \cup Permutations(Requests)

\* one of the workspaces takes all the capacity there is
Apart == small :> {} @@ large :> {}
Sizes == small :> 1 @@ large :> 2
Forwards == INSTANCE WorkspaceHosts WITH
    Workspaces <- {small, large}, Parents <- Apart, Capacity <- Sizes, MaxCapacity <- 2,
    Writes <- {"k"}, MaxSpawns <- 2
Starts == INSTANCE WorkspaceHosts WITH
    Workspaces <- {small, large}, Parents <- Apart, Capacity <- Sizes, MaxCapacity <- 2,
    Writes <- {}, Stoppers <- {}, MaxSpawns <- 3
hosts == <<manager, manifest, status, host, child, mutex, shutting, task, write, busy>>

PlanningInit ==
    /\ Init
    /\ \/ part \in {"plans", "forwards"} /\ Forwards!Init
       \/ part = "starts" /\ Starts!Init
PlanningNext ==
    \/ part = "plans" /\ Next /\ UNCHANGED <<part, hosts>>
    \/ part = "forwards" /\ Forwards!Next /\ UNCHANGED <<part, vars>>
    \/ part = "starts" /\ Starts!Next /\ UNCHANGED <<part, vars>>
PlanningSpec == PlanningInit /\ [][PlanningNext]_<<part, vars, hosts>>

\* Hosts keep their capacity, stop idle and are not left behind (WorkspaceHosts).
HostsHold == IF part = "starts" THEN Starts!HostsHold ELSE Forwards!HostsHold
=============================================================================
