----------------------------- MODULE MCRunPeople -----------------------------
(* Two kinds of host that people work with: with a code execution workspace, for  *)
(* two commands or for an Attempt more, or without one but mortal; and small plans *)
(* of which the worktrees are followed. `part` says which of the four a behaviour  *)
(* is about.                                                                       *)
EXTENDS MCRunExecution

CONSTANT None
VARIABLES part, revision, ran, head, pin, completed, selected, refused, attempts, tree, doc, file,
    handoffs, request, jobs, integrations, branch, cFaults

\* nodes behind each other, on a host without a workspace that may crash
Plain == INSTANCE RunExecution WITH
    CodeMode <- FALSE, Deps <- ChainDeps, GoalBudget <- 3, MaxCrashes <- 1, MaxCommands <- 1
\* one command while one of the nodes is tried again
Again == INSTANCE RunExecution WITH GoalBudget <- 3, MaxCommands <- 1

Small == INSTANCE MCCodeWorkspaces
Code == INSTANCE CodeWorkspaces WITH
    plan <- revision, run <- ran, faults <- cFaults, Plans <- Small!MCPlans, Keys <- {"k"},
    MaxHead <- 2, MaxIntegrations <- 1, MaxFaults <- 1
coded == <<revision, ran, head, pin, completed, selected, refused, attempts, tree, doc, file,
           handoffs, request, jobs, integrations, branch, cFaults>>
ASSUME CodeAssumption == Code!WorkspaceAssumption /\ Code!PlansAssumption

PeopleInit ==
    /\ part \in {"code", "again", "plain", "trees"}
    /\ Init
    /\ Code!Init /\ (part # "trees" => revision = Small!Choice)
PeopleNext ==
    \/ part = "code" /\ Next /\ UNCHANGED <<part, coded>>
    \/ part = "again" /\ Again!Next /\ UNCHANGED <<part, coded>>
    \/ part = "plain" /\ Plain!Next /\ UNCHANGED <<part, coded>>
    \/ part = "trees" /\ Code!Next /\ UNCHANGED <<part, vars>>
PeopleSpec == PeopleInit /\ [][PeopleNext]_<<part, vars, coded>>

\* Code goes from Attempt to Attempt, and into what is integrated, complete and with consent (CodeWorkspaces).
CodeHolds == Code!CodeHolds
=============================================================================
