------------------------------ MODULE MCControl ------------------------------
(* What may change the way of a Run: the graph that a model builds for it, its       *)
(* branches, and its process. `part` says which of them a behaviour follows.        *)
EXTENDS MCBranchExploration
CONSTANTS
    Steps, Servers, Adjustments,    \* of ProcessControl: its nodes, its hosts, the budget of adjustments
    MaxControls, MaxAttempts, MaxDrafts, MaxReviews, MaxCrashes
ASSUME AdjustmentsAssumption == Adjustments \in Nat
VARIABLES part, pRun, controls, pPlan, attempts, asks, drafts, reviews, revisions, facts, hosts, crashes,
    draft, operations, failures, finished

Pool == INSTANCE MCPlanGraph
Graph == INSTANCE PlanGraph WITH
    Seeds <- Pool!MCSeeds, KindPool <- Pool!MCKinds, EdgePool <- Pool!MCEdges, BranchPool <- Pool!MCBranches,
    PhasePool <- Pool!MCPhases, Budget <- Pool!MCBudget, Questions <- {"q"}, Criteria <- {},
    FinalGates <- {"command", "q"}, MaxOperations <- 4, MaxRetries <- 1
Process == INSTANCE ProcessControl WITH
    Nodes <- Steps, Hosts <- Servers, Budget <- Adjustments, run <- pRun, plan <- pPlan
process == <<pRun, controls, pPlan, attempts, asks, drafts, reviews, revisions, facts, hosts, crashes>>
graph == <<draft, operations, failures, finished>>
all == <<part, vars, process, graph>>

APlan == CHOOSE p \in Plans : TRUE
ControlInit ==
    /\ part \in {"branches", "process", "graph"}
    /\ Init /\ (part # "branches" => plan = APlan)
    /\ Process!Init
    /\ Graph!Init /\ (part # "graph" => draft = Pool!Chain)
InBranches(A) == part = "branches" /\ A /\ UNCHANGED <<part, process, graph>>
InProcess(A) == part = "process" /\ A /\ UNCHANGED <<part, vars, graph>>
ControlNext ==
    \/ InBranches(Next)
    \/ InProcess(Process!Next)
    \/ part = "graph" /\ Graph!Next /\ UNCHANGED <<part, vars, process>>
ControlSpec ==
    /\ ControlInit /\ [][ControlNext]_all
    /\ WF_all(InBranches(Scheduler \/ \E n \in Nodes : Progress(n)))
    /\ \A h \in Servers : /\ WF_all(InProcess(Process!Discover(h))) /\ WF_all(InProcess(Process!Prepare(h)))
                         /\ WF_all(InProcess(Process!Coordinate(h)))
    /\ \A a \in 1..MaxAttempts : WF_all(InProcess(a \in DOMAIN attempts /\ Process!Interrupt(a)))

\* A Run whose branches failed or were pruned ends, pauses or waits for people, unless it was
\* resumed: a resumption readies the failed node of a pruned branch (BranchExploration).
RunsSettle == part = "branches" => RoutesSettle

\* What changes the process of a Run was reviewed for the plan in force (ProcessControl).
ControlHolds == Process!ControlHolds

\* An automatic pause without work or questions left is taken up or closed (ProcessControl).
Attended == Process!Attended

\* No call of the model breaks a draft, and an accepted one is a plan of the domain when its
\* branches share no node, with its phases in order when it has no conditional edge (PlanGraph).
DraftHolds == Graph!DraftHolds
=============================================================================
