------------------------------ MODULE PlanGraph ------------------------------
(* The graph a planning model builds with tool calls: a draft that is edited one   *)
(* call at a time and accepted by finish_plan, and what the domain, the readiness *)
(* of nodes and a frozen process expect of an accepted graph.                      *)
EXTENDS Naturals, Sequences, FiniteSets, Functions, TLC

CONSTANTS
    Seeds,          \* drafts to start from: new ones and those seeded from a process
    KindPool,       \* node key |-> kinds the model may give it
    EdgePool,       \* edges it may add: [source, target, type, branch]
    BranchPool,     \* branches it may set: [key, fork, nodes, merge]
    PhasePool,      \* phases it may set: [key, nodes, reviewer, rework]
    Questions,      \* questions for people, normalized
    Criteria,       \* those the completion criteria ask already
    FinalGates,     \* what the criteria let the final Gate be: "command", a question
    MaxOperations,  \* MAX_PLAN_OPERATIONS
    MaxRetries,     \* MAX_VALIDATION_RETRIES
    Budget          \* exploration budget: [width, depth, attempts]

VARIABLES
    draft,          \* [nodes, edges, branches, phases, gates, final, owners, process]
    operations, failures,
    finished        \* a template was accepted

vars == <<draft, operations, failures, finished>>
----------------------------------------------------------------------------
Keys(d) == DOMAIN d.nodes
OwnerKinds == {"work", "merge", "reviewer"}
BranchNodes(b) == Range(b.nodes)
Members(b) == {b.fork, b.merge} \cup BranchNodes(b)
EdgesOf(d, types) == {e \in d.edges : e.type \in types}
DependenciesOf(d, n) == {e.source : e \in {x \in EdgesOf(d, {"dependency"}) : x.target = n}}
Terminals(d) == Keys(d) \ {e.source : e \in d.edges}
Last(b) == b.nodes[Len(b.nodes)]
Branches(d) == Range(d.branches)
BranchKeys(d) == {b.key : b \in Branches(d)}
GroupOf(d, g) == {b \in Branches(d) : <<b.fork, b.merge>> = g}
Groups(d) == {<<b.fork, b.merge>> : b \in Branches(d)}
\* branch_by_node: of two branches with the node, the later one
BranchWith(d, n) ==
    LET at == {i \in DOMAIN d.branches : n \in BranchNodes(d.branches[i])} IN
    IF at = {} THEN {} ELSE {d.branches[CHOOSE i \in at : \A j \in at : j <= i]}
\* a branch or a phase that is set again keeps its place
Put(seq, x) ==
    IF \E i \in DOMAIN seq : seq[i].key = x.key
    THEN [i \in DOMAIN seq |-> IF seq[i].key = x.key THEN x ELSE seq[i]]
    ELSE Append(seq, x)
Drop(seq, key) == LET Other(x) == x.key # key IN SelectSeq(seq, Other)

\* the edges a branch lives on: from the fork, along its nodes, into the merge
PathOf(b) ==
    {[source |-> b.fork, target |-> b.nodes[1], type |-> "exploration", branch |-> b.key],
     [source |-> Last(b), target |-> b.merge, type |-> "merge", branch |-> b.key]}
    \cup {[source |-> b.nodes[i], target |-> b.nodes[i + 1], type |-> "dependency", branch |-> b.key]
          : i \in 1..Len(b.nodes) - 1}

\* nodes of S from which target is reached inside S
FeedsIn(d, S, target) ==
    {n \in S : \A closed \in SUBSET S :
        (/\ target \in closed
         /\ \A e \in d.edges : e.target \in closed /\ e.source \in S => e.source \in closed)
        => n \in closed}
Acyclic(d) ==
    \A S \in SUBSET Keys(d) \ {{}} :
        \E n \in S : \A e \in d.edges : e.target = n => e.source \notin S
----------------------------------------------------------------------------
(* Tool calls that edit the draft: what each one refuses and changes. *)
AddNode(d, n, kind) == n \notin Keys(d) /\ draft' = [d EXCEPT !.nodes = @ @@ (n :> kind)]

UpdateNode(d, n, kind) ==
    /\ n \in Keys(d)
    /\ d.process /\ n \in Range(d.owners) => kind \in OwnerKinds
    /\ draft' = [d EXCEPT !.nodes[n] = kind]

RemoveNode(d, n) ==
    /\ n \in Keys(d)
    /\ d.process => n \notin Range(d.owners)
    /\ \A b \in Branches(d) : n \notin Members(b)
    /\ \A p \in Range(d.phases) : n \notin p.nodes
    /\ draft' = [d EXCEPT !.nodes = Restrict(@, Keys(d) \ {n}),
                          !.gates = Restrict(@, DOMAIN @ \ {n}),
                          !.edges = {e \in @ : n \notin {e.source, e.target}}]

AddEdge(d, e) ==
    /\ {e.source, e.target} \subseteq Keys(d) /\ e.source # e.target
    /\ e.branch # "none" => e.branch \in BranchKeys(d)
    /\ e.type \in {"exploration", "merge"} => e.branch # "none"
    /\ e \notin d.edges
    /\ e.type = "dependency" =>
         \A x \in EdgesOf(d, {"dependency"}) : <<x.source, x.target>> # <<e.source, e.target>>
    /\ draft' = [d EXCEPT !.edges = @ \cup {e}]
\* an edge named without its branch is found by its ends and type
RemoveEdge(d, e) == e \in d.edges /\ draft' = [d EXCEPT !.edges = @ \ {e}]

SetBranch(d, b) ==
    /\ Members(b) \subseteq Keys(d)
    /\ b.fork # b.merge /\ {b.fork, b.merge} \cap BranchNodes(b) = {}
    /\ draft' = [d EXCEPT !.branches = Put(@, b)]
RemoveBranch(d, k) ==
    /\ k \in BranchKeys(d)
    /\ \A e \in d.edges : e.branch # k
    /\ draft' = [d EXCEPT !.branches = Drop(@, k)]

\* the Reviewer of a phase is its Gate
ReworkSuits(d, p) ==
    p.rework # {} /\ p.rework \subseteq p.nodes /\ \A n \in p.rework : d.nodes[n] \in {"work", "merge"}
SetPhase(d, p) ==
    /\ p.nodes \subseteq Keys(d)
    /\ p.reviewer \in p.nodes /\ d.nodes[p.reviewer] = "reviewer"
    /\ ReworkSuits(d, p)
    /\ draft' = [d EXCEPT !.phases = Put(@, p)]
RemovePhase(d, k) ==
    /\ \E p \in Range(d.phases) : p.key = k
    /\ draft' = [d EXCEPT !.phases = Drop(@, k)]

\* Gates may be set while the plan is new and only moved in a process
SetNodeGate(d, n, ask) ==
    /\ ~d.process /\ n \in Keys(d) /\ d.nodes[n] \in OwnerKinds
    /\ draft' = [d EXCEPT !.gates = (n :> ask) @@ @]
RemoveNodeGate(d, n) ==
    /\ ~d.process /\ n \in DOMAIN d.gates
    /\ draft' = [d EXCEPT !.gates = Restrict(@, DOMAIN @ \ {n})]
SetFinalGate(d, ask) == ~d.process /\ draft' = [d EXCEPT !.final = ask]
MoveProcessGate(d, g, n) ==
    /\ d.process /\ g \in DOMAIN d.owners /\ n \in Keys(d)
    /\ n \notin Range(d.owners)
    /\ d.nodes[n] \in OwnerKinds
    /\ draft' = [d EXCEPT !.owners[g] = n]
----------------------------------------------------------------------------
(* finish_plan: what a draft must satisfy to become a template. *)
HasGate(d, n) ==
    \/ n \in DOMAIN d.gates \/ n \in Range(d.owners)
    \/ n \in Terminals(d) /\ ~d.process /\ d.final # "none"

SinkSuits(d) ==
    \E n \in Keys(d) :
        /\ Terminals(d) = {n} /\ d.nodes[n] \notin {"fork", "evaluator"}
        /\ \A b \in Branches(d) : n \notin BranchNodes(b)
        /\ IF d.process THEN d.owners["final"] = n ELSE n \notin DOMAIN d.gates
QuestionsDiffer(d) ==
    /\ \A n \in DOMAIN d.gates : d.gates[n] \in Questions =>
         /\ d.gates[n] \notin Criteria \cup {d.final}
         /\ \A x \in DOMAIN d.gates \ {n} : d.gates[x] # d.gates[n]
\* mutant: the Gates of the nodes are not looked at
NodesUngated(d) ==
    \A n \in Keys(d) :
        /\ d.nodes[n] = "fork" => \E b \in Branches(d) : b.fork = n
        /\ d.nodes[n] = "merge" => \E b \in Branches(d) : b.merge = n
        /\ d.nodes[n] = "evaluator" =>
             \E g \in Groups(d) : {Last(b) : b \in GroupOf(d, g)} \subseteq DependenciesOf(d, n)
        /\ d.nodes[n] = "reviewer" => DependenciesOf(d, n) # {}
        /\ n \in DOMAIN d.gates => d.nodes[n] \in OwnerKinds
NodesSuit(d) ==
    \A n \in Keys(d) :
        /\ d.nodes[n] = "fork" => \E b \in Branches(d) : b.fork = n
        /\ d.nodes[n] = "merge" => \E b \in Branches(d) : b.merge = n
        /\ d.nodes[n] = "evaluator" =>
             \E g \in Groups(d) : {Last(b) : b \in GroupOf(d, g)} \subseteq DependenciesOf(d, n)
        /\ d.nodes[n] = "reviewer" => DependenciesOf(d, n) # {} /\ HasGate(d, n)
        /\ n \in DOMAIN d.gates => d.nodes[n] \in OwnerKinds
GroupSuits(d, g) ==
    LET group == GroupOf(d, g)
        lasts == {Last(b) : b \in group}
        into == DependenciesOf(d, g[2]) IN
    /\ d.nodes[g[1]] = "fork" /\ d.nodes[g[2]] = "merge"
    /\ Cardinality(group) >= 2
    /\ \A b \in group : PathOf(b) \subseteq d.edges
    \* the first of several evaluators, in the order they were added
    /\ \E n \in into : d.nodes[n] = "evaluator" /\ lasts \subseteq DependenciesOf(d, n)
    /\ into \cap UNION {BranchNodes(b) : b \in group} = {}
EdgesKeepBranches(d) ==
    \A e \in d.edges :
        /\ e.type \in {"exploration", "merge"} => \E b \in Branches(d) : b.key = e.branch /\ e \in PathOf(b)
        /\ \A b \in BranchWith(d, e.source), c \in BranchWith(d, e.target) :
             b.key # c.key => <<b.fork, b.merge>> # <<c.fork, c.merge>>
\* each frozen Gate of a process has an owner of its own
BindingsSuit(d) ==
    \A g, h \in DOMAIN d.owners :
        /\ d.owners[g] \in Keys(d) /\ d.nodes[d.owners[g]] \in OwnerKinds
        /\ g # h => d.owners[g] # d.owners[h]

\* what both finish_plan and the domain ask of phases
PhaseOf(d, n) == CHOOSE i \in DOMAIN d.phases : n \in d.phases[i].nodes
RootsOf(d, p) == {n \in p.nodes : \A e \in d.edges : e.target = n => e.source \notin p.nodes}
PhasesPartition(d) ==
    /\ UNION {p.nodes : p \in Range(d.phases)} = Keys(d)
    /\ \A i, j \in DOMAIN d.phases : i # j => d.phases[i].nodes \cap d.phases[j].nodes = {}
RootsWait(d) ==
    \A i \in 2..Len(d.phases) : \A n \in RootsOf(d, d.phases[i]) :
        d.phases[i - 1].reviewer \in DependenciesOf(d, n)
PhasesSuit(d) ==
    /\ PhasesPartition(d)
    /\ \A p \in Range(d.phases) :
         /\ d.nodes[p.reviewer] = "reviewer" /\ ReworkSuits(d, p)
         /\ FeedsIn(d, p.nodes, p.reviewer) = p.nodes
    /\ \A e \in d.edges :
         LET i == PhaseOf(d, e.source) j == PhaseOf(d, e.target) IN
         i <= j /\ (i < j => e.source = d.phases[i].reviewer)
    /\ RootsWait(d)
WithinBudget(d) ==
    /\ Cardinality(Keys(d)) <= Budget.attempts
    /\ \A g \in Groups(d) : Cardinality(GroupOf(d, g)) <= Budget.width
    /\ \A b \in Branches(d) : Len(b.nodes) <= Budget.depth

Validates(d) ==
    /\ Keys(d) # {} /\ SinkSuits(d) /\ Acyclic(d)
    /\ ~d.process => d.final # "none"
    /\ QuestionsDiffer(d) /\ NodesSuit(d)
    /\ \A g \in Groups(d) : GroupSuits(d, g)
    /\ EdgesKeepBranches(d)
    /\ d.phases # <<>> /\ PhasesSuit(d)
    /\ BindingsSuit(d)
    /\ WithinBudget(d)
----------------------------------------------------------------------------
Init ==
    /\ draft \in Seeds
    /\ operations = 0 /\ failures = 0 /\ finished = FALSE

\* every edit counts, a refused one too; after the last one finish_plan is left
Edit ==
    /\ ~finished /\ failures <= MaxRetries
    /\ operations < MaxOperations
    /\ \/ \E n \in DOMAIN KindPool :
            \/ \E kind \in KindPool[n] : AddNode(draft, n, kind) \/ UpdateNode(draft, n, kind)
            \/ RemoveNode(draft, n)
            \/ \E ask \in {"command"} \cup Questions : SetNodeGate(draft, n, ask)
            \/ RemoveNodeGate(draft, n)
            \/ \E g \in DOMAIN draft.owners : MoveProcessGate(draft, g, n)
       \/ \E e \in EdgePool : AddEdge(draft, e) \/ RemoveEdge(draft, e)
       \/ \E b \in BranchPool : SetBranch(draft, b) \/ RemoveBranch(draft, b.key)
       \/ \E p \in PhasePool : SetPhase(draft, p) \/ RemovePhase(draft, p.key)
       \/ \E ask \in {"none"} \cup FinalGates : SetFinalGate(draft, ask)
    /\ operations' = operations + 1
    /\ UNCHANGED <<failures, finished>>
Refuse ==
    /\ ~finished /\ failures <= MaxRetries /\ operations < MaxOperations
    /\ operations' = operations + 1
    /\ UNCHANGED <<draft, failures, finished>>
Finish ==
    /\ ~finished /\ failures <= MaxRetries
    /\ IF Validates(draft) THEN finished' = TRUE /\ UNCHANGED failures
       ELSE failures' = failures + 1 /\ UNCHANGED finished
    /\ UNCHANGED <<draft, operations>>

Next == Edit \/ Refuse \/ Finish
Spec == Init /\ [][Next]_vars
----------------------------------------------------------------------------
(* What the domain asks of a PlanRevision that is built from the template. *)
NoOverlap(d) == \A b, c \in Branches(d) : b.key # c.key => BranchNodes(b) \cap BranchNodes(c) = {}
Checked(d, n) == HasGate(d, n) \/ n \in Terminals(d)
BranchesValid(d) ==
    /\ \A b \in Branches(d) :
         /\ d.nodes[b.fork] = "fork" /\ d.nodes[b.merge] \in {"evaluator", "merge"}
         /\ PathOf(b) \subseteq d.edges
         /\ \E c \in Branches(d) : c.key # b.key /\ <<c.fork, c.merge>> = <<b.fork, b.merge>>
    /\ EdgesKeepBranches(d)
RevisionValid(d) ==
    /\ \A e \in d.edges : {e.source, e.target} \subseteq Keys(d)
    /\ \A n \in Keys(d) : d.nodes[n] = "reviewer" => DependenciesOf(d, n) # {} /\ Checked(d, n)
    /\ Acyclic(d) /\ BranchesValid(d) /\ PhasesSuit(d)

\* ready_nodes waits for dependency and exploration edges only
Awaited(d, n) ==
    FeedsIn([edges |-> EdgesOf(d, {"dependency", "exploration"})], Keys(d), n)
Barrier(d) ==
    \A i, j \in DOMAIN d.phases : i < j =>
        \A n \in d.phases[j].nodes : d.phases[i].nodes \subseteq Awaited(d, n)
----------------------------------------------------------------------------
(* Properties. *)
\* What is edited stays whole whatever the order of the calls: edges, branches and phases name
\* nodes that exist, and each frozen Gate of a process has an owner of its own that can carry it.
DraftIntact ==
    /\ operations \in 0..MaxOperations /\ failures \in 0..MaxRetries + 1
    /\ \A e \in draft.edges :
         {e.source, e.target} \subseteq Keys(draft) /\ e.branch \in {"none"} \cup BranchKeys(draft)
    /\ \A b \in Branches(draft) : Members(b) \subseteq Keys(draft)
    /\ \A p \in Range(draft.phases) : p.nodes \subseteq Keys(draft)
    /\ DOMAIN draft.gates \subseteq Keys(draft)
    /\ BindingsSuit(draft)

\* finish_plan validates the whole graph: what it accepts can become a draft PlanRevision,
\* when no two branches share a node.
AcceptedIsRevision == finished /\ NoOverlap(draft) => RevisionValid(draft)

\* No phase passes the Gate of the phase before it: a node of a later phase is ready when the
\* whole of each earlier phase is completed, without conditional edges, which readiness does
\* not look at.
PhasesInOrder == finished /\ EdgesOf(draft, {"conditional"}) = {} => Barrier(draft)

\* No call of the model breaks the draft; an accepted draft is a plan of the domain when no two
\* branches share a node, and its phases wait for each other when it has no conditional edge.
DraftHolds == DraftIntact /\ AcceptedIsRevision /\ PhasesInOrder
=============================================================================
