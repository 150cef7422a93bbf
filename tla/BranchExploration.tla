-------------------------- MODULE BranchExploration --------------------------
(* Exploration branches of one Run: readiness over an approved graph, the gates    *)
(* of results, the evaluator's choice between branches, results adopted from an    *)
(* earlier Run, the rework a reviewer asks for, and the static gate analysis that  *)
(* a change of process is admitted by.                                             *)
EXTENDS Naturals, Sequences, FiniteSets

CONSTANTS
    Plans,      \* approved graphs: [kind, deps, branches, auto, human, adopted, phases, code, planner]
    MaxFaults,  \* bound on interruptions, rejections, pauses and restarts
    MaxResumes

ASSUME BranchAssumption ==
    /\ MaxFaults \in Nat /\ MaxResumes \in Nat
    /\ \A p \in Plans : p.adopted \subseteq {n \in DOMAIN p.kind : p.kind[n] \in {"work", "merge"}}

VARIABLES
    plan,       \* the Run's graph; it never changes here
    run,
    node,       \* status of each node
    branch,     \* status of each branch, by its number in the plan
    attempt,    \* status of the latest Attempt of each node
    tries,      \* Attempts of each node
    result,     \* the latest Attempt that succeeded; 0: none
    gate,       \* how far the checks of a verifying node are
    choice,     \* evaluator's artifact: [branch, prunes, compared]
    offered,    \* adopted results that were not submitted yet
    host,       \* scheduler between two transactions: [doing, on, seen], [examined]
    faults, resumes

vars == <<plan, run, node, branch, attempt, tries, result, gate, choice, offered, host, faults, resumes>>
work == <<attempt, tries, result>>
----------------------------------------------------------------------------
Nodes == DOMAIN plan.kind
Branches == DOMAIN plan.branches
OfKind(k) == {n \in Nodes : plan.kind[n] = k}
Path(b) == plan.branches[b].path
Within(b) == {Path(b)[i] : i \in DOMAIN Path(b)}
Endpoint(b) == Path(b)[Len(Path(b))]
Containing(n) == {b \in Branches : n \in Within(b)}
Local(n) == Containing(n) # {}
Pruned(n) == \E b \in Containing(n) : branch[b] = "pruned"
\* exploration edges, dependency edges and merge edges
ForkOf(n) == {plan.branches[b].fork : b \in {c \in Branches : Path(c)[1] = n}}
Deps(n) == plan.deps[n]
Targets(n) == {m \in Nodes : n \in Deps(m) \cup ForkOf(m)}
              \cup {plan.branches[b].merge : b \in {c \in Branches : Endpoint(c) = n}}
In(S) == {n \in Nodes : node[n] \in S}
Gates == plan.auto \cup plan.human
Live == {n \in Nodes : attempt[n] \in {"queued", "running"}}
Idle == [doing |-> "idle", on |-> 0, seen |-> 0, examined |-> {}]
Groups == {<<plan.branches[b].fork, plan.branches[b].merge>> : b \in Branches}
GroupOf(g) == {b \in Branches : <<plan.branches[b].fork, plan.branches[b].merge>> = g}
\* the branches whose ends feed an evaluator
EvaluatorBranches(e) == LET g == CHOOSE x \in Groups : {Endpoint(b) : b \in GroupOf(x)} \subseteq Deps(e) IN GroupOf(g)
Members(e) == UNION {Within(b) : b \in EvaluatorBranches(e)}
----------------------------------------------------------------------------
(* readiness.py: a branch that is stopped for a retry or for people is not over. *)
Stopped(b) == Within(b) \cap In({"stalled", "suspended"}) # {}
BranchFailed(b) == ~Stopped(b) /\ Within(b) \cap In({"failed"}) # {}
BranchTerminal(b) == ~Stopped(b) /\ (BranchFailed(b) \/ node[Endpoint(b)] \in {"completed", "failed"})
ExplorationDone(n) == ForkOf(n) \subseteq In({"completed"})
Incoming(n) == {b \in Branches : plan.branches[b].merge = n}
Endpoints == {Endpoint(b) : b \in Branches}
\* mutant: a failed branch also lets a merge start
FailureAccepted(n, d) ==
    node[d] = "completed" \/ (d \in Endpoints /\ node[d] = "failed") \/ \E b \in Containing(d) : BranchFailed(b)
DependencyMet(n, d) ==
    \/ node[d] = "completed"
    \/ /\ plan.kind[n] = "evaluator"
       /\ (d \in Endpoints /\ node[d] = "failed") \/ \E b \in Containing(d) : BranchFailed(b)
BecomesReady(n) ==
    /\ ExplorationDone(n) /\ ~Pruned(n)
    /\ plan.kind[n] = "evaluator" => \A b \in Incoming(n) : BranchTerminal(b)
    /\ \A d \in Deps(n) : DependencyMet(n, d)
\* what may be queued: a ready node is not asked for its dependencies again
Schedulable(n) == (node[n] = "ready" /\ ExplorationDone(n)) \/ (node[n] = "pending" /\ BecomesReady(n))
Exhausted == LET active == {b \in Branches : branch[b] = "active"} IN active # {} /\ \A b \in active : BranchFailed(b)
----------------------------------------------------------------------------
(* process_gates.py: families of gates, each alternative of which suffices. *)
Minimal(F) == {S \in F : \A T \in F : T \subseteq S => T = S}
And(F, G) == Minimal({S \cup T : S \in F, T \in G})
Or(F, G) == Minimal(F \cup G)
AndAll(S, fam) ==
    LET f[R \in SUBSET S] == IF R = {} THEN {{}} ELSE LET x == CHOOSE y \in R : TRUE IN And(fam[x], f[R \ {x}]) IN f[S]
OrAll(S, fam) == Minimal(UNION {fam[x] : x \in S})

\* the analyzer walks the graph of a plan p from a node back to its roots
Family(p) ==
    LET all == DOMAIN p.kind
        groups == {<<p.branches[b].fork, p.branches[b].merge>> : b \in DOMAIN p.branches}
        ofGroup(g) == {b \in DOMAIN p.branches : <<p.branches[b].fork, p.branches[b].merge>> = g}
        inside(b) == {p.branches[b].path[i] : i \in DOMAIN p.branches[b].path}
        ends(g) == {p.branches[b].path[Len(p.branches[b].path)] : b \in ofGroup(g)}
        evaluates(n) == {g \in groups : p.kind[n] = "evaluator" /\ ends(g) \subseteq p.deps[n]}
        merges(n) == {g \in groups : p.kind[n] = "merge" /\ g[2] = n}
        forks(n) == {p.branches[b].fork : b \in {c \in DOMAIN p.branches : p.branches[c].path[1] = n}}
        fam[x \in {"ready", "completed", "selected"} \X all] ==
            LET n == x[2]
                dependency == [d \in all |-> fam[<<IF evaluates(d) # {} THEN "selected" ELSE "completed", d>>]]
                success == [b \in DOMAIN p.branches |-> AndAll(inside(b), [m \in all |-> fam[<<"completed", m>>]])]
                prefix(b, i) == AndAll({p.branches[b].path[j] : j \in 1..(i - 1)}, [m \in all |-> fam[<<"completed", m>>]])
                terminal == [b \in DOMAIN p.branches |-> Or(success[b],
                    OrAll(DOMAIN p.branches[b].path,
                          [i \in DOMAIN p.branches[b].path |-> And(prefix(b, i), fam[<<"ready", p.branches[b].path[i]>>])]))]
                ordinary == AndAll(forks(n) \cup p.deps[n], dependency)
                mine == CHOOSE g \in evaluates(n) \cup merges(n) : TRUE
                outer == {d \in p.deps[n] : \A b \in ofGroup(mine) : d \notin inside(b)}
            IN CASE x[1] = "ready" /\ evaluates(n) # {} ->
                        And(AndAll(forks(n) \cup outer, dependency), AndAll(ofGroup(mine), terminal))
                 [] x[1] = "ready" /\ merges(n) # {} -> And(ordinary, OrAll(ofGroup(mine), success))
                 [] x[1] = "ready" -> ordinary
                 [] x[1] = "completed" ->
                        IF n \in p.auto \cup p.human THEN And(fam[<<"ready", n>>], {{n}}) ELSE fam[<<"ready", n>>]
                 [] OTHER -> And(fam[<<"completed", n>>], OrAll(ofGroup(mine), success))
    IN fam
Sinks(p) == {n \in DOMAIN p.kind : (\A m \in DOMAIN p.kind : n \notin p.deps[m])
                 /\ \A b \in DOMAIN p.branches : n # p.branches[b].fork /\ n # p.branches[b].path[Len(p.branches[b].path)]}
Proofs == [p \in Plans |-> LET fam == Family(p) IN
    [ready |-> [n \in DOMAIN p.kind |-> fam[<<"ready", n>>]],
     final |-> AndAll(Sinks(p), [n \in DOMAIN p.kind |-> fam[<<"completed", n>>]])]]
Proven(family) == \E alternative \in family : alternative \subseteq In({"completed"})
----------------------------------------------------------------------------
(* The evaluator's selection: what it names when it is made is what it must match *)
(* when it is used.                                                                *)
Viable(b) == Within(b) \subseteq In({"completed"})
\* candidates of branch nodes: the last success, or an adopted result of a completed node
Evidence(e) == {<<n, result[n]>> : n \in {m \in Members(e) :
                  result[m] > 0 \/ (m \in plan.adopted \ offered /\ node[m] = "completed")}}
ActiveOf(e) == {b \in EvaluatorBranches(e) : branch[b] = "active"}
Compared(e) == {x \in Evidence(e) : \E b \in ActiveOf(e) : x[1] \in Within(b)}
ValidSelection(e, c) ==
    /\ c.branch \in ActiveOf(e) /\ Viable(c.branch)
    /\ c.prunes = ActiveOf(e) \ {c.branch}
    /\ c.compared = Compared(e) /\ c.compared # {}
Selections(e) == {[branch |-> b, prunes |-> ActiveOf(e) \ {b}, compared |-> Compared(e)] : b \in {a \in ActiveOf(e) : Viable(a)}}
\* BranchEvaluationContext: the Run, its plan, the attempts and artifacts of the branches
Context(e) == <<run, node, branch, Evidence(e)>>
EvaluationDue == {e \in OfKind("evaluator") : node[e] = "completed" /\ \A b \in EvaluatorBranches(e) : branch[b] = "active"}

Observe(e) ==
    /\ run = "running" /\ host.doing = "idle" /\ e \in EvaluationDue
    /\ host' = [host EXCEPT !.doing = "evaluating", !.on = e, !.seen = Context(e)]
    /\ UNCHANGED <<plan, run, node, branch, work, gate, choice, offered, faults, resumes>>

Select(e) ==
    LET c == choice[e] IN
    /\ branch' = [b \in Branches |-> IF b = c.branch THEN "selected" ELSE IF b \in c.prunes THEN "pruned" ELSE branch[b]]
    /\ node' = [n \in Nodes |-> IF (\E b \in c.prunes : n \in Within(b)) /\ node[n] \in {"pending", "ready"}
                                THEN "pruned" ELSE node[n]]
    /\ UNCHANGED run
\* an evaluation that cannot be recorded fails the Run, unless it is over
Evaluate ==
    LET e == host.on IN
    /\ host.doing = "evaluating"
    /\ host' = [host EXCEPT !.doing = "idle", !.on = 0, !.seen = 0]
    /\ IF host.seen = Context(e) /\ ValidSelection(e, choice[e])
       THEN Select(e)
       ELSE run' = (IF run \in {"running", "paused"} THEN "failed" ELSE run) /\ UNCHANGED <<node, branch>>
    /\ UNCHANGED <<plan, work, gate, choice, offered, faults, resumes>>
----------------------------------------------------------------------------
(* Adopted results: a ready node may take the result of an earlier Run instead of *)
(* an Attempt, when the inputs it would work on are the ones that result had.      *)
Rejected == {r \in OfKind("reviewer") : node[r] = "failed" /\ result[r] > 0}
Offers == {n \in offered : tries[n] = 0 /\ Schedulable(n) /\ n \notin host.examined}
AdoptionDue == ~(plan.planner /\ In({"failed"}) \cap OfKind("reviewer") # {}) /\ Offers # {}

Examine(n) ==
    /\ run = "running" /\ host.doing = "idle" /\ EvaluationDue = {}
    /\ AdoptionDue /\ n \in Offers
    /\ host' = [host EXCEPT !.doing = "adopting", !.on = n, !.seen = <<run, node, branch>>]
    /\ UNCHANGED <<plan, run, node, branch, work, gate, choice, offered, faults, resumes>>

\* running Attempts are interrupted, queued ones cancelled; nodes keep what they had otherwise
Quiet ==
    /\ attempt' = [n \in Nodes |-> CASE attempt[n] = "running" -> "interrupted"
                                     [] attempt[n] = "queued" -> "cancelled" [] OTHER -> attempt[n]]
    /\ UNCHANGED <<tries, result>>
NodesQuiet == [n \in Nodes |-> IF attempt[n] = "running" THEN "failed" ELSE node[n]]
Halt == run' = "paused" /\ Quiet /\ node' = NodesQuiet /\ host' = Idle

AdoptInputsOk == host.seen = <<run, node, branch>>
Adopt ==
    LET n == host.on IN
    /\ host.doing = "adopting"
    /\ \/ \* the inputs are others: the node is left to a Worker
          /\ host' = [host EXCEPT !.doing = "idle", !.on = 0, !.seen = 0, !.examined = @ \cup {n}]
          /\ UNCHANGED <<run, node, work, offered>>
       \/ /\ AdoptInputsOk
          /\ BecomesReady(n)
          /\ host' = [host EXCEPT !.doing = "idle", !.on = 0, !.seen = 0, !.examined = @ \cup {n}]
          /\ node' = [node EXCEPT ![n] = "candidate"] /\ offered' = offered \ {n}
          /\ UNCHANGED <<run, work>>
       \/ \* an adoption whose target changed or is not ready ends the round in a runtime error
          /\ ~(AdoptInputsOk /\ BecomesReady(n)) /\ Halt /\ UNCHANGED offered
    /\ UNCHANGED <<plan, branch, gate, choice, faults, resumes>>
----------------------------------------------------------------------------
(* queue_ready_attempts: what to do with the Run, in this order. *)
Admit ==
    /\ run = "running" /\ host.doing = "idle" /\ EvaluationDue = {} /\ ~AdoptionDue
    /\ LET recovered == [n \in Nodes |-> IF node[n] = "stalled" THEN "pending" ELSE node[n]]
           waits == plan.planner /\ Rejected # {}
           queue == {n \in Nodes \ Live : IF node[n] = "stalled" THEN BecomesReady(n) ELSE Schedulable(n)}
       IN \/ /\ waits
             /\ Live = {} /\ In({"verifying"}) \cap {n \in Nodes : gate[n] = "checking"} = {}
             /\ run' = "paused" /\ node' = recovered /\ UNCHANGED <<branch, work>>
          \/ /\ ~waits /\ Exhausted
             /\ run' = (IF plan.code THEN "paused" ELSE "failed")
             /\ node' = recovered /\ UNCHANGED <<branch, work>>
          \/ /\ ~waits /\ ~Exhausted
             /\ queue # {} \/ In({"stalled"}) # {}
             /\ attempt' = [n \in Nodes |-> IF n \in queue THEN "queued" ELSE attempt[n]]
             /\ tries' = [n \in Nodes |-> IF n \in queue THEN tries[n] + 1 ELSE tries[n]]
             /\ node' = [n \in Nodes |-> IF n \in queue THEN "ready" ELSE recovered[n]]
             /\ UNCHANGED <<run, branch, result>>
    /\ host' = [host EXCEPT !.examined = {}]
    /\ UNCHANGED <<plan, gate, choice, offered, faults, resumes>>

Start(n) ==
    /\ run = "running" /\ host.doing = "idle" /\ attempt[n] = "queued"
    /\ IF node[n] = "ready"
       THEN /\ attempt' = [attempt EXCEPT ![n] = "running"] /\ node' = [node EXCEPT ![n] = "running"]
            /\ UNCHANGED <<run, tries, result, host>>
       ELSE Halt  \* start_queued_attempt refuses: "is not queued and ready"
    /\ UNCHANGED <<plan, branch, gate, choice, offered, faults, resumes>>
----------------------------------------------------------------------------
(* An Attempt ends. *)
Succeed(n) ==
    /\ run \in {"running", "paused"} /\ host.doing = "idle" /\ attempt[n] = "running"
    /\ attempt' = [attempt EXCEPT ![n] = "succeeded"] /\ result' = [result EXCEPT ![n] = tries[n]]
    /\ node' = [node EXCEPT ![n] = "candidate"]
    /\ IF plan.kind[n] = "evaluator"
       THEN \E c \in Selections(n) : choice' = [choice EXCEPT ![n] = c]  \* validate_evaluator_candidate
       ELSE UNCHANGED choice
    /\ UNCHANGED <<plan, run, branch, tries, gate, offered, host, faults, resumes>>

Fault == run = "running" /\ host.doing = "idle" /\ faults < MaxFaults /\ faults' = faults + 1
\* interrupt_attempt, time_out_attempt: in a branch this is the end of that branch only
Interrupt(n) ==
    /\ Fault /\ attempt[n] = "running"
    /\ attempt' = [attempt EXCEPT ![n] = "interrupted"] /\ node' = [node EXCEPT ![n] = "failed"]
    /\ run' = (IF Local(n) THEN run ELSE "paused")
    /\ UNCHANGED <<plan, branch, tries, result, gate, choice, offered, host, resumes>>
\* retry_attempt: a safe retry while there is budget
Stall(n) ==
    /\ Fault /\ attempt[n] = "running"
    /\ attempt' = [attempt EXCEPT ![n] = "failed"] /\ node' = [node EXCEPT ![n] = "stalled"]
    /\ UNCHANGED <<plan, run, branch, tries, result, gate, choice, offered, host, resumes>>
----------------------------------------------------------------------------
(* Gates: automatic checks, then people, then the verdict. *)
Verdict(n) == gate[n] \in {"rejected", "declined", "approved"} \/ (gate[n] = "checked" /\ n \notin plan.human)
Latest(n) == attempt[n] = "succeeded" \/ (n \in plan.adopted \ offered /\ tries[n] = 0)

Accept(n) ==  \* _accept_intermediate
    /\ run \in {"running", "paused"} /\ host.doing = "idle" /\ node[n] = "candidate" /\ n \notin Gates
    /\ node' = [node EXCEPT ![n] = "completed"]
    /\ UNCHANGED <<plan, run, branch, work, gate, choice, offered, host, faults, resumes>>
BeginChecks(n) ==
    /\ run \in {"running", "paused"} /\ host.doing = "idle" /\ node[n] = "candidate" /\ n \in Gates
    /\ node' = [node EXCEPT ![n] = "verifying"]
    /\ gate' = [gate EXCEPT ![n] = IF n \in plan.auto THEN "checking" ELSE "checked"]
    /\ UNCHANGED <<plan, run, branch, work, choice, offered, host, faults, resumes>>
CheckEnds(n) ==
    /\ node[n] = "verifying" /\ gate[n] = "checking" /\ run \in {"running", "paused"}
    /\ \/ gate' = [gate EXCEPT ![n] = "checked"] /\ UNCHANGED faults
       \/ faults < MaxFaults /\ faults' = faults + 1 /\ gate' = [gate EXCEPT ![n] = "rejected"]
    /\ UNCHANGED <<plan, run, node, branch, work, choice, offered, host, resumes>>
Ask(n) ==  \* finish_pending_gate: people are asked once every automatic check has passed
    /\ run = "running" /\ node[n] = "verifying" /\ gate[n] = "checked" /\ n \in plan.human
    /\ gate' = [gate EXCEPT ![n] = "asked"]
    /\ UNCHANGED <<plan, run, node, branch, work, choice, offered, host, faults, resumes>>
Decide(n) ==  \* record_human_decision, of any process
    /\ run = "running" /\ node[n] = "verifying" /\ gate[n] = "asked" /\ Latest(n)
    /\ \/ gate' = [gate EXCEPT ![n] = "approved"] /\ UNCHANGED faults
       \/ faults < MaxFaults /\ faults' = faults + 1 /\ gate' = [gate EXCEPT ![n] = "declined"]
    /\ UNCHANGED <<plan, run, node, branch, work, choice, offered, host, resumes>>

\* mutant: a failed node that was pruned keeps its Run from completing
OthersCompleted(n) == Targets(n) = {} /\ \A m \in Nodes \ {n} : node[m] \in {"completed", "pruned"}
FinalCompletion(n) ==
    /\ Targets(n) = {}
    /\ \A m \in Nodes \ {n} : node[m] \in {"completed", "pruned"} \/ (node[m] = "failed" /\ Pruned(m))
Complete(n) ==  \* _record_completion
    /\ gate[n] \in {"approved", "checked"}
    /\ node' = [node EXCEPT ![n] = "completed"]
    /\ run' = (IF FinalCompletion(n) THEN "completed" ELSE run)
    /\ UNCHANGED <<branch, work, host>>
----------------------------------------------------------------------------
(* A rejected gate: repair, branch failure, or the rework of a reviewed phase. *)
PhaseOf(r) == plan.phases[CHOOSE i \in DOMAIN plan.phases : plan.phases[i].reviewer = r]
Reworked(r) == {n \in PhaseOf(r).rework : ~Pruned(n)}
\* closed under the edges inside the phase
Affected(r) ==
    LET members == PhaseOf(r).nodes
        grow[i \in 0..Cardinality(members)] ==
            IF i = 0 THEN Reworked(r) ELSE grow[i - 1] \cup (members \cap UNION {Targets(n) : n \in grow[i - 1]})
    IN grow[Cardinality(members)]
Reopenable(r) ==
    /\ Reworked(r) # {} /\ r \in Affected(r) /\ Affected(r) \cap Live = {}
    /\ Affected(r) \cap In({"running", "stalled", "suspended"}) = {}
Invalidated(r) == UNION {EvaluatorBranches(e) : e \in Affected(r) \cap OfKind("evaluator")}
Reopen(r) ==
    /\ node' = [n \in Nodes |-> IF n \in Affected(r) THEN "pending" ELSE node[n]]
    /\ branch' = [b \in Branches |-> IF b \in Invalidated(r) THEN "active" ELSE branch[b]]
    /\ UNCHANGED <<run, work, host>>

Reject(n) ==  \* _record_gate_failure
    LET failed == [node EXCEPT ![n] = "failed"] IN
    /\ gate[n] \in {"rejected", "declined"}
    /\ IF plan.kind[n] = "reviewer"
       THEN \/ plan.planner /\ Live # {} /\ node' = failed /\ UNCHANGED <<run, branch, work, host>>
            \/ ~plan.planner /\ Reopenable(n) /\ Reopen(n)
            \/ /\ IF plan.planner THEN TRUE ELSE ~Reopenable(n)
               /\ IF Live = {}
                  THEN run' = "paused" /\ node' = failed /\ UNCHANGED <<branch, work, host>>
                  ELSE ~plan.planner /\ Halt /\ UNCHANGED branch  \* rolled back: converge first
       ELSE /\ node' = (IF plan.code THEN [node EXCEPT ![n] = "ready"] ELSE failed)
            /\ run' = (IF plan.code \/ Local(n) THEN run ELSE "failed")
            /\ UNCHANGED <<branch, work, host>>

Finish(n) ==
    /\ run = "running" /\ node[n] = "verifying" /\ Verdict(n) /\ Latest(n)
    /\ Complete(n) \/ Reject(n)
    /\ gate' = [gate EXCEPT ![n] = IF node'[n] = "verifying" THEN @ ELSE "none"]
    /\ UNCHANGED <<plan, choice, offered, faults, resumes>>
----------------------------------------------------------------------------
(* Pauses, resumption and restarts. *)
Pause ==
    /\ Fault /\ Halt
    /\ UNCHANGED <<plan, branch, gate, choice, offered, resumes>>
\* what was interrupted is retried; a result that failed its Gate refuses the command
Retried == {n \in In({"failed"}) : attempt[n] \in {"cancelled", "failed", "interrupted"}}
Refused == \E n \in In({"failed"}) : attempt[n] = "succeeded"
Resume ==
    /\ run = "paused" /\ ~Refused /\ resumes < MaxResumes
    /\ run' = "running" /\ resumes' = resumes + 1
    /\ node' = [n \in Nodes |-> IF n \in Retried THEN "ready" ELSE node[n]]
    /\ UNCHANGED <<plan, branch, work, gate, choice, offered, host, faults>>
\* the process ends; an automatic check without outcome is not replayed
Restart ==
    /\ run = "running" /\ faults < MaxFaults /\ faults' = faults + 1
    /\ host' = Idle
    /\ gate' = [n \in Nodes |-> IF gate[n] = "checking" THEN "rejected" ELSE gate[n]]
    /\ UNCHANGED <<plan, run, node, branch, work, choice, offered, resumes>>
----------------------------------------------------------------------------
Init ==
    /\ plan \in Plans /\ run = "running"
    /\ node = [n \in Nodes |-> "pending"] /\ branch = [b \in Branches |-> "active"]
    /\ attempt = [n \in Nodes |-> "none"] /\ tries = [n \in Nodes |-> 0] /\ result = [n \in Nodes |-> 0]
    /\ gate = [n \in Nodes |-> "none"] /\ offered = plan.adopted /\ host = Idle
    /\ choice = [n \in Nodes |-> [branch |-> 0, prunes |-> {}, compared |-> {}]]
    /\ faults = 0 /\ resumes = 0

Scheduler ==
    \/ Evaluate \/ Adopt \/ Admit
    \/ \E n \in Nodes : Observe(n) \/ Examine(n) \/ Start(n)
Progress(n) == Succeed(n) \/ Accept(n) \/ BeginChecks(n) \/ CheckEnds(n) \/ Ask(n) \/ Finish(n)
Next ==
    \/ Scheduler \/ Pause \/ Resume \/ Restart
    \/ \E n \in Nodes : Progress(n) \/ Decide(n) \/ Interrupt(n) \/ Stall(n)
Spec == Init /\ [][Next]_vars /\ WF_vars(Scheduler \/ \E n \in Nodes : Progress(n))
----------------------------------------------------------------------------
Waiting == \E n \in Nodes : node[n] = "verifying" /\ gate[n] = "asked"

\* A node starts only when the gates of some alternative that the static analysis of its plan
\* names were passed and still hold, and a Run completes only with those of its final nodes.
RoutesProven ==
    [][/\ \A n \in Nodes : node[n] \in {"pending", "ready"} /\ node'[n] \in {"running", "candidate"}
              => Proven(Proofs[plan].ready[n])
       /\ run' = "completed" => Proven(Proofs[plan].final)']_vars

\* A selection names one branch of a group and prunes the others, and its nodes still hold the
\* results the evaluator compared: rework of any of them takes the selection back.
SelectionHolds ==
    \A e \in OfKind("evaluator") : LET c == choice[e] IN
        (\E b \in EvaluatorBranches(e) : branch[b] # "active") =>
            /\ \A b \in EvaluatorBranches(e) : branch[b] = "selected" <=> b = c.branch
            /\ \A b \in EvaluatorBranches(e) \ {c.branch} : branch[b] = "pruned"
            /\ Viable(c.branch)
            /\ \A x \in Evidence(e) : x[1] \in Within(c.branch) => x \in c.compared

\* Nothing is worked on or completed by a route that is not proven, and nothing stays selected
\* on the ground of results that have changed.
RoutesHold == []SelectionHolds /\ RoutesProven

\* Branches that failed, were pruned or reworked never leave a Run with nothing to do: it ends,
\* pauses or waits for people, unless it was resumed. A resumption readies the failed node of a
\* pruned branch too (run_control.py:456-492), and the Run then outlives its last node.
RoutesSettle == []<>(run # "running" \/ Waiting \/ resumes > 0)

=============================================================================
