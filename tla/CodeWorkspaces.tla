---------------------------- MODULE CodeWorkspaces ----------------------------
(* The code of one Run: a Git worktree per Attempt, prepared from the Run's pinned *)
(* base and the results of the nodes it needs, captured by the host when the       *)
(* Worker answers, handed off by confirmed handoffs, integrated per selection.     *)
EXTENDS Naturals, Sequences, FiniteSets, Functions, TLC

CONSTANTS
    Plans,          \* [order, kind, needs, branches, phase, clashes, adopted, faults, handoffs, tries]
    Keys,           \* handoff keys a Worker may use
    MaxHead,        \* commits of the user's repository
    MaxIntegrations,
    MaxFaults,      \* failures, rejections, reviewers that write, crashes, pauses
    None

\* what the instance's constants must satisfy
WorkspaceAssumption == {MaxHead, MaxIntegrations, MaxFaults} \cup {p.tries : p \in Plans} \subseteq Nat

\* an approved PlanRevision: no cycle, branches apart from one another between a fork and their
\* evaluator, two at least, a phase that feeds its reviewer, and results to adopt of work of it
PlanRevision(p) ==
    LET nodes == Range(p.order) IN
    /\ DOMAIN p.kind = nodes /\ p.needs \in [nodes -> SUBSET nodes]
    /\ \A S \in SUBSET nodes \ {{}} : \E n \in S : p.needs[n] \cap S = {}
    /\ \A n \in nodes : p.kind[n] = "reviewer" => p.needs[n] # {}
    /\ \A b \in p.branches :
        /\ p.kind[b.evaluator] = "evaluator" /\ b.evidence \subseteq Range(b.nodes)
        /\ \E c \in p.branches \ {b} : c.evaluator = b.evaluator
        /\ \A c \in p.branches \ {b} : Range(b.nodes) \cap Range(c.nodes) = {}
    /\ p.phase.rework \subseteq {n \in p.phase.nodes : p.kind[n] \in {"work", "merge"}}
    /\ DOMAIN p.adopted \subseteq {n \in nodes : p.kind[n] \in {"work", "merge"}}
PlansAssumption == \A p \in Plans : PlanRevision(p)

VARIABLES
    plan, run,
    head, pin,      \* HEAD of the user's workspace, base.json
    completed,      \* nodes
    selected,       \* evaluator |-> its selected branch
    refused,        \* adoptions whose Gate was rejected
    attempts,       \* in order of sequence: [node, status, at, key], "at" the host's step
    tree,           \* Attempt |-> its worktree: [at, merging, conflicts, dirty]
    doc,            \* Attempt |-> [up, deps, next, prepared, result], its document
    file,           \* Attempt |-> handoff key |-> handoff document
    handoffs,       \* confirmed, in order of their events
    request,        \* an integration in progress: what it read
    jobs,           \* selection |-> its integration [tree, doc]
    integrations,   \* recorded: [selection, commit]
    branch,         \* the commit a branch was created at
    faults

state == <<plan, run, completed, selected, refused>>
code == <<attempts, tree, doc, file, handoffs>>
merged == <<request, jobs, integrations, branch>>
vars == <<state, head, pin, code, merged, faults>>
----------------------------------------------------------------------------
(* A commit is its base and the changes it has, by their Attempts and "adopted"     *)
(* ones by their node; "merge" tells the merge commits of an Attempt apart.       *)
PlanNodes == Range(plan.order)
KindOf(n) == plan.kind[n]
Is == 1..Len(attempts)
Of(n) == {i \in Is : attempts[i].node = n}
Status(i) == attempts[i].status
Live(n) == \E i \in Of(n) : Status(i) \in {"pending", "running"}
Greatest(S) == CHOOSE i \in S : \A j \in S : j <= i
Succeeded(n) == {i \in Of(n) : Status(i) = "succeeded"}

Contains(c, d) == d.base = c.base /\ d.has \subseteq c.has
Written(c) == {x \in c.has : x[1] # "merge"}
Author(x) == IF x[1] = "code" THEN attempts[x[2]].node ELSE x[2]
\* changes neither side has seen, in the same lines
Clash(c, d) ==
    \E x \in Written(c) \ d.has, y \in Written(d) \ c.has : {Author(x), Author(y)} \in plan.clashes
Fresh(b) == [at |-> [base |-> b, has |-> {}], merging |-> None, conflicts |-> FALSE, dirty |-> FALSE]

\* _merge_remaining, one durable step at a time: what a crash leaves resumes here
CanMerge(t, d) == ~t.conflicts /\ (d.next <= Len(d.up) \/ d.prepared = None)
MergeStep(t, d, mark) ==
    IF d.next > Len(d.up) THEN <<t, [d EXCEPT !.prepared = t.at]>>
    ELSE IF t.merging # None  \* the index is committed
    THEN <<[t EXCEPT !.at = [@ EXCEPT !.has = @ \cup t.merging.has \cup {<<"merge", mark>>}],
                     !.merging = None], d>>
    ELSE LET source == d.up[d.next] IN
         IF Contains(t.at, source) THEN <<t, [d EXCEPT !.next = @ + 1]>>
         ELSE IF Contains(source, t.at) THEN <<[t EXCEPT !.at = source], d>>  \* fast-forward
         ELSE <<[t EXCEPT !.merging = source, !.conflicts = Clash(t.at, source)], d>>
Merged(t, d) == ~t.conflicts /\ d.next > Len(d.up) /\ d.prepared # None
----------------------------------------------------------------------------
(* Which commits a node starts from. *)
Evaluators == {n \in PlanNodes : KindOf(n) = "evaluator"}
BranchOf(n) == {b \in plan.branches : n \in Range(b.nodes)}
Chosen(b) == selected[b.evaluator] = b
Pruned(n) == \E b \in BranchOf(n) : selected[b.evaluator] \notin {None, b}
Excluded(n) == \E b \in BranchOf(n) : ~Chosen(b)
\* an Evaluator stands for the evidence of the branch it selected
SourcesOf(n) ==
    IF KindOf(n) = "merge"
    THEN (plan.needs[n] \ Evaluators)
         \cup UNION {Range(b.nodes) : b \in {x \in plan.branches : x.merge = n /\ Chosen(x)}}
    ELSE UNION {IF s \in Evaluators
                THEN UNION {b.evidence : b \in {x \in plan.branches : x.evaluator = s /\ Chosen(x)}}
                ELSE {s} : s \in plan.needs[n]}
Adopted(n) == n \in DOMAIN plan.adopted
CommitOf(n) ==
    IF Succeeded(n) # {} THEN doc[Greatest(Succeeded(n))].result ELSE plan.adopted[n].commit
AddOnce(seq, c) == IF c \in Range(seq) THEN seq ELSE Append(seq, c)
DependencyCommits(n) ==
    LET upTo[i \in 0..Len(plan.order)] ==
            IF i = 0 THEN <<>>
            ELSE IF plan.order[i] \in SourcesOf(n) THEN AddOnce(upTo[i - 1], CommitOf(plan.order[i]))
            ELSE upTo[i - 1]
    IN IF KindOf(n) = "evaluator" THEN <<>> ELSE upTo[Len(plan.order)]
AdoptedRework(n) ==
    IF /\ Adopted(n) /\ KindOf(n) \in {"work", "merge"}
       /\ plan.adopted[n].deps = DependencyCommits(n) /\ plan.adopted[n].commit.base = pin
    THEN <<plan.adopted[n].commit>>
    ELSE DependencyCommits(n)
\* the newest confirmed handoff of a stopped Attempt, given the same inputs
Compatible(n, after) ==
    {h \in DOMAIN handoffs :
        LET i == handoffs[h].attempt IN
        /\ i \in Of(n) /\ i > after /\ Status(i) \in {"failed", "cancelled"}
        /\ handoffs[h].deps = DependencyCommits(n)}
PreviousAny(n) ==  \* a mutant: whatever became of the Attempt
    LET S == {i \in Of(n) : doc[i] # None /\ doc[i].result # None} IN IF S = {} THEN 0 ELSE Greatest(S)
Previous(n) == IF Succeeded(n) = {} THEN 0 ELSE Greatest(Succeeded(n))
UpstreamCommits(n) ==
    IF KindOf(n) = "evaluator" THEN <<>>
    ELSE IF KindOf(n) = "reviewer" THEN DependencyCommits(n)
    ELSE IF Compatible(n, Previous(n)) # {}
    THEN <<handoffs[Greatest(Compatible(n, Previous(n)))].commit>>
    ELSE IF Previous(n) = 0 THEN AdoptedRework(n)
    ELSE IF doc[Previous(n)].deps = DependencyCommits(n) THEN <<doc[Previous(n)].result>>
    ELSE DependencyCommits(n)
----------------------------------------------------------------------------
(* An Attempt from its queue to the Worker. *)
Ready(n) == n \notin completed /\ ~Pruned(n) /\ ~Live(n) /\ plan.needs[n] \subseteq completed
AdoptionApplies(n) ==
    /\ Adopted(n) /\ n \notin refused /\ Of(n) = {}
    /\ plan.adopted[n].commit.base = (IF pin = None THEN head ELSE pin)
    /\ plan.adopted[n].deps = DependencyCommits(n)
Set(i, values) == attempts' = [attempts EXCEPT ![i] = values @@ @]
At(i, place) == i \in Is /\ run = "running" /\ attempts[i].at = place
Fault(kind) == kind \in plan.faults /\ faults < MaxFaults /\ faults' = faults + 1
\* a scheduler error, a person's pause: what runs is drained, then interrupted
Drained == \A i \in Is : attempts[i].at \in {"queued", "work", "done"}
Ended(status) == IF status \in {"pending", "running"} THEN "cancelled" ELSE status
Halt(except) ==
    /\ \A i \in Is \ {except} : attempts[i].at \in {"queued", "work", "done"}
    /\ run' = "paused"
    /\ attempts' = [i \in Is |-> [attempts[i] EXCEPT !.status = Ended(@), !.at = "done"]]

AdoptResult(n) ==
    /\ run = "running" /\ Ready(n) /\ AdoptionApplies(n)
    /\ pin' = IF pin = None THEN head ELSE pin
    /\ \/ completed' = completed \cup {n} /\ UNCHANGED <<refused, faults>>
       \/ Fault("reject") /\ refused' = refused \cup {n} /\ UNCHANGED completed
    /\ UNCHANGED <<plan, run, selected, head, code, merged>>

QueueAttempt(n) ==
    /\ run = "running" /\ Ready(n) /\ ~AdoptionApplies(n) /\ Len(attempts) < plan.tries
    /\ attempts' = Append(attempts, [node |-> n, status |-> "pending", at |-> "queued", key |-> None])
    /\ UNCHANGED <<state, head, pin, tree, doc, file, handoffs, merged, faults>>

Allocate(i) ==
    /\ At(i, "queued")
    /\ IF tree[i] = None
       THEN /\ Set(i, [at |-> "start", status |-> "running"])
            /\ tree' = [tree EXCEPT ![i] = Fresh(head)]
            /\ UNCHANGED run
       ELSE Halt(i) /\ UNCHANGED tree  \* a crash left the path without a lease
    /\ UNCHANGED <<plan, completed, selected, refused, head, pin, doc, file, handoffs, merged, faults>>
\* another Attempt may pin the base between the look and the pin
FindNoBase(i) ==
    /\ At(i, "start") /\ pin = None
    /\ Set(i, [at |-> "pin"])
    /\ UNCHANGED <<state, head, pin, tree, doc, file, handoffs, merged, faults>>
PrepareWorktree(i) ==
    LET n == attempts[i].node IN
    /\ doc' = [doc EXCEPT ![i] = [up |-> UpstreamCommits(n), deps |-> DependencyCommits(n),
                                  next |-> 1, prepared |-> None, result |-> None]]
    /\ tree' = [tree EXCEPT ![i] = Fresh(pin')]
    /\ Set(i, [at |-> "merge"])
PinRunBase(i) ==
    /\ At(i, "pin")
    /\ pin' = IF pin = None THEN head ELSE pin
    /\ IF pin' = head THEN PrepareWorktree(i)
       ELSE Set(i, [at |-> "done", status |-> "failed"]) /\ UNCHANGED <<tree, doc>>
    /\ UNCHANGED <<state, head, file, handoffs, merged, faults>>
LoadRunBase(i) ==
    /\ At(i, "start") /\ pin # None /\ UNCHANGED pin
    /\ PrepareWorktree(i)
    /\ UNCHANGED <<state, head, file, handoffs, merged, faults>>

\* preparation, and every capture first
MergeRemaining(i) ==
    /\ i \in Is /\ run = "running" /\ attempts[i].at \in {"merge", "capture", "handoff"}
    /\ CanMerge(tree[i], doc[i])
    /\ LET step == MergeStep(tree[i], doc[i], i) IN
       tree' = [tree EXCEPT ![i] = step[1]] /\ doc' = [doc EXCEPT ![i] = step[2]]
    /\ UNCHANGED <<state, head, pin, attempts, file, handoffs, merged, faults>>
StartWorker(i) ==
    /\ At(i, "merge") /\ ~CanMerge(tree[i], doc[i])
    /\ Set(i, IF KindOf(attempts[i].node) = "reviewer" /\ tree[i].conflicts
              THEN [at |-> "done", status |-> "failed"]  \* blocked: a person is asked
              ELSE [at |-> "work"])
    /\ UNCHANGED <<state, head, pin, tree, doc, file, handoffs, merged, faults>>
----------------------------------------------------------------------------
(* The Worker, its handoffs and its candidate. *)
Write(i) ==
    /\ At(i, "work") /\ ~tree[i].dirty
    /\ CASE KindOf(attempts[i].node) = "evaluator" -> FALSE
         [] KindOf(attempts[i].node) = "reviewer" -> Fault("write")
         [] OTHER -> UNCHANGED faults
    /\ tree' = [tree EXCEPT ![i].dirty = TRUE]
    /\ UNCHANGED <<state, head, pin, attempts, doc, file, handoffs, merged>>
Resolve(i) ==  \* the conflict is resolved and staged
    /\ At(i, "work") /\ tree[i].conflicts
    /\ tree' = [tree EXCEPT ![i].conflicts = FALSE]
    /\ UNCHANGED <<state, head, pin, attempts, doc, file, handoffs, merged, faults>>
SubmitHandoff(i, k) ==
    /\ At(i, "work") /\ KindOf(attempts[i].node) \in {"work", "merge"}
    /\ Len(handoffs) < plan.handoffs
    /\ \A h \in DOMAIN handoffs : <<handoffs[h].attempt, handoffs[h].key>> # <<i, k>>
    /\ Set(i, [at |-> IF file[i][k] = None THEN "handoff" ELSE "confirm", key |-> k])
    /\ UNCHANGED <<state, head, pin, tree, doc, file, handoffs, merged, faults>>
Candidate(i) ==  \* of work that was done, but for what a fault leaves out
    /\ At(i, "work")
    /\ KindOf(attempts[i].node) \in {"work", "merge"} => tree[i].dirty \/ <<"code", i>> \in tree[i].at.has
    /\ IF tree[i].conflicts THEN Fault("conflict") ELSE UNCHANGED faults
    /\ Set(i, [at |-> IF KindOf(attempts[i].node) = "evaluator" \/ doc[i].result # None
                      THEN "captured" ELSE "capture"])
    /\ UNCHANGED <<state, head, pin, tree, doc, file, handoffs, merged>>

\* add --all and commit; a crash before the document is written captures again
CommitSnapshot(i) ==
    /\ i \in Is /\ run = "running" /\ attempts[i].at \in {"capture", "handoff"}
    /\ Merged(tree[i], doc[i]) /\ tree[i].dirty
    /\ tree' = [tree EXCEPT ![i].at.has = @ \cup {<<"code", i>>}, ![i].dirty = FALSE]
    /\ UNCHANGED <<state, head, pin, attempts, doc, file, handoffs, merged, faults>>
CaptureResult(i) ==
    /\ At(i, "capture") /\ Merged(tree[i], doc[i]) /\ ~tree[i].dirty
    /\ doc' = [doc EXCEPT ![i].result = tree[i].at]
    /\ Set(i, [at |-> "captured"])
    /\ UNCHANGED <<state, head, pin, tree, file, handoffs, merged, faults>>
CaptureHandoff(i) ==
    /\ At(i, "handoff") /\ Merged(tree[i], doc[i]) /\ ~tree[i].dirty
    /\ file' = [file EXCEPT ![i][attempts[i].key] = [commit |-> tree[i].at, deps |-> doc[i].deps]]
    /\ Set(i, [at |-> "confirm"])
    /\ UNCHANGED <<state, head, pin, tree, doc, handoffs, merged, faults>>
ConfirmHandoff(i) ==
    /\ At(i, "confirm") /\ Status(i) = "running"
    /\ LET k == attempts[i].key IN
       handoffs' = Append(handoffs, [attempt |-> i, key |-> k] @@ file[i][k])
    /\ Set(i, [at |-> "work", key |-> None])
    /\ UNCHANGED <<state, head, pin, tree, doc, file, merged, faults>>
\* conflicts that remain: the tool call is refused, a candidate stops the scheduler
RefuseConflicts(i) ==
    /\ i \in Is /\ run = "running" /\ attempts[i].at \in {"capture", "handoff"} /\ tree[i].conflicts
    /\ IF attempts[i].at = "handoff" THEN Set(i, [at |-> "work", key |-> None]) /\ UNCHANGED run
       ELSE Halt(i)
    /\ UNCHANGED <<plan, completed, selected, refused, head, pin, tree, doc, file, handoffs, merged, faults>>

Reopened ==
    LET grow[k \in 0..Cardinality(PlanNodes)] ==
            IF k = 0 THEN {n \in plan.phase.rework : ~Pruned(n)}
            ELSE grow[k - 1] \cup {n \in plan.phase.nodes : plan.needs[n] \cap grow[k - 1] # {}}
    IN grow[Cardinality(PlanNodes)]
ReadOnly(i) == doc[i].result = doc[i].prepared
Accept(i) ==
    LET n == attempts[i].node IN
    /\ At(i, "captured")
    /\ IF KindOf(n) = "reviewer" /\ ~ReadOnly(i)
       THEN Halt(i) /\ UNCHANGED <<completed, selected, faults>>
       ELSE /\ Set(i, [at |-> "done", status |-> "succeeded"])
            /\ \/ /\ completed' = completed \cup {n}
                  /\ IF n \in Evaluators
                     THEN \E b \in {x \in plan.branches : x.evaluator = n} :
                              selected' = [selected EXCEPT ![n] = b]
                     ELSE UNCHANGED selected
                  /\ run' = IF \A m \in PlanNodes \ completed' : \E b \in BranchOf(m) : selected'[b.evaluator] # b
                            THEN "completed" ELSE run
                  /\ UNCHANGED faults
               \* the Gate rejects it: the node again, or the phase of its reviewer
               \/ /\ Fault("reject")
                  /\ IF KindOf(n) = "reviewer"
                     THEN /\ \A m \in Reopened \ {n} : ~Live(m)
                          /\ completed' = completed \ Reopened
                          /\ selected' = [e \in DOMAIN selected |-> IF e \in Reopened THEN None ELSE selected[e]]
                     ELSE UNCHANGED <<completed, selected>>
                  /\ UNCHANGED run
    /\ UNCHANGED <<plan, refused, head, pin, tree, doc, file, handoffs, merged>>
----------------------------------------------------------------------------
(* Failures, restarts, the user's own commits. *)
Stop(i) ==  \* a failure, a timeout, a cancellation
    /\ At(i, "work") /\ Fault("stop")
    /\ Set(i, [at |-> "done", status |-> "failed"])
    /\ UNCHANGED <<state, head, pin, tree, doc, file, handoffs, merged>>
Pause ==
    /\ run = "running" /\ Halt(0)
    /\ IF \E n \in PlanNodes : Live(n) THEN Fault("pause") ELSE UNCHANGED faults
    /\ UNCHANGED <<plan, completed, selected, refused, head, pin, tree, doc, file, handoffs, merged>>
Resume ==
    /\ run = "paused" /\ run' = "running"
    /\ UNCHANGED <<plan, completed, selected, refused, head, pin, code, merged, faults>>
\* an execution that was never bound is retried; a bound one is recovered or lost (the captures
\* of an orderly close, code.py:1033, are left out)
Crash ==
    /\ Fault("crash") /\ \E i \in Is : attempts[i].at \notin {"done", "work"}
    /\ \E lost \in SUBSET {i \in Is : Status(i) = "running"} :
        /\ {i \in Is : attempts[i].at \in {"start", "pin", "merge"}} \subseteq lost
        /\ attempts' = [i \in Is |->
            CASE Status(i) = "pending" -> [attempts[i] EXCEPT !.at = "queued"]
              [] i \in lost -> [attempts[i] EXCEPT !.at = "done", !.status = "failed", !.key = None]
              [] Status(i) = "running" -> [attempts[i] EXCEPT !.at = "work", !.key = None]
              [] OTHER -> attempts[i]]
    /\ \E orphan \in SUBSET {i \in Is : Status(i) = "pending"} :
        tree' = [i \in DOMAIN tree |-> IF i \in orphan THEN Fresh(head) ELSE tree[i]]
    /\ request' = None
    /\ UNCHANGED <<state, head, pin, doc, file, handoffs, jobs, integrations, branch>>
UserCommit ==  \* once the base is pinned, no Attempt looks at HEAD
    /\ pin = None \/ \E i \in Is : attempts[i].at = "pin"
    /\ head < MaxHead /\ head' = head + 1
    /\ UNCHANGED <<state, pin, code, merged, faults>>
----------------------------------------------------------------------------
(* Integration of what is selected, and its branch. *)
InputsOf(n) == Range(IF Succeeded(n) # {} THEN doc[Greatest(Succeeded(n))].deps ELSE plan.adopted[n].deps)
Selection == [n \in (completed \ Evaluators) \ {m \in PlanNodes : Excluded(m)} |-> CommitOf(n)]
InputsSelected(s) == \A n \in DOMAIN s : InputsOf(n) \subseteq Range(s)
Seen == <<run, completed, selected, [i \in Is |-> Status(i)]>>
InOrder(s) ==
    LET upTo[i \in 0..Len(plan.order)] ==
            IF i = 0 THEN <<>>
            ELSE IF plan.order[i] \in DOMAIN s THEN AddOnce(upTo[i - 1], s[plan.order[i]])
            ELSE upTo[i - 1]
    IN upTo[Len(plan.order)]

ReadSelection ==
    /\ request = None /\ run \in {"paused", "completed"} /\ Drained /\ completed # {}
    /\ ~\E i \in Is : Status(i) \in {"pending", "running"}
    /\ InputsSelected(Selection)
    /\ Selection \in DOMAIN jobs \/ Cardinality(DOMAIN jobs) < MaxIntegrations
    /\ request' = [selection |-> Selection, seen |-> Seen]
    /\ UNCHANGED <<state, head, pin, code, jobs, integrations, branch, faults>>
IntegrateResults ==
    /\ request # None
    /\ LET s == request.selection IN
       IF s \in DOMAIN jobs
       THEN /\ CanMerge(jobs[s].tree, jobs[s].doc)
            /\ LET step == MergeStep(jobs[s].tree, jobs[s].doc, 0) IN
               jobs' = [jobs EXCEPT ![s] = [tree |-> step[1], doc |-> step[2]]]
       ELSE jobs' = jobs @@ (s :> [tree |-> Fresh(pin),
                                   doc |-> [up |-> InOrder(s), next |-> 1, prepared |-> None]])
    /\ UNCHANGED <<state, head, pin, code, request, integrations, branch, faults>>
RecordIntegration ==
    /\ request # None /\ request.selection \in DOMAIN jobs
    /\ LET s == request.selection IN
       /\ ~CanMerge(jobs[s].tree, jobs[s].doc)
       /\ IF request.seen = Seen
          THEN integrations' = AddOnce(integrations,
                   [selection |-> s, commit |-> IF jobs[s].tree.conflicts THEN None ELSE jobs[s].tree.at])
          ELSE UNCHANGED integrations
    /\ request' = None
    /\ UNCHANGED <<state, head, pin, code, jobs, branch, faults>>
RepairIntegration ==  \* by a person, in the retained worktree
    /\ request = None
    /\ \E s \in DOMAIN jobs : jobs[s].tree.conflicts /\ jobs' = [jobs EXCEPT ![s].tree.conflicts = FALSE]
    /\ UNCHANGED <<state, head, pin, code, request, integrations, branch, faults>>
CreateBranch ==
    /\ branch = None
    /\ \E k \in DOMAIN integrations :
        /\ integrations[k].commit # None
        /\ branch' = integrations[k].commit
    /\ UNCHANGED <<state, head, pin, code, request, jobs, integrations, faults>>
----------------------------------------------------------------------------
Init ==
    /\ plan \in Plans /\ run = "running"
    /\ head = 1 /\ pin = None
    /\ completed = {} /\ refused = {}
    /\ selected = [e \in {n \in Range(plan.order) : plan.kind[n] = "evaluator"} |-> None]
    /\ attempts = <<>>
    /\ tree = [i \in 1..plan.tries |-> None] /\ doc = [i \in 1..plan.tries |-> None]
    /\ file = [i \in 1..plan.tries |-> [k \in Keys |-> None]] /\ handoffs = <<>>
    /\ request = None /\ jobs = <<>> /\ integrations = <<>> /\ branch = None
    /\ faults = 0

Next ==
    \/ \E n \in PlanNodes : AdoptResult(n) \/ QueueAttempt(n)
    \/ \E i \in 1..plan.tries :
        \/ Allocate(i) \/ FindNoBase(i) \/ PinRunBase(i) \/ LoadRunBase(i)
        \/ MergeRemaining(i) \/ StartWorker(i)
        \/ Write(i) \/ Resolve(i) \/ Candidate(i) \/ \E k \in Keys : SubmitHandoff(i, k)
        \/ CommitSnapshot(i) \/ CaptureResult(i) \/ CaptureHandoff(i) \/ ConfirmHandoff(i)
        \/ RefuseConflicts(i) \/ Accept(i) \/ Stop(i)
    \/ Pause \/ Resume \/ Crash \/ UserCommit
    \/ ReadSelection \/ IntegrateResults \/ RecordIntegration \/ RepairIntegration \/ CreateBranch

Spec == Init /\ [][Next]_vars
----------------------------------------------------------------------------
Results == {i \in Is : doc[i] # None /\ doc[i].result # None}
\* Code reaches another Attempt only through a result its node submitted or a handoff
\* the host confirmed: what a stopped, failed or read-only Attempt left in its worktree
\* is in no result but its own (P2_EXECUTION_CONTRACT), over crashes in any step.
HandedOver ==
    \A i \in Results : \A x \in Written(doc[i].result) :
        \/ x[1] = "adopted" \/ x[2] = i
        \/ Status(x[2]) = "succeeded"
        \/ \E h \in DOMAIN handoffs : handoffs[h].attempt = x[2]

\* A result has all the code it was prepared from: each commit of its dependency
\* baseline, whether its Attempt began from them, from a handoff or from an earlier
\* result, and wherever a crash cut the merges.
InputsPresent ==
    \A i \in Results :
        \A k \in DOMAIN doc[i].deps : Contains(doc[i].result, doc[i].deps[k])

\* What is integrated has, of every node, exactly what that node's selected result has:
\* no pruned branch, no code of a superseded result, though results are reworked while
\* nodes outside the phase keep what they had built on.
NothingSuperseded ==
    \A k \in DOMAIN integrations :
        LET e == integrations[k] IN
        e.commit # None =>
            \A n \in PlanNodes : \A x \in Written(e.commit) :
                Author(x) = n => n \in DOMAIN e.selection /\ x \in e.selection[n].has

\* A handoff is what a Worker of its own submitted under a key, once, on the inputs it was given.
HandoffSubmission(h) ==
    /\ h.key \in Keys /\ KindOf(attempts[h.attempt].node) \in {"work", "merge"}
    /\ h.deps = doc[h.attempt].deps /\ \A k \in DOMAIN h.deps : Contains(h.commit, h.deps[k])
HandoffsKept ==
    /\ \A h \in DOMAIN handoffs : HandoffSubmission(handoffs[h])
    /\ \A g, h \in DOMAIN handoffs :
        handoffs[g].attempt = handoffs[h].attempt /\ handoffs[g].key = handoffs[h].key => g = h

\* Code goes from Attempt to Attempt, and into what is integrated, complete and with consent.
CodeHolds == HandedOver /\ InputsPresent /\ NothingSuperseded /\ HandoffsKept
=============================================================================
