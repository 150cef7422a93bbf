---------------------------- MODULE GoalPlanning ----------------------------
(* The plans of one Goal: proposals, discussions and replanning that call a    *)
(* model between two transactions, the approval of a plan with its completion  *)
(* contract, and the Runs that execute approved plans and succeed one another. *)
EXTENDS Naturals, Sequences, FiniteSets

CONSTANTS
    Requests,       \* threads of the server that may serve a planning command
    Keys,           \* idempotency keys of the planning commands
    Conversations,
    Capacity,       \* planner_capacity of the host
    MaxPlans, MaxRuns, MaxPauses, MaxProcess, MaxTurns, MaxCrashes

ASSUME PlanningAssumption ==
    /\ Capacity \in Nat \ {0}
    /\ {MaxPlans, MaxRuns, MaxPauses, MaxProcess, MaxTurns, MaxCrashes} \subseteq Nat
    /\ "none" \notin Keys

VARIABLES
    goal,       \* [contract: version in use or 0, satisfied]
    confirmed,  \* versions of completion contracts confirmed by the user
    plans,      \* PlanRevisions by version: [status, contract, base, key, cover]
    runs,       \* Runs by age: [plan, pred, status, active, open, pauses, process]
    turns,      \* planning turns by age: [conv, source, key, status]
    calls,      \* what the threads are doing
    receipts,   \* keys with a recorded result
    crashes

vars == <<goal, confirmed, plans, runs, turns, calls, receipts, crashes>>
----------------------------------------------------------------------------
NoCover == [run |-> 0, process |-> 0, pending |-> {}]
Idle == [kind |-> "idle"]
Asking == {q \in Requests : calls[q].kind # "idle"}
Admitted == {q \in Asking : calls[q].kind # "import"}
GoalView == [contract |-> goal.contract, satisfied |-> goal.satisfied,
             confirmed |-> goal.contract \in confirmed]
Runs == DOMAIN runs
Live(r) == runs[r].status \in {"pending", "running", "paused"}
NoActiveRuns == \A r \in Runs : ~Live(r)
HasSuccessor(r) == \E s \in Runs : runs[s].pred = r
Aligned(r) == goal.contract \in confirmed /\ goal.contract = plans[runs[r].plan].contract
Current(r) == Aligned(r) /\ ~HasSuccessor(r)

\* a contract the Goal may take: its first, the one it has, or the next version
MayUse(g, v) == ~g.satisfied /\ (v = g.contract \/ v = g.contract + 1)

\* a revision with a contract of its own, both with the next version after their bases
Draft(base, contract, key) ==
    [status |-> "draft", contract |-> contract, base |-> base, key |-> key, cover |-> NoCover]
\* mutant: a version that is taken is given again
VersionUnchecked(base, contract) == TRUE
\* put_completion_contract, put_plan_revision: a version of the Goal is taken once
VersionFree(base, contract) ==
    /\ base = Len(plans)
    /\ \A p \in DOMAIN plans : plans[p].contract # contract
PutDraft(base, contract, key) ==
    /\ VersionFree(base, contract)
    /\ plans' = Append(plans, Draft(base, contract, key))

\* slot: a planning command is admitted while the host has capacity
Admit(q, call) ==
    /\ calls[q] = Idle
    /\ Len(plans) < MaxPlans
    /\ call.kind # "import" => Cardinality(Admitted) < Capacity
    /\ calls' = [calls EXCEPT ![q] = call]
Leave(q) == calls' = [calls EXCEPT ![q] = Idle]
----------------------------------------------------------------------------
(* The first plan: the model, or a file to import. *)
BeginProposal(q, k, kind) ==
    /\ k \notin receipts
    /\ NoActiveRuns
    /\ Admit(q, [kind |-> kind, key |-> k, goal |-> GoalView])
    /\ UNCHANGED <<goal, confirmed, plans, runs, turns, receipts, crashes>>

\* the proposal has the first version of a contract, which must suit the Goal that was read
EndProposal(q) ==
    LET c == calls[q] IN
    /\ c.kind \in {"propose", "import"}
    /\ c.key \notin receipts
    /\ NoActiveRuns
    /\ GoalView = c.goal
    /\ c.goal.contract = 0 /\ MayUse(goal, 1)
    /\ PutDraft(0, 1, c.key)
    /\ goal' = [goal EXCEPT !.contract = 1]
    /\ receipts' = receipts \cup {c.key}
    /\ Leave(q)
    /\ UNCHANGED <<confirmed, runs, turns, crashes>>

\* an invalid answer, or a fact that changed meanwhile: nothing is stored
AbandonProposal(q) ==
    /\ calls[q].kind \in {"propose", "import", "replan"}
    /\ Leave(q)
    /\ UNCHANGED <<goal, confirmed, plans, runs, turns, receipts, crashes>>
----------------------------------------------------------------------------
(* Discussions: the turn and the receipt are stored before the model is asked. *)
TurnsOf(v) == {t \in DOMAIN turns : turns[t].conv = v}
\* a conversation stays with its source Run and has one open turn at a time
MayTalk(v, source) ==
    /\ \A t \in TurnsOf(v) : turns[t].status # "running" /\ turns[t].source \in {0, source}
    /\ source = 0 => \A t \in TurnsOf(v) : turns[t].source = 0

NoOtherActiveRuns(r) ==
    \A s \in Runs \ {r} : runs[s].status \notin {"pending", "running"} /\ ~runs[s].active

\* the source is a drained, paused Run that owns the Goal's effective approval,
\* and the latest draft descends from that approval
SourceReady(r) ==
    /\ runs[r].status = "paused" /\ ~runs[r].active
    /\ Aligned(r)
    /\ NoOtherActiveRuns(r)
    /\ \A p \in runs[r].plan + 1 .. Len(plans) : plans[p].status = "draft" /\ plans[p].base = p - 1

\* what a discussion reads before the model is asked and compares afterwards
Observed(source) ==
    [goal |-> GoalView, base |-> Len(plans),
     plan |-> IF plans = <<>> THEN "none" ELSE plans[Len(plans)].status,
     run |-> IF source = 0 THEN Idle ELSE runs[source]]
Discussable(source) == IF source = 0 THEN NoActiveRuns ELSE SourceReady(source)

BeginDiscussion(q, k, v, source) ==
    /\ k \notin receipts
    /\ ~goal.satisfied
    /\ Len(turns) < MaxTurns
    /\ MayTalk(v, source)
    /\ Discussable(source)
    /\ Admit(q, [kind |-> "discuss", key |-> k, source |-> source, turn |-> Len(turns) + 1,
                 seen |-> Observed(source)])
    /\ turns' = Append(turns, [conv |-> v, source |-> source, key |-> k, status |-> "running"])
    /\ receipts' = receipts \cup {k}
    /\ UNCHANGED <<goal, confirmed, plans, runs, crashes>>

Recheck(c) == Discussable(c.source) /\ Observed(c.source) = c.seen
CloseTurn(q, status) ==
    /\ turns' = [turns EXCEPT ![calls[q].turn].status = status]
    /\ Leave(q)

\* a reply without a proposal
EndDiscussion(q) ==
    /\ calls[q].kind = "discuss"
    /\ Recheck(calls[q])
    /\ CloseTurn(q, "completed")
    /\ UNCHANGED <<goal, confirmed, plans, runs, receipts, crashes>>

\* a reply with a proposal: the next version after the base. Without a source Run
\* the Goal takes the new contract, with one the effective approval stays.
Propose(q) ==
    LET c == calls[q]
        base == c.seen.base
        current == IF base = 0 THEN 0
                   ELSE IF c.source = 0 THEN c.seen.goal.contract ELSE plans[base].contract IN
    /\ c.kind = "discuss"
    /\ Recheck(c)
    /\ base > 0 => current = plans[base].contract
    /\ PutDraft(base, current + 1, c.key)
    /\ IF c.source = 0
       THEN MayUse(goal, current + 1) /\ goal' = [goal EXCEPT !.contract = current + 1]
       ELSE UNCHANGED goal
    /\ CloseTurn(q, "completed")
    /\ UNCHANGED <<confirmed, runs, receipts, crashes>>

FailDiscussion(q) ==
    /\ calls[q].kind = "discuss"
    /\ CloseTurn(q, "failed")
    /\ UNCHANGED <<goal, confirmed, plans, runs, receipts, crashes>>
----------------------------------------------------------------------------
(* Replanning an approved base, alone or guided by what one of its Runs met. *)
Later(p) == \E s \in DOMAIN plans : s > p
MayGuide(r) == runs[r].status \in {"paused", "failed", "cancelled"} /\ ~runs[r].active
GuidedByPaused(c) == c.source # 0 /\ c.run.status = "paused"
Replannable(p, source) ==
    /\ source # 0 => runs[source].plan = p /\ MayGuide(source)
    /\ IF source # 0 /\ runs[source].status = "paused" THEN ~Later(p) ELSE NoActiveRuns

BeginReplan(q, k, p, source) ==
    /\ k \notin receipts
    /\ Replannable(p, source)
    /\ Admit(q, [kind |-> "replan", key |-> k, base |-> p, plan |-> plans[p], goal |-> GoalView,
                 source |-> source, run |-> IF source = 0 THEN Idle ELSE runs[source]])
    /\ UNCHANGED <<goal, confirmed, plans, runs, turns, receipts, crashes>>

EndReplan(q) ==
    LET c == calls[q] IN
    /\ c.kind = "replan"
    /\ c.key \notin receipts
    /\ IF GuidedByPaused(c) THEN ~Later(c.base) ELSE NoActiveRuns
    /\ GoalView = c.goal /\ plans[c.base] = c.plan
    /\ c.source # 0 => runs[c.source] = c.run
    \* require_replan_context: the base is the approval in force
    /\ ~goal.satisfied /\ c.goal.confirmed
    /\ c.plan.status = "approved" /\ c.plan.contract = c.goal.contract
    /\ PutDraft(c.base, c.goal.contract + 1, c.key)
    /\ goal' = IF GuidedByPaused(c) THEN goal ELSE [goal EXCEPT !.contract = c.goal.contract + 1]
    /\ receipts' = receipts \cup {c.key}
    /\ Leave(q)
    /\ UNCHANGED <<confirmed, runs, turns, crashes>>
----------------------------------------------------------------------------
(* Approval and the start of a Run. *)
\* successor_source: a drained predecessor of the plan's direct base, alone in its Goal
SuccessorSource(p, r) ==
    /\ runs[r].status = "paused" /\ ~runs[r].active
    /\ plans[p].base = runs[r].plan
    /\ ~HasSuccessor(r)
    /\ \A s \in Runs \ {r} : runs[s].status \notin {"pending", "running"}
\* every pending request of the predecessor has got a disposition
Cover(r) == [run |-> r, process |-> runs[r].process, pending |-> runs[r].open]

\* a paused Run of another contract would never get its answers any more
Unanswered(r, p, predecessor) ==
    /\ runs[r].status = "paused" /\ ~HasSuccessor(r) /\ r # predecessor
    /\ plans[runs[r].plan].contract # plans[p].contract
    /\ runs[r].open # {}

ApprovePlan(p, predecessor) ==
    /\ plans[p].status = "draft"
    /\ predecessor # 0 => SuccessorSource(p, predecessor)
    /\ \A r \in Runs : runs[r].status \notin {"pending", "running"} /\ ~runs[r].active
    /\ \A r \in Runs : ~Unanswered(r, p, predecessor)
    /\ MayUse(goal, plans[p].contract)
    /\ confirmed' = confirmed \cup {plans[p].contract}
    /\ goal' = [goal EXCEPT !.contract = plans[p].contract]
    /\ plans' = [plans EXCEPT ![p].status = "approved",
                              ![p].cover = IF predecessor = 0 THEN NoCover ELSE Cover(predecessor)]
    /\ UNCHANGED <<runs, turns, calls, receipts, crashes>>

\* prepare_succession: the predecessor is still as the approval has seen it
MaySucceed(p, r) ==
    IF r = 0 THEN plans[p].cover = NoCover
    ELSE /\ SuccessorSource(p, r)
         /\ IF plans[p].cover = NoCover THEN runs[r].open = {} ELSE plans[p].cover = Cover(r)

StartRun(p, predecessor) ==
    /\ Len(runs) < MaxRuns
    /\ plans[p].status = "approved"
    /\ goal.contract \in confirmed /\ goal.contract = plans[p].contract
    /\ \A r \in Runs : runs[r].plan # p
    /\ MaySucceed(p, predecessor)
    /\ \E status \in {"pending", "running"} :
         runs' = Append(runs, [plan |-> p, pred |-> predecessor, status |-> status, active |-> FALSE,
                               open |-> {}, pauses |-> 0, process |-> 1])
    /\ UNCHANGED <<goal, confirmed, plans, turns, calls, receipts, crashes>>
----------------------------------------------------------------------------
(* What a Run does, as far as planning looks at it (see RunExecution). *)
Change(r, run) ==
    /\ runs' = [runs EXCEPT ![r] = run]
    /\ UNCHANGED <<goal, confirmed, plans, turns, calls, receipts, crashes>>

Work(r) ==
    /\ runs[r].status \in {"pending", "running"} /\ Current(r)
    /\ Change(r, [runs[r] EXCEPT !.status = "running", !.active = TRUE])
Drain(r) == runs[r].active /\ Change(r, [runs[r] EXCEPT !.active = FALSE])
Ask(r, x) ==
    /\ runs[r].status = "running" /\ runs[r].active /\ \A s \in Runs : x \notin runs[s].open
    /\ Change(r, [runs[r] EXCEPT !.open = @ \cup {x}])
\* a decision needs a running Run, a reply any that is not over, and both the current contract
Answer(r, x) ==
    /\ x \in runs[r].open
    /\ IF x = "check" THEN runs[r].status = "running" /\ Current(r)
       ELSE Live(r) /\ goal.contract = plans[runs[r].plan].contract
    /\ Change(r, [runs[r] EXCEPT !.open = @ \ {x}])
Pause(r) ==
    /\ runs[r].status = "running" /\ \A s \in Runs : runs[s].pauses < MaxPauses
    /\ Change(r, [runs[r] EXCEPT !.status = "paused", !.pauses = @ + 1])
\* mutant: a Run of a contract that was replaced is resumed
ResumeStale(r) ==
    /\ runs[r].status = "paused"
    /\ Change(r, [runs[r] EXCEPT !.status = "running"])
Resume(r) ==
    /\ runs[r].status = "paused" /\ Current(r)
    /\ Change(r, [runs[r] EXCEPT !.status = "running"])
\* an adjustment of the process while the Run is paused and drained (see ProcessControl)
AdjustProcess(r) ==
    /\ runs[r].status = "paused" /\ ~runs[r].active /\ Current(r)
    /\ \A s \in Runs : runs[s].process < MaxProcess
    /\ Change(r, [runs[r] EXCEPT !.process = @ + 1])
Stop(r) ==
    /\ Live(r)
    /\ \E status \in {"cancelled"} \cup IF runs[r].status = "running" THEN {"failed"} ELSE {} :
         Change(r, [runs[r] EXCEPT !.status = status, !.active = FALSE])
Complete(r) ==
    /\ runs[r].status = "running" /\ ~runs[r].active /\ Current(r) /\ runs[r].open = {}
    /\ goal' = [goal EXCEPT !.satisfied = TRUE]
    /\ runs' = [runs EXCEPT ![r].status = "completed"]
    /\ UNCHANGED <<confirmed, plans, turns, calls, receipts, crashes>>

\* the host stops: its threads are gone, what they had stored stays
Crash ==
    /\ crashes < MaxCrashes
    /\ crashes' = crashes + 1
    /\ calls' = [q \in Requests |-> Idle]
    /\ UNCHANGED <<goal, confirmed, plans, runs, turns, receipts>>
----------------------------------------------------------------------------
Init ==
    /\ goal = [contract |-> 0, satisfied |-> FALSE]
    /\ confirmed = {} /\ plans = <<>> /\ runs = <<>> /\ turns = <<>>
    /\ calls = [q \in Requests |-> Idle]
    /\ receipts = {} /\ crashes = 0

Serve(q) ==
    \/ \E k \in Keys, kind \in {"propose", "import"} : BeginProposal(q, k, kind)
    \/ EndProposal(q) \/ AbandonProposal(q)
    \/ \E k \in Keys, v \in Conversations, r \in {0} \cup Runs : BeginDiscussion(q, k, v, r)
    \/ EndDiscussion(q) \/ Propose(q) \/ FailDiscussion(q)
    \/ \E k \in Keys, p \in DOMAIN plans, r \in {0} \cup Runs : BeginReplan(q, k, p, r)
    \/ EndReplan(q)
Command ==
    \E p \in DOMAIN plans, r \in {0} \cup Runs : ApprovePlan(p, r) \/ StartRun(p, r)
Execute(r) ==
    \/ Work(r) \/ Drain(r) \/ Pause(r) \/ Resume(r) \/ AdjustProcess(r) \/ Stop(r) \/ Complete(r)
    \/ \E x \in {"check", "question"} : Ask(r, x) \/ Answer(r, x)
Next == (\E q \in Requests : Serve(q)) \/ Command \/ (\E r \in Runs : Execute(r)) \/ Crash
Spec == Init /\ [][Next]_vars
----------------------------------------------------------------------------
(* What is stored: the domain and the projection of planning events refuse anything else. *)
\* satisfaction needs a confirmed contract, and a contract is the Goal's own
Goal(g) ==
    /\ g.contract \in {0} \cup {plans[p].contract : p \in DOMAIN plans} /\ g.satisfied \in BOOLEAN
    /\ g.satisfied => g.contract \in confirmed
\* a version is confirmed as it was drafted, with the plan it came with
CompletionContract(v) == \E p \in DOMAIN plans : plans[p].contract = v /\ plans[p].status = "approved"
\* every version but the first has a predecessor, and a draft has no approval
PlanRevision(p) ==
    /\ plans[p].status \in {"draft", "approved"} /\ (p = 1) = (plans[p].base = 0)
    /\ plans[p].status = "draft" => plans[p].cover = NoCover
\* one source Run at most, and the outcome of each turn but the one that is open
Conversation(v) ==
    /\ Cardinality({t \in TurnsOf(v) : turns[t].status = "running"}) <= 1
    /\ Cardinality({turns[t].source : t \in TurnsOf(v)} \ {0}) <= 1

(* Properties. *)
TypeOK ==
    /\ Goal(goal) /\ \A v \in confirmed : CompletionContract(v)
    /\ \A p \in DOMAIN plans : PlanRevision(p)
    /\ \A v \in Conversations : Conversation(v)
    /\ \A r \in Runs : runs[r].plan \in DOMAIN plans /\ runs[r].pred \in 0..MaxRuns
    /\ receipts \subseteq Keys

\* The Run that executes belongs to the contract that the Goal has confirmed, whichever commands
\* were answered while models worked: what it completes is what the user has approved. A plan has
\* one Run and a contract of its own, so one Run of a Goal executes at most.
ExecutionIsApproved ==
    \A r \in Runs : runs[r].status \in {"pending", "running"} => Current(r)

\* The revisions of a Goal form one chain, with a contract for each: two drafts
\* produced at the same time never both enter it.
OneChain ==
    /\ TypeOK
    /\ \A p \in DOMAIN plans : plans[p].base = p - 1 /\ plans[p].contract = p

\* A question of a paused Run that can no longer be answered was seen by the person who
\* approved the plan that took its place.
QuestionsCovered ==
    \A r \in Runs : runs[r].status = "paused" /\ runs[r].open # {} =>
        \/ goal.contract = plans[runs[r].plan].contract
        \/ \E p \in DOMAIN plans : plans[p].cover.run = r /\ runs[r].open = plans[p].cover.pending

\* A Run succeeds a paused Run of the plan before its own, which never goes on.
Successions ==
    \A r \in Runs : runs[r].pred # 0 =>
        /\ runs[runs[r].pred].plan = plans[runs[r].plan].base
        /\ runs[runs[r].pred].status \in {"paused", "cancelled"}
        /\ \A s \in Runs : runs[s].pred = runs[r].pred => s = r

\* The model is asked once for a key of a discussion, also when the command is repeated while
\* it works or after a crash, and a key produces one revision at most.
AskedOnce ==
    /\ \A t, u \in DOMAIN turns : turns[t].key = turns[u].key => t = u
    /\ \A p, s \in DOMAIN plans : plans[p].key = plans[s].key => p = s

\* The plans and the Runs of a Goal each are one chain, no open question is lost between
\* them, and nothing is asked or produced twice, whatever the order of commands and answers.
OneHistory == OneChain /\ QuestionsCovered /\ Successions /\ AskedOnce
=============================================================================
