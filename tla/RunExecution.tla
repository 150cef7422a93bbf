---------------------------- MODULE RunExecution ----------------------------
(***************************************************************************)
(* One Run of EHAI executed by one scheduling host: the Scheduler loop     *)
(* (application/scheduler.py), the Attempt tasks it supervises             *)
(* (application/async_runtime.py), the transactions of the Orchestrator    *)
(* (application/orchestration/), the operator's pause, resume and cancel,  *)
(* and the human decisions and replies that arrive on server threads.      *)
(*                                                                         *)
(* One action is one SQLite transaction (BEGIN IMMEDIATE serialises them)  *)
(* together with the in-memory statements that no other actor can observe  *)
(* half done.  The event loop is one thread: a handler or a task runs only *)
(* while the Scheduler is parked at an await (AwaitPoints) and no          *)
(* synchronous verification is under way (fix).  Decide, ThreadGate and    *)
(* Reply are the synchronous API handlers: they run on other threads and   *)
(* interleave with everything, also with a Scheduler between two           *)
(* transactions.                                                           *)
(***************************************************************************)
EXTENDS Naturals, FiniteSets

CONSTANTS
    Nodes,           \* the PlanNodes of the approved plan
    Deps,            \* Deps[n]: the nodes n requires
    AutoGate,        \* the nodes with a required automatic Check
    HumanGate,       \* the nodes with a required human Check
    CodeMode,        \* whether a code execution workspace is configured
    AttemptBudget,   \* Orchestrator.attempt_budget
    GoalBudget,      \* GoalWorkerBudget.max_worker_attempts
    RepeatLimit,     \* REPEATED_INTERVENTION_LIMIT
    MaxConcurrency,  \* ExecutionPolicy.max_concurrency
    MaxTries,        \* bound: Attempts of one node
    MaxCrashes,      \* bound: crashes of the host process
    MaxCommands,     \* bound: commands of the operator and of other people
    MaxFaults        \* bound: connector protocol faults and quiesce timeouts

Attempts == Nodes \X (1..MaxTries)
Gated == AutoGate \cup HumanGate
Final(n) == \A m \in Nodes : n \notin Deps[m]

ASSUME PlanAssumption ==
    /\ IsFiniteSet(Nodes)
    /\ Deps \in [Nodes -> SUBSET Nodes]
    /\ Gated \subseteq Nodes
    /\ \A n \in Nodes : Final(n) => n \in Gated
ASSUME BoundAssumption ==
    /\ CodeMode \in BOOLEAN
    /\ {AttemptBudget, GoalBudget, RepeatLimit, MaxConcurrency} \subseteq Nat
    /\ {MaxTries, MaxCrashes, MaxCommands, MaxFaults} \subseteq Nat

VARIABLES
    run,     \* RunStatus
    cause,   \* the PauseCause of the latest pause
    node,    \* node[n]: PlanNodeStatus
    tries,   \* tries[n]: how many Attempts n has
    ast,     \* ast[n, k]: AttemptStatus of the k-th Attempt of n
    bound,   \* the Attempts with a persisted ExecutionHandle
    auto,    \* auto[n]: the automatic CheckRun of the latest candidate of n
    human,   \* human[n]: the human CheckRun of the latest candidate of n
    open,    \* the nodes whose latest intervention has no reply
    asks,    \* asks[n]: interventions of n since its last REPEATED_INTERVENTION
    work,    \* the Run's DispatchWork; "self" and "dead" are claim owners
    pc,      \* where the Scheduler loop is
    sel,     \* the assignment _schedule has read and not started yet
    task,    \* task[n, k]: the asyncio task of an Attempt
    fix,     \* fix[n]: synchronous verification on the event loop thread
    ctl,     \* whether the Run is in _controlled_runs
    op,      \* the operator command being served
    asked,   \* the tasks that command's quiesce_run snapshot waits for
    qerr,    \* the quiesces that have recorded a cancellation error
    dec,     \* the nodes whose decision thread has yet to finish the Gate
    crashes, cmds, faults

durable == <<run, cause, node, tries, ast, bound, auto, human, open, asks, work>>
memory == <<pc, sel, task, fix, ctl, op, asked, qerr, dec>>
counters == <<crashes, cmds, faults>>
plan == <<node, tries, ast>>
checks == <<auto, human>>
help == <<open, asks>>
control == <<ctl, op, asked, qerr>>
vars == <<durable, memory, counters>>

RunStatus == {"pending", "running", "paused", "completed", "failed", "cancelled"}
PauseCause == {"none", "operator", "unknown", "hold", "repeated", "budget", "error"}
NodeStatus == {"pending", "ready", "running", "candidate", "verifying", "completed",
               "failed", "stalled", "suspended"}
Settled == {"succeeded", "failed", "timed_out", "cancelled", "interrupted"}
AttemptStatus == {"none", "pending", "running"} \cup Settled
WorkStatus == {"pending", "self", "dead", "expired", "completed"}
LiveTask == {"start", "consume", "recover", "accept"}
EndedTask == {"ret", "retpaused", "retfinal", "error", "killed"}
Places == {"off", "startup", "recover", "gather", "idle", "claim", "queue", "select",
           "start", "wait", "release", "settle", "converge", "dead"}
AwaitPoints == {"idle", "wait", "gather", "converge", "dead"}

TypeOK ==
    /\ run \in RunStatus /\ cause \in PauseCause
    /\ node \in [Nodes -> NodeStatus]
    /\ tries \in [Nodes -> 0..MaxTries]
    /\ ast \in [Attempts -> AttemptStatus]
    /\ bound \subseteq Attempts
    /\ auto \in [Nodes -> {"absent", "running", "passed", "failed"}]
    /\ human \in [Nodes -> {"absent", "running", "asked", "passed", "failed", "cancelled"}]
    /\ open \subseteq Nodes /\ asks \in [Nodes -> Nat]
    /\ work \in WorkStatus
    /\ pc \in Places /\ sel \subseteq Attempts
    /\ task \in [Attempts -> {"none"} \cup LiveTask \cup EndedTask]
    /\ fix \in [Nodes -> {"none", "enter", "check", "gate"}]
    /\ ctl \in BOOLEAN /\ op \in {"none", "pause", "cancel", "unclaim", "resume"}
    /\ asked \subseteq Attempts /\ qerr \subseteq {"op", "converge"} /\ dec \subseteq Nodes
    /\ crashes \in 0..MaxCrashes /\ cmds \in 0..MaxCommands /\ faults \in 0..MaxFaults

-----------------------------------------------------------------------------
(* What the handlers read.                                                 *)

Latest(n) == <<n, tries[n]>>
InStatus(S) == {a \in Attempts : ast[a] \in S}
Active == InStatus({"pending", "running"})
Running == InStatus({"running"})
Used == {a \in Attempts : ast[a] # "none"}
Tasks == {a \in Attempts : task[a] # "none"}
Live == {a \in Attempts : task[a] \in LiveTask}
Ended == Tasks \ Live
Idle(n) == \A k \in 1..MaxTries : <<n, k>> \notin Active
\* mutant of DepsDone: a candidate without a verdict satisfies a dependency
DepsSubmitted(n) == \A d \in Deps[n] : node[d] \in {"candidate", "verifying", "completed"}
DepsDone(n) == \A d \in Deps[n] : node[d] = "completed"
Ready(n) == node[n] = "pending" /\ DepsDone(n)
Over == {"completed", "failed", "cancelled"}
Stopped == run \in Over \/ (run = "paused" /\ ~ctl)
NoFix == [n \in Nodes |-> "none"]
Free == pc \in AwaitPoints /\ fix = NoFix

\* Orchestrator.waiting_for_input(run_id, only_if_idle=True)
WaitingForInput ==
    /\ run \in {"running", "paused"}
    /\ ~ \E n \in Nodes : Ready(n) \/ node[n] \in {"ready", "stalled"}
    /\ \E n \in Nodes : node[n] = "suspended" \/ (node[n] = "verifying" /\ human[n] = "asked")

\* how a task that returns the Run in status r looks to the loop
Returned(r) == CASE r = "running" -> "ret" [] r = "paused" -> "retpaused" [] OTHER -> "retfinal"
\* finish_dispatch_work: complete the claim, whoever owns it
FinishWork(w) == IF w \in {"self", "dead", "expired"} THEN "completed" ELSE w
\* ensure_dispatch_queued: requeue completed work, leave a claim alone
QueueWork(w) == IF w = "completed" THEN "pending" ELSE w

-----------------------------------------------------------------------------
(* Verification of a candidate: _check_and_complete and its helpers.       *)

AutoOk(n) == auto[n] \in {"absent", "passed"}

Accepted(n) == [node EXCEPT ![n] = "completed"]

\* mutant of GatePasses: the pending human decision is not waited for
GatePassesUndecided(n) ==
    /\ AutoOk(n) /\ human[n] # "failed"
    /\ node' = Accepted(n)
    /\ run' = IF Final(n) /\ \A m \in Nodes \ {n} : node[m] = "completed"
              THEN "completed" ELSE run
    /\ UNCHANGED <<human, cause>>
\* _record_completion and _is_final_completion
GatePasses(n) ==
    /\ AutoOk(n) /\ human[n] \in {"absent", "passed"}
    /\ node' = Accepted(n)
    /\ run' = IF Final(n) /\ \A m \in Nodes \ {n} : node[m] = "completed"
              THEN "completed" ELSE run
    /\ UNCHANGED <<human, cause>>

\* _record_gate_failure: repair in place, or fail the Run
GateFails(n) ==
    /\ ~AutoOk(n) \/ human[n] = "failed"
    /\ human' = [human EXCEPT ![n] = IF @ \in {"running", "asked"} THEN "cancelled" ELSE @]
    /\ node' = [node EXCEPT ![n] = IF CodeMode THEN "ready" ELSE "failed"]
    /\ run' = IF CodeMode THEN run ELSE "failed"
    /\ UNCHANGED cause

\* finish_pending_gate, with the re-validation of _current_verification
FinishGate(n) ==
    \/ /\ run # "running" \/ node[n] # "verifying"
       /\ UNCHANGED <<run, cause, node, human>>
    \/ /\ run = "running" /\ node[n] = "verifying"
       /\ \/ GatePasses(n)
          \/ GateFails(n)
          \/ /\ AutoOk(n) /\ human[n] \in {"running", "asked"}
             /\ human' = [human EXCEPT ![n] = "asked"]
             /\ UNCHANGED <<run, cause, node>>

\* the verification of n ends: the caller (an accepting task, startup recovery
\* or the resume handler) goes on, or fails with the exception
VerificationEnds(n, raised) ==
    /\ fix' = IF raised THEN NoFix ELSE [fix EXCEPT ![n] = "none"]
    /\ task' = [task EXCEPT ![Latest(n)] = IF @ # "accept" THEN @
                                           ELSE IF raised THEN "error" ELSE Returned(run')]
    /\ LET resumed == op = "resume" /\ (raised \/ \A m \in Nodes \ {n} : fix[m] = "none")
           recovery == raised /\ pc = "recover"
       IN  /\ op' = IF resumed THEN "none" ELSE op
           /\ pc' = IF recovery THEN "converge" ELSE pc
           /\ ctl' = (recovery \/ (ctl /\ (raised \/ ~resumed)))
    /\ UNCHANGED <<sel, asked, qerr, dec>>

\* _check_and_complete up to the first Check
VerifyEnter(n) ==
    /\ fix[n] = "enter" /\ \A m \in Nodes : fix[m] \in {"none", "enter"}
    /\ \/ /\ node[n] = "candidate" /\ n \notin Gated        \* _accept_intermediate
          /\ node' = Accepted(n)
          /\ UNCHANGED <<run, cause, auto, human>>
          /\ VerificationEnds(n, FALSE)
       \/ /\ node[n] = "candidate" /\ n \in Gated           \* _start_checks
          /\ node' = [node EXCEPT ![n] = "verifying"]
          /\ auto' = [auto EXCEPT ![n] = IF n \in AutoGate THEN "running" ELSE "absent"]
          /\ human' = [human EXCEPT ![n] = IF n \in HumanGate THEN "running" ELSE "absent"]
          /\ fix' = [fix EXCEPT ![n] = IF n \in AutoGate THEN "check" ELSE "gate"]
          /\ UNCHANGED <<run, cause, pc, sel, task, control, dec>>
       \/ /\ node[n] = "verifying"                          \* interrupted Checks are not replayed
          /\ auto' = [auto EXCEPT ![n] = IF @ = "running" /\ run = "running" THEN "failed" ELSE @]
          /\ fix' = [fix EXCEPT ![n] = "gate"]
          /\ UNCHANGED <<run, cause, node, human, pc, sel, task, control, dec>>
       \/ /\ node[n] \notin {"candidate", "verifying"}       \* a decision thread was faster
          /\ UNCHANGED <<run, cause, node, checks>>
          /\ VerificationEnds(n, TRUE)
    /\ UNCHANGED <<tries, ast, bound, help, work, counters>>

\* the CheckRunner's outcome is persisted in a transaction of its own
VerifyCheck(n) ==
    /\ fix[n] = "check"
    /\ \E result \in {"passed", "failed"} : auto' = [auto EXCEPT ![n] = result]
    /\ fix' = [fix EXCEPT ![n] = "gate"]
    /\ UNCHANGED <<run, cause, plan, bound, human, help, work, pc, sel, task, control, dec, counters>>

VerifyGate(n) ==
    /\ fix[n] = "gate"
    /\ FinishGate(n)
    /\ VerificationEnds(n, run = "running" /\ run' = "failed")
    /\ UNCHANGED <<tries, ast, bound, auto, help, work, counters>>

\* recover_candidate_results: which nodes it brings to a verdict
CandidateFix == [n \in Nodes |-> IF run' = "running" /\ node[n] \in {"candidate", "verifying"}
                                 THEN "enter" ELSE "none"]

-----------------------------------------------------------------------------
(* The Scheduler loop.                                                     *)

\* an exception of the loop: _converge_scheduler_error begins with quiesce_run;
\* request_cancel fails for an execution that has no handle yet
Converge(live) ==
    /\ pc' = "converge" /\ ctl' = TRUE
    /\ qerr' = IF live \subseteq bound THEN qerr ELSE qerr \cup {"converge"}

\* mutant of Claimed: an expired lease is not taken over
ClaimedPending ==
    IF work = "pending" /\ (run = "paused" => Running # {}) THEN "self" ELSE work
\* _claim_all_work and claim_next_dispatch_work
Claimed ==
    IF work \in {"pending", "expired"} /\ (run = "paused" => Running # {}) THEN "self" ELSE work

\* _recover_unowned_attempts: a running Attempt that no task here executes gets a
\* recovery task while slots are free; one without a persisted assignment raises
Unowned == Running \ Tasks
RecoverUnowned(S) ==
    /\ S \subseteq Unowned \cap bound /\ Cardinality(S) + Cardinality(Tasks) <= MaxConcurrency
    /\ \/ ~(Unowned \subseteq bound) \/ S = Unowned
       \/ Cardinality(S) + Cardinality(Tasks) = MaxConcurrency
    /\ task' = [a \in Attempts |-> IF a \in S THEN "recover" ELSE task[a]]

\* the head of _run_until_idle: claim, recover, finish the claim of a stopped Run
Iterate ==
    /\ pc \in {"idle", "claim"} /\ fix = NoFix
    /\ IF Claimed = "self"
       THEN \E S \in SUBSET Unowned :
              /\ RecoverUnowned(S)
              /\ IF ~(Unowned \subseteq bound)
                 THEN Converge(Live \cup S) /\ work' = Claimed
                 ELSE /\ UNCHANGED <<ctl, qerr>>
                      /\ pc' = IF ~Stopped THEN "queue" ELSE IF Tasks \cup S # {} THEN "wait" ELSE "idle"
                      /\ work' = IF Stopped THEN "completed" ELSE Claimed
       ELSE /\ pc' = IF Tasks # {} THEN "wait" ELSE "idle"
            /\ UNCHANGED <<work, task, ctl, qerr>>
    /\ UNCHANGED <<run, cause, plan, bound, checks, help, sel, fix, op, asked, dec, counters>>

\* mutant of RetryReleased: a stalled node is never released
RetryKept == node
\* _recover_stalled_nodes: a safe retry is released
RetryReleased == [n \in Nodes |-> IF node[n] = "stalled" THEN "pending" ELSE node[n]]

\* queue_ready_attempts: release safe retries, then queue an Attempt for every
\* node that may start, as far as the Goal's budget allows
Queue ==
    /\ pc = "queue"
    /\ pc' = "select"
    /\ IF run \in {"pending", "running"}
       THEN LET settled == RetryReleased
                wanted == {n \in Nodes : /\ \/ settled[n] = "ready"
                                            \/ settled[n] = "pending" /\ DepsDone(n)
                                         /\ Idle(n)}
                below == {n \in wanted : tries[n] < MaxTries}
                left == IF GoalBudget > Cardinality(Used) THEN GoalBudget - Cardinality(Used) ELSE 0
            IN  IF wanted # {} /\ left = 0 /\ Active = {}
                THEN /\ run' = "paused" /\ cause' = "budget"             \* _pause_goal_budget
                     /\ node' = settled
                     /\ UNCHANGED <<tries, ast>>
                ELSE \E S \in SUBSET below :
                       /\ Cardinality(S) <= left /\ (S = below \/ Cardinality(S) = left)
                       /\ node' = [n \in Nodes |-> IF n \in S THEN "ready" ELSE settled[n]]
                       /\ tries' = [n \in Nodes |-> IF n \in S THEN tries[n] + 1 ELSE tries[n]]
                       /\ ast' = [a \in Attempts |-> IF a[1] \in S /\ a[2] = tries[a[1]] + 1
                                                     THEN "pending" ELSE ast[a]]
                       /\ run' = "running" /\ UNCHANGED cause
       ELSE UNCHANGED <<run, cause, plan>>
    /\ UNCHANGED <<bound, checks, help, work, sel, task, fix, control, dec, counters>>

\* _next_assignment reads an assignment, or finds none
Assignable == IF run = "running" /\ ~ctl THEN InStatus({"pending"}) ELSE {}
SlotFree == Cardinality(Tasks) < MaxConcurrency
Select ==
    /\ pc = "select"
    /\ IF Assignable # {} /\ SlotFree
       THEN \E a \in Assignable : sel' = {a} /\ pc' = "start"
       ELSE pc' = (IF Tasks # {} THEN "wait" ELSE "release") /\ UNCHANGED sel
    /\ UNCHANGED <<durable, task, fix, control, dec, counters>>

\* start_queued_attempt and create_task: the Run's status is not read again
Start(n, k) ==
    /\ pc = "start" /\ sel = {<<n, k>>}
    /\ ast[<<n, k>>] = "pending" /\ node[n] = "ready"
    /\ ast' = [ast EXCEPT ![<<n, k>>] = "running"]
    /\ node' = [node EXCEPT ![n] = "running"]
    /\ task' = [task EXCEPT ![<<n, k>>] = "start"]
    /\ pc' = "select" /\ sel' = {}
    /\ UNCHANGED <<run, cause, tries, bound, checks, help, work, fix, control, dec, counters>>

InTask(S) == {a \in Attempts : task[a] \in S}
\* task.result() of every finished task raised nothing that stops the loop
Harvest ==
    /\ Ended # {} /\ fix = NoFix
    /\ task' = [a \in Attempts |-> IF a \in Ended THEN "none" ELSE task[a]]
\* "retpaused" of a controlled Run keeps the claim for the quiescing handler
Finishes == InTask({"retfinal"}) # {} \/ (InTask({"retpaused"}) # {} /\ ~ctl)

\* the tail of _run_until_idle after asyncio.wait
HandleDone ==
    /\ pc = "wait" /\ Harvest
    /\ \/ /\ InTask({"error", "killed"}) = {}
          /\ pc' = IF Live = {} /\ InTask({"retpaused", "retfinal"}) # {} THEN "idle" ELSE "claim"
          /\ UNCHANGED <<ctl, qerr>>
          /\ work' = IF Finishes THEN FinishWork(work) ELSE work
       \/ /\ \/ InTask({"error"}) # {} /\ Converge(Live)
             \/ InTask({"killed"}) # {} /\ pc' = "dead" /\ UNCHANGED <<ctl, qerr>>
          /\ \/ UNCHANGED work
             \/ Finishes /\ work' = FinishWork(work)
    /\ UNCHANGED <<run, cause, plan, bound, checks, help, sel, fix, op, asked, dec, counters>>

\* no task and nothing scheduled: is the Run stopped, or waiting for a person?
Release ==
    /\ pc = "release"
    /\ pc' = IF ~Stopped /\ WaitingForInput /\ Active = {} THEN "settle" ELSE "idle"
    /\ work' = IF Stopped THEN FinishWork(work) ELSE work
    /\ UNCHANGED <<run, cause, plan, bound, checks, help, sel, task, fix, control, dec, counters>>

\* finish_dispatch_work on what Release has read
SettleWait ==
    /\ pc = "settle" /\ pc' = "idle"
    /\ work' = FinishWork(work)
    /\ UNCHANGED <<run, cause, plan, bound, checks, help, sel, task, fix, control, dec, counters>>

\* recover_startup: claim what can be claimed and finish persisted candidates
Startup ==
    /\ pc = "startup"
    /\ work' = Claimed
    /\ pc' = IF Claimed = "self" THEN "recover" ELSE "idle"
    /\ UNCHANGED run
    /\ fix' = IF Claimed = "self" THEN CandidateFix ELSE fix
    /\ UNCHANGED <<cause, plan, bound, checks, help, sel, task, control, dec, counters>>

RecoverStartup ==
    /\ pc = "recover" /\ fix = NoFix
    /\ \E S \in SUBSET Unowned :
         /\ RecoverUnowned(S)
         /\ IF ~(Unowned \subseteq bound) THEN Converge(Live \cup S)
            ELSE /\ pc' = IF Tasks \cup S # {} THEN "gather" ELSE "idle"
                 /\ UNCHANGED <<ctl, qerr>>
    /\ UNCHANGED <<durable, sel, fix, op, asked, dec, counters>>

\* startup waits for every recovery, then reports the first error
Gather ==
    /\ pc = "gather" /\ Live = {} /\ Harvest
    /\ work' = IF InTask({"retpaused", "retfinal"}) # {} THEN FinishWork(work) ELSE work
    /\ \/ InTask({"error", "killed"}) = {} /\ pc' = "idle" /\ UNCHANGED <<ctl, qerr>>
       \/ InTask({"error"}) # {} /\ Converge({})
       \/ InTask({"killed"}) # {} /\ pc' = "dead" /\ UNCHANGED <<ctl, qerr>>
    /\ UNCHANGED <<run, cause, plan, bound, checks, help, sel, fix, op, asked, dec, counters>>

\* the end of _converge_scheduler_error: interrupt what is unsettled, pause the
\* Run, cancel queued Attempts and release the claim; the host then restarts
\* mutant of Interrupted: an Attempt that no task settled is left alone
InterruptedNone(S) == ast
Interrupted(S) == [a \in Attempts |-> IF a \in S THEN "interrupted" ELSE ast[a]]
\* mutant of FailedNodes: the node of an interrupted Attempt is forgotten
FailedNodesForgotten(S) == node
FailedNodes(S) == [n \in Nodes |-> IF \E k \in 1..MaxTries : <<n, k>> \in S THEN "failed" ELSE node[n]]
\* mutants of Unqueued: nothing is cancelled; what has already failed is cancelled, too
UnqueuedNone(f) == f
UnqueuedAll(f) == [a \in Attempts |-> IF f[a] \in {"none", "succeeded"} THEN f[a] ELSE "cancelled"]
Unqueued(f) == [a \in Attempts |-> IF f[a] = "pending" THEN "cancelled" ELSE f[a]]
\* mutant of Unclaimed: the status of the Run is written into the DispatchWork
UnclaimedAsRun(r) == IF work # "self" THEN work ELSE IF r = "paused" THEN "pending" ELSE r
Unclaimed(r) == IF work # "self" THEN work ELSE IF r = "paused" THEN "pending" ELSE "completed"

ConvergeDone ==
    /\ pc = "converge" /\ fix = NoFix /\ Live = {}
    /\ task' = [a \in Attempts |-> "none"]
    /\ qerr' = qerr \ {"converge"}
    /\ IF "converge" \in qerr
       THEN pc' = "dead" /\ UNCHANGED <<run, cause, node, ast, work>>      \* RuntimeQuiescenceError
       ELSE /\ pc' = "startup"
            /\ ast' = Unqueued(Interrupted(Running))
            /\ node' = FailedNodes(Running)
            /\ run' = IF run = "running" THEN "paused" ELSE run
            /\ cause' = IF run # "running" THEN cause ELSE IF Running = {} THEN "error" ELSE "unknown"
            /\ work' = Unclaimed(run')
    /\ UNCHANGED <<tries, bound, checks, help, sel, fix, ctl, op, asked, dec, counters>>

-----------------------------------------------------------------------------
(* The task of an Attempt: execute_started_request, recover_attempt,        *)
(* _consume_events and the settlements of the Orchestrator.                 *)

TaskIs(n, k, S) == Free /\ task[<<n, k>>] \in S
\* what a settlement does to the Attempt and its node, and to its task
Settle(n, k, status, stopped) ==
    /\ ast[<<n, k>>] = "running"
    /\ ast' = [ast EXCEPT ![<<n, k>>] = status]
    /\ node' = [node EXCEPT ![n] = stopped]
    /\ UNCHANGED <<tries, bound, auto, human, work, pc, sel, fix, control, dec>>
Return(n, k) == task' = [task EXCEPT ![<<n, k>>] = Returned(run')]

\* _start_request succeeded and _bind_execution persisted the handle
Bind(n, k) ==
    /\ TaskIs(n, k, {"start"}) /\ ast[<<n, k>>] = "running"
    /\ bound' = bound \cup {<<n, k>>}
    /\ task' = [task EXCEPT ![<<n, k>>] = "consume"]
    /\ UNCHANGED <<run, cause, plan, checks, help, work, pc, sel, fix, control, dec, counters>>

\* recover_attempt found the original execution
Recovered(n, k) ==
    /\ TaskIs(n, k, {"recover"})
    /\ task' = [task EXCEPT ![<<n, k>>] = "consume"]
    /\ UNCHANGED <<durable, pc, sel, fix, control, dec, counters>>

\* fail_attempt: a time, call or cost budget of the Run is exhausted
BudgetFailure(n, k) ==
    /\ TaskIs(n, k, {"start"})
    /\ Settle(n, k, "failed", "failed")
    /\ run \in {"running", "paused"} /\ run' = "failed"
    /\ Return(n, k)
    /\ UNCHANGED <<cause, help, counters>>

\* accept_worker_result: _record_candidate, then the verification goes on
\* synchronously on the event loop
Candidate(n, k) ==
    /\ TaskIs(n, k, {"consume"}) /\ ast[<<n, k>>] = "running"
    /\ ast' = [ast EXCEPT ![<<n, k>>] = "succeeded"]
    /\ node' = [node EXCEPT ![n] = "candidate"]
    /\ task' = [task EXCEPT ![<<n, k>>] = "accept"]
    /\ fix' = [fix EXCEPT ![n] = "enter"]
    /\ UNCHANGED <<run, cause, tries, bound, checks, help, work, pc, sel, control, dec, counters>>

\* _record_artifact_failure: the candidate's Artifacts cannot be stored
ArtifactFailure(n, k) ==
    /\ TaskIs(n, k, {"consume"}) /\ faults < MaxFaults /\ faults' = faults + 1
    /\ Settle(n, k, "succeeded", "failed")
    /\ run \in {"running", "paused"} /\ run' = "failed"
    /\ task' = [task EXCEPT ![<<n, k>>] = "error"]
    /\ UNCHANGED <<cause, help, crashes, cmds>>

\* block_attempt: suspend the node until a person replies; one that keeps asking
\* pauses an otherwise idle Run
Block(n, k) ==
    /\ TaskIs(n, k, {"start", "consume"})
    /\ Settle(n, k, "interrupted", "suspended")
    /\ open' = open \cup {n}
    /\ IF run = "running" /\ asks[n] + 1 >= RepeatLimit /\ Active = {<<n, k>>}
       THEN run' = "paused" /\ cause' = "repeated" /\ asks' = [asks EXCEPT ![n] = 0]
       ELSE asks' = [asks EXCEPT ![n] = @ + 1] /\ UNCHANGED <<run, cause>>
    /\ Return(n, k)
    /\ UNCHANGED counters

\* retry_attempt: the outcome is known to be safe; past the budget a person decides
Consumed(n) == IF CodeMode THEN tries[n] ELSE Cardinality(Used)
Retry(n, k) ==
    /\ TaskIs(n, k, {"start", "consume", "recover"})
    /\ \E status \in {"failed", "timed_out", "interrupted"} :
         Settle(n, k, status, IF Consumed(n) >= AttemptBudget THEN "suspended" ELSE "stalled")
    /\ IF Consumed(n) >= AttemptBudget
       THEN open' = open \cup {n} /\ asks' = [asks EXCEPT ![n] = @ + 1]
       ELSE UNCHANGED help
    /\ UNCHANGED <<run, cause, counters>>
    /\ Return(n, k)

\* interrupt_attempt: the outcome is unknown, nothing may replace the Attempt
Interrupt(n, k) ==
    /\ TaskIs(n, k, {"consume", "recover"})
    /\ Settle(n, k, "interrupted", "failed")
    /\ IF run = "running" THEN run' = "paused" /\ cause' = "unknown" ELSE UNCHANGED <<run, cause>>
    /\ Return(n, k)
    /\ UNCHANGED <<help, counters>>

\* time_out_attempt: also unknown; Run.pause accepts a running Run only
TimeOut(n, k) ==
    /\ TaskIs(n, k, {"consume"}) /\ run = "running"
    /\ Settle(n, k, "timed_out", "failed")
    /\ run' = "paused" /\ cause' = "unknown"
    /\ Return(n, k)
    /\ UNCHANGED <<help, counters>>

\* a transition the domain refuses rolls the settlement back and fails the task:
\* run.pause() in time_out_attempt, run.fail() in fail_attempt
Refused(n, k) ==
    /\ Free /\ ast[<<n, k>>] = "running"
    /\ \/ task[<<n, k>>] = "consume" /\ run # "running"
       \/ task[<<n, k>>] = "start" /\ run \in Over
    /\ task' = [task EXCEPT ![<<n, k>>] = "error"]
    /\ UNCHANGED <<durable, pc, sel, fix, control, dec, counters>>

\* the event stream breaks the connector's contract, or a quiesce gives up waiting
\* and calls Task.cancel()
Break(n, k) ==
    /\ faults < MaxFaults /\ faults' = faults + 1
    /\ \/ /\ TaskIs(n, k, {"consume"})
          /\ task' = [task EXCEPT ![<<n, k>>] = "error"] /\ UNCHANGED qerr
       \/ /\ TaskIs(n, k, {"start", "consume", "recover"})
          /\ \/ op \in {"pause", "cancel"} /\ <<n, k>> \in asked /\ qerr' = qerr \cup {"op"}
             \/ pc = "converge" /\ qerr' = qerr \cup {"converge"}
          /\ task' = [task EXCEPT ![<<n, k>>] = "killed"]
    /\ UNCHANGED <<durable, pc, sel, fix, ctl, op, asked, dec, crashes, cmds>>

\* a settlement that finds its Attempt settled by someone else returns or raises
Late(n, k) ==
    /\ TaskIs(n, k, {"start", "consume", "recover"}) /\ ast[<<n, k>>] # "running"
    /\ task' \in {[task EXCEPT ![<<n, k>>] = s] : s \in {Returned(run), "error"}}
    /\ UNCHANGED <<durable, pc, sel, fix, control, dec, counters>>

TaskStep(n, k) ==
    \/ Bind(n, k) \/ Recovered(n, k) \/ BudgetFailure(n, k) \/ Candidate(n, k)
    \/ ArtifactFailure(n, k) \/ Block(n, k) \/ Retry(n, k) \/ Interrupt(n, k)
    \/ TimeOut(n, k) \/ Refused(n, k) \/ Break(n, k) \/ Late(n, k)

-----------------------------------------------------------------------------
(* The operator's commands: asynchronous handlers on the event loop.        *)

Command == cmds < MaxCommands /\ cmds' = cmds + 1 /\ UNCHANGED <<crashes, faults>>

\* pause_run and cancel_run of the API begin with Scheduler.quiesce_run
Quiesce ==
    /\ Free /\ op = "none" /\ Command
    /\ op' \in {"pause", "cancel"}
    /\ ctl' = TRUE /\ asked' = Live
    /\ qerr' = IF Live \subseteq bound THEN qerr \ {"op"} ELSE qerr \cup {"op"}
    /\ UNCHANGED <<durable, pc, sel, task, fix, dec>>

\* the tail of quiesce_run, and the command's transaction.  When quiesce_run or the
\* command raises, what quiesce_run interrupted stays interrupted
Commit ==
    /\ Free /\ op \in {"pause", "cancel"} /\ asked \cap Live = {}
    /\ UNCHANGED <<tries, bound, auto, help, work, pc, sel, task, fix, asked, qerr, dec, counters>>
    /\ IF "op" \in qerr
       THEN op' = "none" /\ UNCHANGED <<run, cause, node, ast, human, ctl>>
       ELSE LET quiet == Interrupted(Running)
                applies == Live = {} /\ run \notin Over
            IN  /\ node' = FailedNodes(Running)
                /\ ast' = IF applies THEN Unqueued(quiet) ELSE quiet
                /\ op' = IF applies THEN "unclaim" ELSE "none"
                /\ ctl' = (ctl /\ (applies \/ Live # {}))
                /\ human' = [n \in Nodes |-> IF applies /\ op = "cancel" /\ human[n] = "asked"
                                             THEN "cancelled" ELSE human[n]]
                /\ run' = IF applies THEN (IF op = "pause" THEN "paused" ELSE "cancelled")
                          ELSE IF Running # {} /\ run = "running" THEN "paused" ELSE run
                /\ cause' = IF applies /\ op = "pause" THEN "operator"
                            ELSE IF ~applies /\ Running # {} /\ run = "running" THEN "unknown"
                            ELSE cause

\* release_run_dispatch
ReleaseDispatch ==
    /\ Free /\ op = "unclaim" /\ op' = "none"
    /\ work' = Unclaimed(run)
    /\ UNCHANGED <<run, cause, plan, bound, checks, help, pc, sel, task, fix, ctl, asked, qerr, dec, counters>>

\* mutants of ResumedNodes: a resume answers open interventions; it forgets timeouts
ResumedSuspended == [n \in Nodes |-> IF node[n] \in {"failed", "suspended"} THEN "ready" ELSE node[n]]
ResumedNotTimedOut ==
    [n \in Nodes |-> IF node[n] = "failed" /\ ast[Latest(n)] # "timed_out" THEN "ready" ELSE node[n]]
\* BackgroundRunController.resume, then recover_candidate_results
ResumedNodes == [n \in Nodes |-> IF node[n] = "failed" THEN "ready" ELSE node[n]]
Resume ==
    /\ Free /\ op = "none" /\ Command /\ run = "paused"
    /\ ~ \E n \in Nodes : node[n] = "failed" /\ ast[Latest(n)] = "succeeded"
    /\ run' = "running"
    /\ work' = QueueWork(work)
    /\ node' = ResumedNodes
    /\ fix' = CandidateFix
    /\ op' = IF fix' = NoFix THEN "none" ELSE "resume"
    /\ ctl' = (ctl /\ fix' # NoFix)
    /\ UNCHANGED <<cause, tries, ast, bound, checks, help, pc, sel, task, asked, qerr, dec>>

-----------------------------------------------------------------------------
(* The handlers that run on server threads.                                 *)

Person == pc # "off" /\ Command

\* mutant of Drained: a hold does not ask for active Attempts
DrainedUnasked == TRUE
\* a hold pauses a Run without active Attempts
Drained == Active = {}
\* decide_human_check: the decision, and the hold, in one transaction
Decide(n) ==
    /\ Person
    /\ run = "running" /\ node[n] = "verifying" /\ human[n] = "asked"
    /\ \E verdict \in {"passed", "failed"} : human' = [human EXCEPT ![n] = verdict]
    /\ \/ /\ work' = QueueWork(work)
          /\ dec' = dec \cup {n}
          /\ UNCHANGED <<run, cause>>
       \/ /\ Drained                                                  \* hold
          /\ run' = "paused" /\ cause' = "hold"
          /\ UNCHANGED <<work, dec>>
    /\ UNCHANGED <<plan, bound, auto, help, pc, sel, task, fix, control>>

\* ... then finish_pending_gate, and resume_run_scheduling for a running Run
ThreadGate(n) ==
    /\ n \in dec /\ dec' = dec \ {n}
    /\ FinishGate(n)
    /\ ctl' = (ctl /\ run' # "running")
    /\ UNCHANGED <<tries, ast, bound, auto, help, work, pc, sel, task, fix, op, asked, qerr, counters>>

\* reply_intervention: release exactly the answered node
Reply(n) ==
    /\ Person
    /\ run \notin Over /\ node[n] = "suspended" /\ n \in open
    /\ open' = open \ {n}
    /\ node' = [node EXCEPT ![n] = "pending"]
    /\ IF run = "running" THEN work' = QueueWork(work) /\ ctl' = FALSE ELSE UNCHANGED <<work, ctl>>
    /\ UNCHANGED <<run, cause, tries, ast, bound, checks, asks, pc, sel, task, fix, op, asked, qerr, dec>>

-----------------------------------------------------------------------------
(* The process and its lease.                                               *)

Crash ==
    /\ pc # "off" /\ crashes < MaxCrashes /\ crashes' = crashes + 1
    /\ pc' = "off" /\ sel' = {} /\ fix' = NoFix /\ dec' = {}
    /\ task' = [a \in Attempts |-> "none"]
    /\ ctl' = FALSE /\ op' = "none" /\ asked' = {} /\ qerr' = {}
    /\ work' = IF work = "self" THEN "dead" ELSE work
    /\ UNCHANGED <<run, cause, plan, bound, checks, help, cmds, faults>>

Restart ==
    /\ pc = "off" /\ pc' = "startup"
    /\ UNCHANGED <<durable, sel, task, fix, control, dec, counters>>

\* five minutes pass: nobody renews the claim of a stopped process
LeaseExpires ==
    /\ work = "dead" /\ work' = "expired"
    /\ UNCHANGED <<run, cause, plan, bound, checks, help, memory, counters>>

-----------------------------------------------------------------------------
Init ==
    /\ run = "pending" /\ cause = "none" /\ work = "pending"
    /\ node = [n \in Nodes |-> "pending"] /\ tries = [n \in Nodes |-> 0]
    /\ ast = [a \in Attempts |-> "none"] /\ bound = {}
    /\ auto = [n \in Nodes |-> "absent"] /\ human = [n \in Nodes |-> "absent"]
    /\ open = {} /\ asks = [n \in Nodes |-> 0]
    /\ pc = "startup" /\ sel = {} /\ task = [a \in Attempts |-> "none"] /\ fix = NoFix
    /\ ctl = FALSE /\ op = "none" /\ asked = {} /\ qerr = {} /\ dec = {}
    /\ crashes = 0 /\ cmds = 0 /\ faults = 0

Loop == Iterate \/ Queue \/ Select \/ HandleDone \/ Release \/ SettleWait
        \/ Startup \/ RecoverStartup \/ Gather \/ ConvergeDone
Verify(n) == VerifyEnter(n) \/ VerifyCheck(n) \/ VerifyGate(n)
Operator == Quiesce \/ Commit \/ ReleaseDispatch \/ Resume
People(n) == Decide(n) \/ ThreadGate(n) \/ Reply(n)
Process == Crash \/ Restart \/ LeaseExpires

Next ==
    \/ Loop \/ Operator \/ Process
    \/ \E n \in Nodes : Verify(n) \/ People(n)
    \/ \E n \in Nodes, k \in 1..MaxTries : Start(n, k) \/ TaskStep(n, k)

Spec == Init /\ [][Next]_vars

\* The loop, the verification it runs and a started command go on; the watchdog
\* ends every execution; a lease runs out; a stopped process is started again. A command
\* waits for the event loop's thread, which is free again and again: ready callbacks are FIFO.
Fairness ==
    /\ WF_vars(Loop \/ \E n \in Nodes, k \in 1..MaxTries : Start(n, k))
    /\ \A n \in Nodes : WF_vars(Verify(n)) /\ WF_vars(ThreadGate(n))
    /\ \A n \in Nodes, k \in 1..MaxTries : WF_vars(TaskStep(n, k))
    /\ SF_vars(Commit \/ ReleaseDispatch)
    /\ WF_vars(Restart) /\ WF_vars(LeaseExpires)

FairSpec == Spec /\ Fairness

-----------------------------------------------------------------------------
(* Properties.                                                             *)

\* Each node and its Attempts tell the same story: earlier Attempts are settled, at
\* most the latest one is live, the node runs exactly while it runs, and a candidate
\* or completed node has a succeeded Attempt (transactions of orchestration/).
NodeAgreement ==
    \A n \in Nodes :
        /\ \A k \in 1..MaxTries : /\ k > tries[n] => ast[<<n, k>>] = "none"
                                  /\ k < tries[n] => ast[<<n, k>>] \in Settled
        /\ tries[n] = 0 => node[n] = "pending"
        /\ tries[n] > 0 =>
             LET last == ast[Latest(n)]
             IN  /\ last # "none" /\ (node[n] = "running" <=> last = "running")
                 /\ last = "pending" => node[n] = "ready"
                 /\ node[n] \in {"candidate", "verifying", "completed"} => last = "succeeded"
                 /\ node[n] \in {"pending", "stalled", "suspended"} => last \in Settled \ {"succeeded"}

\* A node has left PENDING only after everything it depends on was completed, and
\* stays behind that barrier through retries, replies and resumes (ready_nodes).
DependencyOrder ==
    \A n \in Nodes : node[n] # "pending" => \A d \in Deps[n] : node[d] = "completed"

\* A completed Run means every node completed, each from its latest, succeeded
\* Attempt, and every Gate with passed Checks (_is_final_completion, Gate.evaluate).
CompletedHasEvidence ==
    run = "completed" =>
        \A n \in Nodes : /\ node[n] = "completed" /\ ast[Latest(n)] = "succeeded"
                         /\ n \in AutoGate => auto[n] = "passed"
                         /\ n \in HumanGate => human[n] = "passed"

\* A node is suspended exactly while its latest intervention has no reply: neither a
\* resume nor a restart lets a suspended node run (resume, _recover_stalled_nodes).
SuspendedIffOpen == \A n \in Nodes : node[n] = "suspended" <=> n \in open

\* A pause that promises a drained Run (operator, hold, repeated intervention, Goal
\* budget, runtime error) leaves no queued and no running Attempt (runs.py:210).
DrainedPause == run = "paused" /\ cause # "unknown" => Active = {}

\* Nothing of a cancelled Run is queued, running or still executed by a task.
CancelledIsQuiet == run = "cancelled" => Active = {} /\ Live = {}

\* While a node has an unknown outcome (its latest Attempt was interrupted or timed out
\* and the node failed), the Run does not run: nothing starts beside or after it until
\* the operator resumes (interrupt_attempt, time_out_attempt, resume).
UnknownStopsRun ==
    run = "running" =>
        \A n \in Nodes : node[n] = "failed" => ast[Latest(n)] \notin {"interrupted", "timed_out"}

\* What is settled stays settled, whatever answer comes late.
SettledOnce == [][\A a \in Attempts : ast[a] \in Settled => ast'[a] = ast[a]]_vars

\* The loop has read the Run before it starts the Attempt it selected; in code mode no
\* decision, reply, pause or cancel in between lets it start one for a stopped Run.
StartsWhileRunning ==
    [][\A a \in Attempts : ast[a] = "pending" /\ ast'[a] = "running" => run = "running"]_vars

\* Every Attempt that runs is eventually settled, also when its host died, unless its Run
\* is stopped before (_recover_unowned_attempts).
AttemptsSettle == \A a \in Attempts : ast[a] = "running" ~> ast[a] # "running" \/ run # "running"

\* The loop leaves a running Run alone after a command in two cases: its claim was completed
\* on a reading the command made stale (scheduler.py:473-481), or a failed quiesce left the Run
\* among the controlled ones (scheduler.py:297).
LeftAlone == cmds > 0 /\ ((work = "completed" /\ ~WaitingForInput) \/ (ctl /\ op = "none"))

\* A running Run whose host lives and whose connectors answer keeps moving: it stops, or it
\* waits for a person, or a command made the loop leave it alone in one of the two known ways.
RunMoves ==
    run = "running" /\ crashes = 0 /\ faults = 0
        ~> \/ run # "running" \/ WaitingForInput \/ LeftAlone
           \/ crashes > 0 \/ faults > 0

\* A persisted candidate whose acceptance was interrupted is brought to a verdict after
\* the restart (recover_candidate_results, attempts.py:617).
CandidatesJudged == \A n \in Nodes : node[n] = "candidate" ~> node[n] # "candidate"
=============================================================================
