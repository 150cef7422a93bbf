------------------------- MODULE RunProgress_proofs -------------------------
(***************************************************************************)
(* Theorems about RunExecution, for every plan, every policy and any       *)
(* number of Attempts, crashes, commands and faults: first the types and   *)
(* what holds the plan and its Attempts together, then what the end, the   *)
(* pause and the start of a Run mean, and the refinement of PlanProgress.  *)
(* The last theorem is about DispatchLeases, for any number of hosts.      *)
(***************************************************************************)
EXTENDS MCLeases, TLAPS

TaskStatus == {"none"} \cup LiveTask \cup EndedTask

LEMMA IterateType ==
    ASSUME TypeOK, Iterate
    PROVE  TypeOK'
<1>1. UNCHANGED <<run, cause, plan, bound, checks, help, sel, fix, op, asked, dec, counters>>
  BY DEF Iterate
<1>2. work' \in WorkStatus
  <2>1. work' \in {work, Claimed, "completed"}
    BY DEF Iterate
  <2> QED
    BY <2>1 DEF Claimed, TypeOK, WorkStatus
<1>3. task' \in [Attempts -> TaskStatus]
  BY DEF Iterate, RecoverUnowned, TypeOK, TaskStatus, LiveTask
<1>4. ctl' \in BOOLEAN /\ qerr' \subseteq {"op", "converge"} /\ pc' \in Places
  <2>1. pc' \in {"converge", "queue", "wait", "idle"}
    BY DEF Iterate, Converge
  <2>2. ctl' \in {TRUE, ctl} /\ qerr' \in {qerr, qerr \cup {"converge"}}
    BY DEF Iterate, Converge
  <2> QED
    BY <2>1, <2>2 DEF TypeOK, Places
<1> QED
  BY <1>1, <1>2, <1>3, <1>4 DEF TypeOK, plan, checks, help, counters, TaskStatus

LEMMA QueueType ==
    ASSUME TypeOK, BoundAssumption, Queue
    PROVE  TypeOK'
<1>1. UNCHANGED <<bound, checks, help, work, sel, task, fix, control, dec, counters>> /\ pc' = "select"
  BY DEF Queue
<1>2. run' \in RunStatus /\ cause' \in PauseCause
  BY DEF Queue, TypeOK, RunStatus, PauseCause
<1>3. RetryReleased \in [Nodes -> NodeStatus]
  BY DEF RetryReleased, TypeOK, NodeStatus
<1>4. node' \in [Nodes -> NodeStatus]
  BY <1>3 DEF Queue, TypeOK, NodeStatus, plan
<1>5. tries' \in [Nodes -> 0..MaxTries]
  BY DEF Queue, TypeOK, plan, BoundAssumption
<1>6. ast' \in [Attempts -> AttemptStatus]
  BY DEF Queue, TypeOK, plan, AttemptStatus
<1> QED
  BY <1>1, <1>2, <1>4, <1>5, <1>6 DEF TypeOK, checks, help, counters, control, Places

\* what the statements shared by several actions preserve
LEMMA FinishWorkType ==
    ASSUME TypeOK
    PROVE  FinishWork(work) \in WorkStatus /\ QueueWork(work) \in WorkStatus
BY DEF FinishWork, QueueWork, TypeOK, WorkStatus

LEMMA HarvestType ==
    ASSUME TypeOK, Harvest
    PROVE  task' \in [Attempts -> TaskStatus]
BY DEF Harvest, TypeOK, TaskStatus

LEMMA SelectType ==
    ASSUME TypeOK, Select
    PROVE  TypeOK'
<1>1. UNCHANGED <<durable, task, fix, control, dec, counters>>
  BY DEF Select
<1>2. sel' \subseteq Attempts /\ pc' \in Places
  BY DEF Select, Assignable, InStatus, TypeOK, Places
<1> QED
  BY <1>1, <1>2 DEF TypeOK, durable, control, counters

LEMMA StartType ==
    ASSUME TypeOK, NEW n \in Nodes, NEW k \in 1..MaxTries, Start(n, k)
    PROVE  TypeOK'
BY DEF Start, TypeOK, NodeStatus, AttemptStatus, TaskStatus, LiveTask, Places, checks, help, control, counters

LEMMA HandleDoneType ==
    ASSUME TypeOK, HandleDone
    PROVE  TypeOK'
<1>1. UNCHANGED <<run, cause, plan, bound, checks, help, sel, fix, op, asked, dec, counters>>
  BY DEF HandleDone
<1>2. task' \in [Attempts -> TaskStatus]
  BY HarvestType DEF HandleDone
<1>3. work' \in WorkStatus
  BY FinishWorkType DEF HandleDone, TypeOK
<1>4. ctl' \in BOOLEAN /\ qerr' \subseteq {"op", "converge"} /\ pc' \in Places
  BY DEF HandleDone, Converge, TypeOK, Places
<1> QED
  BY <1>1, <1>2, <1>3, <1>4 DEF TypeOK, TaskStatus, plan, checks, help, counters

LEMMA SettleWaitType ==
    ASSUME TypeOK, Release \/ SettleWait
    PROVE  TypeOK'
BY FinishWorkType DEF Release, SettleWait, TypeOK, Places, plan, checks, help, control, counters

LEMMA CandidateFixType == CandidateFix \in [Nodes -> {"none", "enter", "check", "gate"}]
BY DEF CandidateFix

LEMMA StartupType ==
    ASSUME TypeOK, Startup
    PROVE  TypeOK'
<1>1. UNCHANGED <<run, cause, plan, bound, checks, help, sel, task, control, dec, counters>>
  BY DEF Startup
<1>2. work' \in WorkStatus
  BY DEF Startup, Claimed, TypeOK, WorkStatus
<1>3. pc' \in Places /\ fix' \in [Nodes -> {"none", "enter", "check", "gate"}]
  BY CandidateFixType DEF Startup, TypeOK, Places
<1> QED
  BY <1>1, <1>2, <1>3 DEF TypeOK, plan, checks, help, control, counters

LEMMA RecoverStartupType ==
    ASSUME TypeOK, RecoverStartup
    PROVE  TypeOK'
<1>1. UNCHANGED <<durable, sel, fix, op, asked, dec, counters>>
  BY DEF RecoverStartup
<1>2. task' \in [Attempts -> TaskStatus]
  BY DEF RecoverStartup, RecoverUnowned, TypeOK, TaskStatus, LiveTask
<1>3. ctl' \in BOOLEAN /\ qerr' \subseteq {"op", "converge"} /\ pc' \in Places
  <2>1. pc' \in {"converge", "gather", "idle"}
    BY DEF RecoverStartup, Converge
  <2>2. ctl' \in {TRUE, ctl} /\ qerr' \in {qerr, qerr \cup {"converge"}}
    BY DEF RecoverStartup, Converge
  <2> QED
    BY <2>1, <2>2 DEF TypeOK, Places
<1> QED
  BY <1>1, <1>2, <1>3 DEF TypeOK, TaskStatus, durable, counters

LEMMA GatherType ==
    ASSUME TypeOK, Gather
    PROVE  TypeOK'
<1>1. UNCHANGED <<run, cause, plan, bound, checks, help, sel, fix, op, asked, dec, counters>>
  BY DEF Gather
<1>2. task' \in [Attempts -> TaskStatus]
  BY HarvestType DEF Gather
<1>3. work' \in WorkStatus
  BY FinishWorkType DEF Gather, TypeOK
<1>4. ctl' \in BOOLEAN /\ qerr' \subseteq {"op", "converge"} /\ pc' \in Places
  BY DEF Gather, Converge, TypeOK, Places
<1> QED
  BY <1>1, <1>2, <1>3, <1>4 DEF TypeOK, TaskStatus, plan, checks, help, counters

\* the settlements that quiesce and converge share
LEMMA QuietType ==
    ASSUME TypeOK, NEW S \in SUBSET Attempts
    PROVE  /\ Interrupted(S) \in [Attempts -> AttemptStatus]
           /\ Unqueued(Interrupted(S)) \in [Attempts -> AttemptStatus]
           /\ FailedNodes(S) \in [Nodes -> NodeStatus]
           /\ \A r \in RunStatus : Unclaimed(r) \in WorkStatus
BY DEF Interrupted, Unqueued, FailedNodes, Unclaimed, TypeOK, AttemptStatus, Settled, NodeStatus, WorkStatus

LEMMA ConvergeDoneType ==
    ASSUME TypeOK, ConvergeDone
    PROVE  TypeOK'
<1>1. UNCHANGED <<tries, bound, checks, help, sel, fix, ctl, op, asked, dec, counters>>
  BY DEF ConvergeDone
<1>2. Running \in SUBSET Attempts
  BY DEF Running, InStatus
<1>3. run' \in RunStatus /\ cause' \in PauseCause
  BY DEF ConvergeDone, TypeOK, RunStatus, PauseCause
<1>4. ast' \in [Attempts -> AttemptStatus] /\ node' \in [Nodes -> NodeStatus]
  BY <1>2, QuietType DEF ConvergeDone, TypeOK
<1>5. work' \in WorkStatus
  BY <1>2, <1>3, QuietType DEF ConvergeDone, TypeOK
<1>6. task' \in [Attempts -> TaskStatus] /\ pc' \in Places /\ qerr' \subseteq {"op", "converge"}
  BY DEF ConvergeDone, TypeOK, TaskStatus, Places
<1> QED
  BY <1>1, <1>3, <1>4, <1>5, <1>6 DEF TypeOK, TaskStatus, checks, help, counters

LEMMA FinishGateType ==
    ASSUME TypeOK, NEW n \in Nodes, FinishGate(n)
    PROVE  /\ run' \in RunStatus /\ cause' \in PauseCause
           /\ node' \in [Nodes -> NodeStatus]
           /\ human' \in [Nodes -> {"absent", "running", "asked", "passed", "failed", "cancelled"}]
BY DEF FinishGate, GatePasses, GateFails, Accepted, TypeOK, RunStatus, NodeStatus

LEMMA VerificationEndsType ==
    ASSUME TypeOK, run' \in RunStatus, NEW n \in Nodes, NEW raised \in BOOLEAN,
           VerificationEnds(n, raised)
    PROVE  /\ fix' \in [Nodes -> {"none", "enter", "check", "gate"}]
           /\ task' \in [Attempts -> TaskStatus]
           /\ pc' \in Places /\ ctl' \in BOOLEAN
           /\ op' \in {"none", "pause", "cancel", "unclaim", "resume"}
           /\ UNCHANGED <<sel, asked, qerr, dec>>
<1>1. Returned(run') \in EndedTask
  BY DEF Returned, EndedTask, RunStatus
<1>2. task' \in [Attempts -> TaskStatus]
  BY <1>1 DEF VerificationEnds, TypeOK, TaskStatus, EndedTask
<1>3. fix' \in [Nodes -> {"none", "enter", "check", "gate"}]
  BY DEF VerificationEnds, TypeOK, NoFix
<1> QED
  BY <1>2, <1>3 DEF VerificationEnds, TypeOK, Places

LEMMA VerifyType ==
    ASSUME TypeOK, NEW n \in Nodes, Verify(n)
    PROVE  TypeOK'
<1>1. CASE VerifyEnter(n)
  <2>1. UNCHANGED <<tries, ast, bound, help, work, counters>>
    BY <1>1 DEF VerifyEnter
  <2>2. /\ run' \in RunStatus /\ cause' \in PauseCause /\ node' \in [Nodes -> NodeStatus]
        /\ auto' \in [Nodes -> {"absent", "running", "passed", "failed"}]
        /\ human' \in [Nodes -> {"absent", "running", "asked", "passed", "failed", "cancelled"}]
    BY <1>1 DEF VerifyEnter, Accepted, TypeOK, NodeStatus, checks
  <2>3. \/ VerificationEnds(n, FALSE) \/ VerificationEnds(n, TRUE)
        \/ /\ UNCHANGED <<pc, sel, task, control, dec>>
           /\ fix' \in [Nodes -> {"none", "enter", "check", "gate"}]
    BY <1>1 DEF VerifyEnter, TypeOK
  <2>4. /\ fix' \in [Nodes -> {"none", "enter", "check", "gate"}]
        /\ task' \in [Attempts -> TaskStatus]
        /\ pc' \in Places /\ ctl' \in BOOLEAN
        /\ op' \in {"none", "pause", "cancel", "unclaim", "resume"}
        /\ UNCHANGED <<sel, asked, qerr, dec>>
    BY <2>2, <2>3, VerificationEndsType DEF control, TypeOK, TaskStatus
  <2> QED
    BY <2>1, <2>2, <2>4 DEF TypeOK, TaskStatus, help, counters
<1>2. CASE VerifyCheck(n)
  BY <1>2 DEF VerifyCheck, TypeOK, plan, help, control, counters
<1>3. CASE VerifyGate(n)
  <2>1. UNCHANGED <<tries, ast, bound, auto, help, work, counters>>
    BY <1>3 DEF VerifyGate
  <2>2. /\ run' \in RunStatus /\ cause' \in PauseCause
        /\ node' \in [Nodes -> NodeStatus]
        /\ human' \in [Nodes -> {"absent", "running", "asked", "passed", "failed", "cancelled"}]
    BY <1>3, FinishGateType DEF VerifyGate
  <2>3. VerificationEnds(n, run = "running" /\ run' = "failed")
    BY <1>3 DEF VerifyGate
  <2>4. /\ fix' \in [Nodes -> {"none", "enter", "check", "gate"}]
        /\ task' \in [Attempts -> TaskStatus]
        /\ pc' \in Places /\ ctl' \in BOOLEAN
        /\ op' \in {"none", "pause", "cancel", "unclaim", "resume"}
        /\ UNCHANGED <<sel, asked, qerr, dec>>
    BY <2>2, <2>3, VerificationEndsType
  <2> QED
    BY <2>1, <2>2, <2>4 DEF TypeOK, TaskStatus, help, counters
<1> QED
  BY <1>1, <1>2, <1>3 DEF Verify

LEMMA SettleType ==
    ASSUME TypeOK, NEW n \in Nodes, NEW k \in 1..MaxTries,
           NEW status \in Settled, NEW stopped \in NodeStatus, Settle(n, k, status, stopped)
    PROVE  /\ ast' \in [Attempts -> AttemptStatus] /\ node' \in [Nodes -> NodeStatus]
           /\ UNCHANGED <<tries, bound, auto, human, work, pc, sel, fix, control, dec>>
BY DEF Settle, TypeOK, AttemptStatus

LEMMA ReturnType ==
    ASSUME TypeOK, run' \in RunStatus, NEW n \in Nodes, NEW k \in 1..MaxTries, Return(n, k)
    PROVE  task' \in [Attempts -> TaskStatus]
BY DEF Return, Returned, TypeOK, TaskStatus, EndedTask, RunStatus

LEMMA TaskStepType ==
    ASSUME TypeOK, NEW n \in Nodes, NEW k \in 1..MaxTries, TaskStep(n, k)
    PROVE  TypeOK'
<1>1. CASE Bind(n, k) \/ Recovered(n, k)
  BY <1>1 DEF Bind, Recovered, TypeOK, LiveTask, Attempts, durable, plan, checks, help, control, counters
<1>2. CASE BudgetFailure(n, k)
  <2>1. run' \in RunStatus
    BY <1>2 DEF BudgetFailure, RunStatus
  <2>2. Settle(n, k, "failed", "failed") /\ Return(n, k) /\ UNCHANGED <<cause, help, counters>>
    BY <1>2 DEF BudgetFailure
  <2>3. /\ ast' \in [Attempts -> AttemptStatus] /\ node' \in [Nodes -> NodeStatus]
        /\ UNCHANGED <<tries, bound, auto, human, work, pc, sel, fix, control, dec>>
    BY <2>2, SettleType DEF Settled, NodeStatus
  <2>4. task' \in [Attempts -> TaskStatus]
    BY <2>1, <2>2, ReturnType
  <2> QED
    BY <2>1, <2>2, <2>3, <2>4 DEF TypeOK, TaskStatus, help, control, counters
<1>3. CASE Candidate(n, k)
  BY <1>3 DEF Candidate, TypeOK, NodeStatus, AttemptStatus, Settled, LiveTask, checks, help, control, counters
<1>4. CASE ArtifactFailure(n, k)
  <2>0. run' \in RunStatus /\ faults' \in 0..MaxFaults
    BY <1>4, BoundAssumption DEF ArtifactFailure, RunStatus, TypeOK
  <2>1. task' \in [Attempts -> TaskStatus]
    BY <1>4 DEF ArtifactFailure, TypeOK, TaskStatus, EndedTask
  <2>2. Settle(n, k, "succeeded", "failed") /\ UNCHANGED <<cause, help, crashes, cmds>>
    BY <1>4 DEF ArtifactFailure
  <2> QED
    BY <2>0, <2>1, <2>2, SettleType DEF TypeOK, Settled, NodeStatus, TaskStatus, help, control
<1>5. CASE Block(n, k)
  <2>1. /\ run' \in RunStatus /\ cause' \in PauseCause
        /\ open' \subseteq Nodes /\ asks' \in [Nodes -> Nat]
    BY <1>5 DEF Block, RunStatus, PauseCause, TypeOK
  <2>2. Settle(n, k, "interrupted", "suspended") /\ Return(n, k) /\ UNCHANGED counters
    BY <1>5 DEF Block
  <2>3. /\ ast' \in [Attempts -> AttemptStatus] /\ node' \in [Nodes -> NodeStatus]
        /\ UNCHANGED <<tries, bound, auto, human, work, pc, sel, fix, control, dec>>
    BY <2>2, SettleType DEF Settled, NodeStatus
  <2>4. task' \in [Attempts -> TaskStatus]
    BY <2>1, <2>2, ReturnType
  <2> QED
    BY <2>1, <2>2, <2>3, <2>4 DEF TypeOK, TaskStatus, control, counters
<1>6. CASE Retry(n, k)
  <2>1. open' \subseteq Nodes /\ asks' \in [Nodes -> Nat] /\ UNCHANGED <<run, cause, counters>>
    BY <1>6 DEF Retry, TypeOK, help
  <2>2. PICK status \in {"failed", "timed_out", "interrupted"} :
          Settle(n, k, status, IF Consumed(n) >= AttemptBudget THEN "suspended" ELSE "stalled")
    BY <1>6 DEF Retry
  <2>3. Return(n, k) /\ run' \in RunStatus
    BY <1>6, <2>1 DEF Retry, TypeOK
  <2>4. (IF Consumed(n) >= AttemptBudget THEN "suspended" ELSE "stalled") \in NodeStatus
    BY DEF NodeStatus
  <2>5. /\ ast' \in [Attempts -> AttemptStatus] /\ node' \in [Nodes -> NodeStatus]
        /\ UNCHANGED <<tries, bound, auto, human, work, pc, sel, fix, control, dec>>
    BY <2>2, <2>4, SettleType DEF Settled
  <2>6. task' \in [Attempts -> TaskStatus]
    BY <2>3, ReturnType
  <2> QED
    BY <2>1, <2>5, <2>6 DEF TypeOK, TaskStatus, control, counters
<1>7. CASE Interrupt(n, k) \/ TimeOut(n, k)
  <2>1. run' \in RunStatus /\ cause' \in PauseCause /\ UNCHANGED <<help, counters>>
    BY <1>7 DEF Interrupt, TimeOut, RunStatus, PauseCause, TypeOK
  <2>2. PICK status \in {"interrupted", "timed_out"} : Settle(n, k, status, "failed")
    BY <1>7 DEF Interrupt, TimeOut
  <2>3. Return(n, k)
    BY <1>7 DEF Interrupt, TimeOut
  <2>4. /\ ast' \in [Attempts -> AttemptStatus] /\ node' \in [Nodes -> NodeStatus]
        /\ UNCHANGED <<tries, bound, auto, human, work, pc, sel, fix, control, dec>>
    BY <2>2, SettleType DEF Settled, NodeStatus
  <2>5. task' \in [Attempts -> TaskStatus]
    BY <2>1, <2>3, ReturnType
  <2> QED
    BY <2>1, <2>4, <2>5 DEF TypeOK, TaskStatus, help, control, counters
<1>8. CASE Refused(n, k)
  BY <1>8 DEF Refused, TypeOK, EndedTask, durable, control, counters
<1>9. CASE Break(n, k)
  <2>1. UNCHANGED <<durable, pc, sel, fix, ctl, op, asked, dec, crashes, cmds>> /\ faults' \in 0..MaxFaults
    BY <1>9, BoundAssumption DEF Break, TypeOK
  <2>2. task' \in [Attempts -> TaskStatus] /\ qerr' \subseteq {"op", "converge"}
    BY <1>9 DEF Break, TypeOK, TaskStatus, EndedTask
  <2> QED
    BY <2>1, <2>2 DEF TypeOK, TaskStatus, durable
<1>10. CASE Late(n, k)
  <2>1. UNCHANGED <<durable, pc, sel, fix, control, dec, counters>>
    BY <1>10 DEF Late
  <2>2. task' \in [Attempts -> TaskStatus]
    BY <1>10 DEF Late, Returned, TypeOK, TaskStatus, EndedTask, RunStatus
  <2> QED
    BY <2>1, <2>2 DEF TypeOK, TaskStatus, durable, control, counters
<1> QED
  BY <1>1, <1>2, <1>3, <1>4, <1>5, <1>6, <1>7, <1>8, <1>9, <1>10 DEF TaskStep

LEMMA OperatorType ==
    ASSUME TypeOK, Operator
    PROVE  TypeOK'
<1>0. Running \in SUBSET Attempts /\ Live \in SUBSET Attempts
  BY DEF Running, InStatus, Live
<1>1. CASE Quiesce
  BY <1>1, <1>0, BoundAssumption DEF Quiesce, Command, TypeOK, durable
<1>2. CASE Commit
  <2>1. UNCHANGED <<tries, bound, auto, help, work, pc, sel, task, fix, asked, qerr, dec, counters>>
    BY <1>2 DEF Commit
  <2>2. run' \in RunStatus /\ cause' \in PauseCause
    BY <1>2 DEF Commit, TypeOK, RunStatus, PauseCause
  <2>3. ast' \in [Attempts -> AttemptStatus] /\ node' \in [Nodes -> NodeStatus]
    BY <1>2, <1>0, QuietType DEF Commit, TypeOK
  <2>4. human' \in [Nodes -> {"absent", "running", "asked", "passed", "failed", "cancelled"}]
    BY <1>2 DEF Commit, TypeOK
  <2>5. op' \in {"none", "unclaim"} /\ ctl' \in BOOLEAN
    BY <1>2 DEF Commit, TypeOK
  <2> QED
    BY <2>1, <2>2, <2>3, <2>4, <2>5 DEF TypeOK, help, counters
<1>3. CASE ReleaseDispatch
  BY <1>3, <1>0, QuietType DEF ReleaseDispatch, TypeOK, plan, checks, help, counters
<1>4. CASE Resume
  <2>1. node' \in [Nodes -> NodeStatus] /\ run' \in RunStatus /\ work' \in WorkStatus
    BY <1>4, FinishWorkType DEF Resume, ResumedNodes, TypeOK, NodeStatus, RunStatus
  <2>2. fix' \in [Nodes -> {"none", "enter", "check", "gate"}] /\ op' \in {"none", "resume"} /\ ctl' \in BOOLEAN
    BY <1>4, CandidateFixType DEF Resume, TypeOK
  <2>3. UNCHANGED <<cause, tries, ast, bound, checks, help, pc, sel, task, asked, qerr, dec>> /\ Command
    BY <1>4 DEF Resume
  <2> QED
    BY <2>1, <2>2, <2>3, BoundAssumption DEF TypeOK, Command, checks, help
<1> QED
  BY <1>1, <1>2, <1>3, <1>4 DEF Operator

LEMMA PeopleType ==
    ASSUME TypeOK, NEW n \in Nodes, People(n)
    PROVE  TypeOK'
<1>1. CASE Decide(n)
  BY <1>1, FinishWorkType, BoundAssumption DEF Decide, Person, Command, TypeOK, RunStatus, PauseCause, plan, help, control
<1>2. CASE ThreadGate(n)
  BY <1>2, FinishGateType DEF ThreadGate, TypeOK, help, counters
<1>3. CASE Reply(n)
  <2>0. cmds' \in 0..MaxCommands /\ UNCHANGED <<crashes, faults>>
    BY <1>3, BoundAssumption DEF Reply, Person, Command, TypeOK
  <2>1. open' \subseteq Nodes /\ node' \in [Nodes -> NodeStatus] /\ ctl' \in BOOLEAN
    BY <1>3 DEF Reply, TypeOK, NodeStatus
  <2>2. work' \in WorkStatus
    BY <1>3, FinishWorkType DEF Reply, TypeOK
  <2>3. UNCHANGED <<run, cause, tries, ast, bound, checks, asks, pc, sel, task, fix, op, asked, qerr, dec>>
    BY <1>3 DEF Reply
  <2> QED
    BY <2>0, <2>1, <2>2, <2>3 DEF TypeOK, checks
<1> QED
  BY <1>1, <1>2, <1>3 DEF People

LEMMA ProcessType ==
    ASSUME TypeOK, Process
    PROVE  TypeOK'
<1>1. CASE Crash
  <2>1. crashes' \in 0..MaxCrashes /\ work' \in WorkStatus
    BY <1>1, BoundAssumption DEF Crash, TypeOK, WorkStatus
  <2>2. UNCHANGED <<run, cause, plan, bound, checks, help, cmds, faults>>
    BY <1>1 DEF Crash
  <2>3. /\ pc' = "off" /\ sel' = {} /\ fix' = NoFix /\ dec' = {} /\ ctl' = FALSE
        /\ op' = "none" /\ asked' = {} /\ qerr' = {} /\ task' = [a \in Attempts |-> "none"]
    BY <1>1 DEF Crash
  <2> QED
    BY <2>1, <2>2, <2>3 DEF TypeOK, Places, NoFix, plan, checks, help
<1>2. CASE Restart
  BY <1>2 DEF Restart, TypeOK, Places, durable, control, counters
<1>3. CASE LeaseExpires
  BY <1>3 DEF LeaseExpires, TypeOK, WorkStatus, plan, checks, help, memory, control, counters
<1> QED
  BY <1>1, <1>2, <1>3 DEF Process

\* Every variable keeps its type, whatever the bounds.
THEOREM TypeCorrect == Spec => []TypeOK
<1>1. Init => TypeOK
  <2> SUFFICES ASSUME Init PROVE TypeOK
    OBVIOUS
  <2>1. /\ run \in RunStatus /\ cause \in PauseCause /\ work \in WorkStatus /\ pc \in Places
        /\ node \in [Nodes -> NodeStatus] /\ ast \in [Attempts -> AttemptStatus]
    BY DEF Init, RunStatus, PauseCause, WorkStatus, Places, NodeStatus, AttemptStatus
  <2>2. tries \in [Nodes -> 0..MaxTries] /\ asks \in [Nodes -> Nat]
    BY BoundAssumption DEF Init
  <2>3. crashes \in 0..MaxCrashes /\ cmds \in 0..MaxCommands /\ faults \in 0..MaxFaults
    BY BoundAssumption DEF Init
  <2> QED
    BY <2>1, <2>2, <2>3 DEF Init, TypeOK, NoFix
<1>2. TypeOK /\ [Next]_vars => TypeOK'
  <2> SUFFICES ASSUME TypeOK, [Next]_vars PROVE TypeOK'
    OBVIOUS
  <2>1. CASE Loop
    BY <2>1, BoundAssumption, IterateType, QueueType, SelectType, HandleDoneType, SettleWaitType,
       StartupType, RecoverStartupType, GatherType, ConvergeDoneType DEF Loop
  <2>2. CASE Operator \/ Process
    BY <2>2, OperatorType, ProcessType
  <2>3. CASE \E n \in Nodes : Verify(n) \/ People(n)
    BY <2>3, VerifyType, PeopleType
  <2>4. CASE \E n \in Nodes, k \in 1..MaxTries : Start(n, k) \/ TaskStep(n, k)
    BY <2>4, StartType, TaskStepType
  <2>5. CASE UNCHANGED vars
    BY <2>5 DEF TypeOK, vars, durable, memory, counters
  <2> QED
    BY <2>1, <2>2, <2>3, <2>4, <2>5 DEF Next
<1> QED
  BY <1>1, <1>2, PTL DEF Spec

-----------------------------------------------------------------------------
(* The plan's invariant: nodes, Attempts, interventions and dependencies    *)
(* agree.  It is inductive; every step changes them in one of eight ways.   *)

PlanInv == NodeAgreement /\ SuspendedIffOpen /\ DependencyOrder

\* a verification moves its node on
Judged(n) ==
    /\ node[n] \in {"candidate", "verifying"}
    /\ \E x \in {"verifying", "completed", "ready", "failed"} : node' = [node EXCEPT ![n] = x]
    /\ UNCHANGED <<tries, ast, open>>

\* a task settles its Attempt; the node is suspended together with an intervention
Settles(n, k) ==
    \E status \in Settled, stopped \in {"failed", "stalled", "suspended"} :
        /\ Settle(n, k, status, stopped)
        /\ status = "succeeded" => stopped = "failed"
        /\ open' = IF stopped = "suspended" THEN open \cup {n} ELSE open

\* a quiesce settles what runs, and may cancel what is queued
Quiets ==
    /\ node' = FailedNodes(Running)
    /\ ast' \in {Interrupted(Running), Unqueued(Interrupted(Running))}
    /\ UNCHANGED <<tries, open>>

Begins(n, k) ==
    /\ ast[<<n, k>>] = "pending" /\ node[n] = "ready"
    /\ ast' = [ast EXCEPT ![<<n, k>>] = "running"]
    /\ node' = [node EXCEPT ![n] = "running"]
    /\ UNCHANGED <<tries, open>>

Submits(n, k) ==
    /\ ast[<<n, k>>] = "running"
    /\ ast' = [ast EXCEPT ![<<n, k>>] = "succeeded"]
    /\ node' = [node EXCEPT ![n] = "candidate"]
    /\ UNCHANGED <<tries, open>>

\* a pending or running Attempt is the latest one of its node
LEMMA LiveIsLatest ==
    ASSUME TypeOK, NodeAgreement, NEW n \in Nodes, NEW k \in 1..MaxTries,
           ast[<<n, k>>] \in {"pending", "running"}
    PROVE  k = tries[n] /\ tries[n] > 0 /\ Latest(n) = <<n, k>>
<1>1. tries[n] \in Nat /\ k \in Nat /\ k > 0
  BY BoundAssumption DEF TypeOK
<1>2. ~(k > tries[n]) /\ ~(k < tries[n])
  BY DEF NodeAgreement, Settled
<1> QED
  BY <1>1, <1>2 DEF Latest

LEMMA JudgedInv ==
    ASSUME TypeOK, PlanInv, NEW n \in Nodes, Judged(n)
    PROVE  PlanInv'
<1>1. NodeAgreement'
  BY DEF Judged, PlanInv, NodeAgreement, TypeOK, Latest, Settled
<1>2. SuspendedIffOpen'
  BY DEF Judged, PlanInv, SuspendedIffOpen, TypeOK
<1>3. DependencyOrder'
  BY PlanAssumption DEF Judged, PlanInv, DependencyOrder, TypeOK
<1> QED
  BY <1>1, <1>2, <1>3 DEF PlanInv

LEMMA BeginsInv ==
    ASSUME TypeOK, PlanInv, NEW n \in Nodes, NEW k \in 1..MaxTries, Begins(n, k)
    PROVE  PlanInv'
<1>0. k = tries[n] /\ tries[n] > 0
  BY LiveIsLatest DEF Begins, PlanInv
<1>1. NodeAgreement'
  BY <1>0, BoundAssumption DEF Begins, PlanInv, NodeAgreement, TypeOK, Latest, Settled, Attempts
<1>2. SuspendedIffOpen'
  BY DEF Begins, PlanInv, SuspendedIffOpen, TypeOK
<1>3. DependencyOrder'
  BY PlanAssumption DEF Begins, PlanInv, DependencyOrder, TypeOK
<1> QED
  BY <1>1, <1>2, <1>3 DEF PlanInv

LEMMA SubmitsInv ==
    ASSUME TypeOK, PlanInv, NEW n \in Nodes, NEW k \in 1..MaxTries, Submits(n, k)
    PROVE  PlanInv'
<1>0. k = tries[n] /\ tries[n] > 0 /\ node[n] = "running"
  BY LiveIsLatest DEF Submits, PlanInv, NodeAgreement
<1>1. NodeAgreement'
  BY <1>0, BoundAssumption DEF Submits, PlanInv, NodeAgreement, TypeOK, Latest, Settled, Attempts
<1>2. SuspendedIffOpen'
  BY <1>0 DEF Submits, PlanInv, SuspendedIffOpen, TypeOK
<1>3. DependencyOrder'
  BY <1>0, PlanAssumption DEF Submits, PlanInv, DependencyOrder, TypeOK
<1> QED
  BY <1>1, <1>2, <1>3 DEF PlanInv

LEMMA SettlesInv ==
    ASSUME TypeOK, PlanInv, NEW n \in Nodes, NEW k \in 1..MaxTries, Settles(n, k)
    PROVE  PlanInv'
<1> PICK status \in Settled, stopped \in {"failed", "stalled", "suspended"} :
        /\ Settle(n, k, status, stopped)
        /\ status = "succeeded" => stopped = "failed"
        /\ open' = IF stopped = "suspended" THEN open \cup {n} ELSE open
  BY DEF Settles
<1>0. k = tries[n] /\ tries[n] > 0 /\ node[n] = "running"
  BY LiveIsLatest DEF Settle, PlanInv, NodeAgreement
<1>1. NodeAgreement'
  BY <1>0, BoundAssumption DEF Settle, PlanInv, NodeAgreement, TypeOK, Latest, Settled, Attempts
<1>2. SuspendedIffOpen'
  BY <1>0 DEF Settle, PlanInv, SuspendedIffOpen, TypeOK
<1>3. DependencyOrder'
  BY <1>0, PlanAssumption DEF Settle, PlanInv, DependencyOrder, TypeOK
<1> QED
  BY <1>1, <1>2, <1>3 DEF PlanInv

LEMMA QuietsInv ==
    ASSUME TypeOK, PlanInv, Quiets
    PROVE  PlanInv'
<1>1. \A n \in Nodes : node'[n] = IF node[n] = "running" THEN "failed" ELSE node[n]
  <2> TAKE n \in Nodes
  <2>1. (\E k \in 1..MaxTries : <<n, k>> \in Running) <=> node[n] = "running"
    <3>1. CASE \E k \in 1..MaxTries : <<n, k>> \in Running
      BY <3>1, LiveIsLatest DEF Running, InStatus, PlanInv, NodeAgreement
    <3>2. CASE node[n] = "running"
      BY <3>2, BoundAssumption DEF Running, InStatus, PlanInv, NodeAgreement, TypeOK, Latest, Attempts
    <3> QED
      BY <3>1, <3>2
  <2> QED
    BY <2>1 DEF Quiets, FailedNodes, TypeOK
<1>2. \A a \in Attempts :
        ast'[a] \in {IF ast[a] = "running" THEN "interrupted" ELSE ast[a],
                     IF ast[a] = "running" THEN "interrupted"
                     ELSE IF ast[a] = "pending" THEN "cancelled" ELSE ast[a]}
  BY DEF Quiets, Interrupted, Unqueued, Running, InStatus, TypeOK
<1>3. NodeAgreement'
  <2> SUFFICES ASSUME NEW n \in Nodes
               PROVE  /\ \A k \in 1..MaxTries : /\ k > tries[n] => ast'[<<n, k>>] = "none"
                                                /\ k < tries[n] => ast'[<<n, k>>] \in Settled
                      /\ tries[n] = 0 => node'[n] = "pending"
                      /\ tries[n] > 0 =>
                           LET last == ast'[Latest(n)]
                           IN  /\ last # "none" /\ (node'[n] = "running" <=> last = "running")
                               /\ last = "pending" => node'[n] = "ready"
                               /\ node'[n] \in {"candidate", "verifying", "completed"} => last = "succeeded"
                               /\ node'[n] \in {"pending", "stalled", "suspended"} => last \in Settled \ {"succeeded"}
    BY DEF Quiets, NodeAgreement, Latest
  <2>1. \A k \in 1..MaxTries : /\ k > tries[n] => ast'[<<n, k>>] = "none"
                               /\ k < tries[n] => ast'[<<n, k>>] \in Settled
    BY <1>2 DEF PlanInv, NodeAgreement, Settled, Attempts
  <2>2. tries[n] > 0 => Latest(n) \in Attempts
    BY DEF TypeOK, Latest, Attempts
  <2> QED
    BY <1>1, <1>2, <2>1, <2>2 DEF PlanInv, NodeAgreement, Settled
<1>4. SuspendedIffOpen'
  BY <1>1 DEF Quiets, PlanInv, SuspendedIffOpen
<1>5. DependencyOrder'
  BY <1>1, PlanAssumption DEF PlanInv, DependencyOrder
<1> QED
  BY <1>3, <1>4, <1>5 DEF PlanInv

LEMMA QueueInv ==
    ASSUME TypeOK, PlanInv, Queue
    PROVE  PlanInv'
<1>1. CASE UNCHANGED <<tries, ast>> /\ node' \in {node, RetryReleased}
  <2>1. \A n \in Nodes : node'[n] \in {node[n], IF node[n] = "stalled" THEN "pending" ELSE node[n]}
    BY <1>1 DEF RetryReleased, TypeOK
  <2>2. UNCHANGED open
    BY DEF Queue, help
  <2>3. NodeAgreement'
    BY <1>1, <2>1 DEF PlanInv, NodeAgreement, Latest
  <2>4. SuspendedIffOpen' /\ DependencyOrder'
    BY <2>1, <2>2, PlanAssumption DEF PlanInv, SuspendedIffOpen, DependencyOrder
  <2> QED
    BY <2>3, <2>4 DEF PlanInv
<1>2. CASE ~(UNCHANGED <<tries, ast>> /\ node' \in {node, RetryReleased})
  <2>1. PICK S \in SUBSET Nodes :
          /\ \A n \in S : /\ RetryReleased[n] \in {"ready", "pending"} /\ Idle(n) /\ tries[n] < MaxTries
                          /\ RetryReleased[n] = "pending" => DepsDone(n)
          /\ node' = [n \in Nodes |-> IF n \in S THEN "ready" ELSE RetryReleased[n]]
          /\ tries' = [n \in Nodes |-> IF n \in S THEN tries[n] + 1 ELSE tries[n]]
          /\ ast' = [a \in Attempts |-> IF a[1] \in S /\ a[2] = tries[a[1]] + 1 THEN "pending" ELSE ast[a]]
    BY <1>2 DEF Queue, plan
  <2>2. UNCHANGED open
    BY DEF Queue, help
  <2>3. \A n \in Nodes, k \in 1..MaxTries :
          ast'[<<n, k>>] = IF n \in S /\ k = tries[n] + 1 THEN "pending" ELSE ast[<<n, k>>]
    BY <2>1 DEF Attempts
  <2>4. \A n \in Nodes : RetryReleased[n] = IF node[n] = "stalled" THEN "pending" ELSE node[n]
    BY DEF RetryReleased
  <2>9. \A n \in Nodes :
          /\ node'[n] = IF n \in S THEN "ready" ELSE RetryReleased[n]
          /\ tries'[n] = IF n \in S THEN tries[n] + 1 ELSE tries[n]
    BY <2>1
  <2>5. NodeAgreement'
    <3> SUFFICES ASSUME NEW n \in Nodes
                 PROVE  /\ \A k \in 1..MaxTries : /\ k > tries'[n] => ast'[<<n, k>>] = "none"
                                                  /\ k < tries'[n] => ast'[<<n, k>>] \in Settled
                        /\ tries'[n] = 0 => node'[n] = "pending"
                        /\ tries'[n] > 0 =>
                             LET last == ast'[<<n, tries'[n]>>]
                             IN  /\ last # "none" /\ (node'[n] = "running" <=> last = "running")
                                 /\ last = "pending" => node'[n] = "ready"
                                 /\ node'[n] \in {"candidate", "verifying", "completed"} => last = "succeeded"
                                 /\ node'[n] \in {"pending", "stalled", "suspended"} => last \in Settled \ {"succeeded"}
      BY DEF NodeAgreement, Latest
    <3>1. tries[n] \in 0..MaxTries /\ MaxTries \in Nat
      BY BoundAssumption DEF TypeOK
    <3>2. CASE n \in S
      <4>0. tries[n] < MaxTries /\ Idle(n)
        BY <2>1, <3>2
      <4>1. tries'[n] = tries[n] + 1 /\ tries'[n] \in 1..MaxTries /\ node'[n] = "ready"
        BY <2>9, <3>1, <3>2, <4>0
      <4>2. \A k \in 1..MaxTries : ast[<<n, k>>] \notin {"pending", "running"}
        BY <4>0 DEF Idle, Active, InStatus, Attempts
      <4>3. tries[n] > 0 => ast[<<n, tries[n]>>] \in Settled
        BY <3>1, <4>2 DEF PlanInv, NodeAgreement, TypeOK, Latest, Attempts, AttemptStatus
      <4>4. ast'[<<n, tries'[n]>>] = "pending"
        BY <2>3, <3>2, <4>1
      <4>5. \A k \in 1..MaxTries : /\ k > tries'[n] => ast'[<<n, k>>] = "none"
                                   /\ k < tries'[n] => ast'[<<n, k>>] \in Settled
        <5> TAKE k \in 1..MaxTries
        <5>1. CASE k > tries'[n]
          BY <5>1, <2>3, <3>1, <4>1 DEF PlanInv, NodeAgreement
        <5>2. CASE k < tries'[n]
          BY <5>2, <2>3, <3>1, <4>1, <4>3 DEF PlanInv, NodeAgreement
        <5> QED
          BY <5>1, <5>2, <3>1, <4>1
      <4> QED
        BY <3>1, <4>1, <4>4, <4>5 DEF Settled
    <3>3. CASE n \notin S
      <4>1. tries'[n] = tries[n] /\ node'[n] = RetryReleased[n]
        BY <2>9, <3>3
      <4>2. \A k \in 1..MaxTries : ast'[<<n, k>>] = ast[<<n, k>>]
        BY <2>3, <3>3
      <4> QED
        BY <2>4, <3>1, <4>1, <4>2 DEF PlanInv, NodeAgreement, Latest
    <3> QED
      BY <3>2, <3>3
  <2>6. SuspendedIffOpen'
    BY <2>1, <2>2, <2>4, <2>9 DEF PlanInv, SuspendedIffOpen
  <2>7. DependencyOrder'
    <3> SUFFICES ASSUME NEW n \in Nodes, node'[n] # "pending", NEW d \in Deps[n]
                 PROVE  node'[d] = "completed"
      BY DEF DependencyOrder
    <3>1. d \in Nodes
      BY PlanAssumption
    <3>2. node[n] # "pending" \/ DepsDone(n)
      BY <2>1, <2>4, <2>9
    <3>3. node[d] = "completed"
      BY <3>2 DEF PlanInv, DependencyOrder, DepsDone
    <3>4. d \notin S
      BY <2>1, <2>4, <3>1, <3>3
    <3> QED
      BY <2>4, <2>9, <3>1, <3>3, <3>4
  <2> QED
    BY <2>5, <2>6, <2>7 DEF PlanInv
<1> QED
  BY <1>1, <1>2

LEMMA ResumeInv ==
    ASSUME TypeOK, PlanInv, Resume
    PROVE  PlanInv'
<1>1. UNCHANGED <<tries, ast, open>>
  BY DEF Resume, help
<1>2. \A n \in Nodes : node'[n] = IF node[n] = "failed" THEN "ready" ELSE node[n]
  BY DEF Resume, ResumedNodes
<1>3. NodeAgreement'
  BY <1>1, <1>2 DEF PlanInv, NodeAgreement, Latest
<1>4. SuspendedIffOpen' /\ DependencyOrder'
  BY <1>1, <1>2, PlanAssumption DEF PlanInv, SuspendedIffOpen, DependencyOrder
<1> QED
  BY <1>3, <1>4 DEF PlanInv

LEMMA ReplyInv ==
    ASSUME TypeOK, PlanInv, NEW n \in Nodes, Reply(n)
    PROVE  PlanInv'
<1>1. /\ node[n] = "suspended" /\ node' = [node EXCEPT ![n] = "pending"] /\ open' = open \ {n}
      /\ UNCHANGED <<tries, ast>>
  BY DEF Reply
<1>2. NodeAgreement'
  BY <1>1 DEF PlanInv, NodeAgreement, Latest, TypeOK
<1>3. SuspendedIffOpen' /\ DependencyOrder'
  BY <1>1, PlanAssumption DEF PlanInv, SuspendedIffOpen, DependencyOrder, TypeOK
<1> QED
  BY <1>2, <1>3 DEF PlanInv

\* every step does one of these to the plan, its Attempts and its interventions
PlanStep ==
    \/ UNCHANGED <<node, tries, ast, open>>
    \/ Queue \/ Resume \/ Quiets
    \/ \E n \in Nodes : Judged(n) \/ Reply(n)
    \/ \E n \in Nodes, k \in 1..MaxTries : Start(n, k) \/ Submits(n, k) \/ Settles(n, k)

LEMMA FinishGateStep ==
    ASSUME TypeOK, NEW n \in Nodes, FinishGate(n), UNCHANGED <<tries, ast, open>>
    PROVE  Judged(n) \/ UNCHANGED <<node, tries, ast, open>>
BY DEF FinishGate, GatePasses, GateFails, Accepted, Judged

LEMMA TaskPlanStep ==
    ASSUME TypeOK, NEW n \in Nodes, NEW k \in 1..MaxTries, TaskStep(n, k)
    PROVE  Submits(n, k) \/ Settles(n, k) \/ UNCHANGED <<node, tries, ast, open>>
<1>1. CASE Bind(n, k) \/ Recovered(n, k) \/ Refused(n, k) \/ Break(n, k) \/ Late(n, k)
  BY <1>1 DEF Bind, Recovered, Refused, Break, Late, durable, plan, help
<1>2. CASE BudgetFailure(n, k) \/ ArtifactFailure(n, k) \/ Interrupt(n, k) \/ TimeOut(n, k)
  <2>1. /\ \E status \in Settled : Settle(n, k, status, "failed")
        /\ open' = open
    BY <1>2 DEF BudgetFailure, ArtifactFailure, Interrupt, TimeOut, Settled, help
  <2> QED
    BY <2>1 DEF Settles
<1>3. CASE Candidate(n, k)
  BY <1>3 DEF Candidate, Submits, help
<1>4. CASE Block(n, k)
  <2>1. Settle(n, k, "interrupted", "suspended") /\ open' = open \cup {n}
    BY <1>4 DEF Block
  <2> QED
    BY <2>1 DEF Settles, Settled
<1>5. CASE Retry(n, k)
  <2>1. PICK status \in {"failed", "timed_out", "interrupted"} :
          Settle(n, k, status, IF Consumed(n) >= AttemptBudget THEN "suspended" ELSE "stalled")
    BY <1>5 DEF Retry
  <2>2. open' = IF Consumed(n) >= AttemptBudget THEN open \cup {n} ELSE open
    BY <1>5 DEF Retry, help
  <2>3. CASE Consumed(n) >= AttemptBudget
    BY <2>1, <2>2, <2>3 DEF Settles, Settled
  <2>4. CASE ~(Consumed(n) >= AttemptBudget)
    BY <2>1, <2>2, <2>4 DEF Settles, Settled
  <2> QED
    BY <2>3, <2>4
<1> QED
  BY <1>1, <1>2, <1>3, <1>4, <1>5 DEF TaskStep

LEMMA NextPlanStep ==
    ASSUME TypeOK, [Next]_vars
    PROVE  PlanStep
<1>1. CASE Loop
  <2>1. CASE ConvergeDone
    BY <2>1 DEF ConvergeDone, Quiets, PlanStep, help
  <2>2. CASE Queue
    BY <2>2 DEF PlanStep
  <2>3. CASE Iterate \/ Select \/ HandleDone \/ Release \/ SettleWait \/ Startup \/ RecoverStartup \/ Gather
    BY <2>3 DEF Iterate, Select, HandleDone, Release, SettleWait, Startup, RecoverStartup, Gather,
       PlanStep, durable, plan, help
  <2> QED
    BY <1>1, <2>1, <2>2, <2>3 DEF Loop
<1>2. CASE Operator
  <2>1. CASE Commit
    BY <2>1 DEF Commit, Quiets, PlanStep, help
  <2>2. CASE Quiesce \/ ReleaseDispatch \/ Resume
    BY <2>2 DEF Quiesce, ReleaseDispatch, PlanStep, durable, plan, help
  <2> QED
    BY <1>2, <2>1, <2>2 DEF Operator
<1>3. CASE Process
  BY <1>3 DEF Process, Crash, Restart, LeaseExpires, PlanStep, durable, plan, help
<1>4. CASE \E n \in Nodes : Verify(n) \/ People(n)
  <2> PICK n \in Nodes : Verify(n) \/ People(n)
    BY <1>4
  <2>1. CASE VerifyEnter(n)
    BY <2>1 DEF VerifyEnter, Accepted, Judged, PlanStep, plan, help
  <2>2. CASE VerifyCheck(n) \/ Decide(n)
    BY <2>2 DEF VerifyCheck, Decide, PlanStep, plan, help
  <2>3. CASE VerifyGate(n) \/ ThreadGate(n)
    <3>1. FinishGate(n) /\ UNCHANGED <<tries, ast, open>>
      BY <2>3 DEF VerifyGate, ThreadGate, help
    <3> QED
      BY <3>1, FinishGateStep DEF PlanStep
  <2>4. CASE Reply(n)
    BY <2>4 DEF PlanStep
  <2> QED
    BY <2>1, <2>2, <2>3, <2>4 DEF Verify, People
<1>5. CASE \E n \in Nodes, k \in 1..MaxTries : Start(n, k) \/ TaskStep(n, k)
  <2> PICK n \in Nodes, k \in 1..MaxTries : Start(n, k) \/ TaskStep(n, k)
    BY <1>5
  <2>1. CASE Start(n, k)
    BY <2>1 DEF PlanStep
  <2>2. CASE TaskStep(n, k)
    BY <2>2, TaskPlanStep DEF PlanStep
  <2> QED
    BY <2>1, <2>2
<1>6. CASE UNCHANGED vars
  BY <1>6 DEF vars, durable, PlanStep
<1> QED
  BY <1>1, <1>2, <1>3, <1>4, <1>5, <1>6 DEF Next

LEMMA PlanStepInv ==
    ASSUME TypeOK, PlanInv, PlanStep
    PROVE  PlanInv'
<1>1. CASE UNCHANGED <<node, tries, ast, open>>
  BY <1>1 DEF PlanInv, NodeAgreement, SuspendedIffOpen, DependencyOrder, Latest
<1>2. CASE Queue \/ Resume \/ Quiets
  BY <1>2, QueueInv, ResumeInv, QuietsInv
<1>3. CASE \E n \in Nodes : Judged(n) \/ Reply(n)
  BY <1>3, JudgedInv, ReplyInv
<1>4. CASE \E n \in Nodes, k \in 1..MaxTries : Start(n, k) \/ Submits(n, k) \/ Settles(n, k)
  <2>1. \A n \in Nodes, k \in 1..MaxTries : Start(n, k) => Begins(n, k)
    BY DEF Start, Begins, help
  <2> QED
    BY <1>4, <2>1, BeginsInv, SubmitsInv, SettlesInv
<1> QED
  BY <1>1, <1>2, <1>3, <1>4 DEF PlanStep

LEMMA PlanInvAlways == Spec => []PlanInv
<1>1. Init => PlanInv
  BY BoundAssumption DEF Init, PlanInv, NodeAgreement, SuspendedIffOpen, DependencyOrder, Attempts
<1>2. TypeOK /\ PlanInv /\ [Next]_vars => PlanInv'
  BY NextPlanStep, PlanStepInv
<1> QED
  BY <1>1, <1>2, TypeCorrect, PTL DEF Spec

\* Nodes and Attempts always tell the same story.
THEOREM NodesAgree == Spec => []NodeAgreement
BY PlanInvAlways, PTL DEF PlanInv

\* A node is suspended exactly while a person owes it an answer.
THEOREM SuspensionIsHonoured == Spec => []SuspendedIffOpen
BY PlanInvAlways, PTL DEF PlanInv

\* No node leaves PENDING before everything it depends on was accepted.
THEOREM DependenciesFirst == Spec => []DependencyOrder
BY PlanInvAlways, PTL DEF PlanInv

LEMMA PlanStepSettled ==
    ASSUME TypeOK, PlanInv, PlanStep
    PROVE  \A a \in Attempts : ast[a] \in Settled => ast'[a] = ast[a]
<1>1. CASE UNCHANGED <<node, tries, ast, open>>
  BY <1>1
<1>2. CASE Queue
  <2>1. \A n \in Nodes, k \in 1..MaxTries :
          ast'[<<n, k>>] = ast[<<n, k>>] \/ k = tries[n] + 1
    BY <1>2 DEF Queue, plan, Attempts
  <2>2. \A n \in Nodes, k \in 1..MaxTries : k = tries[n] + 1 => ast[<<n, k>>] = "none"
    BY BoundAssumption DEF PlanInv, NodeAgreement, TypeOK
  <2> QED
    BY <2>1, <2>2 DEF Settled, Attempts
<1>3. CASE Resume
  BY <1>3 DEF Resume
<1>4. CASE Quiets
  BY <1>4 DEF Quiets, Interrupted, Unqueued, Running, InStatus, Settled
<1>5. CASE \E n \in Nodes : Judged(n) \/ Reply(n)
  BY <1>5 DEF Judged, Reply
<1>6. CASE \E n \in Nodes, k \in 1..MaxTries : Start(n, k) \/ Submits(n, k) \/ Settles(n, k)
  BY <1>6 DEF Start, Submits, Settles, Settle, Settled, TypeOK, Attempts
<1> QED
  BY <1>1, <1>2, <1>3, <1>4, <1>5, <1>6 DEF PlanStep

\* No step of anyone changes an Attempt that has been settled.
THEOREM SettledForGood == Spec => SettledOnce
<1>1. TypeOK /\ PlanInv /\ [Next]_vars
        => [\A a \in Attempts : ast[a] \in Settled => ast'[a] = ast[a]]_vars
  BY NextPlanStep, PlanStepSettled
<1> QED
  BY <1>1, TypeCorrect, PlanInvAlways, PTL DEF Spec, SettledOnce

-----------------------------------------------------------------------------
(* How a step may change the status of the Run.                            *)

\* nothing new is queued, and only what is queued or running gets a task
Drains == Active' \subseteq Active /\ Live' \subseteq Live \cup Active

\* every step does one of these to the Run
OutcomeStep ==
    \/ UNCHANGED <<run, cause>> /\ Drains
    \/ run # "cancelled" /\ run' = "running"
    \/ run # "cancelled" /\ run' \in {"completed", "failed"} /\ Drains
    \/ run # "cancelled" /\ run' = "paused" /\ (cause' = "unknown" \/ Active' = {})
    \/ run' = "cancelled" /\ Active' = {} /\ Live' = {}

QuietInv == DrainedPause /\ CancelledIsQuiet

LEMMA SameDrains ==
    ASSUME UNCHANGED <<ast, task>>
    PROVE  Drains
BY DEF Drains, Active, Live, InStatus

LEMMA LoopOutcome ==
    ASSUME TypeOK, Loop
    PROVE  OutcomeStep
<1>1. CASE Iterate
  <2>1. UNCHANGED <<run, cause, ast>>
    BY <1>1 DEF Iterate, plan
  <2>2. task' = task \/ \E S \in SUBSET Unowned : RecoverUnowned(S)
    BY <1>1 DEF Iterate
  <2>3. Drains
    BY <2>1, <2>2 DEF RecoverUnowned, Unowned, Running, Drains, Active, Live, InStatus
  <2> QED
    BY <2>1, <2>3 DEF OutcomeStep
<1>2. CASE Queue
  <2>1. task' = task
    BY <1>2 DEF Queue
  <2>2. CASE run \in {"pending", "running"}
    <3>1. run' = "running" \/ (run' = "paused" /\ ast' = ast /\ Active = {})
      BY <1>2, <2>2 DEF Queue
    <3>2. ast' = ast => Active' = Active
      BY DEF Active, InStatus
    <3> QED
      BY <2>2, <3>1, <3>2 DEF OutcomeStep
  <2>3. CASE run \notin {"pending", "running"}
    BY <1>2, <2>1, <2>3, SameDrains DEF Queue, plan, OutcomeStep
  <2> QED
    BY <2>2, <2>3
<1>3. CASE Select \/ Release \/ SettleWait \/ Startup
  <2>1. UNCHANGED <<run, cause, ast, task>>
    BY <1>3 DEF Select, Release, SettleWait, Startup, durable, plan
  <2> QED
    BY <2>1, SameDrains DEF OutcomeStep
<1>4. CASE HandleDone \/ Gather
  <2>1. UNCHANGED <<run, cause, ast>> /\ Harvest
    BY <1>4 DEF HandleDone, Gather, plan
  <2>2. Drains
    BY <2>1 DEF Harvest, Drains, Active, Live, InStatus, LiveTask
  <2> QED
    BY <2>1, <2>2 DEF OutcomeStep
<1>5. CASE RecoverStartup
  <2>1. UNCHANGED <<run, cause, ast>> /\ \E S \in SUBSET Unowned : RecoverUnowned(S)
    BY <1>5 DEF RecoverStartup, durable
  <2>2. Drains
    BY <2>1 DEF RecoverUnowned, Unowned, Running, Drains, Active, Live, InStatus
  <2> QED
    BY <2>1, <2>2 DEF OutcomeStep
<1>6. CASE ConvergeDone
  <2>1. task' = [a \in Attempts |-> "none"] /\ Live' = {}
    BY <1>6 DEF ConvergeDone, Live, LiveTask
  <2>2. CASE "converge" \in qerr
    BY <1>6, <2>1, <2>2 DEF ConvergeDone, OutcomeStep, Drains, Active, InStatus
  <2>3. CASE "converge" \notin qerr
    <3>1. ast' = Unqueued(Interrupted(Running))
      BY <1>6, <2>3 DEF ConvergeDone
    <3>2. Active' = {}
      BY <3>1 DEF Unqueued, Interrupted, Running, Active, InStatus, TypeOK
    <3>3. run = "running" => run' = "paused"
      BY <1>6, <2>3 DEF ConvergeDone
    <3>4. run # "running" => UNCHANGED <<run, cause>>
      BY <1>6, <2>3 DEF ConvergeDone
    <3> QED
      BY <2>1, <3>2, <3>3, <3>4 DEF OutcomeStep, Drains
  <2> QED
    BY <2>2, <2>3
<1> QED
  BY <1>1, <1>2, <1>3, <1>4, <1>5, <1>6 DEF Loop

\* a verification leaves the Attempts alone, and it may complete or fail a running Run
LEMMA VerifyOutcome ==
    ASSUME TypeOK, NEW n \in Nodes, Verify(n) \/ ThreadGate(n)
    PROVE  OutcomeStep
<1>1. ast' = ast
  BY DEF Verify, VerifyEnter, VerifyCheck, VerifyGate, ThreadGate, plan
<1>2. \A a \in Attempts : task'[a] \in LiveTask => task[a] \in LiveTask
  <2>1. task' = task \/ \E x \in EndedTask \cup {task[Latest(n)]} : task' = [task EXCEPT ![Latest(n)] = x]
    BY DEF Verify, VerifyEnter, VerifyCheck, VerifyGate, ThreadGate, VerificationEnds, Returned, EndedTask
  <2> QED
    BY <2>1 DEF EndedTask, LiveTask, TypeOK
<1>3. Drains
  BY <1>1, <1>2 DEF Drains, Active, Live, InStatus
<1>4. UNCHANGED <<run, cause>> \/ (run = "running" /\ run' \in {"running", "completed", "failed"})
  BY DEF Verify, VerifyEnter, VerifyCheck, VerifyGate, ThreadGate, FinishGate, GatePasses, GateFails
<1> QED
  BY <1>3, <1>4 DEF OutcomeStep

LEMMA TaskOutcome ==
    ASSUME TypeOK, NEW n \in Nodes, NEW k \in 1..MaxTries, Start(n, k) \/ TaskStep(n, k)
    PROVE  OutcomeStep
<1> DEFINE a == <<n, k>>
<1>0. a \in Attempts
  BY DEF Attempts
<1>1. CASE Start(n, k)
  <2>1. UNCHANGED <<run, cause>> /\ ast[a] = "pending"
        /\ ast' = [ast EXCEPT ![a] = "running"] /\ task' = [task EXCEPT ![a] = "start"]
    BY <1>1 DEF Start
  <2> QED
    BY <1>0, <2>1 DEF OutcomeStep, Drains, Active, Live, InStatus, TypeOK
<1>2. CASE Bind(n, k) \/ Recovered(n, k) \/ Refused(n, k) \/ Break(n, k) \/ Late(n, k)
  <2>1. UNCHANGED <<run, cause, ast>>
    BY <1>2 DEF Bind, Recovered, Refused, Break, Late, durable, plan
  <2>2. task[a] \in LiveTask /\ \E x : task' = [task EXCEPT ![a] = x]
    BY <1>2 DEF Bind, Recovered, Refused, Break, Late, TaskIs, LiveTask
  <2> QED
    BY <1>0, <2>1, <2>2 DEF OutcomeStep, Drains, Active, Live, InStatus, TypeOK
<1>3. CASE Candidate(n, k)
  <2>1. UNCHANGED <<run, cause>> /\ task[a] \in LiveTask
        /\ ast' = [ast EXCEPT ![a] = "succeeded"] /\ task' = [task EXCEPT ![a] = "accept"]
    BY <1>3 DEF Candidate, TaskIs, LiveTask
  <2> QED
    BY <1>0, <2>1 DEF OutcomeStep, Drains, Active, Live, InStatus, TypeOK
<1>4. CASE BudgetFailure(n, k) \/ ArtifactFailure(n, k) \/ Block(n, k)
           \/ Retry(n, k) \/ Interrupt(n, k) \/ TimeOut(n, k)
  <2>1. \E status \in Settled : ast' = [ast EXCEPT ![a] = status]
    BY <1>4 DEF BudgetFailure, ArtifactFailure, Block, Retry, Interrupt, TimeOut, Settle, Settled
  <2>2. task[a] \in LiveTask /\ \E x \in EndedTask : task' = [task EXCEPT ![a] = x]
    BY <1>4 DEF BudgetFailure, ArtifactFailure, Block, Retry, Interrupt, TimeOut, TaskIs, Return,
       Returned, LiveTask, EndedTask
  <2>3. Drains
    BY <1>0, <2>1, <2>2 DEF Drains, Active, Live, InStatus, TypeOK, Settled
  <2>4. CASE Block(n, k)
    <3>1. UNCHANGED <<run, cause>> \/ (run = "running" /\ Active = {a} /\ run' = "paused")
      BY <2>4 DEF Block
    <3>2. Active = {a} => Active' = {}
      BY <1>0, <2>1 DEF Active, InStatus, TypeOK, Settled
    <3> QED
      BY <2>3, <3>1, <3>2 DEF OutcomeStep
  <2>5. CASE BudgetFailure(n, k) \/ ArtifactFailure(n, k)
    BY <2>3, <2>5 DEF BudgetFailure, ArtifactFailure, OutcomeStep
  <2>6. CASE Retry(n, k) \/ Interrupt(n, k) \/ TimeOut(n, k)
    BY <2>3, <2>6 DEF Retry, Interrupt, TimeOut, OutcomeStep
  <2> QED
    BY <1>4, <2>4, <2>5, <2>6
<1> QED
  BY <1>1, <1>2, <1>3, <1>4 DEF TaskStep

\* a pause or a cancellation that applies leaves nothing queued, running or executed
LEMMA CommitOutcome ==
    ASSUME TypeOK, Commit
    PROVE  OutcomeStep
<1> DEFINE applies == Live = {} /\ run \notin Over
<1>1. task' = task
  BY DEF Commit
<1>2. Live' = Live
  BY <1>1 DEF Live
<1>3. CASE "op" \in qerr
  BY <1>1, <1>3, SameDrains DEF Commit, OutcomeStep
<1>4. CASE "op" \notin qerr /\ applies
  <2>1. /\ ast' = Unqueued(Interrupted(Running))
        /\ run' = IF op = "pause" THEN "paused" ELSE "cancelled"
    BY <1>4 DEF Commit
  <2>2. Active' = {}
    BY <2>1 DEF Unqueued, Interrupted, Running, Active, InStatus, TypeOK
  <2> QED
    BY <1>2, <1>4, <2>1, <2>2 DEF OutcomeStep, Over
<1>5. CASE "op" \notin qerr /\ ~applies
  <2>1. /\ ast' = Interrupted(Running)
        /\ run' = IF Running # {} /\ run = "running" THEN "paused" ELSE run
        /\ cause' = IF Running # {} /\ run = "running" THEN "unknown" ELSE cause
    BY <1>5 DEF Commit
  <2>2. Drains
    BY <1>2, <2>1 DEF Interrupted, Running, Drains, Active, InStatus, TypeOK
  <2> QED
    BY <2>1, <2>2 DEF OutcomeStep
<1> QED
  BY <1>3, <1>4, <1>5

LEMMA NextOutcome ==
    ASSUME TypeOK, [Next]_vars
    PROVE  OutcomeStep
<1>1. CASE Quiesce \/ ReleaseDispatch \/ Restart \/ LeaseExpires \/ UNCHANGED vars
  <2>1. UNCHANGED <<run, cause, ast, task>>
    BY <1>1 DEF Quiesce, ReleaseDispatch, Restart, LeaseExpires, vars, durable, memory, plan
  <2> QED
    BY <2>1, SameDrains DEF OutcomeStep
<1>2. CASE Resume
  BY <1>2 DEF Resume, OutcomeStep
<1>3. CASE Crash
  BY <1>3 DEF Crash, plan, OutcomeStep, Drains, Active, Live, InStatus, LiveTask
<1>4. CASE \E n \in Nodes : Decide(n) \/ Reply(n)
  <2> PICK n \in Nodes : Decide(n) \/ Reply(n)
    BY <1>4
  <2>1. UNCHANGED <<ast, task>>
    BY DEF Decide, Reply, plan
  <2>2. UNCHANGED <<run, cause>> \/ (run = "running" /\ run' = "paused" /\ Active = {})
    BY DEF Decide, Reply, Drained
  <2>3. Active' = Active
    BY <2>1 DEF Active, InStatus
  <2> QED
    BY <2>1, <2>2, <2>3, SameDrains DEF OutcomeStep
<1> QED
  BY <1>1, <1>2, <1>3, <1>4, LoopOutcome, VerifyOutcome, TaskOutcome, CommitOutcome
  DEF Next, Operator, Process, Verify, People

LEMMA QuietAlways == Spec => []QuietInv
<1>1. Init => QuietInv
  BY DEF Init, QuietInv, DrainedPause, CancelledIsQuiet
<1>2. QuietInv /\ OutcomeStep => QuietInv'
  BY DEF QuietInv, DrainedPause, CancelledIsQuiet, OutcomeStep, Drains
<1>3. TypeOK /\ QuietInv /\ [Next]_vars => QuietInv'
  BY <1>2, NextOutcome
<1> QED
  BY <1>1, <1>3, TypeCorrect, PTL DEF Spec

\* A pause that promises a drained Run leaves nothing queued and nothing running, whoever
\* pauses and whatever ends at the same time (pause_run, hold, _pause_goal_budget).
THEOREM PausesDrain == Spec => []DrainedPause
BY QuietAlways, PTL DEF QuietInv

\* Nothing of a cancelled Run is queued, running or executed, and nothing starts again
\* (BackgroundRunController.cancel, quiesce_run).
THEOREM CancellationIsFinal == Spec => []CancelledIsQuiet
BY QuietAlways, PTL DEF QuietInv

-----------------------------------------------------------------------------
(* Unknown outcomes.                                                       *)

\* a Run that nobody has scheduled yet has no Attempt
Fresh == run = "pending" => \A a \in Attempts : ast[a] = "none"

UnknownInv == Fresh /\ UnknownStopsRun

Unknown(n) == node[n] = "failed" /\ ast[Latest(n)] \in {"interrupted", "timed_out"}

\* the Run goes on, and the one node that changes does not fail
Proceeds(n) ==
    /\ run' = run /\ tries' = tries /\ node'[n] # "failed"
    /\ \A m \in Nodes \ {n} : node'[m] = node[m] /\ \A k \in 1..MaxTries : ast'[<<m, k>>] = ast[<<m, k>>]

\* every step does one of these to nodes of unknown outcome
UnknownStep ==
    \/ run' # "running"
    \/ run' = run /\ UNCHANGED <<node, tries, ast>>
    \/ Queue \/ Resume
    \/ \E n \in Nodes : Proceeds(n)

LEMMA VerifyUnknown ==
    ASSUME TypeOK, NEW n \in Nodes, Verify(n) \/ ThreadGate(n)
    PROVE  UnknownStep
<1>1. UNCHANGED <<tries, ast>>
  BY DEF Verify, VerifyEnter, VerifyCheck, VerifyGate, ThreadGate, plan
<1>2. CASE UNCHANGED <<run, node>>
  BY <1>1, <1>2 DEF UnknownStep
<1>3. CASE VerifyEnter(n)
  <2>1. run' = run /\ (node' = node \/ \E x \in {"verifying", "completed"} : node' = [node EXCEPT ![n] = x])
    BY <1>3 DEF VerifyEnter, Accepted
  <2>2. CASE node' # node
    <3>1. Proceeds(n)
      BY <1>1, <2>1, <2>2 DEF Proceeds, TypeOK
    <3> QED
      BY <3>1 DEF UnknownStep
  <2> QED
    BY <1>1, <2>1, <2>2 DEF UnknownStep
<1>4. CASE GatePasses(n) \/ GateFails(n)
  <2>1. run' # "running" \/ (run' = run /\ \E x \in {"ready", "completed"} : node' = [node EXCEPT ![n] = x])
    BY <1>4 DEF GatePasses, GateFails, Accepted
  <2>2. run' # "running" \/ Proceeds(n)
    BY <1>1, <2>1 DEF Proceeds, TypeOK
  <2> QED
    BY <2>2 DEF UnknownStep
<1> QED
  BY <1>2, <1>3, <1>4 DEF Verify, VerifyCheck, VerifyGate, ThreadGate, FinishGate, plan

LEMMA TaskUnknown ==
    ASSUME TypeOK, NEW n \in Nodes, NEW k \in 1..MaxTries, Start(n, k) \/ TaskStep(n, k)
    PROVE  UnknownStep
<1>1. CASE Bind(n, k) \/ Recovered(n, k) \/ Refused(n, k) \/ Break(n, k) \/ Late(n, k)
  <2>1. UNCHANGED <<run, node, tries, ast>>
    BY <1>1 DEF Bind, Recovered, Refused, Break, Late, durable, plan
  <2> QED
    BY <2>1 DEF UnknownStep
<1>2. CASE BudgetFailure(n, k) \/ ArtifactFailure(n, k) \/ Interrupt(n, k) \/ TimeOut(n, k)
  <2>1. run' # "running"
    BY <1>2 DEF BudgetFailure, ArtifactFailure, Interrupt, TimeOut
  <2> QED
    BY <2>1 DEF UnknownStep
<1>3. CASE Start(n, k) \/ Candidate(n, k) \/ Block(n, k) \/ Retry(n, k)
  <2>1. /\ tries' = tries
        /\ \E x \in {"running", "candidate", "suspended", "stalled"} : node' = [node EXCEPT ![n] = x]
        /\ \E x : ast' = [ast EXCEPT ![<<n, k>>] = x]
    BY <1>3 DEF Start, Candidate, Block, Retry, Settle
  <2>2. run' # "running" \/ run' = run
    BY <1>3 DEF Start, Candidate, Block, Retry
  <2>3. run' # "running" \/ Proceeds(n)
    BY <2>1, <2>2 DEF Proceeds, TypeOK, Attempts
  <2> QED
    BY <2>3 DEF UnknownStep
<1> QED
  BY <1>1, <1>2, <1>3 DEF TaskStep

\* what is still running when the host quiesces becomes unknown, and then the Run is stopped
LEMMA QuiesceUnknown ==
    ASSUME TypeOK, Commit \/ ConvergeDone
    PROVE  UnknownStep
<1>1. CASE UNCHANGED <<run, node, ast>>
  BY <1>1 DEF Commit, ConvergeDone, UnknownStep
<1>2. CASE ConvergeDone
  <2>1. run' # "running" \/ UNCHANGED <<run, node, ast>>
    BY <1>2 DEF ConvergeDone
  <2> QED
    BY <1>1, <2>1 DEF UnknownStep
<1>3. CASE Commit
  <2>1. UNCHANGED <<run, node, ast>> \/ run' # "running" \/ (Running = {} /\ run' = run
          /\ node' = FailedNodes(Running) /\ ast' = Interrupted(Running) /\ tries' = tries)
    BY <1>3 DEF Commit
  <2>2. CASE Running = {} /\ run' = run /\ node' = FailedNodes(Running)
             /\ ast' = Interrupted(Running) /\ tries' = tries
    BY <2>2 DEF FailedNodes, Interrupted, UnknownStep, TypeOK
  <2> QED
    BY <1>1, <2>1, <2>2 DEF UnknownStep
<1> QED
  BY <1>2, <1>3

LEMMA NextUnknown ==
    ASSUME TypeOK, [Next]_vars
    PROVE  UnknownStep
<1>1. CASE Iterate \/ Select \/ HandleDone \/ Release \/ SettleWait \/ Startup \/ RecoverStartup \/ Gather
           \/ Quiesce \/ ReleaseDispatch \/ Process \/ UNCHANGED vars
  <2>1. UNCHANGED <<run, node, tries, ast>>
    BY <1>1 DEF Iterate, Select, HandleDone, Release, SettleWait, Startup, RecoverStartup, Gather,
       Quiesce, ReleaseDispatch, Process, Crash, Restart, LeaseExpires, vars, durable, plan
  <2> QED
    BY <2>1 DEF UnknownStep
<1>2. CASE Queue \/ Resume
  BY <1>2 DEF UnknownStep
<1>3. CASE \E n \in Nodes : Decide(n) \/ Reply(n)
  <2> PICK n \in Nodes : Decide(n) \/ Reply(n)
    BY <1>3
  <2>1. CASE Decide(n)
    BY <2>1 DEF Decide, plan, UnknownStep
  <2>2. CASE Reply(n)
    <3>1. Proceeds(n)
      BY <2>2 DEF Reply, Proceeds, TypeOK
    <3> QED
      BY <3>1 DEF UnknownStep
  <2> QED
    BY <2>1, <2>2
<1> QED
  BY <1>1, <1>2, <1>3, VerifyUnknown, TaskUnknown, QuiesceUnknown DEF Next, Loop, Operator, Verify, People

\* a Run that has just been scheduled has no failed node, and one that was running keeps its nodes
LEMMA QueueUnknown ==
    ASSUME TypeOK, NodeAgreement, UnknownInv, Queue, run' = "running"
    PROVE  UnknownStopsRun'
<1>1. run \in {"pending", "running"}
  BY DEF Queue
<1>2. \A n \in Nodes : ~Unknown(n)
  <2>1. CASE run = "running"
    BY <2>1 DEF UnknownInv, UnknownStopsRun, Unknown
  <2>2. CASE run = "pending"
    <3>1. \A n \in Nodes : tries[n] > 0 => Latest(n) \in Attempts
      BY DEF TypeOK, Latest, Attempts
    <3>2. \A n \in Nodes : tries[n] = 0
      BY <2>2, <3>1 DEF UnknownInv, Fresh, NodeAgreement, TypeOK
    <3> QED
      BY <3>2 DEF NodeAgreement, Unknown
  <2> QED
    BY <1>1, <2>1, <2>2
<1>3. PICK S \in SUBSET Nodes :
        /\ node' = [n \in Nodes |-> IF n \in S THEN "ready" ELSE RetryReleased[n]]
        /\ tries' = [n \in Nodes |-> IF n \in S THEN tries[n] + 1 ELSE tries[n]]
        /\ ast' = [a \in Attempts |-> IF a[1] \in S /\ a[2] = tries[a[1]] + 1 THEN "pending" ELSE ast[a]]
  BY <1>1 DEF Queue
<1>4. ASSUME NEW n \in Nodes, node'[n] = "failed"
      PROVE  ast'[Latest(n)'] \notin {"interrupted", "timed_out"}
  <2>1. n \notin S /\ node[n] = "failed" /\ tries'[n] = tries[n]
    BY <1>3, <1>4 DEF RetryReleased
  <2>2. Latest(n) \in Attempts
    BY <2>1 DEF NodeAgreement, TypeOK, Latest, Attempts
  <2>3. Latest(n)' = Latest(n) /\ ast'[Latest(n)] = ast[Latest(n)]
    BY <1>3, <2>1, <2>2 DEF Latest
  <2> QED
    BY <1>2, <2>1, <2>3 DEF Unknown
<1> QED
  BY <1>4 DEF UnknownStopsRun

LEMMA FreshStep ==
    ASSUME TypeOK, PlanInv, Fresh, PlanStep, [Next]_vars
    PROVE  Fresh'
<1> SUFFICES ASSUME run' = "pending"
             PROVE  \A a \in Attempts : ast'[a] = "none"
  BY DEF Fresh
<1>1. run = "pending"
  BY NextOutcome DEF OutcomeStep
<1>2. \A a \in Attempts : ast[a] = "none"
  BY <1>1 DEF Fresh
<1>3. CASE UNCHANGED <<node, tries, ast, open>> \/ Resume
  BY <1>2, <1>3 DEF Resume
<1>4. CASE Queue
  BY <1>1, <1>4 DEF Queue
<1>5. CASE Quiets
  BY <1>2, <1>5 DEF Quiets, Interrupted, Unqueued, Running, InStatus
<1>6. CASE \E n \in Nodes : Judged(n) \/ Reply(n)
  BY <1>2, <1>6 DEF Judged, Reply
<1>7. CASE \E n \in Nodes, k \in 1..MaxTries : Start(n, k) \/ Submits(n, k) \/ Settles(n, k)
  BY <1>2, <1>7 DEF Start, Submits, Settles, Settle, Attempts
<1> QED
  BY <1>3, <1>4, <1>5, <1>6, <1>7 DEF PlanStep

LEMMA UnknownStepInv ==
    ASSUME TypeOK, NodeAgreement, UnknownInv, UnknownStep
    PROVE  UnknownStopsRun'
<1>1. CASE run' # "running"
  BY <1>1 DEF UnknownStopsRun
<1>2. CASE run' = run /\ UNCHANGED <<node, tries, ast>>
  BY <1>2 DEF UnknownInv, UnknownStopsRun, Latest
<1>3. CASE Queue
  BY <1>1, <1>3, QueueUnknown
<1>4. CASE Resume
  BY <1>4 DEF Resume, ResumedNodes, UnknownStopsRun
<1>5. CASE \E n \in Nodes : Proceeds(n)
  <2> PICK n \in Nodes : Proceeds(n)
    BY <1>5
  <2> SUFFICES ASSUME run' = "running", NEW m \in Nodes, node'[m] = "failed"
               PROVE  ast'[Latest(m)'] \notin {"interrupted", "timed_out"}
    BY DEF UnknownStopsRun
  <2>1. m # n /\ node[m] = "failed" /\ run = "running" /\ tries'[m] = tries[m]
    BY DEF Proceeds
  <2>2. tries[m] \in 1..MaxTries
    BY <2>1, BoundAssumption DEF NodeAgreement, TypeOK
  <2>3. Latest(m)' = Latest(m) /\ ast'[Latest(m)] = ast[Latest(m)]
    BY <2>1, <2>2 DEF Latest, Proceeds
  <2> QED
    BY <2>1, <2>3 DEF UnknownInv, UnknownStopsRun
<1> QED
  BY <1>1, <1>2, <1>3, <1>4, <1>5 DEF UnknownStep

\* While the outcome of an Attempt is unknown nothing runs beside or after it, until the
\* operator resumes the Run (interrupt_attempt, time_out_attempt, resume).
THEOREM UnknownOutcomesStop == Spec => []UnknownStopsRun
<1>1. Init => UnknownInv
  BY DEF Init, UnknownInv, Fresh, UnknownStopsRun
<1>2. TypeOK /\ PlanInv /\ UnknownInv /\ [Next]_vars => UnknownInv'
  BY NextPlanStep, NextUnknown, FreshStep, UnknownStepInv DEF UnknownInv, PlanInv
<1> QED
  BY <1>1, <1>2, TypeCorrect, PlanInvAlways, PTL DEF Spec, UnknownInv

-----------------------------------------------------------------------------
(* Evidence.                                                               *)

\* what the verification of n has established so far
EvidenceOf(n) ==
    /\ node[n] = "completed" => /\ n \in AutoGate => auto[n] = "passed"
                                /\ n \in HumanGate => human[n] = "passed"
    /\ node[n] = "verifying" => /\ n \in AutoGate => auto[n] # "absent"
                                /\ n \in HumanGate => human[n] # "absent"
    /\ fix[n] = "check" => n \in AutoGate /\ auto[n] = "running"

EvidenceInv ==
    /\ \A n \in Nodes : EvidenceOf(n)
    /\ run = "completed" => \A n \in Nodes : node[n] = "completed"

\* the step leaves Checks alone, and brings no node nearer to its verdict
Indifferent(n) ==
    /\ UNCHANGED <<auto, human>>
    /\ node'[n] \in {"verifying", "completed"} => node'[n] = node[n]
    /\ fix'[n] = "check" => fix[n] = "check"

LEMMA IndifferentKeeps ==
    ASSUME NEW n \in Nodes, EvidenceOf(n), Indifferent(n)
    PROVE  EvidenceOf(n)'
BY DEF EvidenceOf, Indifferent

\* what a verdict on n does to the node and its Checks
LEMMA GateEvidence ==
    ASSUME TypeOK, NEW n \in Nodes, EvidenceOf(n), FinishGate(n), auto' = auto,
           \A m \in Nodes : fix'[m] = "check" => fix[m] = "check"
    PROVE  /\ EvidenceOf(n)'
           /\ \A m \in Nodes \ {n} : Indifferent(m) \/ (node'[m] = node[m] /\ human'[m] = human[m])
<1>1. CASE UNCHANGED <<node, human>>
  BY <1>1 DEF EvidenceOf
<1>2. CASE node[n] = "verifying" /\ GatePasses(n)
  <2>1. node' = [node EXCEPT ![n] = "completed"] /\ human' = human
        /\ auto[n] \in {"absent", "passed"} /\ human[n] \in {"absent", "passed"}
    BY <1>2 DEF GatePasses, Accepted, AutoOk
  <2> QED
    BY <1>2, <2>1 DEF EvidenceOf, TypeOK
<1>3. CASE node[n] = "verifying" /\ GateFails(n)
  <2>1. /\ \E x \in {"ready", "failed"} : node' = [node EXCEPT ![n] = x]
        /\ \E x : human' = [human EXCEPT ![n] = x]
    BY <1>3 DEF GateFails
  <2> QED
    BY <1>3, <2>1 DEF EvidenceOf, TypeOK
<1>4. CASE node[n] = "verifying" /\ human' = [human EXCEPT ![n] = "asked"] /\ node' = node
  BY <1>4 DEF EvidenceOf, TypeOK
<1> QED
  BY <1>1, <1>2, <1>3, <1>4 DEF FinishGate

LEMMA VerifyEvidence ==
    ASSUME TypeOK, \A m \in Nodes : EvidenceOf(m), NEW n \in Nodes, Verify(n) \/ ThreadGate(n)
    PROVE  \A m \in Nodes : EvidenceOf(m)'
<1>1. CASE VerifyEnter(n)
  <2>1. \A m \in Nodes : fix[m] # "check"
    BY <1>1 DEF VerifyEnter
  <2>2. CASE node[n] = "candidate" /\ n \notin Gated
    <3>1. node' = [node EXCEPT ![n] = "completed"] /\ UNCHANGED <<auto, human>>
          /\ \A m \in Nodes : fix'[m] # "check"
      BY <1>1, <2>1, <2>2 DEF VerifyEnter, Accepted, VerificationEnds, TypeOK
    <3> QED
      BY <2>2, <3>1 DEF EvidenceOf, Gated, TypeOK
  <2>3. CASE node[n] = "candidate" /\ n \in Gated
    <3>1. /\ node' = [node EXCEPT ![n] = "verifying"]
          /\ auto' = [auto EXCEPT ![n] = IF n \in AutoGate THEN "running" ELSE "absent"]
          /\ human' = [human EXCEPT ![n] = IF n \in HumanGate THEN "running" ELSE "absent"]
          /\ fix' = [fix EXCEPT ![n] = IF n \in AutoGate THEN "check" ELSE "gate"]
      BY <1>1, <2>3 DEF VerifyEnter
    <3>2. EvidenceOf(n)'
      BY <3>1 DEF EvidenceOf, TypeOK
    <3>3. \A m \in Nodes \ {n} : EvidenceOf(m)'
      BY <3>1 DEF EvidenceOf, TypeOK
    <3> QED
      BY <3>2, <3>3
  <2>4. CASE node[n] = "verifying"
    <3>1. /\ node' = node /\ human' = human /\ \A m \in Nodes : fix'[m] # "check"
          /\ \A m \in Nodes : auto'[m] = auto[m] \/ (m = n /\ auto'[m] = "failed")
      BY <1>1, <2>1, <2>4 DEF VerifyEnter, TypeOK
    <3> QED
      BY <2>4, <3>1 DEF EvidenceOf, TypeOK
  <2>5. CASE node[n] \notin {"candidate", "verifying"}
    <3>1. UNCHANGED <<node, auto, human>> /\ \A m \in Nodes : fix'[m] # "check"
      BY <1>1, <2>1, <2>5 DEF VerifyEnter, VerificationEnds, NoFix, checks, TypeOK
    <3> QED
      BY <3>1 DEF EvidenceOf
  <2> QED
    BY <2>2, <2>3, <2>4, <2>5
<1>2. CASE VerifyCheck(n)
  <2>1. /\ fix[n] = "check" /\ UNCHANGED <<node, human>> /\ fix' = [fix EXCEPT ![n] = "gate"]
        /\ \E result \in {"passed", "failed"} : auto' = [auto EXCEPT ![n] = result]
    BY <1>2 DEF VerifyCheck, plan
  <2>2. node[n] # "completed"
    BY <2>1 DEF EvidenceOf
  <2>3. EvidenceOf(n)'
    BY <2>1, <2>2 DEF EvidenceOf, TypeOK
  <2>4. \A m \in Nodes \ {n} : EvidenceOf(m)'
    BY <2>1 DEF EvidenceOf, TypeOK
  <2> QED
    BY <2>3, <2>4
<1>3. CASE VerifyGate(n) \/ ThreadGate(n)
  <2>1. FinishGate(n) /\ auto' = auto
    BY <1>3 DEF VerifyGate, ThreadGate
  <2>2. \A m \in Nodes : fix'[m] = "check" => fix[m] = "check"
    BY <1>3 DEF VerifyGate, ThreadGate, VerificationEnds, NoFix, TypeOK
  <2>3. EvidenceOf(n)' /\ \A m \in Nodes \ {n} : Indifferent(m) \/ (node'[m] = node[m] /\ human'[m] = human[m])
    BY <2>1, <2>2, GateEvidence
  <2>4. \A m \in Nodes \ {n} : EvidenceOf(m)'
    BY <2>1, <2>2, <2>3, IndifferentKeeps DEF EvidenceOf
  <2> QED
    BY <2>3, <2>4
<1> QED
  BY <1>1, <1>2, <1>3 DEF Verify

LEMMA TaskIndifferent ==
    ASSUME TypeOK, NEW n \in Nodes, NEW k \in 1..MaxTries, Start(n, k) \/ TaskStep(n, k)
    PROVE  \A m \in Nodes : Indifferent(m)
<1>1. UNCHANGED <<auto, human>>
  BY DEF Start, TaskStep, Bind, Recovered, BudgetFailure, Candidate, ArtifactFailure, Block, Retry, Interrupt,
     TimeOut, Refused, Break, Late, Settle, durable, checks
<1>2. node' = node \/ \E x \in {"running", "candidate", "failed", "suspended", "stalled"} : node' = [node EXCEPT ![n] = x]
  BY DEF Start, TaskStep, Bind, Recovered, BudgetFailure, Candidate, ArtifactFailure, Block, Retry, Interrupt,
     TimeOut, Refused, Break, Late, Settle, durable, plan
<1>3. fix' = fix \/ fix' = [fix EXCEPT ![n] = "enter"]
  BY DEF Start, TaskStep, Bind, Recovered, BudgetFailure, Candidate, ArtifactFailure, Block, Retry, Interrupt,
     TimeOut, Refused, Break, Late, Settle
<1> QED
  BY <1>1, <1>2, <1>3 DEF Indifferent, TypeOK

LEMMA LoopIndifferent ==
    ASSUME TypeOK, Loop
    PROVE  \A m \in Nodes : Indifferent(m)
<1>1. UNCHANGED <<auto, human>>
  BY DEF Loop, Iterate, Queue, Select, HandleDone, Release, SettleWait, Startup, RecoverStartup, Gather,
     ConvergeDone, durable, checks
<1>2. fix' = fix \/ fix' = CandidateFix
  BY DEF Loop, Iterate, Queue, Select, HandleDone, Release, SettleWait, Startup, RecoverStartup, Gather,
     ConvergeDone, durable, checks
<1>3. \A m \in Nodes : node'[m] = node[m] \/ node'[m] \in {"pending", "ready", "failed"}
  <2>1. CASE Queue
    <3>1. \A m \in Nodes : RetryReleased[m] = node[m] \/ RetryReleased[m] = "pending"
      BY DEF RetryReleased
    <3>2. node' = node \/ node' = RetryReleased
          \/ \E S \in SUBSET Nodes : node' = [m \in Nodes |-> IF m \in S THEN "ready" ELSE RetryReleased[m]]
      BY <2>1 DEF Queue, plan
    <3> QED
      BY <3>1, <3>2
  <2>2. CASE ConvergeDone
    BY <2>2 DEF ConvergeDone, FailedNodes
  <2>3. CASE Iterate \/ Select \/ HandleDone \/ Release \/ SettleWait \/ Startup \/ RecoverStartup \/ Gather
    BY <2>3 DEF Iterate, Select, HandleDone, Release, SettleWait, Startup, RecoverStartup, Gather, durable, plan
  <2> QED
    BY <2>1, <2>2, <2>3 DEF Loop
<1> QED
  BY <1>1, <1>2, <1>3 DEF Indifferent, CandidateFix

LEMMA NextEvidence ==
    ASSUME TypeOK, \A n \in Nodes : EvidenceOf(n), [Next]_vars
    PROVE  \A n \in Nodes : EvidenceOf(n)'
<1>1. CASE Quiesce \/ ReleaseDispatch \/ Resume \/ Process \/ UNCHANGED vars
  <2>1. UNCHANGED <<auto, human>> /\ \A m \in Nodes : node'[m] = node[m] \/ node'[m] = "ready"
    BY <1>1 DEF Quiesce, ReleaseDispatch, Resume, ResumedNodes, Process, Crash, Restart, LeaseExpires,
       vars, durable, plan, checks
  <2>2. \A m \in Nodes : fix'[m] # "check" \/ fix'[m] = fix[m]
    BY <1>1 DEF Quiesce, ReleaseDispatch, Resume, CandidateFix, Process, Crash, Restart, LeaseExpires,
       NoFix, vars, memory
  <2> QED
    BY <2>1, <2>2, IndifferentKeeps DEF Indifferent
<1>2. CASE Commit
  <2>1. UNCHANGED <<auto, fix>> /\ \A m \in Nodes : node'[m] = node[m] \/ node'[m] = "failed"
    BY <1>2 DEF Commit, FailedNodes
  <2>2. \A m \in Nodes : human'[m] = human[m] \/ (human[m] = "asked" /\ human'[m] = "cancelled")
    BY <1>2 DEF Commit
  <2> QED
    BY <2>1, <2>2 DEF EvidenceOf
<1>3. CASE \E n \in Nodes : Decide(n) \/ Reply(n)
  <2> PICK n \in Nodes : Decide(n) \/ Reply(n)
    BY <1>3
  <2>1. CASE Decide(n)
    <3>1. /\ node[n] = "verifying" /\ UNCHANGED <<node, auto, fix>>
          /\ \E verdict \in {"passed", "failed"} : human' = [human EXCEPT ![n] = verdict]
      BY <2>1 DEF Decide, plan
    <3>2. EvidenceOf(n)'
      BY <3>1 DEF EvidenceOf, TypeOK
    <3>3. \A m \in Nodes \ {n} : EvidenceOf(m)'
      BY <3>1 DEF EvidenceOf, TypeOK
    <3> QED
      BY <3>2, <3>3
  <2>2. CASE Reply(n)
    <3>1. UNCHANGED <<auto, human, fix>> /\ node' = [node EXCEPT ![n] = "pending"]
      BY <2>2 DEF Reply, checks
    <3>2. \A m \in Nodes : Indifferent(m)
      BY <3>1 DEF Indifferent, TypeOK
    <3> QED
      BY <3>2, IndifferentKeeps
  <2> QED
    BY <2>1, <2>2
<1> QED
  BY <1>1, <1>2, <1>3, VerifyEvidence, TaskIndifferent, LoopIndifferent, IndifferentKeeps
  DEF Next, Operator, People, Verify

\* a step that completes the Run is a verdict on its last node
LEMMA RunCompletes ==
    ASSUME TypeOK, [Next]_vars, run' = "completed", run # "completed"
    PROVE  \E n \in Nodes : GatePasses(n)
<1>1. CASE \E n \in Nodes : Verify(n) \/ ThreadGate(n)
  BY <1>1 DEF Verify, VerifyEnter, VerifyCheck, VerifyGate, ThreadGate, FinishGate, GateFails
<1>2. CASE \E n \in Nodes : Decide(n) \/ Reply(n)
  BY <1>2 DEF Decide, Reply
<1>3. CASE \E n \in Nodes, k \in 1..MaxTries : Start(n, k) \/ TaskStep(n, k)
  BY <1>3 DEF Start, TaskStep, Bind, Recovered, BudgetFailure, Candidate, ArtifactFailure, Block, Retry, Interrupt,
     TimeOut, Refused, Break, Late, durable
<1>4. CASE Loop
  BY <1>4 DEF Loop, Iterate, Queue, Select, HandleDone, Release, SettleWait, Startup, RecoverStartup, Gather,
     ConvergeDone, durable
<1>5. CASE Operator \/ Process \/ UNCHANGED vars
  BY <1>5 DEF Operator, Quiesce, Commit, ReleaseDispatch, Resume, Process, Crash, Restart, LeaseExpires, vars, durable
<1> QED
  BY <1>1, <1>2, <1>3, <1>4, <1>5 DEF Next, Verify, People

\* a completed node stays completed
LEMMA CompletedStays ==
    ASSUME TypeOK, PlanInv, PlanStep
    PROVE  \A n \in Nodes : node[n] = "completed" => node'[n] = "completed"
<1> SUFFICES ASSUME NEW m \in Nodes, node[m] = "completed"
             PROVE  node'[m] = "completed"
  OBVIOUS
<1>1. CASE UNCHANGED <<node, tries, ast, open>>
  BY <1>1
<1>2. CASE Queue
  <2>1. RetryReleased[m] = "completed"
    BY DEF RetryReleased
  <2>2. node' = node \/ node' = RetryReleased \/
        \E S \in SUBSET {n \in Nodes : RetryReleased[n] \in {"ready", "pending"}} :
           node' = [n \in Nodes |-> IF n \in S THEN "ready" ELSE RetryReleased[n]]
    BY <1>2 DEF Queue, plan
  <2> QED
    BY <2>1, <2>2
<1>3. CASE Resume
  BY <1>3 DEF Resume, ResumedNodes
<1>4. CASE Quiets
  <2>1. \A k \in 1..MaxTries : <<m, k>> \notin Running
    BY LiveIsLatest DEF Running, InStatus, PlanInv, NodeAgreement
  <2> QED
    BY <1>4, <2>1 DEF Quiets, FailedNodes
<1>5. CASE \E n \in Nodes : Judged(n) \/ Reply(n)
  BY <1>5 DEF Judged, Reply, TypeOK
<1>6. CASE \E n \in Nodes, k \in 1..MaxTries : Start(n, k) \/ Submits(n, k) \/ Settles(n, k)
  <2> PICK n \in Nodes, k \in 1..MaxTries : Start(n, k) \/ Submits(n, k) \/ Settles(n, k)
    BY <1>6
  <2>1. node[n] \in {"ready", "running"}
    BY LiveIsLatest DEF Start, Submits, Settles, Settle, PlanInv, NodeAgreement
  <2> QED
    BY <2>1 DEF Start, Submits, Settles, Settle, TypeOK
<1> QED
  BY <1>1, <1>2, <1>3, <1>4, <1>5, <1>6 DEF PlanStep

LEMMA EvidenceAlways == Spec => []EvidenceInv
<1>1. Init => EvidenceInv
  BY DEF Init, EvidenceInv, EvidenceOf, NoFix
<1>2. TypeOK /\ PlanInv /\ EvidenceInv /\ [Next]_vars => EvidenceInv'
  <2> SUFFICES ASSUME TypeOK, PlanInv, EvidenceInv, [Next]_vars PROVE EvidenceInv'
    OBVIOUS
  <2>1. \A n \in Nodes : EvidenceOf(n)'
    BY NextEvidence DEF EvidenceInv
  <2>2. ASSUME run' = "completed"
        PROVE  \A n \in Nodes : node'[n] = "completed"
    <3>1. CASE run = "completed"
      BY <3>1, NextPlanStep, CompletedStays DEF EvidenceInv
    <3>2. CASE run # "completed"
      <4>1. PICK n \in Nodes : GatePasses(n)
        BY <2>2, <3>2, RunCompletes
      <4> QED
        BY <2>2, <3>2, <4>1 DEF GatePasses, Accepted, TypeOK
    <3> QED
      BY <3>1, <3>2
  <2> QED
    BY <2>1, <2>2 DEF EvidenceInv
<1> QED
  BY <1>1, <1>2, TypeCorrect, PlanInvAlways, PTL DEF Spec

\* A completed Run rests on evidence: every node was accepted from its latest, succeeded
\* Attempt, and no required Check was left out or overruled (_is_final_completion).
THEOREM CompletionIsEarned == Spec => []CompletedHasEvidence
<1>1. TypeOK /\ NodeAgreement /\ EvidenceInv => CompletedHasEvidence
  <2> SUFFICES ASSUME TypeOK, NodeAgreement, EvidenceInv, run = "completed", NEW n \in Nodes
               PROVE  /\ node[n] = "completed" /\ ast[Latest(n)] = "succeeded"
                      /\ n \in AutoGate => auto[n] = "passed"
                      /\ n \in HumanGate => human[n] = "passed"
    BY DEF CompletedHasEvidence
  <2>1. node[n] = "completed" /\ EvidenceOf(n)
    BY DEF EvidenceInv
  <2>2. tries[n] > 0
    BY <2>1 DEF NodeAgreement, TypeOK
  <2> QED
    BY <2>1, <2>2 DEF NodeAgreement, EvidenceOf
<1> QED
  BY <1>1, TypeCorrect, NodesAgree, EvidenceAlways, PTL

-----------------------------------------------------------------------------
(* Starts.                                                                 *)

\* the loop verifies only where it waits, or while it recovers
VerifiesAside == pc \in AwaitPoints \cup {"recover"} \/ fix = NoFix

\* what the loop has selected is still queued, and its Run runs
SelectedRuns == pc = "start" => run = "running" /\ \E a \in Attempts : sel = {a} /\ ast[a] = "pending"

StartInv == VerifiesAside /\ SelectedRuns

\* a task takes its steps while the loop waits
LEMMA TaskStays ==
    ASSUME NEW n \in Nodes, NEW k \in 1..MaxTries, TaskStep(n, k)
    PROVE  pc \in AwaitPoints /\ pc' = pc
<1>1. CASE Bind(n, k) \/ Recovered(n, k) \/ Candidate(n, k) \/ Refused(n, k) \/ Break(n, k) \/ Late(n, k)
  BY <1>1 DEF Bind, Recovered, Candidate, Refused, Break, Late, TaskIs, Free
<1>2. CASE BudgetFailure(n, k) \/ ArtifactFailure(n, k) \/ Block(n, k) \/ Retry(n, k)
           \/ Interrupt(n, k) \/ TimeOut(n, k)
  BY <1>2 DEF BudgetFailure, ArtifactFailure, Block, Retry, Interrupt, TimeOut, Settle, TaskIs, Free
<1> QED
  BY <1>1, <1>2 DEF TaskStep

LEMMA AsideStep ==
    ASSUME TypeOK, VerifiesAside, [Next]_vars
    PROVE  VerifiesAside'
<1>1. CASE Loop
  BY <1>1 DEF Loop, Iterate, Queue, Select, HandleDone, Release, SettleWait, Startup, RecoverStartup, Gather,
     ConvergeDone, Converge, Harvest, VerifiesAside, AwaitPoints
<1>2. CASE Operator
  <2>1. Free /\ pc' = pc
    BY <1>2 DEF Operator, Quiesce, Commit, ReleaseDispatch, Resume
  <2> QED
    BY <2>1 DEF Free, VerifiesAside
<1>3. CASE Process \/ UNCHANGED vars
  BY <1>3 DEF Process, Crash, Restart, LeaseExpires, vars, memory, VerifiesAside, AwaitPoints, NoFix
<1>4. CASE \E n \in Nodes : Verify(n)
  <2> PICK n \in Nodes : Verify(n)
    BY <1>4
  <2>1. fix # NoFix
    BY DEF Verify, VerifyEnter, VerifyCheck, VerifyGate, NoFix
  <2>2. pc' \in {pc, "converge"}
    BY DEF Verify, VerifyEnter, VerifyCheck, VerifyGate, VerificationEnds
  <2> QED
    BY <2>1, <2>2 DEF VerifiesAside, AwaitPoints
<1>5. CASE \E n \in Nodes : People(n)
  BY <1>5 DEF People, Decide, ThreadGate, Reply, VerifiesAside
<1>6. CASE \E n \in Nodes, k \in 1..MaxTries : Start(n, k)
  BY <1>6 DEF Start, VerifiesAside, AwaitPoints
<1>7. CASE \E n \in Nodes, k \in 1..MaxTries : TaskStep(n, k)
  BY <1>7, TaskStays DEF VerifiesAside
<1> QED
  BY <1>1, <1>2, <1>3, <1>4, <1>5, <1>6, <1>7 DEF Next

\* Between the selection and the start only threads and the lease take steps.
LEMMA SelectedStep ==
    ASSUME TypeOK, NodeAgreement, CodeMode, StartInv, [Next]_vars
    PROVE  SelectedRuns'
<1> SUFFICES ASSUME pc' = "start"
             PROVE  run' = "running" /\ \E a \in Attempts : sel' = {a} /\ ast'[a] = "pending"
  BY DEF SelectedRuns
<1>1. CASE pc # "start"
  <2>1. Select
    <3>1. CASE Loop
      BY <1>1, <3>1 DEF Loop, Iterate, Queue, HandleDone, Release, SettleWait, Startup, RecoverStartup, Gather,
         ConvergeDone, Converge
    <3>2. CASE Operator \/ Process \/ UNCHANGED vars
      BY <1>1, <3>2 DEF Operator, Quiesce, Commit, ReleaseDispatch, Resume, Process, Crash, Restart, LeaseExpires,
         vars, memory
    <3>3. CASE \E n \in Nodes : Verify(n) \/ People(n)
      BY <1>1, <3>3 DEF Verify, VerifyEnter, VerifyCheck, VerifyGate, VerificationEnds, People, Decide, ThreadGate, Reply
    <3>4. CASE \E n \in Nodes, k \in 1..MaxTries : Start(n, k) \/ TaskStep(n, k)
      BY <1>1, <3>4, TaskStays DEF Start
    <3> QED
      BY <3>1, <3>2, <3>3, <3>4 DEF Next
  <2>2. run' = run /\ ast' = ast
    BY <2>1 DEF Select, durable
  <2> QED
    BY <1>1, <2>1, <2>2 DEF Select, Assignable, InStatus
<1>2. CASE pc = "start"
  <2>1. run = "running" /\ fix = NoFix
    BY <1>2 DEF StartInv, SelectedRuns, VerifiesAside, AwaitPoints
  <2>2. PICK a \in Attempts : sel = {a} /\ ast[a] = "pending"
    BY <1>2 DEF StartInv, SelectedRuns
  <2>3. a \in Active
    BY <2>2 DEF Active, InStatus
  <2>4. LeaseExpires \/ (\E n \in Nodes : People(n)) \/ UNCHANGED vars
    BY <1>2, <2>1 DEF Next, Loop, Iterate, Queue, Select, HandleDone, Release, SettleWait, Startup, RecoverStartup, Gather,
       ConvergeDone, Operator, Quiesce, Commit, ReleaseDispatch, Resume, Process, Crash, Restart,
       Verify, VerifyEnter, VerifyCheck, VerifyGate, NoFix, Start, TaskStep, Bind, Recovered, BudgetFailure,
       Candidate, ArtifactFailure, Block, Retry, Interrupt, TimeOut, Refused, Break, Late, TaskIs, Free, AwaitPoints
  <2>5. sel' = sel /\ ast' = ast
    BY <2>4 DEF LeaseExpires, People, Decide, ThreadGate, Reply, plan, vars, durable, memory
  <2>6. run' = "running"
    <3>1. CASE LeaseExpires \/ (\E n \in Nodes : Decide(n) \/ Reply(n)) \/ UNCHANGED vars
      BY <2>1, <2>3, <3>1 DEF LeaseExpires, Decide, Drained, Reply, vars, durable
    <3>2. CASE \E n \in Nodes : ThreadGate(n)
      <4> PICK n \in Nodes : ThreadGate(n)
        BY <3>2
      <4>1. PICK m \in Nodes, k \in 1..MaxTries : a = <<m, k>>
        BY DEF Attempts
      <4>2. node[m] = "ready"
        BY <2>2, <4>1, LiveIsLatest DEF NodeAgreement
      <4>3. ~GatePasses(n) \/ run' = run \/ m = n
        BY <4>2 DEF GatePasses
      <4> QED
        BY <2>1, <4>2, <4>3 DEF ThreadGate, FinishGate, GateFails
    <3> QED
      BY <2>4, <3>1, <3>2 DEF People
  <2> QED
    BY <2>2, <2>5, <2>6
<1> QED
  BY <1>1, <1>2

\* only the start of the selected Attempt makes a queued one run
LEMMA StartsSelected ==
    ASSUME TypeOK, SelectedRuns, PlanStep
    PROVE  \A a \in Attempts : ast[a] = "pending" /\ ast'[a] = "running" => run = "running"
<1> SUFFICES ASSUME NEW a \in Attempts, ast[a] = "pending", ast'[a] = "running"
             PROVE  run = "running"
  OBVIOUS
<1>1. CASE UNCHANGED <<node, tries, ast, open>> \/ Resume \/ \E n \in Nodes : Judged(n) \/ Reply(n)
  BY <1>1 DEF Resume, Judged, Reply
<1>2. CASE Queue
  <2>1. ast'[a] \in {ast[a], "pending"}
    BY <1>2 DEF Queue, plan
  <2> QED
    BY <2>1
<1>3. CASE Quiets
  BY <1>3 DEF Quiets, Interrupted, Unqueued
<1>4. CASE \E n \in Nodes, k \in 1..MaxTries : Start(n, k)
  BY <1>4 DEF Start, SelectedRuns
<1>5. CASE \E n \in Nodes, k \in 1..MaxTries : Submits(n, k) \/ Settles(n, k)
  BY <1>5 DEF Submits, Settles, Settle, Settled, TypeOK, Attempts
<1> QED
  BY <1>1, <1>2, <1>3, <1>4, <1>5 DEF PlanStep

LEMMA StartInvAlways ==
    ASSUME CodeMode
    PROVE  Spec => []StartInv
<1>1. Init => StartInv
  BY DEF Init, StartInv, VerifiesAside, SelectedRuns
<1>2. TypeOK /\ PlanInv /\ StartInv /\ [Next]_vars => StartInv'
  BY AsideStep, SelectedStep DEF StartInv, PlanInv
<1> QED
  BY <1>1, <1>2, TypeCorrect, PlanInvAlways, PTL DEF Spec

\* With a code execution workspace, no decision, reply, pause or cancellation lets an
\* Attempt start that the loop has selected for a Run that no longer runs
\* (_next_assignment and start_queued_attempt, which does not read the Run again).
THEOREM StartsAreCurrent ==
    ASSUME CodeMode
    PROVE  Spec => StartsWhileRunning
<1>1. TypeOK /\ StartInv /\ [Next]_vars
        => [\A a \in Attempts : ast[a] = "pending" /\ ast'[a] = "running" => run = "running"]_vars
  BY NextPlanStep, StartsSelected DEF StartInv
<1> QED
  BY <1>1, TypeCorrect, StartInvAlways, PTL DEF Spec, StartsWhileRunning

-----------------------------------------------------------------------------
(* RunExecution, with a code execution workspace, implements PlanProgress  *)
(* for every plan and every policy: its initial states map to the initial  *)
(* state of a plan's progress, and every step to a step of it or to none.  *)

InHand == {"running", "candidate", "verifying"}

\* the invariants that the steps rest on
ProgressInv == TypeOK /\ PlanInv /\ StartInv

\* no node is completed or taken in hand, and the Run stays as it is or stops
Withdraws ==
    /\ \A n \in Nodes : /\ node'[n] = "completed" <=> node[n] = "completed"
                        /\ node'[n] \in InHand => node[n] \in InHand
    /\ run' = run \/ (run \notin Over /\ run' \in {"paused", "failed", "cancelled"})

\* given up, stopped, or nothing that an observer sees
LEMMA WithdrawsProgress ==
    ASSUME Withdraws
    PROVE  [Progress!Next]_(Progress!vars)
<1> DEFINE S == Busy \ Busy'
<1>1. Done' = Done /\ Busy' = Busy \ S /\ S \in SUBSET Busy
  BY DEF Withdraws, Done, Busy, InHand
<1>2. CASE run' = run
  <2>1. CASE S = {}
    BY <1>1, <1>2, <2>1 DEF Progress!vars
  <2>2. CASE S # {}
    BY <1>1, <1>2, <2>2 DEF Progress!Next, Progress!GiveUp
  <2> QED
    BY <2>1, <2>2
<1>3. CASE run \notin Over /\ run' \in {"paused", "failed", "cancelled"}
  <2>1. Progress!Stop(S)
    BY <1>1, <1>3 DEF Progress!Stop, Progress!Over, Over
  <2> QED
    BY <1>1, <2>1 DEF Progress!Next
<1> QED
  BY <1>2, <1>3 DEF Withdraws

\* An acceptance completes the Run exactly when it is the last: a node that others
\* wait for is never the last one, for they have not left PENDING.
LEMMA AcceptProgress ==
    ASSUME TypeOK, DependencyOrder, NEW n \in Nodes, node[n] \in {"candidate", "verifying"},
           node' = Accepted(n),
           \/ n \notin Gated /\ run' = run
           \/ /\ run = "running"
              /\ run' = IF Final(n) /\ \A m \in Nodes \ {n} : node[m] = "completed" THEN "completed" ELSE run
    PROVE  Progress!Next
<1>1. Done' = Done \cup {n} /\ Busy' = Busy \ {n} /\ n \in Busy
  BY DEF Accepted, Done, Busy, TypeOK
<1>2. ~Final(n) => Done' # Nodes
  <2> SUFFICES ASSUME NEW m \in Nodes, n \in Deps[m], m \in Done'
               PROVE  FALSE
    BY DEF Final
  <2>1. node[m] # "pending"
    BY <1>1 DEF Done
  <2> QED
    BY <2>1 DEF DependencyOrder
<1>3. Done' = Nodes <=> \A m \in Nodes \ {n} : node[m] = "completed"
  BY <1>1 DEF Done
<1>4. CASE n \notin Gated /\ run' = run
  <2>1. ~Final(n)
    BY <1>4, PlanAssumption
  <2> QED
    BY <1>1, <1>2, <1>4, <2>1 DEF Progress!Next, Progress!Finish
<1>5. CASE /\ run = "running"
           /\ run' = IF Final(n) /\ \A m \in Nodes \ {n} : node[m] = "completed" THEN "completed" ELSE run
  <2>1. Progress!Finish(n)
    BY <1>1, <1>2, <1>3, <1>5 DEF Progress!Finish
  <2> QED
    BY <2>1 DEF Progress!Next
<1> QED
  BY <1>4, <1>5

LEMMA VerifyProgress ==
    ASSUME ProgressInv, NEW n \in Nodes, Verify(n) \/ ThreadGate(n)
    PROVE  [Progress!Next]_(Progress!vars)
<1>1. CASE UNCHANGED <<run, node>>
  BY <1>1, WithdrawsProgress DEF Withdraws
<1>2. CASE VerifyEnter(n)
  <2>1. CASE node[n] = "candidate" /\ n \notin Gated
    <3>1. node' = Accepted(n) /\ run' = run
      BY <1>2, <2>1 DEF VerifyEnter
    <3> QED
      BY <2>1, <3>1, AcceptProgress DEF ProgressInv, PlanInv
  <2>2. CASE ~(node[n] = "candidate" /\ n \notin Gated)
    <3>1. run' = run /\ (node' = node \/ (node[n] = "candidate" /\ node' = [node EXCEPT ![n] = "verifying"]))
      BY <1>2, <2>2 DEF VerifyEnter
    <3> QED
      BY <3>1, WithdrawsProgress DEF Withdraws, InHand, ProgressInv, TypeOK
  <2> QED
    BY <2>1, <2>2
<1>3. CASE run = "running" /\ node[n] = "verifying" /\ GatePasses(n)
  BY <1>3, AcceptProgress DEF GatePasses, ProgressInv, PlanInv
<1>4. CASE run = "running" /\ node[n] = "verifying" /\ GateFails(n)
  <2>1. (run' = run \/ run' = "failed") /\ \E x \in {"ready", "failed"} : node' = [node EXCEPT ![n] = x]
    BY <1>4 DEF GateFails
  <2> QED
    BY <1>4, <2>1, WithdrawsProgress DEF Withdraws, InHand, Over, ProgressInv, TypeOK
<1> QED
  BY <1>1, <1>2, <1>3, <1>4 DEF Verify, VerifyCheck, VerifyGate, ThreadGate, FinishGate, plan

\* what the loop has selected may begin: its Run runs and its node is released
LEMMA StartProgress ==
    ASSUME ProgressInv, NEW n \in Nodes, NEW k \in 1..MaxTries, Start(n, k)
    PROVE  Progress!Next
<1>1. run = "running" /\ run' = run /\ node[n] = "ready" /\ node' = [node EXCEPT ![n] = "running"]
  BY DEF Start, ProgressInv, StartInv, SelectedRuns
<1>2. Deps[n] \subseteq Done
  BY <1>1, PlanAssumption DEF ProgressInv, PlanInv, DependencyOrder, Done
<1>3. Done' = Done /\ Busy' = Busy \cup {n} /\ n \notin Done \cup Busy
  BY <1>1 DEF Done, Busy, ProgressInv, TypeOK
<1>4. Progress!Begin(n)
  BY <1>1, <1>2, <1>3 DEF Progress!Begin
<1> QED
  BY <1>4 DEF Progress!Next

LEMMA TaskProgress ==
    ASSUME ProgressInv, NEW n \in Nodes, NEW k \in 1..MaxTries, TaskStep(n, k)
    PROVE  Withdraws
<1>1. CASE Bind(n, k) \/ Recovered(n, k) \/ Refused(n, k) \/ Break(n, k) \/ Late(n, k)
  <2>1. UNCHANGED <<run, node>>
    BY <1>1 DEF Bind, Recovered, Refused, Break, Late, durable, plan
  <2> QED
    BY <2>1 DEF Withdraws
<1>2. CASE ~(Bind(n, k) \/ Recovered(n, k) \/ Refused(n, k) \/ Break(n, k) \/ Late(n, k))
  <2>1. /\ ast[<<n, k>>] = "running"
        /\ \E x \in {"candidate", "failed", "suspended", "stalled"} : node' = [node EXCEPT ![n] = x]
    BY <1>2 DEF TaskStep, Candidate, BudgetFailure, ArtifactFailure, Block, Retry, Interrupt, TimeOut, Settle
  <2>2. node[n] = "running"
    BY <2>1, LiveIsLatest DEF ProgressInv, PlanInv, NodeAgreement
  <2>3. run' = run \/ (run \in {"running", "paused"} /\ run' \in {"paused", "failed"})
    BY <1>2 DEF TaskStep, Candidate, BudgetFailure, ArtifactFailure, Block, Retry, Interrupt, TimeOut
  <2> QED
    BY <2>1, <2>2, <2>3 DEF Withdraws, InHand, Over, ProgressInv, TypeOK
<1> QED
  BY <1>1, <1>2

\* interrupted, nodes are given up that were running
LEMMA QuiesceProgress ==
    ASSUME ProgressInv, Commit \/ ConvergeDone
    PROVE  Withdraws
<1>1. \A n \in Nodes : node'[n] = node[n] \/ (node'[n] = "failed" /\ node[n] = "running")
  <2> SUFFICES ASSUME NEW n \in Nodes, NEW k \in 1..MaxTries, <<n, k>> \in Running
               PROVE  node[n] = "running"
    BY DEF Commit, ConvergeDone, FailedNodes
  <2> QED
    BY LiveIsLatest DEF Running, InStatus, ProgressInv, PlanInv, NodeAgreement
<1>2. run' = run \/ (run \notin Over /\ run' \in {"paused", "cancelled"})
  BY DEF Commit, ConvergeDone, Over
<1> QED
  BY <1>1, <1>2 DEF Withdraws, InHand

\* queueing takes no node in hand, but it launches the Run
LEMMA QueueProgress ==
    ASSUME ProgressInv, Queue
    PROVE  [Progress!Next]_(Progress!vars)
<1>1. \A n \in Nodes : node'[n] = node[n] \/ (node[n] \in {"stalled", "pending", "ready"} /\ node'[n] \in {"pending", "ready"})
  <2>1. \A n \in Nodes : RetryReleased[n] = IF node[n] = "stalled" THEN "pending" ELSE node[n]
    BY DEF RetryReleased
  <2>2. node' = node \/ node' = RetryReleased \/
        \E S \in SUBSET {n \in Nodes : RetryReleased[n] \in {"ready", "pending"}} :
           node' = [n \in Nodes |-> IF n \in S THEN "ready" ELSE RetryReleased[n]]
    BY DEF Queue, plan
  <2> QED
    BY <2>1, <2>2
<1>2. Done' = Done /\ Busy' = Busy
  BY <1>1 DEF Done, Busy
<1>3. run' = run \/ (run = "pending" /\ run' = "running") \/ (run \in {"pending", "running"} /\ run' = "paused")
  BY DEF Queue
<1>4. CASE run = "pending" /\ run' = "running"
  BY <1>2, <1>4 DEF Progress!Next, Progress!Launch
<1>5. CASE run' = run \/ (run \in {"pending", "running"} /\ run' = "paused")
  BY <1>1, <1>5, WithdrawsProgress DEF Withdraws, InHand, Over
<1> QED
  BY <1>3, <1>4, <1>5

LEMMA NextProgress ==
    ASSUME ProgressInv, [Next]_vars
    PROVE  [Progress!Next]_(Progress!vars)
<1>1. CASE Iterate \/ Select \/ HandleDone \/ Release \/ SettleWait \/ Startup \/ RecoverStartup \/ Gather
           \/ Quiesce \/ ReleaseDispatch \/ Process \/ UNCHANGED vars
  <2>1. UNCHANGED <<run, node>>
    BY <1>1 DEF Iterate, Select, HandleDone, Release, SettleWait, Startup, RecoverStartup, Gather,
       Quiesce, ReleaseDispatch, Process, Crash, Restart, LeaseExpires, vars, durable, plan
  <2> QED
    BY <2>1, WithdrawsProgress DEF Withdraws
<1>2. CASE Resume
  <2>1. run = "paused" /\ run' = "running" /\ Done' = Done /\ Busy' = Busy
    BY <1>2 DEF Resume, ResumedNodes, Done, Busy
  <2> QED
    BY <2>1 DEF Progress!Next, Progress!Resume
<1>3. CASE \E n \in Nodes : Decide(n) \/ Reply(n)
  <2> PICK n \in Nodes : Decide(n) \/ Reply(n)
    BY <1>3
  <2>1. /\ node' = node \/ (node[n] = "suspended" /\ node' = [node EXCEPT ![n] = "pending"])
        /\ run' = run \/ (run = "running" /\ run' = "paused")
    BY DEF Decide, Reply, plan
  <2> QED
    BY <2>1, WithdrawsProgress DEF Withdraws, InHand, Over, ProgressInv, TypeOK
<1> QED
  BY <1>1, <1>2, <1>3, VerifyProgress, StartProgress, TaskProgress, QuiesceProgress, QueueProgress, WithdrawsProgress
  DEF Next, Loop, Operator, Verify, People

\* Whatever the host, its tasks, the operator and people on other threads do to each
\* other, what an observer sees of a Run with a code execution workspace is the plan's
\* progress: dependencies first, acceptances for good, completed exactly by the last one.
THEOREM ProgressAsPromised ==
    ASSUME CodeMode
    PROVE  Spec => ImplementsPlan
<1>1. Init => Progress!Init
  BY DEF Init, Progress!Init, Done, Busy
<1>2. ProgressInv /\ [Next]_vars => [Progress!Next]_(Progress!vars)
  BY NextProgress
<1> QED
  BY <1>1, <1>2, TypeCorrect, PlanInvAlways, StartInvAlways, PTL DEF Spec, ImplementsPlan, Progress!Spec, ProgressInv
-----------------------------------------------------------------------------
(* The hosts.                                                              *)

\* A host's new work and what it recovered from dead hosts together keep the limits; two hosts work
\* for one Run only after a lease ran out under a live host; and what is settled stays settled.
THEOREM LimitsAreKept == PartsSpec => []SlotsKept
<1>1. Host!Init /\ [][Host!Next]_(Host!vars) => []Host!SlotsKept
  BY HostAssumption, Host!HostsKeepLimits
<1>2. [PartsNext]_all => [Host!Next]_(Host!vars)
  BY DEF PartsNext, AtHosts, all, held, Host!vars
<1> QED
  BY <1>1, <1>2, PTL DEF PartsSpec, PartsInit, SlotsKept
=============================================================================
