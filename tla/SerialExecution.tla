---------------------------- MODULE SerialExecution ----------------------------
(* The local host that executes one Run serially: the executor under its lock, the  *)
(* commands that pause, resume and cancel beside it, Checks and Gates over stored   *)
(* evidence, the Checkpoints they leave, a restart, and a restore.                  *)
EXTENDS Naturals, Sequences

CONSTANTS
    Order,          \* the nodes in the order of the plan
    Deps,           \* the dependencies of a node
    Automatic, Human, \* the nodes whose Gate has such a Check
    Controls,       \* commands at work at the same time
    Budget,         \* Attempts of the Run and of the Goal
    MaxFaults,      \* crashes and lost evidence
    None

Nodes == {Order[i] : i \in DOMAIN Order}

VARIABLES
    host,           \* down, starting or up
    limit,          \* the budget that binds, the Goal's or the Run's
    run, cause,     \* its status; why it was paused
    node,           \* status of each node
    attempts,       \* sequence of [node, status, made]: made if it has a result
    checks,         \* the verifications that began, in order: [attempt, runs], each Check's [status, passed, asked]
    points,         \* Checkpoints: [node, attempt], the plan and the Gate's Attempt
    kept,           \* the Attempts whose stored bytes are what was recorded
    exec,           \* the executor: [pc, attempt, rest, goes, outcome]
    decider,        \* the thread that settles a person's decision
    control,        \* what each command read
    stop,           \* the Worker was told to stop
    faults

facts == <<run, cause, node, attempts, checks, points, kept>>
threads == <<exec, decider, control, stop>>
vars == <<host, limit, facts, threads, faults>>
----------------------------------------------------------------------------
Kinds(n) == {k \in {"auto", "human"} : n \in IF k = "auto" THEN Automatic ELSE Human}
AttemptsOf(n) == {i \in DOMAIN attempts : attempts[i].node = n}
IsLatest(a) == \A i \in AttemptsOf(attempts[a].node) : i <= a
Is(a, s) == attempts[a].status = s
Running == {i \in DOMAIN attempts : Is(i, "running")}
At(s) == {n \in Nodes : node[n] \in s}
\* a restored candidate is verified again, with CheckRuns of their own
VerificationsOf(a) == {v \in DOMAIN checks : checks[v].attempt = a}
Passed(c) == c.status = "completed" /\ c.passed
Asks(v) == LET c == checks[v].runs IN "human" \in DOMAIN c /\ c["human"].status = "running" /\ c["human"].asked
Open(n) == \E v \in DOMAIN checks : attempts[checks[v].attempt].node = n /\ Asks(v)
Ready == {n \in At({"pending"}) : Deps[n] \subseteq At({"completed"})}
WaitingForHuman == run \in {"running", "paused"} /\ Ready \cup At({"ready"}) = {} /\ \E n \in At({"verifying"}) : Open(n)
Final(n) == \A m \in Nodes : n \notin Deps[m]
Serving == host = "up"
Fault == faults < MaxFaults /\ faults' = faults + 1
Set(a, s) == attempts' = [attempts EXCEPT ![a].status = s]
Idle == [pc |-> "idle", attempt |-> 0, rest |-> {}, goes |-> FALSE, outcome |-> None]
Looping == [Idle EXCEPT !.pc = "loop", !.goes = TRUE]

Init ==
    /\ host = "up" /\ limit \in {"goal", "run"}
    /\ run = "pending" /\ cause = None
    /\ node = [n \in Nodes |-> "pending"] /\ attempts = <<>> /\ checks = <<>>
    /\ points = <<>> /\ kept = {}
    /\ exec = Looping /\ decider = Idle
    /\ control = [c \in Controls |-> None] /\ stop = FALSE
    /\ faults = 0

\* the executor leaves a command by an error: while the host starts, it does not come up
Raises == exec' = Idle /\ host' = IF host = "starting" THEN "down" ELSE host
\* it is done with one result: the next one of a recovery, the loop, or the end
Results(a) == {i \in AttemptsOf(attempts[a].node) : Is(i, "succeeded")}
\* a recovery takes the nodes in the order of their first results
Before(a, b) == \E i \in Results(a) : \A j \in Results(b) : i <= j
Takes(rest, goes) == \E a \in rest :
    /\ \A b \in rest : Before(a, b)
    /\ exec' = [pc |-> "candidate", attempt |-> a, rest |-> rest \ {a}, goes |-> goes, outcome |-> None]
Continues ==
    /\ IF exec.rest # {} THEN Takes(exec.rest, exec.goes)
       ELSE exec' = IF exec.goes /\ run' = "running" THEN Looping ELSE Idle
    /\ host' = IF host = "starting" /\ exec'.pc = "idle" THEN "up" ELSE host
Executor(pc) == host # "down" /\ exec.pc = pc
Outside == UNCHANGED <<limit, faults>>
----------------------------------------------------------------------------
(* The loop: wait for a person, or start the next node.                            *)

\* a result of Prepare that is an error leaves the facts it has written
Refuse == ~(run \in {"pending", "running"}) \/ Ready \cup At({"ready"}) = {} \/ Running # {}
Exhausted == Len(attempts) >= Budget
Candidates == IF At({"ready"}) # {} THEN At({"ready"}) ELSE Ready
IsFirst(n, S) == \E i \in DOMAIN Order : Order[i] = n /\ \A j \in DOMAIN Order : Order[j] \in S => i <= j

StopsAtLimit ==
    /\ run' = IF limit = "goal" THEN "paused" ELSE "failed"
    /\ cause' = IF limit = "goal" THEN "budget" ELSE cause
    /\ Raises /\ UNCHANGED <<node, attempts, checks, points, kept, decider, control, stop>>

StartAttempt(n) ==
    /\ run' = "running"
    /\ node' = [node EXCEPT ![n] = "running"]
    /\ attempts' = Append(attempts, [node |-> n, status |-> "running", made |-> FALSE])
    /\ exec' = [exec EXCEPT !.pc = "work", !.attempt = Len(attempts')]
    /\ stop' = FALSE /\ UNCHANGED <<host, cause, checks, points, kept, decider, control>>

Prepare ==
    /\ Executor("loop") /\ Outside
    /\ IF WaitingForHuman \/ Refuse
       THEN Raises /\ UNCHANGED <<facts, decider, control, stop>>
       ELSE IF Exhausted THEN StopsAtLimit ELSE \E n \in Candidates : IsFirst(n, Candidates) /\ StartAttempt(n)
----------------------------------------------------------------------------
(* The Worker returns.                                                             *)

Mine == exec.attempt
MyNode == attempts[Mine].node
Works == Executor("work") /\ Outside /\ UNCHANGED <<cause, checks, points, decider, control, stop>>

\* an Attempt or a node that is no longer running refuses the result, and with it the transaction
Stale == ~Is(Mine, "running") \/ node[MyNode] # "running"
Discarded == Works /\ Stale /\ Raises /\ UNCHANGED <<run, node, attempts, kept>>

RecordCandidate ==
    /\ Works /\ ~Stale
    /\ attempts' = [attempts EXCEPT ![Mine].status = "succeeded", ![Mine].made = TRUE]
    /\ node' = [node EXCEPT ![MyNode] = "candidate"]
    /\ kept' = kept \cup {Mine}
    /\ exec' = [exec EXCEPT !.pc = "candidate"]
    /\ UNCHANGED <<host, run>>

\* failing a Run that is not running or paused refuses the whole transaction
RecordWorkerFailure(status) ==
    /\ Works /\ ~Stale /\ Raises /\ UNCHANGED kept
    /\ IF run \in {"running", "paused"}
       THEN Set(Mine, status) /\ node' = [node EXCEPT ![MyNode] = "failed"] /\ run' = "failed"
       ELSE UNCHANGED <<attempts, node, run>>

\* the result is there, its bytes could not be stored
RecordArtifactFailure == RecordWorkerFailure("succeeded")

\* a Worker that was stopped: the executor waits for the command that did it, or gives up
AwaitControlledCancellation ==
    Works /\ stop /\ Raises /\ UNCHANGED <<run, node, attempts, kept>>
----------------------------------------------------------------------------
(* Checks and Gates.                                                               *)

Candidate == Executor("candidate") /\ Outside /\ UNCHANGED <<cause, kept, decider, control, stop>>

AcceptIntermediate ==
    /\ Candidate /\ Kinds(MyNode) = {} /\ UNCHANGED <<run, attempts, checks, points>>
    /\ IF node[MyNode] = "candidate" /\ ~Final(MyNode) /\ attempts[Mine].made
       THEN node' = [node EXCEPT ![MyNode] = "completed"] /\ Continues
       ELSE Raises /\ UNCHANGED node

\* a result whose verification had begun is taken up where it is
ResumeVerification ==
    /\ Candidate /\ Kinds(MyNode) # {} /\ node[MyNode] = "verifying"
    /\ exec' = [exec EXCEPT !.pc = "finish", !.outcome = "recover"]
    /\ UNCHANGED <<host, run, node, attempts, checks, points>>

NewChecks == [attempt |-> Mine, runs |-> [k \in Kinds(MyNode) |-> [status |-> "running", passed |-> FALSE, asked |-> FALSE]]]
\* the automatic Checks need a running Run: they are persisted as running before that is noticed
StartChecks ==
    /\ Candidate /\ Kinds(MyNode) # {} /\ node[MyNode] # "verifying"
    /\ UNCHANGED <<run, attempts, points>>
    /\ IF node[MyNode] # "candidate" THEN Raises /\ UNCHANGED <<node, checks>>
       ELSE /\ node' = [node EXCEPT ![MyNode] = "verifying"]
            /\ checks' = Append(checks, NewChecks)
            /\ IF "auto" \notin Kinds(MyNode)
               THEN exec' = [exec EXCEPT !.pc = "finish", !.outcome = None] /\ UNCHANGED host
               ELSE IF run = "running" THEN exec' = [exec EXCEPT !.pc = "checks"] /\ UNCHANGED host
               ELSE Raises

\* what each adapter can find: only evidence that is still what was recorded can pass
Inspected(a) == {<<"completed", FALSE>>} \cup (IF a \in kept THEN {<<"completed", TRUE>>} ELSE {})
Materialized(a) == {<<"failed", FALSE>>} \cup (IF a \in kept THEN {<<"timed_out", FALSE>>} \cup Inspected(a) ELSE {})
Scored(a) == {<<"failed", FALSE>>} \cup Inspected(a)
Outcomes(a) == Materialized(a) \cup Inspected(a) \cup Scored(a)
Rebound(o) == [checks EXCEPT ![Len(checks)].runs["auto"] = [status |-> o[1], passed |-> o[2], asked |-> FALSE]]
RunCheck ==
    /\ Executor("checks") /\ Outside
    /\ \E o \in Outcomes(Mine) : checks' = Rebound(o)
    /\ exec' = [exec EXCEPT !.pc = "finish", !.outcome = None]
    /\ UNCHANGED <<host, run, cause, node, attempts, points, kept, decider, control, stop>>

\* what a thread p that finishes the Gate of its Attempt finds in one transaction; c are the CheckRuns
AutoPassed(c) == "auto" \in DOMAIN c => Passed(c["auto"])
Rejected(c) == ~AutoPassed(c) \/ ("human" \in DOMAIN c /\ c["human"].status = "completed" /\ ~c["human"].passed)
Undecided(c) == "human" \in DOMAIN c /\ c["human"].status = "running"
Unfinished(c) == "auto" \in DOMAIN c /\ c["auto"].status = "running"
Unwanted(a) == run # "running" \/ node[attempts[a].node] # "verifying"
TooEarly(p, c) == Unfinished(c) /\ p.outcome # "recover"
Returns(p, c) == TooEarly(p, c) \/ (Undecided(c) /\ ~Rejected(c))
Settles(c) == [k \in DOMAIN c |->
    IF c[k].status # "running" THEN c[k]
    ELSE IF k = "auto" THEN [c[k] EXCEPT !.status = "interrupted"]
    ELSE IF Rejected(c) THEN [c[k] EXCEPT !.status = "cancelled"]
    ELSE [c[k] EXCEPT !.asked = TRUE]]
\* no CheckRuns, or those of two verifications, are refused
Ambiguous(a) == ~\E v \in DOMAIN checks : VerificationsOf(a) = {v}
Gated(p, v) ==
    /\ ~Unwanted(p.attempt) /\ VerificationsOf(p.attempt) = {v}
    /\ checks' = IF TooEarly(p, checks[v].runs) THEN checks ELSE [checks EXCEPT ![v].runs = Settles(@)]
Verdict(c) == IF \A k \in DOMAIN c : Passed(c[k]) THEN "passed" ELSE "rejected"
Recording(p, c) == [p EXCEPT !.pc = "record", !.outcome = Verdict(c)]

\* whether the thread's decision is still about the node's verification
\* mutant: a Run that was paused meanwhile is not looked at
CurrentAnyRun(p) == node[attempts[p.attempt].node] = "verifying" /\ IsLatest(p.attempt) /\ Is(p.attempt, "succeeded")
Current(p) == ~Unwanted(p.attempt) /\ IsLatest(p.attempt) /\ Is(p.attempt, "succeeded")

IsFinalCompletion(n, plan) == Final(n) /\ \A m \in Nodes : plan[m] = "completed"
Checkpoint(plan, a) == [node |-> plan, attempt |-> a]
RecordCompletion(p) ==
    /\ Current(p) /\ p.outcome = "passed"
    /\ node' = [node EXCEPT ![attempts[p.attempt].node] = "completed"]
    /\ points' = Append(points, Checkpoint(node', p.attempt))
    /\ run' = IF IsFinalCompletion(attempts[p.attempt].node, node') THEN "completed" ELSE run

RecordGateFailure(p) ==
    /\ Current(p) /\ p.outcome = "rejected"
    /\ node' = [node EXCEPT ![attempts[p.attempt].node] = "failed"] /\ run' = "failed"
    /\ UNCHANGED points

ExecutorFinishes ==
    /\ Executor("finish") /\ Outside
    /\ UNCHANGED <<run, cause, node, attempts, points, kept, decider, control, stop>>
    /\ \/ Unwanted(Mine) /\ Continues /\ UNCHANGED checks
       \/ ~Unwanted(Mine) /\ Ambiguous(Mine) /\ Raises /\ UNCHANGED checks
       \/ \E v \in DOMAIN checks : LET c == checks[v].runs IN
             Gated(exec, v) /\ IF Returns(exec, c) THEN Continues ELSE exec' = Recording(exec, c) /\ UNCHANGED host

ExecutorRecords ==
    /\ Executor("record") /\ Outside /\ UNCHANGED <<cause, attempts, checks, kept, decider, control, stop>>
    /\ \/ ~Current(exec) /\ UNCHANGED <<run, node, points>> /\ Continues
       \/ RecordCompletion(exec) /\ Continues
       \/ RecordGateFailure(exec) /\ Raises
----------------------------------------------------------------------------
(* A person decides a Check, in a thread of its own.                               *)

DeciderWith(a) == decider' = [Idle EXCEPT !.pc = "finish", !.attempt = a]

DecideHumanCheck(v, passed, hold) ==
    LET a == checks[v].attempt IN
    /\ Serving /\ decider.pc = "idle" /\ Asks(v)
    /\ ~Unwanted(a) /\ IsLatest(a) /\ Is(a, "succeeded") /\ a \in kept
    /\ (hold => Running = {})
    /\ checks' = [checks EXCEPT ![v].runs["human"] = [status |-> "completed", passed |-> passed, asked |-> TRUE]]
    /\ run' = IF hold THEN "paused" ELSE run
    /\ cause' = IF hold THEN "hold" ELSE cause
    /\ IF hold THEN UNCHANGED decider ELSE DeciderWith(a)
    /\ Outside /\ UNCHANGED <<host, node, attempts, points, kept, exec, control, stop>>

\* the same decision sent again settles what it had not
DecidedAgain(v) ==
    LET a == checks[v].attempt c == checks[v].runs IN
    /\ Serving /\ decider.pc = "idle" /\ run = "running" /\ node[attempts[a].node] = "verifying"
    /\ "human" \in DOMAIN c /\ c["human"].status = "completed"
    /\ DeciderWith(a) /\ Outside /\ UNCHANGED <<host, facts, exec, control, stop>>

DeciderFinishes ==
    /\ Serving /\ decider.pc = "finish" /\ Outside
    /\ UNCHANGED <<host, run, cause, node, attempts, points, kept, exec, control, stop>>
    /\ \/ (Unwanted(decider.attempt) \/ Ambiguous(decider.attempt)) /\ decider' = Idle /\ UNCHANGED checks
       \/ \E v \in DOMAIN checks : LET c == checks[v].runs IN
             Gated(decider, v) /\ decider' = IF Returns(decider, c) THEN Idle ELSE Recording(decider, c)

DeciderRecords ==
    /\ Serving /\ decider.pc = "record" /\ decider' = Idle
    /\ \/ ~Current(decider) /\ UNCHANGED <<run, node, points>>
       \/ RecordCompletion(decider)
       \/ RecordGateFailure(decider)
    /\ Outside /\ UNCHANGED <<host, cause, attempts, checks, kept, exec, control, stop>>
----------------------------------------------------------------------------
(* Pause and cancel: read, stop the Worker, and commit if nothing has changed.     *)

Snapshot == [run |-> run, node |-> node, attempts |-> attempts]
Live(s) == {i \in DOMAIN s.attempts : s.attempts[i].status = "running"}
May(kind) == run \in IF kind = "pause" THEN {"running"} ELSE {"pending", "running", "paused"}
Target(kind) == IF kind = "pause" THEN "paused" ELSE "cancelled"
IsSettled(c) ==
    /\ run = Target(control[c].kind)
    /\ IF Live(control[c].read) = {} THEN [Snapshot EXCEPT !.run = control[c].read.run] = control[c].read
       ELSE \A i \in Live(control[c].read) : Is(i, "cancelled") /\ node[attempts[i].node] = "failed"

ReadSnapshot(c, kind) ==
    /\ Serving /\ control[c] = None /\ May(kind)
    /\ control' = [control EXCEPT ![c] = [kind |-> kind, read |-> Snapshot]]
    /\ stop' = (stop \/ (exec.pc = "work" /\ exec.attempt \in Running))
    /\ Outside /\ UNCHANGED <<host, facts, exec, decider>>

\* the Worker could not be stopped, the facts have changed, or the command finds itself done
Control(c) == Serving /\ control[c] # None /\ control' = [control EXCEPT ![c] = None]
Nothing(c) ==
    /\ Control(c) /\ (IsSettled(c) \/ Snapshot # control[c].read \/ Live(control[c].read) # {})
    /\ Outside /\ UNCHANGED <<host, facts, exec, decider, stop>>

CancelActive ==
    /\ attempts' = [i \in DOMAIN attempts |-> IF Is(i, "running") THEN [attempts[i] EXCEPT !.status = "cancelled"] ELSE attempts[i]]
    /\ node' = [n \in Nodes |-> IF \E i \in Running : attempts[i].node = n THEN "failed" ELSE node[n]]
Commits(c, kind) == Control(c) /\ control[c].kind = kind /\ Snapshot = control[c].read /\ CancelActive

Pause(c) ==
    /\ Commits(c, "pause") /\ run' = "paused" /\ cause' = "operator"
    /\ Outside /\ UNCHANGED <<host, checks, points, kept, exec, decider, stop>>

\* a pause of a paused Run is recorded as the person's
PauseAgain ==
    /\ Serving /\ run = "paused" /\ cause' = "operator"
    /\ Outside /\ UNCHANGED <<host, run, node, attempts, checks, points, kept, threads>>

Cancel(c) ==
    /\ Commits(c, "cancel") /\ run' = "cancelled"
    /\ checks' = [v \in DOMAIN checks |-> IF Asks(v) THEN [checks[v] EXCEPT !.runs["human"].status = "cancelled"] ELSE checks[v]]
    /\ Outside /\ UNCHANGED <<host, cause, points, kept, exec, decider, stop>>
----------------------------------------------------------------------------
(* Resume and the commands sent again, a restart, a restore.                       *)

LastRetryable == LET S == {i \in DOMAIN attempts : attempts[i].status \in {"interrupted", "cancelled", "failed"}}
                 IN IF S = {} \/ ~(Len(attempts) \in S) THEN 0 ELSE Len(attempts)
CanResume ==
    LET last == Len(attempts) IN
    /\ ~(last > 0 /\ Is(last, "succeeded") /\ node[attempts[last].node] = "failed")
    /\ LastRetryable = 0 \/ node[attempts[last].node] = "failed"
       \/ (node[attempts[last].node] = "pending" /\ Is(last, "interrupted"))
\* the last succeeded Attempt of each node that waits for its Gate
Recoverable(plan) ==
    {i \in DOMAIN attempts : /\ Is(i, "succeeded") /\ plan[attempts[i].node] \in {"candidate", "verifying"}
                             /\ \A j \in AttemptsOf(attempts[i].node) : Is(j, "succeeded") => j <= i}
Recovering(goes, plan) ==
    IF Recoverable(plan) # {} THEN Takes(Recoverable(plan), goes)
    ELSE exec' = IF goes THEN Looping ELSE Idle

Resume ==
    /\ Serving /\ exec.pc = "idle" /\ run = "paused" /\ CanResume
    /\ node' = IF LastRetryable = 0 THEN node
               ELSE [node EXCEPT ![attempts[LastRetryable].node] = IF @ = "failed" THEN "ready" ELSE @]
    /\ run' = "running" /\ Recovering(TRUE, node')
    /\ Outside /\ UNCHANGED <<host, cause, attempts, checks, points, kept, decider, control, stop>>

\* StartRun for a Run that is still pending, ResumeRun for one that has a node to start
StartAgain ==
    /\ Serving /\ exec.pc = "idle"
    /\ run = "pending" \/ (run = "running" /\ Running = {} /\ At({"ready"}) # {})
    /\ exec' = Looping
    /\ Outside /\ UNCHANGED <<host, facts, decider, control, stop>>

Crash ==
    /\ host # "down" /\ Fault /\ host' = "down"
    /\ exec' = Idle /\ decider' = Idle /\ control' = [c \in Controls |-> None] /\ stop' = FALSE
    /\ UNCHANGED <<limit, facts>>

\* a verification that a person can still finish, or that only lacks its Gate
Durable == {n \in At({"verifying"}) : \E a \in AttemptsOf(n) :
              /\ Is(a, "succeeded") /\ VerificationsOf(a) # {}
              /\ \A v \in VerificationsOf(a), k \in Kinds(n) : LET c == checks[v].runs[k] IN
                    c.status = "completed" \/ (k = "human" /\ c.status = "running")}
Broken == {v \in DOMAIN checks : Unfinished(checks[v].runs)}
Lost ==
    {n \in At({"running", "candidate", "verifying"}) :
        \/ \E i \in Running : attempts[i].node = n
        \/ \E v \in Broken : attempts[checks[v].attempt].node = n
        \/ node[n] # "running" /\ n \notin Durable}
RecoverStartup ==
    /\ host = "down"
    /\ UNCHANGED <<limit, points, kept, decider, control, stop, faults>>
    /\ IF run = "running"
       THEN /\ attempts' = [i \in DOMAIN attempts |-> IF Is(i, "running") THEN [attempts[i] EXCEPT !.status = "interrupted"] ELSE attempts[i]]
            /\ checks' = [v \in DOMAIN checks |-> IF v \in Broken THEN [checks[v] EXCEPT !.runs["auto"].status = "interrupted"] ELSE checks[v]]
            /\ node' = [n \in Nodes |-> IF n \in Lost THEN "failed" ELSE node[n]]
            /\ IF Durable # {} /\ Running = {} /\ Broken = {} /\ Lost = {}
               THEN UNCHANGED <<run, cause>> ELSE run' = "paused" /\ cause' = "startup"
       ELSE UNCHANGED <<run, cause, node, attempts, checks>>
    /\ IF run' = "running" THEN Recovering(FALSE, node') ELSE exec' = Idle
    /\ host' = IF exec'.pc = "idle" THEN "up" ELSE "starting"

LatestPoint == points[Len(points)]
ValidPoint == LET a == LatestPoint.attempt IN
    Is(a, "succeeded") /\ \A k \in Kinds(attempts[a].node) : \E v \in VerificationsOf(a) : Passed(checks[v].runs[k])
RestoreState(point) == node' = point.node
RestoreLatest ==
    /\ Serving /\ run = "paused" /\ points # <<>> /\ ValidPoint /\ Fault
    /\ RestoreState(LatestPoint)
    /\ UNCHANGED <<host, limit, run, cause, attempts, checks, points, kept, threads>>

LoseEvidence(a) ==
    /\ a \in kept /\ Fault /\ kept' = kept \ {a}
    /\ UNCHANGED <<host, limit, run, cause, node, attempts, checks, points, threads>>
----------------------------------------------------------------------------
Execute ==
    \/ Prepare \/ RecordCandidate \/ Discarded \/ RecordArtifactFailure \/ AwaitControlledCancellation
    \/ \E status \in {"failed", "timed_out"} : RecordWorkerFailure(status)
    \/ AcceptIntermediate \/ ResumeVerification \/ StartChecks \/ RunCheck \/ ExecutorFinishes \/ ExecutorRecords
Decide ==
    \/ \E v \in DOMAIN checks, passed, hold \in BOOLEAN : DecideHumanCheck(v, passed, hold)
    \/ \E v \in DOMAIN checks : DecidedAgain(v)
    \/ DeciderFinishes \/ DeciderRecords
Command ==
    \/ \E c \in Controls, kind \in {"pause", "cancel"} : ReadSnapshot(c, kind)
    \/ \E c \in Controls : Nothing(c) \/ Pause(c) \/ Cancel(c)
    \/ PauseAgain \/ Resume \/ StartAgain
Environment == Crash \/ RecoverStartup \/ RestoreLatest \/ \E a \in DOMAIN attempts : LoseEvidence(a)
Next == Execute \/ Decide \/ Command \/ Environment
Spec == Init /\ [][Next]_vars
----------------------------------------------------------------------------
(* What is stored, with what the domain refuses to construct.                      *)

PlanNode == {"pending", "ready", "running", "candidate", "verifying", "completed", "failed"}
EndedStatus == {"failed", "timed_out", "cancelled", "interrupted"}
Attempt == {a \in [node : Nodes, status : {"running", "succeeded"} \cup EndedStatus, made : BOOLEAN] :
               a.made => a.status = "succeeded"}
\* only a completed CheckRun has a verdict
CheckRun == {c \in [status : {"running", "completed"} \cup EndedStatus, passed : BOOLEAN, asked : BOOLEAN] :
               c.passed => c.status = "completed"}
\* a Checkpoint has the node that its Gate's Attempt completed
Points == {p \in [node : [Nodes -> PlanNode], attempt : DOMAIN attempts] : p.node[attempts[p.attempt].node] = "completed"}
PauseCauses == {None, "operator", "hold", "budget", "startup"}
\* bytes are stored for results only
StoredArtifacts == SUBSET {i \in DOMAIN attempts : attempts[i].made}
\* a Run of a Goal with an authorized Worker budget stops at that one
Limits == {"goal", "run"}
Runs == {"pending", "running", "paused", "completed", "failed", "cancelled"}
----------------------------------------------------------------------------
(* Properties.                                                                     *)

RecordsValid ==
    /\ node \in [Nodes -> PlanNode] /\ \A i \in DOMAIN attempts : attempts[i] \in Attempt
    /\ \A v \in DOMAIN checks : /\ checks[v].attempt \in DOMAIN attempts
                                /\ checks[v].runs \in [Kinds(attempts[checks[v].attempt].node) -> CheckRun]
    /\ \A i \in DOMAIN points : points[i] \in Points
    /\ cause \in PauseCauses /\ kept \in StoredArtifacts /\ limit \in Limits /\ run \in Runs
WasRunning(n) == \E i \in DOMAIN points : points[i].node[n] = "running"

\* A node's state and its Attempts agree although three threads and a restart write
\* them: a running node has the Run's one running Attempt (the single exception is a
\* node that a restored Checkpoint had recorded as running), a result that waits for its
\* Gate is that of the node's last Attempt with the whole set of its Checks, no Run that has stopped
\* for a person or for good leaves a running Attempt behind, and no node of a completed
\* Run is open.
NodeFacts ==
    /\ RecordsValid
    /\ \A i, j \in Running : i = j
    /\ \A i \in Running : node[attempts[i].node] = "running"
    /\ \A n \in At({"running"}) : WasRunning(n) \/ \E i \in AttemptsOf(n) : Is(i, "running")
    /\ \A n \in At({"candidate", "verifying"}) : \E i \in AttemptsOf(n) :
          /\ Is(i, "succeeded") /\ attempts[i].made
          /\ node[n] = "verifying" => VerificationsOf(i) # {}
    /\ run \in {"paused", "cancelled", "completed"} => Running = {}
    /\ run = "completed" => At({"completed"}) = Nodes

\* A node with a Gate becomes completed only when every Check of its last Attempt has
\* passed and its Run runs, whichever thread gets there, or by the restore of a Checkpoint;
\* and, a restore aside, what is completed stays so.
Completes(n) == node[n] # "completed" /\ node'[n] = "completed"
Restores == run = "paused" /\ points # <<>> /\ node' = LatestPoint.node /\ attempts' = attempts
GatesDecide ==
    [][\A n \in Nodes : Restores
          \/ /\ Completes(n) /\ Kinds(n) # {} =>
                   /\ run = "running" /\ AttemptsOf(n) # {}
                   /\ \A a \in AttemptsOf(n) : IsLatest(a) =>
                         Is(a, "succeeded") /\ \E v \in VerificationsOf(a) : \A k \in Kinds(n) : Passed(checks[v].runs[k])
             /\ node[n] = "completed" => node'[n] = "completed"]_vars

\* What the threads of the local host keep: the facts of its nodes and the word of their Gates.
SerialHolds == []NodeFacts /\ GatesDecide
=============================================================================
