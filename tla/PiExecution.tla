------------------------------ MODULE PiExecution ------------------------------
(* One execution of a Pi Worker: the task that follows the harness, the consumer of *)
(* its events with its watchdog, the commands that stop it, the reviewer that       *)
(* watches its trace, and what a restarted host makes of what it left.              *)
EXTENDS Naturals

CONSTANTS
    MaxSteps,       \* tool calls of the turn
    MaxFaults,      \* timeouts, failures of the Hub, crashes
    None

VARIABLES
    code,           \* the host captures code: an execution can be replaced
    status, blocker, \* the Attempt; what its intervention is about
    trace,          \* [turn, steps, effects, submitted, ended, error, reviewed, reviews]
    receipt,        \* the review a person adopted
    registered,     \* _executions knows it
    task,           \* where the asyncio task is
    outcome,        \* _terminal_outcomes and _blocked_outcomes
    stream,         \* _consume_events: off, watching, grace or expired
    seen,           \* it has the candidate
    command,        \* a person's cancel: None, waiting, lost or answered
    suspension,     \* _requested_suspensions
    watcher,        \* None or the cutoff of the review that runs
    faults

durable == <<code, status, blocker, trace, receipt>>
consumer == <<stream, seen>>
memory == <<registered, task, outcome, consumer, command, suspension, watcher>>
vars == <<durable, memory, faults>>
----------------------------------------------------------------------------
Active == {"starting", "turn", "submitted", "ending", "failing", "cancelling"}
HostWork == task \in Active
Result == IF trace.submitted = "candidate" THEN "completed" ELSE "worker"
Fault == faults < MaxFaults /\ faults' = faults + 1

Init ==
    /\ code \in BOOLEAN
    /\ status = "running" /\ blocker = None
    /\ trace = [turn |-> FALSE, steps |-> 0, effects |-> FALSE, submitted |-> None, ended |-> FALSE,
                error |-> FALSE, reviewed |-> 0, reviews |-> 0]
    /\ receipt = None
    /\ registered = TRUE /\ task = "none" /\ outcome = None
    /\ stream = "off" /\ seen = FALSE
    /\ command = None /\ suspension = None /\ watcher = None
    /\ faults = 0

(* The task *)
Goes(t) == task' = t /\ UNCHANGED <<code, status, blocker, receipt, registered, consumer, command, suspension>>

\* the first step of the event stream creates it
Open ==
    /\ stream # "off" /\ task = "none" /\ outcome = None
    /\ Goes("starting") /\ UNCHANGED <<trace, outcome, watcher, faults>>

\* its done callback remembers how it ended, the reviewer is cancelled with it
Ends(o) == Goes("done") /\ outcome' = o /\ watcher' = None

Replayed ==
    /\ task = "starting" /\ trace.ended
    /\ Ends(Result) /\ UNCHANGED <<trace, faults>>

NotContinued ==
    /\ task = "starting" /\ trace.turn /\ ~trace.ended
    /\ Ends("unknown") /\ UNCHANGED <<trace, faults>>

\* the Hub is not there (unknown), the phase or the configuration refuses it (failed)
NotStarted ==
    /\ task = "starting" /\ ~trace.turn
    /\ Fault /\ \E o \in {"unknown", "failed"} : Ends(o)
    /\ UNCHANGED trace

BeginTurn ==
    /\ task = "starting" /\ ~trace.turn
    /\ trace' = [trace EXCEPT !.turn = TRUE]
    /\ Goes("turn") /\ UNCHANGED <<outcome, watcher, faults>>

CallTool ==
    /\ task = "turn" /\ trace.steps < MaxSteps
    /\ \E nonlocal \in BOOLEAN :
          trace' = [trace EXCEPT !.steps = @ + 1, !.effects = @ \/ nonlocal]
    /\ Goes("turn") /\ UNCHANGED <<outcome, watcher, faults>>

\* the host finds fault with what is submitted, the turn goes on
SubmissionRefused ==
    /\ task = "turn" /\ trace.steps < MaxSteps
    /\ trace' = [trace EXCEPT !.steps = @ + 1]
    /\ Goes("turn") /\ UNCHANGED <<outcome, watcher, faults>>

SubmitResult ==
    /\ task = "turn"
    /\ \E s \in {"candidate", "blocked"} : trace' = [trace EXCEPT !.submitted = s]
    /\ Goes("submitted") /\ UNCHANGED <<outcome, watcher, faults>>

Settle ==
    /\ task = "submitted"
    /\ trace' = [trace EXCEPT !.ended = TRUE]
    /\ Goes("ending") /\ UNCHANGED <<outcome, watcher, faults>>

HubFails ==
    /\ task \in {"turn", "submitted"} /\ Fault
    /\ trace' = [trace EXCEPT !.error = TRUE]
    /\ Goes("failing") /\ UNCHANGED <<outcome, watcher>>

\* a mutant: what was submitted counts although the harness did not settle
ClosedAnyway ==
    \/ task \in {"ending", "failing"} /\ trace.submitted # None /\ Ends(Result) /\ UNCHANGED <<trace, faults>>
    \/ task = "failing" /\ trace.submitted = None /\ Ends("unknown") /\ UNCHANGED <<trace, faults>>
\* the harness, the heartbeat, the tools and the reviewer are closed
Closed ==
    \/ task = "ending" /\ Ends(Result) /\ UNCHANGED <<trace, faults>>
    \/ task = "failing" /\ Ends("unknown") /\ UNCHANGED <<trace, faults>>

\* a cancellation that was delivered, also while a complete turn is being closed
Unwind ==
    /\ task = "cancelling"
    /\ \E recorded \in IF trace.ended THEN BOOLEAN ELSE {trace.turn} :
          trace' = [trace EXCEPT !.error = @ \/ recorded]
    /\ Ends("cancelled") /\ UNCHANGED faults

(* The consumer *)
Consume ==
    /\ status = "running" /\ registered /\ stream = "off"
    /\ stream' = "watching"
    /\ UNCHANGED <<durable, registered, task, outcome, seen, command, suspension, watcher, faults>>

\* connector.cancel: nothing happens to a task that is not there or is done
Cancelled == IF HostWork THEN "cancelling" ELSE task

Finish(s, b) ==
    /\ status' = s /\ blocker' = b
    /\ stream' = "off" /\ seen' = FALSE
    /\ command' = IF command \in {"waiting", "lost"} THEN "answered" ELSE command
    /\ suspension' = None
    /\ UNCHANGED <<code, trace, receipt, registered, task, outcome, watcher, faults>>

Observed(o) == stream \in {"watching", "grace"} /\ outcome = o /\ status = "running"
DeliverCandidate ==
    /\ Observed("completed") /\ ~seen
    /\ seen' = TRUE
    /\ UNCHANGED <<durable, registered, task, outcome, stream, command, suspension, watcher, faults>>

DeliverCompleted == Observed("completed") /\ seen /\ Finish("succeeded", None)

\* the blocker of an Attempt that a person suspends is the suspension's
BlockerOf(own) == IF suspension # None /\ stream = "watching" THEN "review" ELSE own
DeliverBlocked ==
    \/ Observed("worker") /\ Finish("blocked", BlockerOf("worker"))
    \/ Observed("unknown") /\ Finish("blocked", BlockerOf("effects"))

Failures == {"failed", "cancelled"}
DeliverFailed ==
    /\ stream = "watching" /\ outcome \in Failures /\ status = "running"
    /\ IF suspension = None THEN Finish("interrupted", None) ELSE Finish("blocked", "review")

\* inspect: only a terminal outcome is a stall
Stalled == outcome \in {"completed", "failed", "cancelled"}
Expired(kind) == kind = "deadline" \/ (kind = "lease" /\ Stalled)

\* the watchdog cancels, and gives the stream a last time
WatchdogCancels ==
    /\ stream = "watching" /\ status = "running" /\ Fault
    /\ \E kind \in {"lease", "deadline"} : Expired(kind)
    /\ stream' = "grace" /\ task' = Cancelled
    /\ UNCHANGED <<durable, registered, outcome, seen, command, suspension, watcher>>

GraceExpires ==
    /\ stream = "grace"
    /\ stream' = "expired"
    /\ UNCHANGED <<durable, registered, task, outcome, seen, command, suspension, watcher, faults>>

Drained == ~HostWork
TimeOut ==
    /\ stream = "expired" /\ status = "running" /\ Drained
    /\ Finish("timed_out", None)

(* Commands *)
CancelAttempt ==
    /\ status = "running" /\ stream # "off" /\ command = None
    /\ command' = IF task = "none" THEN "lost" ELSE "waiting"
    /\ task' = Cancelled
    /\ UNCHANGED <<durable, registered, outcome, consumer, suspension, watcher, faults>>

\* the reviewer looks at a window that it has not seen
StartReview ==
    /\ task = "turn" /\ watcher = None /\ trace.reviewed < trace.steps
    /\ trace' = [trace EXCEPT !.reviewed = trace.steps]
    /\ watcher' = trace.steps
    /\ UNCHANGED <<code, status, blocker, receipt, registered, task, outcome, consumer, command, suspension, faults>>

EndReview ==
    /\ watcher # None /\ HostWork
    /\ \/ trace' = [trace EXCEPT !.reviews = watcher]
       \/ trace' = trace
    /\ watcher' = None
    /\ UNCHANGED <<code, status, blocker, receipt, registered, task, outcome, consumer, command, suspension, faults>>

\* an adopted review stops the Attempt it is about
AdoptReview ==
    /\ status = "running" /\ receipt = None /\ trace.reviews > 0
    /\ receipt' = trace.reviews
    /\ IF stream # "off" /\ suspension = None
       THEN suspension' = trace.reviews /\ task' = Cancelled
       ELSE UNCHANGED <<suspension, task>>
    /\ UNCHANGED <<code, status, blocker, trace, registered, outcome, consumer, command, watcher, faults>>

(* Restarts *)
Crash ==
    /\ Fault
    /\ registered' = FALSE /\ task' = "none" /\ outcome' = None
    /\ stream' = "off" /\ seen' = FALSE
    /\ command' = IF command \in {"waiting", "lost"} THEN "answered" ELSE command
    /\ suspension' = None /\ watcher' = None
    /\ UNCHANGED durable

Unfinished == ~trace.ended
Recovered(o) ==
    /\ registered' = TRUE /\ outcome' = o
    /\ UNCHANGED <<durable, task, consumer, command, suspension, watcher, faults>>
Recover ==
    /\ status = "running" /\ ~registered
    /\ \/ Unfinished /\ trace.error /\ Recovered("unknown")
       \/ Unfinished /\ ~trace.error /\ code /\ trace.effects /\ Recovered("unknown")
       \/ ~(Unfinished /\ (trace.error \/ code)) /\ Recovered(None)
RestartLocal ==
    /\ status = "running" /\ ~registered
    /\ Unfinished /\ ~trace.error /\ code /\ ~trace.effects
    /\ Finish("restarted", None)

TaskStep ==
    \/ Open \/ Replayed \/ NotContinued \/ NotStarted \/ BeginTurn \/ CallTool \/ SubmissionRefused \/ SubmitResult \/ Settle
    \/ HubFails \/ Closed \/ Unwind
ConsumerStep ==
    \/ Consume \/ DeliverCandidate \/ DeliverCompleted \/ DeliverBlocked \/ DeliverFailed
    \/ WatchdogCancels \/ GraceExpires \/ TimeOut
Command == CancelAttempt \/ StartReview \/ EndReview \/ AdoptReview
Next == TaskStep \/ ConsumerStep \/ Command \/ Crash \/ Recover \/ RestartLocal

Spec == Init /\ [][Next]_vars
----------------------------------------------------------------------------
(* An Attempt is settled, and its node given to another, only when nothing of it    *)
(* still runs on the host: every way out waits for its task (_wait_for_host_work).  *)
QuietWhenSettled == status # "running" => ~HostWork

(* A candidate is accepted, or a Worker's blocker raised, only from a turn that the *)
(* trace shows to be complete, also after restarts and cancellations.               *)
FromCompleteTurn ==
    /\ status = "succeeded" => trace.ended /\ trace.submitted = "candidate"
    /\ status = "blocked" /\ blocker = "worker" => trace.ended /\ trace.submitted = "blocked"

(* What is recorded, and what the process remembers of it. *)
\* facts of a Session in their order: a turn, its calls, what it submitted, its end
Trace(t) ==
    /\ t.steps \in 0..MaxSteps /\ (t.steps > 0 \/ t.submitted # None \/ t.error => t.turn)
    /\ (t.ended => t.submitted # None) /\ (t.effects => t.steps > 0)
\* a reviewer has seen what it gives an opinion of, and an adopted opinion was given
Reviewed(t) ==
    /\ t.reviews <= t.reviewed /\ t.reviewed <= t.steps
    /\ watcher # None => watcher = t.reviewed /\ HostWork
    /\ receipt # None => receipt <= t.reviews
\* the task of a registered execution, which remembers how it ended
Execution == (task # "none" => registered) /\ (HostWork => outcome = None) /\ (task = "done" => outcome # None)
\* a command is answered when the Attempt it waits for is settled
Answered == status # "running" => command \in {None, "answered"}
\* deferred events are of an execution that ended well
Deferred == seen => outcome = "completed" /\ stream # "off"
Recorded == Trace(trace) /\ Reviewed(trace) /\ Execution /\ Answered /\ Deferred

(* An Attempt is settled once, after all of it has ended, and by what its trace shows. *)
SettledByTrace == QuietWhenSettled /\ FromCompleteTurn /\ Recorded
=============================================================================
