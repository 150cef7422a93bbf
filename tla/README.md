# EHAI: a verification development

EHAI turns a goal into an approved plan (a graph of nodes), and executes the
plan with Workers: agents that run outside of the process. Everything a user can
rely on is kept in one SQLite database; everything else (tasks, the set of
Runs that a handler has taken control of) is lost when the host process dies.
This directory models the parts of the code that decide what happens to a plan,
checks them with TLC on small instances, and proves the invariants that matter
most for every instance.

Paths below are relative to `src/src/ehai/` unless they start with `docs/`.

## 1. Inventory

### 1.1 Components, their state and their operations

| Component | State | Operations | Correct when |
|---|---|---|---|
| Scheduler loop (`application/scheduler.py`) | in memory: tasks, claimed works, controlled Runs; durable: `DispatchWork` | `_run_until_idle`, `_claim_all_work`, `_schedule`, `recover_startup`, `_recover_unowned_attempts`, `quiesce_run`, `_converge_scheduler_error` | capacity is respected, work is claimed before it is done, no wake-up is lost, nothing is replayed |
| Attempt task (`application/async_runtime.py`) | the Worker's execution handle, the event cursor | `execute_started_request`, `recover_attempt`, `_consume_events`, `request_cancel` | each Attempt is settled exactly once; an unknown outcome is never treated as a failure that may be retried |
| Orchestrator (`application/orchestration/`) | Run, PlanNodes, Attempts, CheckRuns, Gates, Interventions | `queue_ready_attempts`, `start_queued_attempt`, `accept_worker_result`, `retry_attempt`, `time_out_attempt`, `interrupt_attempt`, `block_attempt`, `finish_pending_gate` | nodes start in dependency order; a node completes only with its Gate passed; Attempts and nodes agree |
| Run control (`application/run_control.py`) | pause causes, dispatch work | `pause`, `resume`, `cancel` | a drained pause has nothing queued; a cancelled Run is quiet; a resume releases exactly what a person may release |
| People (`application/interventions.py`, `application/execution_service/runs.py`) | human CheckRuns, intervention replies | `decide_human_check`, `reply_intervention` | a reply releases the node it answers and wakes the scheduler |
| Host process (`interfaces/runtime.py`, `interfaces/api.py`) | none that survives | start, supervised restart, handlers on the event loop and on threads | a crash loses nothing that was committed |
| Plan branches and adoption (`application/orchestration/branches.py`, `adoption.py`) | branches, adoption records | open, review, adopt | exactly one branch is adopted |
| Checks (`application/checks.py`, `application/evaluation.py`) | CheckRuns, evidence | run, invalidate, re-run | evidence belongs to the candidate it judges |
| Event consumers (`application/event_consumers.py`) | cursors | read, acknowledge | no event is skipped |
| Idempotency (`application/idempotency.py`) | receipts | replay | a retried command takes effect once |
| Session mailbox (`application/session_mailbox.py`) | messages | send, deliver, acknowledge | delivered in order and not lost |
| Planner (`application/planner.py`, `planner_capacity.py`, `plan_graph_tools.py`) | drafts, capacity tickets | draft, edit, approve | the graph stays acyclic; capacity is returned |
| Process control (`application/process_*.py`) | obligations, gates, adjustments | adjust, review, discharge | no obligation is discharged without its review |
| Worker Hub (`hub/`) | in memory: sessions, events, leases; on the core: the trace | `start`, `prompt`, `events`, `tool_result`, `heartbeat`, `close`, `reap`; `run`, `recover` | a turn is begun once, a call executed once, no harness is left running |
| Workspaces (`infrastructure/workspace_supervisor.py`, `code_workspaces.py`) | child processes, leases of directories | start, stop, cleanup | one owner per directory |

`PROJECT.json` lists the remaining parts (read models, presentation, codecs).

### 1.2 How they interact

The scheduler loop is one coroutine. It claims the Run's `DispatchWork` (a lease
of five minutes that nobody renews), queues Attempts, starts a task per Attempt
and waits for one of them to finish. A task talks to the Hub and calls the
Orchestrator's transactions. Asynchronous API handlers (pause, resume, cancel)
run on the same event loop, so they interleave with the loop and the tasks
only at `await`s; they tell the loop to keep off a Run through the in-memory
set `_controlled_runs`. Synchronous handlers (a decision, a reply) run
on server threads and interleave with every transaction. All of them communicate
through SQLite; `BEGIN IMMEDIATE` serialises writers.

### 1.3 What is hard

Two Attempts whose outcomes become unknown at about the same time; a status read
in one transaction and used in the next; a host that dies between any two
transactions and is restarted before or after its lease ran out; a command
that fails half-way; late answers; a budget or a slot limit reached by two paths
at once. `PROJECT.json` ("hazards") names each place with its line.

## 2. Modules

| Module | Code | What it is |
|---|---|---|
| `RunExecution` | application/scheduler.py, async_runtime.py, orchestration/, run_control.py | one Run on one host: the loop, the tasks, verification, commands, people, crashes |
| `PlanProgress` | | what an observer of a plan is promised (abstract) |
| `RunProgress` | | `RunExecution` with the refinement mapping to `PlanProgress` |
| `RunProgress_proofs` | | the theorems about `RunExecution`, the refinement, and the limits of the hosts in `MCLeases` |
| `MC...` | | small instances for TLC, and the sums of parts that make a run |
| `BranchExploration` | orchestration/readiness.py, branches.py, adoption.py, verification.py, attempts.py, evaluation.py, process_gates.py | branches, selection, adoption, rework, the static gate analysis |
| `ConnectorCalls` | application/connectors.py, connectors/bridge.py, connectors/google_calendar.py | calls to an external service, the connector's own process and its files |
| `Requests_proofs` | | the theorems about `NoteDecisions`, `ConnectorCalls` and `RoutingLab` |
| `WorkspaceHosts` | infrastructure/workspace_supervisor.py, interfaces/workspace_api.py and workspace_child.py | the manager of one machine's workspaces and the host processes it owns |
| `HubInvocation` | infrastructure/hub_runtime.py, workers/pi.py, hub/ | one Worker Attempt through the Hub: the core's side, its trace, the Hub's sessions and lease, crash and recovery |
| `HubInvocation_proofs` | | the theorems about `HubInvocation` and `PiExecution` |
| `MCHubInvocation` | its tool calls for TLC |
| `DispatchLeases` | application/scheduler.py, async_runtime.py, sqlite/state/runs.py, domain/runtime.py | the leases of Runs, the hosts that claim them, and the slots of their tasks |
| `DispatchLeases_proofs` | | `HostsKeepLimits`, the theorem about `DispatchLeases`, which `RunProgress_proofs` carries to the specification of the run |
| `NoteDecisions` | application/notes.py, interfaces/notes_api.py | a note, its discussion, and a decision whose operation runs between two transactions |
| `EventConsumers` | infrastructure/sqlite/event_consumers.py, repository.py, application/event_consumers.py, interfaces/event_consumers_api.py, sse.py | durable consumers of the event log and the event stream |
| `GoalPlanning` | application/execution_service/planning.py, successions.py, planner_capacity.py | the plans of one Goal: commands that ask a model between two transactions, approvals, successions |
| `GoalPlanning_proofs` | | the theorems about `GoalPlanning` |
| `PlanGraph` | application/plan_graph_tools.py, domain/planning.py | the draft a model edits with tool calls, `finish_plan`, the domain's rules for a revision and what readiness waits for |
| `ProcessControl` | process_adjustments.py, process_control.py, process_review_context.py, execution_service/process.py, sqlite/state/process.py | drafts, reviews, published processes, the coordinator |
| `Control_proofs` | | the theorem about `ProcessControl` |
| `RoutingLab` | application/routing_lab.py, routing_models.py, routing_fallback.py, planner_capacity.py, infrastructure/routing_pi.py, routing_projects.py, interfaces/routing_api.py, connectors/jev.py | requests, recipes and replays of a routing lab, its slow fallback and the handoff to another Project |
| `SerialExecution` | application/orchestration (attempts, verification), checkpointing.py, run_control.py, checks.py | one Run on the serial host |
| `AgentSessions` | application/phase_sessions.py, session_mailbox.py, agent_trace.py, infrastructure/hub_runtime.py | what Agents read of each other |
| `Sessions_proofs` | | the theorems about `AgentSessions` and `SerialExecution` |
| `PiExecution` | infrastructure/workers/pi.py, application/async_runtime.py, trajectory_suspensions.py | the task, the stream and the commands of one execution |
| `CustomWorkflows` | application/custom_workflows.py, workflows.py, workflow_inbox.py | a project's own workflow definitions, their validation and the engine that runs them |
| `LifeWorkflows` | application/workflows.py, workflow_recording.py, interfaces/workflows_api.py | captured tasks, their decision, and the routines the hosts' schedulers start |
| `Routines_proofs` | | the theorems about `EventConsumers` and `LifeWorkflows` |
| `CodeWorkspaces` | infrastructure/code_workspaces.py, workspaces.py, workers/code.py, application/handoffs.py | worktrees of Attempts, handoffs, integration |

### 2.1 `RunExecution`: state and actions against the code

One action is one SQLite transaction, together with the in-memory
statements that no other actor can observe half done. The variable `pc` is where
the loop is; an action of a task or of an asynchronous handler needs the loop at
an `await` (`AwaitPoints`) and no synchronous verification under way (`fix`).
`Decide`, `ThreadGate` and `Reply` need neither: they run on other threads.

| Variables | In the code |
|---|---|
| `run`, `cause` | `Run.status`; the pause cause in the latest pause event |
| `node`, `tries`, `ast`, `bound` | `PlanNode.status`; the Attempts of a node, their status, and whether `_bind_execution` has persisted the handle |
| `auto`, `human` | the CheckRuns of the latest candidate: one automatic, one human |
| `open`, `asks` | interventions without a reply; the count behind `REPEATED_INTERVENTION_LIMIT` |
| `work` | the `DispatchWork`; its owner is this process, a dead one, or a dead one whose lease ran out |
| `pc`, `sel`, `task`, `fix` | program counters of the loop, the tasks, and verification |
| `ctl`, `op`, `asked`, `qerr`, `dec` | `_controlled_runs`; the operator's command in progress, the tasks it waits for and whether its cancellation failed; decision threads |

Actions: `Startup`, `RecoverStartup`, `Gather` (`recover_startup`); `Iterate`, `Queue`,
`Select`, `Start`, `HandleDone`, `Release`, `SettleWait` (`_run_until_idle` in
order); `ConvergeDone` (`_converge_scheduler_error` with `quiesce_run`); `Bind`,
`Recovered`, `BudgetFailure`, `Candidate`, `ArtifactFailure`, `Block`, `Retry`,
`Interrupt`, `TimeOut`, `Refused`, `Break`, `Late` (how a task goes on or
ends); `VerifyEnter`, `VerifyCheck`, `VerifyGate` (`_check_and_complete`);
`Quiesce`, `Commit`, `ReleaseDispatch`, `Resume` (the operator); `Decide`,
`ThreadGate`, `Reply` (people); `Crash`, `Restart`, `LeaseExpires`.

What is abstracted:

- one Run and one host; the dispatcher always admits an assignment while a slot
  is free (endpoint health and workspace conflicts are left out);
- a node has at most one automatic and one human Check, and how often a Check is run after a
  crash is not counted; the contents of candidates, evidence and interventions are left out;
- rework by a reviewer, branches and adoption are left out, as is
  `cancel_queued_attempt`;
- which nodes a Goal budget that is too small leaves behind is a nondeterministic
  choice (the code takes them in the order of the plan);
- the supervisor restarts a converged loop without a limit
  (`_MAX_RUNTIME_RESTARTS` is not modelled);
- the end of `_converge_scheduler_error` is one action; the two reads of
  `waiting_for_input` are one;
- one command of the operator is in progress at a time;
- `MaxTries`, `MaxCrashes`, `MaxCommands` and `MaxFaults` are bounds of the model.
  In the liveness runs `MaxTries` is at least `AttemptBudget`, so that it is the
  code's own budget that ends the retries.

### 2.2 `PlanProgress`

Its state is the status of the Run, the accepted nodes and the nodes that
are worked on. `RunProgress` maps `done` to the completed nodes and `busy` to the
running, candidate and verifying ones, and states that every step of
`RunExecution` is a step of `PlanProgress` or a stutter. The refinement and
`StartsWhileRunning` are checked for a configured code workspace
(`CodeMode = TRUE`): without one, a Gate that fails on a decision thread fails the
Run between `Select` and `Start`, and the loop then starts an Attempt of a failed
Run; `start_queued_attempt` does not read the Run again.

### BranchExploration

A plan is a record chosen in `Init`; edges are given as dependencies, and by each branch's fork, path and merge. `host` is the scheduler's thread
between two transactions: `evaluating` (between `_evaluate_completed_evaluator`'s read and `_record_branch_selection`'s write) and `adopting`
(between the two transactions of `accept_adopted_result`); decisions of people and the end of their gates happen in between. `Admit` is
`queue_ready_attempts` as one transaction, with its order: stalled nodes, rejected reviewers, exhausted branches, candidates. `Family` is
`_Analyzer`: a recursive function over (ready, completed, selected) x nodes; `RoutesProven` compares it with what the scheduler did.
`Pause` stands for a quiesced stop (its interleavings are `RunExecution`'s). Goal budgets are left to `RunExecution`.

### ConnectorCalls

`call`, `delivered` and `received` are the core's tables, `pending` the only file of a connector that matters after a crash, `remote` and `posts` the
provider (external). One iteration of `_run_once` is `Claim` (or `Load`), `Save`, the adapter's steps, `Record`, `Send`, `Reported`, `Receive`; a
`Crash` may come between any two. `Report` takes any result that was ever sent, so answers are lost, repeated and late. A create the adapter gave up
may still be carried out (`remote = "sent"`).

### WorkspaceHosts

`mutex` is the supervisor's lock: a start holds it while it spawns and then polls without it, so `Ready` and `GiveUp` meet an entry that others have
changed. `stop`, a start that gave up and `close` share `_shutdown_owned` (`Locks` to `Killed`), one at a time per entry: a stop reaches it without
an await when the entry's lock is free, and the child it is about is the one the entry named then (`task[t].proc`). `Overlaps` says whether another start
of a workspace may begin while such a shutdown is under way; what then goes wrong is the run `overtaken_start`, and `HostsHold` is checked without it. The child answers for
itself: `Acknowledge` looks at its counted writes and at what runs, and from there on `Accepts` refuses. A write is `Route`d under the mutex and
`Arrive`s after it, at a host that may meanwhile have exited.
Work comes from such writes and from nothing else: what a host may begin of itself (a routine that becomes due) after it agreed to stop is not modelled.

### 2.3 `HubInvocation`

`RunExecution` sees a Worker only through the outcomes it reports. This module
shows where they come from: `HubRoleRunner.run` follows one session of the Hub,
executes the tool calls of the harness on the host and keeps all of it on a durable
trace, from which `PiAgentConnector.recover` decides after a crash.

| Variables | In the code |
|---|---|
| `core`, `why`, `att`, `cursor`, `fetched`, `call`, `final` | the place in `run`, `_Invocation.follow` and the cleanup; how it ends; the session; the batch; `final_text` |
| `turn`, `called`, `answer`, `ended`, `err` | the trace: TURN_STARTED, TOOL_CALLED, TOOL_RESULT, TURN_ENDED, BACKEND_ERROR |
| `verdict` | the outcome the Attempt is settled with: what `RunExecution` takes as `Candidate`, `Block`, `Interrupt` or a failure |
| `sess`, `log`, `age`, `finished` | the Hub's sessions: in the table or not, their events, the time since `touched`, the accepted result |
| `prompted`, `message`, `open`, `asked` | the harness: external, a model whose messages ask for calls |
| `ran` | history: how often the host executed a call |

`Request` is an HTTP call: served and answered; lost, or served with its reply
lost (both are the unknown outcome of `HubConnection._call`); refused, because the
session is gone; or interrupted by a cancellation. Every await of the core is such a
place, and so are the awaits of the cleanup (`StopHeartbeat`, `Close`, `RecordError`,
`CloseTools`).

What is abstracted: messages injected into the session, life-cycle and usage events
are left out; a life of the core starts at most one session; events are fetched all
at once; the heartbeat task (`beat`) sleeps an interval, is due, and sleeps
again when its request has ended; a request that is lost may fail at once or by a timeout of one
interval, and an interval in which the core's loop is kept from its timers (a synchronous Check)
is a fault too. The timeout of the code holds for each phase of a request, so that one lost
heartbeat may take longer than an interval: the model is the shortest case;
a call names all the calls of its message (over MCP the adapter waits a settling
time for that); planner roles, whose finish tool may follow other calls, are not
modelled. `MaxCrashes`, `MaxFaults` and `MaxCancels` are bounds of the model, and
a person cancels as often as `MaxCancels` allows at any await. A cancellation that
arrives in the cleanup of a completed turn ends the Attempt as failed, as in the code
(`_record_terminal_outcome` does not look at the trace): no property judges this race.

### DispatchLeases

The loop of `run_until_idle` is synchronous between two waits, so a host's tasks run only while it waits; every transaction of a loop interleaves with the
other host's. `task[h][n]` is what host `h` remembers of its task for a node, and stays with the Attempt number it was made for, while another host may have
settled that Attempt: then the store refuses what the task does next (`Superseded`). The provider's side (`remote`) survives its host unless the endpoint is local.

### NoteDecisions, EventConsumers

A decision is `Write` (the client), `Decide` (claim and receipt, one transaction), `Begin`/`Planner` (the executor's own transactions), `Finish` or `Raises`;
`Retry` is the same decision sent again, which completes what is recorded and repeats nothing. The reply and the human Check do not await, so nothing else
of the server runs meanwhile (`Held`). In `EventConsumers` a batch is an interval of offsets; `Frame` either arrives or is lost with the connection, after
which the client opens the stream again at `last`.

### GoalPlanning

A planning command runs in a server thread: `calls[q]` is what the thread has read before the model was asked. `Begin...` is the first
transaction, `End...`, `Propose` and `AbandonProposal`/`FailDiscussion` the second one; between them everything else may happen. A plan is its
version, the version of its contract, its base, the key that produced it and the cover of a succession (`approve_succession`). What a Run does is
reduced to what planning looks at: its status, whether work is active, its open questions, and the numbers of its pauses and process revisions;
`RunExecution` has the rest.

### PlanGraph

The draft is a record of nodes, edges, branches, phases, node Gates, the final Gate and, for a process, the owners of the frozen Gates. Each tool
is an action with its refusals as guards; `Refuse` is a refused call, which costs an operation. `Validates` is `_validate_graph`, `RevisionValid`
what `PlanRevision.validate` asks of the revision built from it, and `Awaited` the nodes `ready_nodes` waits for, directly or not. The seeds are
a plan with two phases, the same plan as a frozen process, and an exploration with two branches; the pools of edges, branches and phases hold the
edits that matter for the properties, and TLC applies any four of them in any order. Wording, capabilities and session
policies of nodes are not represented.

### ProcessControl

`controls` are the control events of a Run; the number of an event is its identity, so a guard is a comparison with `Latest`. The plan is its
process revision and the status of each node with the revision it belongs to (a changed task is a node of its own): equality of such plans is the
equality of snapshots the code asks for. `hosts[h].pc` is where the coordinator's child task stands; between `spawned` and its first wait, and
between `drafted`/`reviewed` and the next wait, commands of the same host find no place, those of other processes do. `CancelAdjustment` is the
call every command of a host starts (and, for pausing and cancelling, ends) with. Both publishing and reviewing load the same context
(`InContext`).

### RoutingLab

People's commands are transactions; `advance` is not: an advancer (the pump's thread, or a person's `/advance`) keeps in `local` what it has read, and
`Look`, `Queue`, `Mark`, `Judge`, `Finish` are its steps between transactions, `ReadReplay` and `WriteReplay` those of a pending replay. `answer` is what Jev's
connector says of a call: a recipe of the snapshot, or something that is no choice. `Claim` to `LinkReplay` is the slow fallback, `Dispatch` to `PostPlan` the handoff,
where each POST may arrive or not and its answer come or not. `goals` counts what arrived, which the host cannot see.
The lab is in its mode `read_only`; in `shadow` a chosen recipe is noted (routing_lab.py:423) and never executed, and there is no fallback.

### SerialExecution

The serial profile has one executor under `_execution_lock` (`exec`), a thread that settles a person's decision (`decider`) and commands (`control`) that
read a snapshot, stop the Worker and commit only if nothing has changed. Every transaction is one action, so a Gate is `ExecutorFinishes` (which looks
at the Checks) and `ExecutorRecords` (which looks again whether its decision is still wanted). `RecoverStartup` is the one transaction of a restart; the
candidates it keeps are then taken up by the executor while the host is `starting`. `RestoreLatest` writes the plan of the last Checkpoint back and leaves the Attempts.
`checks` has one entry for each time that Checks began: after a restore a candidate that was verified gets CheckRuns of their own beside
the first ones (`NewChecks`), and its Gate is then refused as ambiguous (`Ambiguous`).

### AgentSessions and PiExecution

`AgentSessions` follows `_Invocation`: before a turn and after every tool, `BeforeStep` steers the next page of the phase's discussion and the
pending mail; `InputPrepared` happens when the harness reports that the model's input had one of them. The cursor is computed from the trace alone.
The log is the public event log, so the entries of a page are offsets with other events between them.

`PiExecution` has one execution and every actor that touches it: `task` is `_run_execution` with the points at which it awaits (`ending` is
everything after TURN_ENDED), `stream` is `_consume_events`, `command` a person's cancel, `suspension` an adopted review. A cancellation is delivered at
the task's next await, whatever it was doing. `code` chooses between the profiles with and without captured code.

### CustomWorkflows

A definition is a graph over typed steps. `Valid` is `validate_definition`, on paths: `Met` is its reachability, `Dominators` its intersection over
predecessors. A Run is "running" only within a transaction, so the steps `Select` to `StartWait` are its loop and `Answered` to `Fires`, `DecideStep` the
transactions that enter it. The properties quantify over the definitions that validation admits: `Sent` holds all graphs of four families, most of them invalid.

### LifeWorkflows

A tick is three kinds of transactions: `ListDue` reads, `StartDue`/`SkipDue`/`NotDue` re-read and write, `Poll` re-reads and advances a waiting Run. People's
commands keep their key and expected version (`command`), and may arrive again. A routine's Runs keep what they were started for (`scheduled`, `count`)
and the edit they belong to (`edit`, for the properties only).

### CodeWorkspaces

A commit is its base and the set of changes it has (`<<"code", i>>` for what Attempt `i` wrote); two changes clash by the plan's
`clashes`. `tree` is a worktree, `doc` its `attempt.json`, written after the Git command it describes: `MergeRemaining` does one Git or file step at a
time, so that `Crash` falls between any two. `at` is where the connector is with an Attempt (`start`, `pin`, `merge`, `work`, `capture`, `handoff`,
`confirm`, `captured`). The orchestrator's part (`QueueAttempt`, `Accept`, the rework of a phase) is reduced to what decides which commits are read;
its own behaviour is `RunExecution`'s and `BranchExploration`'s. The end of a process is `Crash`: an orderly one
(`CodeRuntimeConnector.close`, workers/code.py:1033) also captures the Attempts that were still running, which is no
action here. No part of `CodeHolds` is about such a snapshot: what did not end is restarted as another Attempt, from a handoff or from its inputs. Removing worktrees is left out: the product sets `preserve_completed`.

## 3. Runs

A run answers several questions about parts that do not share state: its MC module
extends one part's module, instantiates the others, and a variable `part` (`code` in
`hub`), which no step changes, says which of them a behaviour follows. The
variables of the other parts then keep one initial value, so the states of the run are
the sum of the parts', not their product.

| Run | Parts and bounds | Properties |
|---|---|---|
| `people` | two parallel nodes with human Gates on a host with a code workspace, two commands and two Attempts of the Goal, or one command and three Attempts; or a chain of two on a host without one, one crash, one command, three Attempts. `CodeWorkspaces`: five plans of two to four nodes with three to six Attempts, one fault each, up to two handoffs, one integration | `CompletedHasEvidence`, `CancelledIsQuiet`, `UnknownStopsRun`, `StartsWhileRunning`; `CodeHolds` |
| `moves` | two parallel nodes (an automatic Check, a human one), one slot, a Goal budget of three, two Attempts each; one crash or one command, not both; no connector faults | `RunMoves`, `AttemptsSettle` |
| `hub` | a tool call and submissions, on a host with a code workspace or without one; in both one crash, one fault, one cancellation; an idle limit of four intervals. `PiExecution`: one execution, two tool calls, three faults | `TypeOK`, `RestartIsLocal`, `CallsRunOnce`, `ResultFaithful`, `NoReplay`, `KeptAlive`; `SettledByTrace` |
| `planning` | `GoalPlanning`: two threads, three keys, one conversation, two plans, two Runs, one crash. `WorkspaceHosts`: two workspaces of which one takes the whole capacity of two, two starts, with one stop, one forwarded write and two child processes, or with three child processes; no start of a workspace while its shutdown is under way | `ExecutionIsApproved`, `OneHistory`; `HostsHold` |
| `control` | `BranchExploration`: three plans (reviewed in code mode, reviewed with a planner, merged with an adopted result), three faults, one resumption. `ProcessControl`: one node, one coordinator and commands of other processes, four controls, two Attempts, a draft and a review, one crash. `PlanGraph`: four edits of three seeds, one retry | `RoutesHold`, `RunsSettle`; `ControlHolds`, `Attended`; `DraftHolds` |
| `sessions` | `AgentSessions`: two Agents, one phase, three tool calls, one message, pages of one entry, one crash. `SerialExecution`: three nodes (one with an automatic and a human Check beside one without Gate, and a final one after that, which a person judges), three Attempts, one command, one crash, loss or restore | `NoGaps`, `MailAccounted`; `SerialHolds` |
| `leases` | `DispatchLeases`: two hosts, two Runs, three nodes, two endpoints, one crash or lapse. `RunProgress`: a chain of two nodes, two Attempts each, one crash, one fault, two commands | `SlotsKept`, `AttemptsReturn`; `TypeOK`, `NodeAgreement`, `DependencyOrder`, `SuspendedIffOpen`, `DrainedPause`, `SettledOnce`, `ImplementsPlan` |
| `requests` | `NoteDecisions`: two notes, two decisions, one crash. `RoutingLab`: two requests, two recipes, two replays, two advancers, three commands, one restart, from three situations. `ConnectorCalls`: a read and a create, two connectors, two crashes, two reconciliations | `ResolvedOnce`; `RoutingHolds`; `CallsHold` |
| `routines` | `EventConsumers`: two consumers with two limits, one stream, five events. `LifeWorkflows`: two schedulers, two people, one edit, two Runs, four times. `CustomWorkflows`: 480 valid definitions out of about 2,700 over two people, a write, a condition, a wait | `DeliveredOnce`; `LifeHolds`; `CustomHolds` |
| `stranded_candidate` | violated: a chain of two nodes, one crash | `CandidatesJudged` |
| `overtaken_start` | violated: the workspaces of `planning`, and a start may begin while a shutdown of its workspace is under way | `ServedWithinCapacity` |
| `missed_heartbeat` | violated: the invocation of `hub` at the smallest idle limit of three intervals, one fault | `MissTolerated` |

Two nodes are enough for the races that concern siblings (one outcome against
another, one decision against another task) and a chain for the dependency
barrier; two Attempts per node let a retry meet the late answer of its predecessor.
Two commands let a resume follow a pause. Five events let a batch, a second one and a
stream's batch overlap in every way. Deadlock is not checked: every bound of a
model ends somewhere, and the loop may really end (`RuntimeQuiescenceError`, or the
`CancelledError` of a killed task). That a system which should go on does so is what
`RunMoves`, `AttemptsSettle`, `RunsSettle`, `Attended`, `AttemptsReturn` and `KeptAlive` ask.

### 3.1 The violated runs

- `stranded_candidate`: recovery of candidates is a part of startup only, and startup
  skips a Run whose dead owner's lease has not run out yet.
- `overtaken_start`: a start that gave up shuts the child down that it captured, and its entry may
  meanwhile belong to the next start (its child exited, so the entry reads `failed`). The end
  of the first marks the second's host `stopping`, `stopped` and `failed`, and what it had reserved
  is free while it serves. The window is short: the child exits between the request for its
  shutdown and the answer. `HostsHold` is checked with `Overlaps = FALSE`, that is under the
  condition that no start falls into that window; a bound of two child processes would hide it.
- `missed_heartbeat`: `protocol.py` says that a Hub tolerates one missed heartbeat, and refuses an
  idle limit below three intervals for that reason. The heartbeat sleeps an interval, and its
  request may take another one before it times out, so that the next one is due when the limit is
  reached. The tool call that the host executes meanwhile makes no request that would renew the
  session. At the default limit of ten intervals `KeptAlive` says that it takes five faults.

### 3.2 Fairness

`FairSpec` assumes that the loop, the verification it runs and a started
command go on (one event loop that is never blocked for ever), that a task ends (every
execution has a watchdog), that a lease runs out (it is a time stamp), that
decision threads finish, and that a stopped process is started again. The end of a
command (`Commit`, `ReleaseDispatch`) has strong fairness: it can only run while the loop is at an
`await`, and its callback waits in the event loop's queue, which is first in, first out, while the
loop comes to its next one. No fairness is assumed of commands, people or crashes: they may come or
not.

`RunMoves` and `AttemptsSettle` are checked with at most one command or one crash, at any moment, and
without connector faults; combinations of several disturbances are left to the safety properties. A command
can make the loop leave a running Run alone in two ways, both defects of the code
(section 6); `LeftAlone` describes them by the state they leave, and `RunMoves` claims that there is
no third one. It is about a host that lives: after a crash `AttemptsSettle` says what is
promised, and `stranded_candidate` what is not. With two slots instead of one both properties hold
too (543,576 states, about twice the time of the run).

`KeptAlive` and the other properties of `HubInvocation` need no fairness.

## 4. Proofs

Every theorem holds for all values of the constants that satisfy the module's named
assumptions, which TLC evaluates in the runs: finite sets of Attempts, nodes or hosts where
something is counted, natural bounds, dependencies without a cycle, and a `None` that is
none of the other values. An inductive invariant that is not itself a property was first
checked by TLC on the run of its property.

| Theorem | Property | Run |
|---|---|---|
| `TypeCorrect` (`RunProgress`) | `TypeOK` | `leases` |
| `NodesAgree` (`RunProgress`) | `NodeAgreement` | `leases` |
| `SuspensionIsHonoured` (`RunProgress`) | `SuspendedIffOpen` | `leases` |
| `DependenciesFirst` (`RunProgress`) | `DependencyOrder` | `leases` |
| `SettledForGood` (`RunProgress`) | `SettledOnce` | `leases` |
| `PausesDrain` (`RunProgress`) | `DrainedPause` | `leases` |
| `CancellationIsFinal` (`RunProgress`) | `CancelledIsQuiet` | `people` |
| `UnknownOutcomesStop` (`RunProgress`) | `UnknownStopsRun` | `people` |
| `CompletionIsEarned` (`RunProgress`) | `CompletedHasEvidence` | `people` |
| `StartsAreCurrent` (`RunProgress`) | `StartsWhileRunning` | `people` |
| `ProgressAsPromised` (`RunProgress`) | `ImplementsPlan` | `leases` |
| `CallsAreTold` (`Requests`) | `CallsHold` | `requests` |
| `HubTypeCorrect` (`HubInvocation`) | `TypeOK` | `hub` |
| `PromptedOnce` (`HubInvocation`) | `NoReplay` | `hub` |
| `RestartsAreLocal` (`HubInvocation`) | `RestartIsLocal` | `hub` |
| `SessionsAreKept` (`HubInvocation`) | `KeptAlive` | `hub` |
| `CallsAreRunOnce` (`HubInvocation`) | `CallsRunOnce` | `hub` |
| `AttemptsEndByTrace` (`HubInvocation`) | `SettledByTrace` | `hub` |
| `ResultsAreFaithful` (`HubInvocation`) | `ResultFaithful` | `hub` |
| `LimitsAreKept` (`RunProgress`) | `SlotsKept` | `leases` |
| `ReadOnce` (`Routines`) | `DeliveredOnce` | `routines` |
| `DecidedOnce` (`Requests`) | `ResolvedOnce` | `requests` |
| `ApprovedWork` (`GoalPlanning`) | `ExecutionIsApproved` | `planning` |
| `PlanningIsOneHistory` (`GoalPlanning`) | `OneHistory` | `planning` |
| `ChangesAreReviewed` (`Control`) | `ControlHolds` | `control` |
| `LabIsTrue` (`Requests`) | `RoutingHolds` | `requests` |
| `DiscussionsAreRead` (`Sessions`) | `NoGaps` | `sessions` |
| `MailIsAccounted` (`Sessions`) | `MailAccounted` | `sessions` |
| `SerialIsTrue` (`Sessions`) | `SerialHolds` | `sessions` |
| `RoutinesDoNotRepeat` (`Routines`) | `LifeHolds` | `routines` |

### 4.1 RunExecution

`RunProgress_proofs` rests on `PlanAssumption` and `BoundAssumption`.

- `TypeCorrect` has a lemma per action.
- `NodesAgree`, `SuspensionIsHonoured`, `DependenciesFirst`: the inductive invariant
  is `PlanInv == NodeAgreement /\ SuspendedIffOpen /\ DependencyOrder` under `TypeOK`. The
  conjuncts need each other: that a settlement may move a node needs that
  the node's latest Attempt is the running one (`NodeAgreement`), and that a retry
  keeps the dependency barrier needs that it had been passed. The proof first
  classifies every action into a handful of kinds of steps
  (`PlanStep`: a verdict, a settlement, a quiesce, a start, a queueing, ...), and then
  shows once per kind that the invariant is kept. `SettledForGood` follows by the same
  classification.
- `PausesDrain`, `CancellationIsFinal`: `OutcomeStep` says what any step does to the Run;
  a step that does not pause queues nothing, and every step that pauses with a drained cause
  withdraws what is queued. Nothing leads out of "cancelled".
- `UnknownOutcomesStop` needs `Fresh` (a Run that nobody scheduled has no Attempt), since the
  start of a Run sets it running without a look at its nodes.
- `CompletionIsEarned` needs `EvidenceInv`: what the verification of a node has established so
  far, at every place where the verifying thread can be between its transactions, because a
  verdict is written from what earlier transactions read.
- `StartsAreCurrent` and `ProgressAsPromised` have the hypothesis `CodeMode` (a code
  execution workspace): `VerifiesAside` says that verification then never runs between the
  loop's selection and its start, which is why the start need not read the Run again. Without
  one the property is false (section 2.1).
- `ProgressAsPromised` is the refinement: initial states map to the initial state of
  `PlanProgress`, and each kind of step to `Launch`, `Begin`, `Finish`, `GiveUp`, `Stop`, `Resume`
  or to no step.

### 4.2 HubInvocation and PiExecution

`HubInvocation_proofs` rests on `HubAssumption`, and for `AttemptsEndByTrace` on `NothingAssumption`.

- `HubTypeCorrect`; `PromptedOnce` needs `TurnRecorded`: a core that may still begin the turn has
  none on the trace, and nobody is prompted before it is there; `RestartsAreLocal` needs
  `EffectsOnTrace`: a call that was executed is on the trace, and once a restart is decided
  nothing is executed any more.
- `SessionsAreKept`: after `f` faults the age of an attached session is at most `2f + 1` intervals,
  at most `2f` while the heartbeat task sleeps, and at most `2f - 1` while it waits for a lost
  request (`Lead`, in `LeaseInv`): a loss costs the interval that has passed and the one of its timeout.
  A session is reaped at the idle limit, which is then at most `2f + 1`. Every life of the core has a
  session number of its own (`Fresh`).
- `CallsAreRunOnce`: a harness asks for a call once, so one event of one session names it
  (`AskedOnce`), and a call that was executed lies behind the cursor or in a dead session
  (`RunOnce`): the cursor alone keeps a batch from being executed twice.
- `ResultsAreFaithful`: the core ends a turn only with an accepted submission that is the
  last call on the trace (`AcceptedInv`). For the second half of the property: what the
  core has not handled is still open at the harness (`Unanswered`), so a call that was alone in
  its message is the last of its session until it is answered (`AloneIsLast`), and nothing
  follows an accepted result but its end (`FinalIsLast`) unless a fault came between (`Faultless`).
- `AttemptsEndByTrace` (for `PiExecution`, any number of steps and faults): `AttemptInv` adds to the
  property that a turn which ended has said how (`Turns`), that the end the process remembers is
  the one on the trace (`Remembered`), and that only a registered execution is listened to, no longer
  than its Attempt runs (`Listening`). A settlement reads one of the two, so it needs that they agree.

### 4.3 GoalPlanning

`GoalPlanning_proofs` proves `HistoryInv` inductive: types; what a command holds between its two
transactions is still compatible with the Goal (`CallInv`); keys and receipts (`KeyInv`); a
conversation has one open turn and one source (`TalkInv`); revisions are numbered without a gap
and none above the Goal's contract is approved (`PlanInv`); Runs, their predecessors and the
approvals that covered their questions (`RunInv`). The heart of `ApprovedWork` is
that the Goal's contract only grows and moves only while no Run goes on (each second transaction
checks again what its first one saw), and that a Run whose contract was left behind cannot be
resumed; the heart of `PlanningIsOneHistory` that a succeeded Run is behind the Goal's contract.

### 4.4 AgentSessions and SerialExecution

`Sessions_proofs` rests on `SessionAssumption` (pages are not empty; `None` is no Agent and no message)
and, for the serial host, on `SerialAssumption` (`None` is no outcome of a Gate).

- `DiscussionsAreRead`: every entry up to the end of any page that was shown was shown
  (`Covered`), and a steered page continues where something shown ends (`Continues`, in `PageInv`).
  Pages may then be prepared in any order, or be lost with the process: the entries below a page were
  shown before it was steered, and the log only grows at its end. That a page has no gap itself
  rests on `PageIs`: it holds every entry of the phase between its two cursors.
- `MailIsAccounted`: a steered message is addressed to the session and was not shown yet
  (`Steered`), so that showing it is the first time (`GotOnce`); between the trace and the mailbox
  the task holds the message it acknowledges (`Acknowledging`), and a tool's call holds what it took
  until the result is on the trace (`Returned`). A step of one session is `Silent` for the others.
- `SerialIsTrue`: `SerialInv` says of the executor that what it takes up is a result with its bytes, that the
  Checks it runs are those of the last verification and still run, and, when it records a Gate as
  passed, that one whole set of the Attempt's Checks has passed (`Judged`); the same of a person's
  thread. No step takes back a result or a passed Check (`Kept`), so that both threads may decide in one
  transaction and record in another. A command commits only over what it read
  (`CommandInv`); at most one Attempt runs (`NodesAgree`); and the nodes that wait for their Gate have
  a result, in the plan as in every Checkpoint (`Waits`), which is what a restore needs. Every
  step is also a `GateStep`, which is `GatesDecide` without its subscript.

### 4.5 DispatchLeases

- `LimitsAreKept`: `OwnInv` says that a host works for a Run only while it has its lease, or after
  that lease ran out under it; `Stored` relates the leases, the Attempts, what providers execute
  and what hosts remember of their tasks. Under both, every place where a host admits a task
  (new work, or what it takes over) keeps the four limits (`LimitInv`). The proof is that of
  `HostsKeepLimits` in `DispatchLeases_proofs`, about that module alone; `RunProgress_proofs`
  applies it to `PartsSpec` of `MCLeases`, whose `Host` instance it is. It rests on
  `HostAssumption` only: the finite set of nodes, the types of the other constants, and positive capacities.

### 4.6 ProcessControl

`Control_proofs` proves `ChangesAreReviewed` for any number of nodes, hosts, controls, drafts,
reviews and crashes, from `AdjustmentsAssumption`. `ControlInv` adds to the property what its steps
rest on: types; documents refer to documents that exist (`Referred`); no two Attempts that run or
wait for a person are of one node (`Apart`), without which an Attempt that ends would take the
node from another; and a coordinator past its beginning has recorded an eligible cause (`Begun`).
A step is first classified by what it may do: the drafts and the reviews only grow, and what is
ready, judged or drafted over a plan stays so (`DraftsGrow`, `ReviewsGrow`); the controls grow, and
facts are recorded once; work moves only with the plan in force (`Work`). The invariant follows
from the classification once (`GoodStep`), and each action is shown to be of one class.

### 4.7 NoteDecisions, ConnectorCalls and RoutingLab

- `DecidedOnce`: the note, its claim, its receipt, and the count of operations agree at every
  place of every sender, also after a crash (`Agreed`).
- `CallsAreTold` rests on `ConnectorAssumption`. `ConnectorInv` says which bridge owns a call; what is on its disk at each of its places
  (`Disk`, `Place`); that a create which may still be sent for the first time was neither sent nor
  reported (`Trying`, `Untried`), which is what makes the claim on disk safe to read after a crash;
  that every recorded result was reported and is true of the calendar (`Made`, `Told`) and is
  kept by its bridge until the core has it (`Kept`).
- `LabIsTrue` rests on `RoutingAssumption` (the seeds are recipes, the bounds are natural, no recipe has
  the name of something else). `RoutingInv` says, besides types, what its three parts need. For the publication: as long as
  the version of the catalogue is the one a replay was started with, the recipes in force and the
  candidate are what the replay tested, and a passed replay has the expected answers (`Tested`); every
  step that changes which recipes are active also raises the version. For the answers: a thread that read a request
  earlier still holds a choice of the catalogue that the request was made with (`Chooses`), a
  request that a recipe answered names it, and the fallback runs only on an escalated one
  (`Named`), so that its late answer replaces no other. For the handoff: where its task is in the
  host, what the request says of it and what the other Project has (`Handed`).

### 4.8 EventConsumers and LifeWorkflows

- `ReadOnce`: outstanding batches lie after the position and streams follow the client's last
  event (`BatchesWithin`, `StreamsFollow`).
- `RoutinesDoNotRepeat` rests on `RoutineAssumption` (a positive interval). `LifeInv`: the Runs of the routine's present binding
  cover what lies before its next time, and only the last of them may be unfinished (`Covered`);
  no scheduler's clock is ahead of the clock, so that what it starts is due; and a receipt says what was
  done to the Run that its command names (`Commanded`), so that a repeated decision changes nothing.

### 4.9 What stays with TLC

- Liveness under fairness and ENABLED, which the prover does not reach: `RunMoves`, `AttemptsSettle`,
  `AttemptsReturn`, `RunsSettle`, `Attended`.
- What rests on recursion, on sums or on the composition of a checked instance: `DraftHolds`, `RoutesHold`
  and `CustomHolds` judge graphs by reachability; `CodeHolds` composes merges of a plan of
  any shape by induction over its Attempts; `HostsHold` adds capacities up with a fold.

## 5. What is left

- the loop's queue of assignments and the endpoints' health in `RunExecution`; several Checks
  per node there (`SerialExecution` has one of each kind);
- idempotent commands as a component of their own (each module has the receipts of its own commands);
- proofs about the components that have none yet: `BranchExploration`, `PlanGraph`, `CustomWorkflows`,
  `WorkspaceHosts`, `CodeWorkspaces` (section 4.9 says what is in the way).

Not planned: presentation (`interfaces/cli.py`, the control plane, the desktop
shell), serialisation and migrations, prompts and the output of models, git and
file operations: none of them keeps state of its own that the system's
promises depend on.

## 6. Seen while modelling

Behaviours of the code that the models contain and no run singles out:

- `time_out_attempt` calls `run.pause()` without asking for the status
  (orchestration/attempts.py:927). A sibling's unknown outcome may have paused the Run
  already: the settlement is rolled back and the scheduler converges.
- Between the loop's last read and the completion of its claim (scheduler.py:473 to 481) a
  reply finds the work claimed and does not queue it; the loop then completes it, and a
  running Run with a pending node has no dispatch work.
- When the cancellation of a Run's tasks fails, `quiesce_run` raises and the Run stays among the
  controlled ones (scheduler.py:297, 336; interfaces/api.py:745): the loop does not schedule it
  until it is resumed. This and the item before it are the two exceptions of `RunMoves`.
- A task that ended while the Run was paused returns the paused Run; harvested after the
  resume (scheduler.py:498), it completes the work of the running Run.
- The first task that returns a paused or failed Run completes its dispatch work although a
  sibling still runs (scheduler.py:500): after a crash nobody claims the Run, and the
  sibling's Attempt stays running. That is why `AttemptsSettle` lets an Attempt go whose Run
  has stopped.
- The cleanup of a Hub invocation awaits the cancelled heartbeat task before it closes the
  session (infrastructure/hub_runtime.py:202): a cancellation delivered there leaves the
  harness running until the Hub reaps it.
- A resumption readies the failed node of a pruned branch (application/run_control.py); the
  Run's last node then completes without completing the Run.
- A Checkpoint recorded by a person's decision may hold another node as running
  (orchestration/verification.py:591); its restore leaves a running node without an Attempt.
- A candidate whose Checks had begun before a restore gets a second set of CheckRuns
  (orchestration/verification.py:459), and `finish_pending_gate` refuses its Gate as ambiguous
  (verification.py:314): the command raises, and the node stays in verification. If the
  process dies in such a running Run and every CheckRun is over or waits for its person, the restart
  leaves the Run running, tries the Gate again, raises, and the host does not come up.
- A cancel delivered after TURN_ENDED, while harness and tools are closed, interrupts an
  Attempt whose candidate is complete (infrastructure/workers/pi.py:481).
- `finish_plan` accepts two branches with a common node, which the domain refuses after the
  planning session; a node with only a conditional edge from its own phase starts before the
  Gate of the phase before (application/plan_graph_tools.py).
- A "resolve" decision whose host dies between its claim and its completion has no operation
  to look up (application/notes.py:440): its note stays decision_pending.
