---------------------------- MODULE DispatchLeases ----------------------------
(* The DispatchWork of several Runs and the hosts that claim it for five minutes: who *)
(* executes which Attempt, within which limits, after a host died or its lease ran    *)
(* out. What an Attempt does, and the pauses of a Run, are RunExecution's.            *)
EXTENDS Naturals, FiniteSets

CONSTANTS
    Runs, Nodes, Of,            \* Of[n]: the Run of a node
    Endpoints, Serves,          \* Serves[n]: the endpoints with the capabilities n needs
    Writers,                    \* the nodes that may write the shared workspace
    Local,                      \* the endpoints whose executions die with their host
    Hosts,
    GlobalCapacity, RunCapacity, EndpointCapacity,
    Tries, MaxFaults,       \* bounds of the model: Tries[n] Attempts; a fault is a crash, or a lease that runs out under a live host
    None

LeaseAssumption ==
    /\ Of \in [Nodes -> Runs] /\ Serves \in [Nodes -> SUBSET Endpoints] /\ Writers \subseteq Nodes
    /\ IsFiniteSet(Nodes) /\ Tries \in [Nodes -> Nat \ {0}]
    /\ {None, "dead"} \cap Hosts = {} /\ {GlobalCapacity, RunCapacity, EndpointCapacity} \subseteq Nat \ {0}

VARIABLES
    run,        \* of each Run: "running", "paused", "completed", "failed"
    work,       \* of each Run: [st, owner, over]; over: its lease has run out
    attempt,    \* of each node, its latest Attempt: [st, endpoint, bound, no]
    remote,     \* of each node: whether the provider has an execution of that Attempt
    pc,         \* of each host: where its loop is
    works,      \* of each host: the Runs its loop goes over
    task,       \* of each host, for each node: None or [do, on, no], on which endpoint for which Attempt
    lapsed,     \* the Runs whose lease ran out under a host that lives
    faults

vars == <<run, work, attempt, remote, pc, works, task, lapsed, faults>>
----------------------------------------------------------------------------
NodesOf(r) == {n \in Nodes : Of[n] = r}
Active(h) == {n \in Nodes : task[h][n] # None}
Live(h) == {n \in Active(h) : task[h][n].do # "ended"}
Fresh == [st |-> "ready", endpoint |-> None, bound |-> FALSE, no |-> 1]

Init ==
    /\ run = [r \in Runs |-> "running"]
    /\ work = [r \in Runs |-> [st |-> "pending", owner |-> None, over |-> FALSE]]
    /\ attempt = [n \in Nodes |-> Fresh] /\ remote = [n \in Nodes |-> FALSE]
    /\ pc = [h \in Hosts |-> "down"] /\ works = [h \in Hosts |-> {}] /\ task = [h \in Hosts |-> [n \in Nodes |-> None]]
    /\ lapsed = {} /\ faults = 0

Goto(h, at) == pc' = [pc EXCEPT ![h] = at]
Takes(h, n, do, e) == task' = [task EXCEPT ![h][n] = [do |-> do, on |-> e, no |-> attempt[n].no]]
Now(h, n, do) == task' = [task EXCEPT ![h][n].do = do]
env == <<lapsed, faults>>
----------------------------------------------------------------------------
(* Claims.                                                                         *)

Claimable(r) ==
    /\ run[r] = "paused" => \E n \in NodesOf(r) : attempt[n].st = "running"
    /\ work[r].st = "pending" \/ (work[r].st = "claimed" /\ work[r].over)
Mine(h, r) == work[r].st = "claimed" /\ work[r].owner = h

\* _claim_all_work: everything claimable, and what is this process's already
Claims == {r \in Runs : Claimable(r)}
ClaimAll(h, from, to) ==
    /\ pc[h] = from /\ Goto(h, to)
    /\ work' = [r \in Runs |-> IF r \in Claims THEN [st |-> "claimed", owner |-> h, over |-> FALSE] ELSE work[r]]
    /\ works' = [works EXCEPT ![h] = @ \cup {r \in Runs : Mine(h, r)} \cup Claims]
    /\ UNCHANGED <<run, attempt, remote, task, env>>

\* five minutes; nobody renews it
LeaseEnds(r) ==
    /\ work[r].st = "claimed" /\ ~work[r].over
    /\ work' = [work EXCEPT ![r].over = TRUE]
    /\ \/ work[r].owner = "dead" /\ UNCHANGED env
       \/ /\ work[r].owner # "dead" /\ faults < MaxFaults
          /\ faults' = faults + 1 /\ lapsed' = lapsed \cup {r}
    /\ UNCHANGED <<run, attempt, remote, pc, works, task>>

\* _complete_work looks at the status of the work, not at its owner
Completed(rs) == [r \in Runs |-> IF r \in rs /\ work[r].st = "claimed" THEN [work[r] EXCEPT !.st = "completed"] ELSE work[r]]
----------------------------------------------------------------------------
(* Capacity.                                                                       *)

Uses(h, ns) == Cardinality(Active(h) \cap ns)
OnEndpoint(h, e) == {n \in Active(h) : task[h][n].on = e}
Limits(h, n) == Cardinality(Active(h)) < GlobalCapacity /\ Uses(h, NodesOf(Of[n])) < RunCapacity
EndpointFree(h, e) == Cardinality(OnEndpoint(h, e)) < EndpointCapacity
WorkspaceConflict(h, n) == n \in Writers /\ Active(h) \cap Writers # {}
\* mutant: what was bound before is not asked for the limits
AdmitsRecovered(h, n) == TRUE
Admits(h, n) == Limits(h, n) /\ EndpointFree(h, attempt[n].endpoint) /\ ~WorkspaceConflict(h, n)
Select(h, n) == {e \in Serves[n] : Limits(h, n) /\ ~WorkspaceConflict(h, n) /\ EndpointFree(h, e)}
----------------------------------------------------------------------------
(* A host.                                                                         *)

Boot(h) == pc[h] = "down" /\ Goto(h, "boot") /\ UNCHANGED <<run, work, attempt, remote, works, task, env>>

\* mutant: only at startup
OnlyAtStartup(h) == IF pc[h] = "recover" THEN {} ELSE {n \in Nodes : Of[n] \in works[h] /\ attempt[n].st = "running" /\ task[h][n] = None}
\* the running Attempts of claimed Runs that have no task here
Unowned(h) == {n \in Nodes : Of[n] \in works[h] /\ attempt[n].st = "running" /\ task[h][n] = None}
Unbound(h) == {n \in Unowned(h) : ~attempt[n].bound}
Recoverable(h) == {n \in Unowned(h) \ Unbound(h) : Admits(h, n)}
RecoverUnowned(h, n) ==
    /\ pc[h] \in {"startup", "recover"} /\ n \in Recoverable(h) /\ Takes(h, n, "recover", attempt[n].endpoint)
    /\ UNCHANGED <<run, work, attempt, remote, pc, works, env>>
\* an Attempt that was started and never bound has no assignment to recover with: the loop
\* stops for good after it quiesced and paused every Run it knows
Converge(h) ==
    LET known == works[h] \cup {Of[n] : n \in Active(h)} IN
    /\ pc[h] \in {"startup", "recover"} /\ Unbound(h) # {} /\ Goto(h, "stopped")
    /\ run' = [r \in Runs |-> IF r \in known /\ run[r] = "running" THEN "paused" ELSE run[r]]
    /\ attempt' = [n \in Nodes |-> IF Of[n] \in known /\ attempt[n].st = "running" THEN [attempt[n] EXCEPT !.st = "interrupted"] ELSE attempt[n]]
    /\ task' = [task EXCEPT ![h] = [n \in Nodes |-> None]] /\ works' = [works EXCEPT ![h] = {}]
    /\ UNCHANGED <<work, remote, env>>

Recovered(h) ==
    /\ pc[h] = "startup" /\ Unbound(h) = {} /\ Recoverable(h) = {} /\ works' = [works EXCEPT ![h] = {}]
    /\ Goto(h, IF Active(h) = {} THEN "idle" ELSE "gather")
    /\ UNCHANGED <<run, work, attempt, remote, task, env>>

\* recover_startup waits for all it recovered
Gathered(h) ==
    /\ pc[h] = "gather" /\ Live(h) = {} /\ Goto(h, "idle")
    /\ task' = [task EXCEPT ![h] = [n \in Nodes |-> None]]
    /\ work' = Completed({r \in Runs : run[r] # "running" /\ Active(h) \cap NodesOf(r) # {}})
    /\ UNCHANGED <<run, attempt, remote, works, env>>

\* run_until_idle, after its recoveries: the work of Runs that ended is completed
Finish(h) ==
    LET ended == {r \in works[h] : run[r] # "running"} IN
    /\ pc[h] = "recover" /\ Recoverable(h) = {} /\ Unbound(h) = {} /\ Goto(h, "schedule")
    /\ work' = Completed(ended) /\ works' = [works EXCEPT ![h] = @ \ ended]
    /\ UNCHANGED <<run, attempt, remote, task, env>>

Ready(h) == {n \in Nodes : Of[n] \in works[h] /\ run[Of[n]] = "running" /\ attempt[n].st = "ready"}
Start(h, n, e) ==
    /\ pc[h] = "schedule" /\ n \in Ready(h) /\ e \in Select(h, n)
    /\ attempt' = [attempt EXCEPT ![n].st = "running", ![n].endpoint = e] /\ Takes(h, n, "start", e)
    /\ UNCHANGED <<run, work, remote, pc, works, env>>
Scheduled(h) ==
    /\ pc[h] = "schedule" /\ \A n \in Ready(h) : Select(h, n) = {}
    /\ IF Active(h) = {} THEN Goto(h, "idle") /\ works' = [works EXCEPT ![h] = {}] ELSE Goto(h, "wait") /\ UNCHANGED works
    /\ UNCHANGED <<run, work, attempt, remote, task, env>>

\* asyncio.wait: the first task that ends wakes the loop, which takes all that ended
Wake(h) ==
    LET done == Active(h) \ Live(h)
        ended == {r \in Runs : run[r] # "running" /\ done \cap NodesOf(r) # {}} IN
    /\ pc[h] = "wait" /\ done # {} /\ Goto(h, "claim")
    /\ task' = [task EXCEPT ![h] = [n \in Nodes |-> IF n \in done THEN None ELSE @[n]]]
    /\ work' = Completed(ended) /\ works' = [works EXCEPT ![h] = @ \ ended]
    /\ UNCHANGED <<run, attempt, remote, env>>

\* the process is killed; its leases stay
Crash(h) ==
    /\ pc[h] \notin {"down", "stopped"} /\ faults < MaxFaults /\ faults' = faults + 1 /\ Goto(h, "down")
    /\ work' = [r \in Runs |-> IF Mine(h, r) THEN [work[r] EXCEPT !.owner = "dead"] ELSE work[r]]
    /\ remote' = [n \in Nodes |-> remote[n] /\ ~(task[h][n] # None /\ task[h][n].on \in Local)]
    /\ works' = [works EXCEPT ![h] = {}] /\ task' = [task EXCEPT ![h] = [n \in Nodes |-> None]]
    /\ UNCHANGED <<run, attempt, lapsed>>
----------------------------------------------------------------------------
(* The task of one Attempt; each step is one transaction or one connector call.     *)

Current(h, n) == attempt[n].st = "running" /\ attempt[n].no = task[h][n].no
\* tasks run while the loop waits
Doing(h, n, do) == pc[h] \in {"wait", "gather"} /\ n \in Active(h) /\ task[h][n].do = do /\ Current(h, n)
Settled(n, st) == attempt' = [attempt EXCEPT ![n] = [Fresh EXCEPT !.st = st, !.no = attempt[n].no]]
\* retry_attempt: a new Attempt while the budget lasts, else the Run fails
Retry(h, n) ==
    /\ \/ /\ attempt[n].no < Tries[n] /\ UNCHANGED run
          /\ attempt' = [attempt EXCEPT ![n] = [Fresh EXCEPT !.no = attempt[n].no + 1]]
       \/ /\ attempt[n].no = Tries[n] /\ Settled(n, "failed")
          /\ run' = [run EXCEPT ![Of[n]] = "failed"]
    /\ remote' = [remote EXCEPT ![n] = FALSE] /\ Now(h, n, "ended")
    /\ UNCHANGED <<work, pc, works, env>>

\* connector.start answers and the handle is stored, or it fails before there is one
Bind(h, n) ==
    /\ Doing(h, n, "start") /\ Now(h, n, "consume")
    /\ attempt' = [attempt EXCEPT ![n].bound = TRUE] /\ remote' = [remote EXCEPT ![n] = TRUE]
    /\ UNCHANGED <<run, work, pc, works, env>>
StartFails(h, n) == Doing(h, n, "start") /\ Retry(h, n)

\* the execution is found where it was, or confirmed missing
Found(n) == remote[n] /\ attempt[n].endpoint \notin Local
Reattach(h, n) ==
    /\ Doing(h, n, "recover") /\ Found(n) /\ Now(h, n, "consume")
    /\ UNCHANGED <<run, work, attempt, remote, pc, works, env>>
Missing(h, n) == Doing(h, n, "recover") /\ ~Found(n) /\ Retry(h, n)

\* the last event and all its effects
Completes(h, n) ==
    /\ Doing(h, n, "consume") /\ Now(h, n, "ended") /\ Settled(n, "done")
    /\ remote' = [remote EXCEPT ![n] = FALSE]
    /\ run' = [run EXCEPT ![Of[n]] = IF \A m \in NodesOf(Of[n]) \ {n} : attempt[m].st = "done" THEN "completed" ELSE @]
    /\ UNCHANGED <<work, pc, works, env>>
\* somebody else settled the Attempt: what this task does next is refused
Superseded(h, n) ==
    /\ pc[h] \in {"wait", "gather"} /\ n \in Live(h) /\ ~Current(h, n) /\ Now(h, n, "ended")
    /\ UNCHANGED <<run, work, attempt, remote, pc, works, env>>
----------------------------------------------------------------------------
Loop(h) ==
    \/ Boot(h) \/ ClaimAll(h, "boot", "startup") \/ ClaimAll(h, "idle", "recover") \/ ClaimAll(h, "claim", "recover")
    \/ \E n \in Nodes : RecoverUnowned(h, n)
    \/ Wake(h) \/ Recovered(h) \/ Converge(h) \/ Gathered(h) \/ Finish(h) \/ Scheduled(h)
    \/ \E n \in Nodes, e \in Endpoints : Start(h, n, e)
Task(h, n) == Bind(h, n) \/ StartFails(h, n) \/ Reattach(h, n) \/ Missing(h, n) \/ Completes(h, n) \/ Superseded(h, n)

Next ==
    \/ \E r \in Runs : LeaseEnds(r)
    \/ \E h \in Hosts : Loop(h) \/ Crash(h) \/ \E n \in Nodes : Task(h, n)

\* a loop goes on, a task ends, a dead host's lease runs out
Fairness ==
    /\ \A h \in Hosts : WF_vars(Loop(h)) /\ WF_vars(\E n \in Nodes : Task(h, n))
    /\ \A r \in Runs : WF_vars(LeaseEnds(r) /\ work[r].owner = "dead")
Spec == Init /\ [][Next]_vars /\ Fairness
----------------------------------------------------------------------------
(* What is stored.                                                                 *)

\* put_run: nothing moves a Run that ended
RunKept(r) ==
    /\ run[r] = "completed" => \A n \in NodesOf(r) : attempt[n].st = "done"
    /\ run[r] = "failed" => \E n \in NodesOf(r) : attempt[n].st = "failed"
\* put_attempt: an assignment stays while the Attempt runs, and a handle is of an assigned one
AttemptKept(n) ==
    LET a == attempt[n] IN
    /\ a.st \in {"ready", "running", "interrupted", "done", "failed"} /\ a.no \in 1..Tries[n]
    /\ IF a.st \in {"running", "interrupted"} THEN a.endpoint \in Serves[n] ELSE ~a.bound
\* what a loop goes over, it has claimed; what it remembers of a task is of an Attempt that was begun
Remembers(h) ==
    /\ pc[h] \in {"down", "boot"} => works[h] = {} /\ Active(h) = {}
    /\ \A n \in Active(h) : task[h][n].no <= attempt[n].no /\ task[h][n].on \in Serves[n]
\* an execution a connector answers for was started for an Attempt
Executes(n) == remote[n] => attempt[n].bound
Stored ==
    /\ \A r \in Runs : RunKept(r)
    /\ \A n \in Nodes : AttemptKept(n) /\ Executes(n)
    /\ \A h \in Hosts : Remembers(h)

(* Properties.                                                                     *)

\* New work and what is recovered from a dead host together keep every limit of the host,
\* no two of its tasks may write the shared workspace, and two live hosts work for one Run
\* only after a lease ran out under the first.
SlotsKept == Stored /\ \A h \in Hosts :
    /\ Cardinality(Active(h)) <= GlobalCapacity
    /\ \A r \in Runs : Uses(h, NodesOf(r)) <= RunCapacity
    /\ \A e \in Endpoints : Cardinality(OnEndpoint(h, e)) <= EndpointCapacity
    /\ Cardinality(Active(h) \cap Writers) <= 1
    /\ \A g \in Hosts \ {h}, r \in Runs :
          Live(g) \cap NodesOf(r) # {} /\ Live(h) \cap NodesOf(r) # {} => r \in lapsed

\* A running Attempt of a running Run that no host has a task for, as after a crash within
\* the lease, gets one or is settled.
Abandoned(n) == attempt[n].st = "running" /\ run[Of[n]] = "running" /\ \A h \in Hosts : task[h][n] = None
AttemptsReturn == \A n \in Nodes : []<>~Abandoned(n)
=============================================================================
