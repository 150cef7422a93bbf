---------------------------- MODULE WorkspaceHosts ----------------------------
(* The manager of local workspaces and the child hosts it owns: start and stop with  *)
(* their awaits, capacity reservations, a host's own refusal to stop while it works, *)
(* the writes that are forwarded to it, and the manager's shutdown.                  *)
EXTENDS Naturals, Sequences, FiniteSets, FiniteSetsExt

CONSTANTS
    Workspaces, Starters, Stoppers, Writes, \* directories; requests of each kind
    Parents,        \* the workspaces above a directory
    Capacity,       \* what a workspace reserves
    MaxCapacity,
    MaxSpawns,      \* child processes started
    Overlaps,       \* whether a workspace is started while a shutdown of it is under way
    None

Closers == {<<"close", w>> : w \in Workspaces}
Tasks == Starters \cup Stoppers \cup Closers

VARIABLES
    manager,        \* down, up, stopping (refuses writes), closing, closed
    manifest,       \* the registered workspaces, as they are on disk
    status,         \* of each workspace: None until it is registered with this manager
    host,           \* of each workspace: the child its entry names, 0 for none
    child,          \* the processes: [of, pc, told], told: why it stops
    mutex,          \* the start that holds it while it spawns
    shutting,       \* the task that holds each entry's shutdown lock
    task,           \* [pc, of, was, proc]; was: the status a stop found; proc: the child a shutdown is about
    write,          \* [pc, to]: idle, routed, accepted, done, refused, unknown
    busy            \* the workspaces with a Run or planning at work

kids == <<child, busy>>
vars == <<manager, manifest, status, host, child, mutex, shutting, task, write, busy>>
----------------------------------------------------------------------------
Registered == {w \in Workspaces : status[w] # None}
Alive(i) == i # 0 /\ child[i].pc # "exited"
AliveIds == {i \in DOMAIN child : Alive(i)}
Open == manager \in {"up", "stopping"}
MutexFree == mutex = None
Does(pc, w, was, i) == [pc |-> pc, of |-> w, was |-> was, proc |-> i]
Doing == Does("idle", None, None, 0)
At(t, pc) == task[t].pc = pc
Step(t, pc) == task' = [task EXCEPT ![t].pc = pc]
Done(t) == task' = [task EXCEPT ![t] = Doing]

\* every look at an entry notices that its host has exited
Seen(w) == IF status[w] \in {"starting", "ready"} /\ host[w] # 0 /\ ~Alive(host[w]) THEN "failed" ELSE status[w]
\* mutant: a host that is being stopped no longer counts
ReservedReady == {w \in Registered : Seen(w) \in {"starting", "ready"}}
Reserved == {w \in Registered : Seen(w) \in {"starting", "ready", "stopping"}}
Fits(w) == FoldSet(LAMBDA v, n : n + Capacity[v], 0, Reserved) + Capacity[w] <= MaxCapacity
Related(v, w) == v = w \/ v \in Parents[w] \/ w \in Parents[v]

Init ==
    /\ manager = "down" /\ manifest = {}
    /\ status = [w \in Workspaces |-> None] /\ host = [w \in Workspaces |-> 0]
    /\ child = <<>> /\ mutex = None /\ shutting = [w \in Workspaces |-> None]
    /\ task = [t \in Tasks |-> Doing] /\ write = [k \in Writes |-> [pc |-> "idle", to |-> 0]]
    /\ busy = {}
----------------------------------------------------------------------------
(* The manager's registrations.                                                    *)

OpenManager ==
    /\ manager = "down" /\ manager' = "up"
    /\ status' = [w \in Workspaces |-> IF w \in manifest THEN "registered" ELSE None]
    /\ host' = [w \in Workspaces |-> 0]
    /\ UNCHANGED <<manifest, child, mutex, shutting, task, write, busy>>

Register(w) ==
    /\ Open /\ MutexFree /\ w \notin Registered
    /\ \A v \in Registered : ~Related(v, w)
    /\ manifest' = manifest \cup {w}
    /\ status' = [status EXCEPT ![w] = "registered"]
    /\ UNCHANGED <<manager, host, child, mutex, shutting, task, write, busy>>

List(w) ==
    /\ MutexFree /\ manager # "down" /\ Seen(w) # status[w]
    /\ status' = [status EXCEPT ![w] = Seen(w)]
    /\ UNCHANGED <<manager, manifest, host, child, mutex, shutting, task, write, busy>>
\* a task that asks for the lock waits behind its holder and behind who waits already
Waits(w) == shutting[w] # None \/ \E t \in Tasks : At(t, "lock") /\ task[t].of = w
----------------------------------------------------------------------------
(* start: spawn under the mutex, then poll the child's identity without it.        *)

BeginStart(t, w) ==
    /\ t \in Starters /\ At(t, "idle") /\ Open /\ MutexFree /\ w \in Registered
    /\ Seen(w) \notin {"ready", "starting", "stopping"} /\ Fits(w) /\ (Overlaps \/ ~Waits(w))
    /\ Len(child) < MaxSpawns
    /\ mutex' = t
    /\ status' = [status EXCEPT ![w] = "starting"]
    /\ task' = [task EXCEPT ![t] = Does("spawn", w, None, 0)]
    /\ UNCHANGED <<manager, manifest, host, shutting, write, kids>>

Spawned(t) ==
    /\ At(t, "spawn") /\ mutex' = None /\ Step(t, "poll")
    /\ child' = Append(child, [of |-> task[t].of, pc |-> "booting", told |-> None])
    /\ host' = [host EXCEPT ![task[t].of] = Len(child')]
    /\ UNCHANGED <<manager, manifest, status, shutting, write, busy>>

LaunchFails(t) ==
    /\ At(t, "spawn") /\ mutex' = None /\ Done(t)
    /\ status' = [status EXCEPT ![task[t].of] = "failed"]
    /\ UNCHANGED <<manager, manifest, host, shutting, write, kids>>

\* the child answers with its identity; the answer is used under the mutex
Ready(t) ==
    /\ At(t, "poll") /\ MutexFree /\ Open /\ host[task[t].of] # 0 /\ child[host[task[t].of]].pc = "healthy"
    /\ status' = [status EXCEPT ![task[t].of] = "ready"] /\ Done(t)
    /\ UNCHANGED <<manager, manifest, host, mutex, shutting, write, kids>>

\* the child has exited or is another one, the deadline passed, or the manager closes
GiveUp(t) ==
    /\ At(t, "poll") /\ Step(t, "shut")
    /\ UNCHANGED <<manager, manifest, status, host, mutex, shutting, write, kids>>
----------------------------------------------------------------------------
(* stop, and the shutdown that it, a failed start and close share.                 *)

Force(t) == t \notin Stoppers
\* how a task leaves: a start that gave up has failed whatever the shutdown found
Ends(t, w, found) ==
    /\ status' = [status EXCEPT ![w] = IF t \in Starters THEN "failed" ELSE found]
    /\ shutting' = [shutting EXCEPT ![w] = None]
    /\ Done(t)

\* with the lock: nothing is left to do for a host that has exited
Locks(t, w, was, now) ==
    IF ~Alive(host[w]) THEN Ends(t, w, "stopped")
    ELSE /\ shutting' = [shutting EXCEPT ![w] = t] /\ status' = [status EXCEPT ![w] = now]
         /\ task' = [task EXCEPT ![t] = Does("post", w, was, host[w])]

\* a stop reaches the shutdown without an await if the lock is free
BeginStop(t, w) ==
    /\ t \in Stoppers /\ At(t, "idle") /\ Open /\ MutexFree /\ w \in Registered
    /\ Seen(w) \notin {"starting", "stopping"}
    /\ IF Waits(w) THEN /\ task' = [task EXCEPT ![t] = Does("lock", w, Seen(w), 0)]
                        /\ status' = [status EXCEPT ![w] = "stopping"] /\ UNCHANGED shutting
       ELSE Locks(t, w, Seen(w), "stopping")
    /\ UNCHANGED <<manager, manifest, host, mutex, write, kids>>

\* a start that gave up comes through the mutex
Shutdown(t) ==
    LET w == task[t].of IN
    /\ \/ At(t, "shut") /\ (t \in Starters => MutexFree)
       \/ At(t, "lock") /\ shutting[w] = None
    /\ IF At(t, "shut") /\ Waits(w) THEN Step(t, "lock") /\ UNCHANGED <<status, shutting>>
       ELSE Locks(t, w, task[t].was, status[w])
    /\ UNCHANGED <<manager, manifest, host, mutex, write, kids>>

Accepted(i) == {k \in Writes : write[k].pc = "accepted" /\ write[k].to = i}
Active(i) == Accepted(i) # {} \/ child[i].of \in busy
\* the child decides, and from there on refuses writes
Acknowledge(t) ==
    LET i == task[t].proc IN
    /\ At(t, "post") /\ Alive(i) /\ child[i].pc # "booting" /\ (Force(t) \/ ~Active(i))
    /\ child' = [child EXCEPT ![i].pc = "stopping", ![i].told = IF Force(t) THEN "forced" ELSE IF @ = None THEN "asked" ELSE @]
    /\ \/ Step(t, "wait") /\ status' = [status EXCEPT ![task[t].of] = "stopping"] /\ UNCHANGED shutting
       \/ ~Force(t) /\ Ends(t, task[t].of, task[t].was)    \* the answer is lost
    /\ UNCHANGED <<manager, manifest, host, mutex, write, busy>>

\* 409, or no answer
Refused(t) ==
    /\ At(t, "post")
    /\ IF Force(t) THEN Step(t, "wait") /\ status' = [status EXCEPT ![task[t].of] = "stopping"] /\ UNCHANGED shutting
       ELSE Ends(t, task[t].of, IF Open THEN task[t].was ELSE status[task[t].of])
    /\ UNCHANGED <<manager, manifest, host, mutex, write, kids>>

\* its stdin is closed; it exits by itself or is killed after the timeout
Exited(t) ==
    /\ At(t, "wait") /\ ~Alive(task[t].proc) /\ Ends(t, task[t].of, "stopped")
    /\ UNCHANGED <<manager, manifest, host, mutex, write, kids>>
Killed(t) ==
    LET i == task[t].proc IN
    /\ At(t, "wait") /\ Alive(i) /\ Ends(t, task[t].of, "failed")
    /\ child' = [child EXCEPT ![i].pc = "exited"]
    /\ write' = [k \in Writes |-> IF write[k].pc = "accepted" /\ write[k].to = i THEN [write[k] EXCEPT !.pc = "unknown"] ELSE write[k]]
    /\ UNCHANGED <<manager, manifest, host, mutex, busy>>
----------------------------------------------------------------------------
(* The children, and the writes that are forwarded to them.                        *)

Healthy(i) ==
    /\ child[i].pc = "booting" /\ \A j \in AliveIds \ {i} : child[j].of = child[i].of => child[j].pc = "booting"
    /\ child' = [child EXCEPT ![i].pc = "healthy"]
    /\ UNCHANGED <<manager, manifest, status, host, mutex, shutting, task, write, busy>>

\* it crashes, could not take host.lock or its port, or stops; its open writes are unknown
Exit(i) ==
    /\ Alive(i) /\ child' = [child EXCEPT ![i].pc = "exited"]
    /\ write' = [k \in Writes |-> IF write[k].pc = "accepted" /\ write[k].to = i THEN [write[k] EXCEPT !.pc = "unknown"] ELSE write[k]]
    /\ UNCHANGED <<manager, manifest, status, host, mutex, shutting, task, busy>>

\* the manager is gone: the end of stdin stops the child
ParentGone(i) ==
    /\ manager = "closed" /\ Alive(i) /\ child[i].pc # "stopping"
    /\ child' = [child EXCEPT ![i].pc = "stopping", ![i].told = "forced"]
    /\ UNCHANGED <<manager, manifest, status, host, mutex, shutting, task, write, busy>>

Route(k, w) ==
    /\ manager \in {"up", "closing"} /\ MutexFree /\ write[k].pc = "idle"
    /\ Seen(w) = "ready" /\ write' = [write EXCEPT ![k] = [pc |-> "routed", to |-> host[w]]]
    /\ UNCHANGED <<manager, manifest, status, host, mutex, shutting, task, kids>>

\* the child's middleware counts it, unless the host stops
Accepts(i) == child[i].pc = "healthy"
Arrive(k) ==
    /\ write[k].pc = "routed"
    /\ write' = [write EXCEPT ![k].pc = IF Accepts(write[k].to) THEN "accepted" ELSE IF Alive(write[k].to) THEN "refused" ELSE "unknown"]
    /\ UNCHANGED <<manager, manifest, status, host, mutex, shutting, task, kids>>

\* it may have started a Run or a plan, or ended the last one
Answer(k) ==
    /\ write[k].pc = "accepted" /\ write' = [write EXCEPT ![k].pc = "done"]
    /\ \E w \in {child[write[k].to].of} : busy' \in {busy \cup {w}, busy \ {w}}
    /\ UNCHANGED <<manager, manifest, status, host, child, mutex, shutting, task>>
Finish(i) ==
    /\ Alive(i) /\ child[i].of \in busy /\ busy' = busy \ {child[i].of}
    /\ UNCHANGED <<manager, manifest, status, host, child, mutex, shutting, task, write>>
----------------------------------------------------------------------------
(* The daemon's shutdown: no writes, stop every workspace, then close.             *)

Pending == {k \in Writes : write[k].pc \in {"routed", "accepted"}}
StopManager ==
    /\ manager = "up" /\ Pending = {} /\ manager' = "stopping"
    /\ UNCHANGED <<manifest, status, host, mutex, shutting, task, write, kids>>
\* a workspace refused: the manager takes writes again, the stopped ones stay stopped
StopFails ==
    /\ manager = "stopping" /\ manager' = "up"
    /\ UNCHANGED <<manifest, status, host, mutex, shutting, task, write, kids>>

\* the server ends: by its shutdown, or by a signal in any state
CanClose == MutexFree
Close ==
    /\ Open /\ CanClose /\ manager' = "closing"
    /\ task' = [t \in Tasks |-> IF t \in Closers /\ t[2] \in Registered THEN Does("shut", t[2], None, 0) ELSE task[t]]
    /\ UNCHANGED <<manifest, status, host, mutex, shutting, write, kids>>
Closed ==
    /\ manager = "closing" /\ \A t \in Closers : At(t, "idle")
    /\ manager' = "closed"
    /\ UNCHANGED <<manifest, status, host, mutex, shutting, task, write, kids>>
----------------------------------------------------------------------------
Next ==
    \/ OpenManager \/ StopManager \/ StopFails \/ Close \/ Closed
    \/ \E w \in Workspaces : Register(w) \/ List(w)
    \/ \E t \in Starters, w \in Workspaces : BeginStart(t, w)
    \/ \E t \in Stoppers, w \in Workspaces : BeginStop(t, w)
    \/ \E t \in Starters : Spawned(t) \/ LaunchFails(t) \/ Ready(t) \/ GiveUp(t)
    \/ \E t \in Tasks : Shutdown(t) \/ Acknowledge(t) \/ Refused(t) \/ Exited(t) \/ Killed(t)
    \/ \E i \in DOMAIN child : Healthy(i) \/ Exit(i) \/ ParentGone(i) \/ Finish(i)
    \/ \E k \in Writes : Arrive(k) \/ Answer(k) \/ \E w \in Registered : Route(k, w)
Spec == Init /\ [][Next]_vars
----------------------------------------------------------------------------
(* Properties.                                                                     *)

\* The hosts that run never need more than the manager's capacity: a start reserves
\* before its child exists and nothing releases while a child lives, although start
\* polls, and stop and a failed start wait, without the mutex.
CapacityReserved == FoldSet(LAMBDA i, n : n + Capacity[child[i].of], 0, AliveIds) <= MaxCapacity

\* A host that agreed to stop (and was not forced) has no write in progress and no Run
\* or plan at work, from the moment it agreed until it has exited.
StopsIdle == \A i \in AliveIds : child[i].told = "asked" => ~Active(i)

\* When close has returned, every child this manager started has exited, whatever starts
\* and stops were under way.
NothingLeft == manager = "closed" => AliveIds = {}
\* A host is started, told to stop and left by its manager as the three above say.
HostsHold == CapacityReserved /\ StopsIdle /\ NothingLeft
=============================================================================
