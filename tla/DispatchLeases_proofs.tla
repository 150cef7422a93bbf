----------------------- MODULE DispatchLeases_proofs -----------------------
(***************************************************************************)
(* Limits and leases hold for any number of hosts, Runs, nodes and faults. *)
(***************************************************************************)
EXTENDS DispatchLeases, FiniteSetTheorems, TLAPS

AttemptType == [st : {"ready", "running", "interrupted", "done", "failed"}, endpoint : Endpoints \cup {None},
                bound : BOOLEAN, no : Nat]
TaskType == [do : {"recover", "start", "consume", "ended"}, on : Endpoints, no : Nat]
TypeInv ==
    /\ run \in [Runs -> {"running", "paused", "completed", "failed"}]
    /\ work \in [Runs -> [st : {"pending", "claimed", "completed"}, owner : Hosts \cup {None, "dead"}, over : BOOLEAN]]
    /\ attempt \in [Nodes -> AttemptType] /\ remote \in [Nodes -> BOOLEAN]
    /\ works \in [Hosts -> SUBSET Runs]
    /\ pc \in [Hosts -> {"down", "boot", "startup", "gather", "idle", "recover", "schedule", "wait", "claim", "stopped"}]
    /\ task \in [Hosts -> [Nodes -> TaskType \cup {None}]]
    /\ lapsed \subseteq Runs

\* a host works for a Run whose lease it has, or had until it ran out
OwnInv ==
    /\ \A r \in Runs : work[r].st = "claimed" /\ work[r].over => work[r].owner = "dead" \/ r \in lapsed
    /\ \A h \in Hosts, r \in Runs : (r \in works[h] \/ Active(h) \cap NodesOf(r) # {}) =>
          r \in lapsed \/ (work[r].owner = h /\ work[r].st # "pending")

Limited(h) ==
    /\ Cardinality(Active(h)) <= GlobalCapacity
    /\ \A r \in Runs : Uses(h, NodesOf(r)) <= RunCapacity
    /\ \A e \in Endpoints : Cardinality(OnEndpoint(h, e)) <= EndpointCapacity
    /\ Cardinality(Active(h) \cap Writers) <= 1
LimitInv == \A h \in Hosts : Limited(h)

LeaseInv == TypeInv /\ OwnInv /\ Stored /\ LimitInv
-----------------------------------------------------------------------------
(* Counting tasks.                                                           *)

LEMMA Capacities ==
    ASSUME LeaseAssumption
    PROVE  /\ GlobalCapacity \in Nat \ {0} /\ RunCapacity \in Nat \ {0} /\ EndpointCapacity \in Nat \ {0}
           /\ IsFiniteSet(Nodes)
BY DEF LeaseAssumption

LEMMA Fewer ==
    ASSUME LeaseAssumption, NEW T \in SUBSET Nodes, NEW S \in SUBSET T, NEW K \in Nat, Cardinality(T) <= K
    PROVE  Cardinality(S) <= K
<1>1. IsFiniteSet(T)
  BY Capacities, FS_Subset
<1>2. Cardinality(S) <= Cardinality(T) /\ IsFiniteSet(S)
  BY <1>1, FS_Subset
<1>3. Cardinality(S) \in Nat /\ Cardinality(T) \in Nat
  BY <1>1, <1>2, FS_CardinalityType
<1> QED
  BY <1>2, <1>3

LEMMA OneMore ==
    ASSUME LeaseAssumption, NEW T \in SUBSET Nodes, NEW n \in Nodes, NEW S \in SUBSET (T \cup {n}), NEW K \in Nat, Cardinality(T) < K
    PROVE  Cardinality(S) <= K
<1>1. IsFiniteSet(T)
  BY Capacities, FS_Subset
<1>2. Cardinality(T) \in Nat /\ Cardinality(T \cup {n}) = IF n \in T THEN Cardinality(T) ELSE Cardinality(T) + 1
  BY <1>1, FS_AddElement, FS_CardinalityType
<1>3. Cardinality(T \cup {n}) <= K
  BY <1>2
<1> QED
  BY <1>3, Fewer

\* a host that ends tasks keeps its limits
LEMMA EndsTasks ==
    ASSUME LeaseAssumption, TypeInv, NEW h \in Hosts, Limited(h),
           \A n \in Nodes : task'[h][n] # None => task[h][n] # None /\ task'[h][n].on = task[h][n].on
    PROVE  Limited(h)'
<1>1. Active(h)' \subseteq Active(h) /\ Active(h) \subseteq Nodes /\ \A e \in Endpoints : OnEndpoint(h, e)' \subseteq OnEndpoint(h, e)
  BY DEF Active, OnEndpoint
<1>2. Cardinality(Active(h)') <= GlobalCapacity
  BY <1>1, Fewer, Capacities DEF Limited
<1>3. ASSUME NEW r \in Runs PROVE Uses(h, NodesOf(r))' <= RunCapacity
  <2>1. Active(h)' \cap NodesOf(r) \subseteq Active(h) \cap NodesOf(r) /\ Active(h) \cap NodesOf(r) \subseteq Nodes
    BY <1>1
  <2>2. Cardinality(Active(h) \cap NodesOf(r)) <= RunCapacity
    BY DEF Limited, Uses
  <2>3. Cardinality(Active(h)' \cap NodesOf(r)) <= RunCapacity
    BY <2>1, <2>2, Fewer, Capacities
  <2> QED
    BY <2>3 DEF Uses, NodesOf
<1>4. ASSUME NEW e \in Endpoints PROVE Cardinality(OnEndpoint(h, e)') <= EndpointCapacity
  <2>1. OnEndpoint(h, e) \subseteq Nodes /\ Cardinality(OnEndpoint(h, e)) <= EndpointCapacity
    BY <1>1 DEF OnEndpoint, Limited
  <2> QED
    BY <1>1, <2>1, Fewer, Capacities
<1>5. Cardinality(Active(h)' \cap Writers) <= 1
  <2>1. Active(h)' \cap Writers \subseteq Active(h) \cap Writers /\ Active(h) \cap Writers \subseteq Nodes
    BY <1>1
  <2>2. Cardinality(Active(h) \cap Writers) <= 1
    BY DEF Limited
  <2> QED
    BY <2>1, <2>2, Fewer
<1> QED
  BY <1>2, <1>3, <1>4, <1>5 DEF Limited

\* a host that takes a task within the limits keeps them
LEMMA TakesTask ==
    ASSUME LeaseAssumption, TypeInv, NEW h \in Hosts, Limited(h), NEW n \in Nodes, NEW e \in Endpoints,
           Limits(h, n), EndpointFree(h, e), ~WorkspaceConflict(h, n),
           \A m \in Nodes : m # n => task'[h][m] = task[h][m],
           task'[h][n].on = e
    PROVE  Limited(h)'
<1>1. Active(h)' \subseteq Active(h) \cup {n} /\ Active(h) \subseteq Nodes
  BY DEF Active
<1>2. Cardinality(Active(h)') <= GlobalCapacity
  <2>1. Cardinality(Active(h)) < GlobalCapacity
    BY DEF Limits
  <2> QED
    BY <1>1, <2>1, OneMore, Capacities
<1>3. ASSUME NEW r \in Runs PROVE Uses(h, NodesOf(r))' <= RunCapacity
  <2>1. Active(h) \cap NodesOf(r) \subseteq Nodes
    BY <1>1
  <2>2. CASE r = Of[n]
    <3>1. Cardinality(Active(h) \cap NodesOf(r)) < RunCapacity /\ Active(h)' \cap NodesOf(r) \subseteq (Active(h) \cap NodesOf(r)) \cup {n}
      BY <1>1, <2>2 DEF Limits, Uses
    <3>2. Cardinality(Active(h)' \cap NodesOf(r)) <= RunCapacity
      BY <2>1, <3>1, OneMore, Capacities
    <3> QED
      BY <3>2 DEF Uses, NodesOf
  <2>3. CASE r # Of[n]
    <3>1. Active(h)' \cap NodesOf(r) \subseteq Active(h) \cap NodesOf(r) /\ Cardinality(Active(h) \cap NodesOf(r)) <= RunCapacity
      BY <1>1, <2>3 DEF NodesOf, Limited, Uses
    <3>2. Cardinality(Active(h)' \cap NodesOf(r)) <= RunCapacity
      BY <2>1, <3>1, Fewer, Capacities
    <3> QED
      BY <3>2 DEF Uses, NodesOf
  <2> QED
    BY <2>2, <2>3
<1>4. ASSUME NEW d \in Endpoints PROVE Cardinality(OnEndpoint(h, d)') <= EndpointCapacity
  <2>1. OnEndpoint(h, d) \subseteq Nodes /\ Cardinality(OnEndpoint(h, d)) <= EndpointCapacity
    BY <1>1 DEF OnEndpoint, Limited
  <2>2. CASE d = e
    <3>1. OnEndpoint(h, d)' \subseteq OnEndpoint(h, d) \cup {n}
      BY DEF OnEndpoint, Active
    <3>2. Cardinality(OnEndpoint(h, d)) < EndpointCapacity
      BY <2>2 DEF EndpointFree
    <3> QED
      BY <2>1, <3>1, <3>2, OneMore, Capacities
  <2>3. CASE d # e
    <3>1. OnEndpoint(h, d)' \subseteq OnEndpoint(h, d)
      BY <2>3 DEF OnEndpoint, Active
    <3> QED
      BY <2>1, <3>1, Fewer, Capacities
  <2> QED
    BY <2>2, <2>3
<1>5. Cardinality(Active(h)' \cap Writers) <= 1
  <2>1. CASE n \in Writers
    <3>1. Active(h)' \cap Writers \subseteq {} \cup {n}
      BY <1>1, <2>1 DEF WorkspaceConflict
    <3>2. Cardinality({}) < 1
      BY FS_EmptySet
    <3>3. {} \in SUBSET Nodes
      OBVIOUS
    <3> QED
      BY <3>1, <3>2, <3>3, OneMore
  <2>2. CASE n \notin Writers
    <3>1. Active(h)' \cap Writers \subseteq Active(h) \cap Writers /\ Active(h) \cap Writers \subseteq Nodes
      BY <1>1, <2>2
    <3>2. Cardinality(Active(h) \cap Writers) <= 1
      BY DEF Limited
    <3> QED
      BY <3>1, <3>2, Fewer
  <2> QED
    BY <2>1, <2>2
<1> QED
  BY <1>2, <1>3, <1>4, <1>5 DEF Limited
-----------------------------------------------------------------------------
(* What the steps do to the tasks and the Attempts.                          *)

\* a loop takes a task within its limits, for a Run it has claimed
Taking(h, n) == RecoverUnowned(h, n) \/ \E e \in Endpoints : Start(h, n, e)
Begun(h, n, e, do) ==
    /\ task' = [task EXCEPT ![h][n] = [do |-> do, on |-> e, no |-> attempt[n].no]]
    /\ Limits(h, n) /\ EndpointFree(h, e) /\ ~WorkspaceConflict(h, n)
    /\ Of[n] \in works[h] /\ pc[h] \notin {"down", "boot"} /\ e \in Serves[n]
    /\ UNCHANGED <<run, work, remote, pc, works, env>>
Started(n, e) ==
    /\ attempt[n].st = "ready" /\ run[Of[n]] = "running"
    /\ attempt' = [attempt EXCEPT ![n].st = "running", ![n].endpoint = e]

LEMMA TakingStep ==
    ASSUME LeaseAssumption, TypeInv, Stored, NEW h \in Hosts, NEW n \in Nodes, Taking(h, n)
    PROVE  \E e \in Endpoints, do \in {"recover", "start"} :
             Begun(h, n, e, do) /\ (attempt' = attempt \/ Started(n, e))
<1>1. CASE RecoverUnowned(h, n)
  <2>1. n \in Recoverable(h) /\ n \in Unowned(h) /\ Admits(h, n)
    BY <1>1 DEF RecoverUnowned, Recoverable
  <2>2. attempt[n].endpoint \in Serves[n] /\ attempt[n].endpoint \in Endpoints /\ Of[n] \in works[h]
    BY <2>1 DEF LeaseAssumption, Unowned, Stored, AttemptKept
  <2>3. Begun(h, n, attempt[n].endpoint, "recover") /\ attempt' = attempt
    BY <1>1, <2>1, <2>2 DEF RecoverUnowned, Begun, Admits, Takes
  <2> QED
    BY <2>2, <2>3
<1>2. ASSUME NEW e \in Endpoints, Start(h, n, e)
      PROVE  Begun(h, n, e, "start") /\ Started(n, e)
  BY <1>2 DEF Start, Begun, Started, Ready, Select, Takes
<1> QED
  BY <1>1, <1>2 DEF Taking

\* a task goes on or ends, and may settle its Attempt
Settles(n) ==
    /\ attempt[n].st = "running" /\ remote' = [remote EXCEPT ![n] = FALSE]
    /\ \/ run' = run /\ attempt[n].no < Tries[n] /\ attempt' = [attempt EXCEPT ![n] = [Fresh EXCEPT !.no = attempt[n].no + 1]]
       \/ attempt' = [attempt EXCEPT ![n] = [Fresh EXCEPT !.st = "failed", !.no = attempt[n].no]]
            /\ run' = [run EXCEPT ![Of[n]] = "failed"]
       \/ attempt' = [attempt EXCEPT ![n] = [Fresh EXCEPT !.st = "done", !.no = attempt[n].no]]
            /\ run' = [run EXCEPT ![Of[n]] = IF \A m \in NodesOf(Of[n]) \ {n} : attempt[m].st = "done" THEN "completed" ELSE @]
Binds(n) ==
    /\ attempt[n].st = "running" /\ run' = run
    /\ attempt' = [attempt EXCEPT ![n].bound = TRUE] /\ remote' = [remote EXCEPT ![n] = TRUE]

LEMMA TaskStep ==
    ASSUME LeaseAssumption, TypeInv, NEW h \in Hosts, NEW n \in Nodes, Task(h, n)
    PROVE  /\ task[h][n] # None /\ \E do \in {"consume", "ended"} : task' = [task EXCEPT ![h][n].do = do]
           /\ Settles(n) \/ Binds(n) \/ UNCHANGED <<run, attempt, remote>>
           /\ UNCHANGED <<work, pc, works, env>>
<1>1. CASE Bind(h, n)
  BY <1>1 DEF Bind, Doing, Current, Now, Active, Binds
<1>2. ASSUME Retry(h, n), \E do : Doing(h, n, do)
      PROVE  /\ task[h][n] # None /\ task' = [task EXCEPT ![h][n].do = "ended"]
             /\ Settles(n) /\ UNCHANGED <<work, pc, works, env>>
  BY <1>2 DEF Retry, Doing, Current, Now, Active, Settles, Settled
<1>3. CASE StartFails(h, n) \/ Missing(h, n)
  <2>1. Retry(h, n) /\ \E do : Doing(h, n, do)
    BY <1>3 DEF StartFails, Missing
  <2> QED
    BY <1>2, <2>1
<1>4. CASE Reattach(h, n)
  BY <1>4 DEF Reattach, Doing, Now, Active
<1>5. CASE Completes(h, n)
  BY <1>5 DEF Completes, Doing, Current, Now, Active, Settles, Settled
<1>6. CASE Superseded(h, n)
  BY <1>6 DEF Superseded, Now, Live, Active
<1> QED
  BY <1>1, <1>3, <1>4, <1>5, <1>6 DEF Task

\* an entry of a function of functions is set
LEMMA TaskSet ==
    ASSUME LeaseAssumption, TypeInv, NEW h \in Hosts, NEW n \in Nodes, NEW t \in TaskType \cup {None}, task' = [task EXCEPT ![h][n] = t]
    PROVE  /\ task' \in [Hosts -> [Nodes -> TaskType \cup {None}]]
           /\ task'[h][n] = t /\ \A m \in Nodes : m # n => task'[h][m] = task[h][m]
           /\ \A g \in Hosts : g # h => task'[g] = task[g]
BY DEF TypeInv

LEMMA TaskMoved ==
    ASSUME LeaseAssumption, TypeInv, NEW h \in Hosts, NEW n \in Nodes, task[h][n] # None,
           NEW do \in {"consume", "ended"}, task' = [task EXCEPT ![h][n].do = do]
    PROVE  /\ task' \in [Hosts -> [Nodes -> TaskType \cup {None}]]
           /\ task'[h][n].on = task[h][n].on /\ task'[h][n].no = task[h][n].no /\ \A m \in Nodes : m # n => task'[h][m] = task[h][m]
           /\ \A g \in Hosts : g # h => task'[g] = task[g]
<1> DEFINE t == [task[h][n] EXCEPT !.do = do]
<1>1. task[h][n] \in TaskType
  BY DEF TypeInv
<1>2. t \in TaskType /\ t.on = task[h][n].on /\ t.no = task[h][n].no
  BY <1>1 DEF TaskType
<1>3. task' = [task EXCEPT ![h][n] = t]
  OBVIOUS
<1> HIDE DEF t
<1>4. /\ task' \in [Hosts -> [Nodes -> TaskType \cup {None}]]
      /\ task'[h][n] = t /\ \A m \in Nodes : m # n => task'[h][m] = task[h][m]
      /\ \A g \in Hosts : g # h => task'[g] = task[g]
  BY <1>2, <1>3, TaskSet
<1> QED
  BY <1>2, <1>4

\* a host that drops tasks, all of them or those that ended
Dropping(h) == Wake(h) \/ Converge(h) \/ Gathered(h) \/ Crash(h)
LEMMA DroppingStep ==
    ASSUME LeaseAssumption, TypeInv, NEW h \in Hosts, Dropping(h)
    PROVE  /\ task' \in [Hosts -> [Nodes -> TaskType \cup {None}]]
           /\ \A n \in Nodes : task'[h][n] = None \/ task'[h][n] = task[h][n]
           /\ \A g \in Hosts : g # h => task'[g] = task[g]
           /\ works' \in [Hosts -> SUBSET Runs] /\ works'[h] \subseteq works[h] /\ \A g \in Hosts : g # h => works'[g] = works[g]
           /\ Crash(h) => works'[h] = {} /\ \A n \in Nodes : task'[h][n] = None
<1>1. CASE Wake(h)
  <2>1. task' = [task EXCEPT ![h] = [n \in Nodes |-> IF n \in Active(h) \ Live(h) THEN None ELSE task[h][n]]]
        /\ ~Crash(h)
    BY <1>1 DEF Wake, Goto, Crash, TypeInv
  <2>2. works' = [works EXCEPT ![h] = @ \ {r \in Runs : run[r] # "running" /\ (Active(h) \ Live(h)) \cap NodesOf(r) # {}}]
    BY <1>1 DEF Wake
  <2> QED
    BY <2>1, <2>2 DEF TypeInv
<1>2. CASE Converge(h) \/ Crash(h)
  <2>1. task' = [task EXCEPT ![h] = [n \in Nodes |-> None]] /\ works' = [works EXCEPT ![h] = {}]
    BY <1>2 DEF Converge, Crash
  <2> QED
    BY <2>1 DEF TypeInv
<1>3. CASE Gathered(h)
  <2>1. task' = [task EXCEPT ![h] = [n \in Nodes |-> None]] /\ works' = works
    BY <1>3 DEF Gathered
  <2>2. ~Crash(h)
    BY <1>3 DEF Gathered, Crash, Goto, TypeInv
  <2> QED
    BY <2>1, <2>2 DEF TypeInv
<1> QED
  BY <1>1, <1>2, <1>3 DEF Dropping

\* the rest of a loop, and the end of a lease
Still(h) == Boot(h) \/ Recovered(h) \/ Finish(h) \/ Scheduled(h)
Claiming(h) == ClaimAll(h, "boot", "startup") \/ ClaimAll(h, "idle", "recover") \/ ClaimAll(h, "claim", "recover")

-----------------------------------------------------------------------------
(* One lemma for each part of the inductive invariant.                       *)

LEMMA TypeStep ==
    ASSUME LeaseAssumption, TypeInv, Stored, [Next]_vars
    PROVE  TypeInv'
<1>1. ASSUME NEW r \in Runs, LeaseEnds(r) PROVE TypeInv'
  BY <1>1 DEF LeaseEnds, env, TypeInv
<1>2. ASSUME NEW h \in Hosts, Still(h) PROVE TypeInv'
  <2>1. pc' \in [Hosts -> {"down", "boot", "startup", "gather", "idle", "recover", "schedule", "wait", "claim", "stopped"}]
    BY <1>2 DEF Still, Boot, Recovered, Finish, Scheduled, Goto, TypeInv
  <2>2. works' \in [Hosts -> SUBSET Runs]
    BY <1>2 DEF Still, Boot, Recovered, Finish, Scheduled, TypeInv
  <2>3. work' = work \/ \E rs \in SUBSET Runs : work' = Completed(rs)
    BY <1>2 DEF Still, Boot, Recovered, Finish, Scheduled, TypeInv
  <2>4. work' \in [Runs -> [st : {"pending", "claimed", "completed"}, owner : Hosts \cup {None, "dead"}, over : BOOLEAN]]
    BY <2>3 DEF Completed, TypeInv
  <2>5. UNCHANGED <<run, attempt, remote, task, lapsed>>
    BY <1>2 DEF Still, Boot, Recovered, Finish, Scheduled, env
  <2> QED
    BY <2>1, <2>2, <2>4, <2>5 DEF TypeInv
<1>3. ASSUME NEW h \in Hosts, Claiming(h) PROVE TypeInv'
  <2>1. /\ work' = [r \in Runs |-> IF r \in Claims THEN [st |-> "claimed", owner |-> h, over |-> FALSE] ELSE work[r]]
        /\ works' = [works EXCEPT ![h] = @ \cup {r \in Runs : Mine(h, r)} \cup Claims]
        /\ pc' = [pc EXCEPT ![h] = "startup"] \/ pc' = [pc EXCEPT ![h] = "recover"]
        /\ UNCHANGED <<run, attempt, remote, task, lapsed>>
    BY <1>3 DEF Claiming, ClaimAll, Goto, env
  <2>2. Claims \subseteq Runs
    BY DEF Claims
  <2>3. works' \in [Hosts -> SUBSET Runs]
    BY <2>1, <2>2 DEF TypeInv
  <2>4. work' \in [Runs -> [st : {"pending", "claimed", "completed"}, owner : Hosts \cup {None, "dead"}, over : BOOLEAN]]
    BY <2>1 DEF TypeInv
  <2> QED
    BY <2>1, <2>3, <2>4 DEF TypeInv
<1>4. ASSUME NEW h \in Hosts, NEW n \in Nodes, Taking(h, n) PROVE TypeInv'
  <2>1. PICK e \in Endpoints, do \in {"recover", "start"} : Begun(h, n, e, do) /\ (attempt' = attempt \/ Started(n, e))
    BY <1>4, TakingStep
  <2>2. attempt' \in [Nodes -> AttemptType]
    BY <2>1 DEF Started, TypeInv, AttemptType
  <2>3. [do |-> do, on |-> e, no |-> attempt[n].no] \in TaskType
    BY DEF TypeInv, AttemptType, TaskType
  <2>4. task' \in [Hosts -> [Nodes -> TaskType \cup {None}]]
    BY <2>1, <2>3, TaskSet DEF Begun
  <2> QED
    BY <2>1, <2>2, <2>4 DEF Begun, env, TypeInv
<1>5. ASSUME NEW h \in Hosts, NEW n \in Nodes, Task(h, n) PROVE TypeInv'
  <2>1. task' \in [Hosts -> [Nodes -> TaskType \cup {None}]]
    BY <1>5, TaskStep, TaskMoved
  <2>2. Settles(n) \/ Binds(n) \/ UNCHANGED <<run, attempt, remote>>
    BY <1>5, TaskStep
  <2>3. UNCHANGED <<work, pc, works, env>>
    BY <1>5, TaskStep
  <2>4. remote' \in [Nodes -> BOOLEAN]
    BY <2>2 DEF Settles, Binds, TypeInv
  <2>5. run' \in [Runs -> {"running", "paused", "completed", "failed"}]
    BY <2>2 DEF Settles, Binds, TypeInv
  <2>6. attempt' \in [Nodes -> AttemptType]
    <3>1. attempt[n] \in AttemptType
      BY DEF TypeInv
    <3>2. /\ [Fresh EXCEPT !.no = attempt[n].no + 1] \in AttemptType
          /\ \A st \in {"failed", "done"} : [Fresh EXCEPT !.st = st, !.no = attempt[n].no] \in AttemptType
          /\ [attempt[n] EXCEPT !.bound = TRUE] \in AttemptType
      <4>1. attempt[n].no \in Nat /\ attempt[n].no + 1 \in Nat
        BY <3>1 DEF AttemptType
      <4> QED
        BY <3>1, <4>1 DEF Fresh, AttemptType
    <3> QED
      BY <2>2, <3>2 DEF Settles, Binds, TypeInv
  <2> QED
    BY <2>1, <2>3, <2>4, <2>5, <2>6 DEF TypeInv, env
<1>6. ASSUME NEW h \in Hosts, Dropping(h) PROVE TypeInv'
  <2>1. task' \in [Hosts -> [Nodes -> TaskType \cup {None}]] /\ works' \in [Hosts -> SUBSET Runs]
    BY <1>6, DroppingStep
  <2>2. pc' \in [Hosts -> {"down", "boot", "startup", "gather", "idle", "recover", "schedule", "wait", "claim", "stopped"}]
    BY <1>6 DEF Dropping, Wake, Converge, Gathered, Crash, Goto, TypeInv
  <2>3. work' \in [Runs -> [st : {"pending", "claimed", "completed"}, owner : Hosts \cup {None, "dead"}, over : BOOLEAN]]
    <3>1. CASE Crash(h)
      <4>1. work' = [r \in Runs |-> IF Mine(h, r) THEN [work[r] EXCEPT !.owner = "dead"] ELSE work[r]]
        BY <3>1 DEF Crash
      <4> QED
        BY <4>1 DEF TypeInv
    <3>2. CASE Wake(h) \/ Converge(h) \/ Gathered(h)
      <4>1. work' = work \/ \E rs \in SUBSET Runs : work' = Completed(rs)
        BY <3>2 DEF Wake, Converge, Gathered
      <4> QED
        BY <4>1 DEF Completed, TypeInv
    <3> QED
      BY <1>6, <3>1, <3>2 DEF Dropping
  <2>4. remote' \in [Nodes -> BOOLEAN] /\ lapsed' = lapsed
    BY <1>6 DEF Dropping, Wake, Converge, Gathered, Crash, env, TypeInv
  <2>5. run' \in [Runs -> {"running", "paused", "completed", "failed"}]
    BY <1>6 DEF Dropping, Wake, Converge, Gathered, Crash, TypeInv
  <2>6. attempt' \in [Nodes -> AttemptType]
    <3>1. CASE Converge(h)
      <4>1. PICK K \in SUBSET Runs : attempt' =
              [n \in Nodes |-> IF Of[n] \in K /\ attempt[n].st = "running" THEN [attempt[n] EXCEPT !.st = "interrupted"] ELSE attempt[n]]
        <5>1. works[h] \cup {Of[n] : n \in Active(h)} \in SUBSET Runs
          BY DEF LeaseAssumption, TypeInv, Active
        <5> QED
          BY <3>1, <5>1 DEF Converge
      <4>2. \A n \in Nodes : attempt[n] \in AttemptType /\ [attempt[n] EXCEPT !.st = "interrupted"] \in AttemptType
        <5>1. \A n \in Nodes : attempt[n] \in AttemptType
          BY DEF TypeInv
        <5>2. \A a \in AttemptType : [a EXCEPT !.st = "interrupted"] \in AttemptType
          BY DEF AttemptType
        <5> QED
          BY <5>1, <5>2
      <4> QED
        BY <4>1, <4>2
    <3>2. CASE Wake(h) \/ Gathered(h) \/ Crash(h)
      BY <3>2 DEF Wake, Gathered, Crash, TypeInv
    <3> QED
      BY <1>6, <3>1, <3>2 DEF Dropping
  <2> QED
    BY <2>1, <2>2, <2>3, <2>4, <2>5, <2>6 DEF TypeInv
<1>7. CASE UNCHANGED vars
  BY <1>7 DEF vars, env, TypeInv
<1> QED
  BY <1>1, <1>2, <1>3, <1>4, <1>5, <1>6, <1>7 DEF Next, Loop, Still, Claiming, Taking, Dropping

LEMMA LimitStep ==
    ASSUME LeaseAssumption, TypeInv, Stored, LimitInv, [Next]_vars
    PROVE  LimitInv'
<1>0. ASSUME NEW h \in Hosts, \A g \in Hosts : g # h => task'[g] = task[g], Limited(h)' PROVE LimitInv'
  <2>1. ASSUME NEW g \in Hosts, g # h PROVE Limited(g)'
    BY <1>0, <2>1, EndsTasks DEF LimitInv
  <2> QED
    BY <1>0, <2>1 DEF LimitInv
<1>1. task' = task => LimitInv'
  BY EndsTasks DEF LimitInv
<1>2. ASSUME NEW h \in Hosts, Still(h) \/ Claiming(h) PROVE LimitInv'
  BY <1>1, <1>2 DEF Still, Claiming, Boot, Recovered, Finish, Scheduled, ClaimAll
<1>3. ASSUME NEW h \in Hosts, NEW n \in Nodes, Taking(h, n) PROVE LimitInv'
  <2>1. PICK e \in Endpoints, do \in {"recover", "start"} : Begun(h, n, e, do)
    BY <1>3, TakingStep
  <2>2. [do |-> do, on |-> e, no |-> attempt[n].no] \in TaskType
    BY DEF TypeInv, AttemptType, TaskType
  <2>3. /\ task'[h][n].on = e /\ \A m \in Nodes : m # n => task'[h][m] = task[h][m]
        /\ \A g \in Hosts : g # h => task'[g] = task[g]
    BY <2>1, <2>2, TaskSet DEF Begun
  <2>4. Limited(h)'
    BY <2>1, <2>3, TakesTask DEF Begun, LimitInv
  <2> QED
    BY <1>0, <2>3, <2>4
<1>4. ASSUME NEW h \in Hosts, NEW n \in Nodes, Task(h, n) PROVE LimitInv'
  <2>1. task[h][n] # None
    BY <1>4, TaskStep
  <2>2. /\ task'[h][n].on = task[h][n].on /\ \A m \in Nodes : m # n => task'[h][m] = task[h][m]
        /\ \A g \in Hosts : g # h => task'[g] = task[g]
    BY <1>4, TaskStep, TaskMoved
  <2>3. Limited(h)'
    BY <2>1, <2>2, EndsTasks DEF LimitInv
  <2> QED
    BY <1>0, <2>2, <2>3
<1>5. ASSUME NEW h \in Hosts, Dropping(h) PROVE LimitInv'
  <2>1. /\ \A n \in Nodes : task'[h][n] = None \/ task'[h][n] = task[h][n]
        /\ \A g \in Hosts : g # h => task'[g] = task[g]
    BY <1>5, DroppingStep
  <2>2. Limited(h)'
    BY <2>1, EndsTasks DEF LimitInv
  <2> QED
    BY <1>0, <2>1, <2>2
<1>6. ASSUME NEW r \in Runs, LeaseEnds(r) PROVE LimitInv'
  BY <1>1, <1>6 DEF LeaseEnds
<1>7. CASE UNCHANGED vars
  BY <1>1, <1>7 DEF vars
<1> QED
  BY <1>2, <1>3, <1>4, <1>5, <1>6, <1>7 DEF Next, Loop, Still, Claiming, Taking, Dropping

\* a lease changes hands when it ran out, and then its Run counts as lapsed or its owner as dead
LEMMA OwnStep ==
    ASSUME LeaseAssumption, TypeInv, Stored, OwnInv, [Next]_vars
    PROVE  OwnInv'
<1>0. /\ {None, "dead"} \cap Hosts = {} /\ \A r \in Runs : work[r] \in [st : {"pending", "claimed", "completed"}, owner : Hosts \cup {None, "dead"}, over : BOOLEAN]
      /\ \A h \in Hosts : works[h] \subseteq Runs
  BY DEF LeaseAssumption, TypeInv
<1>a. ASSUME lapsed \subseteq lapsed',
             \A r \in Runs : /\ work'[r].owner = work[r].owner /\ (work[r].st # "pending" => work'[r].st # "pending")
                             /\ work'[r].st = "claimed" => work[r].st = "claimed"
                             /\ work'[r].over => work[r].over \/ work[r].owner = "dead" \/ r \in lapsed',
             \A h \in Hosts, r \in Runs : (r \in works'[h] \/ Active(h)' \cap NodesOf(r) # {}) =>
                r \in works[h] \/ Active(h) \cap NodesOf(r) # {}
      PROVE  OwnInv'
  BY <1>a DEF OwnInv, NodesOf
<1>1. ASSUME NEW r \in Runs, LeaseEnds(r) PROVE OwnInv'
  <2>1. /\ work' = [work EXCEPT ![r].over = TRUE] /\ lapsed \subseteq lapsed' /\ UNCHANGED <<works, task>>
        /\ work[r].owner = "dead" \/ r \in lapsed'
    BY <1>1 DEF LeaseEnds, env
  <2>2. \A s \in Runs : /\ work'[s].owner = work[s].owner /\ work'[s].st = work[s].st
                        /\ s # r => work'[s].over = work[s].over
    BY <2>1 DEF TypeInv
  <2> QED
    BY <1>a, <2>1, <2>2 DEF Active
<1>2. ASSUME NEW h \in Hosts, Still(h) PROVE OwnInv'
  <2>1. work' = work \/ \E rs \in SUBSET Runs : work' = Completed(rs)
    BY <1>2 DEF Still, Boot, Recovered, Finish, Scheduled, TypeInv
  <2>2. \A r \in Runs : /\ work'[r].owner = work[r].owner /\ (work[r].st # "pending" => work'[r].st # "pending")
                        /\ work'[r].st = "claimed" => work[r].st = "claimed"
                        /\ work'[r].over => work[r].over
    BY <2>1 DEF Completed, TypeInv
  <2>3. \A g \in Hosts : works'[g] \subseteq works[g]
    BY <1>2 DEF Still, Boot, Recovered, Finish, Scheduled, TypeInv
  <2>4. UNCHANGED <<task, lapsed>>
    BY <1>2 DEF Still, Boot, Recovered, Finish, Scheduled, env
  <2> QED
    BY <1>a, <2>2, <2>3, <2>4 DEF Active
<1>3. ASSUME NEW h \in Hosts, Claiming(h) PROVE OwnInv'
  <2>1. /\ work' = [r \in Runs |-> IF r \in Claims THEN [st |-> "claimed", owner |-> h, over |-> FALSE] ELSE work[r]]
        /\ works' = [works EXCEPT ![h] = @ \cup {r \in Runs : Mine(h, r)} \cup Claims] /\ UNCHANGED <<task, lapsed>>
    BY <1>3 DEF Claiming, ClaimAll, env
  <2>2. \A r \in Claims : work[r].st = "pending" \/ (work[r].st = "claimed" /\ work[r].over)
    BY DEF Claims, Claimable
  <2>3. ASSUME NEW g \in Hosts, NEW r \in Runs, r \in works'[g] \/ Active(g)' \cap NodesOf(r)' # {}, r \notin lapsed
        PROVE  work'[r].owner = g /\ work'[r].st # "pending"
    <3>1. CASE r \in Claims
      <4>1. \A f \in Hosts : ~(r \in works[f] \/ Active(f) \cap NodesOf(r) # {})
        BY <1>0, <2>2, <2>3, <3>1 DEF OwnInv
      <4>2. g = h
        BY <2>1, <2>3, <4>1 DEF TypeInv, Active, NodesOf
      <4> QED
        BY <2>1, <3>1, <4>2
    <3>2. CASE r \notin Claims
      <4>1. work'[r] = work[r]
        BY <2>1, <3>2
      <4>2. r \in works[g] \/ Active(g) \cap NodesOf(r) # {} \/ Mine(g, r)
        BY <2>1, <2>3, <3>2 DEF TypeInv, Active, NodesOf
      <4> QED
        BY <2>3, <4>1, <4>2 DEF OwnInv, Mine
    <3> QED
      BY <3>1, <3>2
  <2>4. ASSUME NEW r \in Runs, work'[r].st = "claimed", work'[r].over PROVE work'[r].owner = "dead" \/ r \in lapsed
    BY <2>1, <2>4 DEF OwnInv
  <2> QED
    BY <2>1, <2>3, <2>4 DEF OwnInv
<1>4. ASSUME NEW h \in Hosts, NEW n \in Nodes, Taking(h, n) PROVE OwnInv'
  <2>1. PICK e \in Endpoints, do \in {"recover", "start"} : Begun(h, n, e, do)
    BY <1>4, TakingStep
  <2>2. [do |-> do, on |-> e, no |-> attempt[n].no] \in TaskType
    BY DEF TypeInv, AttemptType, TaskType
  <2>3. /\ \A m \in Nodes : m # n => task'[h][m] = task[h][m]
        /\ \A g \in Hosts : g # h => task'[g] = task[g]
    BY <2>1, <2>2, TaskSet DEF Begun
  <2>4. \A g \in Hosts : Active(g)' \subseteq Active(g) \cup {n} /\ (g # h => Active(g)' = Active(g))
    BY <2>3 DEF Active
  <2>5. \A r \in Runs : n \in NodesOf(r) => r \in works[h]
    BY <2>1 DEF Begun, NodesOf
  <2> QED
    BY <1>a, <2>1, <2>4, <2>5 DEF Begun, env
<1>5. ASSUME NEW h \in Hosts, NEW n \in Nodes, Task(h, n) PROVE OwnInv'
  <2>1. task[h][n] # None /\ UNCHANGED <<work, works, lapsed>>
    BY <1>5, TaskStep DEF env
  <2>2. \A m \in Nodes : m # n => task'[h][m] = task[h][m]
    BY <1>5, TaskStep, TaskMoved
  <2>3. \A g \in Hosts : g # h => task'[g] = task[g]
    BY <1>5, TaskStep, TaskMoved
  <2>4. \A g \in Hosts : Active(g)' \subseteq Active(g)
    BY <2>1, <2>2, <2>3 DEF Active
  <2> QED
    BY <1>a, <2>1, <2>4
<1>6. ASSUME NEW h \in Hosts, Wake(h) \/ Converge(h) \/ Gathered(h) PROVE OwnInv'
  <2>1. /\ \A n \in Nodes : task'[h][n] = None \/ task'[h][n] = task[h][n]
        /\ \A g \in Hosts : g # h => task'[g] = task[g]
        /\ \A g \in Hosts : works'[g] \subseteq works[g]
    BY <1>6, DroppingStep DEF Dropping
  <2>2. \A g \in Hosts : Active(g)' \subseteq Active(g)
    BY <2>1 DEF Active
  <2>3. lapsed' = lapsed /\ (work' = work \/ \E rs \in SUBSET Runs : work' = Completed(rs))
    BY <1>6 DEF Wake, Converge, Gathered, env
  <2>4. \A r \in Runs : /\ work'[r].owner = work[r].owner /\ (work[r].st # "pending" => work'[r].st # "pending")
                        /\ work'[r].st = "claimed" => work[r].st = "claimed"
                        /\ work'[r].over => work[r].over
    BY <2>3 DEF Completed, TypeInv
  <2> QED
    BY <1>a, <2>1, <2>2, <2>3, <2>4
<1>7. ASSUME NEW h \in Hosts, Crash(h) PROVE OwnInv'
  <2>1. /\ works'[h] = {} /\ \A n \in Nodes : task'[h][n] = None
        /\ \A g \in Hosts : g # h => task'[g] = task[g] /\ works'[g] = works[g]
    BY <1>7, DroppingStep DEF Dropping
  <2>2. Active(h)' = {} /\ \A g \in Hosts : g # h => Active(g)' = Active(g)
    BY <2>1 DEF Active
  <2>3. lapsed' = lapsed /\ work' = [r \in Runs |-> IF Mine(h, r) THEN [work[r] EXCEPT !.owner = "dead"] ELSE work[r]]
    BY <1>7 DEF Crash
  <2>4. \A r \in Runs : /\ work'[r].st = work[r].st /\ work'[r].over = work[r].over
                        /\ work'[r].owner = "dead" \/ work'[r].owner = work[r].owner
                        /\ work[r].owner # h => work'[r].owner = work[r].owner
    BY <1>0, <2>3 DEF Mine
  <2>5. ASSUME NEW g \in Hosts, NEW r \in Runs, r \in works'[g] \/ Active(g)' \cap NodesOf(r)' # {}, r \notin lapsed
        PROVE  work'[r].owner = g /\ work'[r].st # "pending"
    <3>1. g # h
      BY <2>1, <2>2, <2>5
    <3>2. work[r].owner = g /\ work[r].st # "pending"
      BY <2>1, <2>2, <2>5, <3>1 DEF OwnInv, NodesOf
    <3> QED
      BY <2>4, <3>1, <3>2
  <2>6. ASSUME NEW r \in Runs, work'[r].st = "claimed", work'[r].over PROVE work'[r].owner = "dead" \/ r \in lapsed
    BY <2>4, <2>6 DEF OwnInv
  <2> QED
    BY <2>3, <2>5, <2>6 DEF OwnInv
<1>8. CASE UNCHANGED vars
  BY <1>8 DEF vars, env, OwnInv, Active, NodesOf
<1> QED
  BY <1>1, <1>2, <1>3, <1>4, <1>5, <1>6, <1>7, <1>8 DEF Next, Loop, Still, Claiming, Taking

\* what a Run, an Attempt and an execution are to each other: no step takes back what is settled
KeptInv == (\A r \in Runs : RunKept(r)) /\ \A n \in Nodes : AttemptKept(n) /\ Executes(n)
RememberInv == \A h \in Hosts : Remembers(h)
Onward == \A n \in Nodes : attempt[n].no <= attempt'[n].no

LEMMA TaskKeeps ==
    ASSUME LeaseAssumption, TypeInv, KeptInv, NEW n \in Nodes, Settles(n) \/ Binds(n) \/ UNCHANGED <<run, attempt, remote>>
    PROVE  KeptInv' /\ Onward
<1>0. /\ attempt \in [Nodes -> AttemptType] /\ attempt[n].no \in Nat /\ Tries[n] \in Nat /\ attempt[n] \in AttemptType
      /\ \A m \in Nodes : attempt[m].no \in Nat
  BY DEF LeaseAssumption, TypeInv, AttemptType
<1>a. ASSUME \A m \in Nodes \ {n} : attempt'[m] = attempt[m] /\ remote'[m] = remote[m],
             AttemptKept(n)', Executes(n)', \A r \in Runs : RunKept(r)', attempt[n].no <= attempt'[n].no
      PROVE  KeptInv' /\ Onward
  <2>1. \A m \in Nodes : AttemptKept(m)' /\ Executes(m)'
    <3>1. ASSUME NEW m \in Nodes, m # n PROVE AttemptKept(m)' /\ Executes(m)'
      BY <1>a, <3>1 DEF KeptInv, AttemptKept, Executes
    <3> QED
      BY <1>a, <3>1
  <2>2. Onward
    BY <1>0, <1>a DEF Onward
  <2> QED
    BY <1>a, <2>1, <2>2 DEF KeptInv
<1>1. CASE attempt[n].st = "running" /\ run' = run /\ remote' = [remote EXCEPT ![n] = FALSE] /\ attempt[n].no < Tries[n]
            /\ attempt' = [attempt EXCEPT ![n] = [Fresh EXCEPT !.no = attempt[n].no + 1]]
  <2>1. /\ \A m \in Nodes \ {n} : attempt'[m] = attempt[m] /\ remote'[m] = remote[m]
        /\ attempt'[n].st = "ready" /\ ~attempt'[n].bound /\ attempt'[n].no = attempt[n].no + 1 /\ remote'[n] = FALSE
    BY <1>0, <1>1 DEF TypeInv, Fresh
  <2>2. AttemptKept(n)' /\ Executes(n)'
    BY <1>0, <1>1, <2>1 DEF AttemptKept, Executes
  <2>3. \A r \in Runs : RunKept(r)'
    BY <1>1, <2>1 DEF KeptInv, RunKept, NodesOf
  <2>4. attempt[n].no <= attempt'[n].no
    BY <1>0, <2>1
  <2> QED
    BY <1>a, <2>1, <2>2, <2>3, <2>4
<1>2. CASE attempt[n].st = "running" /\ remote' = [remote EXCEPT ![n] = FALSE]
            /\ attempt' = [attempt EXCEPT ![n] = [Fresh EXCEPT !.st = "failed", !.no = attempt[n].no]]
            /\ run' = [run EXCEPT ![Of[n]] = "failed"]
  <2>1. /\ \A m \in Nodes \ {n} : attempt'[m] = attempt[m] /\ remote'[m] = remote[m]
        /\ attempt'[n].st = "failed" /\ ~attempt'[n].bound /\ attempt'[n].no = attempt[n].no /\ remote'[n] = FALSE
    BY <1>0, <1>2 DEF TypeInv, Fresh
  <2>2. AttemptKept(n)' /\ Executes(n)'
    BY <1>0, <1>2, <2>1 DEF KeptInv, AttemptKept, Executes
  <2>3. ASSUME NEW r \in Runs PROVE RunKept(r)'
    <3>1. CASE r = Of[n]
      <4>1. run'[r] = "failed" /\ n \in NodesOf(r)
        BY <1>2, <3>1 DEF TypeInv, NodesOf
      <4> QED
        BY <2>1, <4>1 DEF RunKept, NodesOf
    <3>2. CASE r # Of[n]
      <4>1. run'[r] = run[r] /\ n \notin NodesOf(r)
        BY <1>2, <3>2 DEF TypeInv, NodesOf
      <4> QED
        BY <2>1, <4>1 DEF KeptInv, RunKept, NodesOf
    <3> QED
      BY <3>1, <3>2
  <2> QED
    BY <1>0, <1>a, <2>1, <2>2, <2>3
<1>3. CASE attempt[n].st = "running" /\ remote' = [remote EXCEPT ![n] = FALSE]
            /\ attempt' = [attempt EXCEPT ![n] = [Fresh EXCEPT !.st = "done", !.no = attempt[n].no]]
            /\ run' = [run EXCEPT ![Of[n]] = IF \A m \in NodesOf(Of[n]) \ {n} : attempt[m].st = "done" THEN "completed" ELSE @]
  <2>1. /\ \A m \in Nodes \ {n} : attempt'[m] = attempt[m] /\ remote'[m] = remote[m]
        /\ attempt'[n].st = "done" /\ ~attempt'[n].bound /\ attempt'[n].no = attempt[n].no /\ remote'[n] = FALSE
    BY <1>0, <1>3 DEF TypeInv, Fresh
  <2>2. AttemptKept(n)' /\ Executes(n)'
    BY <1>0, <1>3, <2>1 DEF KeptInv, AttemptKept, Executes
  <2>3. ASSUME NEW r \in Runs PROVE RunKept(r)'
    <3>1. CASE r = Of[n] /\ \A m \in NodesOf(Of[n]) \ {n} : attempt[m].st = "done"
      <4>1. run'[r] = "completed"
        BY <1>3, <3>1 DEF TypeInv
      <4>2. \A m \in NodesOf(r) : attempt'[m].st = "done"
        BY <2>1, <3>1 DEF NodesOf
      <4> QED
        BY <4>1, <4>2 DEF RunKept, NodesOf
    <3>2. CASE r # Of[n] \/ ~\A m \in NodesOf(Of[n]) \ {n} : attempt[m].st = "done"
      <4>1. run'[r] = run[r]
        BY <1>3, <3>2 DEF TypeInv
      <4> QED
        BY <1>3, <2>1, <4>1 DEF KeptInv, RunKept, NodesOf
    <3> QED
      BY <3>1, <3>2
  <2> QED
    BY <1>0, <1>a, <2>1, <2>2, <2>3
<1>4. CASE Binds(n)
  <2>1. /\ \A m \in Nodes \ {n} : attempt'[m] = attempt[m] /\ remote'[m] = remote[m]
        /\ attempt'[n].st = attempt[n].st /\ attempt'[n].bound /\ attempt'[n].no = attempt[n].no
        /\ attempt'[n].endpoint = attempt[n].endpoint /\ run' = run /\ attempt[n].st = "running"
    BY <1>0, <1>4 DEF Binds, TypeInv, AttemptType
  <2>2. AttemptKept(n)' /\ Executes(n)'
    BY <2>1 DEF KeptInv, AttemptKept, Executes
  <2>3. \A r \in Runs : RunKept(r)'
    BY <2>1 DEF KeptInv, RunKept, NodesOf
  <2> QED
    BY <1>0, <1>a, <2>1, <2>2, <2>3
<1>5. CASE UNCHANGED <<run, attempt, remote>>
  BY <1>0, <1>5 DEF KeptInv, RunKept, AttemptKept, Executes, NodesOf, Onward
<1> QED
  BY <1>1, <1>2, <1>3, <1>4, <1>5 DEF Settles

LEMMA KeptStep ==
    ASSUME LeaseAssumption, TypeInv, KeptInv, RememberInv, [Next]_vars
    PROVE  KeptInv' /\ Onward
<1>0. \A m \in Nodes : attempt[m].no \in Nat /\ attempt[m] \in AttemptType
  BY DEF TypeInv, AttemptType
<1>s. Stored
  BY DEF Stored, KeptInv, RememberInv
<1>1. UNCHANGED <<run, attempt, remote>> => KeptInv' /\ Onward
  BY <1>0 DEF KeptInv, RunKept, AttemptKept, Executes, NodesOf, Onward
<1>2. ASSUME NEW r \in Runs, LeaseEnds(r) PROVE KeptInv' /\ Onward
  BY <1>1, <1>2 DEF LeaseEnds
<1>3. ASSUME NEW h \in Hosts, Still(h) \/ Claiming(h) \/ Wake(h) \/ Gathered(h) PROVE KeptInv' /\ Onward
  BY <1>1, <1>3 DEF Still, Claiming, Boot, Recovered, Finish, Scheduled, ClaimAll, Wake, Gathered
<1>4. ASSUME NEW h \in Hosts, NEW n \in Nodes, Taking(h, n) PROVE KeptInv' /\ Onward
  <2>1. PICK e \in Endpoints, do \in {"recover", "start"} : Begun(h, n, e, do) /\ (attempt' = attempt \/ Started(n, e))
    BY <1>s, <1>4, TakingStep
  <2>2. UNCHANGED <<run, remote>> /\ e \in Serves[n]
    BY <2>1 DEF Begun
  <2>3. CASE attempt' = attempt
    BY <1>1, <2>2, <2>3
  <2>4. CASE Started(n, e)
    <3>1. /\ \A m \in Nodes \ {n} : attempt'[m] = attempt[m]
          /\ attempt[n].st = "ready" /\ run[Of[n]] = "running"
          /\ attempt'[n].st = "running" /\ attempt'[n].endpoint = e
          /\ attempt'[n].no = attempt[n].no /\ attempt'[n].bound = attempt[n].bound
      BY <1>0, <2>4 DEF Started, TypeInv, AttemptType
    <3>2. \A m \in Nodes : AttemptKept(m)' /\ Executes(m)'
      BY <2>2, <3>1 DEF KeptInv, AttemptKept, Executes
    <3>3. ASSUME NEW r \in Runs PROVE RunKept(r)'
      <4>1. CASE r = Of[n]
        BY <2>2, <3>1, <4>1 DEF RunKept
      <4>2. CASE r # Of[n]
        BY <2>2, <3>1, <4>2 DEF KeptInv, RunKept, NodesOf
      <4> QED
        BY <4>1, <4>2
    <3> QED
      BY <1>0, <3>1, <3>2, <3>3 DEF KeptInv, Onward
  <2> QED
    BY <2>1, <2>3, <2>4
<1>5. ASSUME NEW h \in Hosts, NEW n \in Nodes, Task(h, n) PROVE KeptInv' /\ Onward
  BY <1>5, TaskStep, TaskKeeps
<1>6. ASSUME NEW h \in Hosts, Converge(h) PROVE KeptInv' /\ Onward
  <2>1. /\ remote' = remote
        /\ \A r \in Runs : run'[r] = run[r] \/ (run'[r] = "paused" /\ run[r] = "running")
        /\ \A n \in Nodes : \/ attempt'[n] = attempt[n]
                            \/ attempt[n].st = "running" /\ attempt'[n] = [attempt[n] EXCEPT !.st = "interrupted"]
    BY <1>6 DEF Converge
  <2>2. \A n \in Nodes : /\ attempt'[n].no = attempt[n].no /\ attempt'[n].bound = attempt[n].bound
                         /\ attempt'[n].endpoint = attempt[n].endpoint
                         /\ \/ attempt'[n].st = attempt[n].st
                            \/ attempt[n].st = "running" /\ attempt'[n].st = "interrupted"
    BY <1>0, <2>1 DEF AttemptType
  <2>3. \A n \in Nodes : AttemptKept(n)' /\ Executes(n)'
    BY <2>1, <2>2 DEF KeptInv, AttemptKept, Executes
  <2>4. \A r \in Runs : RunKept(r)'
    BY <2>1, <2>2 DEF KeptInv, RunKept, NodesOf
  <2> QED
    BY <1>0, <2>2, <2>3, <2>4 DEF KeptInv, Onward
<1>7. ASSUME NEW h \in Hosts, Crash(h) PROVE KeptInv' /\ Onward
  <2>1. UNCHANGED <<run, attempt>> /\ \A n \in Nodes : remote'[n] => remote[n]
    BY <1>7 DEF Crash
  <2> QED
    BY <1>0, <2>1 DEF KeptInv, RunKept, AttemptKept, Executes, NodesOf, Onward
<1>8. CASE UNCHANGED vars
  BY <1>1, <1>8 DEF vars
<1> QED
  BY <1>2, <1>3, <1>4, <1>5, <1>6, <1>7, <1>8 DEF Next, Loop, Still, Claiming, Taking

\* tasks are of Attempts that were begun, and a host that is down has none
LEMMA RememberStep ==
    ASSUME LeaseAssumption, TypeInv, KeptInv, RememberInv, [Next]_vars, Onward, TypeInv'
    PROVE  RememberInv'
<1>0. /\ \A n \in Nodes : attempt[n].no \in Nat /\ attempt'[n].no \in Nat
      /\ \A h \in Hosts, n \in Nodes : task[h][n] # None => task[h][n].no \in Nat
  BY DEF TypeInv, AttemptType, TaskType
<1>s. Stored
  BY DEF Stored, KeptInv, RememberInv
<1>a. ASSUME NEW h \in Hosts, task'[h] = task[h],
             pc'[h] \in {"down", "boot"} => pc[h] \in {"down", "boot"} /\ works'[h] = works[h]
      PROVE  Remembers(h)'
  BY <1>0, <1>a DEF RememberInv, Remembers, Active, Onward
<1>1. ASSUME UNCHANGED <<pc, works, task>> PROVE RememberInv'
  BY <1>a, <1>1 DEF RememberInv
<1>2. ASSUME NEW r \in Runs, LeaseEnds(r) PROVE RememberInv'
  BY <1>1, <1>2 DEF LeaseEnds
<1>3. ASSUME NEW h \in Hosts, Still(h) PROVE RememberInv'
  <2>1. /\ task' = task /\ \A g \in Hosts : g # h => pc'[g] = pc[g] /\ works'[g] = works[g]
        /\ pc'[h] \in {"down", "boot"} => pc[h] = "down" /\ works'[h] = works[h]
    BY <1>3 DEF Still, Boot, Recovered, Finish, Scheduled, Goto, TypeInv
  <2> QED
    BY <1>a, <2>1 DEF RememberInv
<1>4. ASSUME NEW h \in Hosts, Claiming(h) PROVE RememberInv'
  <2>1. /\ task' = task /\ \A g \in Hosts : g # h => pc'[g] = pc[g] /\ works'[g] = works[g]
        /\ pc'[h] \notin {"down", "boot"}
    BY <1>4 DEF Claiming, ClaimAll, Goto, TypeInv
  <2> QED
    BY <1>a, <2>1 DEF RememberInv
<1>5. ASSUME NEW h \in Hosts, NEW n \in Nodes, Taking(h, n) PROVE RememberInv'
  <2>1. PICK e \in Endpoints, do \in {"recover", "start"} : Begun(h, n, e, do)
    BY <1>s, <1>5, TakingStep
  <2> DEFINE t == [do |-> do, on |-> e, no |-> attempt[n].no]
  <2>2. t \in TaskType /\ t.on \in Serves[n] /\ t.no = attempt[n].no
    BY <1>0, <2>1 DEF Begun, TaskType
  <2>3. task' = [task EXCEPT ![h][n] = t] /\ UNCHANGED <<pc, works>> /\ pc[h] \notin {"down", "boot"}
    BY <2>1 DEF Begun
  <2> HIDE DEF t
  <2>4. /\ task'[h][n] = t /\ \A m \in Nodes : m # n => task'[h][m] = task[h][m]
        /\ \A g \in Hosts : g # h => task'[g] = task[g]
    BY <2>2, <2>3, TaskSet
  <2>5. Remembers(h)'
    BY <1>0, <2>2, <2>3, <2>4 DEF RememberInv, Remembers, Active, Onward
  <2> QED
    BY <1>a, <2>3, <2>4, <2>5 DEF RememberInv
<1>6. ASSUME NEW h \in Hosts, NEW n \in Nodes, Task(h, n) PROVE RememberInv'
  <2>1. task[h][n] # None /\ UNCHANGED <<pc, works>>
    BY <1>6, TaskStep
  <2>2. /\ task'[h][n].on = task[h][n].on /\ task'[h][n].no = task[h][n].no
        /\ \A m \in Nodes : m # n => task'[h][m] = task[h][m]
        /\ \A g \in Hosts : g # h => task'[g] = task[g]
    BY <1>6, TaskStep, TaskMoved
  <2>3. pc[h] \notin {"down", "boot"}
    BY <2>1 DEF RememberInv, Remembers, Active
  <2>4. Remembers(h)'
    BY <1>0, <2>1, <2>2, <2>3 DEF RememberInv, Remembers, Active, Onward
  <2> QED
    BY <1>a, <2>1, <2>2, <2>4 DEF RememberInv
<1>7. ASSUME NEW h \in Hosts, Dropping(h) PROVE RememberInv'
  <2>1. /\ \A n \in Nodes : task'[h][n] = None \/ task'[h][n] = task[h][n]
        /\ \A g \in Hosts : g # h => task'[g] = task[g] /\ works'[g] = works[g]
        /\ Crash(h) => works'[h] = {} /\ \A n \in Nodes : task'[h][n] = None
    BY <1>7, DroppingStep
  <2>2. /\ \A g \in Hosts : g # h => pc'[g] = pc[g]
        /\ pc'[h] \in {"down", "boot"} => Crash(h)
    BY <1>7 DEF Dropping, Wake, Converge, Gathered, Crash, Goto, TypeInv
  <2>3. Remembers(h)'
    BY <1>0, <2>1, <2>2 DEF RememberInv, Remembers, Active, Onward
  <2> QED
    BY <1>a, <2>1, <2>2, <2>3 DEF RememberInv
<1>8. CASE UNCHANGED vars
  BY <1>1, <1>8 DEF vars
<1> QED
  BY <1>2, <1>3, <1>4, <1>5, <1>6, <1>7, <1>8 DEF Next, Loop, Still, Claiming, Taking, Dropping

-----------------------------------------------------------------------------
\* A host's new work and what it recovered from dead hosts together keep the limits; two hosts work
\* for one Run only after a lease ran out under a live host; and what is settled stays settled.
THEOREM HostsKeepLimits ==
    ASSUME LeaseAssumption
    PROVE  Init /\ [][Next]_vars => []SlotsKept
<1>1. Init => LeaseInv
  <2> SUFFICES ASSUME Init PROVE LeaseInv
    OBVIOUS
  <2>1. TypeInv
    BY DEF Init, TypeInv, Fresh, AttemptType
  <2>2. \A h \in Hosts : Active(h) = {} /\ works[h] = {} /\ \A e \in Endpoints : OnEndpoint(h, e) = {}
    BY DEF Init, Active, OnEndpoint
  <2>3. OwnInv
    BY <2>2 DEF Init, OwnInv
  <2>4. \A r \in Runs : RunKept(r)
    BY DEF Init, RunKept
  <2>5. \A n \in Nodes : AttemptKept(n) /\ Executes(n)
    BY DEF LeaseAssumption, Init, AttemptKept, Executes, Fresh
  <2>6. \A h \in Hosts : Remembers(h)
    BY <2>2 DEF Remembers
  <2>7. LimitInv
    <3>1. Cardinality({}) = 0
      BY FS_EmptySet
    <3>2. \A h \in Hosts, S \in {Writers} \cup {NodesOf(r) : r \in Runs} : Active(h) \cap S = {}
      BY <2>2
    <3>3. \A h \in Hosts, r \in Runs : Uses(h, NodesOf(r)) = 0
      BY <3>1, <3>2 DEF Uses
    <3>4. \A h \in Hosts : Cardinality(Active(h)) = 0 /\ Cardinality(Active(h) \cap Writers) = 0
      BY <2>2, <3>1, <3>2
    <3>5. \A h \in Hosts, e \in Endpoints : Cardinality(OnEndpoint(h, e)) = 0
      BY <2>2, <3>1
    <3> QED
      BY <3>3, <3>4, <3>5, Capacities DEF LimitInv, Limited
  <2> QED
    BY <2>1, <2>3, <2>4, <2>5, <2>6, <2>7 DEF LeaseInv, Stored
<1>2. LeaseInv /\ [Next]_vars => LeaseInv'
  <2> SUFFICES ASSUME LeaseInv, [Next]_vars PROVE LeaseInv'
    OBVIOUS
  <2>1. TypeInv /\ OwnInv /\ Stored /\ LimitInv /\ KeptInv /\ RememberInv
    BY DEF LeaseInv, Stored, KeptInv, RememberInv
  <2>2. TypeInv' /\ OwnInv' /\ LimitInv' /\ KeptInv' /\ Onward
    BY <2>1, TypeStep, OwnStep, LimitStep, KeptStep
  <2>3. RememberInv'
    BY <2>1, <2>2, RememberStep
  <2> QED
    BY <2>2, <2>3 DEF LeaseInv, Stored, KeptInv, RememberInv
<1>3. LeaseInv => SlotsKept
  <2> SUFFICES ASSUME LeaseInv PROVE SlotsKept
    OBVIOUS
  <2>1. Stored /\ LimitInv /\ OwnInv
    BY DEF LeaseInv
  <2>2. ASSUME NEW h \in Hosts, NEW g \in Hosts \ {h}, NEW r \in Runs,
               Live(g) \cap NodesOf(r) # {}, Live(h) \cap NodesOf(r) # {}
        PROVE  r \in lapsed
    <3>1. Active(g) \cap NodesOf(r) # {} /\ Active(h) \cap NodesOf(r) # {}
      BY <2>2 DEF Live
    <3> QED
      BY <2>1, <3>1 DEF OwnInv
  <2> QED
    BY <2>1, <2>2 DEF SlotsKept, LimitInv, Limited
<1> QED
  BY <1>1, <1>2, <1>3, PTL
=============================================================================
