------------------------------- MODULE MCLeases -------------------------------
(* One Run of one host, with every fault its Attempts can meet; or several Runs and *)
(* hosts that claim their DispatchWork. `part` says which of the two a behaviour is *)
(* about.                                                                           *)
EXTENDS RunProgress, TLC
CONSTANTS
    front, back,                            \* the nodes of the one Run
    r1, r2, n1, n2, n3, e1, e2,
    Runs, Assigned, Of, Endpoints, Serves,  \* of the hosts: DispatchLeases, whose nodes are Assigned
    Writers, LocalEndpoints, Hosts, GlobalCapacity, RunCapacity, EndpointCapacity,
    Tries, MaxLapses, None
VARIABLES part, runs, works, attempts, remote, loop, claims, tasks, lapsed, lapses

\* one node behind the other
ChainDeps == front :> {} @@ back :> {front}
\* two Runs, one with two nodes
RunOf == [n \in {n1, n2, n3} |-> IF n = n3 THEN r2 ELSE r1]
Able == [n \in {n1, n2, n3} |-> IF n = n1 THEN {e1, e2} ELSE {e2}]
Twice == [n \in {n1, n2, n3} |-> IF n = n3 THEN 2 ELSE 1]

Host == INSTANCE DispatchLeases_proofs WITH
    Nodes <- Assigned, Local <- LocalEndpoints, MaxFaults <- MaxLapses,
    run <- runs, work <- works, attempt <- attempts, pc <- loop, works <- claims, task <- tasks,
    faults <- lapses
ASSUME HostAssumption == Host!LeaseAssumption
held == <<runs, works, attempts, remote, loop, claims, tasks, lapsed, lapses>>
all == <<part, vars, held>>

AtHosts(A) == part = "hosts" /\ A /\ UNCHANGED <<part, vars>>
PartsInit == part \in {"one", "hosts"} /\ Init /\ Host!Init
PartsNext ==
    \/ part = "one" /\ Next /\ UNCHANGED <<part, held>>
    \/ AtHosts(Host!Next)
\* with the fairness of DispatchLeases
PartsSpec ==
    /\ PartsInit /\ [][PartsNext]_all
    /\ \A h \in Hosts : /\ WF_all(AtHosts(Host!Loop(h)))
                        /\ WF_all(AtHosts(\E n \in Assigned : Host!Task(h, n)))
    /\ \A r \in Runs : WF_all(AtHosts(Host!LeaseEnds(r) /\ works[r].owner = "dead"))

\* New and recovered work keep the limits of every host, and two live hosts work for one Run only
\* after a lease ran out under the first (DispatchLeases).
SlotsKept == Host!SlotsKept

\* A running Attempt of a running Run that no host has a task for gets one or is settled
\* (DispatchLeases).
AttemptsReturn == Host!AttemptsReturn
=============================================================================
