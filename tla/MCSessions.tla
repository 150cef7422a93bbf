------------------------------ MODULE MCSessions ------------------------------
(* Two ways to work on a Run: Agents that read each other while it goes on, or the *)
(* local host that executes it serially. `part` says which one a behaviour follows. *)
EXTENDS AgentSessions, TLC
CONSTANTS
    n1, n2, n3,
    Order, Deps, Automatic, Human, Controls, Budget, MaxFaults     \* of SerialExecution
\* outcomes of a Gate are told apart from none
ASSUME SerialAssumption == None \notin {"recover", "passed", "rejected"}
VARIABLES part, host, limit, run, cause, node, attempts, checks, points, kept, exec, decider, control, stop, faults

KeysAlike == Permutations(Keys)
Together == n1 :> "p" @@ n2 :> "p"
\* a result with a Check of each kind, one without Gate beside it, and one that follows from that and a person judges
NodeOrder == <<n1, n2, n3>>
NodeDeps == (n1 :> {}) @@ (n2 :> {}) @@ (n3 :> {n2})
Serial == INSTANCE SerialExecution
serial == <<host, limit, run, cause, node, attempts, checks, points, kept, exec, decider, control, stop, faults>>

SessionsInit ==
    /\ part \in {"agents", "serial"}
    /\ Init /\ Serial!Init /\ (part = "agents" => limit = "goal")
SessionsNext ==
    \/ part = "agents" /\ Next /\ UNCHANGED <<part, serial>>
    \/ part = "serial" /\ Serial!Next /\ UNCHANGED <<part, vars>>
SessionsSpec == SessionsInit /\ [][SessionsNext]_<<part, vars, serial>>

\* The local host's threads and restarts agree on its nodes and their Gates (SerialExecution).
SerialHolds == Serial!SerialHolds
=============================================================================
