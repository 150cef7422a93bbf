-------------------------- MODULE MCHubInvocation --------------------------
(* One invocation of a harness, with one call of each kind, on two kinds of host:   *)
(* with handoffs of a code workspace or without; or the Attempt around it, from its *)
(* Worker's task to the way it is settled. `part` says which of them a behaviour    *)
(* follows.                                                                         *)
EXTENDS HubInvocation
CONSTANTS
    send, submit, block,
    Nothing,            \* of PiExecution: no value
    MaxSteps, MaxTroubles
ASSUME NothingAssumption ==
    /\ Nothing \notin Nat
    /\ Nothing \notin {"candidate", "blocked", "waiting", "lost", "answered",
                       "unknown", "failed", "cancelled", "completed", "worker"}
    /\ MaxSteps \in Nat /\ MaxTroubles \in Nat
VARIABLES part, code, status, blocker, record, receipt, registered, task, outcome, stream, seen,
    command, suspension, watcher, troubles

Plain == INSTANCE HubInvocation WITH
    CodeMode <- FALSE, Local <- {send}, Nonlocal <- {}
Pi == INSTANCE PiExecution WITH
    trace <- record, faults <- troubles, MaxFaults <- MaxTroubles, None <- Nothing
attempt == <<code, status, blocker, record, receipt, registered, task, outcome, stream, seen,
             command, suspension, watcher, troubles>>

\* an Attempt that is settled, and whose Worker is gone, stays as it is
Stays == status # "running" /\ UNCHANGED attempt
HubInit ==
    /\ part \in {"code", "plain", "attempt"}
    /\ Init
    /\ Pi!Init /\ (part # "attempt" => code)
HubNext ==
    \/ part = "code" /\ Next /\ UNCHANGED <<part, attempt>>
    \/ part = "plain" /\ Plain!Next /\ UNCHANGED <<part, attempt>>
    \/ part = "attempt" /\ (Pi!Next \/ Stays) /\ UNCHANGED <<part, vars>>
HubSpec == HubInit /\ [][HubNext]_<<vars, part, attempt>>

\* An Attempt is settled once, after all of it has ended, and by what its trace shows (PiExecution).
SettledByTrace == Pi!SettledByTrace
=============================================================================
