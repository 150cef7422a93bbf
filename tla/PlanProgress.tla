---------------------------- MODULE PlanProgress ----------------------------
(***************************************************************************)
(* What EHAI promises about an approved plan while a Run executes it: the  *)
(* nodes are worked on in dependency order and only while the Run runs,    *)
(* what has been accepted stays accepted, work that was given up may be    *)
(* begun again, and the Run is completed exactly by its last acceptance.   *)
(* How Attempts, tasks, claims, checks and people bring this about is left *)
(* to RunExecution.                                                        *)
(***************************************************************************)
CONSTANTS Nodes, Deps

VARIABLES
    status,   \* the status of the Run
    done,     \* the nodes whose result was accepted
    busy      \* the nodes with an execution or a result without a verdict

vars == <<status, done, busy>>

Over == {"completed", "failed", "cancelled"}

Init == status = "pending" /\ done = {} /\ busy = {}

\* the host takes the Run up
Launch ==
    /\ status = "pending" /\ status' = "running"
    /\ UNCHANGED <<done, busy>>

\* an execution of n begins
Begin(n) ==
    /\ status = "running" /\ n \notin done \cup busy /\ Deps[n] \subseteq done
    /\ busy' = busy \cup {n}
    /\ UNCHANGED <<status, done>>

\* the result of n is accepted; the last acceptance completes the Run
Finish(n) ==
    /\ n \in busy
    /\ done' = done \cup {n} /\ busy' = busy \ {n}
    /\ \/ done' # Nodes /\ UNCHANGED status
       \/ done' = Nodes /\ status = "running" /\ status' = "completed"

\* executions or results are given up: retried, blocked, rejected or unknown
GiveUp(S) ==
    /\ S # {} /\ busy' = busy \ S
    /\ UNCHANGED <<status, done>>

\* the Run stops, on its own or on a command, and some work may be given up with it
Stop(S) ==
    /\ status \notin Over /\ status' \in {"paused", "failed", "cancelled"}
    /\ busy' = busy \ S
    /\ UNCHANGED done

\* the operator resumes the Run
Resume ==
    /\ status = "paused" /\ status' = "running"
    /\ UNCHANGED <<done, busy>>

Next ==
    \/ Launch \/ Resume
    \/ \E n \in Nodes : Begin(n) \/ Finish(n)
    \/ \E S \in SUBSET busy : GiveUp(S) \/ Stop(S)

Spec == Init /\ [][Next]_vars
=============================================================================
