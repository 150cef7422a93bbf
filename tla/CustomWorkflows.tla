--------------------------- MODULE CustomWorkflows ---------------------------
(* The workflows a project defines: the validation of a definition, and the engine    *)
(* that takes a Run through its steps. The engine's loop over synchronous steps is    *)
(* one transaction; a Run is "running" only inside it.                                *)
EXTENDS Naturals, FiniteSets, Functions, SequencesExt

CONSTANTS
    Humans, Actions, Conditions, Waits, Ends,   \* step ids, by type
    Bodies,         \* the definitions somebody may send
    Runs,
    None

\* [start, to, approval, reads]: to[s] = what s leads to: <<approve, reject, timeout>>,
\* <<next>>, <<case, default>> or nothing; approval: the step that approves the write,
\* None for a standing one; reads[s]: the steps whose output s refers to
VARIABLES
    definition,     \* the revision that was saved
    run,            \* [st, at, version, done, decided, error]
    call,           \* of each Run: its connector call, [st, known]; known: the invocation has it
    seen            \* what a person looks at: [at, version]

vars == <<definition, run, call, seen>>
----------------------------------------------------------------------------
(* validate_definition.                                                            *)

Steps(b) == DOMAIN b.to
Successors(b, s) == Range(b.to[s]) \ {None}
Edges(b) == {e \in Steps(b) \X Steps(b) : e[2] \in Successors(b, e[1])}

\* what a depth-first walk from s meets
Met(b, s) ==
    LET within[n \in Nat] == IF n = 0 THEN {s} ELSE within[n - 1] \cup UNION {Successors(b, x) \cap Steps(b) : x \in within[n - 1]}
    IN within[Cardinality(Steps(b))]
StepsExist(b) == b.start \in Steps(b) /\ \A s \in Steps(b) : Successors(b, s) \subseteq Steps(b)
NoLoops(b) == \A s \in Steps(b) : \A t \in Successors(b, s) : s \notin Met(b, t)
AllReached(b) == Steps(b) \subseteq Met(b, b.start)

\* the steps on every path from start, by their predecessors
Dominators(b) ==
    LET dom[s \in Steps(b)] == {s} \cup {x \in Steps(b) : /\ \E e \in Edges(b) : e[2] = s
                                                          /\ \A e \in Edges(b) : e[2] = s => x \in dom[e[1]]}
    IN dom
RefsInOrder(b) == \A s \in Steps(b) : \A x \in b.reads[s] : x # s /\ x \in Dominators(b)[s] /\ x \notin Ends

\* mutant: a timeout is forgotten among the exits that do not approve
RefusalsButTimeout(b) == {b.to[b.approval][2]}
Refusals(b) == {b.to[b.approval][2], b.to[b.approval][3]} \ {None}
ActionAllowed(b, a) == b.approval # None =>
    /\ b.approval \in Humans \cap Dominators(b)[a]
    /\ \A x \in Refusals(b) : a \notin Met(b, x)

Readable(b) == RefsInOrder(b)
Valid(b) ==
    /\ StepsExist(b) /\ NoLoops(b) /\ AllReached(b)
    /\ Readable(b) /\ \A a \in Steps(b) \cap Actions : ActionAllowed(b, a)
----------------------------------------------------------------------------
Init ==
    /\ definition = None
    /\ run = [r \in Runs |-> [st |-> None, at |-> None, version |-> 0, done |-> {}, decided |-> <<>>, error |-> None]]
    /\ call = [r \in Runs |-> [st |-> None, known |-> FALSE]] /\ seen = [r \in Runs |-> None]

Running(r) == run[r].st = "running"
WaitingAt(r, kind) == run[r].st = "waiting" /\ run[r].at \in kind
To(s) == definition.to[s]
Set(r, u) == run' = [run EXCEPT ![r] = u @@ run[r]]
\* the step is completed and the Run enters the next one
Enters(r, s) == Set(r, [st |-> "running", at |-> s, done |-> run[r].done \cup {run[r].at}])
\* the same at the start of a transaction, which commits with a new version
Resumes(r, s) == Set(r, [st |-> "running", at |-> s, done |-> run[r].done \cup {run[r].at}, version |-> run[r].version + 1])
Fails(r, why) == Set(r, [st |-> "failed", error |-> why])

SaveDefinition(b) ==
    /\ definition = None /\ Valid(b) /\ definition' = b
    /\ UNCHANGED <<run, call, seen>>

StartCustom(r) ==
    /\ definition # None /\ run[r].st = None
    /\ Set(r, [st |-> "running", at |-> definition.start, version |-> 1])
    /\ UNCHANGED <<definition, call, seen>>
----------------------------------------------------------------------------
(* enter: the steps of one transaction.                                            *)

\* the step begins once every reference is bound; one that is not fails the Run
Bound(r) == definition.reads[run[r].at] \subseteq run[r].done
Begins(r, kind, step) ==
    /\ Running(r) /\ run[r].at \in kind
    /\ IF Bound(r) THEN step ELSE Fails(r, "reference") /\ UNCHANGED call
    /\ UNCHANGED <<definition, seen>>

\* the first case that holds, or the default; values that cannot be ordered fail the Run
Select(r) == Begins(r, Conditions,
    ((\E s \in Range(To(run[r].at)) : Enters(r, s)) \/ Fails(r, "condition")) /\ UNCHANGED call)

End(r) == Begins(r, Ends, Set(r, [st |-> "completed", done |-> run[r].done \cup {run[r].at}]) /\ UNCHANGED call)

\* the intent and the call are stored together; the connector may not take it any more
StartAction(r) == Begins(r, Actions,
    \/ Set(r, [st |-> "waiting"]) /\ call' = [call EXCEPT ![r].st = "queued"]
    \/ Fails(r, "connector") /\ UNCHANGED call)

StartHuman(r) == Begins(r, Humans, Set(r, [st |-> "waiting"]) /\ UNCHANGED call)

\* a time that has passed does not wait; one that is none fails the Run
StartWait(r) == Begins(r, Waits,
    (Set(r, [st |-> "waiting"]) \/ Enters(r, To(run[r].at)[1]) \/ Fails(r, "time")) /\ UNCHANGED call)
----------------------------------------------------------------------------
(* poll: what a tick finds.                                                        *)

Answered(r) ==
    /\ WaitingAt(r, Actions) /\ call[r].st = "completed" /\ Resumes(r, To(run[r].at)[1])
    /\ UNCHANGED <<definition, call, seen>>
NotDone(r) ==
    /\ WaitingAt(r, Actions) /\ call[r].st = "failed"
    /\ Set(r, [st |-> "failed", error |-> "call", version |-> run[r].version + 1])
    /\ UNCHANGED <<definition, call, seen>>
\* the Run goes on waiting; a person may ask for a reconciliation
Unknown(r) ==
    /\ WaitingAt(r, Actions) /\ call[r].st = "unknown" /\ ~call[r].known
    /\ call' = [call EXCEPT ![r].known = TRUE] /\ Set(r, [version |-> run[r].version + 1])
    /\ UNCHANGED <<definition, seen>>
Timeout(r) ==
    /\ WaitingAt(r, Humans) /\ To(run[r].at)[3] # None /\ Resumes(r, To(run[r].at)[3])
    /\ UNCHANGED <<definition, call, seen>>
Fires(r) ==
    /\ WaitingAt(r, Waits) /\ Resumes(r, To(run[r].at)[1])
    /\ UNCHANGED <<definition, call, seen>>

\* the connector's process, as ConnectorCalls has it
CallMoves(r) ==
    /\ <<call[r].st, call'[r].st>> \in {<<"queued", "claimed">>, <<"unknown", "claimed">>} \cup ({"claimed", "unknown"} \X {"completed", "failed", "unknown"})
    /\ UNCHANGED <<definition, run, seen>>
MoveCall(r) == (\E s \in {"claimed", "completed", "failed", "unknown"} : call' = [call EXCEPT ![r].st = s]) /\ CallMoves(r)
----------------------------------------------------------------------------
(* A person reads the Run, and decides later on what was read.                     *)

Look(r) ==
    /\ WaitingAt(r, Humans) /\ seen' = [seen EXCEPT ![r] = [at |-> run[r].at, version |-> run[r].version]]
    /\ UNCHANGED <<definition, run, call>>

Current(r) == run[r].version = seen[r].version
DecideStep(r, d) ==
    /\ seen[r] # None /\ Current(r) /\ WaitingAt(r, Humans)
    /\ Set(r, [st |-> "running", at |-> To(run[r].at)[IF d = "approve" THEN 1 ELSE 2], version |-> run[r].version + 1,
               done |-> run[r].done \cup {run[r].at}, decided |-> Append(run[r].decided, [of |-> run[r].at, as |-> d, meant |-> seen[r].at])])
    /\ UNCHANGED <<definition, call, seen>>
----------------------------------------------------------------------------
Next ==
    \/ \E b \in Bodies : SaveDefinition(b)
    \/ \E r \in Runs :
        \/ StartCustom(r) \/ Select(r) \/ End(r) \/ StartAction(r) \/ StartHuman(r) \/ StartWait(r)
        \/ Answered(r) \/ NotDone(r) \/ Unknown(r) \/ Timeout(r) \/ Fires(r) \/ MoveCall(r) \/ Look(r)
        \/ \E d \in {"approve", "reject"} : DecideStep(r, d)
Spec == Init /\ [][Next]_vars
----------------------------------------------------------------------------
(* Properties.                                                                     *)

\* Of every definition that validation admits: a write that needs an approval is queued
\* only in a Run in which that step was approved.
WritesApproved == \A r \in Runs : call[r].st # None /\ definition.approval # None =>
    \E i \in DOMAIN run[r].decided : run[r].decided[i].of = definition.approval /\ run[r].decided[i].as = "approve"

\* Of every definition that validation admits: no path leads to a step that refers to one
\* that has not run.
RefsBound == \A r \in Runs : run[r].error # "reference"

\* A decision is taken by the step the person read, although the Run goes on meanwhile.
DecisionsMeant == \A r \in Runs : \A i \in DOMAIN run[r].decided : run[r].decided[i].meant = run[r].decided[i].of

\* A definition that was validated cannot lead a Run astray: the three above.
CustomHolds == WritesApproved /\ RefsBound /\ DecisionsMeant
=============================================================================
