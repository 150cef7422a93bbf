------------------------------ MODULE MCRoutines ------------------------------
(* What goes on without a person at the screen: the readers of the event log, a       *)
(* routine that schedulers start, and a workflow a project defined. `part` says which  *)
(* of them a behaviour follows.                                                        *)
EXTENDS EventConsumers, TLC
CONSTANTS
    h, g, a, c, w, e,           \* steps of a definition: persons, a write, a condition, a wait, an end
    Schedulers, People, Editors, Interval, Late, MaxTime, MaxRuns, MaxSteps, MaxEdits, MaxSends,   \* of LifeWorkflows
    Dues, Stopped,              \* the times a person sets a routine to, and the workflows one is switched off with
    None
ASSUME RoutineAssumption ==
    /\ Interval \in Nat \ {0} /\ Dues \subseteq Nat /\ Stopped \subseteq {"life.review", "custom"}
    /\ None \notin Nat /\ None \notin {"decide", "update_routine", "updated", "approve", "reject", "waiting", "resolved"}
VARIABLES part, clock, routine, runs, scheduler, command, receipt, definition, run, call, seen
----------------------------------------------------------------------------
(* The definitions somebody sends.                                                 *)

Body(start, to, approval, reads) ==
    [start |-> start, to |-> to, approval |-> approval, reads |-> [s \in DOMAIN to |-> IF s \in DOMAIN reads THEN reads[s] ELSE {}]]

\* a person and a write, any way round; loops and missing approvals among them
OnePerson == {Body(s, (h :> <<p, q, t>>) @@ (a :> <<n>>) @@ (e :> <<>>), x, a :> y) :
    s \in {h, a}, p \in {h, a, e}, q \in {h, a, e}, t \in {a, e, None}, n \in {h, e}, x \in {None, h}, y \in {{}, {h}}}
\* two persons
TwoPersons == {Body(s, (h :> <<p, q, t>>) @@ (g :> <<k, d, None>>) @@ (a :> <<n>>) @@ (e :> <<>>), x, a :> y) :
    s \in {h, g}, p \in {g, a, e}, q \in {g, a, e}, t \in {g, a, None}, k \in {h, a, e}, d \in {h, a, e}, n \in {g, e}, x \in {None, h, g}, y \in {{}, {h}, {g}}}
\* a condition before or after the person
WithCondition == {Body(s, (h :> <<p, q, None>>) @@ (c :> <<k, d>>) @@ (a :> <<n>>) @@ (e :> <<>>), x, (a :> y) @@ (c :> z)) :
    s \in {h, c}, p \in {c, a}, q \in {c, a, e}, k \in {h, a}, d \in {h, a, e}, n \in {c, e}, x \in {None, h}, y \in {{}, {h}, {c}}, z \in {{}, {h}, {a}}}
\* a time to wait for
WithWait == {Body(w, (h :> <<p, e, t>>) @@ (w :> <<h>>) @@ (a :> <<e>>) @@ (e :> <<>>), x, (a :> {w}) @@ (h :> y)) :
    p \in {a, e}, t \in {a, e}, x \in {None, h}, y \in {{}, {w}, {a}}}
Sent == OnePerson \cup TwoPersons \cup WithCondition \cup WithWait
----------------------------------------------------------------------------
\* what a person changes a routine to: another workflow, a time that may be past, no more starts
Changes == [workflow : {"life.review", "custom"}, due : Dues, enabled : {TRUE}] \cup [workflow : Stopped, due : Dues, enabled : {FALSE}]

Life == INSTANCE LifeWorkflows WITH Updates <- Changes
life == <<clock, routine, runs, scheduler, command, receipt>>
Custom == INSTANCE CustomWorkflows WITH
    Humans <- {h, g}, Actions <- {a}, Conditions <- {c}, Waits <- {w}, Ends <- {e}, Bodies <- Sent, Runs <- {"r"}
custom == <<definition, run, call, seen>>

\* the routine of a behaviour that does not follow it
Still == routine.workflow = "custom" /\ routine.policy = "skip"
RoutinesInit == part \in {"events", "life", "custom"} /\ Init /\ Life!Init /\ Custom!Init /\ (part # "life" => Still)
RoutinesNext ==
    \/ part = "events" /\ Next /\ UNCHANGED <<part, life, custom>>
    \/ part = "life" /\ Life!Next /\ UNCHANGED <<part, vars, custom>>
    \/ part = "custom" /\ Custom!Next /\ UNCHANGED <<part, vars, life>>
RoutinesSpec == RoutinesInit /\ [][RoutinesNext]_<<part, vars, life, custom>>
Symmetry == Permutations(Schedulers)

\* Occurrences, Runs and decisions of a routine do not repeat (LifeWorkflows).
LifeHolds == Life!LifeHolds
\* No definition that was validated leads a Run astray (CustomWorkflows).
CustomHolds == Custom!CustomHolds
=============================================================================
