------------------------------ MODULE MCRequests ------------------------------
(* Three things a client asks for that a model, a person or a provider settles later: *)
(* a decision on a note, a request to a routing lab, a call to a connector. `part`     *)
(* says which of them a behaviour follows.                                             *)
EXTENDS NoteDecisions, TLC
CONSTANTS
    Requests, Recipes, Replays, Seeds, Validation, Advancers, MaxPending, MaxCommands, MaxRestarts,
    MaxCalls, Creates, Bridges, MaxAsks, MaxDeaths     \* of ConnectorCalls
ASSUME RoutingAssumption ==
    /\ Seeds \subseteq Recipes /\ {MaxPending, MaxCommands, MaxRestarts} \subseteq Nat
    /\ Recipes \cap {"answer", "open", "change"} = {}
    /\ None \notin Recipes \cup {"queued", "routing", "escalated", "completed", "candidate", "active", "paused",
           "running", "pending", "passed", "failed", "expected", "verify", "send", "plan", "dispatching", "waiting", "unknown", "interrupted"}
    /\ None \notin [q : Requests, at : {"queue", "mark", "judge", "finish"}, sel : Recipes \cup {None}]
ASSUME ConnectorAssumption ==
    /\ MaxCalls \in Nat /\ Creates \subseteq 1..MaxCalls
    /\ None \notin Bridges \cup {"queued", "claimed", "unknown", "completed", "failed", "execute", "reconcile"}
    /\ None \notin [call : 1..MaxCalls, no : Nat, st : {"completed", "failed", "unknown"}]
    /\ None \notin [call : 1..MaxCalls, report : {None} \cup [call : 1..MaxCalls, no : Nat, st : {"completed", "failed", "unknown"}]]
VARIABLES part, lab, recipe, request, replay, answer, local, change, goals, commands, restarts,
    call, delivered, results, received, remote, posts, pending, bridge, reports, asks, deaths

Routing == INSTANCE RoutingLab WITH crashes <- restarts, MaxCrashes <- MaxRestarts
routing == <<lab, recipe, request, replay, answer, local, change, goals, commands, restarts>>
Connector == INSTANCE ConnectorCalls WITH sent <- results, crashes <- deaths, MaxCrashes <- MaxDeaths
connector == <<call, delivered, results, received, remote, posts, pending, bridge, reports, asks, deaths>>

\* a new lab, or one with a fallback that two requests were forced to; the last also with a
\* Project to change, where the host may be killed, and with fewer commands left
Escalated(q) == [Routing!Blank EXCEPT !.st = "escalated", !.wants = "slow", !.snap = Seeds, !.src = "rule"]
Later(project) ==
    /\ lab = [version |-> 1, pi |-> TRUE, project |-> project]
    /\ request = [q \in Requests |-> Escalated(q)]
    /\ commands = 1 /\ restarts = IF project THEN 0 ELSE MaxRestarts
New ==
    /\ lab = [version |-> 1, pi |-> FALSE, project |-> FALSE]
    /\ request = [q \in Requests |-> Routing!Blank]
    /\ commands = 0 /\ restarts = MaxRestarts
RoutingInit ==
    /\ New \/ (part = "routing" /\ \E project \in BOOLEAN : Later(project))
    /\ recipe = [r \in Recipes |-> IF r \in Seeds THEN "active" ELSE None]
    /\ replay = [p \in Replays |-> Routing!Empty] /\ answer = [c \in Routing!Calls |-> None]
    /\ local = [a \in Advancers |-> None]
    /\ change = [q \in Requests |-> None] /\ goals = [q \in Requests |-> 0]

RequestsInit == part \in {"notes", "routing", "connector"} /\ Init /\ RoutingInit /\ Connector!Init
RequestsNext ==
    \/ part = "notes" /\ Next /\ UNCHANGED <<part, routing, connector>>
    \/ part = "routing" /\ Routing!Next /\ UNCHANGED <<part, vars, connector>>
    \/ part = "connector" /\ Connector!Next /\ UNCHANGED <<part, vars, routing>>
RequestsSpec == RequestsInit /\ [][RequestsNext]_<<part, vars, routing, connector>>

\* A lab publishes, answers and hands over what it may (RoutingLab).
RoutingHolds == Routing!RoutingHolds
\* A call is made once, and its outcome told as it was (ConnectorCalls).
CallsHold == Connector!CallsHold
=============================================================================
