------------------------------ MODULE RoutingLab ------------------------------
(* A routing lab: requests that approved read-only recipes answer at once, a slow     *)
(* fallback for the others, candidates that a replay tests before they are published, *)
(* and engineering work that the fallback hands to another Project's host.            *)
EXTENDS Naturals, FiniteSets

CONSTANTS
    Requests, Recipes, Replays,
    Seeds,              \* the recipes approved when the lab is created
    Validation,         \* the requests that are not learnt from
    Advancers,          \* the host's pump and the callers of /advance
    MaxPending,
    MaxCommands, MaxCrashes,    \* bounds of the model
    None

VARIABLES
    lab,        \* [version, pi, project]: the catalogue's version, the fallback, the bound Project
    recipe,     \* status of each recipe
    request,    \* [st, wants, snap, src, sel, labelled, fb]
    replay,     \* [st, cand, version, snap, cases, judged, by]
    answer,     \* what Jev's connector answered to the calls of requests and replays
    local,      \* what each advancer has read
    change,     \* the dispatch task of each request in the host
    goals,      \* the Goals at the other Project's host
    commands, crashes

vars == <<lab, recipe, request, replay, answer, local, change, goals, commands, crashes>>
----------------------------------------------------------------------------
Calls == Requests \cup (Replays \X Requests)
Active == {r \in Recipes : recipe[r] = "active"}
Pending == {q \in Requests : request[q].st \in {"queued", "routing", "escalated"}}
Unrouted(q) == request[q].st \in {"queued", "routing"}
Fallback(q) == request[q].fb
Running(q) == Fallback(q).st = "running"
NoFallback == [st |-> None, cand |-> None, change |-> None, project |-> FALSE, cases |-> {}, replay |-> None]
Blank == [st |-> None, wants |-> None, snap |-> {}, src |-> None, sel |-> None, labelled |-> FALSE, fb |-> NoFallback]
Empty == [st |-> None, cand |-> None, version |-> 0, snap |-> {}, cases |-> {}, judged |-> {}, by |-> None]

Init ==
    /\ lab = [version |-> 1, pi |-> FALSE, project |-> FALSE]
    /\ recipe = [r \in Recipes |-> IF r \in Seeds THEN "active" ELSE None]
    /\ request = [q \in Requests |-> Blank] /\ replay = [p \in Replays |-> Empty]
    /\ answer = [c \in Calls |-> None] /\ local = [a \in Advancers |-> None]
    /\ change = [q \in Requests |-> None] /\ goals = [q \in Requests |-> 0]
    /\ commands = 0 /\ crashes = 0

Command == commands < MaxCommands /\ commands' = commands + 1
Bumped == lab' = [lab EXCEPT !.version = @ + 1]
Save(q, fields) == request' = [request EXCEPT ![q] = [f \in DOMAIN Blank |-> IF f \in DOMAIN fields THEN fields[f] ELSE @[f]]]
FbSet(q, fields) == Save(q, [fb |-> [f \in DOMAIN NoFallback |-> IF f \in DOMAIN fields THEN fields[f] ELSE Fallback(q)[f]]])
fast == <<answer, local>>
slow == <<change, goals, crashes>>
----------------------------------------------------------------------------
(* The commands of people; each is one transaction with its receipt.                *)

Submit(q, wants) ==
    /\ Command /\ request[q].st = None /\ Cardinality(Pending) < MaxPending
    /\ Save(q, [st |-> "queued", wants |-> wants, snap |-> Active])
    /\ UNCHANGED <<lab, recipe, replay, fast, slow>>

Configure(pi, project) ==
    /\ Command /\ <<pi, project>> # <<lab.pi, lab.project>>
    /\ lab' = [lab EXCEPT !.pi = pi, !.project = project]
    /\ UNCHANGED <<recipe, request, replay, fast, slow>>

Resolve(q) ==
    /\ Command /\ request[q].st = "escalated" /\ ~Running(q)
    /\ Save(q, [st |-> "completed", src |-> "system2"])
    /\ UNCHANGED <<lab, recipe, replay, fast, slow>>

\* a label other than correct pauses the recipe that was chosen
Paused(q) == {r \in Active : r = request[q].sel}
Feedback(q, good) ==
    /\ Command /\ request[q].st # None /\ ~Unrouted(q) /\ ~request[q].labelled /\ ~Running(q)
    /\ IF good THEN Save(q, [labelled |-> TRUE]) /\ UNCHANGED <<lab, recipe>>
       ELSE /\ Save(q, [labelled |-> TRUE, st |-> "escalated"])
            /\ recipe' = [r \in Recipes |-> IF r \in Paused(q) THEN "paused" ELSE recipe[r]]
            /\ IF Paused(q) = {} THEN UNCHANGED lab ELSE Bumped
    /\ UNCHANGED <<replay, fast, slow>>

Pause(r) ==
    /\ Command /\ recipe[r] = "active" /\ recipe' = [recipe EXCEPT ![r] = "paused"] /\ Bumped
    /\ UNCHANGED <<request, replay, fast, slow>>

Propose(r, q) ==
    /\ Command /\ recipe[r] = None /\ request[q].st # None /\ q \notin Validation
    /\ recipe' = [recipe EXCEPT ![r] = "candidate"]
    /\ UNCHANGED <<lab, request, replay, fast, slow>>

\* the cases of a replay, each with the choice a person expects: one that the candidate was
\* not learnt from must expect the candidate
Cases == {q \in Requests : request[q].st # None}
Replayable(p, r, cases) ==
    /\ replay[p].st = None /\ recipe[r] \in {"candidate", "paused"}
    /\ Cardinality(cases) > 1 /\ cases \cap Validation # {}
    /\ \A other \in Replays : replay[other].st # "pending"
Starts(p, r, cases, by) ==
    replay' = [replay EXCEPT ![p] = [st |-> "pending", cand |-> r, version |-> lab.version, snap |-> Active \cup {r}, cases |-> cases, judged |-> {}, by |-> by]]
StartReplay(p, r) ==
    /\ Command /\ Replayable(p, r, Cases) /\ Starts(p, r, Cases, None)
    /\ UNCHANGED <<lab, recipe, request, fast, slow>>

\* mutant: a passed replay serves whatever changed since
PassedOnce(r, p) == recipe[r] \in {"candidate", "paused"} /\ replay[p].cand = r /\ replay[p].st = "passed"
Publishable(r, p) == PassedOnce(r, p) /\ replay[p].version = lab.version
Publish(r, p) ==
    /\ Command /\ Publishable(r, p) /\ recipe' = [recipe EXCEPT ![r] = "active"] /\ Bumped
    /\ UNCHANGED <<request, replay, fast, slow>>
----------------------------------------------------------------------------
(* advance: a thread of the pump, or of a request to the host. It reads, calls the    *)
(* connector and writes in transactions of its own.                                   *)

Look(a, q) ==
    /\ local[a] = None /\ Unrouted(q)
    /\ local' = [local EXCEPT ![a] = [q |-> q, at |-> IF request[q].wants = "jev" /\ request[q].snap # {} THEN "queue" ELSE "finish", sel |->
                 IF request[q].wants \in request[q].snap THEN request[q].wants ELSE None]]
    /\ UNCHANGED <<lab, recipe, request, replay, answer, slow, commands>>

\* connectors.invoke under a key of the request: one call however often it is asked for
Queued(cs) == [c \in Calls |-> IF c \in cs /\ answer[c] = None THEN "queued" ELSE answer[c]]
Queue(a) ==
    /\ local[a] # None /\ local[a].at = "queue" /\ answer' = Queued({local[a].q})
    /\ local' = [local EXCEPT ![a].at = "mark"]
    /\ UNCHANGED <<lab, recipe, request, replay, slow, commands>>

Mark(a) ==
    /\ local[a] # None /\ local[a].at = "mark"
    /\ LET q == local[a].q IN
       IF Unrouted(q) THEN Save(q, [st |-> "routing"]) /\ local' = [local EXCEPT ![a].at = "judge"]
       ELSE UNCHANGED request /\ local' = [local EXCEPT ![a] = None]
    /\ UNCHANGED <<lab, recipe, replay, answer, slow, commands>>

\* _judgement and _choice: a recipe of the snapshot with enough confidence, or none
Chosen(q, c, snap) == IF answer[c] \in snap THEN answer[c] ELSE None
Judge(a) ==
    /\ local[a] # None /\ local[a].at = "judge"
    /\ LET q == local[a].q IN local' = [local EXCEPT ![a] =
       IF answer[q] = "queued" THEN None ELSE [@ EXCEPT !.at = "finish", !.sel = Chosen(q, q, request[q].snap)]]
    /\ UNCHANGED <<lab, recipe, request, replay, answer, slow, commands>>

Executable(q, r) == r \in Active
\* _finish: the query is made, and may fail, within the transaction
Finish(a) ==
    /\ local[a] # None /\ local[a].at = "finish" /\ local' = [local EXCEPT ![a] = None]
    /\ LET q == local[a].q  sel == local[a].sel IN
       \/ ~Unrouted(q) /\ UNCHANGED request
       \/ /\ Unrouted(q) /\ \E st \in IF Executable(q, sel) THEN {"completed", "escalated"} ELSE {"escalated"} :
             Save(q, [st |-> st, src |-> IF answer[q] = None THEN "rule" ELSE "jev", sel |-> sel])
    /\ UNCHANGED <<lab, recipe, replay, answer, slow, commands>>

\* Jev's connector: a choice of the catalogue, or none of them (no confidence, a failed call);
\* of a case only whether it is the expected one
Answer(c) ==
    /\ answer[c] = "queued"
    /\ \E v \in (IF c \in Requests THEN request[c].snap ELSE {"expected"}) \cup {"other"} : answer' = [answer EXCEPT ![c] = v]
    /\ UNCHANGED <<lab, recipe, request, replay, local, slow, commands>>

\* _advance_replays: what is answered now is judged in the copy that was read
CaseCalls(p) == {<<p, q>> : q \in replay[p].cases}
Judged(p) == replay[p].judged \cup {q \in replay[p].cases : answer[<<p, q>>] \notin {None, "queued"}}
ReadReplay(a, p) ==
    /\ local[a] = None /\ replay[p].st = "pending" /\ answer' = Queued(CaseCalls(p))
    /\ local' = [local EXCEPT ![a] = [at |-> "replay", p |-> p, judged |-> Judged(p)]]
    /\ UNCHANGED <<lab, recipe, request, replay, slow, commands>>

AllPassed(p, judged) == \A q \in judged : answer[<<p, q>>] = "expected"
Verdict(p, judged) == IF judged # replay[p].cases THEN "pending" ELSE IF AllPassed(p, judged) THEN "passed" ELSE "failed"
WriteReplay(a) ==
    /\ local[a] # None /\ local[a].at = "replay" /\ local' = [local EXCEPT ![a] = None]
    /\ LET p == local[a].p  judged == local[a].judged IN
       replay' = IF replay[p].st # "pending" THEN replay ELSE [replay EXCEPT ![p].judged = judged, ![p].st = Verdict(p, judged)]
    /\ UNCHANGED <<lab, recipe, request, answer, slow, commands>>
----------------------------------------------------------------------------
(* The slow fallback of the host.                                                   *)

\* the Planner's capacity, one by default
SlotFree == \A q \in Requests : ~Running(q)
Claim(q) ==
    /\ lab.pi /\ request[q].st = "escalated" /\ q \notin Validation /\ Fallback(q) = NoFallback
    /\ SlotFree
    /\ FbSet(q, [st |-> "running", project |-> lab.project])
    /\ UNCHANGED <<lab, recipe, replay, fast, slow, commands>>

\* Pi's answer alone, with a candidate, or with work for the Project it was claimed with
Submissions(q) == {"answer", "open"} \cup {r \in Recipes : recipe[r] = None} \cup (IF Fallback(q).project THEN {"change"} ELSE {})
Complete(q) ==
    /\ Running(q)
    /\ \E sub \in Submissions(q) :
       /\ Save(q, [st |-> IF sub \in {"open", "change"} THEN "escalated" ELSE "completed", src |-> "system2",
                   fb |-> [Fallback(q) EXCEPT !.st = "completed", !.cand = IF sub \in Recipes THEN sub ELSE None,
                                              !.change = IF sub = "change" THEN "pending" ELSE None]])
       /\ recipe' = [r \in Recipes |-> IF r = sub THEN "candidate" ELSE recipe[r]]
    /\ UNCHANGED <<lab, replay, fast, slow, commands>>

Fail(q) ==
    /\ Running(q) /\ FbSet(q, [st |-> "failed"])
    /\ UNCHANGED <<lab, recipe, replay, fast, slow, commands>>

\* the replay of Pi's candidate: its cases are stored first, then it is started under a key
\* of the attempt, then linked
AwaitsReplay(q) == Fallback(q).st = "completed" /\ Fallback(q).cand # None /\ Fallback(q).replay = None
FreezeCases(q) ==
    /\ AwaitsReplay(q) /\ Fallback(q).cases = {} /\ FbSet(q, [cases |-> Cases])
    /\ UNCHANGED <<lab, recipe, replay, fast, slow, commands>>
ReplayCandidate(q, p) ==
    /\ AwaitsReplay(q) /\ Replayable(p, Fallback(q).cand, Fallback(q).cases) /\ \A other \in Replays : replay[other].by # q
    /\ Starts(p, Fallback(q).cand, Fallback(q).cases, q)
    /\ UNCHANGED <<lab, recipe, request, fast, slow, commands>>
LinkReplay(q, p) ==
    /\ AwaitsReplay(q) /\ replay[p].by = q /\ FbSet(q, [replay |-> p])
    /\ UNCHANGED <<lab, recipe, replay, fast, slow, commands>>

\* _claim: a change is dispatched by whoever finds it pending
Dispatch(q) ==
    /\ change[q] = None /\ Fallback(q).st = "completed" /\ Fallback(q).change = "pending"
    /\ FbSet(q, [change |-> "dispatching"]) /\ change' = [change EXCEPT ![q] = "verify"]
    /\ UNCHANGED <<lab, recipe, replay, fast, goals, crashes, commands>>

Changed(q, st) == FbSet(q, [change |-> st]) /\ change' = [change EXCEPT ![q] = None]
\* the Project is still where it was, or nothing is sent
Verified(q) ==
    /\ change[q] = "verify"
    /\ \/ change' = [change EXCEPT ![q] = "send"] /\ UNCHANGED request
       \/ Changed(q, "failed")
    /\ UNCHANGED <<lab, recipe, replay, fast, goals, crashes, commands>>

WhenRaised(started) == IF started THEN "unknown" ELSE "failed"
\* POST goals: it arrives or not, and its answer comes or not
PostGoal(q) ==
    /\ change[q] = "send"
    /\ \/ goals' = [goals EXCEPT ![q] = @ + 1] /\ change' = [change EXCEPT ![q] = "plan"] /\ UNCHANGED request
       \/ goals' = [goals EXCEPT ![q] = @ + 1] /\ Changed(q, WhenRaised(TRUE))
       \/ UNCHANGED goals /\ Changed(q, WhenRaised(TRUE))
    /\ UNCHANGED <<lab, recipe, replay, fast, crashes, commands>>

\* the Goal's identity is saved, the Project verified again, the planning discussed
PostPlan(q) ==
    /\ change[q] = "plan" /\ \E st \in {"waiting", WhenRaised(TRUE)} : Changed(q, st)
    /\ UNCHANGED <<lab, recipe, replay, fast, goals, crashes, commands>>

RecoveredChange(st) == IF st = "dispatching" THEN "unknown" ELSE st
RecoveredFallback(fb) ==
    [fb EXCEPT !.st = IF fb.st = "running" THEN "interrupted" ELSE @, !.change = RecoveredChange(fb.change)]
\* the host is killed; recover runs when it starts again
Restart ==
    /\ crashes < MaxCrashes /\ crashes' = crashes + 1
    /\ change' = [q \in Requests |-> None] /\ local' = [a \in Advancers |-> None]
    /\ request' = [q \in Requests |-> [request[q] EXCEPT !.fb = RecoveredFallback(@)]]
    /\ UNCHANGED <<lab, recipe, replay, answer, goals, commands>>
----------------------------------------------------------------------------
Next ==
    \/ \E q \in Requests, w \in {"jev", "slow"} \cup Recipes : Submit(q, w)
    \/ \E pi, project \in BOOLEAN : Configure(pi, project)
    \/ \E q \in Requests : Resolve(q) \/ Claim(q) \/ Complete(q) \/ Fail(q) \/ FreezeCases(q) \/ Dispatch(q) \/ Verified(q) \/ PostGoal(q) \/ PostPlan(q)
    \/ \E q \in Requests, good \in BOOLEAN : Feedback(q, good)
    \/ \E r \in Recipes : Pause(r) \/ \E q \in Requests : Propose(r, q)
    \/ \E p \in Replays, r \in Recipes : Publish(r, p) \/ StartReplay(p, r)
    \/ \E p \in Replays, q \in Requests : ReplayCandidate(q, p) \/ LinkReplay(q, p)
    \/ \E a \in Advancers : Queue(a) \/ Mark(a) \/ Judge(a) \/ Finish(a) \/ WriteReplay(a)
    \/ \E a \in Advancers : (\E q \in Requests : Look(a, q)) \/ \E p \in Replays : ReadReplay(a, p)
    \/ \E c \in Calls : Answer(c)
    \/ Restart
Spec == Init /\ [][Next]_vars
----------------------------------------------------------------------------
(* Properties.                                                                     *)

\* Whatever is published, two passed replays and pauses in between included: the catalogue
\* it joins is the one a replay tested it with, and Jev answered every case as expected.
PublishedTested == [][\A r \in Recipes : recipe[r] # "active" /\ recipe'[r] = "active" =>
    \E p \in Replays : /\ replay[p].cand = r /\ replay[p].snap = Active \cup {r}
                       /\ \A q \in replay[p].cases : answer[<<p, q>>] = "expected"]_vars

\* A request is answered at once only by a recipe that is active when it is executed and was
\* in the catalogue the request was made with; the recipe of a wrong answer is out of use.
FastAnswers == [][\A q \in Requests :
    /\ Unrouted(q) /\ request'[q].st = "completed" => request'[q].sel \in request[q].snap \cap Active
    /\ ~request[q].labelled /\ request'[q].labelled /\ request'[q].st = "escalated" /\ request[q].st = "completed" /\ request[q].src \in {"rule", "jev"}
         => recipe'[request[q].sel] # "active"]_vars

\* The other Project gets at most one Goal for a request, however the handoff ends or is cut
\* off, none when it is said to have failed, and one when it is said to wait.
HandoffTrue == \A q \in Requests :
    /\ goals[q] <= 1
    /\ Fallback(q).change = "failed" => goals[q] = 0
    /\ Fallback(q).change = "waiting" => goals[q] = 1

\* What a lab publishes was tested, what it answers at once is approved, and what it hands over
\* is handed over once: the three above.
RoutingHolds == PublishedTested /\ FastAnswers /\ []HandoffTrue
=============================================================================
