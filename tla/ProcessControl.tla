---------------------------- MODULE ProcessControl ----------------------------
(* Process revisions of one Run: drafts by a planner, independent reviews, the     *)
(* publication of a reviewed candidate while the Run is paused and drained, and   *)
(* the coordinators that do all of it, and resume, after an automatic pause.      *)
EXTENDS Naturals, Sequences, FiniteSets

CONSTANTS
    Nodes,
    Hosts,          \* processes with a coordinator: the server, a foreground session
    Budget,         \* max_per_goal of the policy; 0: adjustments are not authorized
    MaxControls, MaxAttempts, MaxDrafts, MaxReviews, MaxCrashes

VARIABLES
    run,        \* [status, current]: current while the Goal has the contract of its plan
    controls,   \* control events in order; the number of an event is its identity
    plan,       \* execution plan: [rev, node]; a node is [status, since] its revision
    attempts,   \* by sequence: [node, since, rev, status]
    asks,       \* attempts with a pending human check
    drafts,     \* [base, trigger, replaces, status, by]
    reviews,    \* [draft, preserves, status, by]
    revisions,  \* what was published: [draft, review, over, after, trigger]
    facts,      \* adjustment events: [kind, trigger]
    hosts,      \* coordinators: [pc, pending, cursor, dropped, trigger, parent, draft, review]
    crashes

vars == <<run, controls, plan, attempts, asks, drafts, reviews, revisions, facts, hosts, crashes>>
execution == <<plan, attempts, asks>>
process == <<drafts, reviews, revisions>>
----------------------------------------------------------------------------
Latest == Len(controls)
Eligible(t) == controls[t] = "auto"
Open == run.status \in {"running", "paused"}
Active == \E a \in DOMAIN attempts : attempts[a].status = "running"
InStatus(S) == {n \in Nodes : plan.node[n].status \in S}
\* attempts of the node as it is in the present plan, and the last of them
AttemptsOf(n) == {a \in DOMAIN attempts : attempts[a].node = n /\ attempts[a].since = plan.node[n].since}
LastOf(n) == CHOOSE a \in AttemptsOf(n) : \A b \in AttemptsOf(n) : b <= a
FailedWithResult == {n \in InStatus({"failed"}) : attempts[LastOf(n)].status = "succeeded"}

Control(kind) == Len(controls) < MaxControls /\ controls' = Append(controls, kind)
Has(kinds, t) == \E f \in DOMAIN facts : facts[f].kind \in kinds /\ facts[f].trigger = t
Ended(t) == Has({"finished", "skipped"}, t)
Starts == Cardinality({f \in DOMAIN facts : facts[f].kind = "started"})
Fact(kind, t) == facts' = Append(facts, [kind |-> kind, trigger |-> t])
At(h, changes) == hosts' = [hosts EXCEPT ![h] = [x \in DOMAIN @ |-> IF x \in DOMAIN changes THEN changes[x] ELSE @[x]]]
Goes(h, pc) == hosts' = [hosts EXCEPT ![h].pc = pc]

SetNode(n, status) == plan' = [plan EXCEPT !.node[n].status = status]
SetAttempt(a, status) == attempts' = [attempts EXCEPT ![a].status = status]
----------------------------------------------------------------------------
(* Execution, as far as a process depends on it. *)
Dispatch(n) ==
    /\ run.status = "running" /\ plan.node[n].status = "waiting"
    /\ Len(attempts) < MaxAttempts
    /\ attempts' = Append(attempts, [node |-> n, since |-> plan.node[n].since, rev |-> plan.rev, status |-> "running"])
    /\ SetNode(n, "running")
    /\ UNCHANGED <<run, controls, asks, process, facts, hosts, crashes>>

\* the result of an attempt is checked while the Run is running, and kept while it is not
Succeed(a) ==
    LET n == attempts[a].node IN
    /\ attempts[a].status = "running"
    /\ SetAttempt(a, "succeeded")
    /\ \/ run.status = "running" /\ SetNode(n, "verifying") /\ asks' = asks \cup {a}
       \/ SetNode(n, "candidate") /\ UNCHANGED asks
    /\ UNCHANGED <<run, controls, process, facts, hosts, crashes>>

\* pausing or stopping interrupts an attempt; a worker that fails pauses the Run for people
Interrupt(a) ==
    /\ attempts[a].status = "running" /\ run.status # "running"
    /\ SetAttempt(a, "interrupted") /\ SetNode(attempts[a].node, "failed")
    /\ UNCHANGED <<run, controls, asks, process, facts, hosts, crashes>>
WorkerFails(a) ==
    /\ attempts[a].status = "running" /\ run.status = "running"
    /\ SetAttempt(a, "failed") /\ SetNode(attempts[a].node, "failed")
    /\ run' = [run EXCEPT !.status = "paused"] /\ Control("hold")
    /\ UNCHANGED <<asks, process, facts, hosts, crashes>>

\* a person decides, in a Run of any status
Answer(a) ==
    /\ a \in asks /\ asks' = asks \ {a}
    /\ SetNode(attempts[a].node, "candidate")
    /\ UNCHANGED <<run, controls, attempts, process, facts, hosts, crashes>>

\* a Gate passes, or the last branch fails or a reviewer asks for rework: an automatic pause
Settle(n) ==
    /\ run.status = "running" /\ plan.node[n].status = "candidate"
    /\ \/ SetNode(n, "completed") /\ UNCHANGED <<run, controls>>
       \/ SetNode(n, "failed") /\ run' = [run EXCEPT !.status = "paused"] /\ Control("auto")
    /\ UNCHANGED <<attempts, asks, process, facts, hosts, crashes>>

Complete ==
    /\ run.status = "running" /\ InStatus({"completed"}) = Nodes
    /\ run' = [run EXCEPT !.status = "done"] /\ Control("done")
    /\ UNCHANGED <<execution, process, facts, hosts, crashes>>
----------------------------------------------------------------------------
(* Commands of users, of any host or of a process of their own. *)
\* an operator's pause of a paused Run is a control event of its own
Pause ==
    /\ Open /\ ~Active
    /\ run' = [run EXCEPT !.status = "paused"] /\ Control("operator")
    /\ UNCHANGED <<execution, process, facts, hosts, crashes>>

\* what was interrupted is tried again; a result that failed its Gate is not
ResumeRun(kind) ==
    /\ run.status = "paused" /\ run.current
    /\ FailedWithResult = {}
    /\ run' = [run EXCEPT !.status = "running"] /\ Control(kind)
    /\ plan' = [plan EXCEPT !.node = [n \in Nodes |->
           IF plan.node[n].status = "failed" THEN [plan.node[n] EXCEPT !.status = "waiting"] ELSE plan.node[n]]]
    /\ UNCHANGED <<attempts, asks>>
Resume == ResumeRun("resumed") /\ UNCHANGED <<process, facts, hosts, crashes>>

\* another contract is approved for the Goal while the Run is paused
Supersede ==
    /\ run.status = "paused" /\ run' = [run EXCEPT !.current = FALSE]
    /\ UNCHANGED <<controls, execution, process, facts, hosts, crashes>>
----------------------------------------------------------------------------
(* Drafts and reviews: a model works between two transactions. *)
NewDraft(h, t) ==
    /\ Open /\ Len(drafts) < MaxDrafts
    /\ drafts' = Append(drafts, [base |-> plan, trigger |-> t, replaces |-> {}, status |-> "planning", by |-> h])
    /\ UNCHANGED <<reviews, revisions>>
Propose(h) == NewDraft(h, 0) /\ UNCHANGED <<run, controls, execution, facts, hosts, crashes>>
EndDraft(d) ==
    /\ drafts[d].status = "planning" /\ drafts[d].by \in Hosts
    /\ \/ \E S \in (SUBSET Nodes) \ {{}} : drafts' = [drafts EXCEPT ![d].status = "ready", ![d].replaces = S]
       \/ drafts' = [drafts EXCEPT ![d].status = "failed"]
    /\ UNCHANGED <<run, controls, execution, reviews, revisions, facts, hosts, crashes>>

\* mutant: only the revision is compared, not what was done since
ParentOnly(d) == drafts[d].base.rev = plan.rev
\* load_process_review_context, and once more in publish_process_revision
Unchanged(d) == drafts[d].base = plan
InContext(d) == drafts[d].status = "ready" /\ Open /\ run.current /\ Unchanged(d)
NewReview(h, d) ==
    /\ InContext(d) /\ Len(reviews) < MaxReviews
    /\ reviews' = Append(reviews, [draft |-> d, preserves |-> FALSE, status |-> "reviewing", by |-> h])
    /\ UNCHANGED <<drafts, revisions>>
Review(h, d) == NewReview(h, d) /\ UNCHANGED <<run, controls, execution, facts, hosts, crashes>>
EndReview(r) ==
    /\ reviews[r].status = "reviewing" /\ reviews[r].by \in Hosts
    /\ \/ \E ok \in BOOLEAN : reviews' = [reviews EXCEPT ![r].status = "completed", ![r].preserves = ok]
       \/ reviews' = [reviews EXCEPT ![r].status = "failed"]
    /\ UNCHANGED <<run, controls, execution, drafts, revisions, facts, hosts, crashes>>

\* unresolved work stays as it is
KeepsWork(S) == InStatus({"running"}) = {} /\ S \cap InStatus({"candidate", "verifying"}) = {}
MayApply(r) ==
    LET d == reviews[r].draft IN
    /\ reviews[r].status = "completed" /\ reviews[r].preserves
    /\ InContext(d) /\ run.status = "paused"
    /\ ~Active /\ KeepsWork(drafts[d].replaces)
\* what is kept is kept as it is; a changed task is a node of its own, which nothing was done for
Members(S) == [n \in Nodes |->
    IF n \in S THEN [status |-> "waiting", since |-> plan.rev + 1] ELSE plan.node[n]]
Publish(r, t) ==
    LET d == reviews[r].draft IN
    /\ MayApply(r)
    /\ plan' = [rev |-> plan.rev + 1, node |-> Members(drafts[d].replaces)]
    /\ revisions' = Append(revisions, [draft |-> d, review |-> r, over |-> plan, after |-> Latest, trigger |-> t])
    /\ UNCHANGED <<attempts, asks, drafts, reviews>>
Apply(r) == Publish(r, 0) /\ UNCHANGED <<run, controls, facts, hosts, crashes>>
----------------------------------------------------------------------------
(* A coordinator. *)
\* pending_run_ids: the events since the cursor decide which pause is pending
Consumed(h) ==
    IF hosts[h].cursor < Latest THEN IF Eligible(Latest) THEN Latest ELSE 0 ELSE hosts[h].pending
Discover(h) ==
    LET t == IF Consumed(h) = 0 \/ Has({"started"}, Consumed(h)) \/ Ended(Consumed(h)) THEN 0 ELSE Consumed(h) IN
    /\ hosts[h].pc = "idle"
    /\ At(h, [cursor |-> Latest, pending |-> t,
              pc |-> IF t # 0 /\ run.status = "paused" THEN "spawned" ELSE "idle"])
    /\ UNCHANGED <<run, controls, execution, process, facts, crashes>>

Authorized == Starts < Budget
OpenCheck == asks # {}
Unsafe == Active \/ OpenCheck \/ \E n \in InStatus({"failed"}) :
              n \notin FailedWithResult \/ attempts[LastOf(n)].rev # plan.rev
Startable == run.status = "paused" /\ Eligible(Latest) /\ ~Ended(Latest)
NotStarted == ~Has({"started"}, Latest)
Prepare(h) ==
    /\ hosts[h].pc = "spawned"
    /\ IF ~(Startable /\ NotStarted) THEN Goes(h, "idle") /\ UNCHANGED facts
       ELSE IF ~run.current \/ ~Authorized \/ (Unsafe /\ ~Active /\ ~OpenCheck)
       THEN Goes(h, "idle") /\ Fact("skipped", Latest)
       ELSE IF Unsafe THEN Goes(h, "idle") /\ UNCHANGED facts
       ELSE /\ Fact("started", Latest)
            /\ At(h, [pc |-> "started", trigger |-> Latest, parent |-> plan.rev, draft |-> 0, review |-> 0])
    /\ UNCHANGED <<run, controls, execution, process, crashes>>

\* require_process_control: the pause observed is still the latest control, the process the active one
Guarded(h, rev) == run.status = "paused" /\ ~Active /\ Latest = hosts[h].trigger /\ plan.rev = rev
Step(h, from, done) == hosts[h].pc = from /\ done /\ UNCHANGED <<run, controls, facts, crashes>>
Gives(h, from, why) ==
    hosts[h].pc = from /\ why /\ Goes(h, "ending") /\ UNCHANGED <<run, controls, execution, process, facts, crashes>>

ProposeAuto(h) ==
    \/ Step(h, "started", /\ NewDraft(h, hosts[h].trigger) /\ UNCHANGED execution
                          /\ At(h, [pc |-> "proposing", draft |-> Len(drafts) + 1]))
    \/ Gives(h, "started", ~Open)
DraftOf(h) == drafts[hosts[h].draft]
RecheckDraft(h) ==
    \/ Step(h, "proposing", /\ DraftOf(h).status = "ready"
                            /\ Guarded(h, hosts[h].parent) /\ ~Unsafe
                            /\ Goes(h, "drafted") /\ UNCHANGED <<execution, process>>)
    \/ Gives(h, "proposing", \/ DraftOf(h).status = "failed"
                             \/ DraftOf(h).status = "ready" /\ (~Guarded(h, hosts[h].parent) \/ Unsafe))
ReviewAuto(h) ==
    \/ Step(h, "drafted", /\ NewReview(h, hosts[h].draft) /\ UNCHANGED execution
                          /\ At(h, [pc |-> "reviewing", review |-> Len(reviews) + 1]))
    \/ Gives(h, "drafted", ~InContext(hosts[h].draft))
ReviewOf(h) == reviews[hosts[h].review]
RecheckReview(h) ==
    LET good == ReviewOf(h).preserves /\ Guarded(h, hosts[h].parent) /\ ~Unsafe IN
    \/ Step(h, "reviewing", /\ ReviewOf(h).status = "completed" /\ good
                            /\ Goes(h, "reviewed") /\ UNCHANGED <<execution, process>>)
    \/ Gives(h, "reviewing", \/ ReviewOf(h).status = "failed"
                             \/ ReviewOf(h).status = "completed" /\ ~good)
ApplyAuto(h) ==
    \/ Step(h, "reviewed", Guarded(h, hosts[h].parent) /\ Publish(hosts[h].review, hosts[h].trigger) /\ Goes(h, "applied"))
    \/ Gives(h, "reviewed", ~(Guarded(h, hosts[h].parent) /\ MayApply(hosts[h].review)))
ResumeAuto(h) ==
    LET ready == Guarded(h, hosts[h].parent + 1) IN
    \/ /\ hosts[h].pc = "applied" /\ ready
       /\ ResumeRun("adjusted") /\ Goes(h, "ending")
       /\ UNCHANGED <<process, facts, crashes>>
    \/ Gives(h, "applied", ~ready \/ ~run.current \/ FailedWithResult # {})
Finish(h) ==
    /\ hosts[h].pc = "ending" /\ Goes(h, "idle")
    /\ IF Ended(hosts[h].trigger) THEN UNCHANGED facts ELSE Fact("finished", hosts[h].trigger)
    /\ UNCHANGED <<run, controls, execution, process, crashes>>

\* cancel, first of all in every command that a host serves: between the steps of the child
\* that do not wait there is no place for it
CancelAdjustment(h) ==
    LET c == hosts[h] IN
    /\ c.pc \in {"idle", "spawned", "proposing", "reviewing"}
    /\ IF c.pc \in {"idle", "spawned"}
       THEN /\ c.pending # 0
            /\ At(h, [pending |-> 0, dropped |-> c.dropped \cup {c.pending}])
       ELSE At(h, [pending |-> 0, dropped |-> c.dropped \cup {c.pending}, pc |-> "ending"])
    /\ drafts' = [d \in DOMAIN drafts |->
           IF c.pc = "proposing" /\ d = c.draft /\ drafts[d].status = "planning"
           THEN [drafts[d] EXCEPT !.status = "failed"] ELSE drafts[d]]
    /\ reviews' = [r \in DOMAIN reviews |->
           IF c.pc = "reviewing" /\ r = c.review /\ reviews[r].status = "reviewing"
           THEN [reviews[r] EXCEPT !.status = "failed"] ELSE reviews[r]]
    /\ UNCHANGED <<run, controls, execution, revisions, facts, crashes>>

Coordinate(h) ==
    \/ ProposeAuto(h) \/ RecheckDraft(h) \/ ReviewAuto(h) \/ RecheckReview(h)
    \/ ApplyAuto(h) \/ ResumeAuto(h) \/ Finish(h)

\* mutant: a coordinator that starts again goes on where it was
CursorKept(h) == [cursor |-> hosts[h].cursor, pending |-> 0]
CursorReset(h) == [cursor |-> 0, pending |-> 0]
NewHost == [pc |-> "idle", dropped |-> {}, trigger |-> 0, parent |-> 0, draft |-> 0, review |-> 0]
\* what a host had in memory is lost, and the models it was waiting for with it
Crash(h) ==
    /\ crashes < MaxCrashes /\ crashes' = crashes + 1
    /\ hosts' = [hosts EXCEPT ![h] = [x \in DOMAIN @ |-> IF x \in DOMAIN NewHost THEN NewHost[x] ELSE CursorReset(h)[x]]]
    /\ drafts' = [d \in DOMAIN drafts |-> IF drafts[d].by = h THEN [drafts[d] EXCEPT !.by = "nobody"] ELSE drafts[d]]
    /\ reviews' = [r \in DOMAIN reviews |-> IF reviews[r].by = h THEN [reviews[r] EXCEPT !.by = "nobody"] ELSE reviews[r]]
    /\ UNCHANGED <<run, controls, execution, revisions, facts>>
----------------------------------------------------------------------------
Init ==
    /\ run = [status |-> "running", current |-> TRUE]
    /\ controls = <<"started">>
    /\ plan = [rev |-> 1, node |-> [n \in Nodes |-> [status |-> "waiting", since |-> 1]]]
    /\ attempts = <<>> /\ asks = {} /\ drafts = <<>> /\ reviews = <<>> /\ revisions = <<>> /\ facts = <<>>
    /\ hosts = [h \in Hosts |-> [pc |-> "idle", pending |-> 0, cursor |-> 0, dropped |-> {},
                                 trigger |-> 0, parent |-> 0, draft |-> 0, review |-> 0]]
    /\ crashes = 0

Execute ==
    \/ \E n \in Nodes : Dispatch(n) \/ Settle(n)
    \/ \E a \in DOMAIN attempts : Succeed(a) \/ Interrupt(a) \/ WorkerFails(a) \/ Answer(a)
    \/ Complete
Command ==
    \/ Pause \/ Resume \/ Supersede
    \/ \E h \in Hosts : Propose(h) \/ (\E d \in DOMAIN drafts : Review(h, d))
    \/ \E r \in DOMAIN reviews : Apply(r)
Models == (\E d \in DOMAIN drafts : EndDraft(d)) \/ (\E r \in DOMAIN reviews : EndReview(r))
Next ==
    \/ Execute \/ Command \/ Models
    \/ \E h \in Hosts : Discover(h) \/ Prepare(h) \/ Coordinate(h) \/ CancelAdjustment(h) \/ Crash(h)

\* the loop of a host goes on and what is paused drains; models, people and workers may stay silent
Fairness ==
    /\ \A h \in Hosts : WF_vars(Discover(h)) /\ WF_vars(Prepare(h)) /\ WF_vars(Coordinate(h))
    /\ \A a \in 1..MaxAttempts : WF_vars(a \in DOMAIN attempts /\ Interrupt(a))
Spec == Init /\ [][Next]_vars /\ Fairness
----------------------------------------------------------------------------
(* What is stored: the domain and the projections of events refuse anything else. *)
Run == [status : {"running", "paused", "done"}, current : BOOLEAN]
Node == [status : {"waiting", "running", "verifying", "candidate", "completed", "failed"}, since : Nat]
\* a revision is approved, numbered on from its parent, and made of nodes of it or of older ones
IsRevision(p) == /\ p.rev > 0 /\ p.node \in [Nodes -> Node]
                 /\ \A n \in Nodes : p.node[n].since \in 1..p.rev
\* exactly the drafts that are ready have a candidate, and it follows on an approved plan
IsDraft(d) == /\ IsRevision(d.base) /\ d.base.rev <= plan.rev
              /\ d.status \in {"planning", "ready", "failed"} /\ (d.status = "ready") = (d.replaces # {})
\* a review is of one draft, asked for once that was ready; a conclusion comes with its report
IsReview(r) == /\ drafts[r.draft].status = "ready"
               /\ r.status \in {"reviewing", "completed", "failed"} /\ (r.preserves => r.status = "completed")
\* what a person is asked is about a result, and an answer is to what was asked
Questions == {a \in DOMAIN attempts : attempts[a].status = "succeeded"}
\* a coordinator knows nothing but where it has read to, and what it has begun
Coordinator(c) ==
    /\ c.cursor \in 0..Latest /\ c.pending \in 0..Latest /\ c.dropped \subseteq 0..Latest
    /\ c.pc \in {"idle", "spawned", "started", "ending"} \/ c.draft \in DOMAIN drafts
    /\ c.pc \in {"reviewing", "reviewed", "applied"} => c.review \in DOMAIN reviews

(* Properties. *)
TypeOK ==
    /\ run \in Run /\ IsRevision(plan) /\ plan.rev = Len(revisions) + 1
    /\ \A d \in DOMAIN drafts : IsDraft(drafts[d])
    /\ \A r \in DOMAIN reviews : IsReview(reviews[r])
    /\ asks \subseteq Questions
    /\ \A h \in Hosts : Coordinator(hosts[h])

\* A published process was drafted and reviewed for the plan it replaced, statuses included,
\* whatever happened while the models worked; and no revision is published twice.
AppliedIsReviewed ==
    /\ TypeOK
    /\ \A i \in DOMAIN revisions :
        LET v == revisions[i] IN
        /\ drafts[v.draft].base = v.over /\ v.over.rev = i
        /\ reviews[v.review].draft = v.draft /\ reviews[v.review].preserves

\* Work that is under way, or waits for a person, belongs to the plan in force: a change of
\* process never leaves an attempt of an older revision running, nor a question without a node.
WorkBelongs ==
    /\ \A a \in DOMAIN attempts : attempts[a].status = "running" =>
        /\ attempts[a].rev = plan.rev
        /\ plan.node[attempts[a].node] = [status |-> "running", since |-> attempts[a].since]
    /\ \A a \in asks : plan.node[attempts[a].node] = [status |-> "verifying", since |-> attempts[a].since]

\* A coordinator changes a process and goes on with a Run only for the pause it was started by:
\* after any later control, an operator's pause included, it does neither.
PauseRespected ==
    /\ \A i \in DOMAIN controls : controls[i] = "adjusted" => Eligible(i - 1) /\ Has({"started"}, i - 1)
    /\ \A i \in DOMAIN revisions :
        LET v == revisions[i] IN v.trigger # 0 => v.after = v.trigger /\ Eligible(v.trigger)

\* A pause starts models once at most, is closed once at most, and never more often than the
\* policy of the Goal allows, with several hosts and after a crash.
AdjustedOnce ==
    /\ \A f, g \in DOMAIN facts : facts[f].trigger = facts[g].trigger /\ f < g =>
        facts[f].kind = "started" /\ facts[g].kind = "finished"
    /\ Starts <= Budget

\* What changes the process of a Run was reviewed for the plan in force, once, and was asked for.
ControlHolds == AppliedIsReviewed /\ WorkBelongs /\ PauseRespected /\ AdjustedOnce

\* An automatic pause without work or questions left is taken up or closed, also by a host that
\* was restarted, unless another control or a command comes first or a model is still working.
Untouched(t) ==
    /\ Latest = t /\ Eligible(t) /\ run.status = "paused" /\ asks = {}
    /\ ~Has({"started"}, t) /\ ~Ended(t)
    /\ \A h \in Hosts : t \notin hosts[h].dropped /\ hosts[h].pc \in {"idle", "spawned"}
Attended == []<>~Untouched(Latest)
=============================================================================
