---------------------------- MODULE LifeWorkflows ----------------------------
(* A project's life workflows: captured tasks that wait for a decision, and a routine *)
(* that the hosts' schedulers start when it is due. A scheduler lists the routines in *)
(* one transaction and starts each in another; people edit and decide in between.     *)
EXTENDS Naturals, Sequences, FiniteSets

CONSTANTS
    Schedulers,
    People, Editors,    \* who decides, and who also edits
    Interval,       \* the routine's period
    Updates,        \* what people change a routine to
    Late,           \* what the policy "skip" tolerates
    MaxTime, MaxRuns, MaxSteps, MaxEdits, MaxSends,   \* bounds of the model
    None

\* routine: [workflow, policy, enabled, due, version, last, edits]; edits counts the
\* updates of a person, which may move due back
\* runs: each [workflow, status, version, scheduled, count, edit, tasks, wait, ready]
\* scheduler: [pc, now, due, ready]; command: what a person sends and may send again
VARIABLES
    clock, routine, runs, scheduler, command,
    receipt         \* the recorded result of each person's command

vars == <<clock, routine, runs, scheduler, command, receipt>>
----------------------------------------------------------------------------
Unfinished(r) == runs[r].status \in {"running", "waiting"}
Idle == [pc |-> "idle", now |-> 0, due |-> None, ready |-> {}]
Blank == [op |-> None, run |-> None, version |-> 0, as |-> None, sends |-> 0]

Init ==
    /\ clock = 0 /\ runs = <<>>
    /\ \E w \in {"life.review", "custom"}, p \in {"run_once", "skip"} :
          routine = [workflow |-> w, policy |-> p, enabled |-> TRUE, due |-> 1, version |-> 1, last |-> None, edits |-> 0]
    /\ scheduler = [s \in Schedulers |-> Idle]
    /\ command = [p \in People |-> Blank] /\ receipt = [p \in People |-> None]

\* a Run's record with its steps and waits, in the transaction that changes the Run
Record(w, status, scheduled, count) ==
    [workflow |-> w, status |-> status, version |-> 1, scheduled |-> scheduled, count |-> count,
     edit |-> routine.edits, tasks |-> 0, wait |-> IF status = "awaiting_confirmation" THEN "waiting" ELSE None, ready |-> FALSE]
----------------------------------------------------------------------------
(* A person's commands. A lost answer makes a person send the same command again.    *)

\* life.capture and life.review, started by hand
Start(w, status) ==
    /\ Len(runs) < MaxRuns
    /\ runs' = Append(runs, [Record(w, status, None, 0) EXCEPT !.tasks = IF w = "life.capture" /\ status = "completed" THEN 1 ELSE 0])
    /\ UNCHANGED <<clock, routine, scheduler, command, receipt>>

\* a decision on the version the person sees
Decides(p, r, as) ==
    /\ command[p].op = None /\ runs[r].status = "awaiting_confirmation"
    /\ command' = [command EXCEPT ![p] = [Blank EXCEPT !.op = "decide", !.run = r, !.version = runs[r].version, !.as = as]]
    /\ UNCHANGED <<clock, routine, runs, scheduler, receipt>>

\* an edit replaces all that can be edited
Edits(p, as) ==
    /\ command[p].op = None /\ routine.edits < MaxEdits
    /\ command' = [command EXCEPT ![p] = [Blank EXCEPT !.op = "update_routine", !.version = routine.version, !.as = as]]
    /\ UNCHANGED <<clock, routine, runs, scheduler, receipt>>

Recorded(p) == receipt[p] # None
Version(current, expected) == current = expected
Asks(p, r) == Version(runs[r].version, command[p].version) /\ runs[r].status = "awaiting_confirmation"

Decide(p) ==
    LET r == command[p].run IN
    /\ command[p].op = "decide" /\ Asks(p, r)
    /\ runs' = [runs EXCEPT ![r].status = IF command[p].as = "approve" THEN "completed" ELSE "rejected",
                            ![r].version = @ + 1, ![r].wait = "resolved", ![r].tasks = @ + (IF command[p].as = "approve" THEN 1 ELSE 0)]
    /\ receipt' = [receipt EXCEPT ![p] = command[p].as] /\ UNCHANGED routine

UpdateRoutine(p) ==
    /\ command[p].op = "update_routine" /\ Version(routine.version, command[p].version)
    /\ routine' = [routine EXCEPT !.workflow = command[p].as.workflow, !.due = command[p].as.due, !.enabled = command[p].as.enabled,
                                  !.version = @ + 1, !.edits = @ + 1]
    /\ receipt' = [receipt EXCEPT ![p] = "updated"] /\ UNCHANGED runs

Refused(p) ==
    /\ \/ command[p].op = "decide" /\ ~Asks(p, command[p].run)
       \/ command[p].op = "update_routine" /\ ~Version(routine.version, command[p].version)
    /\ UNCHANGED <<runs, routine, receipt>>

\* _command: a recorded result is replayed; a refusal records nothing
Arrives(p) ==
    /\ command[p].op # None /\ command[p].sends < MaxSends
    /\ command' = [command EXCEPT ![p].sends = @ + 1]
    /\ IF Recorded(p) THEN UNCHANGED <<runs, routine, receipt>> ELSE Decide(p) \/ UpdateRoutine(p) \/ Refused(p)
    /\ UNCHANGED <<clock, scheduler>>
----------------------------------------------------------------------------
(* tick.                                                                           *)

Set(s, u) == scheduler' = [scheduler EXCEPT ![s] = u]

\* the routines are listed, then the time is read; one that is not due is passed over
IsDue(x, now) == x.enabled /\ x.due <= now
ListDue(s) ==
    /\ scheduler[s].pc = "idle"
    /\ Set(s, IF IsDue(routine, clock) THEN [pc |-> "listed", now |-> clock, due |-> routine.due, ready |-> {}] ELSE [Idle EXCEPT !.pc = "started"])
    /\ UNCHANGED <<clock, routine, runs, command, receipt>>

\* mutant: the time that was listed is started
AsListed(s) == [routine EXCEPT !.due = scheduler[s].due]
Current(s) == routine
Occurrences(s, x) == (scheduler[s].now - x.due) \div Interval + 1

Overlaps(x) == x.last # None /\ Unfinished(x.last)
Skips(s, x) == x.workflow = "custom" /\ (Overlaps(x) \/ (x.policy = "skip" /\ scheduler[s].now - x.due > Late))

Advanced(s, x) == [x EXCEPT !.due = @ + Occurrences(s, x) * Interval, !.version = @ + 1]
\* the Run, the routine's next time and its last Run in one transaction
StartDue(s) ==
    LET x == Current(s) IN
    /\ scheduler[s].pc = "listed" /\ IsDue(x, scheduler[s].now) /\ ~Skips(s, x) /\ Len(runs) < MaxRuns
    /\ runs' = Append(runs, Record(x.workflow, IF x.workflow = "custom" THEN "waiting" ELSE "completed", x.due, Occurrences(s, x)))
    /\ routine' = [Advanced(s, x) EXCEPT !.last = Len(runs) + 1]
    /\ Set(s, [Idle EXCEPT !.pc = "started"])
    /\ UNCHANGED <<clock, command, receipt>>
SkipDue(s) ==
    LET x == Current(s) IN
    /\ scheduler[s].pc = "listed" /\ IsDue(x, scheduler[s].now) /\ Skips(s, x)
    /\ routine' = Advanced(s, x)
    /\ Set(s, [Idle EXCEPT !.pc = "started"])
    /\ UNCHANGED <<clock, runs, command, receipt>>
NotDue(s) ==
    /\ scheduler[s].pc = "listed" /\ ~IsDue(Current(s), scheduler[s].now)
    /\ Set(s, [Idle EXCEPT !.pc = "started"])
    /\ UNCHANGED <<clock, routine, runs, command, receipt>>
\* the transaction fails: the tick ends, and with it the polls
TickFails(s) ==
    /\ scheduler[s].pc \in {"listed", "started", "polls"} /\ Set(s, Idle)
    /\ UNCHANGED <<clock, routine, runs, command, receipt>>

Waiting(r) == runs[r].status = "waiting"
ListReady(s) ==
    /\ scheduler[s].pc = "started"
    /\ Set(s, [Idle EXCEPT !.pc = "polls", !.ready = {r \in DOMAIN runs : Waiting(r) /\ runs[r].ready}])
    /\ UNCHANGED <<clock, routine, runs, command, receipt>>
\* poll_custom_run looks again; the Run ends or waits for something else
Poll(s, r) ==
    /\ scheduler[s].pc = "polls" /\ r \in scheduler[s].ready
    /\ Set(s, [scheduler[s] EXCEPT !.ready = @ \ {r}])
    /\ IF Waiting(r) /\ runs[r].ready
       THEN \E st \in {"waiting", "completed", "failed"} : runs' = [runs EXCEPT ![r].status = st, ![r].version = @ + 1, ![r].ready = FALSE]
       ELSE UNCHANGED runs
    /\ UNCHANGED <<clock, routine, command, receipt>>
TickEnds(s) ==
    /\ scheduler[s].pc = "polls" /\ scheduler[s].ready = {} /\ Set(s, Idle)
    /\ UNCHANGED <<clock, routine, runs, command, receipt>>

\* time passes; what a custom Run waits for comes
Passes ==
    /\ clock < MaxTime /\ clock' = clock + 1
    /\ UNCHANGED <<routine, runs, scheduler, command, receipt>>
Comes(r) ==
    /\ Waiting(r) /\ ~runs[r].ready /\ runs[r].version < MaxSteps /\ runs' = [runs EXCEPT ![r].ready = TRUE]
    /\ UNCHANGED <<clock, routine, scheduler, command, receipt>>
----------------------------------------------------------------------------
Next ==
    \/ Passes
    \/ Start("life.capture", "awaiting_confirmation") \/ Start("life.capture", "completed") \/ Start("life.review", "completed")
    \/ \E r \in DOMAIN runs : Comes(r)
    \/ \E p \in People :
        \/ Arrives(p) \/ \E r \in DOMAIN runs, as \in {"approve", "reject"} : Decides(p, r, as)
        \/ p \in Editors /\ \E u \in Updates : Edits(p, u)
    \/ \E s \in Schedulers :
        \/ ListDue(s) \/ StartDue(s) \/ SkipDue(s) \/ NotDue(s) \/ TickFails(s) \/ ListReady(s) \/ TickEnds(s)
        \/ \E r \in DOMAIN runs : Poll(s, r)
Spec == Init /\ [][Next]_vars
----------------------------------------------------------------------------
(* Properties.                                                                     *)

Scheduled == {r \in DOMAIN runs : runs[r].scheduled # None}
\* Two schedulers, a stale list and a failing tick start no occurrence of a routine twice,
\* and none ahead of its time: Runs between two edits cover disjoint occurrences that are past.
OccurrenceOnce ==
    /\ \A r \in Scheduled : runs[r].scheduled + (runs[r].count - 1) * Interval <= clock
    /\ \A r, q \in Scheduled : r < q /\ runs[r].edit = runs[q].edit => runs[r].scheduled + runs[r].count * Interval <= runs[q].scheduled

\* A routine's custom Run starts only when the one before it, of the same binding, has
\* ended; a rebinding in between may leave one behind.
NoOverlap == \A r, q \in Scheduled : r < q /\ Unfinished(r) /\ Unfinished(q) => runs[r].edit # runs[q].edit

\* Proposed tasks are stored once, if and only if they were approved, whoever decides and
\* however often; the wait in the record is open exactly as long as the Run asks.
DecidedOnce == \A r \in DOMAIN runs : runs[r].workflow = "life.capture" =>
    /\ runs[r].tasks = IF runs[r].status = "completed" THEN 1 ELSE 0
    /\ runs[r].wait = "waiting" <=> runs[r].status = "awaiting_confirmation"
    /\ \A p \in People : command[p].run = r /\ receipt[p] # None => (receipt[p] = "approve") = (runs[r].status = "completed")

\* A routine and its decisions happen as often as they should: the three above.
LifeHolds == OccurrenceOnce /\ NoOverlap /\ DecidedOnce
=============================================================================
