--------------------------- MODULE ConnectorCalls ---------------------------
(* Calls to an external service: the core queues them, a connector's own process     *)
(* claims one, executes it with the Google Calendar adapter and reports the result   *)
(* and an event. Only its files survive a crash of that process; requests and        *)
(* answers between it, the core and the provider may be lost or come late.           *)
EXTENDS Naturals, FiniteSets, FiniteSetsExt

CONSTANTS
    MaxCalls,       \* calls queued, numbered in the order of their rows
    Creates,        \* those that create a calendar event; the others read
    Bridges,        \* worker ids, each with a directory of its own
    MaxAsks,        \* reconciliations a person asks for
    MaxCrashes,
    None

VARIABLES
    call,           \* [st, owner] of each call
    delivered,      \* the results the core has receipts for
    sent,           \* the results on their way, or that were: [call, no, st]
    received,       \* the calls whose created event the core has
    remote,         \* of each call: the calendar event with its id
    posts,          \* creates sent to the provider
    pending,        \* of each bridge: pending.json
    bridge,         \* of each bridge: the process
    reports,        \* of each call: results made for it
    asks, crashes

core == <<call, delivered, received>>
disk == <<pending, reports>>
vars == <<call, delivered, sent, received, remote, posts, pending, bridge, reports, asks, crashes>>
----------------------------------------------------------------------------
Calls == 1..MaxCalls
Final == {"completed", "failed"}
Idle == [pc |-> "idle", call |-> 0, mode |-> None, out |-> None]
Is(b, pc) == bridge[b].pc = pc
Goto(b, pc) == bridge' = [bridge EXCEPT ![b].pc = pc]
Result(b, out) == bridge' = [bridge EXCEPT ![b].pc = "done", ![b].out = out]
Mine(b) == {c \in Calls : call[c].st = "claimed" /\ call[c].owner = b}
Queued == {c \in Calls : call[c].st = "queued"}

Init ==
    /\ call = [c \in Calls |-> [st |-> None, owner |-> None]]
    /\ delivered = {} /\ sent = {} /\ received = {}
    /\ remote = [c \in Calls |-> "none"] /\ posts = [c \in Calls |-> 0]
    /\ pending = [b \in Bridges |-> None] /\ bridge = [b \in Bridges |-> Idle]
    /\ reports = [c \in Calls |-> 0] /\ asks = 0 /\ crashes = 0
----------------------------------------------------------------------------
(* The core.                                                                       *)

QueueConnectorCall(c) ==
    /\ call[c].st = None /\ \A d \in 1..(c - 1) : call[d].st # None
    /\ call' = [call EXCEPT ![c].st = "queued"]
    /\ UNCHANGED <<delivered, sent, received, remote, posts, pending, bridge, reports, asks, crashes>>

\* a claim of its own that is not finished comes first, and only to be reconciled
Claimable(b) == IF Mine(b) # {} THEN Min(Mine(b)) ELSE Min(Queued)
Claim(b) ==
    /\ Is(b, "idle") /\ pending[b] = None /\ Mine(b) \cup Queued # {}
    /\ LET c == Claimable(b) IN
       /\ call' = [call EXCEPT ![c] = [st |-> "claimed", owner |-> b]]
       /\ bridge' = [bridge EXCEPT ![b] = [pc |-> "got", call |-> c, mode |-> IF c \in Mine(b) THEN "reconcile" ELSE "execute", out |-> None]]
    /\ UNCHANGED <<delivered, sent, received, remote, posts, pending, reports, asks, crashes>>

\* a result is accepted once, for a call that is claimed or unknown
Fresh(d) == d \notin delivered
Report(d) ==
    /\ d \in sent /\ (Fresh(d) => call[d.call].st \notin Final)
    /\ call' = [call EXCEPT ![d.call].st = IF Fresh(d) THEN d.st ELSE @]
    /\ delivered' = delivered \cup {d}
    /\ UNCHANGED <<sent, received, remote, posts, pending, bridge, reports, asks, crashes>>

Reconcile(c) ==
    /\ call[c].st = "unknown" /\ asks < MaxAsks /\ asks' = asks + 1
    /\ call' = [call EXCEPT ![c].st = "claimed"]
    /\ UNCHANGED <<delivered, sent, received, remote, posts, pending, bridge, reports, crashes>>
----------------------------------------------------------------------------
(* The bridge: one iteration of its loop.                                          *)

\* the claim is on disk before anything is executed
Save(b) ==
    /\ Is(b, "got") /\ Goto(b, "run")
    /\ pending' = [pending EXCEPT ![b] = [call |-> bridge[b].call, report |-> None]]
    /\ UNCHANGED <<core, sent, remote, posts, reports, asks, crashes>>

\* a claim found on disk may have been executed already
\* mutant: it is executed as it was claimed
ModeAsClaimed == "execute"
ModeOnDisk == "reconcile"
Load(b) ==
    /\ Is(b, "idle") /\ pending[b] # None
    /\ bridge' = [bridge EXCEPT ![b] = [Idle EXCEPT !.pc = IF pending[b].report = None THEN "run" ELSE "report", !.call = pending[b].call, !.mode = ModeOnDisk]]
    /\ UNCHANGED <<core, disk, sent, remote, posts, asks, crashes>>

\* the outcome and the event it announces are on disk before they are sent
Record(b) ==
    LET c == bridge[b].call IN
    /\ Is(b, "done") /\ Goto(b, "report")
    /\ reports' = [reports EXCEPT ![c] = @ + 1]
    /\ pending' = [pending EXCEPT ![b].report = [call |-> c, no |-> reports[c] + 1, st |-> bridge[b].out]]
    /\ UNCHANGED <<core, sent, remote, posts, asks, crashes>>

Send(b) ==
    /\ Is(b, "report") /\ Goto(b, "sent") /\ sent' = sent \cup {pending[b].report}
    /\ UNCHANGED <<core, disk, remote, posts, asks, crashes>>

Done(b) == bridge' = [bridge EXCEPT ![b] = Idle] /\ pending' = [pending EXCEPT ![b] = None]
Announces(b) == pending[b].report.st = "completed" /\ bridge[b].call \in Creates
Reported(b) ==
    /\ Is(b, "sent") /\ pending[b].report \in delivered
    /\ IF Announces(b) THEN Goto(b, "event") /\ UNCHANGED pending ELSE Done(b)
    /\ UNCHANGED <<core, reports, sent, remote, posts, asks, crashes>>

Receive(b) ==
    /\ Is(b, "event") /\ received' = received \cup {bridge[b].call}
    /\ Done(b)
    /\ UNCHANGED <<call, delivered, reports, sent, remote, posts, asks, crashes>>

\* it is stopped, or a request failed: the process ends and is started again
Crash(b) ==
    /\ ~Is(b, "idle") /\ crashes < MaxCrashes /\ crashes' = crashes + 1
    /\ bridge' = [bridge EXCEPT ![b] = Idle]
    /\ UNCHANGED <<core, disk, sent, remote, posts, asks>>
----------------------------------------------------------------------------
(* The adapter.                                                                    *)

Running(b) == Is(b, "run")
Write(b) == bridge[b].call \in Creates
Recovering(b) == bridge[b].mode = "reconcile"
GaveUp(b) == IF Recovering(b) /\ Write(b) THEN "unknown" ELSE "failed"
External == <<core, disk, sent, asks, crashes>>

\* another contract, an input it may not use, no authorization, or no answer to a read
Refuse(b) ==
    /\ Running(b) /\ Result(b, GaveUp(b))
    /\ UNCHANGED <<External, remote, posts>>

Read(b) ==
    /\ Running(b) /\ ~Write(b) /\ Result(b, "completed")
    /\ UNCHANGED <<External, remote, posts>>

\* an event that is there answers the call if it still is what was asked for
Found(b) == Result(b, IF remote[bridge[b].call] = "there" THEN "completed" ELSE "unknown")
There(b) == remote[bridge[b].call] \in {"there", "changed"}

\* a create looks for its event first, and is not repeated when it may have been sent
Look(b) ==
    /\ Running(b) /\ Write(b)
    /\ IF There(b) THEN Found(b) ELSE IF Recovering(b) THEN Result(b, "unknown") ELSE Goto(b, "post")
    /\ UNCHANGED <<External, remote, posts>>

\* the provider answers, refuses, or nothing comes back
Create(b) ==
    LET c == bridge[b].call IN
    /\ Is(b, "post") /\ posts' = [posts EXCEPT ![c] = @ + 1]
    /\ \/ remote[c] = "none" /\ remote' = [remote EXCEPT ![c] = "there"] /\ Result(b, "completed")
       \/ remote' = remote /\ Result(b, "failed")
       \/ \E r \in {"none", "there", "sent"} : remote' = [remote EXCEPT ![c] = IF @ = "none" THEN r ELSE @] /\ Goto(b, "confirm")
    /\ UNCHANGED External

Confirm(b) ==
    /\ Is(b, "confirm")
    /\ \/ There(b) /\ Found(b)
       \/ Result(b, "unknown")
    /\ UNCHANGED <<External, remote, posts>>

\* a create that nobody waits for any more is carried out; someone edits or cancels an event
RemoteMoves(c) ==
    /\ \/ remote[c] = "sent" /\ remote' = [remote EXCEPT ![c] = "there"]
       \/ remote[c] = "there" /\ remote' = [remote EXCEPT ![c] = "changed"]
    /\ UNCHANGED <<External, bridge, posts>>
----------------------------------------------------------------------------
Next ==
    \/ \E c \in Calls : QueueConnectorCall(c) \/ Reconcile(c) \/ RemoteMoves(c)
    \/ \E d \in sent : Report(d)
    \/ \E b \in Bridges :
        \/ Claim(b) \/ Save(b) \/ Load(b) \/ Record(b) \/ Send(b) \/ Reported(b) \/ Receive(b) \/ Crash(b)
        \/ Refuse(b) \/ Read(b) \/ Look(b) \/ Create(b) \/ Confirm(b)
Spec == Init /\ [][Next]_vars
----------------------------------------------------------------------------
(* Properties.                                                                     *)

\* A create is sent to the provider at most once, whatever is lost, restarted or
\* reconciled: the call stays the same call.
WrittenOnce == \A c \in Calls : posts[c] <= 1

\* What a settled call says is true of the calendar: a failed create left nothing there
\* and nothing under way, a completed one made its event and the core gets to know it.
SettledTruly == \A c \in Creates :
    /\ call[c].st = "failed" => remote[c] = "none"
    /\ call[c].st = "completed" =>
        /\ remote[c] \in {"there", "changed"}
        /\ c \in received \/ \E b \in Bridges : pending[b] # None /\ pending[b].call = c

\* A call to the provider is made once and its outcome is told as it was: the two above.
CallsHold == WrittenOnce /\ SettledTruly
=============================================================================
