--------------------------- MODULE HubInvocation ---------------------------
(***************************************************************************)
(* One Worker Attempt executed through the Hub.  The core side             *)
(* (infrastructure/hub_runtime.py, infrastructure/workers/pi.py) keeps     *)
(* every fact in the durable trace; the Hub (hub/server.py) keeps a table  *)
(* of running sessions in memory only; the harness behind a session is     *)
(* external: a model whose messages ask for batches of tool calls.         *)
(*                                                                         *)
(* A request of the core may be refused, may be lost, or may be served     *)
(* while its reply is lost: the core cannot tell these apart and stops     *)
(* with an unknown outcome.  A person may cancel wherever the core awaits, *)
(* the core may die between any two steps, and then it recovers the        *)
(* Attempt from the trace.                                                 *)
(***************************************************************************)
EXTENDS Naturals, FiniteSets, Sequences

CONSTANTS
    Local,        \* tool calls with effects inside of the code workspace
    Nonlocal,     \* tool calls with effects outside of it
    Submit,       \* calls of submit_candidate
    Blocks,       \* calls of report_blocked
    CodeMode,     \* whether the host captures handoffs of a code workspace
    IdleTicks,    \* the Hub's idle limit, in heartbeat intervals
    MaxCrashes,   \* bound: crashes of the core
    MaxFaults,    \* bound: lost requests and replies, failures of harness, tool or Hub, and
                  \* intervals in which the core's loop does not get to its timers
    MaxCancels    \* bound: cancellations

Finish == Submit \cup Blocks
Calls == Local \cup Nonlocal \cup Finish

\* an idle limit below three heartbeat intervals is refused at startup
ASSUME HubAssumption ==
    /\ Finish \cap (Local \cup Nonlocal) = {} /\ Local \cap Nonlocal = {} /\ Submit \cap Blocks = {}
    /\ CodeMode \in BOOLEAN
    /\ IdleTicks \in Nat /\ IdleTicks >= 3
    /\ MaxCrashes \in Nat /\ MaxFaults \in Nat /\ MaxCancels \in Nat

\* every life of the core starts one session at most
Sessions == 1..(MaxCrashes + 1)

VARIABLES
    core,      \* where HubRoleRunner.run is
    why,       \* how the invocation has ended
    att,       \* the Hub session the core is attached to, 0 for none
    cursor,    \* the events the core has handled
    fetched,   \* the events the core has fetched
    call,      \* the tool call being handled, as its event
    final,     \* _Invocation.final_text: whether the host has accepted a result
    beat,      \* the heartbeat task: asleep, due to send, or waiting for a reply that was lost
    turn,      \* trace: TURN_STARTED
    called,    \* trace: the TOOL_CALLED events in their order
    answer,    \* trace: the TOOL_RESULT of each call
    ended,     \* trace: TURN_ENDED
    err,       \* trace: BACKEND_ERROR
    verdict,   \* what the Runtime has settled the Attempt with (durable)
    sess,      \* the Hub's session table
    log,       \* the events of each session
    age,       \* intervals since a session was touched
    finished,  \* the sessions that were handed an accepted result
    prompted,  \* the sessions that were prompted
    message,   \* the calls of the model's last message
    open,      \* those without a result
    asked,     \* all calls the model has asked for
    ran,       \* how often the host has executed each call
    crashes, faults, cancels

invocation == <<core, why, att, cursor, fetched, call, final>>
trace == <<turn, called, answer, ended, err>>
harness == <<message, open, asked>>
bounds == <<crashes, faults, cancels>>
vars == <<invocation, beat, trace, verdict, sess, log, age, finished, prompted, harness, ran, bounds>>

None == [type |-> "none"]
CallEvent == [type : {"call"}, call : Calls, alone : BOOLEAN]
Event == CallEvent \cup [type : {"settled", "failed"}]

Attached == {"record", "prompt", "follow", "called", "executed", "accepted", "answer", "ending"}
Closing == {"stopping", "closing", "draining", "disconnect", "aclose"}

TypeOK ==
    /\ core \in {"off", "ready", "done"} \cup Attached \cup Closing
    /\ why \in {"none", "ended", "unknown", "cancelled", "exception"}
    /\ att \in {0} \cup Sessions
    /\ cursor \in Nat /\ fetched \in Nat
    /\ call \in {None} \cup CallEvent
    /\ {final, turn, ended, err} \subseteq BOOLEAN /\ beat \in {"asleep", "due", "waiting"}
    /\ called \in Seq(Calls)
    /\ answer \in [Calls -> {"none", "ok", "rejected"}]
    /\ verdict \in {"none", "candidate", "blocked", "failed", "restart"}
    /\ sess \in [Sessions -> {"absent", "running", "failed", "closed", "reaped"}]
    /\ log \in [Sessions -> Seq(Event)]
    /\ age \in [Sessions -> 0..IdleTicks]
    /\ finished \subseteq Sessions /\ prompted \subseteq Sessions
    /\ message \in [Sessions -> SUBSET Calls] /\ open \in [Sessions -> SUBSET Calls]
    /\ asked \subseteq Calls
    /\ ran \in [Calls -> Nat]
    /\ crashes \in 0..MaxCrashes /\ faults \in 0..MaxFaults /\ cancels \in 0..MaxCancels

Init ==
    /\ core = "ready" /\ why = "none" /\ att = 0 /\ cursor = 0 /\ fetched = 0 /\ call = None
    /\ final = FALSE /\ beat = "asleep"
    /\ turn = FALSE /\ called = <<>> /\ answer = [c \in Calls |-> "none"]
    /\ ended = FALSE /\ err = FALSE /\ verdict = "none"
    /\ sess = [s \in Sessions |-> "absent"] /\ log = [s \in Sessions |-> <<>>]
    /\ age = [s \in Sessions |-> 0] /\ finished = {} /\ prompted = {}
    /\ message = [s \in Sessions |-> {}] /\ open = [s \in Sessions |-> {}] /\ asked = {}
    /\ ran = [c \in Calls |-> 0]
    /\ crashes = 0 /\ faults = 0 /\ cancels = 0

-----------------------------------------------------------------------------
(* How an await of the core ends.                                           *)

Running(s) == s # 0 /\ sess[s] = "running"
Listed(s) == s # 0 /\ sess[s] \in {"running", "failed"}
Fault == faults < MaxFaults /\ faults' = faults + 1 /\ UNCHANGED <<crashes, cancels>>
Cancelled == cancels < MaxCancels /\ cancels' = cancels + 1 /\ UNCHANGED <<crashes, faults>>

\* an exception out of the invocation: the heartbeat is stopped, then the session is closed
Leave(reason) == core' = "stopping" /\ why' = reason

\* mutant: the deadline is pushed on instead of the age being reset
TouchForward(s) == [age EXCEPT ![s] = @ + IdleTicks]

\* a request that is served renews the session's lease (Hub.require)
Touch(s) == [age EXCEPT ![s] = 0]

\* A request for the attached session; "served" tells whether it took effect.
Request(served, next) ==
    /\ served => Running(att)
    /\ age' = IF served THEN Touch(att) ELSE age
    /\ \/ served /\ core' = next /\ UNCHANGED <<why, bounds>>
       \/ (Running(att) => Fault) /\ (~Running(att) => UNCHANGED bounds) /\ Leave("unknown")
       \/ Cancelled /\ Leave("cancelled")

-----------------------------------------------------------------------------
(* HubRoleRunner.run and _Invocation.                                        *)

\* Hub.start launches a harness; the core attaches only to what it is told of
Start ==
    /\ core = "ready"
    /\ \E launched \in BOOLEAN :
        /\ sess' = IF launched THEN [sess EXCEPT ![crashes + 1] = "running"] ELSE sess
        /\ \/ launched /\ core' = "record" /\ att' = crashes + 1 /\ UNCHANGED <<why, bounds>>
           \/ core' = "disconnect" /\ why' = "unknown" /\ Fault /\ UNCHANGED att
           \/ core' = "disconnect" /\ why' = "cancelled" /\ Cancelled /\ UNCHANGED att
           \/ ~launched /\ core' = "disconnect" /\ why' = "exception" /\ Fault /\ UNCHANGED att
    /\ UNCHANGED <<cursor, fetched, call, final, beat, trace, verdict, log, age, finished,
                   prompted, harness, ran>>

\* mutant: the turn is recorded with its end only
RecordTurnLate ==
    /\ core = "record" /\ core' = "prompt"
    /\ UNCHANGED <<why, att, cursor, fetched, call, final, beat, trace, verdict,
                   sess, log, age, finished, prompted, harness, ran, bounds>>

\* the turn is on the trace before anything is sent to the model
RecordTurn ==
    /\ core = "record" /\ core' = "prompt" /\ turn' = TRUE
    /\ UNCHANGED <<why, att, cursor, fetched, call, final, beat, called, answer, ended, err, verdict,
                   sess, log, age, finished, prompted, harness, ran, bounds>>

Prompt ==
    /\ core = "prompt"
    /\ \E served \in BOOLEAN :
        /\ Request(served, "follow")
        /\ prompted' = IF served THEN prompted \cup {att} ELSE prompted
    /\ UNCHANGED <<att, cursor, fetched, call, final, beat, trace, verdict, sess, log, finished,
                   harness, ran>>

Awaiting == core = "follow" /\ cursor = fetched

\* _next_batch: everything after the cursor, or nothing for now; a session that ended without
\* news is an error
Fetch ==
    /\ Awaiting
    /\ LET news == Len(log[att]) > cursor IN
       \/ /\ Listed(att) /\ news
          /\ fetched' = Len(log[att]) /\ age' = Touch(att) /\ UNCHANGED <<core, why, bounds>>
       \/ /\ Running(att) /\ ~news
          /\ age' = Touch(att) /\ UNCHANGED <<core, why, fetched, bounds>>
       \/ /\ Request(FALSE, "follow") /\ UNCHANGED fetched
          /\ (sess[att] = "failed" /\ news) => bounds' # bounds
    /\ UNCHANGED <<att, cursor, call, final, beat, trace, verdict, sess, log, finished, prompted,
                   harness, ran>>

\* mutant: the cursor is not moved
HandlesKept(type) ==
    /\ core = "follow" /\ cursor < fetched /\ log[att][cursor + 1].type = type
    /\ UNCHANGED cursor

\* the next fetched event is taken
Handles(type) ==
    /\ core = "follow" /\ cursor < fetched /\ log[att][cursor + 1].type = type
    /\ cursor' = cursor + 1

\* the harness has settled: only a result that the host accepted ends the turn
HandleSettled ==
    /\ Handles("settled")
    /\ IF final THEN core' = "ending" /\ UNCHANGED why ELSE Leave("unknown")
    /\ UNCHANGED <<att, fetched, call, final, beat, trace, verdict, sess, log, age, finished,
                   prompted, harness, ran, bounds>>

\* FINAL and TURN_ENDED are two transactions: the turn is complete with the second
EndTurn ==
    /\ core = "ending" /\ Leave("ended") /\ ended' = TRUE
    /\ UNCHANGED <<att, cursor, fetched, call, final, beat, turn, called, answer, err, verdict,
                   sess, log, age, finished, prompted, harness, ran, bounds>>

HandleFailed ==
    /\ Handles("failed") /\ Leave("unknown")
    /\ UNCHANGED <<att, fetched, call, final, beat, trace, verdict, sess, log, age, finished,
                   prompted, harness, ran, bounds>>

\* a tool call is on the trace before it is executed; after an accepted result none may come
HandleCall ==
    /\ Handles("call")
    /\ IF final
       THEN Leave("unknown") /\ UNCHANGED <<call, called>>
       ELSE /\ core' = "called" /\ call' = log[att][cursor + 1]
            /\ called' = Append(called, call'.call) /\ UNCHANGED why
    /\ UNCHANGED <<att, fetched, final, beat, turn, answer, ended, err, verdict, sess, log, age,
                   finished, prompted, harness, ran, bounds>>

\* mutant: a submission counts among other calls
ValidFinishAmongOthers(event) == TRUE

\* the finish tool counts only when the model called it alone
ValidFinish(event) == event.alone

\* The tool runs on the host: it returns, fails recoverably, fails for good, or is cancelled
\* before or after it had its effect.
Execute ==
    /\ core = "called"
    /\ \/ /\ call.call \in Finish /\ ~ValidFinish(call)
          /\ core' = "executed" /\ UNCHANGED <<why, ran, bounds>>
       \/ /\ call.call \in Finish => ValidFinish(call)
          /\ ran' = [ran EXCEPT ![call.call] = @ + 1]
          /\ \/ core' = "accepted" /\ UNCHANGED <<why, bounds>>
             \/ core' = "executed" /\ UNCHANGED <<why, bounds>>
             \/ Leave("exception") /\ Fault
             \/ Leave("cancelled") /\ Cancelled
       \/ Leave("cancelled") /\ Cancelled /\ UNCHANGED ran
    /\ UNCHANGED <<att, cursor, fetched, call, final, beat, trace, verdict, sess, log, age, finished,
                   prompted, harness>>

RecordResult ==
    /\ core \in {"executed", "accepted"} /\ core' = "answer"
    /\ answer' = [answer EXCEPT ![call.call] = IF core = "accepted" THEN "ok" ELSE "rejected"]
    /\ final' = (core = "accepted" /\ call.call \in Finish)
    /\ UNCHANGED <<why, att, cursor, fetched, call, beat, turn, called, ended, err, verdict,
                   sess, log, age, finished, prompted, harness, ran, bounds>>

\* the result is handed to the harness; an accepted one closes the session for tools
Answer ==
    /\ core = "answer"
    /\ \E served \in BOOLEAN :
        /\ Request(served, "follow")
        /\ open' = IF served THEN [open EXCEPT ![att] = @ \ {call.call}] ELSE open
        /\ finished' = IF served /\ final THEN finished \cup {att} ELSE finished
    /\ UNCHANGED <<att, cursor, fetched, call, final, beat, trace, verdict, sess, log, prompted,
                   message, asked, ran>>

-----------------------------------------------------------------------------
(* The end of the invocation, however it ends.                               *)

\* the heartbeat task is cancelled and awaited; a cancellation here skips the close
StopHeartbeat ==
    /\ core = "stopping" /\ beat' = "asleep"
    /\ \/ core' = "closing" /\ UNCHANGED <<why, bounds>>
       \/ core' = "disconnect" /\ why' = "cancelled" /\ Cancelled
    /\ UNCHANGED <<att, cursor, fetched, call, final, trace, verdict, sess, log, age, finished,
                   prompted, harness, ran>>

\* Hub.close: the session leaves the table and its harness is stopped
Closed(s) == IF Listed(s) THEN [sess EXCEPT ![s] = "closed"] ELSE sess

\* the close is shielded: a first cancellation waits for it, a second one cancels it
Close ==
    /\ core \in {"closing", "draining"}
    /\ \/ core' = "disconnect" /\ sess' = Closed(att) /\ UNCHANGED <<why, bounds>>
       \/ core' = "disconnect" /\ Fault /\ UNCHANGED <<sess, why>>
       \/ core = "closing" /\ core' = "draining" /\ why' = "cancelled" /\ Cancelled /\ UNCHANGED sess
       \/ core = "draining" /\ core' = "disconnect" /\ Cancelled /\ UNCHANGED why /\ sess' \in {sess, Closed(att)}
    /\ UNCHANGED <<att, cursor, fetched, call, final, beat, trace, verdict, log, age, finished,
                   prompted, harness, ran>>

\* an unknown or cancelled turn is marked on the trace, so that it is never run again
RecordError ==
    /\ core = "disconnect"
    /\ \/ core' = "aclose" /\ UNCHANGED <<why, bounds>>
       \/ core' = "aclose" /\ why' = "cancelled" /\ Cancelled
    /\ err' = (err \/ (turn /\ why' \in {"unknown", "cancelled"}))
    /\ UNCHANGED <<att, cursor, fetched, call, final, beat, turn, called, answer, ended, verdict,
                   sess, log, age, finished, prompted, harness, ran>>

\* the tools are closed; the connector keeps the outcome of the task
CloseTools ==
    /\ core = "aclose" /\ core' = "done"
    /\ \/ UNCHANGED <<why, bounds>>
       \/ why' = "cancelled" /\ Cancelled
    /\ UNCHANGED <<att, cursor, fetched, call, final, beat, trace, verdict, sess, log, age, finished,
                   prompted, harness, ran>>

\* _candidate_result: the last submission on the trace tells what the turn has produced
Submissions == {i \in 1..Len(called) : called[i] \in Finish}

LastSubmission == called[CHOOSE i \in Submissions : \A j \in Submissions : j <= i]
CandidateResult ==
    IF LastSubmission \in Blocks THEN "blocked"
    ELSE IF answer[LastSubmission] = "ok" THEN "candidate" ELSE "failed"

\* the terminal event of PiAgentConnector.events settles the Attempt
Deliver ==
    /\ core = "done" /\ verdict = "none"
    /\ verdict' = CASE why = "ended" -> CandidateResult
                    [] why = "unknown" -> "blocked"
                    [] OTHER -> "failed"
    /\ UNCHANGED <<invocation, beat, trace, sess, log, age, finished, prompted, harness, ran, bounds>>

-----------------------------------------------------------------------------
(* The core dies and recovers the Attempt from its trace.                    *)

\* a local sidecar Hub stops with its core, a remote one does not
Crash ==
    /\ core # "off" /\ verdict = "none"
    /\ crashes < MaxCrashes /\ crashes' = crashes + 1 /\ UNCHANGED <<faults, cancels>>
    /\ core' = "off" /\ why' = "none" /\ att' = 0 /\ cursor' = 0 /\ fetched' = 0 /\ call' = None
    /\ final' = FALSE /\ beat' = "asleep"
    /\ \/ UNCHANGED sess
       \/ sess' = [s \in Sessions |-> IF Listed(s) THEN "closed" ELSE sess[s]]
    /\ UNCHANGED <<trace, verdict, log, age, finished, prompted, harness, ran>>

\* mutant: only calls with a result count
HasAnsweredEffects == \E i \in 1..Len(called) : called[i] \in Nonlocal /\ answer[called[i]] # "none"

\* a call that is on the trace may have had its effect, with a result or without one
HasNonlocalEffects == \E i \in 1..Len(called) : called[i] \in Nonlocal

\* PiAgentConnector.recover and, for what it lets pass, the head of HubRoleRunner.run
Recover ==
    /\ core = "off" /\ verdict = "none"
    /\ \/ ended /\ core' = "done" /\ why' = "ended" /\ UNCHANGED verdict
       \/ /\ ~ended /\ (err \/ (CodeMode /\ HasNonlocalEffects) \/ (~CodeMode /\ turn))
          /\ core' = "done" /\ why' = "unknown" /\ UNCHANGED verdict
       \/ /\ ~ended /\ ~err /\ CodeMode /\ ~HasNonlocalEffects
          /\ verdict' = "restart" /\ UNCHANGED <<core, why>>
       \/ ~ended /\ ~err /\ ~CodeMode /\ ~turn /\ core' = "ready" /\ UNCHANGED <<why, verdict>>
    /\ UNCHANGED <<att, cursor, fetched, call, final, beat, trace, sess, log, age, finished,
                   prompted, harness, ran, bounds>>

-----------------------------------------------------------------------------
(* The Hub's lease.                                                          *)

\* An interval passes. The heartbeat task of an attached core wakes up; or the request it has
\* lost times out, and it sleeps for another interval; or its loop is kept from its timers, as
\* by a synchronous Check.
Tick ==
    /\ \E s \in Sessions : Listed(s) /\ age[s] < IdleTicks
    /\ age' = [s \in Sessions |-> IF Listed(s) /\ age[s] < IdleTicks THEN age[s] + 1 ELSE age[s]]
    /\ \/ /\ beat = "asleep" /\ beat' = IF core \in Attached THEN "due" ELSE "asleep"
          /\ UNCHANGED bounds
       \/ beat = "waiting" /\ beat' = "asleep" /\ UNCHANGED bounds
       \/ core \in Attached /\ Fault /\ UNCHANGED beat
    /\ UNCHANGED <<invocation, trace, verdict, sess, log, finished, prompted, harness, ran>>

\* The heartbeat's request: served, or refused for a session that is gone; or it fails, at once
\* or by a timeout of one more interval, whether it was served or not. A failure is ignored.
Heartbeat ==
    /\ beat = "due" /\ core \in Attached
    /\ \/ Listed(att) /\ age' = Touch(att) /\ beat' = "asleep" /\ UNCHANGED bounds
       \/ ~Listed(att) /\ beat' = "asleep" /\ UNCHANGED <<age, bounds>>
       \/ Fault /\ beat' \in {"asleep", "waiting"} /\ age' \in {age, IF Listed(att) THEN Touch(att) ELSE age}
    /\ UNCHANGED <<invocation, trace, verdict, sess, log, finished, prompted, harness, ran>>

\* mutant: the interval under way counts
ReapableEarly(s) == age[s] >= IdleTicks - 1

Reapable(s) == age[s] >= IdleTicks

Reap(s) ==
    /\ Listed(s) /\ Reapable(s)
    /\ sess' = [sess EXCEPT ![s] = "reaped"]
    /\ UNCHANGED <<invocation, beat, trace, verdict, log, age, finished, prompted, harness, ran, bounds>>

\* the Hub restarts: its table is empty again
HubRestart ==
    /\ Fault /\ \E s \in Sessions : Listed(s)
    /\ sess' = [s \in Sessions |-> IF Listed(s) THEN "closed" ELSE sess[s]]
    /\ UNCHANGED <<invocation, beat, trace, verdict, log, age, finished, prompted, harness, ran>>

-----------------------------------------------------------------------------
(* The harness.                                                              *)

Log(s, event) == log' = [log EXCEPT ![s] = Append(@, event)]
Active(s) == sess[s] = "running" /\ s \in prompted /\ \A i \in 1..Len(log[s]) : log[s][i].type = "call"

\* the model's message asks for some tool calls
Ask(s) ==
    /\ Active(s) /\ open[s] = {} /\ s \notin finished
    /\ \E wanted \in SUBSET (Calls \ asked) \ {{}} :
        /\ message' = [message EXCEPT ![s] = wanted] /\ open' = [open EXCEPT ![s] = wanted]
        /\ asked' = asked \cup wanted
    /\ UNCHANGED <<invocation, beat, trace, verdict, sess, log, age, finished, prompted, ran, bounds>>

\* a call arrives in an order of the harness's own; over MCP it renews the lease
Issue(s) ==
    /\ Active(s)
    /\ \E c \in open[s] :
        /\ \A i \in 1..Len(log[s]) : log[s][i].call # c
        /\ Log(s, [type |-> "call", call |-> c, alone |-> message[s] = {c}])
    /\ age' \in {age, Touch(s)}
    /\ UNCHANGED <<invocation, beat, trace, verdict, sess, finished, prompted, harness, ran, bounds>>

HarnessSettles(s) ==
    /\ Active(s) /\ open[s] = {} /\ Log(s, [type |-> "settled"])
    /\ UNCHANGED <<invocation, beat, trace, verdict, sess, age, finished, prompted, harness, ran, bounds>>

HarnessFails(s) ==
    /\ sess[s] = "running" /\ Fault
    /\ Log(s, [type |-> "failed"]) /\ sess' = [sess EXCEPT ![s] = "failed"]
    /\ UNCHANGED <<invocation, beat, trace, verdict, age, finished, prompted, harness, ran>>

-----------------------------------------------------------------------------

\* the Attempt is settled and no session is left
Settled ==
    /\ verdict # "none" /\ core \in {"off", "done"} /\ \A s \in Sessions : ~Listed(s)
    /\ UNCHANGED vars

Core ==
    \/ Start \/ RecordTurn \/ Prompt \/ Fetch \/ HandleSettled \/ EndTurn \/ HandleFailed \/ HandleCall
    \/ Execute \/ RecordResult \/ Answer
    \/ StopHeartbeat \/ Close \/ RecordError \/ CloseTools \/ Deliver
Harness(s) == Ask(s) \/ Issue(s) \/ HarnessSettles(s) \/ HarnessFails(s)

Next ==
    \/ Core \/ Crash \/ Recover \/ Tick \/ Heartbeat \/ HubRestart \/ Settled
    \/ \E s \in Sessions : Reap(s) \/ Harness(s)

Spec == Init /\ [][Next]_vars

-----------------------------------------------------------------------------
(* Properties.                                                               *)

\* The prompt reaches one harness at most, whatever is lost and however often the core
\* dies: a turn that may have begun is never begun again (HubRoleRunner.run).
NoReplay == Cardinality(prompted) <= 1

\* The host executes a tool call of the model at most once, although events are fetched
\* in batches and the call's answer may be lost (_Invocation.follow).
CallsRunOnce == \A c \in Calls : ran[c] <= 1

\* An Attempt is restarted from a handoff only when nothing it did can be seen outside of
\* its workspace (LocalExecutionRestartRequired).
RestartIsLocal == verdict = "restart" => \A c \in Nonlocal : ran[c] = 0

\* What a completed turn is settled with is the one submission that the host accepted: its
\* candidate or its blocker, also when it is read back after a crash (_candidate_result).
\* Without a fault an accepted result is not lost to other calls of the same message: the
\* accepted submission was the only one (_call_tool).
ResultFaithful ==
    /\ verdict # "none" /\ why = "ended" =>
           \E c \in Finish : answer[c] = "ok" /\ verdict = IF c \in Blocks THEN "blocked" ELSE "candidate"
    /\ final /\ why = "unknown" => faults > 0

\* A fault keeps the Hub from hearing of an attached core for two intervals at most, so that
\* the idle limit is reached only by as many faults, whatever the core is doing (_heartbeat, reap).
KeptAlive == core \in Attached /\ sess[att] = "reaped" => IdleTicks <= 2 * faults + 1

\* While the host executes a tool, the Hub does not treat the session as abandoned for one missed
\* heartbeat (protocol.py:23). The code breaks it at the smallest idle limit: a heartbeat that is
\* lost by its timeout delays the next one by a second interval.
MissTolerated == core = "called" /\ sess[att] = "reaped" => faults >= 2

=============================================================================
