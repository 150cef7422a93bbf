----------------------- MODULE HubInvocation_proofs ------------------------
(***************************************************************************)
(* Theorems about HubInvocation, for every set of tool calls and any       *)
(* number of crashes, faults and cancellations; and about PiExecution, for *)
(* any number of Tool calls and troubles.                                  *)
(***************************************************************************)
EXTENDS MCHubInvocation, FiniteSetTheorems, TLAPS

InCall == {"called", "executed", "accepted", "answer"}

\* an attached core has a session, has fetched what is in its log, and handles a call
Attachment ==
    /\ core \in {"off", "ready"} => cursor = 0 /\ fetched = 0
    /\ core \in Attached => att \in Sessions /\ cursor <= fetched /\ fetched <= Len(log[att])
    /\ core \in {"stopping", "closing", "draining"} => att \in Sessions
    /\ core \in InCall => call \in CallEvent

TypeInv == TypeOK /\ Attachment

LEMMA SessionNumbers ==
    ASSUME TypeOK, HubAssumption
    PROVE  crashes + 1 \in Sessions
BY DEF TypeOK, HubAssumption, Sessions

LEMMA BoundsType ==
    ASSUME TypeOK, HubAssumption, Fault \/ Cancelled \/ UNCHANGED bounds
    PROVE  crashes' = crashes /\ faults' \in 0..MaxFaults /\ cancels' \in 0..MaxCancels
BY DEF Fault, Cancelled, TypeOK, HubAssumption, bounds

LEMMA RequestType ==
    ASSUME TypeOK, HubAssumption, NEW served \in BOOLEAN, NEW next, Request(served, next)
    PROVE  /\ core' \in {next, "stopping"}
           /\ why' \in {why, "unknown", "cancelled"}
           /\ age' \in [Sessions -> 0..IdleTicks]
           /\ crashes' = crashes /\ faults' \in 0..MaxFaults /\ cancels' \in 0..MaxCancels
<1>1. Fault \/ Cancelled \/ UNCHANGED bounds
  BY DEF Request, bounds
<1>2. core' \in {next, "stopping"} /\ why' \in {why, "unknown", "cancelled"}
  BY DEF Request, Leave
<1>3. age' \in [Sessions -> 0..IdleTicks]
  <2>1. age' \in {age, [age EXCEPT ![att] = 0]} /\ age \in [Sessions -> 0..IdleTicks] /\ 0 \in 0..IdleTicks
    BY DEF Request, Touch, TypeOK, HubAssumption
  <2> QED
    BY <2>1
<1> QED
  BY <1>1, <1>2, <1>3, BoundsType

LEMMA TouchType ==
    ASSUME TypeOK, HubAssumption
    PROVE  \A s : Touch(s) \in [Sessions -> 0..IdleTicks]
<1>1. age \in [Sessions -> 0..IdleTicks] /\ 0 \in 0..IdleTicks
  BY DEF TypeOK, HubAssumption
<1> QED
  BY <1>1 DEF Touch

LEMMA EventType ==
    ASSUME TypeOK, NEW s \in Sessions, NEW i \in 1..Len(log[s]), log[s][i].type = "call"
    PROVE  log[s][i] \in CallEvent
<1>1. log[s] \in Seq(Event)
  BY DEF TypeOK
<1>2. log[s][i] \in Event
  BY <1>1
<1> QED
  BY <1>2 DEF Event, CallEvent

LEMMA LogType ==
    ASSUME TypeOK, NEW s \in Sessions, NEW event \in Event, Log(s, event)
    PROVE  /\ log' \in [Sessions -> Seq(Event)]
           /\ \A t \in Sessions : Len(log[t]) <= Len(log'[t])
<1>1. \A t \in Sessions : log[t] \in Seq(Event)
  BY DEF TypeOK
<1>2. Append(log[s], event) \in Seq(Event) /\ Len(Append(log[s], event)) = Len(log[s]) + 1
  BY <1>1
<1>3. log' = [t \in Sessions |-> IF t = s THEN Append(log[s], event) ELSE log[t]]
  BY DEF Log, TypeOK
<1> QED
  BY <1>1, <1>2, <1>3

LEMMA StartType ==
    ASSUME TypeInv, HubAssumption, Start
    PROVE  TypeInv'
<1>1. crashes + 1 \in Sessions
  BY SessionNumbers DEF TypeInv
<1>2. core' \in {"record", "disconnect"} /\ why' \in {why, "unknown", "cancelled", "exception"}
      /\ att' \in {att, crashes + 1} /\ (core' = "record" => att' = crashes + 1)
  BY DEF Start
<1>3. sess' \in [Sessions -> {"absent", "running", "failed", "closed", "reaped"}]
  BY DEF Start, TypeInv, TypeOK
<1>4. crashes' = crashes /\ faults' \in 0..MaxFaults /\ cancels' \in 0..MaxCancels
  BY BoundsType DEF Start, TypeInv
<1>5. log[crashes + 1] \in Seq(Event)
  BY <1>1 DEF TypeInv, TypeOK
<1>6. TypeOK'
  BY <1>1, <1>2, <1>3, <1>4 DEF Start, TypeInv, TypeOK, Attached, Closing, trace, harness
<1>7. Attachment'
  BY <1>1, <1>2, <1>5 DEF Start, TypeInv, Attachment, Attached, InCall
<1> QED
  BY <1>6, <1>7 DEF TypeInv

\* steps of the core that only move it and write the trace
LEMMA TraceStepType ==
    ASSUME TypeInv, RecordTurn \/ EndTurn \/ RecordResult
    PROVE  TypeInv'
<1>1. CASE RecordTurn
  BY <1>1 DEF RecordTurn, TypeInv, TypeOK, Attachment, Attached, Closing, InCall, harness, bounds
<1>2. CASE EndTurn
  BY <1>2 DEF EndTurn, Leave, TypeInv, TypeOK, Attachment, Attached, Closing, InCall, harness, bounds
<1>3. CASE RecordResult
  <2>1. answer' \in [Calls -> {"none", "ok", "rejected"}] /\ final' \in BOOLEAN
    BY <1>3 DEF RecordResult, TypeInv, TypeOK
  <2> QED
    BY <1>3, <2>1 DEF RecordResult, TypeInv, TypeOK, Attachment, Attached, Closing, InCall, harness, bounds
<1> QED
  BY <1>1, <1>2, <1>3

\* steps of the core that send a request for its session
LEMMA PromptType ==
    ASSUME TypeInv, HubAssumption, Prompt
    PROVE  TypeInv'
<1> PICK served \in BOOLEAN : Request(served, "follow") /\ prompted' = IF served THEN prompted \cup {att} ELSE prompted
  BY DEF Prompt
<1>1. /\ core' \in {"follow", "stopping"} /\ why' \in {why, "unknown", "cancelled"}
      /\ age' \in [Sessions -> 0..IdleTicks]
      /\ crashes' = crashes /\ faults' \in 0..MaxFaults /\ cancels' \in 0..MaxCancels
  BY RequestType DEF TypeInv
<1>2. prompted' \subseteq Sessions
  BY DEF Prompt, TypeInv, TypeOK, Attachment, Attached
<1>3. TypeOK'
  BY <1>1, <1>2 DEF Prompt, TypeInv, TypeOK, Attached, Closing, trace, harness
<1>4. Attachment'
  BY <1>1 DEF Prompt, TypeInv, Attachment, Attached, InCall
<1> QED
  BY <1>3, <1>4 DEF TypeInv

LEMMA AnswerType ==
    ASSUME TypeInv, HubAssumption, Answer
    PROVE  TypeInv'
<1> PICK served \in BOOLEAN :
        /\ Request(served, "follow")
        /\ open' = IF served THEN [open EXCEPT ![att] = @ \ {call.call}] ELSE open
        /\ finished' = IF served /\ final THEN finished \cup {att} ELSE finished
  BY DEF Answer
<1>1. /\ core' \in {"follow", "stopping"} /\ why' \in {why, "unknown", "cancelled"}
      /\ age' \in [Sessions -> 0..IdleTicks]
      /\ crashes' = crashes /\ faults' \in 0..MaxFaults /\ cancels' \in 0..MaxCancels
  BY RequestType DEF TypeInv
<1>2. att \in Sessions
  BY DEF Answer, TypeInv, Attachment, Attached
<1>3. open' \in [Sessions -> SUBSET Calls] /\ finished' \subseteq Sessions
  BY <1>2 DEF TypeInv, TypeOK
<1>4. TypeOK'
  BY <1>1, <1>3 DEF Answer, TypeInv, TypeOK, Attached, Closing, trace, harness
<1>5. Attachment'
  BY <1>1 DEF Answer, TypeInv, Attachment, Attached, InCall
<1> QED
  BY <1>4, <1>5 DEF TypeInv

LEMMA FetchType ==
    ASSUME TypeInv, HubAssumption, Fetch
    PROVE  TypeInv'
<1>1. att \in Sessions /\ log[att] \in Seq(Event) /\ cursor \in Nat /\ fetched \in Nat
      /\ cursor = fetched /\ fetched <= Len(log[att])
  BY DEF Fetch, Awaiting, TypeInv, TypeOK, Attachment, Attached
<1>2. /\ core' \in {"follow", "stopping"} /\ why' \in {why, "unknown", "cancelled"}
      /\ age' \in [Sessions -> 0..IdleTicks]
      /\ crashes' = crashes /\ faults' \in 0..MaxFaults /\ cancels' \in 0..MaxCancels
      /\ fetched' \in {fetched, Len(log[att])}
  <2>1. CASE Request(FALSE, "follow") /\ UNCHANGED fetched
    BY <2>1, RequestType DEF TypeInv
  <2>2. CASE /\ fetched' = Len(log[att]) /\ age' = Touch(att) /\ UNCHANGED <<core, why, bounds>>
    <3>1. age' \in [Sessions -> 0..IdleTicks]
      BY <2>2, TouchType DEF TypeInv
    <3> QED
      BY <2>2, <3>1 DEF Fetch, Awaiting, TypeInv, TypeOK, bounds
  <2>3. CASE age' = Touch(att) /\ UNCHANGED <<core, why, fetched, bounds>>
    <3>1. age' \in [Sessions -> 0..IdleTicks]
      BY <2>3, TouchType DEF TypeInv
    <3> QED
      BY <2>3, <3>1 DEF Fetch, Awaiting, TypeInv, TypeOK, bounds
  <2> QED
    BY <2>1, <2>2, <2>3 DEF Fetch
<1>3. fetched' \in Nat /\ fetched' <= Len(log[att]) /\ cursor <= fetched'
  BY <1>1, <1>2
<1>4. TypeOK'
  BY <1>2, <1>3 DEF Fetch, TypeInv, TypeOK, Attached, Closing, trace, harness
<1>5. Attachment'
  BY <1>1, <1>2, <1>3 DEF Fetch, TypeInv, Attachment, Attached, InCall
<1> QED
  BY <1>4, <1>5 DEF TypeInv

LEMMA HandleType ==
    ASSUME TypeInv, HandleSettled \/ HandleFailed \/ HandleCall
    PROVE  TypeInv'
<1>1. /\ core = "follow" /\ att \in Sessions /\ log[att] \in Seq(Event)
      /\ cursor \in Nat /\ fetched \in Nat /\ cursor < fetched /\ fetched <= Len(log[att])
      /\ cursor' = cursor + 1 /\ UNCHANGED <<att, fetched, log>>
  BY DEF HandleSettled, HandleFailed, HandleCall, Handles, TypeInv, TypeOK, Attachment, Attached
<1>2. cursor + 1 \in 1..Len(log[att]) /\ cursor' \in Nat /\ cursor' <= fetched
  BY <1>1
<1>3. CASE HandleSettled
  BY <1>1, <1>2, <1>3 DEF HandleSettled, Leave, TypeInv, TypeOK, Attachment, Attached, Closing, InCall, trace, harness, bounds
<1>4. CASE HandleFailed
  BY <1>1, <1>2, <1>4 DEF HandleFailed, Leave, TypeInv, TypeOK, Attachment, Attached, Closing, InCall, trace, harness, bounds
<1>5. CASE HandleCall /\ final
  BY <1>1, <1>2, <1>5 DEF HandleCall, Leave, TypeInv, TypeOK, Attachment, Attached, Closing, InCall, trace, harness, bounds
<1>6. CASE HandleCall /\ ~final
  <2>1. call' = log[att][cursor + 1] /\ called' = Append(called, call'.call) /\ core' = "called" /\ why' = why
    BY <1>6 DEF HandleCall
  <2>2. log[att][cursor + 1].type = "call"
    BY <1>6 DEF HandleCall, Handles
  <2>3. log[att][cursor + 1] \in CallEvent
    BY <1>1, <1>2, <2>2, EventType DEF TypeInv
  <2>4. call' \in CallEvent /\ call'.call \in Calls
    BY <2>1, <2>3 DEF CallEvent
  <2>5. called' \in Seq(Calls)
    BY <2>1, <2>4 DEF TypeInv, TypeOK
  <2> QED
    BY <1>1, <1>2, <1>6, <2>1, <2>4, <2>5 DEF HandleCall, TypeInv, TypeOK, Attachment, Attached, Closing, InCall, trace, harness, bounds
<1> QED
  BY <1>3, <1>4, <1>5, <1>6

LEMMA ExecuteType ==
    ASSUME TypeInv, HubAssumption, Execute
    PROVE  TypeInv'
<1>1. core = "called" /\ call \in CallEvent /\ call.call \in Calls
  BY DEF Execute, TypeInv, Attachment, InCall, CallEvent
<1>2. core' \in {"executed", "accepted", "stopping"} /\ why' \in {why, "exception", "cancelled"}
  BY DEF Execute, Leave
<1>3. ran' \in [Calls -> Nat]
  <2>1. ran' \in {ran, [ran EXCEPT ![call.call] = @ + 1]}
    BY DEF Execute
  <2>2. ran \in [Calls -> Nat]
    BY DEF TypeInv, TypeOK
  <2> QED
    BY <1>1, <2>1, <2>2
<1>4. crashes' = crashes /\ faults' \in 0..MaxFaults /\ cancels' \in 0..MaxCancels
  BY BoundsType DEF Execute, TypeInv
<1>5. TypeOK'
  BY <1>2, <1>3, <1>4 DEF Execute, TypeInv, TypeOK, Attached, Closing, trace, harness
<1>6. Attachment'
  BY <1>1, <1>2 DEF Execute, TypeInv, Attachment, Attached, InCall
<1> QED
  BY <1>5, <1>6 DEF TypeInv

LEMMA EndType ==
    ASSUME TypeInv, HubAssumption, StopHeartbeat \/ Close \/ RecordError \/ CloseTools
    PROVE  TypeInv'
<1>1. Fault \/ Cancelled \/ UNCHANGED bounds
  BY DEF StopHeartbeat, Close, RecordError, CloseTools, bounds
<1>2. crashes' = crashes /\ faults' \in 0..MaxFaults /\ cancels' \in 0..MaxCancels
  BY <1>1, BoundsType DEF TypeInv
<1>3. core' \in {"closing", "draining", "disconnect", "aclose", "done"} /\ why' \in {why, "cancelled"}
  BY DEF StopHeartbeat, Close, RecordError, CloseTools
<1>4. sess' \in [Sessions -> {"absent", "running", "failed", "closed", "reaped"}] /\ err' \in BOOLEAN
  BY DEF StopHeartbeat, Close, RecordError, CloseTools, Closed, TypeInv, TypeOK, trace
<1>5. core' \in {"closing", "draining"} => core \in {"stopping", "closing", "draining"}
  BY DEF StopHeartbeat, Close, RecordError, CloseTools
<1>6. /\ UNCHANGED <<att, cursor, fetched, call, final, turn, called, answer, ended, verdict>>
      /\ UNCHANGED <<log, age, finished, prompted, message, open, asked, ran>>
      /\ beat' \in {beat, "asleep"}
  BY DEF StopHeartbeat, Close, RecordError, CloseTools, trace, harness
<1>7. TypeOK'
  BY <1>2, <1>3, <1>4, <1>6 DEF TypeInv, TypeOK, Attached, Closing
<1>8. Attachment'
  BY <1>3, <1>5, <1>6 DEF TypeInv, Attachment, Attached, InCall
<1> QED
  BY <1>7, <1>8 DEF TypeInv

LEMMA SettleType ==
    ASSUME TypeInv, HubAssumption, Deliver \/ Crash \/ Recover
    PROVE  TypeInv'
<1>1. CASE Deliver
  <2>1. verdict' \in {"candidate", "blocked", "failed"}
    BY <1>1 DEF Deliver, CandidateResult
  <2> QED
    BY <1>1, <2>1 DEF Deliver, TypeInv, TypeOK, Attachment, invocation, trace, harness, bounds
<1>2. CASE Crash
  <2>1. sess' \in [Sessions -> {"absent", "running", "failed", "closed", "reaped"}]
    BY <1>2 DEF Crash, TypeInv, TypeOK
  <2>2. crashes' \in 0..MaxCrashes /\ UNCHANGED <<faults, cancels>>
    BY <1>2 DEF Crash, TypeInv, TypeOK, HubAssumption
  <2> QED
    BY <1>2, <2>1, <2>2 DEF Crash, TypeInv, TypeOK, Attachment, Attached, InCall, trace, harness
<1>3. CASE Recover
  BY <1>3 DEF Recover, TypeInv, TypeOK, Attachment, Attached, InCall, trace, harness, bounds
<1> QED
  BY <1>1, <1>2, <1>3

LEMMA LeaseType ==
    ASSUME TypeInv, HubAssumption, Tick \/ Heartbeat \/ HubRestart \/ \E s \in Sessions : Reap(s)
    PROVE  TypeInv'
<1>1. Fault \/ UNCHANGED bounds
  BY DEF Tick, Heartbeat, HubRestart, Reap, bounds
<1>2. crashes' = crashes /\ faults' \in 0..MaxFaults /\ cancels' \in 0..MaxCancels
  BY <1>1, BoundsType DEF TypeInv
<1>3. age' \in [Sessions -> 0..IdleTicks]
  <2>1. CASE Tick
    BY <2>1 DEF Tick, TypeInv, TypeOK, HubAssumption
  <2>2. CASE ~Tick
    <3>1. age' \in {age, Touch(att)}
      BY <2>2 DEF Heartbeat, HubRestart, Reap
    <3> QED
      BY <3>1, TouchType DEF TypeInv, TypeOK
  <2> QED
    BY <2>1, <2>2
<1>4. sess' \in [Sessions -> {"absent", "running", "failed", "closed", "reaped"}]
  BY DEF Tick, Heartbeat, HubRestart, Reap, TypeInv, TypeOK
<1>5. beat' \in {"asleep", "due", "waiting"}
  BY DEF Tick, Heartbeat, HubRestart, Reap, TypeInv, TypeOK
<1>6. UNCHANGED <<invocation, trace, verdict, log, finished, prompted, harness, ran>>
  BY DEF Tick, Heartbeat, HubRestart, Reap
<1> QED
  BY <1>2, <1>3, <1>4, <1>5, <1>6 DEF TypeInv, TypeOK, Attachment, invocation, trace, harness

LEMMA HarnessType ==
    ASSUME TypeInv, HubAssumption, NEW s \in Sessions, Harness(s)
    PROVE  TypeInv'
<1>1. CASE Ask(s)
  <2> PICK wanted \in SUBSET (Calls \ asked) \ {{}} :
        /\ message' = [message EXCEPT ![s] = wanted] /\ open' = [open EXCEPT ![s] = wanted]
        /\ asked' = asked \cup wanted
    BY <1>1 DEF Ask
  <2>1. wanted \subseteq Calls
    OBVIOUS
  <2>2. message' \in [Sessions -> SUBSET Calls] /\ open' \in [Sessions -> SUBSET Calls] /\ asked' \subseteq Calls
    BY <2>1 DEF TypeInv, TypeOK
  <2> QED
    BY <1>1, <2>2 DEF Ask, TypeInv, TypeOK, Attachment, invocation, trace, bounds
<1>2. CASE Issue(s) \/ HarnessSettles(s) \/ HarnessFails(s)
  <2>1. \E event \in Event : Log(s, event)
    <3>1. ASSUME NEW c \in open[s] PROVE [type |-> "call", call |-> c, alone |-> message[s] = {c}] \in Event
      <4>1. c \in Calls
        BY DEF TypeInv, TypeOK
      <4> QED
        BY <4>1 DEF Event, CallEvent
    <3>2. [type |-> "settled"] \in Event /\ [type |-> "failed"] \in Event
      BY DEF Event
    <3> QED
      BY <1>2, <3>1, <3>2 DEF Issue, HarnessSettles, HarnessFails
  <2>2. log' \in [Sessions -> Seq(Event)] /\ \A t \in Sessions : Len(log[t]) <= Len(log'[t])
    BY <2>1, LogType DEF TypeInv
  <2>3. \A t \in Sessions : Len(log[t]) \in Nat /\ Len(log'[t]) \in Nat
    <3>1. \A t \in Sessions : log[t] \in Seq(Event) /\ log'[t] \in Seq(Event)
      BY <2>2 DEF TypeInv, TypeOK
    <3> QED
      BY <3>1
  <2>4. age' \in [Sessions -> 0..IdleTicks]
    <3>1. age' \in {age, Touch(s)}
      BY <1>2 DEF Issue, HarnessSettles, HarnessFails
    <3> QED
      BY <3>1, TouchType DEF TypeInv, TypeOK
  <2>5. Fault \/ UNCHANGED bounds
    BY <1>2 DEF Issue, HarnessSettles, HarnessFails
  <2>6. crashes' = crashes /\ faults' \in 0..MaxFaults /\ cancels' \in 0..MaxCancels
    BY <2>5, BoundsType DEF TypeInv
  <2>7. sess' \in [Sessions -> {"absent", "running", "failed", "closed", "reaped"}]
    BY <1>2 DEF Issue, HarnessSettles, HarnessFails, TypeInv, TypeOK
  <2>8. UNCHANGED <<invocation, beat, trace, verdict, finished, prompted, harness, ran>>
    BY <1>2 DEF Issue, HarnessSettles, HarnessFails
  <2>9. TypeOK'
    BY <2>2, <2>4, <2>6, <2>7, <2>8 DEF TypeInv, TypeOK, invocation, trace, harness
  <2>10. Attachment'
    BY <2>2, <2>3, <2>8 DEF TypeInv, TypeOK, Attachment, invocation
  <2> QED
    BY <2>9, <2>10 DEF TypeInv
<1> QED
  BY <1>1, <1>2 DEF Harness

LEMMA TypeStep ==
    ASSUME TypeInv, HubAssumption, [Next]_vars
    PROVE  TypeInv'
<1>1. CASE Core
  BY <1>1, StartType, TraceStepType, PromptType, AnswerType, FetchType, HandleType, ExecuteType,
     EndType, SettleType DEF Core
<1>2. CASE Crash \/ Recover
  BY <1>2, SettleType
<1>3. CASE Tick \/ Heartbeat \/ HubRestart \/ \E s \in Sessions : Reap(s)
  BY <1>3, LeaseType
<1>4. CASE \E s \in Sessions : Harness(s)
  BY <1>4, HarnessType
<1>5. CASE UNCHANGED vars \/ Settled
  BY <1>5 DEF Settled, TypeInv, TypeOK, Attachment, vars, invocation, trace, harness, bounds
<1> QED
  BY <1>1, <1>2, <1>3, <1>4, <1>5 DEF Next

LEMMA TypeInit == HubAssumption /\ Init => TypeInv
<1> SUFFICES ASSUME HubAssumption, Init PROVE TypeInv
  OBVIOUS
<1>1. called \in Seq(Calls) /\ log \in [Sessions -> Seq(Event)]
  BY DEF Init
<1>2. /\ age \in [Sessions -> 0..IdleTicks]
      /\ crashes \in 0..MaxCrashes /\ faults \in 0..MaxFaults /\ cancels \in 0..MaxCancels
  BY DEF Init, HubAssumption
<1>3. /\ sess \in [Sessions -> {"absent", "running", "failed", "closed", "reaped"}]
      /\ answer \in [Calls -> {"none", "ok", "rejected"}] /\ ran \in [Calls -> Nat]
      /\ message \in [Sessions -> SUBSET Calls] /\ open \in [Sessions -> SUBSET Calls]
  BY DEF Init
<1>4. TypeOK
  BY <1>1, <1>2, <1>3 DEF Init, TypeOK
<1>5. Attachment
  BY DEF Init, Attachment, Attached, InCall
<1> QED
  BY <1>4, <1>5 DEF TypeInv

\* Every variable keeps its type, for every set of calls and every bound.
THEOREM HubTypeCorrect == Spec => []TypeOK
<1>1. Init => TypeInv
  BY TypeInit, HubAssumption
<1>2. TypeInv /\ [Next]_vars => TypeInv'
  BY TypeStep, HubAssumption
<1>3. TypeInv => TypeOK
  BY DEF TypeInv
<1> QED
  BY <1>1, <1>2, <1>3, PTL DEF Spec

-----------------------------------------------------------------------------
(* A turn that may have begun is never begun again.  The record of the turn  *)
(* separates the states in which nothing was prompted from the rest: while   *)
(* there is none, no harness was prompted, and no step leads from a          *)
(* recorded turn back to a place from which a prompt is sent.                *)

TurnRecorded ==
    /\ core \in {"ready", "record"} => ~turn
    /\ core = "prompt" => turn
    /\ ~turn \/ core = "prompt" => prompted = {}
    /\ prompted = {} \/ \E s \in Sessions : prompted = {s}

LEMMA TurnStep ==
    ASSUME TypeInv, TurnRecorded, [Next]_vars
    PROVE  TurnRecorded'
<1>1. CASE RecordTurn
  BY <1>1 DEF RecordTurn, TurnRecorded
<1>2. CASE Prompt
  <2>1. turn /\ core' \in {"follow", "stopping"} /\ prompted = {} /\ prompted' \in {prompted, prompted \cup {att}}
    BY <1>2 DEF Prompt, Request, Leave, TurnRecorded
  <2>2. att \in Sessions
    BY <1>2 DEF Prompt, TypeInv, Attachment, Attached
  <2>3. prompted' = {} \/ \E s \in Sessions : prompted' = {s}
    BY <2>1, <2>2
  <2>4. turn' = turn
    BY <1>2 DEF Prompt, trace
  <2> QED
    BY <2>1, <2>3, <2>4 DEF TurnRecorded
<1>3. ASSUME ~RecordTurn, ~Prompt PROVE TurnRecorded'
  <2>1. UNCHANGED <<prompted, turn>>
    BY <1>3 DEF Next, vars, Core, Start, Fetch, HandleSettled, EndTurn, HandleFailed, HandleCall, Execute,
       RecordResult, Answer, StopHeartbeat, Close, RecordError, CloseTools, Deliver, Crash, Recover, Tick,
       Heartbeat, HubRestart, Settled, Reap, Harness, Ask, Issue, HarnessSettles, HarnessFails, trace
  <2>2. core' \in {"ready", "record"} => core \in {"ready", "record"} \/ ~turn
    BY <1>3 DEF Next, vars, invocation, Core, Start, Fetch, Request, Leave, HandleSettled, EndTurn, HandleFailed,
       HandleCall, Execute, RecordResult, Answer, StopHeartbeat, Close, RecordError, CloseTools, Deliver,
       Crash, Recover, Tick, Heartbeat, HubRestart, Settled, Reap, Harness, Ask, Issue, HarnessSettles, HarnessFails
  <2>3. core' = "prompt" => core = "prompt"
    BY <1>3 DEF Next, vars, invocation, Core, Start, Fetch, Request, Leave, HandleSettled, EndTurn, HandleFailed,
       HandleCall, Execute, RecordResult, Answer, StopHeartbeat, Close, RecordError, CloseTools, Deliver,
       Crash, Recover, Tick, Heartbeat, HubRestart, Settled, Reap, Harness, Ask, Issue, HarnessSettles, HarnessFails
  <2> QED
    BY <2>1, <2>2, <2>3 DEF TurnRecorded
<1> QED
  BY <1>1, <1>2, <1>3

\* The prompt of an Attempt reaches one harness at most (HubRoleRunner.run).
THEOREM PromptedOnce == Spec => []NoReplay
<1>1. Init => TypeInv /\ TurnRecorded
  <2>1. Init => TurnRecorded
    BY DEF Init, TurnRecorded
  <2> QED
    BY <2>1, TypeInit, HubAssumption
<1>2. TypeInv /\ TurnRecorded /\ [Next]_vars => (TypeInv /\ TurnRecorded)'
  BY TypeStep, TurnStep, HubAssumption
<1>3. TurnRecorded => NoReplay
  <2> SUFFICES ASSUME TurnRecorded PROVE Cardinality(prompted) <= 1
    BY DEF NoReplay
  <2>1. CASE prompted = {}
    BY <2>1, FS_EmptySet
  <2>2. CASE \E s \in Sessions : prompted = {s}
    BY <2>2, FS_Singleton
  <2> QED
    BY <2>1, <2>2 DEF TurnRecorded
<1> QED
  BY <1>1, <1>2, <1>3, PTL DEF Spec

-----------------------------------------------------------------------------
(* A restart is local.  What the host executes was on the trace before it,   *)
(* so a trace without a nonlocal call proves that none had its effect.       *)

OnTrace(c) == \E i \in 1..Len(called) : called[i] = c

EffectsOnTrace ==
    /\ \A c \in Calls : ran[c] > 0 => OnTrace(c)
    /\ core = "called" => OnTrace(call.call)
    /\ verdict = "restart" => core = "off" /\ ~HasNonlocalEffects

LEMMA EffectStep ==
    ASSUME TypeInv, EffectsOnTrace, [Next]_vars
    PROVE  EffectsOnTrace'
<1>0. called \in Seq(Calls) /\ ran \in [Calls -> Nat]
  BY DEF TypeInv, TypeOK
<1>1. CASE HandleCall
  <2>1. core = "follow" /\ core' \in {"called", "stopping"} /\ ran' = ran /\ verdict' = verdict
    BY <1>1 DEF HandleCall, Handles, Leave
  <2>2. verdict # "restart"
    BY <2>1 DEF EffectsOnTrace
  <2>3. CASE final
    BY <1>1, <2>1, <2>2, <2>3 DEF HandleCall, Leave, EffectsOnTrace, OnTrace
  <2>4. CASE ~final
    <3>1. called' = Append(called, call'.call) /\ call' = log[att][cursor + 1]
      BY <1>1, <2>4 DEF HandleCall
    <3>2. TypeInv'
      BY <1>1, HandleType
    <3>3. core' = "called"
      BY <1>1, <2>4 DEF HandleCall
    <3>4. call'.call \in Calls
      BY <3>2, <3>3 DEF TypeInv, Attachment, InCall, CallEvent
    <3>5. Len(called') = Len(called) + 1 /\ called'[Len(called) + 1] = call'.call
          /\ \A i \in 1..Len(called) : called'[i] = called[i]
      BY <1>0, <3>1, <3>4
    <3>6. Len(called) \in Nat
      BY <1>0
    <3>7. \A c : OnTrace(c) => OnTrace(c)'
      BY <3>5, <3>6 DEF OnTrace
    <3>8. OnTrace(call.call)'
      BY <3>5, <3>6 DEF OnTrace
    <3> QED
      BY <2>1, <2>2, <3>7, <3>8 DEF EffectsOnTrace
  <2> QED
    BY <2>3, <2>4
<1>2. CASE Execute
  <2>1. core = "called" /\ core' \in {"executed", "accepted", "stopping"} /\ verdict' = verdict /\ called' = called
    BY <1>2 DEF Execute, Leave, trace
  <2>2. ran' \in {ran, [ran EXCEPT ![call.call] = @ + 1]}
    BY <1>2 DEF Execute
  <2>3. \A c \in Calls : ran'[c] > 0 => ran[c] > 0 \/ c = call.call
    BY <1>0, <2>2
  <2> QED
    BY <2>1, <2>3 DEF EffectsOnTrace, OnTrace
<1>3. CASE Recover
  BY <1>3 DEF Recover, EffectsOnTrace, OnTrace, HasNonlocalEffects, trace
<1>4. ASSUME ~HandleCall, ~Execute, ~Recover PROVE EffectsOnTrace'
  <2>1. UNCHANGED <<called, ran>>
    BY <1>4 DEF Next, vars, Core, Start, RecordTurn, Prompt, Fetch, HandleSettled, EndTurn, HandleFailed,
       RecordResult, Answer, StopHeartbeat, Close, RecordError, CloseTools, Deliver, Crash, Tick,
       Heartbeat, HubRestart, Settled, Reap, Harness, Ask, Issue, HarnessSettles, HarnessFails, trace
  <2>2. core' = "called" => core = "called" /\ call' = call
    BY <1>4 DEF Next, vars, invocation, Core, Start, RecordTurn, Prompt, Fetch, Request, Leave, HandleSettled,
       EndTurn, HandleFailed, RecordResult, Answer, StopHeartbeat, Close, RecordError, CloseTools, Deliver,
       Crash, Tick, Heartbeat, HubRestart, Settled, Reap, Harness, Ask, Issue, HarnessSettles, HarnessFails
  <2>3. verdict' = "restart" => verdict = "restart"
    BY <1>4 DEF Next, vars, invocation, Core, Start, RecordTurn, Prompt, Fetch, HandleSettled, EndTurn,
       HandleFailed, RecordResult, Answer, StopHeartbeat, Close, RecordError, CloseTools, Deliver,
       CandidateResult, Crash, Tick, Heartbeat, HubRestart, Settled, Reap, Harness, Ask, Issue,
       HarnessSettles, HarnessFails
  <2>4. core = "off" => core' = "off"
    BY <1>4 DEF Next, vars, invocation, Core, Start, RecordTurn, Prompt, Fetch, Awaiting, HandleSettled, EndTurn,
       HandleFailed, Handles, RecordResult, Answer, StopHeartbeat, Close, RecordError, CloseTools, Deliver,
       Crash, Tick, Heartbeat, HubRestart, Settled, Reap, Harness, Ask, Issue, HarnessSettles, HarnessFails
  <2> QED
    BY <2>1, <2>2, <2>3, <2>4 DEF EffectsOnTrace, OnTrace, HasNonlocalEffects
<1> QED
  BY <1>1, <1>2, <1>3, <1>4

\* An Attempt is restarted only when nothing it did can be seen outside of its workspace.
THEOREM RestartsAreLocal == Spec => []RestartIsLocal
<1>1. Init => TypeInv /\ EffectsOnTrace
  <2>1. Init => EffectsOnTrace
    BY DEF Init, EffectsOnTrace, OnTrace
  <2> QED
    BY <2>1, TypeInit, HubAssumption
<1>2. TypeInv /\ EffectsOnTrace /\ [Next]_vars => (TypeInv /\ EffectsOnTrace)'
  BY TypeStep, EffectStep, HubAssumption
<1>3. TypeInv /\ EffectsOnTrace => RestartIsLocal
  <2> SUFFICES ASSUME TypeInv, EffectsOnTrace, verdict = "restart", NEW c \in Nonlocal
               PROVE  ran[c] = 0
    BY DEF RestartIsLocal
  <2>1. c \in Calls /\ ran[c] \in Nat
    BY DEF Calls, TypeInv, TypeOK
  <2>2. ~OnTrace(c)
    BY DEF EffectsOnTrace, HasNonlocalEffects, OnTrace
  <2> QED
    BY <2>1, <2>2 DEF EffectsOnTrace
<1> QED
  BY <1>1, <1>2, <1>3, PTL DEF Spec

-----------------------------------------------------------------------------
(* The lease.  Between two heartbeats of an attached core its session grows  *)
(* one interval older.  A heartbeat that is lost adds two: the interval of    *)
(* its timeout, which a waiting task has yet to see, and another sleep.       *)

\* every life of the core has a session number of its own
Fresh ==
    /\ core \in Attached => att = crashes + 1
    /\ \A s \in Sessions : s > crashes + 1 \/ (s = crashes + 1 /\ core \in {"off", "ready"})
           => sess[s] = "absent" /\ s \notin prompted /\ log[s] = <<>>
    /\ \A s \in Sessions : sess[s] = "absent" => age[s] = 0
    /\ att \in {0, crashes + 1}

Lead ==
    /\ age[att] <= 2 * faults + 1
    /\ beat = "asleep" => age[att] <= 2 * faults
    /\ beat = "waiting" => age[att] + 1 <= 2 * faults

LeaseInv ==
    /\ core \notin Attached \cup {"stopping"} => beat = "asleep"
    /\ core \in Attached /\ Listed(att) => Lead
    /\ KeptAlive

LEMMA FreshStep ==
    ASSUME TypeInv, HubAssumption, Fresh, [Next]_vars
    PROVE  Fresh'
<1>0. crashes \in Nat /\ crashes + 1 \in Sessions
  BY SessionNumbers, HubAssumption DEF TypeInv, TypeOK
<1>1. CASE Start
  <2>1. /\ core = "ready" /\ core' \in {"record", "disconnect"} /\ att' \in {att, crashes + 1}
        /\ core' = "record" => att' = crashes + 1
        /\ sess' \in {sess, [sess EXCEPT ![crashes + 1] = "running"]}
        /\ UNCHANGED <<age, prompted, log>> /\ crashes' = crashes
    BY <1>1 DEF Start, Fault, Cancelled, bounds
  <2> QED
    BY <1>0, <2>1 DEF Fresh, TypeInv, TypeOK, Attached
<1>2. CASE Crash
  <2>1. /\ core' = "off" /\ att' = 0 /\ crashes' = crashes + 1 /\ UNCHANGED <<age, prompted, log>>
        /\ \A s \in Sessions : sess'[s] = sess[s] \/ (Listed(s) /\ sess'[s] = "closed")
    BY <1>2 DEF Crash
  <2>2. \A s \in Sessions : s >= crashes' + 1 => s > crashes + 1
    BY <1>0, <2>1, HubAssumption DEF Sessions
  <2>3. \A s \in Sessions : s > crashes' + 1 \/ s = crashes' + 1
           => sess'[s] = "absent" /\ s \notin prompted /\ log[s] = <<>>
    BY <1>0, <2>1, <2>2, HubAssumption DEF Fresh, Listed, Sessions
  <2> QED
    BY <2>1, <2>3 DEF Fresh, Listed, Attached
<1>3. CASE Recover
  BY <1>3 DEF Recover, Fresh, Attached, bounds
<1>4. CASE Prompt
  <2>1. /\ core = "prompt" /\ core' \in {"follow", "stopping"} /\ prompted' \in {prompted, prompted \cup {att}}
        /\ age' \in {age, Touch(att)} /\ UNCHANGED <<sess, log, att>> /\ crashes' = crashes
    BY <1>4 DEF Prompt, Request, Leave, Fault, Cancelled, bounds
  <2> QED
    BY <1>0, <2>1 DEF Fresh, Touch, Attached, TypeInv, TypeOK
<1>5. CASE \E s \in Sessions : Harness(s)
  <2> PICK s \in Sessions : Harness(s)
    BY <1>5
  <2>1. sess[s] = "running" /\ UNCHANGED <<core, att, prompted>> /\ crashes' = crashes
    BY DEF Harness, Ask, Issue, HarnessSettles, HarnessFails, Active, Fault, bounds, invocation
  <2>2. sess' \in {sess, [sess EXCEPT ![s] = "failed"]} /\ age' \in {age, Touch(s)}
        /\ (log' = log \/ \E event : log' = [log EXCEPT ![s] = Append(@, event)])
    BY DEF Harness, Ask, Issue, HarnessSettles, HarnessFails, Log
  <2> QED
    BY <2>1, <2>2 DEF Fresh, Touch, TypeInv, TypeOK
<1>6. CASE Tick \/ Heartbeat \/ HubRestart \/ Settled \/ (\E s \in Sessions : Reap(s)) \/ UNCHANGED vars
  <2>1. UNCHANGED <<core, att, prompted, log>> /\ crashes' = crashes
    BY <1>6 DEF Tick, Heartbeat, HubRestart, Settled, Reap, vars, invocation, bounds, Fault
  <2>2. \A s \in Sessions : sess'[s] = sess[s] \/ (Listed(s) /\ sess'[s] \in {"closed", "reaped"})
    BY <1>6 DEF Tick, Heartbeat, HubRestart, Settled, Reap, vars, TypeInv, TypeOK
  <2>3. \A s \in Sessions : age'[s] \in {age[s], 0} \/ Listed(s)
    BY <1>6 DEF Tick, Heartbeat, HubRestart, Settled, Reap, vars, Touch, TypeInv, TypeOK
  <2> QED
    BY <2>1, <2>2, <2>3 DEF Fresh, Listed
<1>7. ASSUME Core, ~Start, ~Prompt PROVE Fresh'
  <2>1. UNCHANGED <<att, prompted, log>> /\ crashes' = crashes
    BY <1>7 DEF Core, RecordTurn, Fetch, Request, HandleSettled, EndTurn, HandleFailed, HandleCall, Execute,
       RecordResult, Answer, StopHeartbeat, Close, RecordError, CloseTools, Deliver, Fault, Cancelled, bounds, invocation
  <2>2. age' \in {age, Touch(att)} /\ sess' \in {sess, Closed(att)}
    BY <1>7 DEF Core, RecordTurn, Fetch, Request, HandleSettled, EndTurn, HandleFailed, HandleCall, Execute,
       RecordResult, Answer, StopHeartbeat, Close, RecordError, CloseTools, Deliver
  <2>3. core' \notin {"off", "ready"} /\ (core' \in Attached => core \in Attached)
    BY <1>7 DEF Core, RecordTurn, Fetch, Awaiting, Request, HandleSettled, EndTurn, HandleFailed, HandleCall, Handles, Execute,
       RecordResult, Answer, StopHeartbeat, Close, RecordError, CloseTools, Deliver, Leave, Attached, invocation
  <2>4. \A s \in Sessions : sess[s] = "absent" => sess'[s] = "absent"
    BY <2>2 DEF Closed, Listed, TypeInv, TypeOK
  <2>5. \A s \in Sessions : sess'[s] = "absent" => sess[s] = "absent"
    BY <2>2 DEF Closed, Listed, TypeInv, TypeOK
  <2>6. \A s \in Sessions : age'[s] \in {age[s], 0}
    BY <2>2 DEF Touch, TypeInv, TypeOK
  <2> QED
    BY <2>1, <2>3, <2>4, <2>5, <2>6 DEF Fresh
<1> QED
  BY <1>1, <1>2, <1>3, <1>4, <1>5, <1>6, <1>7 DEF Next

\* a step that reaps nothing only adds faults
LEMMA MoreFaults ==
    ASSUME LeaseInv, HubAssumption, faults \in Nat, faults' \in {faults, faults + 1},
           core' \in Attached /\ sess'[att'] = "reaped" => core \in Attached /\ sess[att] = "reaped"
    PROVE  KeptAlive'
<1> SUFFICES ASSUME core' \in Attached /\ sess'[att'] = "reaped" PROVE IdleTicks <= 2 * faults' + 1
  BY DEF KeptAlive
<1>1. IdleTicks <= 2 * faults + 1
  BY DEF LeaseInv, KeptAlive
<1>2. IdleTicks \in Nat
  BY DEF HubAssumption
<1>3. CASE faults' = faults
  BY <1>1, <1>3
<1>4. CASE faults' = faults + 1
  BY <1>1, <1>2, <1>4
<1> QED
  BY <1>3, <1>4

\* what the steps of the core do to its session's lease
LEMMA CoreLease ==
    ASSUME TypeInv, HubAssumption, Fresh, LeaseInv, Core
    PROVE  LeaseInv'
<1>0. crashes + 1 \in Sessions /\ faults \in Nat /\ IdleTicks \in Nat
  BY SessionNumbers, HubAssumption DEF TypeInv, TypeOK, HubAssumption
<1>1. faults' \in {faults, faults + 1} /\ (beat' = beat \/ (core = "stopping" /\ beat' = "asleep"))
  BY DEF Core, Start, RecordTurn, Prompt, Fetch, Request, HandleSettled, EndTurn, HandleFailed, HandleCall, Execute,
     RecordResult, Answer, StopHeartbeat, Close, RecordError, CloseTools, Deliver, Fault, Cancelled, bounds
<1>2. CASE Start
  <2>1. core = "ready" /\ age' = age /\ (core' \in Attached => att' = crashes + 1 /\ sess'[crashes + 1] = "running")
    BY <1>0, <1>2 DEF Start, Attached, TypeInv, TypeOK
  <2>2. age[crashes + 1] = 0
    BY <1>0, <2>1 DEF Fresh
  <2>3. beat = "asleep" /\ beat' = "asleep"
    BY <1>1, <2>1 DEF LeaseInv, Attached
  <2>4. core' \in Attached => Lead'
    BY <1>0, <1>1, <2>1, <2>2, <2>3 DEF Lead
  <2> QED
    BY <1>0, <1>1, <2>1, <2>3, <2>4 DEF LeaseInv, KeptAlive
<1>3. CASE ~Start
  <2>1. att' = att /\ (core' \in Attached => core \in Attached /\ sess' = sess)
    BY <1>3 DEF Core, RecordTurn, Prompt, Fetch, Awaiting, Request, HandleSettled, EndTurn, HandleFailed, HandleCall, Handles,
       Execute, RecordResult, Answer, StopHeartbeat, Close, RecordError, CloseTools, Deliver, Leave, Attached, invocation
  <2>2. age' \in {age, Touch(att)}
    BY <1>3 DEF Core, RecordTurn, Prompt, Fetch, Request, HandleSettled, EndTurn, HandleFailed, HandleCall, Execute,
       RecordResult, Answer, StopHeartbeat, Close, RecordError, CloseTools, Deliver
  <2>3. ASSUME core' \in Attached PROVE age'[att] <= age[att] /\ age[att] \in Nat /\ age'[att] \in Nat
    <3>1. att \in Sessions
      BY <2>1, <2>3 DEF TypeInv, Attachment
    <3>2. age \in [Sessions -> Nat]
      BY HubAssumption DEF TypeInv, TypeOK
    <3> QED
      BY <2>2, <3>1, <3>2 DEF Touch
  <2>4. ASSUME core' \in Attached, Listed(att)' PROVE Lead'
    <3>1. Lead /\ beat' = beat /\ att' = att
      BY <1>1, <2>1, <2>4 DEF LeaseInv, Listed, Attached
    <3>2. age'[att] <= age[att] /\ age[att] \in Nat /\ age'[att] \in Nat
      BY <2>3, <2>4
    <3> QED
      BY <1>0, <1>1, <3>1, <3>2 DEF Lead
  <2>5. KeptAlive'
    BY <1>0, <1>1, <2>1, MoreFaults
  <2>6. core' \notin Attached \cup {"stopping"} => beat' = "asleep"
    BY <1>1, <1>3 DEF LeaseInv, Core, RecordTurn, Prompt, Fetch, Awaiting, Request, HandleSettled, EndTurn, HandleFailed,
       HandleCall, Handles, Execute, RecordResult, Answer, StopHeartbeat, Close, RecordError, CloseTools, Deliver, Leave,
       Attached, invocation
  <2> QED
    BY <2>4, <2>5, <2>6 DEF LeaseInv
<1> QED
  BY <1>2, <1>3

LEMMA LeaseStep ==
    ASSUME TypeInv, HubAssumption, Fresh, LeaseInv, [Next]_vars
    PROVE  LeaseInv'
<1>0. /\ faults \in Nat /\ age \in [Sessions -> Nat] /\ IdleTicks \in Nat /\ IdleTicks >= 3
      /\ beat \in {"asleep", "due", "waiting"} /\ (core \in Attached => att \in Sessions)
  BY HubAssumption DEF TypeInv, TypeOK, Attachment
<1>1. CASE Core
  BY <1>1, CoreLease
<1>2. CASE Crash \/ Recover
  BY <1>2 DEF Crash, Recover, LeaseInv, KeptAlive, Attached, bounds
<1>3. CASE Tick
  <2>1. UNCHANGED <<core, att, sess>> /\ \A s \in Sessions : age'[s] <= age[s] + 1 /\ age'[s] \in Nat
    BY <1>0, <1>3 DEF Tick, invocation
  <2>2. \/ beat = "asleep" /\ beat' = (IF core \in Attached THEN "due" ELSE "asleep") /\ faults' = faults
        \/ beat = "waiting" /\ beat' = "asleep" /\ faults' = faults
        \/ core \in Attached /\ faults' = faults + 1 /\ beat' = beat
    BY <1>3 DEF Tick, Fault, bounds
  <2>3. ASSUME core \in Attached, Listed(att) PROVE Lead'
    <3>1. Lead /\ att' = att /\ age[att] \in Nat /\ age'[att] <= age[att] + 1 /\ age'[att] \in Nat
      BY <1>0, <2>1, <2>3 DEF LeaseInv
    <3>2. CASE beat = "asleep" /\ beat' = "due" /\ faults' = faults
      BY <1>0, <3>1, <3>2 DEF Lead
    <3>3. CASE beat = "waiting" /\ beat' = "asleep" /\ faults' = faults
      BY <1>0, <3>1, <3>3 DEF Lead
    <3>4. CASE faults' = faults + 1 /\ beat' = beat
      BY <1>0, <3>1, <3>4 DEF Lead
    <3> QED
      BY <2>2, <2>3, <3>2, <3>3, <3>4
  <2>4. KeptAlive'
    BY <1>0, <2>1, <2>2, MoreFaults
  <2>5. core' \notin Attached \cup {"stopping"} => beat' = "asleep"
    BY <2>1, <2>2 DEF LeaseInv
  <2> QED
    BY <2>1, <2>3, <2>4, <2>5 DEF LeaseInv, Listed
<1>4. CASE Heartbeat
  <2>1. UNCHANGED <<core, att, sess>> /\ core \in Attached /\ beat = "due"
        /\ faults' \in {faults, faults + 1}
    BY <1>4 DEF Heartbeat, invocation, bounds, Fault
  <2>2. ASSUME Listed(att) PROVE Lead'
    <3>1. Lead /\ att' = att /\ age[att] \in Nat
      BY <1>0, <2>1, <2>2 DEF LeaseInv
    <3>2. age'[att] \in {age[att], 0}
      BY <1>0, <1>4, <2>1 DEF Heartbeat, Touch
    <3>3. \/ age'[att] = 0 /\ beat' = "asleep" /\ faults' = faults
          \/ beat' \in {"asleep", "waiting"} /\ faults' = faults + 1
      BY <1>0, <1>4, <2>1, <2>2 DEF Heartbeat, Touch, Fault, bounds
    <3> QED
      BY <1>0, <3>1, <3>2, <3>3 DEF Lead
  <2>3. KeptAlive'
    BY <1>0, <2>1, MoreFaults
  <2> QED
    BY <2>1, <2>2, <2>3 DEF LeaseInv, Listed
<1>5. CASE \E s \in Sessions : Reap(s)
  <2> PICK s \in Sessions : Reap(s)
    BY <1>5
  <2>1. /\ UNCHANGED <<core, att, beat, age, faults>> /\ Listed(s) /\ age[s] >= IdleTicks
        /\ sess' = [sess EXCEPT ![s] = "reaped"]
    BY DEF Reap, Reapable, invocation, bounds
  <2>2. core \in Attached /\ s = att => IdleTicks <= 2 * faults + 1
    BY <1>0, <2>1 DEF LeaseInv, Lead
  <2> QED
    BY <1>0, <2>1, <2>2 DEF LeaseInv, Lead, KeptAlive, Listed, TypeInv, TypeOK
<1>6. CASE HubRestart
  <2>1. UNCHANGED <<core, att, beat, age>> /\ faults' = faults + 1
        /\ \A s \in Sessions : sess'[s] = IF Listed(s) THEN "closed" ELSE sess[s]
    BY <1>6 DEF HubRestart, Fault, invocation
  <2> QED
    BY <1>0, <2>1 DEF LeaseInv, Lead, KeptAlive, Listed
<1>7. CASE \E s \in Sessions : Harness(s)
  <2> PICK s \in Sessions : Harness(s)
    BY <1>7
  <2>1. UNCHANGED <<core, att, beat>> /\ faults' \in {faults, faults + 1} /\ age' \in {age, Touch(s)}
        /\ (sess' = sess \/ (sess[s] = "running" /\ sess' = [sess EXCEPT ![s] = "failed"]))
    BY DEF Harness, Ask, Issue, HarnessSettles, HarnessFails, Fault, bounds, invocation
  <2>2. \A t \in Sessions : age'[t] <= age[t] /\ age'[t] \in Nat
    BY <1>0, <2>1 DEF Touch
  <2>3. ASSUME core \in Attached, Listed(att)' PROVE Lead'
    <3>0. Listed(att) /\ att \in Sessions
      BY <1>0, <2>1, <2>3 DEF Listed, TypeInv, TypeOK
    <3>1. Lead /\ att' = att /\ age[att] \in Nat /\ age'[att] <= age[att] /\ age'[att] \in Nat
      BY <1>0, <2>1, <2>2, <2>3, <3>0 DEF LeaseInv
    <3> QED
      BY <1>0, <2>1, <3>1 DEF Lead
  <2>4. KeptAlive'
    <3>1. core \in Attached /\ sess'[att] = "reaped" => sess[att] = "reaped"
      BY <1>0, <2>1 DEF TypeInv, TypeOK
    <3> QED
      BY <1>0, <2>1, <3>1, MoreFaults
  <2> QED
    BY <2>1, <2>3, <2>4 DEF LeaseInv
<1>8. CASE Settled \/ UNCHANGED vars
  BY <1>8 DEF Settled, vars, invocation, bounds, LeaseInv, Lead, KeptAlive, Listed
<1> QED
  BY <1>1, <1>2, <1>3, <1>4, <1>5, <1>6, <1>7, <1>8 DEF Next

\* the invariants that hold of every invocation, shown together with its types
LeaseKept == TypeInv /\ Fresh /\ LeaseInv

LEMMA LeaseInit == HubAssumption /\ Init => LeaseKept
<1> SUFFICES ASSUME HubAssumption, Init PROVE LeaseKept
  OBVIOUS
<1>1. TypeInv
  BY TypeInit
<1>2. Fresh /\ LeaseInv
  BY DEF HubAssumption, Init, Fresh, LeaseInv, Lead, KeptAlive, Attached, Listed, Sessions
<1> QED
  BY <1>1, <1>2 DEF LeaseKept

LEMMA LeaseKeeps == HubAssumption /\ LeaseKept /\ [Next]_vars => LeaseKept'
BY TypeStep, FreshStep, LeaseStep DEF LeaseKept

LEMMA LeaseAlways == Spec => []LeaseKept
<1>1. Init => LeaseKept
  BY LeaseInit, HubAssumption
<1>2. LeaseKept /\ [Next]_vars => LeaseKept'
  BY LeaseKeeps, HubAssumption
<1> QED
  BY <1>1, <1>2, PTL DEF Spec

\* An attached core loses its session to the idle limit only after so many faults that two
\* intervals for each reach the limit, whatever it is doing (HubRoleRunner._heartbeat, Hub.reap).
THEOREM SessionsAreKept == Spec => []KeptAlive
BY LeaseAlways, PTL DEF LeaseKept, LeaseInv

-----------------------------------------------------------------------------
(* Calls.  The model asks for a call in one message of one session, so that  *)
(* the call has one place in one log; the core goes over a log once.         *)

\* the i-th event of session s is call c
Logged(c, s, i) == log[s][i].type = "call" /\ log[s][i].call = c

AskedOnce ==
    /\ \A s \in Sessions : open[s] \subseteq asked
    /\ \A s, t \in Sessions : s # t => open[s] \cap open[t] = {}
    /\ \A s \in Sessions : \A i \in 1..Len(log[s]) : \A c \in Calls : Logged(c, s, i) =>
           /\ c \in asked
           /\ \A t \in Sessions \ {s} : c \notin open[t]
    /\ \A s, t \in Sessions : \A i \in 1..Len(log[s]), j \in 1..Len(log[t]) : \A c \in Calls :
           Logged(c, s, i) /\ Logged(c, t, j) => s = t /\ i = j

\* the core has been past this call, in this life or in an earlier one
Passed(c) ==
    \E s \in Sessions : \E i \in 1..Len(log[s]) :
        Logged(c, s, i) /\ (s <= crashes \/ (s = att /\ i <= cursor))

RunOnce ==
    /\ \A c \in Calls : ran[c] <= 1 /\ (ran[c] = 1 => Passed(c))
    /\ core = "called" => cursor > 0 /\ call = log[att][cursor] /\ ran[call.call] = 0

LEMMA LogAppends ==
    ASSUME TypeInv, NEW s \in Sessions, NEW event \in Event, Log(s, event)
    PROVE  /\ \A t \in Sessions : t # s => log'[t] = log[t]
           /\ Len(log'[s]) = Len(log[s]) + 1 /\ Len(log[s]) \in Nat
           /\ \A i \in 1..Len(log[s]) : log'[s][i] = log[s][i]
           /\ log'[s][Len(log[s]) + 1] = event
<1>1. log \in [Sessions -> Seq(Event)] /\ log[s] \in Seq(Event)
  BY DEF TypeInv, TypeOK
<1>2. log'[s] = Append(log[s], event) /\ \A t \in Sessions : t # s => log'[t] = log[t]
  BY <1>1 DEF Log
<1> QED
  BY <1>1, <1>2

\* the event that a step of the harness adds
LEMMA HarnessEvent ==
    ASSUME TypeInv, NEW s \in Sessions, Issue(s) \/ HarnessSettles(s) \/ HarnessFails(s)
    PROVE  \E event \in Event : /\ Log(s, event) /\ (event.type = "call" => Issue(s))
                                /\ event.type = "failed" => HarnessFails(s)
<1>1. CASE Issue(s)
  <2>1. \A c \in open[s] : c \in Calls
    BY DEF TypeInv, TypeOK
  <2>2. \E c \in open[s] : Log(s, [type |-> "call", call |-> c, alone |-> message[s] = {c}])
    BY <1>1 DEF Issue
  <2>3. \E event \in CallEvent : Log(s, event)
    BY <2>1, <2>2 DEF CallEvent
  <2>4. \A event \in CallEvent : event \in Event /\ event.type = "call"
    BY DEF Event, CallEvent
  <2> QED
    BY <1>1, <2>3, <2>4
<1>2. CASE HarnessSettles(s) \/ HarnessFails(s)
  BY <1>2 DEF HarnessSettles, HarnessFails, Event
<1> QED
  BY <1>1, <1>2

\* logs only grow
LEMMA LogsGrow ==
    ASSUME TypeInv, [Next]_vars
    PROVE  \A s \in Sessions :
               /\ Len(log[s]) \in Nat /\ Len(log'[s]) \in Nat /\ Len(log[s]) <= Len(log'[s])
               /\ \A i \in 1..Len(log[s]) : log'[s][i] = log[s][i]
<1>0. \A s \in Sessions : Len(log[s]) \in Nat
  BY DEF TypeInv, TypeOK
<1>1. CASE \E s \in Sessions : Issue(s) \/ HarnessSettles(s) \/ HarnessFails(s)
  <2> PICK s \in Sessions : Issue(s) \/ HarnessSettles(s) \/ HarnessFails(s)
    BY <1>1
  <2> PICK event \in Event : Log(s, event)
    BY HarnessEvent
  <2> QED
    BY <1>0, LogAppends
<1>2. ASSUME ~\E s \in Sessions : Issue(s) \/ HarnessSettles(s) \/ HarnessFails(s)
      PROVE  log' = log
  BY <1>2 DEF Next, vars, Core, Start, RecordTurn, Prompt, Fetch, HandleSettled, EndTurn, HandleFailed, HandleCall,
     Execute, RecordResult, Answer, StopHeartbeat, Close, RecordError, CloseTools, Deliver, Crash, Recover, Tick,
     Heartbeat, HubRestart, Settled, Reap, Harness, Ask
<1> QED
  BY <1>0, <1>1, <1>2

\* which steps change what the harness is about
LEMMA HarnessFrame ==
    ASSUME [Next]_vars, ~Answer, ~\E s \in Sessions : Harness(s)
    PROVE  UNCHANGED <<log, message, open, asked, finished>>
BY DEF Next, vars, Core, Start, RecordTurn, Prompt, Fetch, HandleSettled, EndTurn, HandleFailed, HandleCall,
   Execute, RecordResult, StopHeartbeat, Close, RecordError, CloseTools, Deliver, Crash, Recover, Tick,
   Heartbeat, HubRestart, Settled, Reap, harness

\* an answer that the harness receives
LEMMA AnswerOpens ==
    ASSUME TypeInv, Answer
    PROVE  /\ UNCHANGED <<log, message, asked, att, cursor, call, final>> /\ att \in Sessions
           /\ \A s \in Sessions : open'[s] \subseteq open[s]
           /\ core' # "stopping" => open' = [open EXCEPT ![att] = @ \ {call.call}]
<1>1. att \in Sessions /\ open \in [Sessions -> SUBSET Calls]
  BY DEF Answer, TypeInv, TypeOK, Attachment, Attached
<1> QED
  BY <1>1 DEF Answer, Request, Leave

\* a call that arrives is one of the message, for the first time
LEMMA IssuedCall ==
    ASSUME TypeInv, NEW s \in Sessions, NEW event \in Event, Log(s, event), event.type = "call" => Issue(s)
    PROVE  event.type = "call" =>
               /\ event.call \in open[s] /\ event.alone = (message[s] = {event.call})
               /\ \A i \in 1..Len(log[s]) : ~Logged(event.call, s, i)
<1> SUFFICES ASSUME event.type = "call"
             PROVE  /\ event.call \in open[s] /\ event.alone = (message[s] = {event.call})
                    /\ \A i \in 1..Len(log[s]) : ~Logged(event.call, s, i)
  OBVIOUS
<1> PICK c \in open[s] : (\A i \in 1..Len(log[s]) : log[s][i].call # c)
                          /\ Log(s, [type |-> "call", call |-> c, alone |-> message[s] = {c}])
  BY DEF Issue
<1>1. c \in Calls
  BY DEF TypeInv, TypeOK
<1>2. [type |-> "call", call |-> c, alone |-> message[s] = {c}] \in Event
  BY <1>1 DEF Event, CallEvent
<1>3. log'[s][Len(log[s]) + 1] = [type |-> "call", call |-> c, alone |-> message[s] = {c}]
  BY <1>2, LogAppends
<1>4. event = [type |-> "call", call |-> c, alone |-> message[s] = {c}]
  BY <1>3, LogAppends
<1> QED
  BY <1>4 DEF Logged

LEMMA AskedStep ==
    ASSUME TypeInv, AskedOnce, [Next]_vars
    PROVE  AskedOnce'
<1>0. open \in [Sessions -> SUBSET Calls] /\ asked \subseteq Calls
  BY DEF TypeInv, TypeOK
<1>1. CASE Answer
  BY <1>1, AnswerOpens DEF AskedOnce, Logged
<1>2. ASSUME NEW s \in Sessions, Ask(s) PROVE AskedOnce'
  <2> PICK wanted \in SUBSET (Calls \ asked) \ {{}} :
        /\ open' = [open EXCEPT ![s] = wanted] /\ asked' = asked \cup wanted
    BY <1>2 DEF Ask
  <2>1. log' = log
    BY <1>2 DEF Ask
  <2>2. open'[s] = wanted /\ \A t \in Sessions : t # s => open'[t] = open[t]
    BY <1>0
  <2> QED
    BY <2>1, <2>2 DEF AskedOnce, Logged
<1>3. ASSUME NEW s \in Sessions, Issue(s) \/ HarnessSettles(s) \/ HarnessFails(s) PROVE AskedOnce'
  <2> PICK event \in Event : Log(s, event) /\ (event.type = "call" => Issue(s))
    BY <1>3, HarnessEvent
  <2>1. UNCHANGED <<open, asked>>
    BY <1>3 DEF Issue, HarnessSettles, HarnessFails, harness
  <2>2. /\ \A t \in Sessions : t # s => log'[t] = log[t]
        /\ Len(log'[s]) = Len(log[s]) + 1 /\ Len(log[s]) \in Nat
        /\ \A i \in 1..Len(log[s]) : log'[s][i] = log[s][i]
        /\ log'[s][Len(log[s]) + 1] = event
    BY LogAppends
  <2>3. ASSUME NEW t \in Sessions, NEW i \in 1..Len(log'[t]), NEW c \in Calls, Logged(c, t, i)'
        PROVE  \/ i \in 1..Len(log[t]) /\ Logged(c, t, i)
               \/ t = s /\ i = Len(log[s]) + 1 /\ event.type = "call" /\ event.call = c
    BY <2>2, <2>3 DEF Logged
  <2>4. ASSUME event.type = "call"
        PROVE  event.call \in open[s] /\ \A i \in 1..Len(log[s]) : ~Logged(event.call, s, i)
    BY <2>4, IssuedCall
  <2>5. \A t \in Sessions : \A i \in 1..Len(log'[t]), c \in Calls : Logged(c, t, i)' =>
            c \in asked /\ \A u \in Sessions \ {t} : c \notin open[u]
    BY <1>0, <2>3, <2>4 DEF AskedOnce
  <2>6. \A t, u \in Sessions : \A i \in 1..Len(log'[t]), j \in 1..Len(log'[u]) : \A c \in Calls :
            Logged(c, t, i)' /\ Logged(c, u, j)' => t = u /\ i = j
    <3> SUFFICES ASSUME NEW t \in Sessions, NEW u \in Sessions, NEW i \in 1..Len(log'[t]),
                        NEW j \in 1..Len(log'[u]), NEW c \in Calls, Logged(c, t, i)', Logged(c, u, j)'
                 PROVE  t = u /\ i = j
      OBVIOUS
    <3>1. CASE i \in 1..Len(log[t]) /\ Logged(c, t, i) /\ j \in 1..Len(log[u]) /\ Logged(c, u, j)
      BY <3>1 DEF AskedOnce
    <3>2. \A v \in Sessions : \A k \in 1..Len(log[v]) :
              ~(event.type = "call" /\ event.call = c /\ Logged(c, v, k))
      BY <2>4 DEF AskedOnce
    <3> QED
      BY <2>3, <3>1, <3>2
  <2> QED
    BY <2>1, <2>5, <2>6 DEF AskedOnce
<1>4. CASE ~Answer /\ ~\E s \in Sessions : Harness(s)
  BY <1>4, HarnessFrame DEF AskedOnce, Logged
<1> QED
  BY <1>1, <1>2, <1>3, <1>4 DEF Harness

\* a core that was past a call stays so
LEMMA PassedStays ==
    ASSUME TypeInv, HubAssumption, Fresh, [Next]_vars, NEW c \in Calls, Passed(c)
    PROVE  Passed(c)'
<1> PICK s \in Sessions : \E i \in 1..Len(log[s]) : Logged(c, s, i) /\ (s <= crashes \/ (s = att /\ i <= cursor))
  BY DEF Passed
<1> PICK i \in 1..Len(log[s]) : Logged(c, s, i) /\ (s <= crashes \/ (s = att /\ i <= cursor))
  OBVIOUS
<1>0. crashes \in Nat /\ cursor \in Nat /\ s \in Nat /\ i \in Nat /\ s # 0
  BY HubAssumption DEF TypeInv, TypeOK, Sessions
<1>1. i \in 1..Len(log'[s]) /\ Logged(c, s, i)'
  BY LogsGrow DEF Logged
<1>2. CASE Crash
  <2>1. crashes' = crashes + 1
    BY <1>2 DEF Crash
  <2>2. s <= crashes'
    BY <1>0, <2>1 DEF Fresh
  <2> QED
    BY <1>1, <2>2 DEF Passed
<1>3. CASE Start
  <2>1. crashes' = crashes /\ cursor' = cursor /\ att' \in {att, crashes + 1}
    BY <1>3 DEF Start, Fault, Cancelled, bounds
  <2>2. s <= crashes' \/ (s = att' /\ i <= cursor')
    BY <1>0, <2>1 DEF Fresh
  <2> QED
    BY <1>1, <2>2 DEF Passed
<1>4. ASSUME ~Crash, ~Start PROVE Passed(c)'
  <2>1. crashes' = crashes /\ att' = att
    BY <1>4 DEF Next, vars, Core, RecordTurn, Prompt, Fetch, Request, HandleSettled, EndTurn, HandleFailed, HandleCall,
       Execute, RecordResult, Answer, StopHeartbeat, Close, RecordError, CloseTools, Deliver, Recover, Tick,
       Heartbeat, HubRestart, Settled, Reap, Harness, Ask, Issue, HarnessSettles, HarnessFails, Fault, Cancelled,
       invocation, bounds
  <2>2. cursor' \in {cursor, cursor + 1}
    BY <1>4 DEF Next, vars, Core, RecordTurn, Prompt, Fetch, HandleSettled, EndTurn, HandleFailed, HandleCall, Handles,
       Execute, RecordResult, Answer, StopHeartbeat, Close, RecordError, CloseTools, Deliver, Recover, Tick,
       Heartbeat, HubRestart, Settled, Reap, Harness, Ask, Issue, HarnessSettles, HarnessFails, invocation
  <2>3. s <= crashes' \/ (s = att' /\ i <= cursor')
    BY <1>0, <2>1, <2>2
  <2> QED
    BY <1>1, <2>3 DEF Passed
<1> QED
  BY <1>2, <1>3, <1>4

LEMMA RunStep ==
    ASSUME TypeInv, HubAssumption, Fresh, AskedOnce, RunOnce, [Next]_vars
    PROVE  RunOnce'
<1>0. ran \in [Calls -> Nat] /\ cursor \in Nat /\ crashes \in Nat /\ (core = "called" => call.call \in Calls)
  BY HubAssumption DEF TypeInv, TypeOK, Attachment, InCall, CallEvent
<1>1. CASE HandleCall
  <2>1. /\ core = "follow" /\ att \in Sessions /\ cursor + 1 \in 1..Len(log[att]) /\ log[att][cursor + 1].type = "call"
        /\ cursor' = cursor + 1 /\ UNCHANGED <<att, log, ran>> /\ core' \in {"called", "stopping"}
        /\ (core' = "called" => call' = log[att][cursor + 1])
    BY <1>1 DEF HandleCall, Handles, Leave, TypeInv, TypeOK, Attachment, Attached
  <2>2. log[att][cursor + 1].call \in Calls
    BY <2>1, EventType DEF TypeInv, CallEvent
  <2>3. ~Passed(log[att][cursor + 1].call)
    <3> SUFFICES ASSUME NEW s \in Sessions, NEW i \in 1..Len(log[s]), Logged(log[att][cursor + 1].call, s, i),
                        s <= crashes \/ (s = att /\ i <= cursor)
                 PROVE  FALSE
      BY DEF Passed
    <3>1. s = att /\ i = cursor + 1
      BY <2>1, <2>2 DEF AskedOnce, Logged
    <3>2. att = crashes + 1
      BY <2>1 DEF Fresh, Attached
    <3> QED
      BY <1>0, <3>1, <3>2
  <2>4. ran[log[att][cursor + 1].call] = 0
    BY <1>0, <2>2, <2>3 DEF RunOnce
  <2>5. \A c \in Calls : ran'[c] <= 1 /\ (ran'[c] = 1 => Passed(c)')
    BY <2>1, PassedStays DEF RunOnce
  <2>6. core' = "called" => cursor' > 0 /\ call' = log'[att'][cursor'] /\ ran'[call'.call] = 0
    BY <1>0, <2>1, <2>4
  <2> QED
    BY <2>5, <2>6 DEF RunOnce
<1>2. CASE Execute
  <2>1. core = "called" /\ core' # "called" /\ UNCHANGED <<att, cursor, log, crashes>>
        /\ ran' \in {ran, [ran EXCEPT ![call.call] = @ + 1]}
    BY <1>2 DEF Execute, Leave, Fault, Cancelled, bounds
  <2>2. call.call \in Calls /\ ran[call.call] = 0
    BY <1>0, <2>1 DEF RunOnce
  <2>3. Passed(call.call)
    <3>1. att \in Sessions /\ cursor \in 1..Len(log[att]) /\ call \in CallEvent
      BY <1>0, <2>1 DEF RunOnce, TypeInv, TypeOK, Attachment, Attached, InCall
    <3>2. Logged(call.call, att, cursor)
      BY <2>1, <3>1 DEF RunOnce, Logged, CallEvent
    <3> QED
      BY <1>0, <3>1, <3>2 DEF Passed
  <2>4. \A c \in Calls : Passed(c)' <=> Passed(c)
    BY <2>1 DEF Passed, Logged
  <2>5. ASSUME NEW c \in Calls PROVE ran'[c] <= 1 /\ (ran'[c] = 1 => Passed(c)')
    BY <1>0, <2>1, <2>2, <2>3, <2>4 DEF RunOnce
  <2> QED
    BY <2>1, <2>5 DEF RunOnce
<1>3. ASSUME ~HandleCall, ~Execute PROVE RunOnce'
  <2>1. ran' = ran
    BY <1>3 DEF Next, vars, Core, Start, RecordTurn, Prompt, Fetch, HandleSettled, EndTurn, HandleFailed,
       RecordResult, Answer, StopHeartbeat, Close, RecordError, CloseTools, Deliver, Crash, Recover, Tick,
       Heartbeat, HubRestart, Settled, Reap, Harness, Ask, Issue, HarnessSettles, HarnessFails
  <2>2. core' = "called" => core = "called" /\ UNCHANGED <<call, att, cursor>>
    BY <1>3 DEF Next, vars, invocation, Core, Start, RecordTurn, Prompt, Fetch, Request, Leave, HandleSettled,
       EndTurn, HandleFailed, Handles, RecordResult, Answer, StopHeartbeat, Close, RecordError, CloseTools, Deliver,
       Crash, Recover, Tick, Heartbeat, HubRestart, Settled, Reap, Harness, Ask, Issue, HarnessSettles, HarnessFails
  <2>3. core' = "called" => log'[att'][cursor'] = log[att][cursor]
    <3>1. core = "called" => att \in Sessions /\ cursor \in 1..Len(log[att])
      BY <1>0 DEF RunOnce, TypeInv, TypeOK, Attachment, Attached
    <3> QED
      BY <2>2, <3>1, LogsGrow
  <2> QED
    BY <2>1, <2>2, <2>3, PassedStays DEF RunOnce
<1> QED
  BY <1>1, <1>2, <1>3

CallsKept == LeaseKept /\ AskedOnce /\ RunOnce

LEMMA CallsInit == HubAssumption /\ Init => CallsKept
<1> SUFFICES ASSUME HubAssumption, Init PROVE CallsKept
  OBVIOUS
<1>1. LeaseKept
  BY LeaseInit
<1>2. AskedOnce /\ RunOnce
  BY DEF Init, AskedOnce, RunOnce, Logged
<1> QED
  BY <1>1, <1>2 DEF CallsKept

LEMMA CallsKeep == HubAssumption /\ CallsKept /\ [Next]_vars => CallsKept'
BY LeaseKeeps, AskedStep, RunStep DEF CallsKept, LeaseKept

LEMMA CallsAlways == Spec => []CallsKept
<1>1. Init => CallsKept
  BY CallsInit, HubAssumption
<1>2. CallsKept /\ [Next]_vars => CallsKept'
  BY CallsKeep, HubAssumption
<1> QED
  BY <1>1, <1>2, PTL DEF Spec

\* The host executes a tool call of the model at most once, although events are fetched
\* in batches and the call's answer may be lost (_Invocation.follow).
THEOREM CallsAreRunOnce == Spec => []CallsRunOnce
<1>1. CallsKept => CallsRunOnce
  BY DEF CallsKept, RunOnce, CallsRunOnce
<1> QED
  BY <1>1, CallsAlways, PTL

-----------------------------------------------------------------------------
(* Results.  A result counts once the host has accepted a submission, and    *)
(* nothing is called after it: the last call on the trace is the one that    *)
(* was accepted, whoever reads the trace.                                    *)

\* the last call on the trace is a submission that the host has accepted
Accepted ==
    /\ Len(called) > 0 /\ called[Len(called)] \in Finish
    /\ answer[called[Len(called)]] = "ok"

AcceptedInv ==
    /\ core \in {"called", "executed", "accepted"} => ~final /\ Len(called) > 0 /\ called[Len(called)] = call.call
    /\ core \in {"ready", "record", "prompt", "off"} => ~final
    /\ core \in Attached \cup {"ready", "off"} => why = "none"
    /\ final \/ ended => Accepted
    /\ core = "ending" => final
    /\ ended => core \in Closing \cup {"off", "done"}
    /\ why = "ended" => ended
    /\ verdict # "none" => core \in {"off", "done"}
    /\ verdict # "none" /\ why = "ended" => verdict = CandidateResult

LEMMA AcceptedStep ==
    ASSUME TypeInv, AcceptedInv, [Next]_vars
    PROVE  AcceptedInv'
<1>0. called \in Seq(Calls) /\ answer \in [Calls -> {"none", "ok", "rejected"}]
      /\ (core \in InCall => call.call \in Calls)
  BY DEF TypeInv, TypeOK, Attachment, CallEvent
<1>1. CASE HandleCall
  <2>1. core = "follow" /\ ~ended /\ why = "none" /\ verdict = "none" /\ UNCHANGED <<final, answer, ended, verdict>>
    BY <1>1 DEF HandleCall, Handles, AcceptedInv, Attached, Closing
  <2>2. CASE final
    <3>1. core' = "stopping" /\ why' = "unknown" /\ called' = called
      BY <1>1, <2>2 DEF HandleCall, Leave
    <3> QED
      BY <2>1, <3>1 DEF AcceptedInv, Accepted, Attached, Closing
  <2>3. CASE ~final
    <3>1. core' = "called" /\ called' = Append(called, call'.call) /\ why' = why
      BY <1>1, <2>3 DEF HandleCall
    <3>2. TypeInv'
      BY <1>1, HandleType
    <3>3. call'.call \in Calls
      BY <3>1, <3>2 DEF TypeInv, Attachment, InCall, CallEvent
    <3>4. Len(called') > 0 /\ called'[Len(called')] = call'.call
      BY <1>0, <3>1, <3>3
    <3> QED
      BY <2>1, <2>3, <3>1, <3>4 DEF AcceptedInv, Attached, Closing
  <2> QED
    BY <2>2, <2>3
<1>2. CASE RecordResult
  <2>1. /\ core \in {"executed", "accepted"} /\ core' = "answer" /\ UNCHANGED <<why, ended, verdict, called, call>>
        /\ answer' = [answer EXCEPT ![call.call] = IF core = "accepted" THEN "ok" ELSE "rejected"]
        /\ final' = (core = "accepted" /\ call.call \in Finish)
    BY <1>2 DEF RecordResult
  <2>2. ~ended /\ Len(called) > 0 /\ called[Len(called)] = call.call /\ why = "none" /\ verdict = "none"
    BY <2>1 DEF AcceptedInv, Attached, Closing
  <2>3. final' => Accepted'
    BY <1>0, <2>1, <2>2 DEF Accepted, InCall
  <2> QED
    BY <2>1, <2>2, <2>3 DEF AcceptedInv, Attached, Closing
<1>3. CASE EndTurn
  <2>1. /\ core = "ending" /\ core' = "stopping" /\ why' = "ended" /\ ended'
        /\ UNCHANGED <<final, called, answer, verdict>>
    BY <1>3 DEF EndTurn, Leave
  <2>2. verdict = "none" /\ Accepted
    BY <2>1 DEF AcceptedInv
  <2> QED
    BY <2>1, <2>2 DEF AcceptedInv, Accepted, Attached, Closing
<1>4. CASE Deliver
  <2>1. /\ core = "done" /\ UNCHANGED <<core, why, final, called, answer, ended>>
        /\ (why = "ended" => verdict' = CandidateResult)
    BY <1>4 DEF Deliver, invocation, trace
  <2>2. CandidateResult' = CandidateResult
    BY <2>1 DEF CandidateResult, LastSubmission, Submissions
  <2>3. core' \notin Attached
    BY <2>1 DEF Attached
  <2> QED
    BY <2>1, <2>2, <2>3 DEF AcceptedInv, Accepted
<1>5. CASE Crash
  <2>1. core' = "off" /\ why' = "none" /\ ~final' /\ UNCHANGED <<called, answer, ended, verdict>> /\ verdict = "none"
    BY <1>5 DEF Crash, trace
  <2> QED
    BY <2>1 DEF AcceptedInv, Accepted, Attached, Closing
<1>6. CASE Recover
  <2>1. /\ core = "off" /\ verdict = "none" /\ UNCHANGED <<final, called, answer, ended>> /\ ~final /\ why = "none"
        /\ \/ ended /\ core' = "done" /\ why' = "ended" /\ verdict' = "none"
           \/ ~ended /\ core' = "done" /\ why' = "unknown" /\ verdict' = "none"
           \/ ~ended /\ core' \in {"off", "ready"} /\ why' = why
    BY <1>6 DEF Recover, trace, AcceptedInv
  <2>2. core' # "off" => verdict' = "none"
    BY <1>6 DEF Recover
  <2> QED
    BY <2>1, <2>2 DEF AcceptedInv, Accepted, Attached, Closing
<1>7. CASE Core /\ ~HandleCall /\ ~RecordResult /\ ~EndTurn /\ ~Deliver
  <2>1. UNCHANGED <<final, called, answer, ended, verdict>> /\ verdict = "none"
    BY <1>7 DEF Core, Start, RecordTurn, Prompt, Fetch, Awaiting, HandleSettled, HandleFailed, Handles, Execute, Answer,
       StopHeartbeat, Close, RecordError, CloseTools, trace, AcceptedInv
  <2>2. /\ core' \in {"called", "executed", "accepted"} => core \in {"called", "executed", "accepted"} /\ call' = call
        /\ core' \in {"record", "prompt"} => core \in {"ready", "record"}
        /\ core' \notin {"ready", "off"}
        /\ core' = "ending" => final
    BY <1>7 DEF Core, Start, RecordTurn, Prompt, Fetch, Awaiting, Request, Leave, HandleSettled, HandleFailed, Handles, Execute,
       Answer, StopHeartbeat, Close, RecordError, CloseTools
  <2>3. /\ core' \in Attached => core \in Attached \cup {"ready"} /\ why' = why
        /\ core \notin Closing => core' \in Attached \cup Closing
        /\ core \in Closing => core' \in Closing \cup {"done"}
        /\ core \in Attached \cup Closing \cup {"ready"}
        /\ why' = "ended" => why = "ended"
    BY <1>7 DEF Core, Start, RecordTurn, Prompt, Fetch, Awaiting, Request, Leave, HandleSettled, HandleFailed, Handles, Execute,
       Answer, StopHeartbeat, Close, RecordError, CloseTools, Attached, Closing
  <2> QED
    BY <2>1, <2>2, <2>3 DEF AcceptedInv, Accepted, Attached, Closing
<1>8. CASE ~Core /\ ~Crash /\ ~Recover
  <2>1. UNCHANGED <<core, why, final, call, called, answer, ended, verdict>>
    BY <1>8 DEF Next, vars, invocation, trace, Tick, Heartbeat, HubRestart, Settled, Reap, Harness, Ask, Issue,
       HarnessSettles, HarnessFails
  <2>2. CandidateResult' = CandidateResult
    BY <2>1 DEF CandidateResult, LastSubmission, Submissions
  <2> QED
    BY <2>1, <2>2 DEF AcceptedInv, Accepted
<1> QED
  BY <1>1, <1>2, <1>3, <1>4, <1>5, <1>6, <1>7, <1>8

\* what of the session's log the core has not handled is still without an answer, and so
\* is the call that it handles
Unanswered ==
    core \in Attached =>
        /\ \A i \in 1..Len(log[att]) : i > cursor /\ log[att][i].type = "call" => log[att][i].call \in open[att]
        /\ core \in InCall => call.call \in open[att] /\ cursor > 0 /\ call = log[att][cursor]

LEMMA UnansweredStep ==
    ASSUME TypeInv, HubAssumption, Fresh, AskedOnce, Unanswered, [Next]_vars
    PROVE  Unanswered'
<1>0. /\ cursor \in Nat /\ open \in [Sessions -> SUBSET Calls]
      /\ (core \in Attached => att \in Sessions /\ cursor <= Len(log[att]) /\ Len(log[att]) \in Nat)
      /\ InCall \subseteq Attached
  BY DEF TypeInv, TypeOK, Attachment, Attached, InCall
<1>1. CASE Start
  <2>1. core' \in Attached => att' = crashes + 1 /\ core' \notin InCall /\ log' = log /\ core = "ready"
    BY <1>1 DEF Start, Attached, InCall
  <2>2. core = "ready" => log[crashes + 1] = <<>>
    BY SessionNumbers DEF TypeInv, Fresh
  <2> QED
    BY <2>1, <2>2 DEF Unanswered
<1>2. CASE Answer
  <2>1. core = "answer" /\ (core' # "stopping" => core' = "follow")
    BY <1>2 DEF Answer, Request, Leave
  <2>2. /\ UNCHANGED <<log, message, asked, att, cursor, call, final>> /\ att \in Sessions
        /\ \A s \in Sessions : open'[s] \subseteq open[s]
        /\ core' # "stopping" => open' = [open EXCEPT ![att] = @ \ {call.call}]
    BY <1>2, AnswerOpens
  <2>3. cursor \in 1..Len(log[att]) /\ Logged(call.call, att, cursor) /\ call.call \in Calls
    BY <1>0, <2>1 DEF Unanswered, Attached, InCall, TypeInv, Attachment, CallEvent, Logged
  <2>4. ASSUME core' \in Attached, NEW i \in 1..Len(log[att]), i > cursor, log[att][i].type = "call"
        PROVE  log[att][i].call \in open'[att]
    <3>1. log[att][i].call \in open[att]
      BY <2>1, <2>4 DEF Unanswered, Attached
    <3>2. log[att][i].call \in Calls
      BY <1>0, <2>2, <3>1
    <3>3. log[att][i].call # call.call
      BY <2>2, <2>3, <2>4, <3>2, <1>0 DEF AskedOnce, Logged
    <3>4. core' # "stopping"
      BY <2>4 DEF Attached
    <3> QED
      BY <1>0, <2>2, <3>1, <3>3, <3>4
  <2>5. core' \notin InCall
    BY <2>1 DEF InCall
  <2> QED
    BY <2>2, <2>4, <2>5 DEF Unanswered
<1>3. CASE HandleCall \/ HandleSettled \/ HandleFailed
  <2>1. /\ core = "follow" /\ cursor' = cursor + 1 /\ UNCHANGED <<att, log, open>>
        /\ att \in Sessions /\ cursor + 1 \in 1..Len(log[att])
        /\ core' \in InCall => core' = "called" /\ call' = log[att][cursor + 1] /\ log[att][cursor + 1].type = "call"
    BY <1>3 DEF HandleCall, HandleSettled, HandleFailed, Handles, Leave, harness, InCall, Attached, TypeInv, TypeOK, Attachment
  <2>2. core \in Attached
    BY <2>1 DEF Attached
  <2> QED
    BY <1>0, <2>1, <2>2 DEF Unanswered
<1>4. ASSUME NEW s \in Sessions, Ask(s) PROVE Unanswered'
  <2>1. UNCHANGED <<core, att, cursor, call, log>> /\ open[s] = {} /\ \A t \in Sessions : t # s => open'[t] = open[t]
    BY <1>4 DEF Ask, invocation, TypeInv, TypeOK
  <2> QED
    BY <1>0, <2>1 DEF Unanswered
<1>5. ASSUME NEW s \in Sessions, Issue(s) \/ HarnessSettles(s) \/ HarnessFails(s) PROVE Unanswered'
  <2> PICK event \in Event : Log(s, event) /\ (event.type = "call" => Issue(s))
    BY <1>5, HarnessEvent
  <2>1. UNCHANGED <<core, att, cursor, call, open>>
    BY <1>5 DEF Issue, HarnessSettles, HarnessFails, harness, invocation
  <2>2. /\ \A t \in Sessions : t # s => log'[t] = log[t]
        /\ Len(log'[s]) = Len(log[s]) + 1 /\ Len(log[s]) \in Nat
        /\ \A i \in 1..Len(log[s]) : log'[s][i] = log[s][i]
        /\ log'[s][Len(log[s]) + 1] = event
    BY LogAppends
  <2>3. event.type = "call" => event.call \in open[s]
    BY IssuedCall
  <2>4. ASSUME core \in Attached
        PROVE  \A i \in 1..Len(log'[att]) : i > cursor /\ log'[att][i].type = "call" => log'[att][i].call \in open[att]
    BY <2>2, <2>3, <2>4, <1>0 DEF Unanswered
  <2>5. core \in InCall => call.call \in open[att] /\ cursor > 0 /\ call = log'[att][cursor]
    BY <2>2, <1>0 DEF Unanswered
  <2> QED
    BY <2>1, <2>4, <2>5 DEF Unanswered
<1>6. ASSUME ~Start, ~Answer, ~HandleCall, ~HandleSettled, ~HandleFailed, ~\E s \in Sessions : Harness(s)
      PROVE  Unanswered'
  <2>1. core' \in Attached => core \in Attached /\ UNCHANGED <<att, cursor>>
    BY <1>6 DEF Next, vars, invocation, Core, RecordTurn, Prompt, Fetch, Awaiting, Request, Leave, EndTurn, Execute,
       RecordResult, StopHeartbeat, Close, RecordError, CloseTools, Deliver, Crash, Recover, Tick,
       Heartbeat, HubRestart, Settled, Reap, Attached
  <2>2. core' \in InCall => core \in InCall /\ call' = call
    BY <1>6 DEF Next, vars, invocation, Core, RecordTurn, Prompt, Fetch, Awaiting, Request, Leave, EndTurn, Execute,
       RecordResult, StopHeartbeat, Close, RecordError, CloseTools, Deliver, Crash, Recover, Tick,
       Heartbeat, HubRestart, Settled, Reap, InCall
  <2> QED
    BY <1>6, <2>1, <2>2, HarnessFrame DEF Unanswered
<1> QED
  BY <1>1, <1>2, <1>3, <1>4, <1>5, <1>6 DEF Harness

\* a call that was alone in its message stays the last of its session until it is answered
AloneIsLast ==
    \A s \in Sessions :
        /\ open[s] \subseteq message[s]
        /\ \A i \in 1..Len(log[s]) : log[s][i].type = "call" /\ log[s][i].alone /\ log[s][i].call \in open[s]
               => message[s] = {log[s][i].call}

LEMMA AloneStep ==
    ASSUME TypeInv, AskedOnce, AloneIsLast, [Next]_vars
    PROVE  AloneIsLast'
<1>0. open \in [Sessions -> SUBSET Calls] /\ message \in [Sessions -> SUBSET Calls]
  BY DEF TypeInv, TypeOK
<1>1. CASE Answer
  BY <1>1, AnswerOpens DEF AloneIsLast
<1>2. ASSUME NEW s \in Sessions, Ask(s) PROVE AloneIsLast'
  <2> PICK wanted \in SUBSET (Calls \ asked) \ {{}} :
        /\ message' = [message EXCEPT ![s] = wanted] /\ open' = [open EXCEPT ![s] = wanted]
    BY <1>2 DEF Ask
  <2>1. log' = log
    BY <1>2 DEF Ask
  <2>2. /\ open'[s] = wanted /\ message'[s] = wanted
        /\ \A t \in Sessions : t # s => open'[t] = open[t] /\ message'[t] = message[t]
    BY <1>0
  <2>3. \A i \in 1..Len(log[s]) : log[s][i].type = "call" => log[s][i].call \notin wanted
    BY DEF AskedOnce, Logged
  <2> QED
    BY <2>1, <2>2, <2>3 DEF AloneIsLast
<1>3. ASSUME NEW s \in Sessions, Issue(s) \/ HarnessSettles(s) \/ HarnessFails(s) PROVE AloneIsLast'
  <2> PICK event \in Event : Log(s, event) /\ (event.type = "call" => Issue(s))
    BY <1>3, HarnessEvent
  <2>1. UNCHANGED <<open, message>>
    BY <1>3 DEF Issue, HarnessSettles, HarnessFails, harness
  <2>2. event.type = "call" => event.alone = (message[s] = {event.call})
    BY IssuedCall
  <2>3. /\ \A t \in Sessions : t # s => log'[t] = log[t]
        /\ Len(log'[s]) = Len(log[s]) + 1 /\ Len(log[s]) \in Nat
        /\ \A i \in 1..Len(log[s]) : log'[s][i] = log[s][i]
        /\ log'[s][Len(log[s]) + 1] = event
    BY LogAppends
  <2>4. ASSUME NEW i \in 1..Len(log'[s]), log'[s][i].type = "call", log'[s][i].alone, log'[s][i].call \in open[s]
        PROVE  message[s] = {log'[s][i].call}
    <3>1. CASE i \in 1..Len(log[s])
      BY <2>3, <2>4, <3>1 DEF AloneIsLast
    <3>2. CASE i = Len(log[s]) + 1
      BY <2>2, <2>3, <2>4, <3>2
    <3> QED
      BY <2>3, <3>1, <3>2
  <2>5. ASSUME NEW t \in Sessions
        PROVE  /\ open'[t] \subseteq message'[t]
               /\ \A i \in 1..Len(log'[t]) : log'[t][i].type = "call" /\ log'[t][i].alone /\ log'[t][i].call \in open'[t]
                      => message'[t] = {log'[t][i].call}
    <3>1. CASE t = s
      BY <2>1, <2>4, <3>1 DEF AloneIsLast
    <3>2. CASE t # s
      <4>1. log'[t] = log[t] /\ open'[t] = open[t] /\ message'[t] = message[t]
        BY <2>1, <2>3, <3>2
      <4> QED
        BY <4>1 DEF AloneIsLast
    <3> QED
      BY <3>1, <3>2
  <2> QED
    BY <2>5 DEF AloneIsLast
<1>4. CASE ~Answer /\ ~\E s \in Sessions : Harness(s)
  BY <1>4, HarnessFrame DEF AloneIsLast
<1> QED
  BY <1>1, <1>2, <1>3, <1>4 DEF Harness

\* without a fault nothing comes after an accepted result
FinalIsLast ==
    /\ core = "accepted" /\ call.call \in Finish => call.alone
    /\ core = "answer" /\ final => call.alone
    /\ core = "follow" /\ final => att \in finished /\ open[att] = {}
    /\ final /\ why = "unknown" => faults > 0

\* without a fault no session fails and the core keeps its own
Faultless ==
    faults = 0 =>
        /\ \A s \in Sessions : sess[s] # "failed" /\ \A i \in 1..Len(log[s]) : log[s][i].type # "failed"
        /\ core \in Attached => sess[att] = "running"

LEMMA FaultsGrow ==
    ASSUME TypeInv, HubAssumption, [Next]_vars
    PROVE  faults \in Nat /\ faults' \in {faults, faults + 1}
<1>1. faults \in Nat
  BY HubAssumption DEF TypeInv, TypeOK
<1>2. faults' \in {faults, faults + 1}
  BY DEF Next, vars, Core, Start, RecordTurn, Prompt, Fetch, Request, HandleSettled, EndTurn, HandleFailed, HandleCall,
     Execute, RecordResult, Answer, StopHeartbeat, Close, RecordError, CloseTools, Deliver, Crash, Recover, Tick,
     Heartbeat, HubRestart, Settled, Reap, Harness, Ask, Issue, HarnessSettles, HarnessFails, Fault, Cancelled, bounds
<1> QED
  BY <1>1, <1>2

LEMMA FaultlessStep ==
    ASSUME LeaseKept, HubAssumption, Faultless, [Next]_vars
    PROVE  Faultless'
<1>0. faults \in Nat /\ faults' \in {faults, faults + 1} /\ TypeInv /\ Fresh /\ LeaseInv
  BY FaultsGrow DEF LeaseKept
<1> SUFFICES ASSUME faults' = 0 PROVE Faultless'
  BY DEF Faultless
<1>1. /\ faults = 0 /\ \A s \in Sessions : sess[s] # "failed" /\ \A i \in 1..Len(log[s]) : log[s][i].type # "failed"
      /\ core \in Attached => sess[att] = "running"
      /\ sess \in [Sessions -> {"absent", "running", "failed", "closed", "reaped"}]
      /\ core \in Attached => att \in Sessions
  BY <1>0 DEF Faultless, TypeInv, TypeOK, Attachment
<1>2. ASSUME NEW s \in Sessions, Issue(s) \/ HarnessSettles(s) \/ HarnessFails(s) PROVE Faultless'
  <2>1. ~HarnessFails(s)
    BY <1>1 DEF HarnessFails, Fault
  <2>2. PICK event \in Event : Log(s, event) /\ event.type # "failed"
    BY <1>0, <1>2, <2>1, HarnessEvent
  <2>3. ASSUME NEW t \in Sessions, NEW i \in 1..Len(log'[t]) PROVE log'[t][i].type # "failed"
    <3>1. /\ \A u \in Sessions : u # s => log'[u] = log[u]
          /\ Len(log'[s]) = Len(log[s]) + 1 /\ Len(log[s]) \in Nat
          /\ \A n \in 1..Len(log[s]) : log'[s][n] = log[s][n]
          /\ log'[s][Len(log[s]) + 1] = event
      BY <1>0, <2>2, LogAppends
    <3>2. CASE t # s
      BY <1>1, <2>3, <3>1, <3>2
    <3>3. CASE t = s /\ i \in 1..Len(log[s])
      BY <1>1, <3>1, <3>3
    <3>4. CASE t = s /\ i = Len(log[s]) + 1
      BY <2>2, <3>1, <3>4
    <3> QED
      BY <2>3, <3>1, <3>2, <3>3, <3>4
  <2>4. UNCHANGED <<sess, core, att>>
    BY <1>2, <2>1 DEF Issue, HarnessSettles, invocation
  <2> QED
    BY <1>1, <2>3, <2>4 DEF Faultless
<1>3. ASSUME ~\E s \in Sessions : Issue(s) \/ HarnessSettles(s) \/ HarnessFails(s) PROVE Faultless'
  <2>1. log' = log
    BY <1>3 DEF Next, vars, Core, Start, RecordTurn, Prompt, Fetch, HandleSettled, EndTurn, HandleFailed, HandleCall,
       Execute, RecordResult, Answer, StopHeartbeat, Close, RecordError, CloseTools, Deliver, Crash, Recover, Tick,
       Heartbeat, HubRestart, Settled, Reap, Harness, Ask
  <2>2. CASE Start
    <3>1. crashes + 1 \in Sessions
      BY <1>0, SessionNumbers DEF TypeInv
    <3>2. /\ sess' \in {sess, [sess EXCEPT ![crashes + 1] = "running"]}
          /\ core' \in Attached => att' = crashes + 1 /\ sess' = [sess EXCEPT ![crashes + 1] = "running"]
      BY <2>2 DEF Start, Attached
    <3> QED
      BY <1>1, <2>1, <3>1, <3>2 DEF Faultless
  <2>3. CASE \E s \in Sessions : Reap(s)
    <3> PICK s \in Sessions : Reap(s)
      BY <2>3
    <3>1. UNCHANGED <<core, att>> /\ sess' = [sess EXCEPT ![s] = "reaped"] /\ age[s] >= IdleTicks /\ Listed(s)
      BY DEF Reap, Reapable, invocation
    <3>2. ~(core \in Attached /\ s = att)
      BY <1>0, <1>1, <3>1, HubAssumption DEF LeaseInv, Lead, TypeInv, TypeOK, HubAssumption
    <3> QED
      BY <1>1, <2>1, <3>1, <3>2 DEF Faultless
  <2>4. ASSUME ~Start, ~\E s \in Sessions : Reap(s) PROVE Faultless'
    <3>1. core' \in Attached => core \in Attached /\ UNCHANGED <<att, sess>>
      BY <1>1, <1>3, <2>4 DEF Next, vars, invocation, Core, RecordTurn, Prompt, Fetch, Awaiting, Request, Leave, HandleSettled,
         HandleFailed, HandleCall, Handles, EndTurn, Execute, RecordResult, Answer, StopHeartbeat, Close, RecordError,
         CloseTools, Deliver, Crash, Recover, Tick, Heartbeat, HubRestart, Fault, Settled, Harness, Ask, Attached
    <3>2. \A s \in Sessions : sess'[s] # "failed"
      BY <1>1, <1>3, <2>4 DEF Next, vars, Core, RecordTurn, Prompt, Fetch, HandleSettled, HandleFailed, HandleCall, EndTurn,
         Execute, RecordResult, Answer, StopHeartbeat, Close, Closed, RecordError, CloseTools, Deliver, Crash, Recover,
         Tick, Heartbeat, HubRestart, Settled, Harness, Ask
    <3> QED
      BY <1>1, <2>1, <3>1, <3>2 DEF Faultless
  <2> QED
    BY <2>2, <2>3, <2>4
<1> QED
  BY <1>2, <1>3

ResultInv == AcceptedInv /\ Unanswered /\ AloneIsLast /\ FinalIsLast /\ Faultless

LEMMA FinalStep ==
    ASSUME CallsKept, HubAssumption, ResultInv, [Next]_vars
    PROVE  FinalIsLast'
<1>0. /\ TypeInv /\ LeaseKept /\ Fresh /\ AskedOnce /\ AcceptedInv /\ Unanswered /\ AloneIsLast /\ FinalIsLast /\ Faultless
      /\ faults \in Nat /\ faults' \in {faults, faults + 1}
      /\ core \in Attached => att \in Sessions
  BY FaultsGrow DEF CallsKept, LeaseKept, ResultInv, TypeInv, Attachment
<1>1. CASE Execute
  <2>1. /\ core = "called" /\ core' \in {"executed", "accepted", "stopping"} /\ UNCHANGED <<call, final>>
        /\ core' = "accepted" => (call.call \in Finish => call.alone)
    BY <1>1 DEF Execute, Leave, ValidFinish
  <2> QED
    BY <1>0, <2>1 DEF FinalIsLast, AcceptedInv
<1>2. CASE RecordResult
  BY <1>0, <1>2 DEF RecordResult, FinalIsLast, AcceptedInv, Attached
<1>3. CASE Answer
  <2>1. core = "answer" /\ UNCHANGED <<final, call, att, cursor, log, message>> /\ att \in Sessions
    BY <1>0, <1>3, AnswerOpens DEF Answer, Request
  <2>2. PICK served \in BOOLEAN :
        /\ Request(served, "follow")
        /\ open' = IF served THEN [open EXCEPT ![att] = @ \ {call.call}] ELSE open
        /\ finished' = IF served /\ final THEN finished \cup {att} ELSE finished
    BY <1>3 DEF Answer
  <2>3. core' = "follow" => served
    BY <2>2 DEF Request, Leave
  <2>4. final => open[att] \subseteq {call.call}
    <3>1. call.call \in open[att] /\ cursor \in 1..Len(log[att]) /\ call = log[att][cursor] /\ call.type = "call"
      BY <1>0, <2>1 DEF Unanswered, TypeInv, TypeOK, Attachment, Attached, InCall, CallEvent
    <3>2. final => call.alone
      BY <1>0, <2>1 DEF FinalIsLast
    <3> QED
      BY <1>0, <2>1, <3>1, <3>2 DEF AloneIsLast
  <2>5. core' = "follow" /\ final => att \in finished' /\ open'[att] = {}
    <3>1. open \in [Sessions -> SUBSET Calls]
      BY <1>0 DEF TypeInv, TypeOK
    <3> QED
      BY <2>1, <2>2, <2>3, <2>4, <3>1
  <2>6. why' = "unknown" => faults' > 0
    <3>1. Running(att) \/ faults > 0
      BY <1>0, <2>1 DEF Faultless, Attached, Running, Sessions
    <3>2. why = "none"
      BY <1>0, <2>1 DEF AcceptedInv, Attached
    <3> QED
      BY <1>0, <2>2, <3>1, <3>2 DEF Request, Leave, Fault, Cancelled
  <2>7. core' \notin {"accepted", "answer"}
    BY <2>2 DEF Request, Leave
  <2> QED
    BY <2>1, <2>5, <2>6, <2>7 DEF FinalIsLast
<1>4. CASE Fetch
  <2>1. core = "follow" /\ core' \in {"follow", "stopping"} /\ UNCHANGED <<final, call, att, open, finished>>
    BY <1>4 DEF Fetch, Awaiting, Request, Leave, harness
  <2>2. why' = "unknown" => faults' > 0
    <3>1. Running(att) \/ faults > 0
      BY <1>0, <2>1 DEF Faultless, Attached, Running, Sessions
    <3>2. why = "none"
      BY <1>0, <2>1 DEF AcceptedInv, Attached
    <3> QED
      BY <1>0, <1>4, <3>1, <3>2 DEF Fetch, Request, Leave, Fault, Cancelled
  <2> QED
    BY <1>0, <2>1, <2>2 DEF FinalIsLast
<1>5. CASE HandleSettled \/ HandleFailed \/ HandleCall
  <2>1. /\ core = "follow" /\ core' \notin {"accepted", "answer", "follow"} /\ UNCHANGED final
        /\ att \in Sessions /\ cursor + 1 \in 1..Len(log[att]) /\ cursor \in Nat
    BY <1>0, <1>5 DEF HandleSettled, HandleFailed, HandleCall, Handles, Leave, TypeInv, TypeOK, Attachment, Attached
  <2>2. ASSUME final, why' = "unknown" PROVE faults > 0
    <3>1. CASE HandleSettled
      BY <1>0, <2>1, <2>2, <3>1 DEF HandleSettled, AcceptedInv, Attached
    <3>2. CASE HandleFailed
      BY <1>0, <2>1, <3>2 DEF HandleFailed, Handles, Faultless
    <3>3. CASE HandleCall
      BY <1>0, <2>1, <2>2, <3>3 DEF HandleCall, Handles, Unanswered, FinalIsLast, Attached
    <3> QED
      BY <1>5, <3>1, <3>2, <3>3
  <2> QED
    BY <1>0, <2>1, <2>2 DEF FinalIsLast
<1>6. ASSUME NEW s \in Sessions, Harness(s) PROVE FinalIsLast'
  <2>1. UNCHANGED <<core, call, final, why, att>>
    BY <1>6 DEF Harness, Ask, Issue, HarnessSettles, HarnessFails, invocation
  <2>2. finished' = finished /\ (att \in finished => open'[att] = open[att])
    BY <1>0, <1>6 DEF Harness, Ask, Issue, HarnessSettles, HarnessFails, harness, TypeInv, TypeOK
  <2> QED
    BY <1>0, <2>1, <2>2 DEF FinalIsLast
<1>7. ASSUME ~Execute, ~RecordResult, ~Answer, ~Fetch, ~HandleSettled, ~HandleFailed, ~HandleCall,
             ~\E s \in Sessions : Harness(s)
      PROVE  FinalIsLast'
  <2>1. UNCHANGED <<open, finished>>
    BY <1>7, HarnessFrame
  <2>2. /\ core' \in {"accepted", "answer"} => UNCHANGED <<core, call, final>>
        /\ core' = "follow" => (core = "follow" /\ UNCHANGED <<final, att>>) \/ (core = "prompt" /\ final' = final)
        /\ final' => final
    BY <1>7 DEF Next, vars, invocation, Core, Start, RecordTurn, Prompt, Request, Leave, EndTurn,
       StopHeartbeat, Close, RecordError, CloseTools, Deliver, Crash, Recover, Tick,
       Heartbeat, HubRestart, Settled, Reap
  <2>3. why' = "unknown" /\ final => why = "unknown"
    BY <1>0, <1>7 DEF Next, vars, invocation, Core, Start, RecordTurn, Prompt, Request, Leave, EndTurn,
       StopHeartbeat, Close, RecordError, CloseTools, Deliver, Crash, Recover, Tick,
       Heartbeat, HubRestart, Settled, Reap, AcceptedInv
  <2> QED
    BY <1>0, <2>1, <2>2, <2>3 DEF FinalIsLast, AcceptedInv
<1> QED
  BY <1>1, <1>2, <1>3, <1>4, <1>5, <1>6, <1>7

ResultsKept == CallsKept /\ ResultInv

LEMMA ResultsAlways == Spec => []ResultsKept
<1>1. Init => CallsKept
  BY CallsInit, HubAssumption
<1>2. Init => ResultInv
  BY DEF Init, ResultInv, AcceptedInv, Unanswered, AloneIsLast, FinalIsLast, Faultless, Attached
<1>3. ResultsKept /\ [Next]_vars => ResultsKept'
  <2> SUFFICES ASSUME ResultsKept, [Next]_vars PROVE ResultsKept'
    OBVIOUS
  <2>1. CallsKept /\ LeaseKept /\ TypeInv /\ Fresh /\ AskedOnce /\ ResultInv
    BY DEF ResultsKept, CallsKept, LeaseKept
  <2>2. CallsKept'
    BY <2>1, CallsKeep, HubAssumption
  <2>3. AcceptedInv' /\ Unanswered' /\ AloneIsLast' /\ Faultless'
    BY <2>1, AcceptedStep, UnansweredStep, AloneStep, FaultlessStep, HubAssumption DEF ResultInv
  <2>4. FinalIsLast'
    BY <2>1, FinalStep, HubAssumption
  <2> QED
    BY <2>2, <2>3, <2>4 DEF ResultsKept, ResultInv
<1> QED
  BY <1>1, <1>2, <1>3, PTL DEF Spec, ResultsKept

\* What the trace is read as, when its last call is an accepted submission
LEMMA AcceptedIsRead ==
    ASSUME TypeInv, HubAssumption, Accepted
    PROVE  LastSubmission = called[Len(called)]
<1>1. Len(called) \in Submissions /\ \A j \in Submissions : j <= Len(called)
  BY DEF Accepted, Submissions, TypeInv, TypeOK
<1>2. \A i \in Submissions : (\A j \in Submissions : j <= i) => i = Len(called)
  BY <1>1 DEF Submissions, TypeInv, TypeOK
<1>3. (CHOOSE i \in Submissions : \A j \in Submissions : j <= i) = Len(called)
  BY <1>1, <1>2
<1> QED
  BY <1>3 DEF LastSubmission

\* What a completed turn is settled with is the one submission that the host accepted, also
\* when it is read back after a crash (_candidate_result); and without a fault an accepted
\* result is not lost to other calls of the same message (_call_tool).
THEOREM ResultsAreFaithful == Spec => []ResultFaithful
<1>1. ResultsKept => ResultFaithful
  <2> SUFFICES ASSUME ResultsKept PROVE ResultFaithful
    OBVIOUS
  <2>1. TypeInv /\ AcceptedInv /\ FinalIsLast
    BY DEF ResultsKept, CallsKept, LeaseKept, ResultInv
  <2>2. ASSUME verdict # "none", why = "ended"
        PROVE  \E c \in Finish : answer[c] = "ok" /\ verdict = IF c \in Blocks THEN "blocked" ELSE "candidate"
    <3>1. Accepted /\ verdict = CandidateResult
      BY <2>1, <2>2 DEF AcceptedInv
    <3>2. LastSubmission = called[Len(called)]
      BY <2>1, <3>1, AcceptedIsRead, HubAssumption
    <3> QED
      BY <3>1, <3>2 DEF CandidateResult, Accepted
  <2> QED
    BY <2>1, <2>2 DEF ResultFaithful, FinalIsLast
<1> QED
  BY <1>1, ResultsAlways, PTL

-----------------------------------------------------------------------------
(* The Attempt around the invocation (PiExecution).                        *)

Outcomes == {Nothing, "unknown", "failed", "cancelled", "completed", "worker"}
RecordType == [turn : BOOLEAN, steps : Nat, effects : BOOLEAN, submitted : {Nothing, "candidate", "blocked"},
               ended : BOOLEAN, error : BOOLEAN, reviewed : Nat, reviews : Nat]
\* what is recorded grows with the turn, and a turn that ended has said how
Turns ==
    /\ record \in RecordType /\ (record.ended => record.turn)
    /\ (task \in {"turn", "submitted", "ending", "failing"} => record.turn)
    /\ (task = "submitted" => record.submitted # Nothing)
    /\ (task \in {"turn", "submitted", "failing"} => ~record.ended)
    /\ (task = "ending" => record.ended)
\* what the process remembers of an end is what is recorded
Remembered ==
    /\ outcome \in Outcomes
    /\ (outcome = "completed" => record.ended /\ record.submitted = "candidate")
    /\ (outcome = "worker" => record.ended /\ record.submitted = "blocked")
\* only a registered execution is listened to, and no longer than its Attempt runs
Listening ==
    /\ stream \in {"off", "watching", "grace", "expired"}
    /\ (stream # "off" => registered /\ status = "running")
    /\ command \in {Nothing, "waiting", "lost", "answered"}
    /\ receipt \in Nat \cup {Nothing} /\ watcher \in Nat \cup {Nothing}
AttemptInv == Turns /\ Remembered /\ Listening /\ SettledByTrace


\* the task ends: what is remembered of it is what is recorded
LEMMA TaskEnds ==
    ASSUME AttemptInv, Pi!HostWork, NEW o \in Outcomes \ {Nothing}, Pi!Ends(o), UNCHANGED record,
           o = "completed" => record.ended /\ record.submitted = "candidate",
           o = "worker" => record.ended /\ record.submitted = "blocked"
    PROVE  AttemptInv'
  <1>1. Turns'
    BY DEF AttemptInv, Turns, Pi!Ends, Pi!Goes
  <1>2. Remembered'
    BY NothingAssumption DEF Remembered, Pi!Ends
  <1>3. Listening'
    BY NothingAssumption DEF AttemptInv, Listening, Pi!Ends, Pi!Goes, Pi!consumer
  <1>4. (Pi!QuietWhenSettled)' /\ (Pi!FromCompleteTurn)'
    BY NothingAssumption DEF AttemptInv, SettledByTrace, Pi!SettledByTrace, Pi!QuietWhenSettled, Pi!FromCompleteTurn, Pi!Ends, Pi!Goes
  <1>5. (record.steps \in 0..MaxSteps /\ Pi!Trace(record) /\ Pi!Reviewed(record))'
    BY NothingAssumption DEF AttemptInv, SettledByTrace, Pi!SettledByTrace, Pi!Recorded, Pi!Trace, Pi!Reviewed, Pi!Ends, Pi!Goes
  <1>6. (Pi!Execution)' /\ (Pi!Answered)' /\ (Pi!Deferred)'
    BY NothingAssumption DEF AttemptInv, SettledByTrace, Pi!SettledByTrace, Pi!Recorded, Pi!Execution, Pi!Answered, Pi!Deferred, Pi!HostWork, Pi!Active, Pi!Ends, Pi!Goes, Pi!consumer
  <1> QED
    BY <1>1, <1>2, <1>3, <1>4, <1>5, <1>6 DEF AttemptInv, SettledByTrace, Pi!SettledByTrace, Pi!Recorded

\* the Attempt is settled once nothing of it runs
LEMMA AttemptEnds ==
    ASSUME AttemptInv, ~Pi!HostWork, NEW s, NEW b, s # "running", Pi!Finish(s, b),
           s = "succeeded" => record.ended /\ record.submitted = "candidate",
           s = "blocked" /\ b = "worker" => record.ended /\ record.submitted = "blocked"
    PROVE  AttemptInv'
  <1>1. Turns'
    BY DEF AttemptInv, Turns, Pi!Finish
  <1>2. Remembered'
    BY NothingAssumption DEF AttemptInv, Remembered, Pi!Finish
  <1>3. Listening'
    BY NothingAssumption DEF AttemptInv, Listening, Pi!Finish
  <1>4. (Pi!QuietWhenSettled)' /\ (Pi!FromCompleteTurn)'
    BY NothingAssumption DEF Pi!QuietWhenSettled, Pi!FromCompleteTurn, Pi!HostWork, Pi!Finish
  <1>5. (record.steps \in 0..MaxSteps /\ Pi!Trace(record) /\ Pi!Reviewed(record))'
    BY NothingAssumption DEF AttemptInv, SettledByTrace, Pi!SettledByTrace, Pi!Recorded, Pi!Trace, Pi!Reviewed, Pi!Finish
  <1>6. (Pi!Execution)' /\ (Pi!Answered)' /\ (Pi!Deferred)'
    BY NothingAssumption DEF AttemptInv, Listening, SettledByTrace, Pi!SettledByTrace, Pi!Recorded, Pi!Execution, Pi!Answered, Pi!Deferred, Pi!HostWork, Pi!Finish
  <1> QED
    BY <1>1, <1>2, <1>3, <1>4, <1>5, <1>6 DEF AttemptInv, SettledByTrace, Pi!SettledByTrace, Pi!Recorded

LEMMA AttemptOpen == ASSUME AttemptInv, Pi!Open PROVE AttemptInv'
  <1>1. Turns'
    BY DEF AttemptInv, Turns, Pi!Goes, Pi!Open
  <1>2. Remembered'
    BY NothingAssumption DEF AttemptInv, Remembered, Pi!Open
  <1>3. Listening'
    BY NothingAssumption DEF AttemptInv, Listening, Pi!Goes, Pi!consumer, Pi!Open
  <1>4. (Pi!QuietWhenSettled)' /\ (Pi!FromCompleteTurn)'
    BY NothingAssumption DEF AttemptInv, Listening, Pi!QuietWhenSettled, Pi!FromCompleteTurn, Pi!Goes, Pi!Open
  <1>5. (record.steps \in 0..MaxSteps /\ Pi!Trace(record) /\ Pi!Reviewed(record))'
    BY NothingAssumption DEF AttemptInv, SettledByTrace, Pi!SettledByTrace, Pi!Recorded, Pi!Trace, Pi!Reviewed, Pi!HostWork, Pi!Active, Pi!Goes, Pi!Open
  <1>6. (Pi!Execution)' /\ (Pi!Answered)' /\ (Pi!Deferred)'
    BY NothingAssumption DEF AttemptInv, Listening, SettledByTrace, Pi!SettledByTrace, Pi!Recorded, Pi!Execution, Pi!Answered, Pi!Deferred, Pi!Goes, Pi!consumer, Pi!Open
  <1> QED
    BY <1>1, <1>2, <1>3, <1>4, <1>5, <1>6 DEF AttemptInv, SettledByTrace, Pi!SettledByTrace, Pi!Recorded

LEMMA AttemptBeginTurn == ASSUME AttemptInv, Pi!BeginTurn PROVE AttemptInv'
  <1>1. Turns'
    BY DEF AttemptInv, Turns, RecordType, Pi!HostWork, Pi!Active, Pi!Goes, Pi!consumer, Pi!BeginTurn
  <1>2. Remembered'
    BY NothingAssumption DEF AttemptInv, Remembered, Pi!BeginTurn
  <1>3. Listening'
    BY NothingAssumption DEF AttemptInv, Listening, Pi!Goes, Pi!consumer, Pi!BeginTurn
  <1>4. (Pi!QuietWhenSettled)' /\ (Pi!FromCompleteTurn)'
    BY NothingAssumption DEF AttemptInv, SettledByTrace, Pi!SettledByTrace, Pi!QuietWhenSettled, Pi!FromCompleteTurn, Pi!HostWork, Pi!Active, Pi!Goes, Pi!BeginTurn
  <1>5. (record.steps \in 0..MaxSteps /\ Pi!Trace(record) /\ Pi!Reviewed(record))'
    BY NothingAssumption DEF AttemptInv, SettledByTrace, Pi!SettledByTrace, Pi!Recorded, Pi!Trace, Pi!Reviewed, Pi!HostWork, Pi!Active, Pi!Goes, Pi!BeginTurn
  <1>6. (Pi!Execution)' /\ (Pi!Answered)' /\ (Pi!Deferred)'
    BY NothingAssumption DEF AttemptInv, SettledByTrace, Pi!SettledByTrace, Pi!Recorded, Pi!Execution, Pi!Answered, Pi!Deferred, Pi!HostWork, Pi!Active, Pi!Goes, Pi!consumer, Pi!BeginTurn
  <1> QED
    BY <1>1, <1>2, <1>3, <1>4, <1>5, <1>6 DEF AttemptInv, SettledByTrace, Pi!SettledByTrace, Pi!Recorded

LEMMA AttemptCallTool == ASSUME AttemptInv, Pi!CallTool PROVE AttemptInv'
  <1>1. Turns'
    <2>1. PICK nonlocal \in BOOLEAN : record' = [record EXCEPT !.steps = @ + 1, !.effects = @ \/ nonlocal]
      BY DEF Pi!CallTool
    <2>2. record \in RecordType
      BY DEF AttemptInv, Turns
    <2> DEFINE e == record.effects \/ nonlocal
    <2>e. e \in BOOLEAN /\ record' = [record EXCEPT !.steps = record.steps + 1, !.effects = e]
      BY <2>1
    <2> HIDE DEF e
    <2>3. record' \in RecordType
      <3>1. record.steps + 1 \in Nat
        BY <2>2 DEF RecordType
      <3> QED
        BY <2>2, <2>e, <3>1 DEF RecordType
    <2>4. record'.ended = record.ended /\ record'.turn = record.turn /\ record'.submitted = record.submitted
      BY <2>e, <2>2 DEF RecordType
    <2> QED
      BY <2>3, <2>4 DEF AttemptInv, Turns, Pi!CallTool, Pi!Goes
  <1>2. Remembered'
    BY NothingAssumption DEF AttemptInv, Remembered, Pi!CallTool
  <1>3. Listening'
    BY NothingAssumption DEF AttemptInv, Listening, Pi!Goes, Pi!consumer, Pi!CallTool
  <1>4. (Pi!QuietWhenSettled)' /\ (Pi!FromCompleteTurn)'
    BY NothingAssumption DEF AttemptInv, SettledByTrace, Pi!SettledByTrace, Pi!QuietWhenSettled, Pi!FromCompleteTurn, Pi!HostWork, Pi!Goes, Pi!CallTool
  <1>5. (record.steps \in 0..MaxSteps /\ Pi!Trace(record) /\ Pi!Reviewed(record))'
    BY NothingAssumption DEF AttemptInv, Turns, RecordType, SettledByTrace, Pi!SettledByTrace, Pi!Recorded, Pi!Trace, Pi!Reviewed, Pi!HostWork, Pi!Goes, Pi!CallTool
  <1>6. (Pi!Execution)' /\ (Pi!Answered)' /\ (Pi!Deferred)'
    BY NothingAssumption DEF AttemptInv, SettledByTrace, Pi!SettledByTrace, Pi!Recorded, Pi!Execution, Pi!Answered, Pi!Deferred, Pi!HostWork, Pi!Goes, Pi!consumer, Pi!CallTool
  <1> QED
    BY <1>1, <1>2, <1>3, <1>4, <1>5, <1>6 DEF AttemptInv, SettledByTrace, Pi!SettledByTrace, Pi!Recorded

LEMMA AttemptSubmissionRefused == ASSUME AttemptInv, Pi!SubmissionRefused PROVE AttemptInv'
  <1>1. Turns'
    BY DEF AttemptInv, Turns, RecordType, Pi!Goes, Pi!SubmissionRefused
  <1>2. Remembered'
    BY NothingAssumption DEF AttemptInv, Remembered, Pi!SubmissionRefused
  <1>3. Listening'
    BY NothingAssumption DEF AttemptInv, Listening, Pi!Goes, Pi!consumer, Pi!SubmissionRefused
  <1>4. (Pi!QuietWhenSettled)' /\ (Pi!FromCompleteTurn)'
    BY NothingAssumption DEF AttemptInv, SettledByTrace, Pi!SettledByTrace, Pi!QuietWhenSettled, Pi!FromCompleteTurn, Pi!HostWork, Pi!Goes, Pi!SubmissionRefused
  <1>5. (record.steps \in 0..MaxSteps /\ Pi!Trace(record) /\ Pi!Reviewed(record))'
    BY NothingAssumption DEF AttemptInv, Turns, RecordType, SettledByTrace, Pi!SettledByTrace, Pi!Recorded, Pi!Trace, Pi!Reviewed, Pi!HostWork, Pi!Goes, Pi!SubmissionRefused
  <1>6. (Pi!Execution)' /\ (Pi!Answered)' /\ (Pi!Deferred)'
    BY NothingAssumption DEF AttemptInv, SettledByTrace, Pi!SettledByTrace, Pi!Recorded, Pi!Execution, Pi!Answered, Pi!Deferred, Pi!HostWork, Pi!Goes, Pi!consumer, Pi!SubmissionRefused
  <1> QED
    BY <1>1, <1>2, <1>3, <1>4, <1>5, <1>6 DEF AttemptInv, SettledByTrace, Pi!SettledByTrace, Pi!Recorded

LEMMA AttemptSubmitResult == ASSUME AttemptInv, Pi!SubmitResult PROVE AttemptInv'
  <1>1. Turns'
    <2>1. PICK s \in {"candidate", "blocked"} : record' = [record EXCEPT !.submitted = s]
      BY DEF Pi!SubmitResult
    <2>2. record \in RecordType
      BY DEF AttemptInv, Turns
    <2>3. record' \in RecordType
      BY <2>1, <2>2 DEF RecordType
    <2>4. record'.ended = record.ended /\ record'.turn = record.turn /\ record'.submitted # Nothing
      BY <2>1, <2>2, NothingAssumption DEF RecordType
    <2> QED
      BY <2>3, <2>4 DEF AttemptInv, Turns, Pi!SubmitResult, Pi!Goes
  <1>2. Remembered'
    BY NothingAssumption DEF AttemptInv, Turns, Remembered, Pi!SubmitResult
  <1>3. Listening'
    BY NothingAssumption DEF AttemptInv, Listening, Pi!Goes, Pi!consumer, Pi!SubmitResult
  <1>4. (Pi!QuietWhenSettled)' /\ (Pi!FromCompleteTurn)'
    BY NothingAssumption DEF AttemptInv, SettledByTrace, Pi!SettledByTrace, Pi!QuietWhenSettled, Pi!FromCompleteTurn, Pi!HostWork, Pi!Active, Pi!Goes, Pi!SubmitResult
  <1>5. (record.steps \in 0..MaxSteps /\ Pi!Trace(record) /\ Pi!Reviewed(record))'
    BY NothingAssumption DEF AttemptInv, Turns, SettledByTrace, Pi!SettledByTrace, Pi!Recorded, Pi!Trace, Pi!Reviewed, Pi!HostWork, Pi!Active, Pi!Goes, Pi!SubmitResult
  <1>6. (Pi!Execution)' /\ (Pi!Answered)' /\ (Pi!Deferred)'
    BY NothingAssumption DEF AttemptInv, SettledByTrace, Pi!SettledByTrace, Pi!Recorded, Pi!Execution, Pi!Answered, Pi!Deferred, Pi!HostWork, Pi!Active, Pi!Goes, Pi!consumer, Pi!SubmitResult
  <1> QED
    BY <1>1, <1>2, <1>3, <1>4, <1>5, <1>6 DEF AttemptInv, SettledByTrace, Pi!SettledByTrace, Pi!Recorded

LEMMA AttemptSettle == ASSUME AttemptInv, Pi!Settle PROVE AttemptInv'
  <1>1. Turns'
    BY DEF AttemptInv, Turns, RecordType, Pi!HostWork, Pi!Active, Pi!Goes, Pi!consumer, Pi!Settle
  <1>2. Remembered'
    BY NothingAssumption DEF AttemptInv, Remembered, Pi!Settle
  <1>3. Listening'
    BY NothingAssumption DEF AttemptInv, Listening, Pi!Goes, Pi!consumer, Pi!Settle
  <1>4. (Pi!QuietWhenSettled)' /\ (Pi!FromCompleteTurn)'
    BY NothingAssumption DEF AttemptInv, SettledByTrace, Pi!SettledByTrace, Pi!QuietWhenSettled, Pi!FromCompleteTurn, Pi!HostWork, Pi!Active, Pi!Goes, Pi!Settle
  <1>5. (record.steps \in 0..MaxSteps /\ Pi!Trace(record) /\ Pi!Reviewed(record))'
    BY NothingAssumption DEF AttemptInv, Turns, SettledByTrace, Pi!SettledByTrace, Pi!Recorded, Pi!Trace, Pi!Reviewed, Pi!HostWork, Pi!Active, Pi!Goes, Pi!Settle
  <1>6. (Pi!Execution)' /\ (Pi!Answered)' /\ (Pi!Deferred)'
    BY NothingAssumption DEF AttemptInv, SettledByTrace, Pi!SettledByTrace, Pi!Recorded, Pi!Execution, Pi!Answered, Pi!Deferred, Pi!HostWork, Pi!Active, Pi!Goes, Pi!consumer, Pi!Settle
  <1> QED
    BY <1>1, <1>2, <1>3, <1>4, <1>5, <1>6 DEF AttemptInv, SettledByTrace, Pi!SettledByTrace, Pi!Recorded

LEMMA AttemptHubFails == ASSUME AttemptInv, Pi!HubFails PROVE AttemptInv'
  <1>1. Turns'
    BY DEF AttemptInv, Turns, RecordType, Pi!HostWork, Pi!Active, Pi!Goes, Pi!consumer, Pi!Fault, Pi!HubFails
  <1>2. Remembered'
    BY NothingAssumption DEF AttemptInv, Remembered, Pi!HubFails
  <1>3. Listening'
    BY NothingAssumption DEF AttemptInv, Listening, Pi!Goes, Pi!consumer, Pi!HubFails
  <1>4. (Pi!QuietWhenSettled)' /\ (Pi!FromCompleteTurn)'
    BY NothingAssumption DEF AttemptInv, SettledByTrace, Pi!SettledByTrace, Pi!QuietWhenSettled, Pi!FromCompleteTurn, Pi!HostWork, Pi!Active, Pi!Goes, Pi!HubFails
  <1>5. (record.steps \in 0..MaxSteps /\ Pi!Trace(record) /\ Pi!Reviewed(record))'
    BY NothingAssumption DEF AttemptInv, Turns, SettledByTrace, Pi!SettledByTrace, Pi!Recorded, Pi!Trace, Pi!Reviewed, Pi!HostWork, Pi!Active, Pi!Goes, Pi!HubFails
  <1>6. (Pi!Execution)' /\ (Pi!Answered)' /\ (Pi!Deferred)'
    BY NothingAssumption DEF AttemptInv, SettledByTrace, Pi!SettledByTrace, Pi!Recorded, Pi!Execution, Pi!Answered, Pi!Deferred, Pi!HostWork, Pi!Active, Pi!Goes, Pi!consumer, Pi!HubFails
  <1> QED
    BY <1>1, <1>2, <1>3, <1>4, <1>5, <1>6 DEF AttemptInv, SettledByTrace, Pi!SettledByTrace, Pi!Recorded

LEMMA AttemptUnwind == ASSUME AttemptInv, Pi!Unwind PROVE AttemptInv'
  <1>1. Turns'
    BY DEF AttemptInv, Turns, RecordType, Pi!Ends, Pi!Goes, Pi!Unwind
  <1>2. Remembered'
    BY NothingAssumption DEF Remembered, Outcomes, Pi!Ends, Pi!Unwind
  <1>3. Listening'
    BY NothingAssumption DEF AttemptInv, Listening, Pi!Ends, Pi!Goes, Pi!consumer, Pi!Unwind
  <1>4. (Pi!QuietWhenSettled)' /\ (Pi!FromCompleteTurn)'
    BY NothingAssumption DEF AttemptInv, SettledByTrace, Pi!SettledByTrace, Pi!QuietWhenSettled, Pi!FromCompleteTurn, Pi!HostWork, Pi!Active, Pi!Ends, Pi!Goes, Pi!Unwind
  <1>5. (record.steps \in 0..MaxSteps /\ Pi!Trace(record) /\ Pi!Reviewed(record))'
    BY NothingAssumption DEF AttemptInv, Turns, RecordType, SettledByTrace, Pi!SettledByTrace, Pi!Recorded, Pi!Trace, Pi!Reviewed, Pi!Ends, Pi!Goes, Pi!Unwind
  <1>6. (Pi!Execution)' /\ (Pi!Answered)' /\ (Pi!Deferred)'
    BY NothingAssumption DEF AttemptInv, SettledByTrace, Pi!SettledByTrace, Pi!Recorded, Pi!Execution, Pi!Answered, Pi!Deferred, Pi!HostWork, Pi!Active, Pi!Ends, Pi!Goes, Pi!consumer, Pi!Unwind
  <1> QED
    BY <1>1, <1>2, <1>3, <1>4, <1>5, <1>6 DEF AttemptInv, SettledByTrace, Pi!SettledByTrace, Pi!Recorded

LEMMA AttemptConsume == ASSUME AttemptInv, Pi!Consume PROVE AttemptInv'
  <1>1. Turns'
    BY DEF AttemptInv, Turns, Pi!durable, Pi!Consume
  <1>2. Remembered'
    BY NothingAssumption DEF AttemptInv, Remembered, Pi!durable, Pi!Consume
  <1>3. Listening'
    BY NothingAssumption DEF AttemptInv, Listening, Pi!durable, Pi!Consume
  <1>4. (Pi!QuietWhenSettled)' /\ (Pi!FromCompleteTurn)'
    BY NothingAssumption DEF Pi!QuietWhenSettled, Pi!FromCompleteTurn, Pi!durable, Pi!Consume
  <1>5. (record.steps \in 0..MaxSteps /\ Pi!Trace(record) /\ Pi!Reviewed(record))'
    BY NothingAssumption DEF AttemptInv, SettledByTrace, Pi!SettledByTrace, Pi!Recorded, Pi!Trace, Pi!Reviewed, Pi!HostWork, Pi!durable, Pi!Consume
  <1>6. (Pi!Execution)' /\ (Pi!Answered)' /\ (Pi!Deferred)'
    BY NothingAssumption DEF AttemptInv, SettledByTrace, Pi!SettledByTrace, Pi!Recorded, Pi!Execution, Pi!Answered, Pi!Deferred, Pi!HostWork, Pi!durable, Pi!Consume
  <1> QED
    BY <1>1, <1>2, <1>3, <1>4, <1>5, <1>6 DEF AttemptInv, SettledByTrace, Pi!SettledByTrace, Pi!Recorded

LEMMA AttemptDeliverCandidate == ASSUME AttemptInv, Pi!DeliverCandidate PROVE AttemptInv'
  <1>1. Turns'
    BY DEF AttemptInv, Turns, Pi!durable, Pi!DeliverCandidate
  <1>2. Remembered'
    BY NothingAssumption DEF AttemptInv, Remembered, Pi!durable, Pi!DeliverCandidate
  <1>3. Listening'
    BY NothingAssumption DEF AttemptInv, Listening, Pi!durable, Pi!DeliverCandidate
  <1>4. (Pi!QuietWhenSettled)' /\ (Pi!FromCompleteTurn)'
    BY NothingAssumption DEF AttemptInv, SettledByTrace, Pi!SettledByTrace, Pi!QuietWhenSettled, Pi!FromCompleteTurn, Pi!HostWork, Pi!durable, Pi!DeliverCandidate
  <1>5. (record.steps \in 0..MaxSteps /\ Pi!Trace(record) /\ Pi!Reviewed(record))'
    BY NothingAssumption DEF AttemptInv, SettledByTrace, Pi!SettledByTrace, Pi!Recorded, Pi!Trace, Pi!Reviewed, Pi!HostWork, Pi!durable, Pi!DeliverCandidate
  <1>6. (Pi!Execution)' /\ (Pi!Answered)' /\ (Pi!Deferred)'
    BY NothingAssumption DEF AttemptInv, SettledByTrace, Pi!SettledByTrace, Pi!Recorded, Pi!Execution, Pi!Answered, Pi!Deferred, Pi!HostWork, Pi!durable, Pi!Observed, Pi!DeliverCandidate
  <1> QED
    BY <1>1, <1>2, <1>3, <1>4, <1>5, <1>6 DEF AttemptInv, SettledByTrace, Pi!SettledByTrace, Pi!Recorded

LEMMA AttemptWatchdogCancels == ASSUME AttemptInv, Pi!WatchdogCancels PROVE AttemptInv'
  <1>1. Turns'
    BY DEF AttemptInv, Turns, Pi!durable, Pi!Cancelled, Pi!WatchdogCancels
  <1>2. Remembered'
    BY NothingAssumption DEF AttemptInv, Remembered, Pi!durable, Pi!WatchdogCancels
  <1>3. Listening'
    BY NothingAssumption DEF AttemptInv, Listening, Pi!durable, Pi!WatchdogCancels
  <1>4. (Pi!QuietWhenSettled)' /\ (Pi!FromCompleteTurn)'
    BY NothingAssumption DEF Pi!QuietWhenSettled, Pi!FromCompleteTurn, Pi!durable, Pi!WatchdogCancels
  <1>5. (record.steps \in 0..MaxSteps /\ Pi!Trace(record) /\ Pi!Reviewed(record))'
    BY NothingAssumption DEF AttemptInv, SettledByTrace, Pi!SettledByTrace, Pi!Recorded, Pi!Trace, Pi!Reviewed, Pi!HostWork, Pi!Active, Pi!durable, Pi!Cancelled, Pi!WatchdogCancels
  <1>6. (Pi!Execution)' /\ (Pi!Answered)' /\ (Pi!Deferred)'
    BY NothingAssumption DEF AttemptInv, Listening, SettledByTrace, Pi!SettledByTrace, Pi!Recorded, Pi!Execution, Pi!Answered, Pi!Deferred, Pi!HostWork, Pi!durable, Pi!Cancelled, Pi!WatchdogCancels
  <1> QED
    BY <1>1, <1>2, <1>3, <1>4, <1>5, <1>6 DEF AttemptInv, SettledByTrace, Pi!SettledByTrace, Pi!Recorded

LEMMA AttemptGraceExpires == ASSUME AttemptInv, Pi!GraceExpires PROVE AttemptInv'
  <1>1. Turns'
    BY DEF AttemptInv, Turns, Pi!durable, Pi!GraceExpires
  <1>2. Remembered'
    BY NothingAssumption DEF AttemptInv, Remembered, Pi!durable, Pi!GraceExpires
  <1>3. Listening'
    BY NothingAssumption DEF AttemptInv, Listening, Pi!durable, Pi!GraceExpires
  <1>4. (Pi!QuietWhenSettled)' /\ (Pi!FromCompleteTurn)'
    BY NothingAssumption DEF AttemptInv, Listening, Pi!QuietWhenSettled, Pi!FromCompleteTurn, Pi!durable, Pi!GraceExpires
  <1>5. (record.steps \in 0..MaxSteps /\ Pi!Trace(record) /\ Pi!Reviewed(record))'
    BY NothingAssumption DEF AttemptInv, SettledByTrace, Pi!SettledByTrace, Pi!Recorded, Pi!Trace, Pi!Reviewed, Pi!HostWork, Pi!durable, Pi!GraceExpires
  <1>6. (Pi!Execution)' /\ (Pi!Answered)' /\ (Pi!Deferred)'
    BY NothingAssumption DEF AttemptInv, SettledByTrace, Pi!SettledByTrace, Pi!Recorded, Pi!Execution, Pi!Answered, Pi!Deferred, Pi!HostWork, Pi!durable, Pi!GraceExpires
  <1> QED
    BY <1>1, <1>2, <1>3, <1>4, <1>5, <1>6 DEF AttemptInv, SettledByTrace, Pi!SettledByTrace, Pi!Recorded

LEMMA AttemptCancelAttempt == ASSUME AttemptInv, Pi!CancelAttempt PROVE AttemptInv'
  <1>1. Turns'
    BY DEF AttemptInv, Turns, Pi!durable, Pi!Cancelled, Pi!CancelAttempt
  <1>2. Remembered'
    BY NothingAssumption DEF AttemptInv, Remembered, Pi!durable, Pi!CancelAttempt
  <1>3. Listening'
    BY NothingAssumption DEF AttemptInv, Listening, Pi!durable, Pi!consumer, Pi!CancelAttempt
  <1>4. (Pi!QuietWhenSettled)' /\ (Pi!FromCompleteTurn)'
    BY NothingAssumption DEF Pi!QuietWhenSettled, Pi!FromCompleteTurn, Pi!durable, Pi!CancelAttempt
  <1>5. (record.steps \in 0..MaxSteps /\ Pi!Trace(record) /\ Pi!Reviewed(record))'
    BY NothingAssumption DEF AttemptInv, SettledByTrace, Pi!SettledByTrace, Pi!Recorded, Pi!Trace, Pi!Reviewed, Pi!HostWork, Pi!Active, Pi!durable, Pi!Cancelled, Pi!CancelAttempt
  <1>6. (Pi!Execution)' /\ (Pi!Answered)' /\ (Pi!Deferred)'
    BY NothingAssumption DEF AttemptInv, Listening, SettledByTrace, Pi!SettledByTrace, Pi!Recorded, Pi!Execution, Pi!Answered, Pi!Deferred, Pi!HostWork, Pi!durable, Pi!consumer, Pi!Cancelled, Pi!CancelAttempt
  <1> QED
    BY <1>1, <1>2, <1>3, <1>4, <1>5, <1>6 DEF AttemptInv, SettledByTrace, Pi!SettledByTrace, Pi!Recorded

LEMMA AttemptStartReview == ASSUME AttemptInv, Pi!StartReview PROVE AttemptInv'
  <1>1. Turns'
    BY DEF AttemptInv, Turns, RecordType, Pi!StartReview
  <1>2. Remembered'
    BY NothingAssumption DEF AttemptInv, Remembered, Pi!StartReview
  <1>3. Listening'
    BY NothingAssumption DEF AttemptInv, Turns, Listening, Pi!consumer, RecordType, Pi!StartReview
  <1>4. (Pi!QuietWhenSettled)' /\ (Pi!FromCompleteTurn)'
    BY NothingAssumption DEF AttemptInv, SettledByTrace, Pi!SettledByTrace, Pi!QuietWhenSettled, Pi!FromCompleteTurn, Pi!HostWork, Pi!StartReview
  <1>5. (record.steps \in 0..MaxSteps /\ Pi!Trace(record) /\ Pi!Reviewed(record))'
    BY NothingAssumption DEF AttemptInv, Turns, RecordType, SettledByTrace, Pi!SettledByTrace, Pi!Recorded, Pi!Trace, Pi!Reviewed, Pi!HostWork, Pi!Active, Pi!StartReview
  <1>6. (Pi!Execution)' /\ (Pi!Answered)' /\ (Pi!Deferred)'
    BY NothingAssumption DEF AttemptInv, SettledByTrace, Pi!SettledByTrace, Pi!Recorded, Pi!Execution, Pi!Answered, Pi!Deferred, Pi!HostWork, Pi!consumer, Pi!StartReview
  <1> QED
    BY <1>1, <1>2, <1>3, <1>4, <1>5, <1>6 DEF AttemptInv, SettledByTrace, Pi!SettledByTrace, Pi!Recorded

LEMMA AttemptEndReview == ASSUME AttemptInv, Pi!EndReview PROVE AttemptInv'
  <1>1. Turns'
    <2>1. record' = [record EXCEPT !.reviews = watcher] \/ record' = record
      BY DEF Pi!EndReview
    <2>2. record \in RecordType /\ watcher \in Nat
      BY DEF AttemptInv, Turns, Listening, Pi!EndReview
    <2>3. record' \in RecordType
      BY <2>1, <2>2 DEF RecordType
    <2>4. record'.ended = record.ended /\ record'.turn = record.turn /\ record'.submitted = record.submitted
      BY <2>1, <2>2 DEF RecordType
    <2> QED
      BY <2>3, <2>4 DEF AttemptInv, Turns, Pi!EndReview
  <1>2. Remembered'
    BY NothingAssumption DEF AttemptInv, Remembered, SettledByTrace, Pi!SettledByTrace, Pi!Recorded, Pi!Execution, Pi!EndReview
  <1>3. Listening'
    BY NothingAssumption DEF AttemptInv, Listening, Pi!consumer, Pi!EndReview
  <1>4. (Pi!QuietWhenSettled)' /\ (Pi!FromCompleteTurn)'
    BY NothingAssumption DEF AttemptInv, SettledByTrace, Pi!SettledByTrace, Pi!QuietWhenSettled, Pi!FromCompleteTurn, Pi!EndReview
  <1>5. (record.steps \in 0..MaxSteps /\ Pi!Trace(record) /\ Pi!Reviewed(record))'
    <2>1. record \in RecordType /\ watcher \in Nat /\ watcher = record.reviewed /\ watcher' = Nothing
      BY NothingAssumption DEF AttemptInv, Turns, Listening, SettledByTrace, Pi!SettledByTrace, Pi!Recorded, Pi!Reviewed, Pi!EndReview
    <2>2. /\ record'.steps = record.steps /\ record'.submitted = record.submitted /\ record'.error = record.error
          /\ record'.turn = record.turn /\ record'.ended = record.ended /\ record'.effects = record.effects
          /\ record'.reviewed = record.reviewed /\ record'.reviews \in {record.reviews, record.reviewed}
      BY <2>1 DEF RecordType, Pi!EndReview
    <2>3. receipt' = receipt /\ record.reviews \in Nat /\ record.reviewed \in Nat /\ record.steps \in Nat
      BY <2>1 DEF RecordType, Pi!EndReview
    <2> QED
      BY <2>1, <2>2, <2>3, NothingAssumption DEF AttemptInv, Listening, SettledByTrace, Pi!SettledByTrace, Pi!Recorded, Pi!Trace, Pi!Reviewed
  <1>6. (Pi!Execution)' /\ (Pi!Answered)' /\ (Pi!Deferred)'
    BY NothingAssumption DEF AttemptInv, SettledByTrace, Pi!SettledByTrace, Pi!Recorded, Pi!Execution, Pi!Answered, Pi!Deferred, Pi!consumer, Pi!EndReview
  <1> QED
    BY <1>1, <1>2, <1>3, <1>4, <1>5, <1>6 DEF AttemptInv, SettledByTrace, Pi!SettledByTrace, Pi!Recorded

LEMMA AttemptAdoptReview == ASSUME AttemptInv, Pi!AdoptReview PROVE AttemptInv'
  <1>1. Turns'
    BY DEF AttemptInv, Turns, Pi!Cancelled, Pi!AdoptReview
  <1>2. Remembered'
    BY NothingAssumption DEF AttemptInv, Remembered, Pi!AdoptReview
  <1>3. Listening'
    BY NothingAssumption DEF AttemptInv, Turns, Listening, Pi!consumer, RecordType, Pi!AdoptReview
  <1>4. (Pi!QuietWhenSettled)' /\ (Pi!FromCompleteTurn)'
    BY NothingAssumption DEF Pi!QuietWhenSettled, Pi!FromCompleteTurn, Pi!AdoptReview
  <1>5. (record.steps \in 0..MaxSteps /\ Pi!Trace(record) /\ Pi!Reviewed(record))'
    BY NothingAssumption DEF AttemptInv, Turns, RecordType, SettledByTrace, Pi!SettledByTrace, Pi!Recorded, Pi!Trace, Pi!Reviewed, Pi!HostWork, Pi!Active, Pi!Cancelled, Pi!AdoptReview
  <1>6. (Pi!Execution)' /\ (Pi!Answered)' /\ (Pi!Deferred)'
    BY NothingAssumption DEF AttemptInv, Listening, SettledByTrace, Pi!SettledByTrace, Pi!Recorded, Pi!Execution, Pi!Answered, Pi!Deferred, Pi!HostWork, Pi!consumer, Pi!Cancelled, Pi!AdoptReview
  <1> QED
    BY <1>1, <1>2, <1>3, <1>4, <1>5, <1>6 DEF AttemptInv, SettledByTrace, Pi!SettledByTrace, Pi!Recorded

LEMMA AttemptCrash == ASSUME AttemptInv, Pi!Crash PROVE AttemptInv'
  <1>1. Turns'
    BY DEF AttemptInv, Turns, Pi!durable, Pi!Crash
  <1>2. Remembered'
    BY NothingAssumption DEF Remembered, Outcomes, Pi!Crash
  <1>3. Listening'
    BY NothingAssumption DEF AttemptInv, Listening, Pi!durable, Pi!Crash
  <1>4. (Pi!QuietWhenSettled)' /\ (Pi!FromCompleteTurn)'
    BY NothingAssumption DEF AttemptInv, SettledByTrace, Pi!SettledByTrace, Pi!QuietWhenSettled, Pi!FromCompleteTurn, Pi!HostWork, Pi!Active, Pi!durable, Pi!Crash
  <1>5. (record.steps \in 0..MaxSteps /\ Pi!Trace(record) /\ Pi!Reviewed(record))'
    BY NothingAssumption DEF AttemptInv, SettledByTrace, Pi!SettledByTrace, Pi!Recorded, Pi!Trace, Pi!Reviewed, Pi!durable, Pi!Crash
  <1>6. (Pi!Execution)' /\ (Pi!Answered)' /\ (Pi!Deferred)'
    BY NothingAssumption DEF AttemptInv, Listening, Pi!Execution, Pi!Answered, Pi!Deferred, Pi!Crash
  <1> QED
    BY <1>1, <1>2, <1>3, <1>4, <1>5, <1>6 DEF AttemptInv, SettledByTrace, Pi!SettledByTrace, Pi!Recorded

LEMMA AttemptRecover == ASSUME AttemptInv, Pi!Recover PROVE AttemptInv'
  <1>1. Turns'
    BY DEF AttemptInv, Turns, Pi!durable, Pi!Recovered, Pi!Recover
  <1>2. Remembered'
    BY NothingAssumption DEF Remembered, Outcomes, Pi!Recovered, Pi!Recover
  <1>3. Listening'
    BY NothingAssumption DEF AttemptInv, Listening, Pi!durable, Pi!consumer, Pi!Recovered, Pi!Recover
  <1>4. (Pi!QuietWhenSettled)' /\ (Pi!FromCompleteTurn)'
    BY NothingAssumption DEF Pi!QuietWhenSettled, Pi!FromCompleteTurn, Pi!durable, Pi!Recovered, Pi!Recover
  <1>5. (record.steps \in 0..MaxSteps /\ Pi!Trace(record) /\ Pi!Reviewed(record))'
    BY NothingAssumption DEF AttemptInv, SettledByTrace, Pi!SettledByTrace, Pi!Recorded, Pi!Trace, Pi!Reviewed, Pi!HostWork, Pi!durable, Pi!Recovered, Pi!Recover
  <1>6. (Pi!Execution)' /\ (Pi!Answered)' /\ (Pi!Deferred)'
    BY NothingAssumption DEF AttemptInv, Listening, SettledByTrace, Pi!SettledByTrace, Pi!Recorded, Pi!Execution, Pi!Answered, Pi!Deferred, Pi!HostWork, Pi!Active, Pi!durable, Pi!consumer, Pi!Recovered, Pi!Recover
  <1> QED
    BY <1>1, <1>2, <1>3, <1>4, <1>5, <1>6 DEF AttemptInv, SettledByTrace, Pi!SettledByTrace, Pi!Recorded

LEMMA AttemptTask == ASSUME AttemptInv, Pi!TaskStep PROVE AttemptInv'
  <1>1. ASSUME Pi!Replayed PROVE AttemptInv'
    <2>1. record.submitted \in {"candidate", "blocked"}
      BY <1>1 DEF AttemptInv, Turns, RecordType, SettledByTrace, Pi!SettledByTrace, Pi!Recorded, Pi!Trace, Pi!Replayed
    <2> QED
      BY <1>1, <2>1, TaskEnds, NothingAssumption DEF Pi!Replayed, Pi!Result, Pi!HostWork, Pi!Active, Outcomes
  <1>2. ASSUME Pi!NotContinued PROVE AttemptInv'
    BY <1>2, TaskEnds, NothingAssumption DEF Pi!NotContinued, Pi!HostWork, Pi!Active, Outcomes
  <1>3. ASSUME Pi!NotStarted PROVE AttemptInv'
    BY <1>3, TaskEnds, NothingAssumption DEF Pi!NotStarted, Pi!HostWork, Pi!Active, Outcomes
  <1>4. ASSUME Pi!Closed PROVE AttemptInv'
    <2>1. task = "ending" => record.ended /\ record.submitted \in {"candidate", "blocked"}
      BY DEF AttemptInv, Turns, RecordType, SettledByTrace, Pi!SettledByTrace, Pi!Recorded, Pi!Trace
    <2> QED
      BY <1>4, <2>1, TaskEnds, NothingAssumption DEF Pi!Closed, Pi!Result, Pi!HostWork, Pi!Active, Outcomes
  <1> QED
    BY <1>1, <1>2, <1>3, <1>4, AttemptOpen, AttemptBeginTurn, AttemptCallTool, AttemptSubmissionRefused, AttemptSubmitResult,
       AttemptSettle, AttemptHubFails, AttemptUnwind DEF Pi!TaskStep

LEMMA AttemptConsumer == ASSUME AttemptInv, Pi!ConsumerStep PROVE AttemptInv'
  <1>1. Pi!HostWork => outcome = Nothing
    BY DEF AttemptInv, SettledByTrace, Pi!SettledByTrace, Pi!Recorded, Pi!Execution
  <1>2. ASSUME Pi!DeliverCompleted PROVE AttemptInv'
    BY <1>1, <1>2, AttemptEnds, NothingAssumption DEF Pi!DeliverCompleted, Pi!Observed, AttemptInv, Remembered
  <1>3. ASSUME Pi!DeliverBlocked PROVE AttemptInv'
    BY <1>1, <1>3, AttemptEnds, NothingAssumption DEF Pi!DeliverBlocked, Pi!Observed, Pi!BlockerOf, AttemptInv, Remembered
  <1>4. ASSUME Pi!DeliverFailed PROVE AttemptInv'
    BY <1>1, <1>4, AttemptEnds, NothingAssumption DEF Pi!DeliverFailed, Pi!Failures
  <1>5. ASSUME Pi!TimeOut PROVE AttemptInv'
    BY <1>5, AttemptEnds DEF Pi!TimeOut, Pi!Drained
  <1> QED
    BY <1>2, <1>3, <1>4, <1>5, AttemptConsume, AttemptDeliverCandidate, AttemptWatchdogCancels, AttemptGraceExpires
    DEF Pi!ConsumerStep

LEMMA AttemptStep == ASSUME AttemptInv, Pi!Next PROVE AttemptInv'
  <1>1. ASSUME Pi!RestartLocal PROVE AttemptInv'
    <2>1. ~Pi!HostWork
      BY <1>1 DEF AttemptInv, SettledByTrace, Pi!SettledByTrace, Pi!Recorded, Pi!Execution, Pi!RestartLocal, Pi!HostWork, Pi!Active
    <2> QED
      BY <1>1, <2>1, AttemptEnds DEF Pi!RestartLocal
  <1> QED
    BY <1>1, AttemptTask, AttemptConsumer, AttemptCancelAttempt, AttemptStartReview, AttemptEndReview, AttemptAdoptReview,
       AttemptCrash, AttemptRecover DEF Pi!Next, Pi!Command

LEMMA AttemptStart == ASSUME Pi!Init PROVE AttemptInv
  <1>1. record \in RecordType /\ outcome = Nothing /\ stream = "off" /\ status = "running" /\ task = "none" /\ ~record.ended
        /\ ~record.turn
    BY DEF Pi!Init, RecordType
  <1>2. Turns /\ Remembered /\ Listening
    BY <1>1, NothingAssumption DEF Pi!Init, Turns, Remembered, Outcomes, Listening
  <1>3. SettledByTrace
    BY <1>1, NothingAssumption DEF Pi!Init, SettledByTrace, Pi!SettledByTrace, Pi!QuietWhenSettled, Pi!FromCompleteTurn,
       Pi!Recorded, Pi!Trace, Pi!Reviewed, Pi!Execution, Pi!Answered, Pi!Deferred, Pi!HostWork, Pi!Active
  <1> QED
    BY <1>2, <1>3 DEF AttemptInv

LEMMA AttemptStutters == ASSUME AttemptInv, UNCHANGED attempt PROVE AttemptInv'
  BY DEF attempt, AttemptInv, Turns, Remembered, Listening, SettledByTrace, Pi!SettledByTrace, Pi!QuietWhenSettled,
     Pi!FromCompleteTurn, Pi!Recorded, Pi!Trace, Pi!Reviewed, Pi!Execution, Pi!Answered, Pi!Deferred, Pi!HostWork

(* An Attempt on a Pi host is settled only when nothing of it runs any more, as succeeded or   *)
(* with its Worker's own blocker only if its trace shows a turn that ended with that result,   *)
(* and what the process remembers of it agrees with the trace: through every crash, recovery,  *)
(* cancellation, timeout and review (pi_execution.py, pi_worker.py, orchestrator).             *)
THEOREM AttemptsEndByTrace == HubSpec => []SettledByTrace
  <1>1. HubInit => AttemptInv
    BY AttemptStart DEF HubInit
  <1>2. AttemptInv /\ [HubNext]_<<vars, part, attempt>> => AttemptInv'
    BY AttemptStep, AttemptStutters DEF HubNext, Stays
  <1>3. AttemptInv => SettledByTrace
    BY DEF AttemptInv
  <1> QED
    BY <1>1, <1>2, <1>3, PTL DEF HubSpec
=============================================================================
