----------------------------- MODULE AgentSessions -----------------------------
(* What Agents of one Run read of each other: the discussion of a phase, kept in the *)
(* public event log and read by a cursor that lives in the reader's own trace, and   *)
(* mail between physical sessions, acknowledged when the model's input had it.       *)
EXTENDS Naturals, Sequences, FiniteSets

CONSTANTS
    Attempts,       \* each has its own physical session
    PhaseOf,        \* Attempt |-> the phase of its node, or None
    Keys,           \* of publications and handoffs
    Ids,            \* message_id
    PageLimit,      \* before_step reads pages of so many entries
    MaxCalls,       \* tools they call
    MaxCrashes,
    None

ASSUME SessionAssumption ==
    /\ PageLimit \in Nat \ {0}
    /\ {MaxCalls, MaxCrashes} \subseteq Nat
    /\ None \notin Attempts /\ None \notin [from : Attempts, to : Attempts, status : {"pending", "delivered", "read"}]

VARIABLES
    status,         \* Attempt |-> pending, running or over
    log,            \* the event log: [type, phase, by, key], its index is the offset
    mail,           \* message |-> None or [from, to, status]
    trace,          \* Attempt |-> [turn, received, results, ended], its durable session
    pc,             \* Attempt |-> where its task is
    queued,         \* Attempt |-> the ModelMessages steered and not yet prepared
    call,           \* Attempt |-> the tool call it handles
    calls, crashes

vars == <<status, log, mail, trace, pc, queued, call, calls, crashes>>
memory == <<pc, queued, call>>
----------------------------------------------------------------------------
Entries == {"published", "handoff"}
Greatest(S) == CHOOSE x \in S : \A y \in S : y <= x
Received(a) == {trace[a].received[i] : i \in DOMAIN trace[a].received}
Is(kind, S) == {m \in S : m.kind = kind}

\* the entries a member of the phase can read after an offset
Published(p, after) ==
    {i \in DOMAIN log : i > after /\ log[i].type \in Entries /\ log[i].phase = p}
Page(S) == {i \in S : Cardinality({j \in S : j <= i}) <= PageLimit}
Opened(p) == \E i \in DOMAIN log : log[i].type = "opened" /\ log[i].phase = p
Member(a) == \E i \in DOMAIN log : log[i].type = "joined" /\ log[i].by = a
KeyUsed(type, a, k) == \E i \in DOMAIN log : log[i].type = type /\ log[i].by = a /\ log[i].key = k

\* a mutant: the cursor of what was steered
CursorAhead(a) == Greatest({0} \cup {m.next : m \in Is("page", Received(a) \cup queued[a])})
\* from persisted model inputs, never from a pre-delivery ACK
Cursor(a) == Greatest({0} \cup {m.next : m \in Is("page", Received(a))})

PageMessage(after, page) == [kind |-> "page", after |-> after, next |-> Greatest(page), entries |-> page]
MailMessage(m) == [kind |-> "mail", id |-> m]

PhaseMessages(a) ==
    LET page == Page(Published(PhaseOf[a], Cursor(a))) IN
    IF PhaseOf[a] = None \/ page = {} THEN {} ELSE {PageMessage(Cursor(a), page)}
MailFor(a, st) == {m \in Ids : mail[m] # None /\ mail[m].to = a /\ mail[m].status \in st}
Injected(a) == {MailMessage(m) : m \in MailFor(a, {"pending"})}
\* before_step, deduplicated by digest
BeforeStep(a) == queued[a] \cup PhaseMessages(a) \cup Injected(a)

Message(a, b) == [from |-> a, to |-> b, status |-> "pending"]
Sessions == {a \in Attempts : status[a] # "pending"}
\* join and publish need an Attempt that runs
Active(a) == status[a] = "running"
Recorded(a, m) == [trace EXCEPT ![a].received = Append(@, m)]
Delivered(m) == IF mail[m].status = "pending" THEN [mail[m] EXCEPT !.status = "delivered"] ELSE mail[m]
MarkRead(S) == [m \in Ids |-> IF m \in S THEN [mail[m] EXCEPT !.status = "read"] ELSE mail[m]]
----------------------------------------------------------------------------
Init ==
    /\ status = [a \in Attempts |-> "pending"]
    /\ log = <<>>
    /\ mail = [m \in Ids |-> None]
    /\ trace = [a \in Attempts |-> [turn |-> FALSE, received |-> <<>>, results |-> {}, ended |-> FALSE]]
    /\ pc = [a \in Attempts |-> "none"]
    /\ queued = [a \in Attempts |-> {}]
    /\ call = [a \in Attempts |-> None]
    /\ calls = 0
    /\ crashes = 0

\* _bind_execution: an Attempt runs on a session of its own
Bind(a) ==
    /\ status[a] = "pending"
    /\ status' = [status EXCEPT ![a] = "running"]
    /\ UNCHANGED <<log, mail, trace, memory, calls, crashes>>

\* _run_execution joins the phase once per Attempt and opens it for the first one
Join(a) ==
    /\ Active(a) /\ pc[a] = "none" /\ ~trace[a].ended
    /\ LET p == PhaseOf[a]
           open == IF Opened(p) THEN <<>> ELSE <<[type |-> "opened", phase |-> p, by |-> None, key |-> None]>>
           join == IF Member(a) THEN <<>> ELSE <<[type |-> "joined", phase |-> p, by |-> a, key |-> None]>>
       IN  log' = IF p = None THEN log ELSE log \o open \o join
    /\ pc' = [pc EXCEPT ![a] = "joined"]
    /\ UNCHANGED <<status, mail, trace, queued, call, calls, crashes>>

BeginTurn(a) ==
    /\ pc[a] = "joined" /\ ~trace[a].turn
    /\ trace' = [trace EXCEPT ![a].turn = TRUE]
    /\ queued' = [queued EXCEPT ![a] = BeforeStep(a)]
    /\ pc' = [pc EXCEPT ![a] = "turn"]
    /\ UNCHANGED <<status, log, mail, call, calls, crashes>>

\* a turn that was begun by a process that died is never continued
Unknown(a) ==
    /\ pc[a] = "joined" /\ trace[a].turn
    /\ status' = [status EXCEPT ![a] = "over"]
    /\ pc' = [pc EXCEPT ![a] = "done"]
    /\ UNCHANGED <<log, mail, trace, queued, call, calls, crashes>>

\* the model's input had the message: the trace records it first
InputPrepared(a) ==
    \E m \in queued[a] :
        /\ pc[a] = "turn"
        /\ queued' = [queued EXCEPT ![a] = @ \ {m}]
        /\ trace' = Recorded(a, m)
        /\ call' = [call EXCEPT ![a] = IF m.kind = "mail" THEN m ELSE None]
        /\ pc' = [pc EXCEPT ![a] = IF m.kind = "mail" THEN "acknowledge" ELSE "turn"]
        /\ UNCHANGED <<status, log, mail, calls, crashes>>

\* a mutant: nothing is acknowledged
Unacknowledged(a) == mail
Acknowledged(a) ==
    [m \in Ids |-> IF m = call[a].id THEN Delivered(m) ELSE mail[m]]
Acknowledge(a) ==
    /\ pc[a] = "acknowledge"
    /\ mail' = Acknowledged(a)
    /\ call' = [call EXCEPT ![a] = None]
    /\ pc' = [pc EXCEPT ![a] = "turn"]
    /\ UNCHANGED <<status, log, trace, queued, calls, crashes>>

PhaseTools == [kind : {"publish"}, key : Keys]
MailTools(a) == [kind : {"send"}, to : Attempts \ {a}, id : Ids] \cup [kind : {"read", "wait"}]
Tools(a) == PhaseTools \cup MailTools(a) \cup [kind : {"handoff"}, key : Keys] \cup [kind : {"submit"}]

CallTool(a) ==
    /\ pc[a] = "turn" /\ calls < MaxCalls
    /\ \E t \in Tools(a) : call' = [call EXCEPT ![a] = t]
    /\ calls' = calls + 1
    /\ pc' = [pc EXCEPT ![a] = "tool"]
    /\ UNCHANGED <<status, log, mail, trace, queued, crashes>>

Returns(a, t) ==
    /\ call' = [call EXCEPT ![a] = t]
    /\ pc' = [pc EXCEPT ![a] = "executed"]
    /\ UNCHANGED <<status, trace, queued, calls, crashes>>
Result(kind, ids) == [kind |-> kind, ids |-> ids]

\* publish and a handoff's confirmation: an entry per Attempt and key
Publish(a, kind, type) ==
    /\ pc[a] = "tool" /\ call[a].kind = kind /\ Active(a)
    /\ LET entry == [type |-> type, phase |-> PhaseOf[a], by |-> a, key |-> call[a].key] IN
       log' = IF PhaseOf[a] = None \/ KeyUsed(type, a, call[a].key) THEN log ELSE Append(log, entry)
    /\ Returns(a, Result(kind, {}))
    /\ UNCHANGED mail

Send(a) ==
    /\ pc[a] = "tool" /\ call[a].kind = "send"
    /\ mail' = IF mail[call[a].id] = None /\ call[a].to \in Sessions
               THEN [mail EXCEPT ![call[a].id] = Message(a, call[a].to)] ELSE mail
    /\ Returns(a, Result("send", {}))
    /\ UNCHANGED log

Read(a) ==
    /\ pc[a] = "tool" /\ call[a].kind = "read"
    /\ LET found == MailFor(a, {"pending", "delivered", "read"}) IN
       mail' = MarkRead(found) /\ Returns(a, Result("read", found))
    /\ UNCHANGED log

\* until a message that is not read, or its time is over
Wait(a) ==
    /\ pc[a] = "tool" /\ call[a].kind = "wait"
    /\ LET found == MailFor(a, {"pending", "delivered"}) IN
       mail' = MarkRead(found) /\ Returns(a, Result("wait", found))
    /\ UNCHANGED log

Submit(a) ==
    /\ pc[a] = "tool" /\ call[a].kind = "submit"
    /\ Returns(a, Result("submit", {}))
    /\ UNCHANGED <<log, mail>>

\* the result is recorded, and what the next step reads is steered before it continues
ToolResult(a) ==
    /\ pc[a] = "executed"
    /\ trace' = [trace EXCEPT ![a].results = @ \cup call[a].ids]
    /\ IF call[a].kind = "submit"
       THEN queued' = queued /\ pc' = [pc EXCEPT ![a] = "settling"]
       ELSE queued' = [queued EXCEPT ![a] = BeforeStep(a)] /\ pc' = [pc EXCEPT ![a] = "turn"]
    /\ call' = [call EXCEPT ![a] = None]
    /\ UNCHANGED <<status, log, mail, calls, crashes>>

Settled(a) ==
    /\ pc[a] = "settling"
    /\ trace' = [trace EXCEPT ![a].ended = TRUE]
    /\ pc' = [pc EXCEPT ![a] = "done"]
    /\ UNCHANGED <<status, log, mail, queued, call, calls, crashes>>

\* a complete turn is its candidate, also for the process after
Complete(a) ==
    /\ status[a] = "running" /\ trace[a].ended
    /\ status' = [status EXCEPT ![a] = "over"]
    /\ pc' = [pc EXCEPT ![a] = "done"]
    /\ UNCHANGED <<log, mail, trace, queued, call, calls, crashes>>

\* a failure, a timeout or a command ends it at any point
Stop(a) ==
    /\ status[a] = "running" /\ pc[a] # "done"
    /\ status' = [status EXCEPT ![a] = "over"]
    /\ pc' = [pc EXCEPT ![a] = "done"]
    /\ UNCHANGED <<log, mail, trace, queued, call, calls, crashes>>

\* the process dies: tasks and what was steered are gone
Crash ==
    /\ crashes < MaxCrashes
    /\ crashes' = crashes + 1
    /\ pc' = [a \in Attempts |-> "none"]
    /\ queued' = [a \in Attempts |-> {}]
    /\ call' = [a \in Attempts |-> None]
    /\ UNCHANGED <<status, log, mail, trace, calls>>

Next ==
    \/ \E a \in Attempts :
        \/ Bind(a) \/ Join(a) \/ BeginTurn(a) \/ Unknown(a)
        \/ InputPrepared(a) \/ Acknowledge(a) \/ CallTool(a)
        \/ Publish(a, "publish", "published") \/ Publish(a, "handoff", "handoff")
        \/ Send(a) \/ Read(a) \/ Wait(a) \/ Submit(a)
        \/ ToolResult(a) \/ Settled(a) \/ Complete(a) \/ Stop(a)
    \/ Crash

Spec == Init /\ [][Next]_vars
----------------------------------------------------------------------------
(* Up to its cursor an Agent was shown every entry of its phase, whatever order its *)
(* pages were prepared in and whatever was published meanwhile: a lost page is read *)
(* again and never skipped (PhaseSessions.read, before_step).                      *)
NoGaps ==
    \A a \in Attempts : \A i \in Published(PhaseOf[a], 0) :
        PhaseOf[a] # None /\ i <= Cursor(a) => \E m \in Is("page", Received(a)) : i \in m.entries

(* What the event log and the durable sessions hold.                                *)
\* entries of Attempts that joined their phase, which was opened before
PublishedDocument(i) ==
    log[i].type \in {"joined"} \cup Entries =>
        /\ log[i].phase = PhaseOf[log[i].by]
        /\ \E j \in 1..i - 1 : log[j].type = "opened" /\ log[j].phase = log[i].phase
\* a message has another session as its target, and leaves "pending" for good
SessionMessage(m) ==
    /\ mail[m].from # mail[m].to /\ mail[m].status \in {"pending", "delivered", "read"}
    /\ {mail[m].from, mail[m].to} \subseteq Sessions
\* a turn comes first and its end last, and only a session's own turn receives
AgentTrace(a) ==
    /\ ~trace[a].turn => trace[a].received = <<>> /\ trace[a].results = {} /\ ~trace[a].ended
    /\ trace[a].turn => a \in Sessions
Stored ==
    /\ \A i \in DOMAIN log : PublishedDocument(i)
    /\ \A m \in Ids : mail[m] # None => SessionMessage(m)
    /\ \A a \in Attempts : AgentTrace(a)

(* A message shows as delivered exactly when the target's model input had it, at    *)
(* most once, and as read only when the target's own tool took it: only a process   *)
(* that dies between the trace and the mailbox leaves a received message pending.   *)
Copies(m) == {i \in DOMAIN trace[mail[m].to].received : trace[mail[m].to].received[i] = MailMessage(m)}
MailAccounted == Stored /\
    \A m \in Ids : mail[m] # None =>
        LET a == mail[m].to IN
        /\ Cardinality(Copies(m)) <= 1
        /\ mail[m].status = "delivered" => Copies(m) # {}
        /\ mail[m].status = "pending" /\ Copies(m) # {} =>
              pc[a] \in {"acknowledge", "none", "joined", "done"}
        /\ mail[m].status = "read" =>
              \/ m \in trace[a].results
              \/ pc[a] = "executed" /\ call[a].kind \in {"read", "wait"} /\ m \in call[a].ids
              \/ pc[a] \in {"none", "joined", "done"}
=============================================================================
