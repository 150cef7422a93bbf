---------------------------- MODULE EventConsumers ----------------------------
(* The event log as outsiders read it: durable consumers that acknowledge batches,   *)
(* and streams that a client opens again where it was cut off.                       *)
EXTENDS Naturals

CONSTANTS
    Consumers,      \* consumer ids; any number of clients may share one
    Streams,        \* clients of the event stream
    BatchSize,      \* batch_size of the stream
    Limits,         \* the limits that clients of a consumer ask for
    MaxLog          \* bound: events appended

ASSUME ConsumerAssumption == BatchSize \in Nat \ {0} /\ Limits \subseteq Nat \ {0} /\ MaxLog \in Nat

VARIABLES
    log,        \* the offset of the last event
    position,   \* acknowledged_offset of each registered consumer
    batches,    \* the batches of each consumer: [after, through, acked]; through is the token
    stream,     \* each stream on the server: [open, at, end], to send at + 1..end
    last,       \* Last-Event-ID: the last event each client of a stream got
    got         \* how many events it got

vars == <<log, position, batches, stream, last, got>>
----------------------------------------------------------------------------
Closed == [open |-> FALSE, at |-> 0, end |-> 0]
\* mutant: another reader of the id gets a batch of its own
PendingOf(c, limit) == {b \in batches[c] : ~b.acked /\ b.through = b.after + limit}
Pending(c, limit) == {b \in batches[c] : ~b.acked}
\* strictly after the cursor, whose event must exist
After(at) == at
UpTo(at, limit) == IF log < at + limit THEN log ELSE at + limit

Init ==
    /\ log = 0
    /\ position = [c \in Consumers |-> 0] /\ batches = [c \in Consumers |-> {}]
    /\ stream = [s \in Streams |-> Closed] /\ last = [s \in Streams |-> 0] /\ got = [s \in Streams |-> 0]

AppendEvent == log < MaxLog /\ log' = log + 1 /\ UNCHANGED <<position, batches, stream, last, got>>

\* a pending batch is delivered again whatever the limit; nothing changes when there is none to deliver
Read(c, limit) ==
    /\ Pending(c, limit) = {} /\ position[c] < log
    /\ batches' = [batches EXCEPT ![c] = @ \cup {[after |-> position[c], through |-> UpTo(position[c], limit), acked |-> FALSE]}]
    /\ UNCHANGED <<log, position, stream, last, got>>

\* a batch that is acknowledged again changes nothing; one behind the position is refused
Acknowledge(c, b) ==
    /\ ~b.acked /\ position[c] = b.after
    /\ position' = [position EXCEPT ![c] = b.through]
    /\ batches' = [batches EXCEPT ![c] = (@ \ {b}) \cup {[b EXCEPT !.acked = TRUE]}]
    /\ UNCHANGED <<log, stream, last, got>>

Opened(at) == [open |-> TRUE, at |-> After(at), end |-> UpTo(After(at), BatchSize)]
Connect(s) ==
    /\ ~stream[s].open /\ stream' = [stream EXCEPT ![s] = Opened(last[s])]
    /\ UNCHANGED <<log, position, batches, last, got>>

\* a frame arrives, or it is lost and the client will connect again
Frame(s) ==
    /\ stream[s].open /\ stream[s].at < stream[s].end
    /\ \/ stream' = [stream EXCEPT ![s].at = @ + 1] /\ last' = [last EXCEPT ![s] = stream[s].at + 1] /\ got' = [got EXCEPT ![s] = @ + 1]
       \/ stream' = [stream EXCEPT ![s] = Closed] /\ UNCHANGED <<last, got>>
    /\ UNCHANGED <<log, position, batches>>

Refill(s) ==
    /\ stream[s].open /\ stream[s].at = stream[s].end /\ stream[s].at < log
    /\ stream' = [stream EXCEPT ![s] = Opened(stream[s].at)]
    /\ UNCHANGED <<log, position, batches, last, got>>

Next ==
    \/ AppendEvent
    \/ \E c \in Consumers : (\E limit \in Limits : Read(c, limit)) \/ \E b \in batches[c] : Acknowledge(c, b)
    \/ \E s \in Streams : Connect(s) \/ Frame(s) \/ Refill(s)
Spec == Init /\ [][Next]_vars
----------------------------------------------------------------------------
(* Properties.                                                                     *)

\* Every event up to a consumer's position was acknowledged in exactly one batch, and what
\* is outstanding is one batch that begins there, whoever reads and however often.
AcknowledgedOnce == \A c \in Consumers :
    /\ \A o \in 1..position[c] : \E b \in batches[c] : b.acked /\ b.after < o /\ o <= b.through
    /\ \A b, d \in batches[c] : b # d => b.through <= d.after \/ d.through <= b.after
    /\ \A b \in batches[c] : ~b.acked => b.after = position[c]

\* A client of the stream gets every event once and in order, however often it is cut off.
StreamedOnce == \A s \in Streams : got[s] = last[s]

\* Nothing that is read outside is left out or read as something new twice.
DeliveredOnce == AcknowledgedOnce /\ StreamedOnce
=============================================================================
