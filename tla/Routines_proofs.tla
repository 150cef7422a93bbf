--------------------------- MODULE Routines_proofs ---------------------------
(***************************************************************************)
(* Theorems about two of the things that go on without a person: readers   *)
(* of the event log get every event once, for any number of consumers,     *)
(* readers and streams, every batch size and every limit; and a routine's  *)
(* occurrences are started once, for any number of schedulers and people.  *)
(*                                                                         *)
(* The second follows from LifeInv: the Runs of the routine's present      *)
(* binding cover what lies before its next time and only the last of them  *)
(* can be unfinished, no scheduler is ahead of the clock, and a receipt    *)
(* says what was done to the Run its command is about.                     *)
(***************************************************************************)
EXTENDS MCRoutines, Integers, Sequences, TLAPS

----------------------------------------------------------------------------
(* Readers of the event log (EventConsumers).                              *)

Batch == [after : Nat, through : Nat, acked : BOOLEAN]

TypeOK ==
    /\ log \in Nat
    /\ position \in [Consumers -> Nat]
    /\ batches \in [Consumers -> SUBSET Batch]
    /\ stream \in [Streams -> [open : BOOLEAN, at : Nat, end : Nat]]
    /\ last \in [Streams -> Nat] /\ got \in [Streams -> Nat]

\* batches hold events of the log, and the position is past every one acknowledged
BatchesWithin == \A k \in Consumers :
    /\ position[k] <= log
    /\ \A b \in batches[k] :
        /\ b.after < b.through /\ b.through <= log
        /\ b.acked => b.through <= position[k]

\* an open stream sends what follows the last event its client got
StreamsFollow == \A s \in Streams : stream[s].open => stream[s].at = last[s]

Inv == TypeOK /\ BatchesWithin /\ AcknowledgedOnce /\ StreamsFollow /\ StreamedOnce

----------------------------------------------------------------------------
(* What the helpers return.                                                *)

LEMMA UpToWithin ==
    ASSUME log \in Nat, NEW at \in Nat, NEW limit \in Nat \ {0}
    PROVE  UpTo(at, limit) \in Nat /\ UpTo(at, limit) <= log /\ (at < log => at < UpTo(at, limit))
BY DEF UpTo

LEMMA OpenedFrom ==
    ASSUME log \in Nat, ConsumerAssumption, NEW at \in Nat
    PROVE  /\ Opened(at) \in [open : BOOLEAN, at : Nat, end : Nat]
           /\ Opened(at).at = at
<1>1. BatchSize \in Nat \ {0}
  BY DEF ConsumerAssumption
<1>2. UpTo(at, BatchSize) \in Nat
  BY <1>1, UpToWithin
<1> QED
  BY <1>2 DEF Opened, After

----------------------------------------------------------------------------
(* The steps.                                                              *)

LEMMA AppendKeeps ==
    ASSUME Inv, AppendEvent
    PROVE  Inv'
<1>1. TypeOK'
  BY DEF Inv, AppendEvent, TypeOK
<1>2. BatchesWithin'
  BY DEF Inv, AppendEvent, BatchesWithin, TypeOK, Batch
<1>3. AcknowledgedOnce'
  BY DEF Inv, AppendEvent, AcknowledgedOnce
<1>4. StreamsFollow' /\ StreamedOnce'
  BY DEF Inv, AppendEvent, StreamsFollow, StreamedOnce
<1> QED
  BY <1>1, <1>2, <1>3, <1>4 DEF Inv

\* A new batch begins at the position, and nothing that is outstanding is left beside it.
LEMMA ReadKeeps ==
    ASSUME Inv, ConsumerAssumption, NEW k \in Consumers, NEW limit \in Limits, Read(k, limit)
    PROVE  Inv'
<1> DEFINE new == [after |-> position[k], through |-> UpTo(position[k], limit), acked |-> FALSE]
<1> USE DEF Inv
<1>1. limit \in Nat \ {0} /\ position[k] \in Nat /\ log \in Nat /\ position[k] < log
  BY DEF ConsumerAssumption, TypeOK, Read
<1>2. new \in Batch /\ new.after = position[k] /\ ~new.acked /\ new.after < new.through /\ new.through <= log
  BY <1>1, UpToWithin DEF Batch
<1>3. batches' = [batches EXCEPT ![k] = @ \cup {new}] /\ UNCHANGED <<log, position, stream, last, got>>
  BY DEF Read
<1> HIDE DEF new
<1>4. batches'[k] = batches[k] \cup {new} /\ \A d \in Consumers \ {k} : batches'[d] = batches[d]
  BY <1>3 DEF TypeOK
<1>5. \A b \in batches[k] : b.acked /\ b \in Batch
  BY DEF Read, Pending, TypeOK
<1>6. TypeOK'
  BY <1>2, <1>3 DEF TypeOK
<1>7. BatchesWithin'
  BY <1>2, <1>3, <1>4 DEF BatchesWithin
<1>8. AcknowledgedOnce'
  <2> SUFFICES ASSUME NEW d \in Consumers
               PROVE  /\ \A o \in 1..position[d] : \E b \in batches'[d] : b.acked /\ b.after < o /\ o <= b.through
                      /\ \A b, f \in batches'[d] : b # f => b.through <= f.after \/ f.through <= b.after
                      /\ \A b \in batches'[d] : ~b.acked => b.after = position[d]
    BY <1>3 DEF AcknowledgedOnce
  <2>1. CASE d # k
    BY <2>1, <1>4 DEF AcknowledgedOnce
  <2>2. CASE d = k
    <3>1. \A o \in 1..position[k] : \E b \in batches'[k] : b.acked /\ b.after < o /\ o <= b.through
      BY <1>4 DEF AcknowledgedOnce
    <3>2. \A b \in batches[k] : b.through <= new.after
      BY <1>2, <1>5 DEF BatchesWithin
    <3>3. \A b, f \in batches'[k] : b # f => b.through <= f.after \/ f.through <= b.after
      BY <3>2, <1>4 DEF AcknowledgedOnce
    <3>4. \A b \in batches'[k] : ~b.acked => b.after = position[k]
      BY <1>2, <1>4, <1>5
    <3> QED
      BY <2>2, <3>1, <3>3, <3>4
  <2> QED
    BY <2>1, <2>2
<1>9. StreamsFollow' /\ StreamedOnce'
  BY <1>3 DEF StreamsFollow, StreamedOnce
<1> QED
  BY <1>6, <1>7, <1>8, <1>9

\* The batch that begins at the position takes it on, and no other batch reaches into it.
LEMMA AcknowledgeKeeps ==
    ASSUME Inv, NEW k \in Consumers, NEW b \in batches[k], Acknowledge(k, b)
    PROVE  Inv'
<1> DEFINE done == [b EXCEPT !.acked = TRUE]
<1> USE DEF Inv
<1>1. b \in Batch /\ ~b.acked /\ b.after = position[k] /\ b.after < b.through /\ b.through <= log
  BY DEF Acknowledge, TypeOK, BatchesWithin
<1>2. done \in Batch /\ done.acked /\ done.after = b.after /\ done.through = b.through
  BY <1>1 DEF Batch
<1>3. /\ position' = [position EXCEPT ![k] = b.through]
      /\ batches' = [batches EXCEPT ![k] = (@ \ {b}) \cup {done}]
      /\ UNCHANGED <<log, stream, last, got>>
  BY DEF Acknowledge
<1> HIDE DEF done
<1>4. /\ position'[k] = b.through /\ batches'[k] = (batches[k] \ {b}) \cup {done}
      /\ \A d \in Consumers \ {k} : position'[d] = position[d] /\ batches'[d] = batches[d]
  BY <1>3 DEF TypeOK
<1>5. TypeOK'
  BY <1>1, <1>2, <1>3 DEF TypeOK, Batch
\* what else there is was acknowledged before: a second outstanding batch would begin where b does
<1>6. \A f \in batches[k] \ {b} : f \in Batch /\ f.acked /\ f.through <= b.after
  <2> SUFFICES ASSUME NEW f \in batches[k], f # b
               PROVE  f \in Batch /\ f.acked /\ f.through <= b.after
    OBVIOUS
  <2>1. f \in Batch /\ f.after < f.through
    BY DEF TypeOK, BatchesWithin
  <2>2. f.through <= b.after \/ b.through <= f.after
    BY DEF AcknowledgedOnce
  <2>3. ~f.acked => f.after = b.after
    BY <1>1 DEF AcknowledgedOnce
  <2>4. f.acked
    BY <2>1, <2>2, <2>3, <1>1 DEF Batch
  <2> QED
    BY <2>1, <2>4, <1>1 DEF BatchesWithin
<1>7. BatchesWithin'
  BY <1>1, <1>2, <1>3, <1>4, <1>6, <1>5 DEF BatchesWithin, TypeOK, Batch
<1>8. AcknowledgedOnce'
  <2> SUFFICES ASSUME NEW d \in Consumers
               PROVE  /\ \A o \in 1..position'[d] : \E x \in batches'[d] : x.acked /\ x.after < o /\ o <= x.through
                      /\ \A x, f \in batches'[d] : x # f => x.through <= f.after \/ f.through <= x.after
                      /\ \A x \in batches'[d] : ~x.acked => x.after = position'[d]
    BY DEF AcknowledgedOnce
  <2>1. CASE d # k
    BY <2>1, <1>4 DEF AcknowledgedOnce
  <2>2. CASE d = k
    <3>1. ASSUME NEW o \in 1..b.through
          PROVE  \E x \in batches'[k] : x.acked /\ x.after < o /\ o <= x.through
      <4>1. CASE o <= position[k]
        <5>1. o \in 1..position[k]
          BY <4>1, <1>1 DEF Batch
        <5>2. PICK x \in batches[k] : x.acked /\ x.after < o /\ o <= x.through
          BY <5>1 DEF AcknowledgedOnce
        <5> QED
          BY <5>2, <1>1, <1>4
      <4>2. CASE position[k] < o
        BY <4>2, <1>1, <1>2, <1>4
      <4> QED
        BY <4>1, <4>2, <1>1 DEF Batch
    <3>2. \A x, f \in batches'[k] : x # f => x.through <= f.after \/ f.through <= x.after
      <4>1. \A x, f \in batches[k] \ {b} : x # f => x.through <= f.after \/ f.through <= x.after
        BY DEF AcknowledgedOnce
      <4>2. \A x \in batches[k] \ {b} : x.through <= done.after
        BY <1>2, <1>6
      <4> QED
        BY <4>1, <4>2, <1>4
    <3>3. \A x \in batches'[k] : x.acked
      BY <1>2, <1>4, <1>6
    <3> QED
      BY <2>2, <3>1, <3>2, <3>3, <1>4
  <2> QED
    BY <2>1, <2>2
<1>9. StreamsFollow' /\ StreamedOnce'
  BY <1>3 DEF StreamsFollow, StreamedOnce
<1> QED
  BY <1>5, <1>7, <1>8, <1>9

LEMMA ConnectKeeps ==
    ASSUME Inv, ConsumerAssumption, NEW s \in Streams, Connect(s)
    PROVE  Inv'
<1> USE DEF Inv
<1>1. last[s] \in Nat /\ log \in Nat
  BY DEF TypeOK
<1>2. Opened(last[s]) \in [open : BOOLEAN, at : Nat, end : Nat] /\ Opened(last[s]).at = last[s]
  BY <1>1, OpenedFrom
<1>3. stream' = [stream EXCEPT ![s] = Opened(last[s])] /\ UNCHANGED <<log, position, batches, last, got>>
  BY DEF Connect
<1>4. TypeOK' /\ StreamsFollow'
  BY <1>2, <1>3 DEF TypeOK, StreamsFollow
<1>5. BatchesWithin' /\ AcknowledgedOnce' /\ StreamedOnce'
  BY <1>3 DEF BatchesWithin, AcknowledgedOnce, StreamedOnce
<1> QED
  BY <1>4, <1>5

\* A frame that arrives takes the stream and its client one event on; a lost one closes the stream.
LEMMA FrameKeeps ==
    ASSUME Inv, NEW s \in Streams, Frame(s)
    PROVE  Inv'
<1> USE DEF Inv
<1>1. UNCHANGED <<log, position, batches>>
  BY DEF Frame
<1>2. BatchesWithin' /\ AcknowledgedOnce'
  BY <1>1 DEF BatchesWithin, AcknowledgedOnce
<1>3. CASE /\ stream' = [stream EXCEPT ![s].at = @ + 1]
           /\ last' = [last EXCEPT ![s] = stream[s].at + 1] /\ got' = [got EXCEPT ![s] = @ + 1]
  <2>1. stream[s].at = last[s] /\ last[s] = got[s] /\ last[s] \in Nat
    BY DEF Frame, StreamsFollow, StreamedOnce, TypeOK
  <2>2. TypeOK'
    BY <1>1, <1>3, <2>1 DEF TypeOK
  <2>3. StreamsFollow'
    BY <1>3, <2>1 DEF StreamsFollow, TypeOK
  <2>4. StreamedOnce'
    BY <1>3, <2>1 DEF StreamedOnce, TypeOK
  <2> QED
    BY <1>2, <2>2, <2>3, <2>4
<1>4. CASE stream' = [stream EXCEPT ![s] = Closed] /\ UNCHANGED <<last, got>>
  <2>1. TypeOK' /\ StreamsFollow'
    BY <1>1, <1>4 DEF TypeOK, StreamsFollow, Closed
  <2>2. StreamedOnce'
    BY <1>4 DEF StreamedOnce
  <2> QED
    BY <1>2, <2>1, <2>2
<1> QED
  BY <1>3, <1>4 DEF Frame

LEMMA RefillKeeps ==
    ASSUME Inv, ConsumerAssumption, NEW s \in Streams, Refill(s)
    PROVE  Inv'
<1> USE DEF Inv
<1>1. stream[s].at \in Nat /\ log \in Nat /\ stream[s].at = last[s]
  BY DEF TypeOK, Refill, StreamsFollow
<1>2. Opened(stream[s].at) \in [open : BOOLEAN, at : Nat, end : Nat] /\ Opened(stream[s].at).at = last[s]
  BY <1>1, OpenedFrom
<1>3. stream' = [stream EXCEPT ![s] = Opened(stream[s].at)] /\ UNCHANGED <<log, position, batches, last, got>>
  BY DEF Refill
<1>4. TypeOK' /\ StreamsFollow'
  BY <1>2, <1>3 DEF TypeOK, StreamsFollow
<1>5. BatchesWithin' /\ AcknowledgedOnce' /\ StreamedOnce'
  BY <1>3 DEF BatchesWithin, AcknowledgedOnce, StreamedOnce
<1> QED
  BY <1>4, <1>5

----------------------------------------------------------------------------
LEMMA InitInv ==
    ASSUME Init
    PROVE  Inv
BY DEF Init, Inv, TypeOK, BatchesWithin, AcknowledgedOnce, StreamsFollow, StreamedOnce, Closed

LEMMA NextInv ==
    ASSUME Inv, ConsumerAssumption, [Next]_vars
    PROVE  Inv'
<1>1. CASE AppendEvent
  BY <1>1, AppendKeeps
<1>2. CASE \E k \in Consumers : \E limit \in Limits : Read(k, limit)
  BY <1>2, ReadKeeps
<1>3. CASE \E k \in Consumers : \E b \in batches[k] : Acknowledge(k, b)
  BY <1>3, AcknowledgeKeeps
<1>4. CASE \E s \in Streams : Connect(s) \/ Frame(s) \/ Refill(s)
  BY <1>4, ConnectKeeps, FrameKeeps, RefillKeeps
<1>5. CASE UNCHANGED vars
  BY <1>5 DEF vars, Inv, TypeOK, BatchesWithin, AcknowledgedOnce, StreamsFollow, StreamedOnce
<1> QED
  BY <1>1, <1>2, <1>3, <1>4, <1>5 DEF Next

\* Whoever reads and however often, the events up to a consumer's position were each
\* acknowledged in one batch, what is outstanding begins there (acknowledge_event_batch),
\* and a client of the stream gets every event once and in order (Last-Event-ID).
THEOREM ReadOnce == Spec => []DeliveredOnce
<1>1. Spec => []Inv
  BY InitInv, NextInv, ConsumerAssumption, PTL DEF Spec
<1>2. Inv => DeliveredOnce
  BY DEF Inv, DeliveredOnce
<1> QED
  BY <1>1, <1>2, PTL

----------------------------------------------------------------------------
(* Routines (LifeWorkflows).                                               *)

Binding == {"life.review", "custom"}
RoutineType ==
    [workflow : Binding, policy : {"run_once", "skip"}, enabled : BOOLEAN, due : Nat, version : Nat, last : Nat \cup {None}, edits : Nat]
RunType ==
    [workflow : Binding \cup {"life.capture"}, status : {"awaiting_confirmation", "waiting", "completed", "rejected", "failed"},
     version : Nat, scheduled : Nat \cup {None}, count : Nat, edit : Nat, tasks : Nat,
     wait : {"waiting", "resolved", None}, ready : BOOLEAN]
SchedulerType == [pc : {"idle", "listed", "started", "polls"}, now : Nat, due : Nat \cup {None}, ready : SUBSET Nat]
Command(ops, runnos, answers) == [op : ops, run : runnos, version : Nat, as : answers, sends : Nat]
LifeTypes ==
    /\ clock \in Nat /\ routine \in RoutineType /\ runs \in Seq(RunType)
    /\ scheduler \in [Schedulers -> SchedulerType]
    /\ DOMAIN command = People /\ receipt \in [People -> {None, "approve", "reject", "updated"}]

\* Runs of the routine as it is bound now cover what lies before its next time
Covered(r) ==
    runs[r].edit = routine.edits =>
        /\ runs[r].scheduled + runs[r].count * Interval <= routine.due
        /\ runs[r].workflow = routine.workflow
        /\ Life!Unfinished(r) => routine.last = r
\* a Run that was scheduled
Started(r) ==
    /\ runs[r].edit <= routine.edits /\ runs[r].workflow \in Binding
    /\ Life!Unfinished(r) => runs[r].workflow = "custom"
    /\ runs[r].scheduled + (runs[r].count - 1) * Interval <= clock
    /\ Covered(r)
Commanded(p) ==
    \/ command[p].op = None /\ receipt[p] = None /\ command[p] \in Command({None}, {None}, {None})
    \/ command[p].op = "update_routine" /\ receipt[p] \in {None, "updated"} /\ command[p] \in Command({"update_routine"}, {None}, Changes)
    \/ /\ command[p].op = "decide" /\ receipt[p] \in {None, command[p].as}
       /\ command[p] \in Command({"decide"}, DOMAIN runs, {"approve", "reject"})
       /\ runs[command[p].run].workflow = "life.capture"
       /\ receipt[p] # None => runs[command[p].run].status # "awaiting_confirmation"
Told(r) ==
    /\ runs[r].scheduled # None => Started(r)
    /\ runs[r].workflow = "life.capture" => runs[r].status \in {"awaiting_confirmation", "completed", "rejected"} /\ runs[r].scheduled = None
    /\ runs[r].status = "awaiting_confirmation" => runs[r].workflow = "life.capture"
Linked == routine.last # None => routine.last \in DOMAIN runs
LifeInv ==
    /\ LifeTypes /\ Linked
    /\ \A s \in Schedulers : scheduler[s].now <= clock
    /\ \A r \in DOMAIN runs : Told(r)
    /\ \A p \in People : Commanded(p)
    /\ Life!LifeHolds
----------------------------------------------------------------------------
LEMMA RunsKnown == ASSUME LifeInv
    PROVE DOMAIN runs = 1..Len(runs) /\ Len(runs) \in Nat /\ \A r \in DOMAIN runs : runs[r] \in RunType
  BY DEF LifeInv, LifeTypes

\* A step that leaves the routine and the Runs alone.
LEMMA RunsKept == ASSUME LifeInv, UNCHANGED <<routine, runs>>, clock' \in Nat, clock <= clock'
    PROVE Linked' /\ (\A r \in DOMAIN runs : Told(r))' /\ Life!OccurrenceOnce' /\ Life!NoOverlap'
  <1>1. Linked' /\ Life!NoOverlap'
    BY DEF LifeInv, Linked, Life!LifeHolds, Life!NoOverlap, Life!Scheduled, Life!Unfinished
  <1>2. ASSUME NEW r \in DOMAIN runs PROVE Told(r)' /\ (runs[r].scheduled # None => runs[r].scheduled + (runs[r].count - 1) * Interval <= clock')
    <2>1. runs[r] \in RunType /\ Told(r) /\ clock \in Nat
      BY RunsKnown DEF LifeInv, LifeTypes
    <2>2. runs[r].scheduled # None => runs[r].scheduled + (runs[r].count - 1) * Interval <= clock'
      <3> HAVE runs[r].scheduled # None
      <3>1. runs[r].scheduled \in Nat /\ runs[r].count \in Nat /\ runs[r].scheduled + (runs[r].count - 1) * Interval <= clock
        BY <2>1 DEF Told, Started, RunType
      <3>2. (runs[r].count - 1) * Interval \in Int
        BY <3>1, RoutineAssumption
      <3> QED
        BY <2>1, <3>1, <3>2
    <2> QED
      BY <2>1, <2>2 DEF Told, Started, Covered, Life!Unfinished
  <1>3. Life!OccurrenceOnce'
    BY <1>2 DEF LifeInv, Life!LifeHolds, Life!OccurrenceOnce, Life!Scheduled
  <1> QED
    BY <1>1, <1>2, <1>3

\* A step that leaves the Runs, the commands and their receipts alone.
LEMMA DecisionsKept == ASSUME LifeInv, UNCHANGED <<runs, command, receipt>>
    PROVE (\A p \in People : Commanded(p))' /\ Life!DecidedOnce'
  BY DEF LifeInv, Commanded, Life!LifeHolds, Life!DecidedOnce

\* A scheduler's next step.
LEMMA SchedulerSet == ASSUME LifeInv, NEW s \in Schedulers, NEW u \in SchedulerType, Life!Set(s, u), u.now <= clock, clock' = clock
    PROVE scheduler' \in [Schedulers -> SchedulerType] /\ \A t \in Schedulers : scheduler'[t].now <= clock'
  BY DEF LifeInv, LifeTypes, Life!Set

LEMMA IdleIsOne == ASSUME LifeInv
    PROVE /\ Life!Idle \in SchedulerType /\ Life!Idle.now = 0
          /\ \A at \in {"started", "polls"} : [Life!Idle EXCEPT !.pc = at] \in SchedulerType /\ [Life!Idle EXCEPT !.pc = at].now = 0
          /\ clock \in Nat /\ 0 <= clock
  BY DEF LifeInv, LifeTypes, Life!Idle, SchedulerType
LEMMA ListDueHolds == ASSUME LifeInv, NEW s \in Schedulers, Life!ListDue(s) PROVE LifeInv'
  <1>0. UNCHANGED <<clock, routine, runs, command, receipt>>
    BY DEF Life!ListDue
  <1>1. scheduler' \in [Schedulers -> SchedulerType] /\ \A t \in Schedulers : scheduler'[t].now <= clock'
    <2>1. [pc |-> "listed", now |-> clock, due |-> routine.due, ready |-> {}] \in SchedulerType
      BY DEF LifeInv, LifeTypes, SchedulerType, RoutineType
    <2>2. PICK u \in {[pc |-> "listed", now |-> clock, due |-> routine.due, ready |-> {}], [Life!Idle EXCEPT !.pc = "started"]} : Life!Set(s, u)
      BY DEF Life!ListDue
    <2>3. u \in SchedulerType /\ u.now <= clock
      <3>1. CASE u = [Life!Idle EXCEPT !.pc = "started"]
        BY <3>1, IdleIsOne
      <3>2. CASE u = [pc |-> "listed", now |-> clock, due |-> routine.due, ready |-> {}]
        BY <2>1, <3>2, IdleIsOne
      <3> QED
        BY <2>2, <3>1, <3>2
    <2> QED
      BY <1>0, <2>2, <2>3, SchedulerSet
  <1>2. Linked' /\ (\A r \in DOMAIN runs : Told(r))' /\ Life!OccurrenceOnce' /\ Life!NoOverlap'
    BY <1>0, RunsKept DEF LifeInv, LifeTypes
  <1>3. (\A p \in People : Commanded(p))' /\ Life!DecidedOnce'
    BY <1>0, DecisionsKept
  <1>4. LifeTypes'
    BY <1>0, <1>1 DEF LifeInv, LifeTypes
  <1> QED
    BY <1>0, <1>1, <1>2, <1>3, <1>4 DEF LifeInv, Life!LifeHolds
LEMMA NotDueHolds == ASSUME LifeInv, NEW s \in Schedulers, Life!NotDue(s) PROVE LifeInv'
  <1>0. UNCHANGED <<clock, routine, runs, command, receipt>>
    BY DEF Life!NotDue
  <1>1. scheduler' \in [Schedulers -> SchedulerType] /\ \A t \in Schedulers : scheduler'[t].now <= clock'
    <2>1. Life!Set(s, [Life!Idle EXCEPT !.pc = "started"])
      BY DEF Life!NotDue
    <2> QED
      BY <1>0, <2>1, IdleIsOne, SchedulerSet
  <1>2. Linked' /\ (\A r \in DOMAIN runs : Told(r))' /\ Life!OccurrenceOnce' /\ Life!NoOverlap'
    BY <1>0, RunsKept DEF LifeInv, LifeTypes
  <1>3. (\A p \in People : Commanded(p))' /\ Life!DecidedOnce'
    BY <1>0, DecisionsKept
  <1>4. LifeTypes'
    BY <1>0, <1>1 DEF LifeInv, LifeTypes
  <1> QED
    BY <1>0, <1>1, <1>2, <1>3, <1>4 DEF LifeInv, Life!LifeHolds
LEMMA TickEndsHolds == ASSUME LifeInv, NEW s \in Schedulers, Life!TickEnds(s) PROVE LifeInv'
  <1>0. UNCHANGED <<clock, routine, runs, command, receipt>>
    BY DEF Life!TickEnds
  <1>1. scheduler' \in [Schedulers -> SchedulerType] /\ \A t \in Schedulers : scheduler'[t].now <= clock'
    <2>1. Life!Set(s, Life!Idle)
      BY DEF Life!TickEnds
    <2> QED
      BY <1>0, <2>1, IdleIsOne, SchedulerSet
  <1>2. Linked' /\ (\A r \in DOMAIN runs : Told(r))' /\ Life!OccurrenceOnce' /\ Life!NoOverlap'
    BY <1>0, RunsKept DEF LifeInv, LifeTypes
  <1>3. (\A p \in People : Commanded(p))' /\ Life!DecidedOnce'
    BY <1>0, DecisionsKept
  <1>4. LifeTypes'
    BY <1>0, <1>1 DEF LifeInv, LifeTypes
  <1> QED
    BY <1>0, <1>1, <1>2, <1>3, <1>4 DEF LifeInv, Life!LifeHolds
LEMMA TickFailsHolds == ASSUME LifeInv, NEW s \in Schedulers, Life!TickFails(s) PROVE LifeInv'
  <1>0. UNCHANGED <<clock, routine, runs, command, receipt>>
    BY DEF Life!TickFails
  <1>1. scheduler' \in [Schedulers -> SchedulerType] /\ \A t \in Schedulers : scheduler'[t].now <= clock'
    <2>1. Life!Set(s, Life!Idle)
      BY DEF Life!TickFails
    <2> QED
      BY <1>0, <2>1, IdleIsOne, SchedulerSet
  <1>2. Linked' /\ (\A r \in DOMAIN runs : Told(r))' /\ Life!OccurrenceOnce' /\ Life!NoOverlap'
    BY <1>0, RunsKept DEF LifeInv, LifeTypes
  <1>3. (\A p \in People : Commanded(p))' /\ Life!DecidedOnce'
    BY <1>0, DecisionsKept
  <1>4. LifeTypes'
    BY <1>0, <1>1 DEF LifeInv, LifeTypes
  <1> QED
    BY <1>0, <1>1, <1>2, <1>3, <1>4 DEF LifeInv, Life!LifeHolds
LEMMA ListReadyHolds == ASSUME LifeInv, NEW s \in Schedulers, Life!ListReady(s) PROVE LifeInv'
  <1>0. UNCHANGED <<clock, routine, runs, command, receipt>>
    BY DEF Life!ListReady
  <1>1. scheduler' \in [Schedulers -> SchedulerType] /\ \A t \in Schedulers : scheduler'[t].now <= clock'
    <2>1. PICK rs \in SUBSET DOMAIN runs : Life!Set(s, [Life!Idle EXCEPT !.pc = "polls", !.ready = rs])
      BY DEF Life!ListReady
    <2>2. rs \in SUBSET Nat
      BY <2>1, RunsKnown
    <2>3. [Life!Idle EXCEPT !.pc = "polls", !.ready = rs] \in SchedulerType /\ [Life!Idle EXCEPT !.pc = "polls", !.ready = rs].now = 0
      BY <2>2, IdleIsOne DEF SchedulerType, Life!Idle
    <2> QED
      BY <1>0, <2>1, <2>3, IdleIsOne, SchedulerSet
  <1>2. Linked' /\ (\A r \in DOMAIN runs : Told(r))' /\ Life!OccurrenceOnce' /\ Life!NoOverlap'
    BY <1>0, RunsKept DEF LifeInv, LifeTypes
  <1>3. (\A p \in People : Commanded(p))' /\ Life!DecidedOnce'
    BY <1>0, DecisionsKept
  <1>4. LifeTypes'
    BY <1>0, <1>1 DEF LifeInv, LifeTypes
  <1> QED
    BY <1>0, <1>1, <1>2, <1>3, <1>4 DEF LifeInv, Life!LifeHolds
LEMMA PassesHolds == ASSUME LifeInv, Life!Passes PROVE LifeInv'
  <1>0. UNCHANGED <<routine, runs, scheduler, command, receipt>> /\ clock \in Nat /\ clock' \in Nat /\ clock <= clock'
    BY DEF LifeInv, LifeTypes, Life!Passes
  <1>1. \A t \in Schedulers : scheduler'[t].now <= clock'
    BY <1>0 DEF LifeInv, LifeTypes, SchedulerType
  <1>2. Linked' /\ (\A r \in DOMAIN runs : Told(r))' /\ Life!OccurrenceOnce' /\ Life!NoOverlap'
    BY <1>0, RunsKept
  <1>3. (\A p \in People : Commanded(p))' /\ Life!DecidedOnce'
    BY <1>0, DecisionsKept
  <1>4. LifeTypes'
    BY <1>0 DEF LifeInv, LifeTypes
  <1> QED
    BY <1>0, <1>1, <1>2, <1>3, <1>4 DEF LifeInv, Life!LifeHolds

\* Somebody makes up a command.
LEMMA CommandMade == ASSUME LifeInv, NEW p \in People, NEW m, command[p].op = None, command' = [command EXCEPT ![p] = m],
                            UNCHANGED <<clock, routine, runs, scheduler, receipt>>,
                            \/ m \in Command({"update_routine"}, {None}, Changes)
                            \/ /\ m \in Command({"decide"}, DOMAIN runs, {"approve", "reject"})
                               /\ runs[m.run].workflow = "life.capture"
    PROVE LifeInv'
  <1>1. receipt[p] = None
    BY RoutineAssumption DEF LifeInv, Commanded, Command
  <1>2. command'[p] = m /\ \A q \in People : q # p => command'[q] = command[q]
    BY DEF LifeInv, LifeTypes
  <1>3. ASSUME NEW q \in People PROVE Commanded(q)'
    <2>1. CASE q = p
      BY <1>1, <1>2, <2>1 DEF Commanded, Command
    <2>2. CASE q # p
      BY <1>2, <2>2 DEF LifeInv, Commanded
    <2> QED
      BY <2>1, <2>2
  <1>4. Life!DecidedOnce'
    BY <1>1, <1>2 DEF LifeInv, Life!LifeHolds, Life!DecidedOnce
  <1>5. Linked' /\ (\A r \in DOMAIN runs : Told(r))' /\ Life!OccurrenceOnce' /\ Life!NoOverlap'
    BY RunsKept DEF LifeInv, LifeTypes
  <1>6. LifeTypes' /\ \A t \in Schedulers : scheduler'[t].now <= clock'
    BY DEF LifeInv, LifeTypes
  <1> QED
    BY <1>3, <1>4, <1>5, <1>6 DEF LifeInv, Life!LifeHolds

LEMMA DecidesHolds == ASSUME LifeInv, NEW p \in People, NEW r \in DOMAIN runs, NEW as \in {"approve", "reject"}, Life!Decides(p, r, as) PROVE LifeInv'
  <1>1. PICK m : m = [Life!Blank EXCEPT !.op = "decide", !.run = r, !.version = runs[r].version, !.as = as]
    OBVIOUS
  <1>2. command[p].op = None /\ command' = [command EXCEPT ![p] = m] /\ runs[r].status = "awaiting_confirmation"
    BY <1>1 DEF Life!Decides
  <1>3. m \in Command({"decide"}, DOMAIN runs, {"approve", "reject"}) /\ m.run = r
    <2>1. runs[r].version \in Nat
      BY RunsKnown DEF RunType
    <2> QED
      BY <1>1, <2>1 DEF Command, Life!Blank
  <1>4. runs[r].workflow = "life.capture"
    BY <1>2 DEF LifeInv, Told
  <1> QED
    BY <1>2, <1>3, <1>4, CommandMade DEF Life!Decides

LEMMA EditsHolds == ASSUME LifeInv, NEW p \in People, NEW u \in Changes, Life!Edits(p, u) PROVE LifeInv'
  <1>1. PICK m : m = [Life!Blank EXCEPT !.op = "update_routine", !.version = routine.version, !.as = u]
    OBVIOUS
  <1>2. command[p].op = None /\ command' = [command EXCEPT ![p] = m]
    BY <1>1 DEF Life!Edits
  <1>3. m \in Command({"update_routine"}, {None}, Changes)
    <2>1. routine.version \in Nat
      BY DEF LifeInv, LifeTypes, RoutineType
    <2> QED
      BY <1>1, <2>1 DEF Command, Life!Blank
  <1> QED
    BY <1>2, <1>3, CommandMade DEF Life!Edits

\* A Run is added that no occurrence of the routine started.
LEMMA StartHolds == ASSUME LifeInv, NEW wf \in {"life.capture", "life.review"}, NEW st \in {"awaiting_confirmation", "completed"},
                           wf = "life.review" => st = "completed", Life!Start(wf, st)
    PROVE LifeInv'
  <1>1. PICK new : new = [Life!Record(wf, st, None, 0) EXCEPT !.tasks = IF wf = "life.capture" /\ st = "completed" THEN 1 ELSE 0]
    OBVIOUS
  <1>2. runs' = Append(runs, new) /\ UNCHANGED <<clock, routine, scheduler, command, receipt>>
    BY <1>1 DEF Life!Start
  <1>a. new = [workflow |-> wf, status |-> st, version |-> 1, scheduled |-> None, count |-> 0, edit |-> routine.edits,
               tasks |-> IF wf = "life.capture" /\ st = "completed" THEN 1 ELSE 0,
               wait |-> IF st = "awaiting_confirmation" THEN "waiting" ELSE None, ready |-> FALSE]
    BY <1>1 DEF Life!Record
  <1>3. new \in RunType
    BY <1>a DEF RunType, Binding, LifeInv, LifeTypes, RoutineType
  <1>4. /\ runs' \in Seq(RunType) /\ DOMAIN runs' = DOMAIN runs \cup {Len(runs) + 1} /\ runs'[Len(runs) + 1] = new
        /\ Len(runs) + 1 \notin DOMAIN runs /\ \A r \in DOMAIN runs : runs'[r] = runs[r]
    BY <1>2, <1>3, RunsKnown DEF LifeInv, LifeTypes
  <1>5. LifeTypes' /\ Linked' /\ \A t \in Schedulers : scheduler'[t].now <= clock'
    BY <1>2, <1>4 DEF LifeInv, LifeTypes, Linked
  <1>6. (\A r \in DOMAIN runs : Told(r))'
    <2>1. ASSUME NEW r \in DOMAIN runs PROVE Told(r)'
      BY <1>2, <1>4 DEF LifeInv, Told, Started, Covered, Life!Unfinished
    <2>2. ASSUME NEW r \in DOMAIN runs', r \notin DOMAIN runs PROVE Told(r)'
      BY <1>a, <1>4, <2>2 DEF Told
    <2>3. ASSUME NEW r \in DOMAIN runs' PROVE Told(r)'
      BY <1>4, <2>1, <2>2
    <2> QED
      BY <2>3
  <1>7. Life!OccurrenceOnce' /\ Life!NoOverlap'
    <2>1. Life!Scheduled' = Life!Scheduled
      BY <1>a, <1>4 DEF Life!Scheduled
    <2> QED
      BY <1>2, <1>4, <2>1 DEF LifeInv, Life!LifeHolds, Life!OccurrenceOnce, Life!NoOverlap, Life!Scheduled, Life!Unfinished
  <1>8. (\A p \in People : Commanded(p))'
    BY <1>2, <1>4 DEF LifeInv, Commanded, Command
  <1>9. Life!DecidedOnce'
    <2>1. \A p \in People : command[p].run # Len(runs) + 1
      BY <1>4, RoutineAssumption, RunsKnown DEF LifeInv, Commanded, Command
    <2>2. ASSUME NEW r \in DOMAIN runs', runs'[r].workflow = "life.capture"
          PROVE  /\ runs'[r].tasks = IF runs'[r].status = "completed" THEN 1 ELSE 0
                 /\ runs'[r].wait = "waiting" <=> runs'[r].status = "awaiting_confirmation"
                 /\ \A p \in People : command'[p].run = r /\ receipt'[p] # None => (receipt'[p] = "approve") = (runs'[r].status = "completed")
      <3>1. CASE r \in DOMAIN runs
        BY <1>2, <1>4, <2>2, <3>1 DEF LifeInv, Life!LifeHolds, Life!DecidedOnce
      <3>2. CASE r = Len(runs) + 1
        BY <1>a, <1>2, <1>4, <2>1, <2>2, <3>2, RoutineAssumption
      <3> QED
        BY <1>4, <3>1, <3>2
    <2> QED
      BY <2>2 DEF Life!DecidedOnce
  <1> QED
    BY <1>5, <1>6, <1>7, <1>8, <1>9 DEF LifeInv, Life!LifeHolds

\* A step of one Run that a scheduler or a person takes: what it was started for stays.
LEMMA RunStep == ASSUME LifeInv, NEW r \in DOMAIN runs, NEW x \in RunType, runs' = [runs EXCEPT ![r] = x], UNCHANGED <<clock, routine>>,
                        x.workflow = runs[r].workflow, x.scheduled = runs[r].scheduled, x.count = runs[r].count, x.edit = runs[r].edit,
                        x.status = "waiting" => runs[r].status = "waiting",
                        x.status = "awaiting_confirmation" => runs[r].status = "awaiting_confirmation",
                        x.workflow = "life.capture" => x.status \in {"awaiting_confirmation", "completed", "rejected"}
    PROVE /\ runs' \in Seq(RunType) /\ DOMAIN runs' = DOMAIN runs
          /\ runs'[r] = x /\ \A q \in DOMAIN runs : q # r => runs'[q] = runs[q]
          /\ Linked' /\ (\A q \in DOMAIN runs : Told(q))' /\ Life!OccurrenceOnce' /\ Life!NoOverlap'
  <1>1. runs' \in Seq(RunType) /\ DOMAIN runs' = DOMAIN runs /\ runs'[r] = x /\ \A q \in DOMAIN runs : q # r => runs'[q] = runs[q]
    BY RunsKnown DEF LifeInv, LifeTypes
  <1>2. x.status \in {"running", "waiting"} => runs[r].status = "waiting"
    BY DEF RunType
  <1>3. ASSUME NEW q \in DOMAIN runs
        PROVE  /\ runs'[q].workflow = runs[q].workflow /\ runs'[q].scheduled = runs[q].scheduled
               /\ runs'[q].count = runs[q].count /\ runs'[q].edit = runs[q].edit
               /\ Life!Unfinished(q)' => Life!Unfinished(q)
    BY <1>1, <1>2 DEF Life!Unfinished
  <1>4. ASSUME NEW q \in DOMAIN runs PROVE Told(q)'
    <2>1. Told(q)
      BY DEF LifeInv
    <2>2. (runs[q].scheduled # None => Started(q))'
      BY <1>3, <2>1 DEF Told, Started, Covered
    <2>3. (runs[q].workflow = "life.capture" => runs[q].status \in {"awaiting_confirmation", "completed", "rejected"} /\ runs[q].scheduled = None)'
      BY <1>1, <1>3, <2>1 DEF Told
    <2>4. (runs[q].status = "awaiting_confirmation" => runs[q].workflow = "life.capture")'
      BY <1>1, <1>3, <2>1 DEF Told
    <2> QED
      BY <2>2, <2>3, <2>4 DEF Told
  <1>5. Life!Scheduled' = Life!Scheduled
    BY <1>1, <1>3 DEF Life!Scheduled
  <1>6. Life!OccurrenceOnce' /\ Life!NoOverlap'
    BY <1>3, <1>5 DEF LifeInv, Life!LifeHolds, Life!OccurrenceOnce, Life!NoOverlap, Life!Scheduled
  <1>7. Linked'
    BY <1>1 DEF LifeInv, Linked
  <1> QED
    BY <1>1, <1>4, <1>6, <1>7

\* A Run that is no captured task goes on.
LEMMA CustomStep == ASSUME LifeInv, NEW r \in DOMAIN runs, NEW x \in RunType, runs' = [runs EXCEPT ![r] = x],
                           UNCHANGED <<clock, routine, command, receipt>>, runs[r].status = "waiting",
                           x.workflow = runs[r].workflow, x.scheduled = runs[r].scheduled, x.count = runs[r].count, x.edit = runs[r].edit,
                           x.status \in {"waiting", "completed", "failed"},
                           scheduler' \in [Schedulers -> SchedulerType], \A t \in Schedulers : scheduler'[t].now <= clock'
    PROVE LifeInv'
  <1>1. runs[r].workflow # "life.capture"
    BY DEF LifeInv, Told
  <1>2. /\ runs' \in Seq(RunType) /\ DOMAIN runs' = DOMAIN runs
        /\ runs'[r] = x /\ \A q \in DOMAIN runs : q # r => runs'[q] = runs[q]
        /\ Linked' /\ (\A q \in DOMAIN runs : Told(q))' /\ Life!OccurrenceOnce' /\ Life!NoOverlap'
    BY <1>1, RunStep
  <1>3. ASSUME NEW p \in People PROVE Commanded(p)'
    BY <1>1, <1>2 DEF LifeInv, Commanded, Command
  <1>4. Life!DecidedOnce'
    BY <1>1, <1>2 DEF LifeInv, Life!LifeHolds, Life!DecidedOnce
  <1>5. LifeTypes'
    BY <1>2 DEF LifeInv, LifeTypes
  <1> QED
    BY <1>2, <1>3, <1>4, <1>5 DEF LifeInv, Life!LifeHolds

LEMMA ComesHolds == ASSUME LifeInv, NEW r \in DOMAIN runs, Life!Comes(r) PROVE LifeInv'
  <1>1. PICK x : x = [runs[r] EXCEPT !.ready = TRUE]
    OBVIOUS
  <1>2. runs' = [runs EXCEPT ![r] = x] /\ runs[r].status = "waiting" /\ UNCHANGED <<clock, routine, scheduler, command, receipt>>
    BY <1>1 DEF Life!Comes, Life!Waiting
  <1>3. /\ x \in RunType /\ x.workflow = runs[r].workflow /\ x.scheduled = runs[r].scheduled /\ x.count = runs[r].count
        /\ x.edit = runs[r].edit /\ x.status = "waiting"
    BY <1>1, <1>2, RunsKnown DEF RunType
  <1>4. scheduler' \in [Schedulers -> SchedulerType] /\ \A t \in Schedulers : scheduler'[t].now <= clock'
    BY <1>2 DEF LifeInv, LifeTypes
  <1> QED
    BY <1>2, <1>3, <1>4, CustomStep

LEMMA PollHolds == ASSUME LifeInv, NEW s \in Schedulers, NEW r \in DOMAIN runs, Life!Poll(s, r) PROVE LifeInv'
  <1>0. UNCHANGED <<clock, routine, command, receipt>>
    BY DEF Life!Poll
  <1>1. scheduler' \in [Schedulers -> SchedulerType] /\ \A t \in Schedulers : scheduler'[t].now <= clock'
    <2>1. PICK u : u = [scheduler[s] EXCEPT !.ready = @ \ {r}]
      OBVIOUS
    <2>2. u \in SchedulerType /\ u.now <= clock
      BY <2>1 DEF LifeInv, LifeTypes, SchedulerType
    <2>3. Life!Set(s, u)
      BY <2>1 DEF Life!Poll
    <2> QED
      BY <1>0, <2>2, <2>3, SchedulerSet
  <1>2. CASE Life!Waiting(r) /\ runs[r].ready
    <2>1. PICK st \in {"waiting", "completed", "failed"} :
              runs' = [runs EXCEPT ![r].status = st, ![r].version = @ + 1, ![r].ready = FALSE]
      BY <1>2 DEF Life!Poll
    <2>2. PICK x : x = [runs[r] EXCEPT !.status = st, !.version = runs[r].version + 1, !.ready = FALSE]
      OBVIOUS
    <2>3. runs' = [runs EXCEPT ![r] = x]
      BY <2>1, <2>2
    <2>4. runs[r] \in RunType /\ runs[r].version + 1 \in Nat
      BY RunsKnown DEF RunType
    <2>5. /\ x \in RunType /\ x.workflow = runs[r].workflow /\ x.scheduled = runs[r].scheduled /\ x.count = runs[r].count
          /\ x.edit = runs[r].edit /\ x.status = st
      BY <2>2, <2>4 DEF RunType
    <2> QED
      BY <1>0, <1>1, <1>2, <2>3, <2>5, CustomStep DEF Life!Waiting
  <1>3. CASE UNCHANGED runs
    <2>1. Linked' /\ (\A q \in DOMAIN runs : Told(q))' /\ Life!OccurrenceOnce' /\ Life!NoOverlap'
      BY <1>0, <1>3, RunsKept DEF LifeInv, LifeTypes
    <2>2. (\A p \in People : Commanded(p))' /\ Life!DecidedOnce'
      BY <1>0, <1>3, DecisionsKept
    <2>3. LifeTypes'
      BY <1>0, <1>1, <1>3 DEF LifeInv, LifeTypes
    <2> QED
      BY <1>1, <2>1, <2>2, <2>3 DEF LifeInv, Life!LifeHolds
  <1> QED
    BY <1>2, <1>3 DEF Life!Poll

----------------------------------------------------------------------------
(* A command arrives, for the first time or again.                         *)

LEMMA Sent1 == ASSUME LifeInv, NEW p \in People, command' = [command EXCEPT ![p].sends = @ + 1]
    PROVE /\ DOMAIN command' = People
          /\ \A q \in People : /\ command'[q].op = command[q].op /\ command'[q].run = command[q].run /\ command'[q].as = command[q].as
                               /\ \A ops, nos, answers : command[q] \in Command(ops, nos, answers) => command'[q] \in Command(ops, nos, answers)
  <1>1. DOMAIN command = People /\ command' = [command EXCEPT ![p] = [command[p] EXCEPT !.sends = command[p].sends + 1]]
    BY DEF LifeInv, LifeTypes
  <1>2. ASSUME NEW ops, NEW nos, NEW answers, command[p] \in Command(ops, nos, answers)
        PROVE  [command[p] EXCEPT !.sends = command[p].sends + 1] \in Command(ops, nos, answers)
    BY <1>2 DEF Command
  <1>3. \E ops, nos, answers : command[p] \in Command(ops, nos, answers)
    BY DEF LifeInv, Commanded
  <1>4. LET x == [command[p] EXCEPT !.sends = command[p].sends + 1]
        IN x.op = command[p].op /\ x.run = command[p].run /\ x.as = command[p].as
    BY <1>3 DEF Command
  <1> QED
    BY <1>1, <1>2, <1>4

LEMMA AgainHolds == ASSUME LifeInv, NEW p \in People, command' = [command EXCEPT ![p].sends = @ + 1],
                           UNCHANGED <<clock, routine, runs, scheduler, receipt>>
    PROVE LifeInv'
  <1>1. Linked' /\ (\A q \in DOMAIN runs : Told(q))' /\ Life!OccurrenceOnce' /\ Life!NoOverlap'
    BY RunsKept DEF LifeInv, LifeTypes
  <1>2. ASSUME NEW q \in People PROVE Commanded(q)'
    BY Sent1 DEF LifeInv, Commanded
  <1>3. Life!DecidedOnce'
    BY Sent1 DEF LifeInv, Life!LifeHolds, Life!DecidedOnce
  <1>4. LifeTypes' /\ \A t \in Schedulers : scheduler'[t].now <= clock'
    BY Sent1 DEF LifeInv, LifeTypes
  <1> QED
    BY <1>1, <1>2, <1>3, <1>4 DEF LifeInv, Life!LifeHolds

LEMMA DecideHolds == ASSUME LifeInv, NEW p \in People, command' = [command EXCEPT ![p].sends = @ + 1],
                            receipt[p] = None, Life!Decide(p), UNCHANGED <<clock, scheduler>>
    PROVE LifeInv'
  <1>1. PICK r : r = command[p].run
    OBVIOUS
  <1>2. /\ command[p].op = "decide" /\ runs[r].status = "awaiting_confirmation" /\ r \in DOMAIN runs
        /\ command[p].as \in {"approve", "reject"} /\ runs[r].workflow = "life.capture"
    BY <1>1, RoutineAssumption DEF Life!Decide, Life!Asks, LifeInv, Commanded, Command
  <1>3. runs[r] \in RunType /\ runs[r].version + 1 \in Nat /\ runs[r].tasks = 0
    BY <1>2, RunsKnown DEF RunType, LifeInv, Life!LifeHolds, Life!DecidedOnce
  <1>4. PICK x : x = [runs[r] EXCEPT !.status = IF command[p].as = "approve" THEN "completed" ELSE "rejected",
                                     !.version = runs[r].version + 1, !.wait = "resolved",
                                     !.tasks = runs[r].tasks + (IF command[p].as = "approve" THEN 1 ELSE 0)]
    OBVIOUS
  <1>5. runs' = [runs EXCEPT ![r] = x] /\ receipt' = [receipt EXCEPT ![p] = command[p].as] /\ UNCHANGED routine
    BY <1>1, <1>4 DEF Life!Decide
  <1>6. /\ x \in RunType /\ x.workflow = runs[r].workflow /\ x.scheduled = runs[r].scheduled /\ x.count = runs[r].count
        /\ x.edit = runs[r].edit /\ x.wait = "resolved"
        /\ x.status = (IF command[p].as = "approve" THEN "completed" ELSE "rejected")
        /\ x.tasks = (IF command[p].as = "approve" THEN 1 ELSE 0)
    <2>1. CASE command[p].as = "approve"
      <3>1. x = [runs[r] EXCEPT !.status = "completed", !.version = runs[r].version + 1, !.wait = "resolved", !.tasks = 1]
        BY <1>3, <1>4, <2>1
      <3> QED
        BY <1>3, <2>1, <3>1 DEF RunType
    <2>2. CASE command[p].as # "approve"
      <3>1. x = [runs[r] EXCEPT !.status = "rejected", !.version = runs[r].version + 1, !.wait = "resolved", !.tasks = 0]
        BY <1>3, <1>4, <2>2
      <3> QED
        BY <1>3, <2>2, <3>1 DEF RunType
    <2> QED
      BY <2>1, <2>2
  <1>7. /\ runs' \in Seq(RunType) /\ DOMAIN runs' = DOMAIN runs
        /\ runs'[r] = x /\ \A q \in DOMAIN runs : q # r => runs'[q] = runs[q]
        /\ Linked' /\ (\A q \in DOMAIN runs : Told(q))' /\ Life!OccurrenceOnce' /\ Life!NoOverlap'
    BY <1>2, <1>5, <1>6, RunStep
  <1>8. /\ receipt' \in [People -> {None, "approve", "reject", "updated"}] /\ receipt'[p] = command[p].as
        /\ \A q \in People : q # p => receipt'[q] = receipt[q]
    BY <1>2, <1>5 DEF LifeInv, LifeTypes
  <1>9. \A q \in People : q # p /\ command[q].run = r => receipt[q] = None
    BY <1>2, RunsKnown, RoutineAssumption DEF LifeInv, Commanded, Command
  <1>10. ASSUME NEW q \in People PROVE Commanded(q)'
    <2>0. \A o \in DOMAIN runs : /\ runs'[o].workflow = runs[o].workflow
                                 /\ runs[o].status # "awaiting_confirmation" => runs'[o].status # "awaiting_confirmation"
      BY <1>2, <1>6, <1>7
    <2>1. CASE q = p
      <3>1. command[p] \in Command({"decide"}, DOMAIN runs, {"approve", "reject"})
        BY <1>2, RoutineAssumption DEF LifeInv, Commanded
      <3>2. command'[p] \in Command({"decide"}, DOMAIN runs', {"approve", "reject"})
        BY <1>7, <3>1, Sent1
      <3>3. command'[p].op = "decide" /\ command'[p].run = r /\ receipt'[p] = command'[p].as
        BY <1>1, <1>2, <1>8, Sent1
      <3>4. runs'[r].workflow = "life.capture" /\ runs'[r].status # "awaiting_confirmation"
        BY <1>2, <1>6, <1>7
      <3> QED
        BY <2>1, <3>2, <3>3, <3>4 DEF Commanded
    <2>2. CASE q # p
      <3>1. receipt'[q] = receipt[q] /\ Commanded(q)
        BY <1>8, <2>2 DEF LifeInv
      <3>2. CASE command[q].op = "decide" /\ command[q] \in Command({"decide"}, DOMAIN runs, {"approve", "reject"})
        <4>1. command'[q] \in Command({"decide"}, DOMAIN runs', {"approve", "reject"}) /\ command'[q].run \in DOMAIN runs
          BY <1>7, <3>2, Sent1 DEF Command
        <4>2. PICK o \in DOMAIN runs : o = command[q].run
          BY <3>2 DEF Command
        <4>3. runs[o].workflow = "life.capture" /\ (receipt[q] # None => runs[o].status # "awaiting_confirmation") /\ receipt[q] \in {None, command[q].as}
          BY <3>1, <3>2, <4>2, RoutineAssumption DEF Commanded
        <4>4. command'[q].op = "decide" /\ command'[q].run = o /\ command'[q].as = command[q].as
          BY <3>2, <4>2, Sent1
        <4>5. runs'[o].workflow = "life.capture" /\ (receipt'[q] # None => runs'[o].status # "awaiting_confirmation")
          <5>1. runs'[o].workflow = runs[o].workflow /\ (runs[o].status # "awaiting_confirmation" => runs'[o].status # "awaiting_confirmation")
            BY <2>0, <4>2
          <5>2. receipt'[q] = receipt[q]
            BY <3>1
          <5> QED
            BY <4>3, <5>1, <5>2
        <4>6. receipt'[q] \in {None, command'[q].as}
          BY <3>1, <4>3, <4>4
        <4> QED
          BY <3>1, <4>1, <4>4, <4>5, <4>6 DEF Commanded
      <3> QED
        BY <3>1, <3>2, Sent1 DEF Commanded
    <2> QED
      BY <2>1, <2>2
  <1>11. ASSUME NEW q \in DOMAIN runs', runs'[q].workflow = "life.capture"
         PROVE  /\ runs'[q].tasks = IF runs'[q].status = "completed" THEN 1 ELSE 0
                /\ runs'[q].wait = "waiting" <=> runs'[q].status = "awaiting_confirmation"
                /\ \A o \in People : command'[o].run = q /\ receipt'[o] # None => (receipt'[o] = "approve") = (runs'[q].status = "completed")
    <2>1. CASE q = r
      BY <1>2, <1>6, <1>7, <1>8, <1>9, <2>1, Sent1
    <2>2. CASE q # r
      BY <1>1, <1>7, <1>8, <1>11, <2>2, Sent1 DEF LifeInv, Life!LifeHolds, Life!DecidedOnce
    <2> QED
      BY <2>1, <2>2
  <1>12. Life!DecidedOnce'
    BY <1>11 DEF Life!DecidedOnce
  <1>13. LifeTypes' /\ \A t \in Schedulers : scheduler'[t].now <= clock'
    BY <1>5, <1>7, <1>8, Sent1 DEF LifeInv, LifeTypes
  <1> QED
    BY <1>7, <1>10, <1>12, <1>13 DEF LifeInv, Life!LifeHolds

LEMMA UpdateRoutineHolds == ASSUME LifeInv, NEW p \in People, command' = [command EXCEPT ![p].sends = @ + 1],
                                   receipt[p] = None, Life!UpdateRoutine(p), UNCHANGED <<clock, scheduler>>
    PROVE LifeInv'
  <1>1. command[p].op = "update_routine" /\ command[p].as \in Changes /\ command[p].run = None
    BY RoutineAssumption DEF Life!UpdateRoutine, LifeInv, Commanded, Command
  <1>2. PICK u \in Changes : u = command[p].as
    BY <1>1
  <1>3. u.workflow \in Binding /\ u.due \in Nat /\ u.enabled \in BOOLEAN
    BY RoutineAssumption DEF Changes, Binding
  <1>4. routine \in RoutineType /\ routine.version + 1 \in Nat /\ routine.edits + 1 \in Nat
    BY DEF LifeInv, LifeTypes, RoutineType
  <1>5. PICK x : x = [routine EXCEPT !.workflow = u.workflow, !.due = u.due, !.enabled = u.enabled,
                                     !.version = routine.version + 1, !.edits = routine.edits + 1]
    OBVIOUS
  <1>6. routine' = x /\ receipt' = [receipt EXCEPT ![p] = "updated"] /\ UNCHANGED runs
    BY <1>2, <1>5 DEF Life!UpdateRoutine
  <1>7. routine' \in RoutineType /\ routine'.edits = routine.edits + 1 /\ routine'.last = routine.last
    BY <1>3, <1>4, <1>5, <1>6 DEF RoutineType
  <1>8. ASSUME NEW r \in DOMAIN runs PROVE Told(r)'
    <2>1. runs[r] \in RunType /\ Told(r)
      BY RunsKnown DEF LifeInv
    <2>2. runs[r].scheduled # None => runs[r].edit <= routine'.edits /\ runs[r].edit # routine'.edits
      BY <1>4, <1>7, <2>1 DEF Told, Started, RunType, RoutineType
    <2> QED
      BY <1>6, <2>1, <2>2 DEF Told, Started, Covered, Life!Unfinished
  <1>9. Linked' /\ Life!OccurrenceOnce' /\ Life!NoOverlap'
    BY <1>6, <1>7 DEF LifeInv, Linked, Life!LifeHolds, Life!OccurrenceOnce, Life!NoOverlap, Life!Scheduled, Life!Unfinished
  <1>10. ASSUME NEW q \in People PROVE Commanded(q)'
    <2>1. CASE q = p
      <3>1. receipt'[p] = "updated"
        BY <1>6 DEF LifeInv, LifeTypes
      <3>2. command[p] \in Command({"update_routine"}, {None}, Changes)
        BY <1>1, RoutineAssumption DEF LifeInv, Commanded, Command
      <3> QED
        BY <1>1, <2>1, <3>1, <3>2, Sent1 DEF Commanded
    <2>2. CASE q # p
      <3>1. receipt'[q] = receipt[q]
        BY <1>6, <2>2 DEF LifeInv, LifeTypes
      <3> QED
        BY <1>6, <3>1, Sent1 DEF LifeInv, Commanded
    <2> QED
      BY <2>1, <2>2
  <1>11. Life!DecidedOnce'
    <2>1. \A q \in People : q # p => receipt'[q] = receipt[q]
      BY <1>6 DEF LifeInv, LifeTypes
    <2>2. \A r \in DOMAIN runs : command'[p].run # r
      BY <1>1, Sent1, RunsKnown, RoutineAssumption
    <2> QED
      BY <1>6, <2>1, <2>2, Sent1 DEF LifeInv, Life!LifeHolds, Life!DecidedOnce
  <1>12. LifeTypes' /\ \A t \in Schedulers : scheduler'[t].now <= clock'
    BY <1>6, <1>7, Sent1 DEF LifeInv, LifeTypes
  <1> QED
    BY <1>6, <1>8, <1>9, <1>10, <1>11, <1>12 DEF LifeInv, Life!LifeHolds

LEMMA ArrivesHolds == ASSUME LifeInv, NEW p \in People, Life!Arrives(p) PROVE LifeInv'
  <1>1. command' = [command EXCEPT ![p].sends = @ + 1] /\ UNCHANGED <<clock, scheduler>>
    BY DEF Life!Arrives
  <1>2. CASE UNCHANGED <<runs, routine, receipt>>
    BY <1>1, <1>2, AgainHolds
  <1>3. CASE receipt[p] = None /\ Life!Decide(p)
    BY <1>1, <1>3, DecideHolds
  <1>4. CASE receipt[p] = None /\ Life!UpdateRoutine(p)
    BY <1>1, <1>4, UpdateRoutineHolds
  <1> QED
    BY <1>2, <1>3, <1>4 DEF Life!Arrives, Life!Recorded, Life!Refused

----------------------------------------------------------------------------
(* The routine's time comes.                                               *)

\* What an occurrence that is due covers: nothing ahead of the scheduler's time.
LEMMA DueIsPast == ASSUME LifeInv, NEW s \in Schedulers, Life!IsDue(routine, scheduler[s].now)
    PROVE /\ Life!Occurrences(s, routine) \in Nat /\ Life!Occurrences(s, routine) * Interval \in Nat
          /\ routine.due + (Life!Occurrences(s, routine) - 1) * Interval <= clock
          /\ Life!Advanced(s, routine) \in RoutineType
          /\ Life!Advanced(s, routine).due = routine.due + Life!Occurrences(s, routine) * Interval
          /\ Life!Advanced(s, routine).edits = routine.edits /\ Life!Advanced(s, routine).workflow = routine.workflow
          /\ Life!Advanced(s, routine).last = routine.last
  <1>1. /\ routine \in RoutineType /\ routine.due \in Nat /\ scheduler[s].now \in Nat /\ scheduler[s].now <= clock /\ clock \in Nat
        /\ routine.due <= scheduler[s].now /\ Interval \in Nat \ {0} /\ routine.version + 1 \in Nat
    BY RoutineAssumption DEF LifeInv, LifeTypes, RoutineType, SchedulerType, Life!IsDue
  <1>2. PICK n \in Nat : n = scheduler[s].now - routine.due
    BY <1>1
  <1>3. PICK k \in Nat : k = n \div Interval /\ k * Interval <= n
    BY <1>1
  <1>4. Life!Occurrences(s, routine) = k + 1
    BY <1>2, <1>3 DEF Life!Occurrences
  <1>5. (k + 1) * Interval \in Nat /\ k * Interval \in Nat /\ (k + 1) - 1 = k
    BY <1>1
  <1>6. routine.due + k * Interval <= clock
    BY <1>1, <1>2, <1>3, <1>5
  <1>7. PICK later \in Nat : later = routine.due + (k + 1) * Interval
    BY <1>1, <1>5
  <1>8. Life!Advanced(s, routine) = [routine EXCEPT !.due = later, !.version = routine.version + 1]
    BY <1>4, <1>7 DEF Life!Advanced
  <1>9. /\ Life!Advanced(s, routine) \in RoutineType /\ Life!Advanced(s, routine).due = later
        /\ Life!Advanced(s, routine).edits = routine.edits /\ Life!Advanced(s, routine).workflow = routine.workflow
        /\ Life!Advanced(s, routine).last = routine.last
    BY <1>1, <1>7, <1>8 DEF RoutineType
  <1> QED
    BY <1>4, <1>5, <1>6, <1>7, <1>9

LEMMA StartedIdle == ASSUME LifeInv, NEW s \in Schedulers, clock' = clock, Life!Set(s, [Life!Idle EXCEPT !.pc = "started"])
    PROVE scheduler' \in [Schedulers -> SchedulerType] /\ \A t \in Schedulers : scheduler'[t].now <= clock'
  BY IdleIsOne, SchedulerSet

LEMMA SkipDueHolds == ASSUME LifeInv, NEW s \in Schedulers, Life!SkipDue(s) PROVE LifeInv'
  <1>0. /\ UNCHANGED <<clock, runs, command, receipt>> /\ Life!IsDue(routine, scheduler[s].now)
        /\ routine' = Life!Advanced(s, routine) /\ Life!Set(s, [Life!Idle EXCEPT !.pc = "started"])
    BY DEF Life!SkipDue, Life!Current
  <1>1. scheduler' \in [Schedulers -> SchedulerType] /\ \A t \in Schedulers : scheduler'[t].now <= clock'
    BY <1>0, StartedIdle
  <1>2. PICK more \in Nat : /\ routine' \in RoutineType /\ routine'.due = routine.due + more /\ routine'.edits = routine.edits
                            /\ routine'.workflow = routine.workflow /\ routine'.last = routine.last
    BY <1>0, DueIsPast
  <1>3. ASSUME NEW r \in DOMAIN runs PROVE Told(r)'
    <2>1. runs[r] \in RunType /\ Told(r) /\ routine.due \in Nat /\ Interval \in Nat
      BY RunsKnown, RoutineAssumption DEF LifeInv, LifeTypes, RoutineType
    <2>2. runs[r].scheduled # None => runs[r].scheduled + runs[r].count * Interval \in Nat
      BY <2>1 DEF RunType
    <2>3. runs[r].scheduled # None /\ runs[r].edit = routine.edits => runs[r].scheduled + runs[r].count * Interval <= routine'.due
      BY <1>2, <2>1, <2>2 DEF Told, Started, Covered
    <2> QED
      BY <1>0, <1>2, <2>1, <2>3 DEF Told, Started, Covered, Life!Unfinished
  <1>4. Linked' /\ Life!OccurrenceOnce' /\ Life!NoOverlap'
    BY <1>0, <1>2 DEF LifeInv, Linked, Life!LifeHolds, Life!OccurrenceOnce, Life!NoOverlap, Life!Scheduled, Life!Unfinished
  <1>5. (\A p \in People : Commanded(p))' /\ Life!DecidedOnce'
    BY <1>0, DecisionsKept
  <1>6. LifeTypes'
    BY <1>0, <1>1, <1>2 DEF LifeInv, LifeTypes
  <1> QED
    BY <1>0, <1>1, <1>3, <1>4, <1>5, <1>6 DEF LifeInv, Life!LifeHolds

LEMMA StartDueHolds == ASSUME LifeInv, NEW s \in Schedulers, Life!StartDue(s) PROVE LifeInv'
  <1>0. /\ UNCHANGED <<clock, command, receipt>> /\ Life!IsDue(routine, scheduler[s].now) /\ ~Life!Skips(s, routine)
        /\ Life!Set(s, [Life!Idle EXCEPT !.pc = "started"])
    BY DEF Life!StartDue, Life!Current
  <1>1. scheduler' \in [Schedulers -> SchedulerType] /\ \A t \in Schedulers : scheduler'[t].now <= clock'
    BY <1>0, StartedIdle
  <1>2. PICK n : n = Len(runs) + 1 /\ n \in Nat /\ n \notin DOMAIN runs /\ \A r \in DOMAIN runs : r < n
    BY RunsKnown
  <1>3. PICK k \in Nat : /\ k = Life!Occurrences(s, routine) /\ k * Interval \in Nat /\ routine.due + (k - 1) * Interval <= clock
    BY <1>0, DueIsPast
  <1>4. PICK st \in {"waiting", "completed"} : st = IF routine.workflow = "custom" THEN "waiting" ELSE "completed"
    OBVIOUS
  <1>5. PICK new : new = Life!Record(routine.workflow, st, routine.due, k)
    OBVIOUS
  <1>6. new = [workflow |-> routine.workflow, status |-> st, version |-> 1, scheduled |-> routine.due, count |-> k,
               edit |-> routine.edits, tasks |-> 0, wait |-> None, ready |-> FALSE]
    BY <1>5 DEF Life!Record
  <1>7. runs' = Append(runs, new)
    BY <1>3, <1>4, <1>5 DEF Life!StartDue, Life!Current
  <1>8. /\ routine \in RoutineType /\ routine.workflow \in Binding /\ routine.due \in Nat /\ routine.edits \in Nat
        /\ new \in RunType /\ None \notin Nat
    BY <1>6, RoutineAssumption DEF LifeInv, LifeTypes, RoutineType, RunType
  <1>9. /\ runs' \in Seq(RunType) /\ DOMAIN runs' = DOMAIN runs \cup {n} /\ runs'[n] = new
        /\ \A r \in DOMAIN runs : runs'[r] = runs[r]
    BY <1>2, <1>7, <1>8, RunsKnown DEF LifeInv, LifeTypes
  <1>10. /\ routine' \in RoutineType /\ routine'.due = routine.due + k * Interval /\ routine'.edits = routine.edits
         /\ routine'.workflow = routine.workflow /\ routine'.last = n
    <2>1. routine' = [Life!Advanced(s, routine) EXCEPT !.last = n]
      BY <1>2 DEF Life!StartDue, Life!Current
    <2> QED
      BY <1>0, <1>2, <1>3, <2>1, DueIsPast DEF RoutineType
  <1>11. ASSUME NEW r \in DOMAIN runs, runs[r].scheduled # None, runs[r].edit = routine.edits PROVE ~Life!Unfinished(r)
    <2>1. CASE Life!Unfinished(r)
      <3>1. routine.workflow = "custom" /\ routine.last = r
        BY <1>11, <2>1 DEF LifeInv, Told, Started, Covered
      <3>2. Life!Overlaps(routine)
        BY <1>8, <2>1, <3>1, RunsKnown DEF Life!Overlaps
      <3> QED
        BY <1>0, <3>1, <3>2 DEF Life!Skips
    <2> QED
      BY <2>1
  <1>12. ASSUME NEW r \in DOMAIN runs PROVE Told(r)' /\ Life!Unfinished(r)' = Life!Unfinished(r)
    <2>1. runs[r] \in RunType /\ Told(r) /\ Interval \in Nat /\ runs'[r] = runs[r]
      BY <1>9, RunsKnown, RoutineAssumption DEF LifeInv
    <2>2. runs[r].scheduled # None => runs[r].scheduled + runs[r].count * Interval \in Nat
      BY <2>1 DEF RunType
    <2>3. runs[r].scheduled # None /\ runs[r].edit = routine.edits => runs[r].scheduled + runs[r].count * Interval <= routine'.due
      BY <1>3, <1>8, <1>10, <2>1, <2>2 DEF Told, Started, Covered
    <2>4. Life!Unfinished(r)' = Life!Unfinished(r)
      BY <2>1 DEF Life!Unfinished
    <2>5. (runs[r].scheduled # None => Started(r))'
      BY <1>0, <1>10, <1>11, <2>1, <2>3, <2>4 DEF Told, Started, Covered
    <2> QED
      BY <2>1, <2>4, <2>5 DEF Told
  <1>13. Told(n)'
    BY <1>0, <1>3, <1>4, <1>6, <1>8, <1>9, <1>10 DEF Told, Started, Covered, Life!Unfinished, Binding
  <1>14. ASSUME NEW r \in DOMAIN runs' PROVE Told(r)'
    BY <1>9, <1>12, <1>13
  <1>15. Life!OccurrenceOnce'
    <2>1. ASSUME NEW r \in DOMAIN runs', runs'[r].scheduled # None
          PROVE  runs'[r].scheduled + (runs'[r].count - 1) * Interval <= clock'
      BY <1>14, <2>1 DEF Told, Started
    <2>2. ASSUME NEW r \in DOMAIN runs', NEW q \in DOMAIN runs', runs'[r].scheduled # None, runs'[q].scheduled # None,
                 r < q, runs'[r].edit = runs'[q].edit
          PROVE  runs'[r].scheduled + runs'[r].count * Interval <= runs'[q].scheduled
      <3>1. CASE q \in DOMAIN runs
        <4>1. r \in DOMAIN runs
          BY <1>2, <1>9, <2>2, <3>1, RunsKnown
        <4> QED
          BY <1>9, <2>2, <3>1, <4>1 DEF LifeInv, Life!LifeHolds, Life!OccurrenceOnce, Life!Scheduled
      <3>2. CASE q = n
        <4>1. r \in DOMAIN runs
          BY <1>2, <1>9, <2>2, <3>2
        <4> QED
          BY <1>6, <1>9, <2>2, <3>2, <4>1 DEF LifeInv, Told, Started, Covered
      <3> QED
        BY <1>9, <3>1, <3>2
    <2> QED
      BY <2>1, <2>2 DEF Life!OccurrenceOnce, Life!Scheduled
  <1>16. Life!NoOverlap'
    <2>1. ASSUME NEW r \in DOMAIN runs', NEW q \in DOMAIN runs', runs'[r].scheduled # None, runs'[q].scheduled # None,
                 r < q, Life!Unfinished(r)', Life!Unfinished(q)'
          PROVE  runs'[r].edit # runs'[q].edit
      <3>1. CASE q \in DOMAIN runs
        <4>1. r \in DOMAIN runs
          BY <1>2, <1>9, <2>1, <3>1, RunsKnown
        <4> QED
          BY <1>9, <1>12, <2>1, <3>1, <4>1 DEF LifeInv, Life!LifeHolds, Life!NoOverlap, Life!Scheduled
      <3>2. CASE q = n
        <4>1. r \in DOMAIN runs
          BY <1>2, <1>9, <2>1, <3>2
        <4> QED
          BY <1>6, <1>9, <1>11, <1>12, <2>1, <3>2, <4>1
      <3> QED
        BY <1>9, <3>1, <3>2
    <2> QED
      BY <2>1 DEF Life!NoOverlap, Life!Scheduled
  <1>17. (\A p \in People : Commanded(p))'
    BY <1>0, <1>9 DEF LifeInv, Commanded, Command
  <1>18. Life!DecidedOnce'
    BY <1>0, <1>6, <1>8, <1>9 DEF LifeInv, Life!LifeHolds, Life!DecidedOnce, Binding
  <1>19. LifeTypes' /\ Linked'
    BY <1>0, <1>1, <1>9, <1>10 DEF LifeInv, LifeTypes, Linked
  <1> QED
    BY <1>1, <1>14, <1>15, <1>16, <1>17, <1>18, <1>19 DEF LifeInv, Life!LifeHolds

LEMMA LifeStart == ASSUME Life!Init PROVE LifeInv
  <1>1. routine \in RoutineType /\ routine.last = None /\ clock = 0 /\ runs = <<>>
    BY DEF Life!Init, RoutineType, Binding
  <1>2. scheduler \in [Schedulers -> SchedulerType] /\ \A s \in Schedulers : scheduler[s].now <= clock
    BY DEF Life!Init, Life!Idle, SchedulerType
  <1>3. \A p \in People : command[p] \in Command({None}, {None}, {None}) /\ command[p].op = None /\ receipt[p] = None
    BY DEF Life!Init, Life!Blank, Command
  <1>4. DOMAIN runs = {} /\ runs \in Seq(RunType)
    BY <1>1
  <1>5. LifeTypes
    BY <1>1, <1>2, <1>4 DEF LifeTypes, Life!Init
  <1>6. Life!LifeHolds
    BY <1>4 DEF Life!LifeHolds, Life!OccurrenceOnce, Life!NoOverlap, Life!DecidedOnce, Life!Scheduled
  <1> QED
    BY <1>1, <1>2, <1>3, <1>4, <1>5, <1>6 DEF LifeInv, Linked, Commanded

LEMMA LifeNext == ASSUME LifeInv, Life!Next PROVE LifeInv'
  <1>1. CASE Life!Passes
    BY <1>1, PassesHolds
  <1>2. CASE \/ Life!Start("life.capture", "awaiting_confirmation") \/ Life!Start("life.capture", "completed")
             \/ Life!Start("life.review", "completed")
    BY <1>2, StartHolds
  <1>3. CASE \E r \in DOMAIN runs : Life!Comes(r)
    BY <1>3, ComesHolds
  <1>4. ASSUME NEW p \in People,
               \/ Life!Arrives(p) \/ \E r \in DOMAIN runs, as \in {"approve", "reject"} : Life!Decides(p, r, as)
               \/ p \in Editors /\ \E u \in Changes : Life!Edits(p, u)
        PROVE  LifeInv'
    BY <1>4, ArrivesHolds, DecidesHolds, EditsHolds
  <1>5. ASSUME NEW s \in Schedulers,
               \/ Life!ListDue(s) \/ Life!StartDue(s) \/ Life!SkipDue(s) \/ Life!NotDue(s) \/ Life!TickFails(s)
               \/ Life!ListReady(s) \/ Life!TickEnds(s) \/ \E r \in DOMAIN runs : Life!Poll(s, r)
        PROVE  LifeInv'
    BY <1>5, ListDueHolds, StartDueHolds, SkipDueHolds, NotDueHolds, TickFailsHolds, ListReadyHolds, TickEndsHolds, PollHolds
  <1> QED
    BY <1>1, <1>2, <1>3, <1>4, <1>5 DEF Life!Next

LEMMA LifeStutters == ASSUME LifeInv, UNCHANGED life PROVE LifeInv'
  <1>1. UNCHANGED <<clock, routine, runs, scheduler, command, receipt>>
    BY DEF life
  <1>2. Linked' /\ (\A q \in DOMAIN runs : Told(q))' /\ Life!OccurrenceOnce' /\ Life!NoOverlap'
    BY <1>1, RunsKept DEF LifeInv, LifeTypes
  <1>3. (\A p \in People : Commanded(p))' /\ Life!DecidedOnce'
    BY <1>1, DecisionsKept
  <1>4. LifeTypes' /\ \A t \in Schedulers : scheduler'[t].now <= clock'
    BY <1>1 DEF LifeInv, LifeTypes
  <1> QED
    BY <1>2, <1>3, <1>4 DEF LifeInv, Life!LifeHolds

\* However many schedulers list a routine, however stale their lists are, whichever ticks fail and whoever edits
\* and decides how often: no occurrence of a routine is started twice or ahead of its time, its custom Runs do not
\* overlap unless it was rebound, and what was captured is stored once and exactly if it was approved.
THEOREM RoutinesDoNotRepeat == RoutinesSpec => []LifeHolds
<1>1. RoutinesInit => LifeInv
  BY LifeStart DEF RoutinesInit
<1>2. ASSUME LifeInv, [RoutinesNext]_<<part, vars, life, custom>> PROVE LifeInv'
  <2>1. CASE Life!Next
    BY <1>2, <2>1, LifeNext
  <2>2. CASE UNCHANGED life
    BY <1>2, <2>2, LifeStutters
  <2> QED
    BY <1>2, <2>1, <2>2 DEF RoutinesNext
<1>3. LifeInv => LifeHolds
  BY DEF LifeInv, LifeHolds
<1> QED
  BY <1>1, <1>2, <1>3, PTL DEF RoutinesSpec
=============================================================================
