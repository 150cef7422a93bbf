-------------------------- MODULE Requests_proofs --------------------------
(***************************************************************************)
(* Theorems about the three things a client asks for: a note is resolved   *)
(* once, for any number of notes, keys, messages and crashes; a call to a  *)
(* connector is made once and told as it was, for any number of calls,     *)
(* bridges and crashes; and a routing lab publishes what was tested,       *)
(* answers at once what is approved and hands a request over once, for any *)
(* number of requests, recipes, replays, threads and restarts.             *)
(*                                                                         *)
(* The second follows from ConnectorInv: which bridge owns a call, what    *)
(* its file on disk holds at each step of the bridge, and what the         *)
(* provider's side has by then, so that a create is sent a first time only *)
(* by the bridge that owns the call and before anything was reported. The  *)
(* third follows from RoutingInv: the version of the catalogue a replay    *)
(* was started with still names the recipes it tested, a thread chooses    *)
(* from the catalogue its request was made with, and the other Project has *)
(* a Goal only once the dispatch of the request is past its POST.          *)
(***************************************************************************)
EXTENDS MCRequests, WellFoundedInduction, TLAPS

----------------------------------------------------------------------------
(* Notes (NoteDecisions).                                                  *)

Sent == [note : Notes, action : Actions, token : Nat]
Operation == {"begun", "done", "failed"}
TypeInv ==
    /\ note \in [Notes -> [status : {"open", "pending", "resolved"}, token : Nat, by : Keys \cup {None}]]
    /\ source \in [Notes -> {"running", "paused", "gone"}]
    /\ sent \in [Keys -> Sent \cup {None}]
    /\ claimed \subseteq Keys /\ answered \subseteq claimed
    /\ op \in [Keys -> Operation \cup {None}] /\ pc \in [Keys -> {"execute", None}]
    /\ begun \in [Notes -> Nat] /\ completed \in [Notes -> Nat]

\* the note is the decision's whose receipt is written, and of no other
Claimed(k) ==
    /\ sent[k] # None /\ note[sent[k].note].by = k /\ note[sent[k].note].status # "open"
\* an answer is the outcome of the operation, and a request that holds the loop is not answered
Answered(k) ==
    /\ note[sent[k].note].status = "resolved" /\ (sent[k].action = "resolve" \/ op[k] = "done")
    /\ pc[k] # None => Planned(k)
\* what was begun and completed for a note belongs to the decision it has
Counted(n) ==
    /\ (note[n].status = "open") = (note[n].by = None)
    /\ note[n].by # None => note[n].by \in claimed /\ sent[note[n].by].note = n
    /\ note[n].status = "resolved" => note[n].by \in answered
    /\ begun[n] <= 1 /\ (begun[n] # 0 => note[n].by # None /\ op[note[n].by] # None)
    /\ completed[n] <= 1 /\ (completed[n] # 0 => note[n].by \in answered)
Agreed ==
    /\ \A k \in Keys : (pc[k] # None \/ op[k] # None) => k \in claimed
    /\ \A k \in claimed : Claimed(k)
    /\ \A k \in answered : Answered(k)
    /\ \A n \in Notes : Counted(n)
DecisionInv == TypeInv /\ Agreed

LEMMA TypeStep ==
    ASSUME DecisionInv, [Next]_vars
    PROVE  TypeInv'
<1>0. TypeInv /\ \A k \in Keys : (pc[k] # None \/ op[k] # None) => k \in claimed /\ sent[k] \in Sent
  BY DEF DecisionInv, Agreed, Claimed, TypeInv
<1>1. ASSUME NEW n \in Notes, Message(n) PROVE TypeInv'
  BY <1>0, <1>1 DEF TypeInv, Message
<1>2. ASSUME NEW n \in Notes, NEW s \in {"running", "paused", "gone"}, SourceMoves(n, s) PROVE TypeInv'
  BY <1>0, <1>2 DEF TypeInv, SourceMoves
<1>3. ASSUME NEW k \in Keys, NEW n \in Notes, NEW action \in Actions, Write(k, n, action) PROVE TypeInv'
  <2>1. [note |-> n, action |-> action, token |-> note[n].token] \in Sent
    BY <1>0 DEF TypeInv, Sent
  <2> QED
    BY <1>0, <1>3, <2>1 DEF TypeInv, Write, state
<1>4. ASSUME NEW k \in Keys, Decide(k) PROVE TypeInv'
  <2>1. sent[k].note \in Notes
    BY <1>0, <1>4 DEF Decide, TypeInv, Sent
  <2> QED
    BY <1>0, <1>4, <2>1 DEF Decide, TypeInv
<1>5. ASSUME NEW k \in Keys, Begin(k) PROVE TypeInv'
  <2>1. sent[k].note \in Notes
    BY <1>0, <1>5, NoteAssumption DEF Begin, Sent
  <2> QED
    BY <1>0, <1>5, <2>1 DEF Begin, TypeInv, Operation
<1>6. ASSUME NEW k \in Keys, Raises(k) PROVE TypeInv'
  <2>1. sent[k].note \in Notes
    BY <1>0, <1>6, NoteAssumption DEF Raises, Sent
  <2> QED
    BY <1>0, <1>6, <2>1 DEF Raises, TypeInv
<1>7. ASSUME NEW k \in Keys, Complete(k), k \in claimed, sent' = sent
      PROVE  /\ note' \in [Notes -> [status : {"open", "pending", "resolved"}, token : Nat, by : Keys \cup {None}]]
             /\ completed' \in [Notes -> Nat] /\ answered' \subseteq claimed
  <2>1. sent[k].note \in Notes
    BY <1>0, <1>7 DEF DecisionInv, Agreed, Claimed, TypeInv, Sent
  <2> QED
    BY <1>0, <1>7, <2>1 DEF Complete, TypeInv
<1>8. ASSUME NEW k \in Keys, Finish(k) PROVE TypeInv'
  <2>1. k \in claimed
    BY <1>0, <1>8, NoteAssumption DEF Finish
  <2>2. /\ UNCHANGED <<source, sent, claimed, op, begun>> /\ pc' = [pc EXCEPT ![k] = None]
        /\ Complete(k) \/ UNCHANGED <<note, completed, answered>>
    BY <1>8 DEF Finish
  <2> QED
    BY <1>0, <1>7, <2>1, <2>2 DEF TypeInv
<1>9. ASSUME NEW k \in Keys, Retry(k) PROVE TypeInv'
  <2>1. k \in claimed /\ Complete(k) /\ UNCHANGED <<source, sent, claimed, op, pc, begun>>
    BY <1>9 DEF Retry
  <2> QED
    BY <1>0, <1>7, <2>1 DEF TypeInv
<1>10. ASSUME NEW k \in Keys, NEW outcome \in {"done", "failed"}, Planner(k, outcome) PROVE TypeInv'
  BY <1>0, <1>10 DEF Planner, TypeInv, Operation
<1>11. CASE Crash
  BY <1>0, <1>11 DEF Crash, TypeInv
<1>12. CASE UNCHANGED vars
  BY <1>0, <1>12 DEF vars, state, TypeInv
<1> QED
  BY <1>1, <1>2, <1>3, <1>4, <1>5, <1>6, <1>8, <1>9, <1>10, <1>11, <1>12 DEF Next

\* a decision that is answered resolves its note, once
LEMMA CompleteStep ==
    ASSUME DecisionInv, NEW k \in claimed, k \notin answered, Complete(k),
           sent[k].action = "resolve" \/ op[k] = "done",
           UNCHANGED <<sent, claimed, op, begun>>,
           pc' = [pc EXCEPT ![k] = None] \/ (pc' = pc /\ (pc[k] # None => Planned(k)))
    PROVE  Agreed'
<1>a. PICK m : m = sent[k].note
  OBVIOUS
<1>0. TypeInv /\ k \in Keys /\ answered \subseteq claimed /\ m \in Notes /\ note[m].by = k /\ k # None
  BY <1>a, NoteAssumption DEF DecisionInv, Agreed, TypeInv, Claimed, Sent
<1>1. /\ note'[m].by = k /\ note'[m].status = "resolved" /\ completed'[m] = completed[m] + 1
      /\ \A n \in Notes : n # m => note'[n] = note[n] /\ completed'[n] = completed[n]
      /\ answered' = answered \cup {k}
  BY <1>a, <1>0 DEF Complete, TypeInv
<1>2. /\ pc'[k] # None => Planned(k)
      /\ \A j \in Keys : j # k => pc'[j] = pc[j]
  BY <1>a, <1>0 DEF TypeInv
<1>3. \A j \in claimed : j # k => sent[j].note # m /\ sent[j].note \in Notes
  BY <1>a, <1>0 DEF DecisionInv, Agreed, TypeInv, Claimed, Sent
<1>4. completed[m] = 0
  BY <1>a, <1>0 DEF DecisionInv, Agreed, Counted, TypeInv
<1>5. \A j \in Keys : (pc'[j] # None \/ op'[j] # None) => j \in claimed'
  BY <1>a, <1>0, <1>2 DEF DecisionInv, Agreed
<1>6. \A j \in claimed' : Claimed(j)'
  BY <1>a, <1>0, <1>1, <1>3 DEF DecisionInv, Agreed, Claimed
<1>7. \A j \in answered' : Answered(j)'
  BY <1>a, <1>0, <1>1, <1>2, <1>3 DEF DecisionInv, Agreed, Answered, Planned, TypeInv
<1>8. \A n \in Notes : Counted(n)'
  <2>1. Counted(m)'
    BY <1>a, <1>0, <1>1, <1>4 DEF DecisionInv, Agreed, Counted
  <2>2. ASSUME NEW n \in Notes, n # m PROVE Counted(n)'
    BY <1>a, <1>0, <1>1, <2>2 DEF DecisionInv, Agreed, Counted
  <2> QED
    BY <2>1, <2>2
<1> QED
  BY <1>5, <1>6, <1>7, <1>8 DEF Agreed

LEMMA DecisionStep ==
    ASSUME DecisionInv, [Next]_vars
    PROVE  DecisionInv'
<1>0. TypeInv /\ Agreed /\ None \notin Keys \cup {"execute", "begun", "done", "failed"}
  BY NoteAssumption DEF DecisionInv
<1>1. TypeInv'
  BY TypeStep
<1>2. ASSUME NEW n \in Notes, Message(n) PROVE Agreed'
  <2>1. /\ \A m \in Notes : note'[m].status = note[m].status /\ note'[m].by = note[m].by
        /\ UNCHANGED <<sent, claimed, answered, op, pc, begun, completed>>
    BY <1>0, <1>2 DEF Agreed, Message, TypeInv
  <2>2. \A k \in claimed : sent[k].note \in Notes
    BY <1>0 DEF Agreed, Claimed, TypeInv, Sent
  <2> QED
    BY <1>0, <2>1, <2>2 DEF Agreed, Claimed, Answered, Counted, Planned, TypeInv
<1>3. ASSUME NEW n \in Notes, NEW s \in {"running", "paused", "gone"}, SourceMoves(n, s) PROVE Agreed'
  BY <1>0, <1>3 DEF Agreed, SourceMoves, Claimed, Answered, Counted, Planned
<1>4. ASSUME NEW k \in Keys, NEW n \in Notes, NEW action \in Actions, Write(k, n, action) PROVE Agreed'
  <2>1. k \notin claimed /\ \A j \in Keys : j # k => sent'[j] = sent[j]
    BY <1>0, <1>4 DEF Agreed, Write, Claimed, TypeInv
  <2>2. UNCHANGED <<note, claimed, answered, op, pc, begun, completed>>
    BY <1>4 DEF Agreed, Write, state
  <2> QED
    BY <1>0, <2>1, <2>2 DEF Agreed, Claimed, Answered, Counted, Planned, TypeInv
<1>5. ASSUME NEW k \in Keys, Decide(k) PROVE Agreed'
  <2>a. PICK m : m = sent[k].note
    OBVIOUS
  <2>1. /\ m \in Notes /\ note[m].status = "open" /\ k \notin claimed /\ sent[k] # None
        /\ note'[m].by = k /\ note'[m].status = "pending" /\ \A n \in Notes : n # m => note'[n] = note[n]
        /\ claimed' = claimed \cup {k} /\ pc' = [pc EXCEPT ![k] = "execute"]
        /\ UNCHANGED <<sent, answered, op, begun, completed>>
    BY <2>a, <1>0, <1>5 DEF Agreed, Decide, Open, TypeInv, Sent
  <2>2. \A j \in claimed : sent[j].note # m /\ sent[j].note \in Notes
    BY <2>a, <1>0, <2>1 DEF Agreed, Claimed, TypeInv, Sent
  <2>3. note[m].by = None /\ begun[m] = 0 /\ completed[m] = 0
    BY <2>a, <1>0, <2>1 DEF Agreed, Counted, TypeInv
  <2>4. \A j \in claimed' : Claimed(j)'
    BY <2>a, <1>0, <2>1, <2>2 DEF Agreed, Claimed
  <2>5. \A j \in answered' : Answered(j)'
    BY <2>a, <1>0, <2>1, <2>2 DEF Agreed, Answered, Planned, TypeInv
  <2>6. \A n \in Notes : Counted(n)'
    <3>1. Counted(m)'
      BY <2>a, <1>0, <2>1, <2>3 DEF Agreed, Counted
    <3>2. ASSUME NEW n \in Notes, n # m PROVE Counted(n)'
      BY <2>a, <1>0, <2>1, <3>2 DEF Agreed, Counted
    <3> QED
      BY <3>1, <3>2
  <2>7. \A j \in Keys : (pc'[j] # None \/ op'[j] # None) => j \in claimed'
    BY <2>a, <1>0, <2>1 DEF Agreed, TypeInv
  <2> QED
    BY <2>4, <2>5, <2>6, <2>7 DEF Agreed
<1>6. ASSUME NEW k \in Keys, Begin(k) PROVE Agreed'
  <2>a. PICK m : m = sent[k].note
    OBVIOUS
  <2>1. /\ sent[k].action # "resolve" /\ op[k] = None /\ pc[k] # None /\ k \in claimed
        /\ op'[k] # None /\ \A j \in Keys : j # k => op'[j] = op[j]
        /\ UNCHANGED <<note, sent, claimed, answered, pc, completed>>
    BY <2>a, <1>0, <1>6 DEF Agreed, Begin, TypeInv
  <2>2. m \in Notes /\ note[m].by = k /\ k # None
    BY <2>a, <1>0, <2>1 DEF Agreed, Claimed, TypeInv, Sent
  <2>3. begun[m] = 0 /\ begun' = [begun EXCEPT ![m] = 1]
    <3>1. begun[m] = 0
      BY <1>0, <2>1, <2>2 DEF Agreed, Counted
    <3>2. begun' = [begun EXCEPT ![m] = begun[m] + 1]
      BY <2>a, <1>6 DEF Begin
    <3> QED
      BY <3>1, <3>2
  <2>4. k \notin answered
    BY <2>a, <1>0, <2>1 DEF Agreed, Answered
  <2>5. \A j \in answered' : Answered(j)'
    BY <2>a, <1>0, <2>1, <2>4 DEF Agreed, Answered, Planned, TypeInv
  <2>6. \A n \in Notes : Counted(n)'
    <3>1. Counted(m)'
      BY <2>a, <1>0, <2>1, <2>2, <2>3 DEF Agreed, Counted, TypeInv
    <3>2. ASSUME NEW n \in Notes, n # m PROVE Counted(n)'
      <4>1. begun'[n] = begun[n]
        BY <2>a, <1>0, <2>3, <3>2 DEF Agreed, TypeInv
      <4>2. note[n].by # None => op'[note[n].by] = op[note[n].by] \/ op'[note[n].by] # None
        BY <2>a, <1>0, <2>1 DEF Agreed, Counted, TypeInv
      <4> QED
        BY <2>a, <1>0, <2>1, <4>1, <4>2 DEF Agreed, Counted
    <3> QED
      BY <3>1, <3>2
  <2>7. \A j \in claimed' : Claimed(j)'
    BY <2>a, <1>0, <2>1 DEF Agreed, Claimed
  <2>8. \A j \in Keys : (pc'[j] # None \/ op'[j] # None) => j \in claimed'
    BY <1>0, <2>1 DEF Agreed
  <2> QED
    BY <2>5, <2>6, <2>7, <2>8 DEF Agreed
<1>7. ASSUME NEW k \in Keys, NEW outcome \in {"done", "failed"}, Planner(k, outcome) PROVE Agreed'
  <2>1. /\ op[k] = "begun" /\ k \in claimed /\ op'[k] = outcome /\ \A j \in Keys : j # k => op'[j] = op[j]
        /\ UNCHANGED <<note, sent, claimed, answered, pc, begun, completed>>
    BY <1>0, <1>7 DEF Agreed, Planner, TypeInv
  <2>2. \A j \in Keys : (op'[j] # None) = (op[j] # None) /\ (op[j] = "done" => op'[j] = "done")
    BY <1>0, <2>1
  <2> QED
    BY <1>0, <2>1, <2>2 DEF Agreed, Claimed, Answered, Counted, Planned, TypeInv
<1>8. ASSUME NEW k \in Keys, Raises(k) PROVE Agreed'
  <2>a. PICK m : m = sent[k].note
    OBVIOUS
  <2>1. /\ pc[k] # None /\ k \in claimed /\ sent[k].action # "resolve" /\ (~Planned(k) \/ op[k] \in {None, "failed"})
        /\ pc' = [pc EXCEPT ![k] = None]
        /\ UNCHANGED <<sent, claimed, answered, op, begun, completed>>
    BY <2>a, <1>0, <1>8 DEF Agreed, Raises
  <2>2. m \in Notes /\ note[m].by = k /\ note[m].status # "open" /\ k # None
    BY <2>a, <1>0, <2>1 DEF Agreed, Claimed, TypeInv, Sent
  <2>3. k \notin answered
    BY <2>a, <1>0, <2>1 DEF Agreed, Answered
  <2>4. /\ note'[m].by = k /\ note'[m].status = "pending" /\ \A n \in Notes : n # m => note'[n] = note[n]
    BY <2>a, <1>0, <1>8, <2>2 DEF Agreed, Raises, TypeInv
  <2>5. \A j \in claimed : j # k => sent[j].note # m /\ sent[j].note \in Notes
    BY <2>a, <1>0, <2>2 DEF Agreed, Claimed, TypeInv, Sent
  <2>6. \A j \in claimed' : Claimed(j)'
    BY <2>a, <1>0, <2>1, <2>4, <2>5 DEF Agreed, Claimed
  <2>7. \A j \in answered' : Answered(j)'
    BY <2>a, <1>0, <2>1, <2>3, <2>4, <2>5 DEF Agreed, Answered, Planned, TypeInv
  <2>8. \A n \in Notes : Counted(n)'
    <3>1. Counted(m)'
      BY <2>a, <1>0, <2>1, <2>2, <2>3, <2>4 DEF Agreed, Counted
    <3>2. ASSUME NEW n \in Notes, n # m PROVE Counted(n)'
      BY <2>a, <1>0, <2>1, <2>4, <3>2 DEF Agreed, Counted
    <3> QED
      BY <3>1, <3>2
  <2>9. \A j \in Keys : (pc'[j] # None \/ op'[j] # None) => j \in claimed'
    BY <2>a, <1>0, <2>1 DEF Agreed, TypeInv
  <2> QED
    BY <2>6, <2>7, <2>8, <2>9 DEF Agreed
<1>9. ASSUME NEW k \in Keys, Finish(k) PROVE Agreed'
  <2>1. /\ k \in claimed /\ (sent[k].action = "resolve" \/ op[k] = "done")
        /\ pc' = [pc EXCEPT ![k] = None] /\ UNCHANGED <<sent, claimed, op, begun>>
    BY <1>0, <1>9 DEF Agreed, Finish
  <2>2. CASE k \notin answered /\ Complete(k)
    BY <2>1, <2>2, CompleteStep
  <2>3. CASE UNCHANGED <<note, completed, answered>>
    <3>1. \A j \in Keys : pc'[j] # None => pc[j] # None
      BY <1>0, <2>1 DEF Agreed, TypeInv
    <3> QED
      BY <1>0, <2>1, <2>3, <3>1 DEF Agreed, Claimed, Answered, Counted, Planned, TypeInv
  <2> QED
    BY <1>9, <2>2, <2>3 DEF Agreed, Finish, Overtaken
<1>10. ASSUME NEW k \in Keys, Retry(k) PROVE Agreed'
  <2>1. /\ k \in claimed /\ k \notin answered /\ Complete(k) /\ op[k] = "done" /\ ~Held
        /\ UNCHANGED <<sent, claimed, op, begun, pc>>
    BY <1>10 DEF Agreed, Retry, Outcome
  <2>2. pc[k] # None => Planned(k)
    BY <2>1 DEF Agreed, Held
  <2> QED
    BY <2>1, <2>2, CompleteStep
<1>11. ASSUME Crash PROVE Agreed'
  <2>1. /\ \A k \in Keys : pc'[k] = None
        /\ UNCHANGED <<note, sent, claimed, answered, op, begun, completed>>
    BY <1>11 DEF Agreed, Crash
  <2>2. answered \subseteq Keys
    BY <1>0 DEF Agreed, TypeInv
  <2> QED
    BY <1>0, <2>1, <2>2 DEF Agreed, Claimed, Answered, Counted, Planned
<1>12. ASSUME UNCHANGED vars PROVE Agreed'
  <2>1. UNCHANGED <<note, sent, claimed, answered, op, pc, begun, completed>>
    BY <1>12 DEF Agreed, vars, state
  <2> QED
    BY <1>0, <2>1 DEF Agreed, Claimed, Answered, Counted, Planned
<1>13. Agreed'
  BY <1>2, <1>3, <1>4, <1>5, <1>6, <1>7, <1>8, <1>9, <1>10, <1>11, <1>12 DEF Next
<1> QED
  BY <1>1, <1>13 DEF DecisionInv

\* However often a decision is sent, by whichever clients, and whenever the host dies: one operation
\* at most is begun for a note, and a note that is resolved has that operation's outcome for good.
THEOREM DecidedOnce == Spec => []ResolvedOnce
<1>1. Init => DecisionInv
  BY NoteAssumption DEF Init, DecisionInv, Agreed, TypeInv, Claimed, Answered, Counted
<1>2. DecisionInv /\ [Next]_vars => DecisionInv'
  BY DecisionStep
<1>3. DecisionInv => ResolvedOnce
  <2> SUFFICES ASSUME DecisionInv PROVE ResolvedOnce
    OBVIOUS
  <2>0. TypeInv /\ None \notin Keys
    BY NoteAssumption DEF DecisionInv, Agreed
  <2>1. Recorded
    BY <2>0 DEF DecisionInv, Agreed, TypeInv, Recorded, Receipts, NoteDocument, Source, Counted
  <2>2. ASSUME NEW n \in Notes
        PROVE  /\ begun[n] <= 1 /\ completed[n] <= 1
               /\ note[n].status = "resolved" => sent[note[n].by].action = "resolve" \/ op[note[n].by] = "done"
               /\ \A k \in answered : sent[k].note = n => note[n].status = "resolved" /\ note[n].by = k
    BY <2>0 DEF DecisionInv, Agreed, TypeInv, Counted, Answered, Claimed
  <2> QED
    BY <2>1, <2>2 DEF ResolvedOnce
<1> QED
  BY <1>1, <1>2, <1>3, PTL DEF Spec

----------------------------------------------------------------------------
(* Calls to connectors (ConnectorCalls).                                   *)

Outcomes == {"completed", "failed", "unknown"}
ReportType == [call : Connector!Calls, no : Nat, st : Outcomes]
PendingType == [call : Connector!Calls, report : ReportType \cup {None}]
BridgeType ==
    [pc : {"idle", "got", "run", "post", "confirm", "done", "report", "sent", "event"}, call : Connector!Calls \cup {0},
     mode : {None, "execute", "reconcile"}, out : Outcomes \cup {None}]
CallTypes ==
    /\ call \in [Connector!Calls -> [st : {None, "queued", "claimed"} \cup Outcomes, owner : Bridges \cup {None}]]
    /\ results \subseteq ReportType /\ delivered \subseteq results
    /\ remote \in [Connector!Calls -> {"none", "there", "changed", "sent"}]
    /\ posts \in [Connector!Calls -> Nat] /\ reports \in [Connector!Calls -> Nat]
    /\ pending \in [Bridges -> PendingType \cup {None}] /\ bridge \in [Bridges -> BridgeType]

\* a call belongs to the bridge that claimed it first
Owns(b, c) == call[c].owner = b /\ call[c].st \notin {None, "queued"}
\* its create may still be sent for the first time
Trying(b) == bridge[b].mode = "execute" /\ bridge[b].pc \in {"got", "run", "post"}
Untried(c) == posts[c] = 0 /\ reports[c] = 0 /\ remote[c] = "none"
\* what an outcome says of a create
Told(c, out) ==
    c \in Creates => /\ out = "failed" => remote[c] = "none"
                     /\ out = "completed" => remote[c] \in {"there", "changed"}
\* what is on disk, and in the process that reads and writes it
Disk(b) ==
    pending[b] # None =>
        /\ Owns(b, pending[b].call)
        /\ pending[b].report # None => pending[b].report.call = pending[b].call
Place(b) ==
    /\ bridge[b].pc # "idle" => bridge[b].call \in Connector!Calls /\ Owns(b, bridge[b].call)
    /\ bridge[b].pc = "got" => pending[b] = None
    /\ bridge[b].pc \notin {"idle", "got"} => pending[b] # None /\ pending[b].call = bridge[b].call
    /\ bridge[b].pc \in {"run", "post", "confirm", "done"} => pending[b].report = None
    /\ bridge[b].pc \in {"report", "sent", "event"} => pending[b].report # None
    /\ bridge[b].pc \in {"got", "run"} => bridge[b].mode \in {"execute", "reconcile"}
    /\ bridge[b].pc = "event" => pending[b].report \in delivered
    /\ bridge[b].pc = "post" => bridge[b].mode = "execute" /\ bridge[b].call \in Creates
    /\ bridge[b].pc = "done" => bridge[b].out \in Outcomes /\ Told(bridge[b].call, bridge[b].out)
    /\ Trying(b) => Untried(bridge[b].call)
\* a result was recorded once, is true, and is kept until the core has it
Made(d) == d.call \in Connector!Calls /\ reports[d.call] > 0 /\ Told(d.call, d.st)
Kept(d) == d \in delivered \/ \E b \in Bridges : pending[b] # None /\ pending[b].report = d
Known(c) ==
    /\ call[c].st \in {None, "queued"} => Untried(c)
    /\ posts[c] <= 1
    /\ call[c].st \in Outcomes => reports[c] > 0
    /\ Told(c, call[c].st)
    /\ c \in Creates /\ call[c].st = "completed" =>
        \/ c \in received
        \/ \E b \in Bridges : pending[b] # None /\ pending[b].call = c /\ pending[b].report # None
           /\ pending[b].report.st = "completed"
ConnectorInv ==
    /\ CallTypes
    /\ \A b \in Bridges : Disk(b) /\ Place(b) /\ (pending[b] # None /\ pending[b].report # None => Made(pending[b].report))
    /\ \A d \in results : Made(d) /\ Kept(d)
    /\ \A c \in Connector!Calls : Known(c)

LEMMA PlaceType ==
    ASSUME CallTypes, NEW b \in Bridges,
           NEW at \in {"idle", "got", "run", "post", "confirm", "done", "report", "sent", "event"}, Connector!Goto(b, at)
    PROVE  bridge' \in [Bridges -> BridgeType]
  <1>1. bridge \in [Bridges -> BridgeType] /\ bridge' = [bridge EXCEPT ![b] = [bridge[b] EXCEPT !.pc = at]]
    BY DEF CallTypes, Connector!Goto
  <1>2. [bridge[b] EXCEPT !.pc = at] \in BridgeType
    BY <1>1 DEF BridgeType
  <1> QED
    BY <1>1, <1>2

LEMMA ResultType ==
    ASSUME CallTypes, NEW b \in Bridges, NEW out \in Outcomes, Connector!Result(b, out)
    PROVE  bridge' \in [Bridges -> BridgeType]
  <1>1. bridge \in [Bridges -> BridgeType] /\ bridge' = [bridge EXCEPT ![b] = [bridge[b] EXCEPT !.pc = "done", !.out = out]]
    BY DEF CallTypes, Connector!Result
  <1>2. [bridge[b] EXCEPT !.pc = "done", !.out = out] \in BridgeType
    BY <1>1 DEF BridgeType
  <1> QED
    BY <1>1, <1>2

LEMMA QueueConnectorCallHolds == ASSUME ConnectorInv, NEW c \in Connector!Calls,
    Connector!QueueConnectorCall(c) PROVE ConnectorInv'
  <1>1. CallTypes'
    <2>1. call[c] \in [st : {None, "queued", "claimed"} \cup Outcomes, owner : Bridges \cup {None}]
      BY DEF ConnectorInv, CallTypes
    <2>2. [call[c] EXCEPT !.st = "queued"] \in [st : {None, "queued", "claimed"} \cup Outcomes, owner : Bridges \cup {None}]
      BY <2>1
    <2> QED
      BY <2>2 DEF ConnectorInv, CallTypes, Connector!QueueConnectorCall
  <1>2. (\A x \in Bridges : Disk(x))'
    BY ConnectorAssumption DEF ConnectorInv, Disk, Owns, Connector!QueueConnectorCall
  <1>3. (\A x \in Bridges : Place(x))'
    BY ConnectorAssumption DEF ConnectorInv, Place, Owns, Trying, Untried, Told, Connector!QueueConnectorCall
  <1>4. (\A x \in Bridges : pending[x] # None /\ pending[x].report # None => Made(pending[x].report))'
    BY ConnectorAssumption DEF ConnectorInv, Told, Made, Connector!QueueConnectorCall
  <1>5. (\A x \in results : Made(x) /\ Kept(x))'
    BY ConnectorAssumption DEF ConnectorInv, Told, Made, Kept, Connector!QueueConnectorCall
  <1>6. (\A x \in Connector!Calls : Known(x))'
    BY ConnectorAssumption DEF ConnectorInv, Outcomes, Untried, Told, Known, Connector!QueueConnectorCall
  <1> QED
    BY <1>1, <1>2, <1>3, <1>4, <1>5, <1>6 DEF ConnectorInv

LEMMA ReconcileHolds == ASSUME ConnectorInv, NEW c \in Connector!Calls, Connector!Reconcile(c) PROVE ConnectorInv'
  <1>1. CallTypes'
    <2>1. /\ CallTypes /\ call' = [call EXCEPT ![c].st = "claimed"]
          /\ UNCHANGED <<delivered, results, remote, posts, pending, bridge, reports>>
      BY DEF ConnectorInv, Connector!Reconcile
    <2>2. call' \in [Connector!Calls -> [st : {None, "queued", "claimed"} \cup Outcomes, owner : Bridges \cup {None}]]
      BY <2>1 DEF CallTypes
    <2> QED
      BY <2>1, <2>2 DEF CallTypes, PendingType, BridgeType, ReportType, Outcomes, Connector!Calls
  <1>2. (\A x \in Bridges : Disk(x))'
    BY ConnectorAssumption DEF ConnectorInv, Disk, Owns, Connector!Reconcile
  <1>3. (\A x \in Bridges : Place(x))'
    BY ConnectorAssumption DEF ConnectorInv, Place, Owns, Trying, Untried, Told, Connector!Reconcile
  <1>4. (\A x \in Bridges : pending[x] # None /\ pending[x].report # None => Made(pending[x].report))'
    BY ConnectorAssumption DEF ConnectorInv, Told, Made, Connector!Reconcile
  <1>5. (\A x \in results : Made(x) /\ Kept(x))'
    BY ConnectorAssumption DEF ConnectorInv, Told, Made, Kept, Connector!Reconcile
  <1>6. (\A x \in Connector!Calls : Known(x))'
    BY ConnectorAssumption DEF ConnectorInv, CallTypes, Untried, Told, Known, Connector!Reconcile
  <1> QED
    BY <1>1, <1>2, <1>3, <1>4, <1>5, <1>6 DEF ConnectorInv

LEMMA RemoteMovesHolds == ASSUME ConnectorInv, NEW c \in Connector!Calls, Connector!RemoteMoves(c) PROVE ConnectorInv'
  <1>1. CallTypes'
    BY ConnectorAssumption DEF ConnectorInv, CallTypes, PendingType, BridgeType, ReportType, Outcomes, Connector!Calls,
      Connector!External, Connector!core, Connector!disk, Connector!RemoteMoves
  <1>2. (\A x \in Bridges : Disk(x))'
    BY ConnectorAssumption DEF ConnectorInv, Disk, Owns, Connector!External, Connector!core, Connector!disk,
      Connector!RemoteMoves
  <1>3. (\A x \in Bridges : Place(x))'
    <2> SUFFICES ASSUME NEW x \in Bridges PROVE Place(x)'
      OBVIOUS
    <2>1. \A k \in Connector!Calls : (remote[k] = "none") = (remote'[k] = "none")
      BY DEF ConnectorInv, CallTypes, Connector!RemoteMoves
    <2>2. \A k \in Connector!Calls : remote[k] \in {"there", "changed"} => remote'[k] \in {"there", "changed"}
      BY DEF ConnectorInv, CallTypes, Connector!RemoteMoves
    <2>3. Place(x) /\ UNCHANGED <<bridge, pending, call, posts, reports, delivered>>
      BY DEF ConnectorInv, Connector!External, Connector!core, Connector!disk, Connector!RemoteMoves
    <2>4. (bridge[x].pc = "idle" \/ bridge[x].call \in Connector!Calls)
      BY <2>3 DEF Place
    <2> QED
      BY <2>1, <2>2, <2>3, <2>4 DEF Place, Owns, Told, Trying, Untried
  <1>4. (\A x \in Bridges : pending[x] # None /\ pending[x].report # None => Made(pending[x].report))'
    BY ConnectorAssumption DEF ConnectorInv, CallTypes, Told, Made, Connector!External, Connector!disk, Connector!RemoteMoves
  <1>5. (\A x \in results : Made(x) /\ Kept(x))'
    BY ConnectorAssumption DEF ConnectorInv, CallTypes, Told, Made, Kept, Connector!External, Connector!core, Connector!disk,
      Connector!RemoteMoves
  <1>6. (\A x \in Connector!Calls : Known(x))'
    BY ConnectorAssumption DEF ConnectorInv, CallTypes, Untried, Told, Known, Connector!External, Connector!core,
      Connector!disk, Connector!RemoteMoves
  <1> QED
    BY <1>1, <1>2, <1>3, <1>4, <1>5, <1>6 DEF ConnectorInv

LEMMA ReportHolds == ASSUME ConnectorInv, NEW d \in results, Connector!Report(d) PROVE ConnectorInv'
  <1>1. CallTypes'
    <2>1. d \in ReportType /\ call[d.call] \in [st : {None, "queued", "claimed"} \cup Outcomes, owner : Bridges \cup {None}]
            /\ d.call \in Connector!Calls
      BY DEF ConnectorInv, CallTypes, ReportType
    <2> DEFINE out == IF Connector!Fresh(d) THEN d.st ELSE call[d.call].st
    <2>2. out \in {None, "queued", "claimed"} \cup Outcomes
      BY <2>1 DEF ReportType
    <2>3. call' = [call EXCEPT ![d.call] = [call[d.call] EXCEPT !.st = out]]
      BY <2>1 DEF Connector!Report
    <2> HIDE DEF out
    <2>4. [call[d.call] EXCEPT !.st = out] \in [st : {None, "queued", "claimed"} \cup Outcomes, owner : Bridges \cup {None}]
      BY <2>1, <2>2
    <2>5. call' \in [Connector!Calls -> [st : {None, "queued", "claimed"} \cup Outcomes, owner : Bridges \cup {None}]]
      BY <2>1, <2>3, <2>4 DEF ConnectorInv, CallTypes
    <2> QED
      BY <2>5 DEF ConnectorInv, CallTypes, Connector!Report
  <1>2. (\A x \in Bridges : Disk(x))'
    BY ConnectorAssumption DEF ConnectorInv, CallTypes, ReportType, Outcomes, Disk, Owns, Connector!Report
  <1>3. (\A x \in Bridges : Place(x))'
    BY ConnectorAssumption DEF ConnectorInv, CallTypes, ReportType, Outcomes, Place, Owns, Trying, Untried, Told,
      Connector!Report
  <1>4. (\A x \in Bridges : pending[x] # None /\ pending[x].report # None => Made(pending[x].report))'
    BY ConnectorAssumption DEF ConnectorInv, Told, Made, Connector!Report
  <1>5. (\A x \in results : Made(x) /\ Kept(x))'
    BY ConnectorAssumption DEF ConnectorInv, Told, Made, Kept, Connector!Report
  <1>6. (\A x \in Connector!Calls : Known(x))'
    <2> SUFFICES ASSUME NEW x \in Connector!Calls PROVE Known(x)'
      OBVIOUS
    <2>1. UNCHANGED <<pending, received, reports, remote, posts>> /\ Known(x) /\ d \in ReportType /\ Made(d) /\ Kept(d)
      BY DEF ConnectorInv, CallTypes, Connector!Report
    <2>2. CASE x = d.call /\ d \notin delivered
      <3>1. call'[x].st = d.st /\ d.st \in Outcomes
        BY <2>1, <2>2 DEF ConnectorInv, CallTypes, ReportType, Connector!Fresh, Connector!Report
      <3>2. PICK y \in Bridges : pending[y] # None /\ pending[y].report = d
        BY <2>1, <2>2 DEF Kept
      <3>3. pending[y].call = x /\ d # None
        BY <2>1, <2>2, <3>2, ConnectorAssumption DEF ConnectorInv, Disk, ReportType, Outcomes, Connector!Calls
      <3> QED
        BY <2>1, <2>2, <3>1, <3>2, <3>3, ConnectorAssumption DEF Known, Made, Told, Outcomes
    <2>3. CASE ~(x = d.call /\ d \notin delivered)
      <3>1. call'[x] = call[x]
        BY <2>1, <2>3 DEF ConnectorInv, CallTypes, Connector!Report, Connector!Fresh
      <3> QED
        BY <2>1, <3>1 DEF Known, Told, Untried
    <2> QED
      BY <2>2, <2>3
  <1> QED
    BY <1>1, <1>2, <1>3, <1>4, <1>5, <1>6 DEF ConnectorInv

LEMMA SaveHolds == ASSUME ConnectorInv, NEW b \in Bridges, Connector!Save(b) PROVE ConnectorInv'
  <1>1. CallTypes'
    <2>1. bridge' \in [Bridges -> BridgeType]
      BY PlaceType, ResultType DEF ConnectorInv, Outcomes, Place, Trying, Connector!core, Connector!Is, Connector!Goto,
        Connector!Save
    <2>2. [call |-> bridge[b].call, report |-> None] \in PendingType
      BY DEF ConnectorInv, Place, PendingType, Connector!Is, Connector!Save
    <2>3. pending' \in [Bridges -> PendingType \cup {None}]
      BY <2>2 DEF ConnectorInv, CallTypes, Connector!Save
    <2> QED
      BY <2>1, <2>3 DEF ConnectorInv, CallTypes, Connector!Save, Connector!core
  <1>2. (\A x \in Bridges : Disk(x))'
    BY ConnectorAssumption DEF ConnectorInv, Disk, Place, Owns, Connector!core, Connector!Is, Connector!Save
  <1>3. (\A x \in Bridges : Place(x))'
    <2> SUFFICES ASSUME NEW x \in Bridges PROVE Place(x)'
      OBVIOUS
    <2>1. CASE x = b
      <3>1. pending'[b] = [call |-> bridge[b].call, report |-> None] /\ pending'[b] # None
        BY ConnectorAssumption DEF ConnectorInv, CallTypes, Place, Connector!Is, Connector!Calls, Connector!Save
      <3>2. bridge'[b] = [bridge[b] EXCEPT !.pc = "run"] /\ bridge[b] \in BridgeType /\ bridge[b].pc = "got"
        BY DEF ConnectorInv, CallTypes, Connector!Is, Connector!Goto, Connector!Save
      <3>4. bridge[b].mode \in {"execute", "reconcile"}
        BY <3>2 DEF ConnectorInv, Place
      <3>3. bridge'[b].pc = "run" /\ bridge'[b].mode = bridge[b].mode /\ bridge'[b].call = bridge[b].call
        BY <3>2 DEF BridgeType
      <3> QED
        BY <2>1, <3>1, <3>2, <3>3, <3>4 DEF ConnectorInv, Place, Trying, Untried, Owns, Connector!core, Connector!core,
          Connector!Save, Connector!Save
    <2>2. CASE x # b
      BY <2>2, ConnectorAssumption DEF ConnectorInv, Place, Owns, Trying, Untried, Told, Connector!core, Connector!Goto,
        Connector!Save
    <2> QED
      BY <2>1, <2>2
  <1>4. (\A x \in Bridges : pending[x] # None /\ pending[x].report # None => Made(pending[x].report))'
    BY ConnectorAssumption DEF ConnectorInv, Told, Made, Connector!Save
  <1>5. (\A x \in results : Made(x) /\ Kept(x))'
    BY ConnectorAssumption DEF ConnectorInv, Place, Told, Made, Kept, Connector!core, Connector!Is, Connector!Save
  <1>6. (\A x \in Connector!Calls : Known(x))'
    BY ConnectorAssumption DEF ConnectorInv, Place, Untried, Told, Known, Connector!core, Connector!Is, Connector!Save
  <1> QED
    BY <1>1, <1>2, <1>3, <1>4, <1>5, <1>6 DEF ConnectorInv

LEMMA LoadHolds == ASSUME ConnectorInv, NEW b \in Bridges, Connector!Load(b) PROVE ConnectorInv'
  <1>1. CallTypes'
    BY ConnectorAssumption DEF ConnectorInv, CallTypes, PendingType, BridgeType, ReportType, Outcomes, Connector!Calls,
      Connector!core, Connector!disk, Connector!Is, Connector!Idle, Connector!ModeOnDisk, Connector!Load
  <1>2. (\A x \in Bridges : Disk(x))'
    BY ConnectorAssumption DEF ConnectorInv, Disk, Owns, Connector!core, Connector!disk, Connector!Load
  <1>3. (\A x \in Bridges : Place(x))'
    BY ConnectorAssumption DEF ConnectorInv, CallTypes, PendingType, Disk, Place, Owns, Trying, Untried, Told, Connector!core,
      Connector!disk, Connector!ModeOnDisk, Connector!Load
  <1>4. (\A x \in Bridges : pending[x] # None /\ pending[x].report # None => Made(pending[x].report))'
    BY ConnectorAssumption DEF ConnectorInv, Told, Made, Connector!disk, Connector!Load
  <1>5. (\A x \in results : Made(x) /\ Kept(x))'
    BY ConnectorAssumption DEF ConnectorInv, Told, Made, Kept, Connector!core, Connector!disk, Connector!Load
  <1>6. (\A x \in Connector!Calls : Known(x))'
    BY ConnectorAssumption DEF ConnectorInv, Untried, Told, Known, Connector!core, Connector!disk, Connector!Load
  <1> QED
    BY <1>1, <1>2, <1>3, <1>4, <1>5, <1>6 DEF ConnectorInv

LEMMA RecordHolds == ASSUME ConnectorInv, NEW b \in Bridges, Connector!Record(b) PROVE ConnectorInv'
  <1>1. CallTypes'
    <2>1. bridge' \in [Bridges -> BridgeType]
      BY PlaceType, ResultType DEF ConnectorInv, Outcomes, Place, Trying, Connector!core, Connector!Is, Connector!Goto,
        Connector!Record
    <2> DEFINE r == [call |-> bridge[b].call, no |-> reports[bridge[b].call] + 1, st |-> bridge[b].out]
    <2>2. bridge[b].call \in Connector!Calls /\ bridge[b].out \in Outcomes /\ pending[b] \in PendingType
      BY DEF ConnectorInv, CallTypes, Place, Connector!Is, Connector!Record
    <2>3. r \in ReportType
      BY <2>2 DEF ConnectorInv, CallTypes, ReportType
    <2>4. pending' = [pending EXCEPT ![b] = [pending[b] EXCEPT !.report = r]]
      BY DEF Connector!Record
    <2> HIDE DEF r
    <2>5. [pending[b] EXCEPT !.report = r] \in PendingType
      BY <2>2, <2>3 DEF PendingType
    <2>6. pending' \in [Bridges -> PendingType \cup {None}]
      BY <2>4, <2>5 DEF ConnectorInv, CallTypes
    <2>7. reports' \in [Connector!Calls -> Nat]
      BY <2>2 DEF ConnectorInv, CallTypes, Connector!Record
    <2> QED
      BY <2>1, <2>6, <2>7 DEF ConnectorInv, CallTypes, Connector!Record, Connector!core
  <1>2. (\A x \in Bridges : Disk(x))'
    BY ConnectorAssumption DEF ConnectorInv, Disk, Place, Owns, Connector!core, Connector!Is, Connector!Record
  <1>3. (\A x \in Bridges : Place(x))'
    BY ConnectorAssumption DEF ConnectorInv, CallTypes, PendingType, Outcomes, Place, Owns, Trying, Untried, Told,
      Connector!Calls, Connector!core, Connector!Is, Connector!Goto, Connector!Record
  <1>4. (\A x \in Bridges : pending[x] # None /\ pending[x].report # None => Made(pending[x].report))'
    BY ConnectorAssumption DEF ConnectorInv, CallTypes, Place, Told, Made, Connector!Is, Connector!Record
  <1>5. (\A x \in results : Made(x) /\ Kept(x))'
    BY ConnectorAssumption DEF ConnectorInv, CallTypes, ReportType, Outcomes, Place, Told, Made, Kept, Connector!Calls,
      Connector!core, Connector!Is, Connector!Record
  <1>6. (\A x \in Connector!Calls : Known(x))'
    BY ConnectorAssumption DEF ConnectorInv, CallTypes, Place, Owns, Untried, Told, Known, Connector!core, Connector!Is,
      Connector!Record
  <1> QED
    BY <1>1, <1>2, <1>3, <1>4, <1>5, <1>6 DEF ConnectorInv

LEMMA SendHolds == ASSUME ConnectorInv, NEW b \in Bridges, Connector!Send(b) PROVE ConnectorInv'
  <1>1. CallTypes'
    <2>1. bridge' \in [Bridges -> BridgeType]
      BY PlaceType, ResultType DEF ConnectorInv, Outcomes, Place, Trying, Connector!core, Connector!disk, Connector!Is,
        Connector!Goto, Connector!Send
    <2>2. pending[b].report \in ReportType
      BY DEF ConnectorInv, CallTypes, Place, PendingType, Connector!Is, Connector!Send
    <2> QED
      BY <2>1, <2>2 DEF ConnectorInv, CallTypes, Connector!core, Connector!disk, Connector!Send
  <1>2. (\A x \in Bridges : Disk(x))'
    BY ConnectorAssumption DEF ConnectorInv, Disk, Owns, Connector!core, Connector!disk, Connector!Send
  <1>3. (\A x \in Bridges : Place(x))'
    BY ConnectorAssumption DEF ConnectorInv, Place, Owns, Trying, Untried, Told, Connector!core, Connector!disk, Connector!Is,
      Connector!Goto, Connector!Send
  <1>4. (\A x \in Bridges : pending[x] # None /\ pending[x].report # None => Made(pending[x].report))'
    BY ConnectorAssumption DEF ConnectorInv, Told, Made, Connector!disk, Connector!Send
  <1>5. (\A x \in results : Made(x) /\ Kept(x))'
    BY ConnectorAssumption DEF ConnectorInv, Place, Told, Made, Kept, Connector!core, Connector!disk, Connector!Is,
      Connector!Send
  <1>6. (\A x \in Connector!Calls : Known(x))'
    BY ConnectorAssumption DEF ConnectorInv, Untried, Told, Known, Connector!core, Connector!disk, Connector!Send
  <1> QED
    BY <1>1, <1>2, <1>3, <1>4, <1>5, <1>6 DEF ConnectorInv

LEMMA ReportedHolds == ASSUME ConnectorInv, NEW b \in Bridges, Connector!Reported(b) PROVE ConnectorInv'
  <1>1. CallTypes'
    <2>1. bridge' \in [Bridges -> BridgeType]
      <3>1. CASE Connector!Announces(b)
        BY <3>1, PlaceType DEF ConnectorInv, Connector!Reported
      <3>2. CASE ~Connector!Announces(b)
        <4>1. Connector!Idle \in BridgeType /\ bridge' = [bridge EXCEPT ![b] = Connector!Idle]
          BY <3>2 DEF BridgeType, Connector!Idle, Connector!Reported, Connector!Done
        <4> QED
          BY <4>1 DEF ConnectorInv, CallTypes
      <3> QED
        BY <3>1, <3>2
    <2>2. pending' \in [Bridges -> PendingType \cup {None}]
      BY DEF ConnectorInv, CallTypes, Connector!Reported, Connector!Done
    <2> QED
      BY <2>1, <2>2 DEF ConnectorInv, CallTypes, Connector!Reported, Connector!core
  <1>2. (\A x \in Bridges : Disk(x))'
    BY ConnectorAssumption DEF ConnectorInv, CallTypes, Disk, Owns, Trying, Connector!core, Connector!Done, Connector!Reported
  <1>3. (\A x \in Bridges : Place(x))'
    <2> SUFFICES ASSUME NEW x \in Bridges PROVE Place(x)'
      OBVIOUS
    <2>1. CASE x = b
      BY <2>1, ConnectorAssumption DEF ConnectorInv, CallTypes, PendingType, BridgeType, Place, Owns, Trying, Untried,
        Connector!core, Connector!Is, Connector!Goto, Connector!Done, Connector!Idle, Connector!Reported
    <2>2. CASE x # b
      BY <2>2, ConnectorAssumption DEF ConnectorInv, CallTypes, Place, Owns, Trying, Untried, Told, Connector!core,
        Connector!Goto, Connector!Done, Connector!Reported
    <2> QED
      BY <2>1, <2>2
  <1>4. (\A x \in Bridges : pending[x] # None /\ pending[x].report # None => Made(pending[x].report))'
    <2> SUFFICES ASSUME NEW x \in Bridges, pending'[x] # None, pending'[x].report # None PROVE Made(pending[x].report)'
      OBVIOUS
    <2>1. pending'[x] = pending[x] /\ UNCHANGED <<reports, remote>>
      BY DEF ConnectorInv, CallTypes, Connector!Reported, Connector!Done
    <2> QED
      BY <2>1 DEF ConnectorInv, Made, Told
  <1>5. (\A x \in results : Made(x) /\ Kept(x))'
    <2> SUFFICES ASSUME NEW x \in results PROVE Made(x)' /\ Kept(x)'
      BY DEF Connector!Reported
    <2>1. UNCHANGED <<reports, remote, delivered>> /\ Made(x) /\ Kept(x)
      BY DEF ConnectorInv, Connector!Reported, Connector!core
    <2>2. Made(x)'
      BY <2>1 DEF Made, Told
    <2>3. ASSUME NEW y \in Bridges, pending[y] # None, pending[y].report = x, x \notin delivered
          PROVE  pending'[y] = pending[y]
      BY <2>3 DEF ConnectorInv, CallTypes, Connector!Reported, Connector!Done
    <2> QED
      BY <2>1, <2>2, <2>3 DEF Kept
  <1>6. (\A x \in Connector!Calls : Known(x))'
    <2> SUFFICES ASSUME NEW x \in Connector!Calls PROVE Known(x)'
      OBVIOUS
    <2>1. UNCHANGED <<call, received, posts, reports, remote>> /\ Known(x)
      BY DEF ConnectorInv, Connector!Reported, Connector!core
    <2>2. ASSUME NEW y \in Bridges, pending[y] # None, pending[y].call = x, pending[y].report # None,
            pending[y].report.st = "completed", x \in Creates
          PROVE  pending'[y] = pending[y]
      BY <2>2 DEF ConnectorInv, CallTypes, Place, Connector!Announces, Connector!Is, Connector!Done, Connector!Reported
    <2> QED
      BY <2>1, <2>2 DEF Known, Untried, Told
  <1> QED
    BY <1>1, <1>2, <1>3, <1>4, <1>5, <1>6 DEF ConnectorInv

LEMMA ReceiveHolds == ASSUME ConnectorInv, NEW b \in Bridges, Connector!Receive(b) PROVE ConnectorInv'
  <1>1. CallTypes'
    BY ConnectorAssumption DEF ConnectorInv, CallTypes, BridgeType, Connector!Done, Connector!Idle, Connector!Receive
  <1>2. (\A x \in Bridges : Disk(x))'
    BY ConnectorAssumption DEF ConnectorInv, Disk, Owns, Connector!Done, Connector!Receive
  <1>3. (\A x \in Bridges : Place(x))'
    BY ConnectorAssumption DEF ConnectorInv, CallTypes, Place, Owns, Trying, Untried, Told, Connector!Done, Connector!Idle,
      Connector!Receive
  <1>4. (\A x \in Bridges : pending[x] # None /\ pending[x].report # None => Made(pending[x].report))'
    BY ConnectorAssumption DEF ConnectorInv, Told, Made, Connector!Done, Connector!Receive
  <1>5. (\A x \in results : Made(x) /\ Kept(x))'
    <2> SUFFICES ASSUME NEW x \in results PROVE Made(x)' /\ Kept(x)'
      BY DEF Connector!Receive
    <2>1. Made(x)'
      BY DEF ConnectorInv, Made, Told, Connector!Receive
    <2>2. Kept(x)'
      BY DEF ConnectorInv, Place, Kept, Connector!Is, Connector!Done, Connector!Receive
    <2> QED
      BY <2>1, <2>2
  <1>6. (\A x \in Connector!Calls : Known(x))'
    BY ConnectorAssumption DEF ConnectorInv, Place, Untried, Told, Known, Connector!Is, Connector!Done, Connector!Idle,
      Connector!Receive
  <1> QED
    BY <1>1, <1>2, <1>3, <1>4, <1>5, <1>6 DEF ConnectorInv

LEMMA CrashHolds == ASSUME ConnectorInv, NEW b \in Bridges, Connector!Crash(b) PROVE ConnectorInv'
  <1>1. CallTypes'
    BY ConnectorAssumption DEF ConnectorInv, CallTypes, BridgeType, Connector!core, Connector!disk, Connector!Idle,
      Connector!Crash
  <1>2. (\A x \in Bridges : Disk(x))'
    BY ConnectorAssumption DEF ConnectorInv, Disk, Owns, Connector!core, Connector!disk, Connector!Crash
  <1>3. (\A x \in Bridges : Place(x))'
    BY ConnectorAssumption DEF ConnectorInv, Place, Owns, Trying, Untried, Told, Connector!core, Connector!disk, Connector!Idle,
      Connector!Crash
  <1>4. (\A x \in Bridges : pending[x] # None /\ pending[x].report # None => Made(pending[x].report))'
    BY ConnectorAssumption DEF ConnectorInv, Told, Made, Connector!disk, Connector!Crash
  <1>5. (\A x \in results : Made(x) /\ Kept(x))'
    BY ConnectorAssumption DEF ConnectorInv, Told, Made, Kept, Connector!core, Connector!disk, Connector!Crash
  <1>6. (\A x \in Connector!Calls : Known(x))'
    BY ConnectorAssumption DEF ConnectorInv, Untried, Told, Known, Connector!core, Connector!disk, Connector!Crash
  <1> QED
    BY <1>1, <1>2, <1>3, <1>4, <1>5, <1>6 DEF ConnectorInv

LEMMA RefuseHolds == ASSUME ConnectorInv, NEW b \in Bridges, Connector!Refuse(b) PROVE ConnectorInv'
  <1>1. CallTypes'
    <2>1. bridge' \in [Bridges -> BridgeType]
      BY PlaceType, ResultType DEF ConnectorInv, Outcomes, Connector!GaveUp, Connector!Refuse
    <2> QED
      BY <2>1 DEF ConnectorInv, CallTypes, Connector!External, Connector!core, Connector!disk, Connector!Refuse
  <1>2. (\A x \in Bridges : Disk(x))'
    BY ConnectorAssumption DEF ConnectorInv, Disk, Owns, Connector!External, Connector!core, Connector!disk, Connector!Refuse
  <1>3. (\A x \in Bridges : Place(x))'
    BY ConnectorAssumption DEF ConnectorInv, CallTypes, BridgeType, Place, Owns, Trying, Untried, Told, Connector!External,
      Connector!core, Connector!disk, Connector!Is, Connector!Running, Connector!Result, Connector!GaveUp, Connector!Recovering,
        Connector!Write, Connector!Refuse
  <1>4. (\A x \in Bridges : pending[x] # None /\ pending[x].report # None => Made(pending[x].report))'
    BY ConnectorAssumption DEF ConnectorInv, Told, Made, Connector!External, Connector!disk, Connector!Refuse
  <1>5. (\A x \in results : Made(x) /\ Kept(x))'
    BY ConnectorAssumption DEF ConnectorInv, Told, Made, Kept, Connector!External, Connector!core, Connector!disk,
      Connector!Refuse
  <1>6. (\A x \in Connector!Calls : Known(x))'
    BY ConnectorAssumption DEF ConnectorInv, Untried, Told, Known, Connector!External, Connector!core, Connector!disk,
      Connector!Refuse
  <1> QED
    BY <1>1, <1>2, <1>3, <1>4, <1>5, <1>6 DEF ConnectorInv

LEMMA ReadHolds == ASSUME ConnectorInv, NEW b \in Bridges, Connector!Read(b) PROVE ConnectorInv'
  <1>1. CallTypes'
    <2>1. bridge' \in [Bridges -> BridgeType]
      BY PlaceType, ResultType DEF ConnectorInv, Outcomes, Connector!Read
    <2> QED
      BY <2>1 DEF ConnectorInv, CallTypes, Connector!External, Connector!core, Connector!disk, Connector!Read
  <1>2. (\A x \in Bridges : Disk(x))'
    BY ConnectorAssumption DEF ConnectorInv, Disk, Owns, Connector!External, Connector!core, Connector!disk, Connector!Read
  <1>3. (\A x \in Bridges : Place(x))'
    BY ConnectorAssumption DEF ConnectorInv, CallTypes, BridgeType, Place, Owns, Trying, Untried, Told, Connector!External,
      Connector!core, Connector!disk, Connector!Is, Connector!Running, Connector!Result, Connector!Write, Connector!Read
  <1>4. (\A x \in Bridges : pending[x] # None /\ pending[x].report # None => Made(pending[x].report))'
    BY ConnectorAssumption DEF ConnectorInv, Told, Made, Connector!External, Connector!disk, Connector!Read
  <1>5. (\A x \in results : Made(x) /\ Kept(x))'
    BY ConnectorAssumption DEF ConnectorInv, Told, Made, Kept, Connector!External, Connector!core, Connector!disk,
      Connector!Read
  <1>6. (\A x \in Connector!Calls : Known(x))'
    BY ConnectorAssumption DEF ConnectorInv, Untried, Told, Known, Connector!External, Connector!core, Connector!disk,
      Connector!Read
  <1> QED
    BY <1>1, <1>2, <1>3, <1>4, <1>5, <1>6 DEF ConnectorInv

LEMMA LookHolds == ASSUME ConnectorInv, NEW b \in Bridges, Connector!Look(b) PROVE ConnectorInv'
  <1>1. CallTypes'
    <2>1. bridge' \in [Bridges -> BridgeType]
      BY PlaceType, ResultType DEF ConnectorInv, Outcomes, Connector!Found, Connector!Look
    <2> QED
      BY <2>1 DEF ConnectorInv, CallTypes, PendingType, BridgeType, ReportType, Outcomes, Connector!Calls, Connector!External,
        Connector!core, Connector!disk, Connector!Is, Connector!Running, Connector!Result, Connector!Recovering,
          Connector!Write, Connector!Goto, Connector!Found, Connector!There, Connector!Look
  <1>2. (\A x \in Bridges : Disk(x))'
    BY ConnectorAssumption DEF ConnectorInv, Disk, Owns, Connector!External, Connector!core, Connector!disk, Connector!Look
  <1>3. (\A x \in Bridges : Place(x))'
    <2> SUFFICES ASSUME NEW x \in Bridges PROVE Place(x)'
      OBVIOUS
    <2>1. CASE x = b
      BY <2>1, ConnectorAssumption DEF ConnectorInv, CallTypes, BridgeType, Outcomes, Place, Owns, Trying, Untried, Told,
        Connector!External, Connector!core, Connector!disk, Connector!Is, Connector!Running, Connector!Result,
          Connector!Recovering, Connector!Write, Connector!Goto, Connector!Found, Connector!Look
    <2>2. CASE x # b
      BY <2>2, ConnectorAssumption DEF ConnectorInv, CallTypes, Place, Owns, Trying, Untried, Told, Connector!External,
        Connector!core, Connector!disk, Connector!Result, Connector!Goto, Connector!Found, Connector!Look
    <2> QED
      BY <2>1, <2>2
  <1>4. (\A x \in Bridges : pending[x] # None /\ pending[x].report # None => Made(pending[x].report))'
    BY ConnectorAssumption DEF ConnectorInv, Told, Made, Connector!External, Connector!disk, Connector!Look
  <1>5. (\A x \in results : Made(x) /\ Kept(x))'
    BY ConnectorAssumption DEF ConnectorInv, Told, Made, Kept, Connector!External, Connector!core, Connector!disk,
      Connector!Look
  <1>6. (\A x \in Connector!Calls : Known(x))'
    BY ConnectorAssumption DEF ConnectorInv, Untried, Told, Known, Connector!External, Connector!core, Connector!disk,
      Connector!Look
  <1> QED
    BY <1>1, <1>2, <1>3, <1>4, <1>5, <1>6 DEF ConnectorInv

LEMMA CreateHolds == ASSUME ConnectorInv, NEW b \in Bridges, Connector!Create(b) PROVE ConnectorInv'
  <1>1. CallTypes'
    <2>1. bridge' \in [Bridges -> BridgeType]
      BY PlaceType, ResultType DEF ConnectorInv, Outcomes, Connector!Create
    <2>2. remote \in [Connector!Calls -> {"none", "there", "changed", "sent"}] /\ posts \in [Connector!Calls -> Nat]
      BY DEF ConnectorInv, CallTypes
    <2>3. posts' \in [Connector!Calls -> Nat]
      <3>1. posts' = [posts EXCEPT ![bridge[b].call] = posts[bridge[b].call] + 1] /\ bridge[b].call \in Connector!Calls
        BY DEF ConnectorInv, Place, Connector!Create, Connector!Is
      <3> QED
        BY <2>2, <3>1
    <2>4. remote' \in [Connector!Calls -> {"none", "there", "changed", "sent"}]
      BY <2>2 DEF Connector!Create
    <2> QED
      BY <2>1, <2>3, <2>4 DEF ConnectorInv, CallTypes, Connector!External, Connector!core, Connector!disk, Connector!Create
  <1>2. (\A x \in Bridges : Disk(x))'
    BY ConnectorAssumption DEF ConnectorInv, Disk, Owns, Connector!External, Connector!core, Connector!disk, Connector!Create
  <1>3. (\A x \in Bridges : Place(x))'
    <2> SUFFICES ASSUME NEW x \in Bridges PROVE Place(x)'
      OBVIOUS
    <2>1. CASE x = b
      BY <2>1, ConnectorAssumption DEF ConnectorInv, CallTypes, PendingType, BridgeType, ReportType, Outcomes, Disk, Place,
        Owns, Trying, Untried, Told, Made, Kept, Known, Connector!Calls, Connector!External, Connector!core, Connector!disk,
          Connector!Is, Connector!Goto, Connector!Result, Connector!Create
    <2>2. CASE x # b
      BY <2>2, ConnectorAssumption DEF ConnectorInv, CallTypes, PendingType, BridgeType, ReportType, Outcomes, Disk, Place,
        Owns, Trying, Untried, Told, Made, Kept, Known, Connector!Calls, Connector!External, Connector!core, Connector!disk,
          Connector!Is, Connector!Goto, Connector!Result, Connector!Create
    <2> QED
      BY <2>1, <2>2
  <1>4. (\A x \in Bridges : pending[x] # None /\ pending[x].report # None => Made(pending[x].report))'
    BY ConnectorAssumption DEF ConnectorInv, CallTypes, Disk, Place, Owns, Told, Made, Connector!External, Connector!disk,
      Connector!Is, Connector!Create
  <1>5. (\A x \in results : Made(x) /\ Kept(x))'
    BY ConnectorAssumption DEF ConnectorInv, CallTypes, Place, Trying, Untried, Told, Made, Kept, Connector!External,
      Connector!core, Connector!disk, Connector!Is, Connector!Create
  <1>6. (\A x \in Connector!Calls : Known(x))'
    BY ConnectorAssumption DEF ConnectorInv, CallTypes, Place, Owns, Trying, Untried, Told, Known, Connector!External,
      Connector!core, Connector!disk, Connector!Is, Connector!Create
  <1> QED
    BY <1>1, <1>2, <1>3, <1>4, <1>5, <1>6 DEF ConnectorInv

LEMMA ConfirmHolds == ASSUME ConnectorInv, NEW b \in Bridges, Connector!Confirm(b) PROVE ConnectorInv'
  <1>1. CallTypes'
    <2>1. bridge' \in [Bridges -> BridgeType]
      BY PlaceType, ResultType DEF ConnectorInv, Outcomes, Connector!Found, Connector!Confirm
    <2> QED
      BY <2>1 DEF ConnectorInv, CallTypes, Connector!External, Connector!core, Connector!disk, Connector!Confirm
  <1>2. (\A x \in Bridges : Disk(x))'
    BY ConnectorAssumption DEF ConnectorInv, Disk, Owns, Connector!External, Connector!core, Connector!disk, Connector!Confirm
  <1>3. (\A x \in Bridges : Place(x))'
    <2> SUFFICES ASSUME NEW x \in Bridges PROVE Place(x)'
      OBVIOUS
    <2>1. CASE x = b
      BY <2>1, ConnectorAssumption DEF ConnectorInv, CallTypes, PendingType, BridgeType, Place, Owns, Trying, Told, Made,
        Connector!External, Connector!core, Connector!disk, Connector!Is, Connector!Result, Connector!Found, Connector!There,
          Connector!Confirm
    <2>2. CASE x # b
      BY <2>2, ConnectorAssumption DEF ConnectorInv, CallTypes, PendingType, BridgeType, ReportType, Outcomes, Disk, Place,
        Owns, Trying, Untried, Told, Made, Kept, Known, Connector!Calls, Connector!External, Connector!core, Connector!disk,
          Connector!Is, Connector!Result, Connector!Found, Connector!There, Connector!Confirm
    <2> QED
      BY <2>1, <2>2
  <1>4. (\A x \in Bridges : pending[x] # None /\ pending[x].report # None => Made(pending[x].report))'
    BY ConnectorAssumption DEF ConnectorInv, Told, Made, Connector!External, Connector!disk, Connector!Confirm
  <1>5. (\A x \in results : Made(x) /\ Kept(x))'
    BY ConnectorAssumption DEF ConnectorInv, Told, Made, Kept, Connector!External, Connector!core, Connector!disk,
      Connector!Confirm
  <1>6. (\A x \in Connector!Calls : Known(x))'
    BY ConnectorAssumption DEF ConnectorInv, Untried, Told, Known, Connector!External, Connector!core, Connector!disk,
      Connector!Confirm
  <1> QED
    BY <1>1, <1>2, <1>3, <1>4, <1>5, <1>6 DEF ConnectorInv

LEMMA LeastIsIn == ASSUME NEW S \in SUBSET Nat, S # {} PROVE Connector!Min(S) \in S
  <1> DEFINE R == OpToRel(<, Nat)
  <1>1. IsWellFoundedOn(R, Nat)
    BY NatLessThanWellFounded
  <1>2. PICK d \in S : \A e \in S : <<e, d>> \notin R
    <2> HIDE DEF R
    <2> QED
      BY <1>1, WFMin
  <1>3. \A y \in S : d <= y
    <2>1. \A y \in S : ~(y < d)
      BY <1>2 DEF OpToRel
    <2> QED
      BY <2>1
  <1> QED
    BY <1>3 DEF Connector!Min

\* a queued call nothing was done for is executed; what was claimed before is reconciled
LEMMA ClaimHolds == ASSUME ConnectorInv, NEW b \in Bridges, Connector!Claim(b) PROVE ConnectorInv'
  <1>1. PICK c \in Connector!Calls : c = Connector!Claimable(b) /\ (c \in Connector!Mine(b) \/ c \in Connector!Queued)
    <2>1. Connector!Mine(b) \in SUBSET Nat /\ Connector!Queued \in SUBSET Nat
      BY DEF Connector!Mine, Connector!Queued, Connector!Calls
    <2>2. Connector!Mine(b) # {} \/ Connector!Queued # {}
      BY DEF Connector!Claim
    <2>3. Connector!Claimable(b) \in Connector!Mine(b) \cup Connector!Queued
      BY <2>1, <2>2, LeastIsIn DEF Connector!Claimable
    <2> QED
      BY <2>3 DEF Connector!Mine, Connector!Queued
  <1>4. PICK mode \in {"execute", "reconcile"} : mode = IF c \in Connector!Mine(b) THEN "reconcile" ELSE "execute"
    OBVIOUS
  <1>2. /\ call' = [call EXCEPT ![c] = [st |-> "claimed", owner |-> b]]
        /\ bridge' = [bridge EXCEPT ![b] = [pc |-> "got", call |-> c, mode |-> mode, out |-> None]]
        /\ UNCHANGED <<delivered, results, received, remote, posts, pending, reports>>
        /\ bridge[b].pc = "idle" /\ pending[b] = None
    BY <1>1, <1>4 DEF Connector!Claim, Connector!Is
  <1>3. IF c \in Connector!Mine(b) THEN call[c].st = "claimed" /\ call[c].owner = b
        ELSE call[c].st = "queued" /\ Untried(c)
    BY <1>1, ConnectorAssumption DEF ConnectorInv, Known, Connector!Mine, Connector!Queued
  <1>5. CallTypes'
    <2>1. [pc |-> "got", call |-> c, mode |-> mode, out |-> None] \in BridgeType
      BY <1>1, <1>4 DEF BridgeType
    <2> QED
      BY <1>1, <1>2, <2>1 DEF ConnectorInv, CallTypes
  <1>6. bridge'[b] = [pc |-> "got", call |-> c, mode |-> mode, out |-> None]
          /\ (\A x \in Bridges \ {b} : bridge'[x] = bridge[x])
    BY <1>2 DEF ConnectorInv, CallTypes
  <1>7. call'[c] = [st |-> "claimed", owner |-> b] /\ \A k \in Connector!Calls \ {c} : call'[k] = call[k]
    BY <1>1, <1>2 DEF ConnectorInv, CallTypes
  <1>8. \A x \in Bridges, k \in Connector!Calls : Owns(x, k) => Owns(x, k)'
    BY <1>1, <1>3, <1>7, ConnectorAssumption DEF Owns
  <1>9. Owns(b, c)'
    BY <1>7, ConnectorAssumption DEF Owns
  <1>10. (\A x \in Bridges : Disk(x))'
    <2> SUFFICES ASSUME NEW x \in Bridges PROVE Disk(x)'
      OBVIOUS
    <2>1. pending[x] # None => pending[x].call \in Connector!Calls
      BY DEF ConnectorInv, CallTypes, PendingType
    <2> QED
      BY <1>2, <1>8, <2>1 DEF ConnectorInv, Disk
  <1>11. (\A x \in Bridges : Place(x))'
    <2> SUFFICES ASSUME NEW x \in Bridges PROVE Place(x)'
      OBVIOUS
    <2>1. CASE x = b
      BY <1>1, <1>2, <1>3, <1>4, <1>6, <1>9, <2>1 DEF Place, Trying, Untried
    <2>2. CASE x # b
      BY <1>2, <1>6, <1>8, <2>2 DEF ConnectorInv, Place, Trying, Untried, Told
    <2> QED
      BY <2>1, <2>2
  <1>12. (\A x \in Bridges : pending[x] # None /\ pending[x].report # None => Made(pending[x].report))'
         /\ (\A x \in results : Made(x) /\ Kept(x))'
    BY <1>2 DEF ConnectorInv, Made, Kept, Told
  <1>13. (\A x \in Connector!Calls : Known(x))'
    BY <1>2, <1>7, ConnectorAssumption DEF ConnectorInv, Known, Untried, Told, Outcomes
  <1> QED
    BY <1>5, <1>10, <1>11, <1>12, <1>13 DEF ConnectorInv

LEMMA ConnectorStart == ASSUME Connector!Init PROVE ConnectorInv
  <1>1. /\ call = [c \in Connector!Calls |-> [st |-> None, owner |-> None]] /\ results = {} /\ delivered = {}
        /\ remote = [c \in Connector!Calls |-> "none"] /\ posts = [c \in Connector!Calls |-> 0]
        /\ reports = [c \in Connector!Calls |-> 0] /\ pending = [b \in Bridges |-> None]
        /\ bridge = [b \in Bridges |-> Connector!Idle]
    BY DEF Connector!Init
  <1>2. Connector!Idle \in BridgeType /\ Connector!Idle.pc = "idle"
    BY DEF Connector!Idle, BridgeType
  <1> HIDE DEF Connector!Idle
  <1>3. CallTypes
    BY <1>1, <1>2 DEF CallTypes
  <1>4. \A b \in Bridges : Disk(b) /\ Place(b) /\ pending[b] = None
    BY <1>1, <1>2 DEF Disk, Place, Trying
  <1>5. \A c \in Connector!Calls : Known(c)
    BY <1>1, ConnectorAssumption DEF Known, Untried, Told, Outcomes
  <1> QED
    BY <1>1, <1>3, <1>4, <1>5 DEF ConnectorInv

LEMMA ConnectorStep == ASSUME ConnectorInv, Connector!Next PROVE ConnectorInv'
  BY QueueConnectorCallHolds, ReconcileHolds, RemoteMovesHolds, ReportHolds, ClaimHolds, SaveHolds, LoadHolds, RecordHolds,
     SendHolds, ReportedHolds, ReceiveHolds, CrashHolds, RefuseHolds, ReadHolds, LookHolds, CreateHolds, ConfirmHolds
  DEF Connector!Next

LEMMA ConnectorStutters == ASSUME ConnectorInv, UNCHANGED connector PROVE ConnectorInv'
  BY DEF connector, ConnectorInv, CallTypes, Disk, Place, Made, Kept, Known, Owns, Trying, Untried, Told

(* A create is sent to the provider once at most, and what a settled call says is true of the  *)
(* calendar: for any number of calls, bridges, crashes and reconciliations, whatever is lost   *)
(* or late (connector bridge, google_calendar.py, queue_connector_call and its results).       *)
THEOREM CallsAreTold == RequestsSpec => []CallsHold
  <1>1. RequestsInit => ConnectorInv
    BY ConnectorStart DEF RequestsInit
  <1>2. ConnectorInv /\ [RequestsNext]_<<part, vars, routing, connector>> => ConnectorInv'
    BY ConnectorStep, ConnectorStutters DEF RequestsNext
  <1>3. ConnectorInv => CallsHold
    <2> SUFFICES ASSUME ConnectorInv PROVE CallsHold
      OBVIOUS
    <2>1. Connector!WrittenOnce
      BY DEF ConnectorInv, Known, Connector!WrittenOnce
    <2>2. Connector!SettledTruly
      BY ConnectorAssumption DEF ConnectorInv, Known, Told, Connector!SettledTruly, Connector!Calls
    <2> QED
      BY <2>1, <2>2 DEF CallsHold, Connector!CallsHold
  <1> QED
    BY <1>1, <1>2, <1>3, PTL DEF RequestsSpec

----------------------------------------------------------------------------
(* A routing lab (RoutingLab).                                             *)

LabType == [version : Nat, pi : BOOLEAN, project : BOOLEAN]
ChangeType == {None, "pending", "dispatching", "failed", "waiting", "unknown"}
FallbackType ==
    [st : {None, "running", "completed", "failed", "interrupted"}, cand : Recipes \cup {None}, change : ChangeType,
     project : BOOLEAN, cases : SUBSET Requests, replay : Replays \cup {None}]
RequestType ==
    [st : {None, "queued", "routing", "escalated", "completed"}, wants : {None, "jev", "slow"} \cup Recipes,
     snap : SUBSET Recipes, src : {None, "rule", "jev", "system2"}, sel : Recipes \cup {None},
     labelled : BOOLEAN, fb : FallbackType]
ReplayType ==
    [st : {None, "pending", "passed", "failed"}, cand : Recipes \cup {None}, version : Nat, snap : SUBSET (Recipes \cup {None}),
     cases : SUBSET Requests, judged : SUBSET Requests, by : Requests \cup {None}]
LooksAt == [q : Requests, at : {"queue", "mark", "judge", "finish"}, sel : Recipes \cup {None}]
Judges == [at : {"replay"}, p : Replays, judged : SUBSET Requests]
RoutingTypes ==
    /\ lab \in LabType /\ recipe \in [Recipes -> {None, "candidate", "active", "paused"}]
    /\ request \in [Requests -> RequestType] /\ replay \in [Replays -> ReplayType]
    /\ answer \in [Routing!Calls -> {None, "queued", "expected", "other"} \cup Recipes]
    /\ local \in [Advancers -> {None} \cup LooksAt \cup Judges]
    /\ change \in [Requests -> {None, "verify", "send", "plan"}] /\ goals \in [Requests -> Nat]

\* a replay of the catalogue in force has tested it with its candidate and nothing else; one that
\* has passed was answered as expected throughout
Tested(p) ==
    /\ replay[p].version <= lab.version
    /\ replay[p].st # None /\ replay[p].version = lab.version => replay[p].snap = Routing!Active \cup {replay[p].cand}
    /\ replay[p].st = "passed" => \A q \in replay[p].cases : answer[<<p, q>>] = "expected"
\* whoever works on a request chooses from the catalogue it was made with
Chooses(a) ==
    local[a] \in LooksAt => /\ request[local[a].q].st # None
                            /\ local[a].sel \in request[local[a].q].snap \cup {None}
\* a request that a recipe answered names it, and the fallback works on what nobody has answered
Named(q) ==
    /\ request[q].st = "completed" /\ request[q].src \in {"rule", "jev"} => request[q].sel \in Recipes
    /\ request[q].fb.st = "running" => request[q].st = "escalated"
\* how far the handoff of a request is, and what the other Project has of it by then
Handed(q) ==
    /\ goals[q] <= 1
    /\ change[q] # None => request[q].fb.change = "dispatching" /\ goals[q] = (IF change[q] = "plan" THEN 1 ELSE 0)
    /\ request[q].fb.st # "completed" => request[q].fb.change = None
    /\ request[q].fb.change \in {None, "pending", "failed"} => goals[q] = 0
    /\ request[q].fb.change = "waiting" => goals[q] = 1
RoutingInv ==
    /\ RoutingTypes
    /\ \A p \in Replays : Tested(p)
    /\ \A a \in Advancers : Chooses(a)
    /\ \A q \in Requests : Named(q) /\ Handed(q)

LEMMA SaveGives ==
    ASSUME RoutingTypes, NEW q \in Requests, NEW fields, Routing!Save(q, fields)
    PROVE  /\ request' = [request EXCEPT ![q] = request'[q]] /\ \A o \in Requests \ {q} : request'[o] = request[o]
           /\ request'[q] = [st |-> request'[q].st, wants |-> request'[q].wants, snap |-> request'[q].snap,
                            src |-> request'[q].src, sel |-> request'[q].sel, labelled |-> request'[q].labelled,
                              fb |-> request'[q].fb]
           /\ request'[q].st = IF "st" \in DOMAIN fields THEN fields.st ELSE request[q].st
           /\ request'[q].wants = IF "wants" \in DOMAIN fields THEN fields.wants ELSE request[q].wants
           /\ request'[q].snap = IF "snap" \in DOMAIN fields THEN fields.snap ELSE request[q].snap
           /\ request'[q].src = IF "src" \in DOMAIN fields THEN fields.src ELSE request[q].src
           /\ request'[q].sel = IF "sel" \in DOMAIN fields THEN fields.sel ELSE request[q].sel
           /\ request'[q].labelled = IF "labelled" \in DOMAIN fields THEN fields.labelled ELSE request[q].labelled
           /\ request'[q].fb = IF "fb" \in DOMAIN fields THEN fields.fb ELSE request[q].fb
  <1>1. DOMAIN Routing!Blank = {"st", "wants", "snap", "src", "sel", "labelled", "fb"}
    BY DEF Routing!Blank
  <1>2. request' = [request EXCEPT ![q] = [f \in {"st", "wants", "snap", "src", "sel", "labelled", "fb"} |->
                       IF f \in DOMAIN fields THEN fields[f] ELSE request[q][f]]]
    BY <1>1 DEF Routing!Save
  <1> QED
    BY <1>2 DEF RoutingTypes

LEMMA SaveTyped ==
    ASSUME RoutingTypes, NEW q \in Requests, NEW fields, Routing!Save(q, fields),
           request'[q].st \in {None, "queued", "routing", "escalated", "completed"},
           request'[q].wants \in {None, "jev", "slow"} \cup Recipes,
           request'[q].snap \in SUBSET Recipes,
           request'[q].src \in {None, "rule", "jev", "system2"},
           request'[q].sel \in Recipes \cup {None},
           request'[q].labelled \in BOOLEAN,
           request'[q].fb \in FallbackType
    PROVE  request' \in [Requests -> RequestType]
  <1>1. request'[q] \in RequestType
    <2>1. request'[q] = [st |-> request'[q].st, wants |-> request'[q].wants, snap |-> request'[q].snap,
                            src |-> request'[q].src, sel |-> request'[q].sel, labelled |-> request'[q].labelled,
                              fb |-> request'[q].fb]
      BY SaveGives
    <2> QED
      BY <2>1 DEF RequestType
  <1> QED
    BY <1>1, SaveGives DEF RoutingTypes

LEMMA FbSetGives ==
    ASSUME RoutingTypes, NEW q \in Requests, NEW fields, Routing!FbSet(q, fields)
    PROVE  /\ request' = [request EXCEPT ![q] = request'[q]] /\ \A o \in Requests \ {q} : request'[o] = request[o]
           /\ request'[q] = [st |-> request'[q].st, wants |-> request'[q].wants, snap |-> request'[q].snap,
                            src |-> request'[q].src, sel |-> request'[q].sel, labelled |-> request'[q].labelled,
                              fb |-> request'[q].fb]
           /\ request'[q].st = request[q].st
           /\ request'[q].wants = request[q].wants
           /\ request'[q].snap = request[q].snap
           /\ request'[q].src = request[q].src
           /\ request'[q].sel = request[q].sel
           /\ request'[q].labelled = request[q].labelled
           /\ request'[q].fb = [st |-> request'[q].fb.st, cand |-> request'[q].fb.cand, change |-> request'[q].fb.change,
                               project |-> request'[q].fb.project, cases |-> request'[q].fb.cases,
                                 replay |-> request'[q].fb.replay]
           /\ request'[q].fb.st = IF "st" \in DOMAIN fields THEN fields.st ELSE request[q].fb.st
           /\ request'[q].fb.cand = IF "cand" \in DOMAIN fields THEN fields.cand ELSE request[q].fb.cand
           /\ request'[q].fb.change = IF "change" \in DOMAIN fields THEN fields.change ELSE request[q].fb.change
           /\ request'[q].fb.project = IF "project" \in DOMAIN fields THEN fields.project ELSE request[q].fb.project
           /\ request'[q].fb.cases = IF "cases" \in DOMAIN fields THEN fields.cases ELSE request[q].fb.cases
           /\ request'[q].fb.replay = IF "replay" \in DOMAIN fields THEN fields.replay ELSE request[q].fb.replay
  <1>1. DOMAIN Routing!NoFallback = {"st", "cand", "change", "project", "cases", "replay"}
    BY DEF Routing!NoFallback
  <1> DEFINE new == [f \in {"st", "cand", "change", "project", "cases",
        "replay"} |-> IF f \in DOMAIN fields THEN fields[f] ELSE request[q].fb[f]]
             put == [fb |-> new]
  <1>2. Routing!Save(q, put)
    BY <1>1 DEF Routing!FbSet, Routing!Fallback
  <1>3. DOMAIN put = {"fb"} /\ put.fb = new
    OBVIOUS
  <1> HIDE DEF put
  <1>4. request'[q].fb = new
    BY <1>2, <1>3, SaveGives
  <1>5. /\ request' = [request EXCEPT ![q] = request'[q]] /\ \A o \in Requests \ {q} : request'[o] = request[o]
        /\ request'[q] = [st |-> request'[q].st, wants |-> request'[q].wants, snap |-> request'[q].snap,
                            src |-> request'[q].src, sel |-> request'[q].sel, labelled |-> request'[q].labelled,
                              fb |-> request'[q].fb]
        /\ request'[q].st = request[q].st /\ request'[q].wants = request[q].wants /\ request'[q].snap = request[q].snap
           /\ request'[q].src = request[q].src /\ request'[q].sel = request[q].sel /\ request'[q].labelled = request[q].labelled
    BY <1>2, <1>3, SaveGives
  <1> QED
    BY <1>4, <1>5

LEMMA FbTyped ==
    ASSUME RoutingTypes, NEW q \in Requests, NEW fields, Routing!FbSet(q, fields), request'[q].fb \in FallbackType
    PROVE  request' \in [Requests -> RequestType]
  <1>1. request[q] \in RequestType
    BY DEF RoutingTypes
  <1>2. request'[q] \in RequestType
    <2>1. request'[q] = [st |-> request'[q].st, wants |-> request'[q].wants, snap |-> request'[q].snap,
                            src |-> request'[q].src, sel |-> request'[q].sel, labelled |-> request'[q].labelled,
                              fb |-> request'[q].fb]
      BY FbSetGives
    <2>2. request'[q].st = request[q].st /\ request'[q].wants = request[q].wants /\ request'[q].snap = request[q].snap
            /\ request'[q].src = request[q].src /\ request'[q].sel = request[q].sel
               /\ request'[q].labelled = request[q].labelled
      BY FbSetGives
    <2> QED
      BY <1>1, <2>1, <2>2 DEF RequestType
  <1> QED
    BY <1>2, FbSetGives DEF RoutingTypes

LEMMA TestedKept ==
    ASSUME RoutingInv, UNCHANGED <<lab, replay, answer>>, Routing!Active' = Routing!Active
    PROVE  \A p \in Replays : Tested(p)'
  BY DEF RoutingInv, Tested

LEMMA TestedBumped ==
    ASSUME RoutingInv, UNCHANGED <<replay, answer>>, Routing!Bumped
    PROVE  /\ lab' \in LabType
           /\ \A p \in Replays : Tested(p)'
  <1>1. lab.version \in Nat /\ lab'.version = lab.version + 1 /\ lab' \in LabType
    BY DEF RoutingInv, RoutingTypes, LabType, Routing!Bumped
  <1>2. ASSUME NEW p \in Replays PROVE Tested(p)'
    <2>1. replay[p].version \in Nat /\ replay[p].version <= lab.version
      BY DEF RoutingInv, RoutingTypes, ReplayType, Tested
    <2> QED
      BY <1>1, <2>1 DEF RoutingInv, Tested
  <1> QED
    BY <1>1, <1>2

LEMMA RequestMoves ==
    ASSUME RoutingInv, NEW q \in Requests, RoutingTypes', \A p \in Replays : Tested(p)',
           \A a \in Advancers : local'[a] \in LooksAt =>
               local[a] \in LooksAt /\ local'[a].q = local[a].q /\ local'[a].sel = local[a].sel,
           request[q].st # None => request'[q].st # None /\ request'[q].snap = request[q].snap,
           \A o \in Requests \ {q} : request'[o] = request[o] /\ change'[o] = change[o] /\ goals'[o] = goals[o],
           Named(q)', Handed(q)'
    PROVE  RoutingInv'
  <1>1. ASSUME NEW a \in Advancers PROVE Chooses(a)'
    <2> SUFFICES ASSUME local'[a] \in LooksAt
                 PROVE  request'[local'[a].q].st # None /\ local'[a].sel \in request'[local'[a].q].snap \cup {None}
      BY DEF Chooses
    <2>1. local[a].q \in Requests /\ request[local[a].q].st # None /\ local[a].sel \in request[local[a].q].snap \cup {None}
      BY DEF RoutingInv, Chooses, LooksAt
    <2> QED
      BY <2>1
  <1>2. ASSUME NEW o \in Requests PROVE Named(o)' /\ Handed(o)'
    <2>1. CASE o = q
      BY <2>1
    <2>2. CASE o # q
      BY <2>2 DEF RoutingInv, Named, Handed
    <2> QED
      BY <2>1, <2>2
  <1> QED
    BY <1>1, <1>2 DEF RoutingInv

LEMMA SavedHolds ==
    ASSUME RoutingInv, NEW q \in Requests, NEW fields, Routing!Save(q, fields), "fb" \notin DOMAIN fields,
           request'[q].st \in {None, "queued", "routing", "escalated", "completed"},
           request'[q].wants \in {None, "jev", "slow"} \cup Recipes, request'[q].snap \in SUBSET Recipes,
           request'[q].src \in {None, "rule", "jev", "system2"}, request'[q].sel \in Recipes \cup {None},
           request'[q].labelled \in BOOLEAN,
           request[q].st # None => request'[q].st # None /\ "snap" \notin DOMAIN fields,
           request'[q].st = "completed" /\ request'[q].src \in {"rule", "jev"} => request'[q].sel \in Recipes,
           request[q].fb.st = "running" => request'[q].st = "escalated",
           lab' \in LabType, recipe' \in [Recipes -> {None, "candidate", "active", "paused"}],
           local' \in [Advancers -> {None} \cup LooksAt \cup Judges],
           \A p \in Replays : Tested(p)', UNCHANGED <<replay, answer, change, goals>>,
           \A a \in Advancers : local'[a] \in LooksAt =>
               local[a] \in LooksAt /\ local'[a].q = local[a].q /\ local'[a].sel = local[a].sel
    PROVE  RoutingInv'
  <1>0. RoutingTypes /\ request[q] \in RequestType
    BY DEF RoutingInv, RoutingTypes
  <1>1. /\ request' = [request EXCEPT ![q] = request'[q]] /\ \A o \in Requests \ {q} : request'[o] = request[o]
        /\ request'[q].fb = request[q].fb
        /\ "snap" \notin DOMAIN fields => request'[q].snap = request[q].snap
    BY <1>0, SaveGives
  <1>2. RoutingTypes'
    <2>1. request'[q].fb \in FallbackType
      BY <1>0, <1>1 DEF RequestType
    <2>2. request' \in [Requests -> RequestType]
      BY <1>0, <2>1, SaveTyped
    <2> QED
      BY <1>0, <2>2 DEF RoutingTypes, Routing!Calls
  <1>3. Named(q)' /\ Handed(q)'
    BY <1>1 DEF RoutingInv, Named, Handed
  <1> QED
    BY <1>1, <1>2, <1>3, RequestMoves

LEMMA FbHolds ==
    ASSUME RoutingInv, NEW q \in Requests, NEW fields, Routing!FbSet(q, fields),
           request'[q].fb.st \in {None, "running", "completed", "failed", "interrupted"},
           request'[q].fb.cand \in Recipes \cup {None}, request'[q].fb.change \in ChangeType,
           request'[q].fb.project \in BOOLEAN, request'[q].fb.cases \in SUBSET Requests,
           request'[q].fb.replay \in Replays \cup {None},
           UNCHANGED <<lab, recipe, replay, answer, local>>,
           change' \in [Requests -> {None, "verify", "send", "plan"}], goals' \in [Requests -> Nat],
           \A o \in Requests \ {q} : change'[o] = change[o] /\ goals'[o] = goals[o],
           request'[q].fb.st = "running" => request[q].st = "escalated", Handed(q)'
    PROVE  RoutingInv'
  <1>0. RoutingTypes
    BY DEF RoutingInv
  <1>1. /\ \A o \in Requests \ {q} : request'[o] = request[o]
        /\ request'[q].st = request[q].st /\ request'[q].snap = request[q].snap /\ request'[q].src = request[q].src
        /\ request'[q].sel = request[q].sel
    BY <1>0, FbSetGives
  <1>2. request' \in [Requests -> RequestType]
    <2>1. request'[q].fb = [st |-> request'[q].fb.st, cand |-> request'[q].fb.cand, change |-> request'[q].fb.change,
                            project |-> request'[q].fb.project, cases |-> request'[q].fb.cases,
                              replay |-> request'[q].fb.replay]
      BY <1>0, FbSetGives
    <2>2. request'[q].fb \in FallbackType
      BY <2>1 DEF FallbackType
    <2> QED
      BY <1>0, <2>2, FbTyped
  <1>3. RoutingTypes'
    BY <1>0, <1>2 DEF RoutingTypes, Routing!Calls
  <1>4. Named(q)'
    BY <1>1 DEF RoutingInv, Named
  <1>5. \A p \in Replays : Tested(p)'
    BY TestedKept DEF Routing!Active
  <1> QED
    BY <1>1, <1>3, <1>4, <1>5, RequestMoves

LEMMA SubmitHolds ==
    ASSUME RoutingInv, NEW q \in Requests, NEW w \in {"jev", "slow"} \cup Recipes, Routing!Submit(q, w)
    PROVE  RoutingInv'
  <1> DEFINE f == [st |-> "queued", wants |-> w, snap |-> Routing!Active]
  <1>0. RoutingTypes /\ request[q] \in RequestType
    BY DEF RoutingInv, RoutingTypes
  <1>1. DOMAIN f = {"st", "wants", "snap"} /\ f.st = "queued" /\ f.wants = w /\ f.snap \in SUBSET Recipes
    BY DEF Routing!Active
  <1>2. Routing!Save(q, f) /\ request[q].st = None /\ UNCHANGED <<lab, recipe, replay, answer, local, change, goals>>
    BY DEF Routing!Submit, Routing!fast, Routing!slow
  <1> HIDE DEF f
  <1>3. /\ request'[q].st = "queued" /\ request'[q].wants = w /\ request'[q].snap \in SUBSET Recipes
        /\ request'[q].src = request[q].src /\ request'[q].sel = request[q].sel /\ request'[q].labelled = request[q].labelled
    <2>1. /\ request'[q].st = IF "st" \in DOMAIN f THEN f.st ELSE request[q].st
          /\ request'[q].wants = IF "wants" \in DOMAIN f THEN f.wants ELSE request[q].wants
          /\ request'[q].snap = IF "snap" \in DOMAIN f THEN f.snap ELSE request[q].snap
          /\ request'[q].src = IF "src" \in DOMAIN f THEN f.src ELSE request[q].src
          /\ request'[q].sel = IF "sel" \in DOMAIN f THEN f.sel ELSE request[q].sel
          /\ request'[q].labelled = IF "labelled" \in DOMAIN f THEN f.labelled ELSE request[q].labelled
      BY <1>0, <1>2, SaveGives
    <2> QED
      BY <1>1, <2>1
  <1>4. \A p \in Replays : Tested(p)'
    BY <1>2, TestedKept DEF Routing!Active
  <1>5. request[q].fb.st # "running"
    BY <1>2, RoutingAssumption DEF RoutingInv, Named
  <1>6. /\ request'[q].src \in {None, "rule", "jev", "system2"} /\ request'[q].sel \in Recipes \cup {None}
        /\ request'[q].labelled \in BOOLEAN
    BY <1>0, <1>3 DEF RequestType
  <1>7. /\ lab' \in LabType /\ recipe' \in [Recipes -> {None, "candidate", "active", "paused"}]
        /\ local' \in [Advancers -> {None} \cup LooksAt \cup Judges] /\ local' = local
        /\ UNCHANGED <<replay, answer, change, goals>>
    BY <1>0, <1>2 DEF RoutingTypes
  <1>8. "fb" \notin DOMAIN f /\ (request'[q].st = "completed" => request'[q].sel \in Recipes)
    BY <1>1, <1>3
  <1> QED
    BY <1>2, <1>3, <1>4, <1>5, <1>6, <1>7, <1>8, SavedHolds

LEMMA ResolveHolds == ASSUME RoutingInv, NEW q \in Requests, Routing!Resolve(q) PROVE RoutingInv'
  <1> DEFINE f == [st |-> "completed", src |-> "system2"]
  <1>0. RoutingTypes /\ request[q] \in RequestType
    BY DEF RoutingInv, RoutingTypes
  <1>1. DOMAIN f = {"st", "src"} /\ f.st = "completed" /\ f.src = "system2"
    OBVIOUS
  <1>2. Routing!Save(q, f) /\ request[q].fb.st # "running" /\ UNCHANGED <<lab, recipe, replay, answer, local, change, goals>>
    BY DEF Routing!Resolve, Routing!fast, Routing!slow, Routing!Running, Routing!Fallback
  <1> HIDE DEF f
  <1>3. /\ request'[q].st = "completed" /\ request'[q].src = "system2" /\ request'[q].wants = request[q].wants
        /\ request'[q].snap = request[q].snap /\ request'[q].sel = request[q].sel /\ request'[q].labelled = request[q].labelled
    BY <1>0, <1>1, <1>2, SaveGives
  <1>4. \A p \in Replays : Tested(p)'
    BY <1>2, TestedKept DEF Routing!Active
  <1> QED
    BY <1>0, <1>1, <1>2, <1>3, <1>4, SavedHolds, RoutingAssumption DEF RoutingTypes, RequestType

LEMMA FeedbackHolds == ASSUME RoutingInv, NEW q \in Requests, NEW good \in BOOLEAN, Routing!Feedback(q, good) PROVE RoutingInv'
  <1> DEFINE f == [labelled |-> TRUE]
             g == [labelled |-> TRUE, st |-> "escalated"]
  <1>0. RoutingTypes /\ request[q] \in RequestType /\ request[q].st # None
    BY DEF RoutingInv, RoutingTypes, Routing!Feedback
  <1>1. DOMAIN f = {"labelled"} /\ f.labelled = TRUE /\ DOMAIN g = {"labelled", "st"} /\ g.labelled = TRUE /\ g.st = "escalated"
    OBVIOUS
  <1>2. /\ IF good THEN Routing!Save(q, f) /\ UNCHANGED <<lab, recipe>>
           ELSE /\ Routing!Save(q, g)
                /\ recipe' = [r \in Recipes |-> IF r \in Routing!Paused(q) THEN "paused" ELSE recipe[r]]
                /\ IF Routing!Paused(q) = {} THEN UNCHANGED lab ELSE Routing!Bumped
        /\ request[q].fb.st # "running" /\ UNCHANGED <<replay, answer, local, change, goals>>
    BY DEF Routing!Feedback, Routing!fast, Routing!slow, Routing!Running, Routing!Fallback
  <1> HIDE DEF f, g
  <1>3. CASE good
    <2>1. /\ request'[q].labelled = TRUE /\ request'[q].st = request[q].st /\ request'[q].src = request[q].src
          /\ request'[q].wants = request[q].wants /\ request'[q].snap = request[q].snap /\ request'[q].sel = request[q].sel
      BY <1>0, <1>1, <1>2, <1>3, SaveGives
    <2>2. \A p \in Replays : Tested(p)'
      BY <1>2, <1>3, TestedKept DEF Routing!Active
    <2>3. request[q].st = "completed" /\ request[q].src \in {"rule", "jev"} => request[q].sel \in Recipes
      BY DEF RoutingInv, Named
    <2> QED
      BY <1>0, <1>1, <1>2, <1>3, <2>1, <2>2, <2>3, SavedHolds DEF RoutingTypes, RequestType
  <1>4. CASE ~good
    <2>1. /\ request'[q].labelled = TRUE /\ request'[q].st = "escalated" /\ request'[q].src = request[q].src
          /\ request'[q].wants = request[q].wants /\ request'[q].snap = request[q].snap /\ request'[q].sel = request[q].sel
      BY <1>0, <1>1, <1>2, <1>4, SaveGives
    <2>2. lab' \in LabType /\ \A p \in Replays : Tested(p)'
      <3>1. CASE Routing!Paused(q) = {}
        BY <1>0, <1>2, <1>4, <3>1, TestedKept DEF Routing!Active, RoutingTypes
      <3>2. CASE Routing!Paused(q) # {}
        BY <1>2, <1>4, <3>2, TestedBumped
      <3> QED
        BY <3>1, <3>2
    <2>3. recipe' \in [Recipes -> {None, "candidate", "active", "paused"}]
      BY <1>0, <1>2, <1>4 DEF RoutingTypes
    <2> QED
      BY <1>0, <1>1, <1>2, <1>4, <2>1, <2>2, <2>3, SavedHolds, RoutingAssumption DEF RoutingTypes, RequestType
  <1> QED
    BY <1>3, <1>4

LEMMA FbFieldTypes ==
    ASSUME RoutingTypes, NEW q \in Requests
    PROVE  /\ request[q] \in RequestType /\ request[q].fb \in FallbackType
           /\ request[q].fb.st \in {None, "running", "completed", "failed", "interrupted"}
           /\ request[q].fb.cand \in Recipes \cup {None} /\ request[q].fb.change \in ChangeType
           /\ request[q].fb.project \in BOOLEAN /\ request[q].fb.cases \in SUBSET Requests
           /\ request[q].fb.replay \in Replays \cup {None}
  BY DEF RoutingTypes, RequestType, FallbackType

LEMMA ClaimsHolds == ASSUME RoutingInv, NEW q \in Requests, Routing!Claim(q) PROVE RoutingInv'
  <1> DEFINE f == [st |-> "running", project |-> lab.project]
  <1>0. RoutingTypes
    BY DEF RoutingInv
  <1>1. DOMAIN f = {"st", "project"} /\ f.st = "running" /\ f.project = lab.project
    OBVIOUS
  <1>2. Routing!FbSet(q, f) /\ UNCHANGED <<lab, recipe, replay, answer, local>> /\ UNCHANGED <<change, goals>>
    BY DEF Routing!Claim, Routing!fast, Routing!slow
  <1>3. request[q].st = "escalated" /\ request[q].fb.st = None /\ request[q].fb.change = None
    BY DEF Routing!Claim, Routing!Fallback, Routing!Running, Routing!NoFallback
  <1> HIDE DEF f
  <1>4. /\ request'[q].fb.st = "running" /\ request'[q].fb.project = lab.project
        /\ request'[q].fb.cand = request[q].fb.cand /\ request'[q].fb.change = request[q].fb.change
           /\ request'[q].fb.cases = request[q].fb.cases /\ request'[q].fb.replay = request[q].fb.replay
    BY <1>0, <1>1, <1>2, FbSetGives
  <1>5. Handed(q)'
    BY <1>0, <1>2, <1>3, <1>4, FbFieldTypes, RoutingAssumption DEF RoutingInv, Handed, ChangeType
  <1>6. request'[q].fb.st = "running" => request[q].st = "escalated"
    BY <1>3, <1>4, RoutingAssumption DEF RoutingInv, Named
  <1> QED
    BY <1>0, <1>2, <1>3, <1>4, <1>5, <1>6, FbFieldTypes, FbHolds DEF RoutingTypes, ChangeType, LabType

LEMMA FailHolds == ASSUME RoutingInv, NEW q \in Requests, Routing!Fail(q) PROVE RoutingInv'
  <1> DEFINE f == [st |-> "failed"]
  <1>0. RoutingTypes
    BY DEF RoutingInv
  <1>1. DOMAIN f = {"st"} /\ f.st = "failed"
    OBVIOUS
  <1>2. Routing!FbSet(q, f) /\ UNCHANGED <<lab, recipe, replay, answer, local>> /\ UNCHANGED <<change, goals>>
    BY DEF Routing!Fail, Routing!fast, Routing!slow
  <1>3. request[q].fb.st = "running"
    BY DEF Routing!Fail, Routing!Fallback, Routing!Running, Routing!NoFallback
  <1> HIDE DEF f
  <1>4. /\ request'[q].fb.st = "failed"
        /\ request'[q].fb.cand = request[q].fb.cand /\ request'[q].fb.change = request[q].fb.change
           /\ request'[q].fb.project = request[q].fb.project /\ request'[q].fb.cases = request[q].fb.cases
              /\ request'[q].fb.replay = request[q].fb.replay
    BY <1>0, <1>1, <1>2, FbSetGives
  <1>5. Handed(q)'
    BY <1>0, <1>2, <1>3, <1>4, FbFieldTypes, RoutingAssumption DEF RoutingInv, Handed, ChangeType
  <1>6. request'[q].fb.st = "running" => request[q].st = "escalated"
    BY <1>3, <1>4, RoutingAssumption DEF RoutingInv, Named
  <1> QED
    BY <1>0, <1>2, <1>3, <1>4, <1>5, <1>6, FbFieldTypes, FbHolds DEF RoutingTypes, ChangeType

LEMMA FreezeCasesHolds == ASSUME RoutingInv, NEW q \in Requests, Routing!FreezeCases(q) PROVE RoutingInv'
  <1> DEFINE f == [cases |-> Routing!Cases]
  <1>0. RoutingTypes
    BY DEF RoutingInv
  <1>1. DOMAIN f = {"cases"} /\ f.cases = Routing!Cases
    OBVIOUS
  <1>2. Routing!FbSet(q, f) /\ UNCHANGED <<lab, recipe, replay, answer, local>> /\ UNCHANGED <<change, goals>>
    BY DEF Routing!FreezeCases, Routing!Cases, Routing!fast, Routing!slow
  <1>3. Routing!Cases \in SUBSET Requests
    BY DEF Routing!FreezeCases, Routing!Cases, Routing!Fallback, Routing!Running, Routing!NoFallback
  <1> HIDE DEF f
  <1>4. /\ request'[q].fb.cases = Routing!Cases
        /\ request'[q].fb.st = request[q].fb.st /\ request'[q].fb.cand = request[q].fb.cand
           /\ request'[q].fb.change = request[q].fb.change /\ request'[q].fb.project = request[q].fb.project
              /\ request'[q].fb.replay = request[q].fb.replay
    BY <1>0, <1>1, <1>2, FbSetGives
  <1>5. Handed(q)'
    BY <1>0, <1>2, <1>3, <1>4, FbFieldTypes, RoutingAssumption DEF RoutingInv, Handed, ChangeType
  <1>6. request'[q].fb.st = "running" => request[q].st = "escalated"
    BY <1>3, <1>4, RoutingAssumption DEF RoutingInv, Named
  <1> QED
    BY <1>0, <1>2, <1>3, <1>4, <1>5, <1>6, FbFieldTypes, FbHolds DEF RoutingTypes, ChangeType

LEMMA LinkReplayHolds == ASSUME RoutingInv, NEW q \in Requests, NEW p \in Replays, Routing!LinkReplay(q, p) PROVE RoutingInv'
  <1> DEFINE f == [replay |-> p]
  <1>0. RoutingTypes
    BY DEF RoutingInv
  <1>1. DOMAIN f = {"replay"} /\ f.replay = p
    OBVIOUS
  <1>2. Routing!FbSet(q, f) /\ UNCHANGED <<lab, recipe, replay, answer, local>> /\ UNCHANGED <<change, goals>>
    BY DEF Routing!LinkReplay, Routing!fast, Routing!slow
  <1>3. TRUE
    BY DEF Routing!LinkReplay, Routing!Fallback, Routing!Running, Routing!NoFallback
  <1> HIDE DEF f
  <1>4. /\ request'[q].fb.replay = p
        /\ request'[q].fb.st = request[q].fb.st /\ request'[q].fb.cand = request[q].fb.cand
           /\ request'[q].fb.change = request[q].fb.change /\ request'[q].fb.project = request[q].fb.project
              /\ request'[q].fb.cases = request[q].fb.cases
    BY <1>0, <1>1, <1>2, FbSetGives
  <1>5. Handed(q)'
    BY <1>0, <1>2, <1>3, <1>4, FbFieldTypes, RoutingAssumption DEF RoutingInv, Handed, ChangeType
  <1>6. request'[q].fb.st = "running" => request[q].st = "escalated"
    BY <1>3, <1>4, RoutingAssumption DEF RoutingInv, Named
  <1> QED
    BY <1>0, <1>2, <1>3, <1>4, <1>5, <1>6, FbFieldTypes, FbHolds DEF RoutingTypes, ChangeType

LEMMA DispatchHolds == ASSUME RoutingInv, NEW q \in Requests, Routing!Dispatch(q) PROVE RoutingInv'
  <1> DEFINE f == [change |-> "dispatching"]
  <1>0. RoutingTypes
    BY DEF RoutingInv
  <1>1. DOMAIN f = {"change"} /\ f.change = "dispatching"
    OBVIOUS
  <1>2. Routing!FbSet(q, f) /\ UNCHANGED <<lab, recipe, replay, answer, local>> /\ change' = [change EXCEPT ![q] = "verify"]
          /\ goals' = goals
    BY DEF Routing!Dispatch, Routing!fast, Routing!slow
  <1>3. request[q].fb.st = "completed" /\ request[q].fb.change = "pending"
    BY DEF Routing!Dispatch, Routing!Fallback, Routing!Running, Routing!NoFallback
  <1> HIDE DEF f
  <1>4. /\ request'[q].fb.change = "dispatching"
        /\ request'[q].fb.st = request[q].fb.st /\ request'[q].fb.cand = request[q].fb.cand
           /\ request'[q].fb.project = request[q].fb.project /\ request'[q].fb.cases = request[q].fb.cases
              /\ request'[q].fb.replay = request[q].fb.replay
    BY <1>0, <1>1, <1>2, FbSetGives
  <1>5. Handed(q)'
    BY <1>0, <1>2, <1>3, <1>4, FbFieldTypes, RoutingAssumption DEF RoutingInv, Handed, ChangeType
  <1>6. request'[q].fb.st = "running" => request[q].st = "escalated"
    BY <1>3, <1>4, RoutingAssumption DEF RoutingInv, Named
  <1> QED
    BY <1>0, <1>2, <1>3, <1>4, <1>5, <1>6, FbFieldTypes, FbHolds DEF RoutingTypes, ChangeType

LEMMA ChangedHolds ==
    ASSUME RoutingInv, NEW q \in Requests, NEW st \in {"failed", "unknown", "waiting"}, Routing!Changed(q, st),
           change[q] # None, UNCHANGED <<lab, recipe, replay, answer, local>>,
           goals' \in [Requests -> Nat], \A o \in Requests \ {q} : goals'[o] = goals[o], goals'[q] \in {0, 1},
           st = "failed" => goals'[q] = 0, st = "waiting" => goals'[q] = 1
    PROVE  RoutingInv'
  <1> DEFINE f == [change |-> st]
  <1>0. RoutingTypes
    BY DEF RoutingInv
  <1>1. DOMAIN f = {"change"} /\ f.change = st
    OBVIOUS
  <1>2. Routing!FbSet(q, f) /\ change' = [change EXCEPT ![q] = None]
    BY DEF Routing!Changed
  <1>3. request[q].fb.change = "dispatching" /\ request[q].fb.st = "completed"
    BY RoutingAssumption DEF RoutingInv, Handed
  <1> HIDE DEF f
  <1>4. /\ request'[q].fb.change = st
        /\ request'[q].fb.st = request[q].fb.st /\ request'[q].fb.cand = request[q].fb.cand
           /\ request'[q].fb.project = request[q].fb.project /\ request'[q].fb.cases = request[q].fb.cases
              /\ request'[q].fb.replay = request[q].fb.replay
    BY <1>0, <1>1, <1>2, FbSetGives
  <1>5. change'[q] = None /\ change' \in [Requests -> {None, "verify", "send", "plan"}]
          /\ \A o \in Requests \ {q} : change'[o] = change[o]
    BY <1>0, <1>2 DEF RoutingTypes
  <1>6. Handed(q)'
    BY <1>3, <1>4, <1>5, RoutingAssumption DEF Handed
  <1> QED
    BY <1>0, <1>2, <1>3, <1>4, <1>5, <1>6, FbFieldTypes, FbHolds, RoutingAssumption DEF ChangeType

LEMMA VerifiedHolds == ASSUME RoutingInv, NEW q \in Requests, Routing!Verified(q) PROVE RoutingInv'
  <1>0. RoutingTypes /\ change[q] = "verify" /\ change[q] # None /\ goals[q] = 0
          /\ UNCHANGED <<lab, recipe, replay, answer, local, goals>>
    BY RoutingAssumption DEF RoutingInv, Handed, Routing!Verified, Routing!fast
  <1>1. CASE change' = [change EXCEPT ![q] = "send"] /\ UNCHANGED request
    <2>1. RoutingTypes'
      BY <1>0, <1>1 DEF RoutingTypes, Routing!Calls
    <2>2. Named(q)' /\ Handed(q)'
      BY <1>0, <1>1, RoutingAssumption DEF RoutingInv, RoutingTypes, Named, Handed
    <2>3. \A p \in Replays : Tested(p)'
      BY <1>0, TestedKept DEF Routing!Active
    <2> QED
      BY <1>0, <1>1, <2>1, <2>2, <2>3, RequestMoves DEF RoutingTypes
  <1>2. CASE Routing!Changed(q, "failed")
    BY <1>0, <1>2, ChangedHolds DEF RoutingTypes
  <1> QED
    BY <1>1, <1>2 DEF Routing!Verified

LEMMA PostGoalHolds == ASSUME RoutingInv, NEW q \in Requests, Routing!PostGoal(q) PROVE RoutingInv'
  <1>0. RoutingTypes /\ change[q] = "send" /\ change[q] # None /\ goals[q] = 0
          /\ UNCHANGED <<lab, recipe, replay, answer, local>>
    BY RoutingAssumption DEF RoutingInv, Handed, Routing!PostGoal, Routing!fast
  <1>1. ASSUME goals' = [goals EXCEPT ![q] = @ + 1]
        PROVE  goals' \in [Requests -> Nat] /\ goals'[q] = 1 /\ \A o \in Requests \ {q} : goals'[o] = goals[o]
    BY <1>0, <1>1 DEF RoutingTypes
  <1>2. CASE goals' = [goals EXCEPT ![q] = @ + 1] /\ change' = [change EXCEPT ![q] = "plan"] /\ UNCHANGED request
    <2>1. RoutingTypes'
      BY <1>0, <1>1, <1>2 DEF RoutingTypes, Routing!Calls
    <2>2. request[q].fb.change = "dispatching" /\ request[q].fb.st = "completed"
      BY <1>0, RoutingAssumption DEF RoutingInv, Handed
    <2>3. Named(q)' /\ Handed(q)'
      BY <1>0, <1>1, <1>2, <2>2, RoutingAssumption DEF RoutingInv, RoutingTypes, Named, Handed
    <2>4. \A p \in Replays : Tested(p)'
      BY <1>0, TestedKept DEF Routing!Active
    <2> QED
      BY <1>0, <1>1, <1>2, <2>1, <2>3, <2>4, RequestMoves DEF RoutingTypes
  <1>3. CASE goals' = [goals EXCEPT ![q] = @ + 1] /\ Routing!Changed(q, "unknown")
    BY <1>0, <1>1, <1>3, ChangedHolds
  <1>4. CASE goals' = goals /\ Routing!Changed(q, "unknown")
    BY <1>0, <1>4, ChangedHolds DEF RoutingTypes
  <1> QED
    BY <1>2, <1>3, <1>4 DEF Routing!PostGoal, Routing!WhenRaised

LEMMA PostPlanHolds == ASSUME RoutingInv, NEW q \in Requests, Routing!PostPlan(q) PROVE RoutingInv'
  <1>0. RoutingTypes /\ change[q] = "plan" /\ change[q] # None /\ goals[q] = 1
          /\ UNCHANGED <<lab, recipe, replay, answer, local, goals>>
    BY RoutingAssumption DEF RoutingInv, Handed, Routing!PostPlan, Routing!fast
  <1>1. Routing!Changed(q, "waiting") \/ Routing!Changed(q, "unknown")
    BY DEF Routing!PostPlan, Routing!WhenRaised
  <1> QED
    BY <1>0, <1>1, ChangedHolds DEF RoutingTypes

LEMMA CompleteHolds == ASSUME RoutingInv, NEW q \in Requests, Routing!Complete(q) PROVE RoutingInv'
  <1>0. /\ RoutingTypes /\ request[q].fb.st = "running" /\ request[q].st = "escalated" /\ request[q].fb.change = None
           /\ goals[q] = 0
        /\ change[q] = None /\ UNCHANGED <<lab, replay, answer, local, change, goals>>
    BY RoutingAssumption DEF RoutingInv, Named, Handed, Routing!Complete, Routing!Running, Routing!Fallback, Routing!fast,
      Routing!slow
  <1>1. PICK sub \in Routing!Submissions(q) :
        /\ Routing!Save(q, [st |-> IF sub \in {"open", "change"} THEN "escalated" ELSE "completed", src |-> "system2",
                   fb |-> [request[q].fb EXCEPT !.st = "completed", !.cand = IF sub \in Recipes THEN sub ELSE None,
                                              !.change = IF sub = "change" THEN "pending" ELSE None]])
        /\ recipe' = [r \in Recipes |-> IF r = sub THEN "candidate" ELSE recipe[r]]
    BY DEF Routing!Complete, Routing!Fallback
  <1> DEFINE new == [request[q].fb EXCEPT !.st = "completed", !.cand = IF sub \in Recipes THEN sub ELSE None,
                                          !.change = IF sub = "change" THEN "pending" ELSE None]
             f == [st |-> IF sub \in {"open", "change"} THEN "escalated" ELSE "completed", src |-> "system2", fb |-> new]
  <1>2. new \in FallbackType /\ new.st = "completed" /\ new.change \in {None, "pending"}
    <2> DEFINE c == IF sub \in Recipes THEN sub ELSE None
               d == IF sub = "change" THEN "pending" ELSE None
    <2>1. request[q].fb \in FallbackType /\ c \in Recipes \cup {None} /\ d \in {None, "pending"}
      BY <1>0, FbFieldTypes
    <2>2. new = [request[q].fb EXCEPT !.st = "completed", !.cand = c, !.change = d]
      OBVIOUS
    <2> HIDE DEF c, d, new
    <2> QED
      BY <2>1, <2>2 DEF FallbackType, ChangeType
  <1>3. DOMAIN f = {"st", "src", "fb"} /\ f.st \in {"escalated", "completed"} /\ f.src = "system2" /\ f.fb = new
    OBVIOUS
  <1>4. Routing!Save(q, f)
    BY <1>1
  <1> HIDE DEF new, f
  <1>5. /\ request'[q].st = f.st /\ request'[q].src = f.src /\ request'[q].fb = f.fb /\ request'[q].snap = request[q].snap
        /\ request'[q].wants = request[q].wants /\ request'[q].sel = request[q].sel
           /\ request'[q].labelled = request[q].labelled
        /\ \A o \in Requests \ {q} : request'[o] = request[o]
    <2>1. /\ request'[q].st = IF "st" \in DOMAIN f THEN f.st ELSE request[q].st
          /\ request'[q].wants = IF "wants" \in DOMAIN f THEN f.wants ELSE request[q].wants
          /\ request'[q].snap = IF "snap" \in DOMAIN f THEN f.snap ELSE request[q].snap
          /\ request'[q].src = IF "src" \in DOMAIN f THEN f.src ELSE request[q].src
          /\ request'[q].sel = IF "sel" \in DOMAIN f THEN f.sel ELSE request[q].sel
          /\ request'[q].labelled = IF "labelled" \in DOMAIN f THEN f.labelled ELSE request[q].labelled
          /\ request'[q].fb = IF "fb" \in DOMAIN f THEN f.fb ELSE request[q].fb
          /\ \A o \in Requests \ {q} : request'[o] = request[o]
      BY <1>0, <1>4, SaveGives
    <2> QED
      BY <1>3, <2>1
  <1>6. Routing!Active' = Routing!Active
    <2>1. ASSUME NEW r \in Recipes, r = sub PROVE recipe[r] = None
      BY <2>1, RoutingAssumption DEF Routing!Submissions
    <2> QED
      BY <1>0, <1>1, <2>1, RoutingAssumption DEF Routing!Active, RoutingTypes
  <1>7. RoutingTypes'
    <2>1. request' \in [Requests -> RequestType]
      BY <1>0, <1>2, <1>3, <1>4, <1>5, FbFieldTypes, SaveTyped DEF RequestType
    <2>2. recipe' \in [Recipes -> {None, "candidate", "active", "paused"}]
      BY <1>0, <1>1 DEF RoutingTypes
    <2> QED
      BY <1>0, <2>1, <2>2 DEF RoutingTypes, Routing!Calls
  <1>8. Named(q)' /\ Handed(q)'
    BY <1>0, <1>2, <1>3, <1>5, RoutingAssumption DEF RoutingInv, Named, Handed
  <1>9. \A p \in Replays : Tested(p)'
    BY <1>0, <1>6, TestedKept
  <1> QED
    BY <1>0, <1>3, <1>5, <1>7, <1>8, <1>9, RoutingAssumption, RequestMoves

LEMMA RestartHolds == ASSUME RoutingInv, Routing!Restart PROVE RoutingInv'
  <1>0. /\ RoutingTypes /\ UNCHANGED <<lab, recipe, replay, answer, goals>>
        /\ change' = [q \in Requests |-> None] /\ local' = [a \in Advancers |-> None]
        /\ request' = [q \in Requests |-> [request[q] EXCEPT !.fb = Routing!RecoveredFallback(request[q].fb)]]
    BY DEF RoutingInv, Routing!Restart
  <1>1. ASSUME NEW q \in Requests
        PROVE  /\ request'[q] \in RequestType /\ request'[q].st = request[q].st /\ request'[q].snap = request[q].snap
               /\ request'[q].src = request[q].src /\ request'[q].sel = request[q].sel
               /\ request'[q].fb.st = IF request[q].fb.st = "running" THEN "interrupted" ELSE request[q].fb.st
               /\ request'[q].fb.change = IF request[q].fb.change = "dispatching" THEN "unknown" ELSE request[q].fb.change
    <2>1. request[q] \in RequestType /\ request[q].fb \in FallbackType
      BY <1>0, FbFieldTypes
    <2> DEFINE new == Routing!RecoveredFallback(request[q].fb)
    <2>2. /\ new \in FallbackType /\ new.st = IF request[q].fb.st = "running" THEN "interrupted" ELSE request[q].fb.st
          /\ new.change = IF request[q].fb.change = "dispatching" THEN "unknown" ELSE request[q].fb.change
      BY <2>1 DEF FallbackType, ChangeType, Routing!RecoveredFallback, Routing!RecoveredChange
    <2>3. request'[q] = [request[q] EXCEPT !.fb = new]
      BY <1>0
    <2> HIDE DEF new
    <2> QED
      BY <2>1, <2>2, <2>3 DEF RequestType
  <1>2. RoutingTypes'
    <2>1. request' \in [Requests -> RequestType]
      BY <1>0, <1>1
    <2> QED
      BY <1>0, <2>1 DEF RoutingTypes, Routing!Calls
  <1>3. \A p \in Replays : Tested(p)'
    BY <1>0, TestedKept DEF Routing!Active
  <1>4. \A a \in Advancers : Chooses(a)'
    <2>1. {None} \cap LooksAt = {}
      BY RoutingAssumption DEF LooksAt
    <2> QED
      BY <1>0, <2>1 DEF Chooses
  <1>5. ASSUME NEW q \in Requests PROVE Named(q)' /\ Handed(q)'
    <2>1. Named(q) /\ Handed(q) /\ goals'[q] = goals[q] /\ change'[q] = None
      BY <1>0 DEF RoutingInv
    <2>2. Named(q)'
      BY <1>1, <2>1, RoutingAssumption DEF Named
    <2>3. Handed(q)'
      BY <1>1, <2>1, RoutingAssumption DEF Handed
    <2> QED
      BY <2>2, <2>3
  <1> QED
    BY <1>2, <1>3, <1>4, <1>5 DEF RoutingInv

LEMMA OthersMove ==
    ASSUME RoutingInv, RoutingTypes', \A p \in Replays : Tested(p)', UNCHANGED <<request, change, goals>>,
           \A a \in Advancers : Chooses(a)'
    PROVE  RoutingInv'
  BY DEF RoutingInv, Named, Handed

LEMMA ConfigureHolds == ASSUME RoutingInv, NEW pi \in BOOLEAN, NEW project \in BOOLEAN, Routing!Configure(pi,
    project) PROVE RoutingInv'
  <1>0. RoutingTypes /\ lab' = [lab EXCEPT !.pi = pi, !.project = project]
          /\ UNCHANGED <<recipe, request, replay, answer, local, change, goals>>
    BY DEF RoutingInv, Routing!Configure, Routing!fast, Routing!slow
  <1>1. lab' \in LabType /\ lab'.version = lab.version
    BY <1>0 DEF RoutingTypes, LabType
  <1>2. RoutingTypes'
    BY <1>0, <1>1 DEF RoutingTypes, Routing!Calls
  <1>3. \A p \in Replays : Tested(p)'
    BY <1>0, <1>1 DEF RoutingInv, Tested, Routing!Active
  <1>4. \A a \in Advancers : Chooses(a)'
    BY <1>0 DEF RoutingInv, Chooses
  <1> QED
    BY <1>0, <1>2, <1>3, <1>4, OthersMove

LEMMA PauseHolds == ASSUME RoutingInv, NEW r \in Recipes, Routing!Pause(r) PROVE RoutingInv'
  <1>0. RoutingTypes /\ recipe' = [recipe EXCEPT ![r] = "paused"] /\ Routing!Bumped
          /\ UNCHANGED <<request, replay, answer, local, change, goals>>
    BY DEF RoutingInv, Routing!Pause, Routing!fast, Routing!slow
  <1>1. lab' \in LabType /\ \A p \in Replays : Tested(p)'
    BY <1>0, TestedBumped
  <1>2. RoutingTypes'
    BY <1>0, <1>1 DEF RoutingTypes, Routing!Calls
  <1>3. \A a \in Advancers : Chooses(a)'
    BY <1>0 DEF RoutingInv, Chooses
  <1> QED
    BY <1>0, <1>1, <1>2, <1>3, OthersMove

LEMMA PublishHolds == ASSUME RoutingInv, NEW r \in Recipes, NEW p \in Replays, Routing!Publish(r, p) PROVE RoutingInv'
  <1>0. RoutingTypes /\ recipe' = [recipe EXCEPT ![r] = "active"] /\ Routing!Bumped
          /\ UNCHANGED <<request, replay, answer, local, change, goals>>
    BY DEF RoutingInv, Routing!Publish, Routing!fast, Routing!slow
  <1>1. lab' \in LabType /\ \A x \in Replays : Tested(x)'
    BY <1>0, TestedBumped
  <1>2. RoutingTypes'
    BY <1>0, <1>1 DEF RoutingTypes, Routing!Calls
  <1>3. \A a \in Advancers : Chooses(a)'
    BY <1>0 DEF RoutingInv, Chooses
  <1> QED
    BY <1>0, <1>1, <1>2, <1>3, OthersMove

LEMMA ProposeHolds == ASSUME RoutingInv, NEW r \in Recipes, NEW q \in Requests, Routing!Propose(r, q) PROVE RoutingInv'
  <1>0. RoutingTypes /\ recipe[r] = None /\ recipe' = [recipe EXCEPT ![r] = "candidate"]
          /\ UNCHANGED <<lab, request, replay, answer, local, change, goals>>
    BY DEF RoutingInv, Routing!Propose, Routing!fast, Routing!slow
  <1>1. Routing!Active' = Routing!Active
    BY <1>0, RoutingAssumption DEF Routing!Active, RoutingTypes
  <1>2. \A p \in Replays : Tested(p)'
    BY <1>0, <1>1, TestedKept
  <1>3. RoutingTypes'
    BY <1>0 DEF RoutingTypes, Routing!Calls
  <1>4. \A a \in Advancers : Chooses(a)'
    BY <1>0 DEF RoutingInv, Chooses
  <1> QED
    BY <1>0, <1>2, <1>3, <1>4, OthersMove

LEMMA StartsHolds ==
    ASSUME RoutingInv, NEW p \in Replays, NEW r \in Recipes \cup {None}, NEW cases \in SUBSET Requests,
           NEW by \in Requests \cup {None}, Routing!Starts(p, r, cases, by),
           UNCHANGED <<lab, recipe, request, answer, local, change, goals>>
    PROVE  RoutingInv'
  <1> DEFINE new == [st |-> "pending", cand |-> r, version |-> lab.version, snap |-> Routing!Active \cup {r},
                     cases |-> cases, judged |-> {}, by |-> by]
  <1>0. RoutingTypes /\ replay' = [replay EXCEPT ![p] = new] /\ lab.version \in Nat
    BY DEF RoutingInv, RoutingTypes, LabType, Routing!Starts
  <1>1. new.st = "pending" /\ new.version = lab.version /\ new.snap = Routing!Active \cup {r} /\ new.cand = r
    OBVIOUS
  <1>2. new \in ReplayType
    BY <1>0 DEF ReplayType, Routing!Active
  <1> HIDE DEF new
  <1>3. RoutingTypes'
    BY <1>0, <1>2 DEF RoutingTypes, Routing!Calls
  <1>4. ASSUME NEW x \in Replays PROVE Tested(x)'
    <2>1. CASE x = p
      BY <1>0, <1>1, <2>1 DEF RoutingTypes, Tested, Routing!Active
    <2>2. CASE x # p
      BY <1>0, <2>2 DEF RoutingInv, RoutingTypes, Tested, Routing!Active
    <2> QED
      BY <2>1, <2>2
  <1>5. \A a \in Advancers : Chooses(a)'
    BY DEF RoutingInv, Chooses
  <1> QED
    BY <1>3, <1>4, <1>5, OthersMove

LEMMA StartReplayHolds == ASSUME RoutingInv, NEW p \in Replays, NEW r \in Recipes, Routing!StartReplay(p, r) PROVE RoutingInv'
  <1>1. Routing!Cases \in SUBSET Requests
    BY DEF Routing!Cases
  <1>2. Routing!Starts(p, r, Routing!Cases, None) /\ UNCHANGED <<lab, recipe, request, answer, local, change, goals>>
    BY DEF Routing!StartReplay, Routing!fast, Routing!slow
  <1> QED
    BY <1>1, <1>2, StartsHolds

LEMMA ReplayCandidateHolds == ASSUME RoutingInv, NEW q \in Requests, NEW p \in Replays, Routing!ReplayCandidate(q,
    p) PROVE RoutingInv'
  <1>1. request[q].fb.cases \in SUBSET Requests /\ request[q].fb.cand \in Recipes \cup {None}
    BY FbFieldTypes DEF RoutingInv
  <1>2. /\ Routing!Starts(p, request[q].fb.cand, request[q].fb.cases, q)
        /\ UNCHANGED <<lab, recipe, request, answer, local, change, goals>>
    BY DEF Routing!ReplayCandidate, Routing!Fallback, Routing!fast, Routing!slow
  <1> QED
    BY <1>1, <1>2, StartsHolds

LEMMA LookingType ==
    ASSUME RoutingTypes, NEW a \in Advancers, local[a] # None, local[a].at # "replay"
    PROVE  local[a] \in LooksAt
  <1>1. local[a] \in LooksAt \cup Judges
    BY DEF RoutingTypes
  <1> QED
    BY <1>1 DEF Judges

LEMMA RoutingLookHolds == ASSUME RoutingInv, NEW a \in Advancers, NEW q \in Requests, Routing!Look(a, q) PROVE RoutingInv'
  <1> DEFINE sel == IF request[q].wants \in request[q].snap THEN request[q].wants ELSE None
             at == IF request[q].wants = "jev" /\ request[q].snap # {} THEN "queue" ELSE "finish"
             new == [q |-> q, at |-> at, sel |-> sel]
  <1>0. RoutingTypes /\ request[q].st # None /\ local' = [local EXCEPT ![a] = new]
          /\ UNCHANGED <<lab, recipe, request, replay, answer, change, goals>>
    BY RoutingAssumption DEF RoutingInv, Routing!Look, Routing!Unrouted, Routing!slow
  <1>1. sel \in request[q].snap \cup {None} /\ sel \in Recipes \cup {None} /\ at \in {"queue", "finish"}
    BY <1>0, FbFieldTypes DEF RequestType
  <1>2. new.q = q /\ new.sel = sel
    OBVIOUS
  <1>3. new \in LooksAt
    BY <1>1 DEF LooksAt
  <1> HIDE DEF new, sel, at
  <1>4. RoutingTypes'
    BY <1>0, <1>3 DEF RoutingTypes, Routing!Calls
  <1>5. \A p \in Replays : Tested(p)'
    BY <1>0, TestedKept DEF Routing!Active
  <1>6. ASSUME NEW x \in Advancers PROVE Chooses(x)'
    BY <1>0, <1>1, <1>2 DEF RoutingInv, RoutingTypes, Chooses
  <1> QED
    BY <1>0, <1>4, <1>5, <1>6, OthersMove

\* what is queued is asked for once: an answer stays
LEMMA AskedOnce ==
    ASSUME RoutingInv, NEW cs, answer' = Routing!Queued(cs), UNCHANGED <<lab, recipe, replay>>
    PROVE  /\ answer' \in [Routing!Calls -> {None, "queued", "expected", "other"} \cup Recipes]
           /\ \A p \in Replays : Tested(p)'
  <1>1. answer \in [Routing!Calls -> {None, "queued", "expected", "other"} \cup Recipes]
    BY DEF RoutingInv, RoutingTypes
  <1>2. ASSUME NEW p \in Replays, NEW q \in replay[p].cases, answer[<<p, q>>] = "expected"
        PROVE  answer'[<<p, q>>] = "expected"
    <2>1. <<p, q>> \in Routing!Calls
      BY DEF RoutingInv, RoutingTypes, ReplayType, Routing!Calls
    <2> QED
      BY <1>2, <2>1, RoutingAssumption DEF Routing!Queued
  <1>3. answer' \in [Routing!Calls -> {None, "queued", "expected", "other"} \cup Recipes]
    BY <1>1 DEF Routing!Queued
  <1> QED
    BY <1>2, <1>3 DEF RoutingInv, Tested, Routing!Active

LEMMA QueueHolds == ASSUME RoutingInv, NEW a \in Advancers, Routing!Queue(a) PROVE RoutingInv'
  <1>0. /\ RoutingTypes /\ local[a] # None /\ local[a].at = "queue" /\ answer' = Routing!Queued({local[a].q})
        /\ local' = [local EXCEPT ![a] = [local[a] EXCEPT !.at = "mark"]]
        /\ UNCHANGED <<lab, recipe, request, replay, change, goals>>
    BY DEF RoutingInv, Routing!Queue, Routing!slow
  <1>1. local[a] \in LooksAt
    BY <1>0, LookingType
  <1> DEFINE new == [local[a] EXCEPT !.at = "mark"]
  <1>2. new \in LooksAt /\ new.q = local[a].q /\ new.sel = local[a].sel
    BY <1>1 DEF LooksAt
  <1>3. local' = [local EXCEPT ![a] = new]
    BY <1>0
  <1> HIDE DEF new
  <1>4. /\ answer' \in [Routing!Calls -> {None, "queued", "expected", "other"} \cup Recipes]
        /\ \A p \in Replays : Tested(p)'
    BY <1>0, AskedOnce
  <1>5. RoutingTypes'
    BY <1>0, <1>2, <1>3, <1>4 DEF RoutingTypes, Routing!Calls
  <1>6. ASSUME NEW x \in Advancers PROVE Chooses(x)'
    BY <1>0, <1>1, <1>2, <1>3 DEF RoutingInv, RoutingTypes, Chooses
  <1> QED
    BY <1>0, <1>4, <1>5, <1>6, OthersMove

LEMMA MarkHolds == ASSUME RoutingInv, NEW a \in Advancers, Routing!Mark(a) PROVE RoutingInv'
  <1> DEFINE q == local[a].q
             f == [st |-> "routing"]
             new == [local[a] EXCEPT !.at = "judge"]
  <1>0. RoutingTypes /\ local[a] # None /\ local[a].at = "mark" /\ UNCHANGED <<lab, recipe, replay, answer, change, goals>>
    BY DEF RoutingInv, Routing!Mark, Routing!slow
  <1>1. local[a] \in LooksAt
    BY <1>0, LookingType
  <1>2. new \in LooksAt /\ new.q = local[a].q /\ new.sel = local[a].sel /\ q \in Requests
    BY <1>1 DEF LooksAt
  <1>3. DOMAIN f = {"st"} /\ f.st = "routing"
    OBVIOUS
  <1>4. \/ /\ request[q].st \in {"queued", "routing"} /\ Routing!Save(q, f) /\ local' = [local EXCEPT ![a] = new]
        \/ UNCHANGED request /\ local' = [local EXCEPT ![a] = None]
    BY DEF Routing!Mark, Routing!Unrouted
  <1>5. \A p \in Replays : Tested(p)'
    BY <1>0, TestedKept DEF Routing!Active
  <1> HIDE DEF new, f, q
  <1>6. CASE request[q].st \in {"queued", "routing"} /\ Routing!Save(q, f) /\ local' = [local EXCEPT ![a] = new]
    <2>1. /\ request'[q].st = "routing" /\ request'[q].src = request[q].src /\ request'[q].wants = request[q].wants
          /\ request'[q].snap = request[q].snap /\ request'[q].sel = request[q].sel
             /\ request'[q].labelled = request[q].labelled
      BY <1>0, <1>2, <1>3, <1>6, SaveGives
    <2>2. local' \in [Advancers -> {None} \cup LooksAt \cup Judges]
      BY <1>0, <1>2, <1>6 DEF RoutingTypes
    <2>3. \A x \in Advancers : local'[x] \in LooksAt =>
               local[x] \in LooksAt /\ local'[x].q = local[x].q /\ local'[x].sel = local[x].sel
      BY <1>0, <1>1, <1>2, <1>6 DEF RoutingTypes
    <2>4. request[q].fb.st # "running"
      BY <1>2, <1>6 DEF RoutingInv, Named
    <2>5. request[q] \in RequestType
      BY <1>0, <1>2 DEF RoutingTypes
    <2> QED
      BY <1>0, <1>2, <1>3, <1>5, <1>6, <2>1, <2>2, <2>3, <2>4, <2>5, SavedHolds, RoutingAssumption DEF RoutingTypes, RequestType
  <1>7. CASE UNCHANGED request /\ local' = [local EXCEPT ![a] = None]
    <2>1. RoutingTypes'
      BY <1>0, <1>7 DEF RoutingTypes, Routing!Calls
    <2>2. \A x \in Advancers : Chooses(x)'
      BY <1>0, <1>7, RoutingAssumption DEF RoutingInv, RoutingTypes, Chooses, LooksAt
    <2> QED
      BY <1>0, <1>5, <1>7, <2>1, <2>2, OthersMove
  <1> QED
    BY <1>4, <1>6, <1>7

LEMMA JudgeHolds == ASSUME RoutingInv, NEW a \in Advancers, Routing!Judge(a) PROVE RoutingInv'
  <1> DEFINE q == local[a].q
             sel == Routing!Chosen(q, q, request[q].snap)
             new == [local[a] EXCEPT !.at = "finish", !.sel = sel]
  <1>0. /\ RoutingTypes /\ local[a] # None /\ local[a].at = "judge"
           /\ UNCHANGED <<lab, recipe, request, replay, answer, change, goals>>
        /\ local' = [local EXCEPT ![a] = None] \/ local' = [local EXCEPT ![a] = new]
    BY DEF RoutingInv, Routing!Judge, Routing!slow
  <1>1. local[a] \in LooksAt
    BY <1>0, LookingType
  <1>2. q \in Requests /\ request[q].st # None /\ sel \in request[q].snap \cup {None} /\ sel \in Recipes \cup {None}
    <2>1. q \in Requests /\ request[q].st # None
      BY <1>1 DEF LooksAt, RoutingInv, Chooses
    <2>2. request[q].snap \in SUBSET Recipes
      BY <1>0, <2>1 DEF RoutingTypes, RequestType
    <2> QED
      BY <2>1, <2>2 DEF Routing!Chosen
  <1> HIDE DEF sel
  <1>3. new \in LooksAt /\ new.q = q /\ new.sel = sel
    BY <1>1, <1>2 DEF LooksAt
  <1> HIDE DEF new, q
  <1>4. RoutingTypes'
    BY <1>0, <1>3 DEF RoutingTypes, Routing!Calls
  <1>5. \A p \in Replays : Tested(p)'
    BY <1>0, TestedKept DEF Routing!Active
  <1>6. ASSUME NEW x \in Advancers PROVE Chooses(x)'
    <2>1. Chooses(x) /\ None \notin LooksAt
      BY RoutingAssumption DEF RoutingInv, LooksAt
    <2>2. CASE x = a
      BY <1>0, <1>2, <1>3, <2>1, <2>2 DEF RoutingTypes, Chooses
    <2>3. CASE x # a
      BY <1>0, <2>1, <2>3 DEF RoutingTypes, Chooses
    <2> QED
      BY <2>2, <2>3
  <1> QED
    BY <1>0, <1>4, <1>5, <1>6, OthersMove

LEMMA FinishHolds == ASSUME RoutingInv, NEW a \in Advancers, Routing!Finish(a) PROVE RoutingInv'
  <1> DEFINE q == local[a].q
             sel == local[a].sel
             src == IF answer[q] = None THEN "rule" ELSE "jev"
  <1>0. /\ RoutingTypes /\ local[a] # None /\ local[a].at = "finish" /\ UNCHANGED <<lab, recipe, replay, answer, change, goals>>
        /\ local' = [local EXCEPT ![a] = None]
    BY DEF RoutingInv, Routing!Finish, Routing!slow
  <1>1. local[a] \in LooksAt /\ q \in Requests /\ sel \in Recipes \cup {None}
    BY <1>0, LookingType DEF LooksAt
  <1>2. \A p \in Replays : Tested(p)'
    BY <1>0, TestedKept DEF Routing!Active
  <1>3. local' \in [Advancers -> {None} \cup LooksAt \cup Judges] /\ \A x \in Advancers : local'[x] \in LooksAt => x # a
          /\ local'[x] = local[x]
    BY <1>0, RoutingAssumption DEF RoutingTypes, LooksAt
  <1>4. CASE UNCHANGED request
    <2>1. RoutingTypes'
      BY <1>0, <1>3, <1>4 DEF RoutingTypes, Routing!Calls
    <2>2. \A x \in Advancers : Chooses(x)'
      BY <1>3, <1>4 DEF RoutingInv, Chooses
    <2> QED
      BY <1>0, <1>2, <1>4, <2>1, <2>2, OthersMove
  <1>5. ASSUME NEW st \in {"completed", "escalated"}, st = "completed" => sel \in Routing!Active,
               request[q].st \in {"queued", "routing"}, Routing!Save(q, [st |-> st, src |-> src, sel |-> sel])
        PROVE  RoutingInv'
    <2> DEFINE f == [st |-> st, src |-> src, sel |-> sel]
    <2>1. DOMAIN f = {"st", "src", "sel"} /\ f.st = st /\ f.src = src /\ f.sel = sel
      OBVIOUS
    <2>2. Routing!Save(q, f)
      BY <1>5
    <2> HIDE DEF f, q, sel, src
    <2>3. /\ request'[q].st = st /\ request'[q].src = src /\ request'[q].sel = sel /\ request'[q].wants = request[q].wants
          /\ request'[q].snap = request[q].snap /\ request'[q].labelled = request[q].labelled
      <3>1. /\ request'[q].st = IF "st" \in DOMAIN f THEN f.st ELSE request[q].st
            /\ request'[q].wants = IF "wants" \in DOMAIN f THEN f.wants ELSE request[q].wants
            /\ request'[q].snap = IF "snap" \in DOMAIN f THEN f.snap ELSE request[q].snap
            /\ request'[q].src = IF "src" \in DOMAIN f THEN f.src ELSE request[q].src
            /\ request'[q].sel = IF "sel" \in DOMAIN f THEN f.sel ELSE request[q].sel
            /\ request'[q].labelled = IF "labelled" \in DOMAIN f THEN f.labelled ELSE request[q].labelled
        BY <1>0, <1>1, <2>2, SaveGives
      <3> QED
        BY <2>1, <3>1
    <2>4. request[q].fb.st # "running" /\ request[q] \in RequestType /\ src \in {"rule", "jev"}
      BY <1>0, <1>1, <1>5 DEF RoutingInv, Named, RoutingTypes, src
    <2>5. st = "completed" => sel \in Recipes
      BY <1>5 DEF Routing!Active
    <2> QED
      BY <1>0, <1>1, <1>2, <1>3, <2>1, <2>2, <2>3, <2>4, <2>5, SavedHolds, RoutingAssumption DEF RoutingTypes, RequestType
  <1>6. \/ UNCHANGED request
        \/ /\ request[q].st \in {"queued", "routing"}
           /\ \E st \in IF sel \in Routing!Active THEN {"completed", "escalated"} ELSE {"escalated"} :
                 Routing!Save(q, [st |-> st, src |-> src, sel |-> sel])
    BY DEF Routing!Finish, Routing!Unrouted, Routing!Executable
  <1> HIDE DEF q, sel, src
  <1> QED
    BY <1>4, <1>5, <1>6

LEMMA AnswerHolds == ASSUME RoutingInv, NEW c \in Routing!Calls, Routing!Answer(c) PROVE RoutingInv'
  <1>0. RoutingTypes /\ answer[c] = "queued" /\ UNCHANGED <<lab, recipe, request, replay, local, change, goals>>
    BY DEF RoutingInv, Routing!Answer, Routing!slow
  <1>1. PICK v \in (IF c \in Requests THEN request[c].snap ELSE {"expected"}) \cup {"other"} : answer' = [answer EXCEPT ![c] = v]
    BY DEF Routing!Answer
  <1>2. v \in {None, "queued", "expected", "other"} \cup Recipes
    BY <1>0 DEF RoutingTypes, RequestType
  <1>3. RoutingTypes'
    BY <1>0, <1>1, <1>2 DEF RoutingTypes, Routing!Calls
  <1>4. ASSUME NEW p \in Replays PROVE Tested(p)'
    <2>1. \A q \in replay[p].cases : answer[<<p, q>>] = "expected" => answer'[<<p, q>>] = "expected"
      BY <1>0, <1>1 DEF RoutingTypes
    <2> QED
      BY <1>0, <2>1 DEF RoutingInv, Tested, Routing!Active
  <1>5. \A x \in Advancers : Chooses(x)'
    BY <1>0 DEF RoutingInv, Chooses
  <1> QED
    BY <1>0, <1>3, <1>4, <1>5, OthersMove

LEMMA ReadReplayHolds == ASSUME RoutingInv, NEW a \in Advancers, NEW p \in Replays, Routing!ReadReplay(a, p) PROVE RoutingInv'
  <1> DEFINE new == [at |-> "replay", p |-> p, judged |-> Routing!Judged(p)]
  <1>0. /\ RoutingTypes /\ answer' = Routing!Queued(Routing!CaseCalls(p)) /\ local' = [local EXCEPT ![a] = new]
        /\ UNCHANGED <<lab, recipe, request, replay, change, goals>>
    BY DEF RoutingInv, Routing!ReadReplay, Routing!slow
  <1>1. Routing!Judged(p) \in SUBSET Requests
    BY <1>0 DEF RoutingTypes, ReplayType, Routing!Judged
  <1>2. new \in Judges /\ new.at = "replay"
    BY <1>1 DEF Judges
  <1> HIDE DEF new
  <1>3. /\ answer' \in [Routing!Calls -> {None, "queued", "expected", "other"} \cup Recipes]
        /\ \A x \in Replays : Tested(x)'
    BY <1>0, AskedOnce
  <1>4. RoutingTypes'
    BY <1>0, <1>2, <1>3 DEF RoutingTypes, Routing!Calls
  <1>5. ASSUME NEW x \in Advancers PROVE Chooses(x)'
    <2>1. new \notin LooksAt
      BY <1>2 DEF LooksAt
    <2> QED
      BY <1>0, <2>1 DEF RoutingInv, RoutingTypes, Chooses
  <1> QED
    BY <1>0, <1>3, <1>4, <1>5, OthersMove

LEMMA WriteReplayHolds == ASSUME RoutingInv, NEW a \in Advancers, Routing!WriteReplay(a) PROVE RoutingInv'
  <1> DEFINE p == local[a].p
             judged == local[a].judged
  <1>0. /\ RoutingTypes /\ local[a] # None /\ local[a].at = "replay" /\ local' = [local EXCEPT ![a] = None]
        /\ UNCHANGED <<lab, recipe, request, answer, change, goals>>
        /\ replay' = IF replay[p].st # "pending" THEN replay
                     ELSE [replay EXCEPT ![p] = [replay[p] EXCEPT !.judged = judged, !.st = Routing!Verdict(p, judged)]]
    BY DEF RoutingInv, Routing!WriteReplay, Routing!slow
  <1>1. p \in Replays /\ judged \in SUBSET Requests
    BY <1>0 DEF RoutingTypes, LooksAt, Judges
  <1>2. replay[p] \in ReplayType
    BY <1>0, <1>1 DEF RoutingTypes
  <1>3. /\ Routing!Verdict(p, judged) \in {"pending", "passed", "failed"}
        /\ Routing!Verdict(p, judged) = "passed" => \A q \in replay[p].cases : answer[<<p, q>>] = "expected"
    BY DEF Routing!Verdict, Routing!AllPassed
  <1> DEFINE st == Routing!Verdict(p, judged)
             new == [replay[p] EXCEPT !.judged = judged, !.st = st]
  <1> HIDE DEF st, p, judged
  <1>4. /\ new \in ReplayType /\ new.st = st /\ new.snap = replay[p].snap /\ new.version = replay[p].version
        /\ new.cand = replay[p].cand /\ new.cases = replay[p].cases
    BY <1>1, <1>2, <1>3 DEF ReplayType, st
  <1>5. replay' = replay \/ (replay[p].st = "pending" /\ replay' = [replay EXCEPT ![p] = new])
    BY <1>0 DEF st
  <1> HIDE DEF new
  <1>6. RoutingTypes'
    BY <1>0, <1>1, <1>4, <1>5 DEF RoutingTypes, Routing!Calls
  <1>7. ASSUME NEW x \in Replays PROVE Tested(x)'
    <2>1. CASE replay' = replay
      BY <1>0, <2>1 DEF RoutingInv, Tested, Routing!Active
    <2>2. CASE replay[p].st = "pending" /\ replay' = [replay EXCEPT ![p] = new] /\ x = p
      <3>1. replay'[p] = new /\ Tested(p) /\ replay[p].st # None
        BY <1>0, <1>1, <2>2, RoutingAssumption DEF RoutingInv, RoutingTypes
      <3> QED
        BY <1>0, <1>3, <1>4, <2>2, <3>1 DEF Tested, Routing!Active, st
    <2>3. CASE replay' = [replay EXCEPT ![p] = new] /\ x # p
      BY <1>0, <2>3 DEF RoutingInv, RoutingTypes, Tested, Routing!Active
    <2> QED
      BY <1>5, <2>1, <2>2, <2>3
  <1>8. \A x \in Advancers : Chooses(x)'
    BY <1>0, RoutingAssumption DEF RoutingInv, RoutingTypes, Chooses, LooksAt
  <1> QED
    BY <1>0, <1>6, <1>7, <1>8, OthersMove

LEMMA RoutingStart == ASSUME RoutingInit PROVE RoutingInv
  <1>1. /\ recipe = [r \in Recipes |-> IF r \in Seeds THEN "active" ELSE None]
        /\ replay = [p \in Replays |-> Routing!Empty] /\ answer = [c \in Routing!Calls |-> None]
        /\ local = [a \in Advancers |-> None] /\ change = [q \in Requests |-> None] /\ goals = [q \in Requests |-> 0]
        /\ New \/ \E project \in BOOLEAN : Later(project)
    BY DEF RoutingInit
  <1>2. /\ Routing!Empty \in ReplayType /\ Routing!Empty.st = None /\ Routing!Empty.version = 0
    BY DEF Routing!Empty, ReplayType
  <1>3. Routing!NoFallback \in FallbackType /\ Routing!NoFallback.st = None /\ Routing!NoFallback.change = None
    BY DEF Routing!NoFallback, FallbackType, ChangeType
  <1>4. Routing!Blank \in RequestType /\ Routing!Blank.st = None /\ Routing!Blank.fb = Routing!NoFallback
    BY <1>3 DEF Routing!Blank, RequestType
  <1>5. ASSUME NEW q \in Requests
        PROVE  Escalated(q) \in RequestType /\ Escalated(q).st = "escalated" /\ Escalated(q).fb = Routing!NoFallback
    BY <1>3, RoutingAssumption DEF Escalated, Routing!Blank, RequestType
  <1>6. lab \in LabType /\ lab.version = 1
    <2>1. CASE New
      BY <2>1 DEF New, LabType
    <2>2. CASE \E project \in BOOLEAN : Later(project)
      BY <2>2 DEF Later, LabType
    <2> QED
      BY <1>1, <2>1, <2>2
  <1>7. request \in [Requests -> RequestType] /\ \A q \in Requests : request[q].st # "completed"
          /\ request[q].fb = Routing!NoFallback
    <2>1. CASE New
      BY <1>4, <2>1, RoutingAssumption DEF New
    <2>2. CASE \E project \in BOOLEAN : Later(project)
      BY <1>5, <2>2 DEF Later
    <2> QED
      BY <1>1, <2>1, <2>2
  <1>8. RoutingTypes
    BY <1>1, <1>2, <1>6, <1>7 DEF RoutingTypes
  <1>9. ASSUME NEW p \in Replays PROVE Tested(p)
    BY <1>1, <1>2, <1>6, RoutingAssumption DEF Tested
  <1>10. ASSUME NEW a \in Advancers PROVE Chooses(a)
    BY <1>1, RoutingAssumption DEF Chooses, LooksAt
  <1>11. ASSUME NEW q \in Requests PROVE Named(q) /\ Handed(q)
    BY <1>1, <1>3, <1>7, RoutingAssumption DEF Named, Handed
  <1> QED
    BY <1>8, <1>9, <1>10, <1>11 DEF RoutingInv

LEMMA RoutingStep == ASSUME RoutingInv, Routing!Next PROVE RoutingInv'
  BY SubmitHolds, ConfigureHolds, ResolveHolds, ClaimsHolds, CompleteHolds, FailHolds, FreezeCasesHolds, DispatchHolds,
     VerifiedHolds, PostGoalHolds, PostPlanHolds, FeedbackHolds, PauseHolds, ProposeHolds, PublishHolds, StartReplayHolds,
     ReplayCandidateHolds, LinkReplayHolds, QueueHolds, MarkHolds, JudgeHolds, FinishHolds, WriteReplayHolds,
     RoutingLookHolds, ReadReplayHolds, AnswerHolds, RestartHolds
  DEF Routing!Next

LEMMA RoutingStutters == ASSUME RoutingInv, UNCHANGED routing PROVE RoutingInv'
  BY DEF routing, RoutingInv, RoutingTypes, Tested, Chooses, Named, Handed, Routing!Active, Routing!Calls

LEMMA ActivatedByPublish ==
    ASSUME RoutingInv, Routing!Next, NEW r \in Recipes, recipe[r] # "active", recipe'[r] = "active"
    PROVE  \E p \in Replays : Routing!Publish(r, p)
  <1>0. RoutingTypes
    BY DEF RoutingInv
  <1>1. CASE UNCHANGED recipe
    BY <1>1
  <1>2. ASSUME NEW q \in Requests, NEW good \in BOOLEAN, Routing!Feedback(q, good) PROVE FALSE
    BY <1>2 DEF Routing!Feedback
  <1>3. ASSUME NEW s \in Recipes, Routing!Pause(s) PROVE FALSE
    BY <1>0, <1>3 DEF Routing!Pause, RoutingTypes
  <1>4. ASSUME NEW s \in Recipes, NEW q \in Requests, Routing!Propose(s, q) PROVE FALSE
    BY <1>0, <1>4 DEF Routing!Propose, RoutingTypes
  <1>5. ASSUME NEW q \in Requests, Routing!Complete(q) PROVE FALSE
    BY <1>5 DEF Routing!Complete
  <1>6. ASSUME NEW s \in Recipes, NEW p \in Replays, Routing!Publish(s, p) PROVE s = r
    BY <1>0, <1>6 DEF Routing!Publish, RoutingTypes
  <1> QED
    BY <1>1, <1>2, <1>3, <1>4, <1>5, <1>6
    DEF Routing!Next, Routing!Submit, Routing!Configure, Routing!Resolve, Routing!Claim, Routing!Fail, Routing!FreezeCases,
        Routing!Dispatch, Routing!Verified, Routing!PostGoal, Routing!PostPlan, Routing!StartReplay, Routing!ReplayCandidate,
        Routing!LinkReplay, Routing!Queue, Routing!Mark, Routing!Judge, Routing!Finish, Routing!WriteReplay, Routing!Look,
        Routing!ReadReplay, Routing!Answer, Routing!Restart

LEMMA PublishedStep ==
    ASSUME RoutingInv, Routing!Next, NEW r \in Recipes, recipe[r] # "active", recipe'[r] = "active"
    PROVE  \E p \in Replays : /\ replay[p].cand = r /\ replay[p].snap = Routing!Active \cup {r}
                              /\ \A q \in replay[p].cases : answer[<<p, q>>] = "expected"
  <1>1. PICK p \in Replays : Routing!Publish(r, p)
    BY ActivatedByPublish
  <1>2. replay[p].cand = r /\ replay[p].st = "passed" /\ replay[p].version = lab.version
    BY <1>1 DEF Routing!Publish, Routing!Publishable, Routing!PassedOnce
  <1>3. Tested(p)
    BY DEF RoutingInv
  <1> QED
    BY <1>2, <1>3, RoutingAssumption DEF Tested

LEMMA FbKeeps ==
    ASSUME RoutingTypes, NEW o \in Requests, NEW fields, Routing!FbSet(o, fields), NEW q \in Requests
    PROVE  request'[q].st = request[q].st /\ request'[q].labelled = request[q].labelled
  BY FbSetGives

LEMMA SaveKeeps ==
    ASSUME RoutingTypes, NEW o \in Requests, NEW fields, Routing!Save(o, fields), NEW q \in Requests
    PROVE  /\ q # o => request'[q] = request[q]
           /\ "labelled" \notin DOMAIN fields => request'[q].labelled = request[q].labelled
           /\ "st" \notin DOMAIN fields => request'[q].st = request[q].st
           /\ q = o /\ "st" \in DOMAIN fields => request'[q].st = fields.st
           /\ q = o /\ "sel" \in DOMAIN fields => request'[q].sel = fields.sel
  BY SaveGives

LEMMA FastStep ==
    ASSUME RoutingInv, Routing!Next, NEW q \in Requests
    PROVE  /\ Routing!Unrouted(q) /\ request'[q].st = "completed" => request'[q].sel \in request[q].snap \cap Routing!Active
           /\ ~request[q].labelled /\ request'[q].labelled /\ request'[q].st = "escalated" /\ request[q].st = "completed"
                /\ request[q].src \in {"rule", "jev"} => recipe'[request[q].sel] # "active"
  <1> DEFINE Same == request'[q].st = request[q].st /\ request'[q].labelled = request[q].labelled
             Fast == Routing!Unrouted(q)
               /\ request'[q].st = "completed" => request'[q].sel \in request[q].snap \cap Routing!Active
             Wrong == ~request[q].labelled /\ request'[q].labelled /\ request'[q].st = "escalated"
               /\ request[q].st = "completed"
                        /\ request[q].src \in {"rule", "jev"} => recipe'[request[q].sel] # "active"
  <1>0. RoutingTypes
    BY DEF RoutingInv
  <1>1. Same => Fast /\ Wrong
    BY DEF Routing!Unrouted
  <1>2. ASSUME NEW o \in Requests, NEW w, Routing!Submit(o, w) PROVE Fast /\ Wrong
    <2> DEFINE f == [st |-> "queued", wants |-> w, snap |-> Routing!Active]
    <2>1. Routing!Save(o, f) /\ DOMAIN f = {"st", "wants", "snap"} /\ f.st = "queued"
      BY <1>2 DEF Routing!Submit
    <2> HIDE DEF f
    <2>2. request'[q].labelled = request[q].labelled /\ (request'[q].st = "queued" \/ request'[q].st = request[q].st)
      BY <1>0, <2>1, SaveKeeps
    <2> QED
      BY <2>2 DEF Routing!Unrouted
  <1>3. ASSUME NEW o \in Requests, Routing!Resolve(o) PROVE Fast /\ Wrong
    <2> DEFINE f == [st |-> "completed", src |-> "system2"]
    <2>1. Routing!Save(o, f) /\ DOMAIN f = {"st", "src"} /\ request[o].st = "escalated"
      BY <1>3 DEF Routing!Resolve
    <2> HIDE DEF f
    <2>2. request'[q].labelled = request[q].labelled /\ (q # o => request'[q].st = request[q].st)
      BY <1>0, <2>1, SaveKeeps
    <2> QED
      BY <2>1, <2>2 DEF Routing!Unrouted
  <1>4. ASSUME NEW o \in Requests, Routing!Complete(o) PROVE Fast /\ Wrong
    <2>1. request[o].st = "escalated" /\ \E f : Routing!Save(o, f) /\ DOMAIN f = {"st", "src", "fb"}
      BY <1>4 DEF Routing!Complete, Routing!Running, Routing!Fallback, RoutingInv, Named
    <2>2. request'[q].labelled = request[q].labelled /\ (q # o => request'[q].st = request[q].st)
      BY <1>0, <2>1, SaveKeeps
    <2> QED
      BY <2>1, <2>2 DEF Routing!Unrouted
  <1>5. ASSUME NEW o \in Requests, NEW good \in BOOLEAN, Routing!Feedback(o, good) PROVE Fast /\ Wrong
    <2>1. request[o].st \notin {"queued", "routing"}
      BY <1>5 DEF Routing!Feedback, Routing!Unrouted
    <2>2. CASE q # o
      <3>1. \E f : Routing!Save(o, f)
        BY <1>5 DEF Routing!Feedback
      <3> QED
        BY <1>0, <1>1, <2>2, <3>1, SaveKeeps
    <2>3. CASE q = o /\ good
      <3> DEFINE f == [labelled |-> TRUE]
      <3>1. Routing!Save(q, f) /\ DOMAIN f = {"labelled"}
        BY <1>5, <2>3 DEF Routing!Feedback
      <3> HIDE DEF f
      <3>2. request'[q].st = request[q].st
        BY <1>0, <3>1, SaveKeeps
      <3> QED
        BY <3>2 DEF Routing!Unrouted
    <2>4. CASE q = o /\ ~good
      <3>1. recipe' = [r \in Recipes |-> IF r \in Routing!Paused(q) THEN "paused" ELSE recipe[r]]
        BY <1>5, <2>4 DEF Routing!Feedback
      <3>2. request[q].st = "completed" /\ request[q].src \in {"rule", "jev"} => request[q].sel \in Recipes
        BY DEF RoutingInv, Named
      <3>3. request[q].sel \in Recipes => recipe'[request[q].sel] # "active"
        BY <3>1 DEF Routing!Paused, Routing!Active
      <3> QED
        BY <2>1, <2>4, <3>2, <3>3 DEF Routing!Unrouted
    <2> QED
      BY <2>2, <2>3, <2>4
  <1>6. ASSUME NEW a \in Advancers, Routing!Mark(a) PROVE Fast /\ Wrong
    <2>1. local[a].q \in Requests
      BY <1>0, <1>6, LookingType DEF Routing!Mark, LooksAt
    <2>2. CASE UNCHANGED request
      BY <1>1, <2>2
    <2>3. CASE Routing!Save(local[a].q, [st |-> "routing"])
      <3> DEFINE f == [st |-> "routing"]
      <3>1. Routing!Save(local[a].q, f) /\ DOMAIN f = {"st"} /\ f.st = "routing"
        BY <2>3
      <3> HIDE DEF f
      <3>2. request'[q].labelled = request[q].labelled /\ (request'[q].st = "routing" \/ request'[q].st = request[q].st)
        BY <1>0, <2>1, <3>1, SaveKeeps
      <3> QED
        BY <3>2 DEF Routing!Unrouted
    <2> QED
      BY <1>6, <2>2, <2>3 DEF Routing!Mark
  <1>7. ASSUME NEW a \in Advancers, Routing!Finish(a) PROVE Fast /\ Wrong
    <2>1. local[a] \in LooksAt /\ local[a].q \in Requests
      BY <1>0, <1>7, LookingType DEF Routing!Finish, LooksAt
    <2>2. CASE UNCHANGED request
      BY <1>1, <2>2
    <2>3. CASE ~UNCHANGED request
      <3>1. PICK st \in IF Routing!Executable(local[a].q, local[a].sel) THEN {"completed", "escalated"} ELSE {"escalated"} :
              Routing!Save(local[a].q, [st |-> st, src |-> IF answer[local[a].q] = None THEN "rule" ELSE "jev",
                sel |-> local[a].sel])
        BY <1>7, <2>3 DEF Routing!Finish
      <3> DEFINE f == [st |-> st, src |-> IF answer[local[a].q] = None THEN "rule" ELSE "jev", sel |-> local[a].sel]
      <3>2. Routing!Save(local[a].q, f) /\ DOMAIN f = {"st", "src", "sel"} /\ f.st = st /\ f.sel = local[a].sel
        BY <3>1
      <3> HIDE DEF f
      <3>3. /\ request'[q].labelled = request[q].labelled /\ (q # local[a].q => request'[q].st = request[q].st)
            /\ q = local[a].q => request'[q].st = st /\ request'[q].sel = local[a].sel
        BY <1>0, <2>1, <3>2, SaveKeeps
      <3>4. st = "completed" => local[a].sel \in Routing!Active
        BY <3>1 DEF Routing!Executable
      <3>5. local[a].sel \in request[local[a].q].snap \cup {None}
        BY <2>1 DEF RoutingInv, Chooses
      <3>6. Routing!Active \subseteq Recipes
        BY DEF Routing!Active
      <3> QED
        BY <3>3, <3>4, <3>5, <3>6, RoutingAssumption DEF Routing!Unrouted
    <2> QED
      BY <2>2, <2>3
  <1>8. ASSUME Routing!Restart PROVE Fast /\ Wrong
    <2>1. request'[q].st = request[q].st /\ request'[q].labelled = request[q].labelled
      BY <1>0, <1>8 DEF Routing!Restart, RoutingTypes, RequestType
    <2> QED
      BY <1>1, <2>1
  <1>9. ASSUME NEW o \in Requests, NEW f, Routing!FbSet(o, f) PROVE Fast /\ Wrong
    BY <1>0, <1>1, <1>9, FbKeeps
  <1>10. ASSUME UNCHANGED request PROVE Fast /\ Wrong
    BY <1>1, <1>10
  <1>11. ASSUME NEW o \in Requests,
                Routing!Claim(o) \/ Routing!Fail(o) \/ Routing!FreezeCases(o) \/ Routing!Dispatch(o) \/ Routing!Verified(o)
                  \/ Routing!PostGoal(o) \/ Routing!PostPlan(o) \/ \E p \in Replays : Routing!LinkReplay(o, p)
         PROVE  Fast /\ Wrong
    <2>1. UNCHANGED request \/ \E f : Routing!FbSet(o, f)
      BY <1>11 DEF Routing!Claim, Routing!Fail, Routing!FreezeCases, Routing!Dispatch, Routing!Verified, Routing!PostGoal,
                   Routing!PostPlan, Routing!LinkReplay, Routing!Changed
    <2> QED
      BY <1>9, <1>10, <2>1
  <1> QED
    <2> HIDE DEF Fast, Wrong
    <2>1. \/ UNCHANGED request \/ Routing!Restart
          \/ \E o \in Requests, w \in {"jev", "slow"} \cup Recipes : Routing!Submit(o, w)
          \/ \E o \in Requests, good \in BOOLEAN : Routing!Feedback(o, good)
          \/ \E a \in Advancers : Routing!Mark(a) \/ Routing!Finish(a)
          \/ \E o \in Requests : Routing!Resolve(o) \/ Routing!Complete(o)
          \/ \E o \in Requests :
                Routing!Claim(o) \/ Routing!Fail(o) \/ Routing!FreezeCases(o) \/ Routing!Dispatch(o) \/ Routing!Verified(o)
                  \/ Routing!PostGoal(o) \/ Routing!PostPlan(o) \/ \E p \in Replays : Routing!LinkReplay(o, p)
      BY DEF Routing!Next, Routing!Configure, Routing!Pause, Routing!Propose, Routing!Publish, Routing!StartReplay,
          Routing!ReplayCandidate, Routing!Queue, Routing!Judge, Routing!WriteReplay, Routing!Look, Routing!ReadReplay,
            Routing!Answer
    <2>2. Fast /\ Wrong
      <3>1. CASE request' = request
        BY <1>10, <3>1
      <3>6. CASE Routing!Restart
        BY <1>8, <3>6
      <3>2. CASE \E o \in Requests, w \in {"jev", "slow"} \cup Recipes : Routing!Submit(o, w)
        BY <1>2, <3>2
      <3>3. CASE \E o \in Requests, good \in BOOLEAN : Routing!Feedback(o, good)
        BY <1>5, <3>3
      <3>4. CASE \E a \in Advancers : Routing!Mark(a) \/ Routing!Finish(a)
        BY <1>6, <1>7, <3>4
      <3>5. CASE \E o \in Requests : Routing!Resolve(o) \/ Routing!Complete(o)
        BY <1>3, <1>4, <3>5
      <3> QED
        BY <1>11, <2>1, <3>1, <3>2, <3>3, <3>4, <3>5, <3>6
    <2> QED
      BY <2>2 DEF Fast, Wrong

(* Whatever a lab publishes was tested with the catalogue it joins, what it answers at once is *)
(* approved and in the catalogue of the request, a wrong answer's recipe is out of use, and    *)
(* the other Project gets one Goal for a request at most: for any number of requests, recipes, *)
(* replays, threads, commands and restarts (routing.py, advance and recover).                  *)
THEOREM LabIsTrue == RequestsSpec => RoutingHolds
  <1>1. RequestsInit => RoutingInv
    BY RoutingStart DEF RequestsInit
  <1>2. RoutingInv /\ [RequestsNext]_<<part, vars, routing, connector>> => RoutingInv' /\ [Routing!Next]_routing
    BY RoutingStep, RoutingStutters DEF RequestsNext
  <1>3. RoutingInv => Routing!HandoffTrue
    BY RoutingAssumption DEF RoutingInv, Handed, Routing!HandoffTrue, Routing!Fallback
  <1> DEFINE Pub == \A r \in Recipes : recipe[r] # "active" /\ recipe'[r] = "active" =>
                        \E p \in Replays : /\ replay[p].cand = r /\ replay[p].snap = Routing!Active \cup {r}
                                           /\ \A q \in replay[p].cases : answer[<<p, q>>] = "expected"
             Fast == \A q \in Requests :
                        /\ Routing!Unrouted(q)
                           /\ request'[q].st = "completed" => request'[q].sel \in request[q].snap \cap Routing!Active
                        /\ ~request[q].labelled /\ request'[q].labelled /\ request'[q].st = "escalated"
                           /\ request[q].st = "completed"
                             /\ request[q].src \in {"rule", "jev"} => recipe'[request[q].sel] # "active"
  <1>4. RoutingInv /\ [Routing!Next]_routing => [Pub]_(Routing!vars) /\ [Fast]_(Routing!vars)
    <2>1. ASSUME RoutingInv, Routing!Next PROVE Pub
      BY <2>1, PublishedStep
    <2>2. ASSUME RoutingInv, Routing!Next PROVE Fast
      BY <2>2, FastStep
    <2> HIDE DEF Pub, Fast
    <2> QED
      BY <2>1, <2>2 DEF routing, Routing!vars
  <1>5. RequestsSpec => [][Pub]_(Routing!vars) /\ [][Fast]_(Routing!vars) /\ []Routing!HandoffTrue
    <2> HIDE DEF Pub, Fast
    <2> QED
      BY <1>1, <1>2, <1>3, <1>4, PTL DEF RequestsSpec
  <1> QED
    BY <1>5 DEF RoutingHolds, Routing!RoutingHolds, Routing!PublishedTested, Routing!FastAnswers
=============================================================================
