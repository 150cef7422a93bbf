---------------------------- MODULE NoteDecisions ----------------------------
(* Notes on a Goal or a Run: their discussion, and a decision whose operation runs   *)
(* between two transactions, while the client sends the same decision again.         *)
EXTENDS Naturals

CONSTANTS
    Notes,
    Keys,               \* idempotency keys, one for each decision a client sends
    MaxMessages, MaxMoves, MaxCrashes,  \* bounds of the model
    None

ASSUME NoteAssumption == None \notin Keys \cup {"execute", "begun", "done", "failed"}

VARIABLES
    note,       \* [status, token, by]: by is the key that decided it
    source,     \* what the note was made on: "running", "paused" or "gone"
    sent,       \* the decision sent under a key: [note, action, token]
    claimed,    \* the keys with the receipt of a decision that was started
    answered,   \* the keys with the receipt of its response
    op,         \* the operation under a key: None, "begun", "done" or "failed"
    pc,         \* the request that executes it
    begun,      \* operations begun for a note
    completed,  \* NoteDecisionCompleted events of a note
    messages, moves, crashes

state == <<note, source, claimed, answered, op, pc, begun, completed>>
vars == <<state, sent, messages, moves, crashes>>
----------------------------------------------------------------------------
Actions == {"resolve", "continue", "propose_process", "revise_plan"}
Planned(k) == sent[k].action \in {"propose_process", "revise_plan"}
\* the executor of a reply or a human Check does not await: the server's loop is held
Held == \E k \in Keys : pc[k] # None /\ ~Planned(k)

Init ==
    /\ note = [n \in Notes |-> [status |-> "open", token |-> 0, by |-> None]]
    /\ source = [n \in Notes |-> "running"] /\ sent = [k \in Keys |-> None]
    /\ claimed = {} /\ answered = {} /\ op = [k \in Keys |-> None] /\ pc = [k \in Keys |-> None]
    /\ begun = [n \in Notes |-> 0] /\ completed = [n \in Notes |-> 0]
    /\ messages = 0 /\ moves = 0 /\ crashes = 0

\* a Run pauses or resumes; it ends, or its plan or process changes
SourceMoves(n, s) ==
    /\ moves < MaxMoves /\ moves' = moves + 1 /\ source[n] # "gone" /\ source[n] # s
    /\ source' = [source EXCEPT ![n] = s]
    /\ UNCHANGED <<note, sent, claimed, answered, op, pc, begun, completed, messages, crashes>>

\* the event is the new request token
Message(n) ==
    /\ messages < MaxMessages /\ messages' = messages + 1 /\ note[n].status = "open"
    /\ note' = [note EXCEPT ![n].token = @ + 1]
    /\ UNCHANGED <<source, sent, claimed, answered, op, pc, begun, completed, moves, crashes>>

\* a client writes a decision on the note it has read
Write(k, n, action) ==
    /\ sent[k] = None /\ sent' = [sent EXCEPT ![k] = [note |-> n, action |-> action, token |-> note[n].token]]
    /\ UNCHANGED <<state, messages, moves, crashes>>

Refused(n, action) ==
    \/ action # "resolve" /\ source[n] = "gone"
    \/ action = "revise_plan" /\ source[n] # "paused"
Open(n, token) == note[n].status = "open" /\ note[n].token = token
Decide(k) ==
    /\ sent[k] # None /\ k \notin claimed /\ ~Held
    /\ LET n == sent[k].note IN
       /\ Open(n, sent[k].token) /\ ~Refused(n, sent[k].action)
       /\ note' = [note EXCEPT ![n] = [status |-> "pending", token |-> @.token + 1, by |-> k]]
       /\ claimed' = claimed \cup {k} /\ pc' = [pc EXCEPT ![k] = "execute"]
    /\ UNCHANGED <<source, sent, answered, op, begun, completed, messages, moves, crashes>>

\* the executor's first transaction: a reply, a human decision, a draft or a planning turn
Begin(k) ==
    /\ pc[k] = "execute" /\ sent[k].action # "resolve" /\ op[k] = None
    /\ op' = [op EXCEPT ![k] = IF Planned(k) THEN "begun" ELSE "done"] /\ begun' = [begun EXCEPT ![sent[k].note] = @ + 1]
    /\ UNCHANGED <<note, source, sent, claimed, answered, pc, completed, messages, moves, crashes>>

Planner(k, outcome) ==
    /\ op[k] = "begun" /\ pc[k] = "execute" /\ op' = [op EXCEPT ![k] = outcome]
    /\ UNCHANGED <<note, source, sent, claimed, answered, pc, begun, completed, messages, moves, crashes>>

\* NoteDecisionFailed, whatever was raised: the outcome is unknown, the note stays pending
Raises(k) ==
    /\ pc[k] = "execute" /\ sent[k].action # "resolve"
    /\ ~Planned(k) \/ op[k] \in {None, "failed"}
    /\ pc' = [pc EXCEPT ![k] = None] /\ note' = [note EXCEPT ![sent[k].note].status = "pending"]
    /\ UNCHANGED <<source, sent, claimed, answered, op, begun, completed, messages, moves, crashes>>

\* NoteDecisionCompleted with the receipt of the response
Complete(k) ==
    LET n == sent[k].note IN
    /\ note' = [note EXCEPT ![n].status = "resolved", ![n].token = @ + 1]
    /\ completed' = [completed EXCEPT ![n] = @ + 1] /\ answered' = answered \cup {k}

\* mutant: the request that was overtaken completes the note again
Unanswered(k) == TRUE
Overtaken(k) == k \notin answered
Finish(k) ==
    /\ pc[k] = "execute" /\ (sent[k].action = "resolve" \/ op[k] = "done") /\ pc' = [pc EXCEPT ![k] = None]
    /\ \/ Overtaken(k) /\ Complete(k)
       \/ ~Overtaken(k) /\ UNCHANGED <<note, completed, answered>>
    /\ UNCHANGED <<source, sent, claimed, op, begun, messages, moves, crashes>>

Outcome(k) == op[k] = "done"
\* the decision is sent again: an outcome that is recorded completes it, an operation is never repeated
Retry(k) ==
    /\ k \in claimed /\ k \notin answered /\ ~Held
    /\ note[sent[k].note].status = "pending" /\ Outcome(k) /\ Complete(k)
    /\ UNCHANGED <<source, sent, claimed, op, pc, begun, messages, moves, crashes>>

Crash ==
    /\ crashes < MaxCrashes /\ crashes' = crashes + 1 /\ pc' = [k \in Keys |-> None]
    /\ UNCHANGED <<note, source, sent, claimed, answered, op, begun, completed, messages, moves>>

Next ==
    \/ \E n \in Notes : Message(n) \/ \E s \in {"running", "paused", "gone"} : SourceMoves(n, s)
    \/ \E k \in Keys : \E n \in Notes, action \in Actions : Write(k, n, action)
    \/ \E k \in Keys : Decide(k) \/ Begin(k) \/ Raises(k) \/ Finish(k) \/ Retry(k)
    \/ \E k \in Keys, outcome \in {"done", "failed"} : Planner(k, outcome)
    \/ Crash
Spec == Init /\ [][Next]_vars
----------------------------------------------------------------------------
(* What the events say of a note, its source and its receipts.                     *)

\* pending and resolved are the outcome of a decision, whose request token is the note's
NoteDocument(n) ==
    /\ note[n].status \in {"open", "pending", "resolved"} /\ (note[n].status = "open") = (note[n].by = None)
    /\ note[n].by # None => note[n].by \in claimed /\ sent[note[n].by].note = n
    /\ note[n].status = "resolved" => note[n].by \in answered
\* a note that was resolved once had a source that was there when it was decided
Source(n) == source[n] \in {"running", "paused", "gone"} /\ (begun[n] > 0 => note[n].status # "open")
\* a receipt is written once, and the receipt of a response follows the one of its decision
Receipts == answered \subseteq claimed /\ \A k \in Keys : (pc[k] # None \/ op[k] # None) => k \in claimed
Recorded == Receipts /\ \A n \in Notes : NoteDocument(n) /\ Source(n)

(* Properties.                                                                     *)

\* However often a decision is sent, by how many clients and whenever the host dies: at most one
\* operation is begun for a note, the note is resolved once, with that operation's outcome, and
\* a client that was told so is not contradicted later.
ResolvedOnce == Recorded /\ \A n \in Notes :
    /\ begun[n] <= 1 /\ completed[n] <= 1
    /\ note[n].status = "resolved" => sent[note[n].by].action = "resolve" \/ op[note[n].by] = "done"
    /\ \A k \in answered : sent[k].note = n => note[n].status = "resolved" /\ note[n].by = k
=============================================================================
