-------------------------- MODULE Sessions_proofs --------------------------
(***************************************************************************)
(* What Agents read of each other, for any number of them, any page size,  *)
(* and any publications, messages, ends and crashes; and, at the end, what *)
(* the threads of the local host keep of one Run, for any plan, any Checks *)
(* of its Gates, any commands, crashes and restores.                       *)
(***************************************************************************)
EXTENDS MCSessions, FiniteSetTheorems, WellFoundedInduction, TLAPS

Entry == [type : {"opened", "joined"} \cup Entries, phase : {PhaseOf[a] : a \in Attempts},
          by : Attempts \cup {None}, key : Keys \cup {None}]
Pages == [kind : {"page"}, after : Nat, next : Nat, entries : SUBSET Nat]
Mails == [kind : {"mail"}, id : Ids]
Trace == [turn : BOOLEAN, received : Seq(Pages \cup Mails), results : SUBSET Ids, ended : BOOLEAN]
Mail == [from : Attempts, to : Attempts, status : {"pending", "delivered", "read"}]
Working == {"turn", "acknowledge", "tool", "executed", "settling"}
Away == {"none", "joined", "done"}

TypeInv ==
    /\ status \in [Attempts -> {"pending", "running", "over"}]
    /\ log \in Seq(Entry)
    /\ mail \in [Ids -> Mail \cup {None}]
    /\ trace \in [Attempts -> Trace]
    /\ pc \in [Attempts -> Working \cup Away]
    /\ queued \in [Attempts -> SUBSET (Pages \cup Mails)]
    /\ call = [a \in Attempts |-> call[a]]

\* what a task knows at the place where it is
Placed(a) ==
    /\ pc[a] # "none" => status[a] # "pending"
    /\ pc[a] \in Working => trace[a].turn
    /\ trace[a].turn => status[a] # "pending"
    /\ ~trace[a].turn => trace[a].received = <<>> /\ trace[a].results = {} /\ ~trace[a].ended
    /\ pc[a] = "tool" => call[a] \in Tools(a)
    /\ pc[a] = "executed" => call[a].ids \subseteq Ids
PlaceInv == \A a \in Attempts : Placed(a)

\* who works in a phase has opened it
LogInv ==
    /\ \A i \in DOMAIN log : PublishedDocument(i)
    /\ \A a \in Attempts : pc[a] \in Working \cup {"joined"} /\ PhaseOf[a] # None => Opened(PhaseOf[a])

\* every entry up to an offset was shown
Covered(a, to) ==
    \A i \in Published(PhaseOf[a], 0) : i <= to => \E m \in Is("page", Received(a)) : i \in m.entries
\* a steered page goes on where what was shown ends, and shows all up to its own end
Continues(a, m) ==
    /\ m.after <= m.next /\ m.next <= Len(log) /\ Covered(a, m.after)
    /\ \A i \in Published(PhaseOf[a], m.after) : i <= m.next => i \in m.entries
PagesOf(a) ==
    /\ \A m \in Is("page", Received(a)) : m.next <= Len(log) /\ Covered(a, m.next)
    /\ \A m \in Is("page", queued[a]) : Continues(a, m)
PageInv == \A a \in Attempts : PagesOf(a)

Got(a, m) == \E i \in DOMAIN trace[a].received : trace[a].received[i] = MailMessage(m)
Addressed(m, a) == mail[m] # None /\ mail[m].to = a
Acknowledges(a, m) == pc[a] = "acknowledge" /\ call[a] = MailMessage(m)
Returned(a, m) == pc[a] = "executed" /\ call[a].kind \in {"read", "wait"} /\ m \in call[a].ids

GotOnce == \A a \in Attempts : \A i, j \in DOMAIN trace[a].received :
    trace[a].received[i].kind = "mail" /\ trace[a].received[i] = trace[a].received[j] => i = j
\* a steered message is not shown yet, and both are messages to that session
Steered == \A a \in Attempts, m \in Ids :
    /\ MailMessage(m) \in queued[a] => Addressed(m, a) /\ ~Got(a, m)
    /\ Got(a, m) => Addressed(m, a)
Acknowledging == \A a \in Attempts : pc[a] = "acknowledge" =>
    \E m \in Ids : call[a] = MailMessage(m) /\ Got(a, m)
\* what the status of a message means for the session it was sent to
Shown(m) == mail[m] # None =>
    LET a == mail[m].to IN
    /\ SessionMessage(m)
    /\ mail[m].status # "pending" => trace[a].turn
    /\ mail[m].status = "delivered" => Got(a, m)
    /\ mail[m].status = "pending" /\ Got(a, m) => pc[a] \in Away \/ Acknowledges(a, m)
    /\ mail[m].status = "read" => m \in trace[a].results \/ Returned(a, m) \/ pc[a] \in Away
MailInv == GotOnce /\ Steered /\ Acknowledging /\ \A m \in Ids : Shown(m)

SessionInv == TypeInv /\ PlaceInv /\ LogInv /\ PageInv /\ MailInv
-----------------------------------------------------------------------------
(* Pages and cursors.                                                        *)

LEMMA GreatestIs ==
    ASSUME NEW S \in SUBSET Nat, S # {}, NEW n \in Nat, \A x \in S : x <= n
    PROVE  Greatest(S) \in S /\ \A y \in S : y <= Greatest(S)
<1> DEFINE R == OpToRel(<, Nat)
           T == {n - x : x \in S}
<1>1. IsWellFoundedOn(R, Nat)
  BY NatLessThanWellFounded
<1>2. T \subseteq Nat /\ T # {}
  <2>1. \A x \in S : n - x \in Nat
    OBVIOUS
  <2> QED
    BY <2>1
<1>3. PICK d \in T : \A e \in T : <<e, d>> \notin R
  <2> HIDE DEF R, T
  <2> QED
    BY <1>1, <1>2, WFMin
<1>4. \A e \in T : e \in Nat /\ d \in Nat /\ ~(e < d)
  BY <1>2, <1>3 DEF OpToRel
<1>5. PICK x \in S : d = n - x
  BY <1>3
<1>6. \A y \in S : y <= x
  <2> SUFFICES ASSUME NEW y \in S PROVE y <= x
    OBVIOUS
  <2>1. n - y \in T
    OBVIOUS
  <2> QED
    BY <1>4, <1>5, <2>1
<1> QED
  BY <1>6 DEF Greatest

LEMMA PageIs ==
    ASSUME TypeInv, NEW p, NEW after \in Nat, NEW page, page = Page(Published(p, after)), page # {}
    PROVE  /\ page \in SUBSET Nat /\ Greatest(page) \in 1..Len(log) /\ after < Greatest(page)
           /\ \A i \in Published(p, after) : i <= Greatest(page) => i \in page
<1> DEFINE S == Published(p, after)
<1>1. Len(log) \in Nat /\ DOMAIN log = 1..Len(log)
  BY DEF TypeInv
<1>2. S \subseteq 1..Len(log) /\ \A i \in S : after < i
  BY <1>1 DEF Published
<1>3. IsFiniteSet(S)
  <2>1. IsFiniteSet(1..Len(log))
    BY <1>1, FS_Interval
  <2> HIDE DEF S
  <2> QED
    BY <1>2, <2>1, FS_Subset
<1>4. page \subseteq S /\ page = {i \in S : Cardinality({j \in S : j <= i}) <= PageLimit}
  BY DEF Page
<1>5. Greatest(page) \in page
  <2>1. page \in SUBSET Nat /\ \A x \in page : x <= Len(log)
    BY <1>1, <1>2, <1>4
  <2> QED
    BY <1>1, <2>1, GreatestIs
<1>6. ASSUME NEW i \in S, i <= Greatest(page) PROVE i \in page
  <2> DEFINE g == Greatest(page)
             A == {j \in S : j <= i}
             B == {j \in S : j <= g}
  <2>1. IsFiniteSet(B) /\ IsFiniteSet(A)
    BY <1>3, FS_Subset
  <2>2. A \subseteq B
    BY <1>1, <1>2, <1>4, <1>5, <1>6
  <2>3. Cardinality(A) <= Cardinality(B) /\ Cardinality(A) \in Nat /\ Cardinality(B) \in Nat
    BY <2>1, <2>2, FS_Subset, FS_CardinalityType
  <2>4. Cardinality(B) <= PageLimit /\ PageLimit \in Nat
    BY <1>4, <1>5, SessionAssumption
  <2> QED
    BY <1>4, <2>3, <2>4
<1>7. page \in SUBSET Nat /\ Greatest(page) \in S
  BY <1>1, <1>2, <1>4, <1>5
<1>8. Greatest(page) \in 1..Len(log) /\ after < Greatest(page)
  BY <1>2, <1>7
<1> QED
  BY <1>6, <1>7, <1>8

LEMMA CursorIs ==
    ASSUME TypeInv, PageInv, NEW a \in Attempts
    PROVE  Cursor(a) \in Nat /\ Covered(a, Cursor(a))
<1> DEFINE M == Is("page", Received(a))
           S == {0} \cup {m.next : m \in M}
<1>1. Len(log) \in Nat /\ DOMAIN log = 1..Len(log)
  BY DEF TypeInv
<1>2. \A m \in M : m \in Pages /\ m.next \in Nat
  BY DEF TypeInv, Trace, Received, Is, Pages, Mails
<1>3. \A m \in M : m.next <= Len(log) /\ Covered(a, m.next)
  BY DEF PageInv, PagesOf
<1>4. S \in SUBSET Nat /\ S # {} /\ \A x \in S : x <= Len(log)
  BY <1>1, <1>2, <1>3
<1>5. Cursor(a) \in S
  <2>1. Greatest(S) \in S
    <3> HIDE DEF S
    <3> QED
      BY <1>1, <1>4, GreatestIs
  <2> QED
    BY <2>1 DEF Cursor
<1>6. Covered(a, 0)
  BY <1>1 DEF Covered, Published
<1> QED
  BY <1>3, <1>4, <1>5, <1>6

LEMMA Steers ==
    ASSUME SessionInv, NEW a \in Attempts
    PROVE  /\ BeforeStep(a) \in SUBSET (Pages \cup Mails)
           /\ \A m \in Is("page", BeforeStep(a)) : Continues(a, m)
           /\ \A m \in Ids : MailMessage(m) \in BeforeStep(a) =>
                 MailMessage(m) \in queued[a] \/ (Addressed(m, a) /\ mail[m].status = "pending")
<1> USE DEF SessionInv
<1>1. ASSUME NEW m \in PhaseMessages(a) PROVE m \in Pages /\ m.kind = "page" /\ Continues(a, m)
  <2> DEFINE page == Page(Published(PhaseOf[a], Cursor(a)))
  <2>1. page # {} /\ m = PageMessage(Cursor(a), page)
    BY <1>1 DEF PhaseMessages
  <2>2. Cursor(a) \in Nat /\ Covered(a, Cursor(a))
    BY CursorIs
  <2>3. /\ page \in SUBSET Nat /\ Greatest(page) \in 1..Len(log) /\ Cursor(a) < Greatest(page)
        /\ \A i \in Published(PhaseOf[a], Cursor(a)) : i <= Greatest(page) => i \in page
    BY <2>1, <2>2, PageIs
  <2>4. Len(log) \in Nat
    BY DEF TypeInv
  <2>5. m.kind = "page" /\ m.after = Cursor(a) /\ m.next = Greatest(page) /\ m.entries = page
    BY <2>1 DEF PageMessage
  <2>6. m \in Pages
    BY <2>1, <2>2, <2>3, <2>4 DEF PageMessage, Pages
  <2> QED
    BY <2>2, <2>3, <2>4, <2>5, <2>6 DEF Continues
<1>2. ASSUME NEW m \in Injected(a)
      PROVE  m.kind = "mail" /\ \E k \in Ids : m = MailMessage(k) /\ Addressed(k, a) /\ mail[k].status = "pending"
  BY <1>2 DEF Injected, MailFor, Addressed, MailMessage
<1>3. \A m \in queued[a] : m \in Pages \cup Mails /\ (m.kind = "page" => Continues(a, m))
  BY DEF TypeInv, PageInv, PagesOf, Is
<1>4. \A k \in Ids : MailMessage(k) \in Mails /\ MailMessage(k).kind = "mail" /\ MailMessage(k).id = k
  BY DEF MailMessage, Mails
<1>5. BeforeStep(a) \in SUBSET (Pages \cup Mails)
  BY <1>1, <1>2, <1>3, <1>4 DEF BeforeStep
<1>6. ASSUME NEW m \in Is("page", BeforeStep(a)) PROVE Continues(a, m)
  <2>1. m.kind = "page" /\ m \in BeforeStep(a)
    BY DEF Is
  <2> QED
    BY <1>1, <1>2, <1>3, <2>1 DEF BeforeStep
<1>7. ASSUME NEW m \in Ids, MailMessage(m) \in BeforeStep(a), MailMessage(m) \notin queued[a]
      PROVE  Addressed(m, a) /\ mail[m].status = "pending"
  <2>1. MailMessage(m) \notin PhaseMessages(a)
    BY <1>1, <1>4
  <2>2. MailMessage(m) \in Injected(a)
    BY <1>7, <2>1 DEF BeforeStep
  <2> QED
    BY <1>2, <1>4, <2>2
<1> QED
  BY <1>5, <1>6, <1>7
-----------------------------------------------------------------------------
(* Types and places.                                                         *)

LEMMA Messages ==
    /\ \A m \in Ids : MailMessage(m) \in Mails /\ MailMessage(m).kind = "mail" /\ MailMessage(m).id = m
    /\ \A m \in Mails : m.kind = "mail" /\ m.id \in Ids /\ m = MailMessage(m.id)
    /\ \A m \in Pages : m.kind = "page" /\ m.after \in Nat /\ m.next \in Nat
BY DEF MailMessage, Mails, Pages

\* what a step writes to a trace
LEMMA Traces ==
    ASSUME TypeInv, NEW a \in Attempts
    PROVE  /\ [trace EXCEPT ![a].turn = TRUE] \in [Attempts -> Trace]
           /\ [trace EXCEPT ![a].ended = TRUE] \in [Attempts -> Trace]
           /\ \A S \in SUBSET Ids : [trace EXCEPT ![a].results = @ \cup S] \in [Attempts -> Trace]
           /\ \A m \in Pages \cup Mails : Recorded(a, m) \in [Attempts -> Trace]
<1>1. trace \in [Attempts -> Trace] /\ trace[a] \in Trace
  BY DEF TypeInv
<1>2. [trace[a] EXCEPT !.turn = TRUE] \in Trace /\ [trace[a] EXCEPT !.ended = TRUE] \in Trace
  BY <1>1 DEF Trace
<1>3. ASSUME NEW S \in SUBSET Ids PROVE [trace[a] EXCEPT !.results = @ \cup S] \in Trace
  BY <1>1 DEF Trace
<1>4. ASSUME NEW m \in Pages \cup Mails PROVE [trace[a] EXCEPT !.received = Append(@, m)] \in Trace
  <2>1. Append(trace[a].received, m) \in Seq(Pages \cup Mails)
    BY <1>1 DEF Trace
  <2> QED
    BY <1>1, <2>1 DEF Trace
<1> QED
  BY <1>1, <1>2, <1>3, <1>4 DEF Recorded

\* the steps that leave trace, mail and log alone
Ends(a) == Unknown(a) \/ Complete(a) \/ Stop(a)

LEMMA EndsIs ==
    ASSUME NEW a \in Attempts, Ends(a)
    PROVE  /\ status' = [status EXCEPT ![a] = "over"] /\ pc' = [pc EXCEPT ![a] = "done"]
           /\ UNCHANGED <<log, mail, trace, queued, call>>
BY DEF Ends, Unknown, Complete, Stop

LEMMA SendIs ==
    ASSUME TypeInv, PlaceInv, NEW a \in Attempts, Send(a)
    PROVE  \E m \in Ids, b \in Attempts \ {a} :
             /\ \/ mail' = mail
                \/ mail[m] = None /\ status[b] # "pending" /\ mail' = [mail EXCEPT ![m] = Message(a, b)]
             /\ Message(a, b) \in Mail
<1>1. call[a] \in Tools(a) /\ call[a].kind = "send"
  BY DEF PlaceInv, Placed, Send
<1>2. call[a].id \in Ids /\ call[a].to \in Attempts \ {a}
  BY <1>1 DEF Tools, PhaseTools, MailTools
<1>3. Message(a, call[a].to) \in Mail
  BY <1>2 DEF Message, Mail
<1> QED
  BY <1>2, <1>3 DEF Send, Sessions

\* a publication or a handoff adds an entry of its author at most
LEMMA PublishIs ==
    ASSUME TypeInv, PlaceInv, NEW a \in Attempts, NEW kind \in {"publish", "handoff"}, NEW type \in Entries,
           Publish(a, kind, type)
    PROVE  \/ log' = log
           \/ PhaseOf[a] # None /\ \E e \in Entry :
                 e.type = type /\ e.phase = PhaseOf[a] /\ e.by = a /\ log' = Append(log, e)
<1>1. call[a] \in Tools(a) /\ call[a].kind = kind
  BY DEF PlaceInv, Placed, Publish
<1>2. call[a].key \in Keys
  BY <1>1 DEF Tools, PhaseTools, MailTools
<1> DEFINE e == [type |-> type, phase |-> PhaseOf[a], by |-> a, key |-> call[a].key]
<1>3. e \in Entry /\ e.type = type /\ e.phase = PhaseOf[a] /\ e.by = a
  BY <1>2 DEF Entry
<1>4. log' = log \/ (PhaseOf[a] # None /\ log' = Append(log, e))
  BY DEF Publish
<1> HIDE DEF e
<1> QED
  BY <1>3, <1>4

\* the first member opens the phase
Opening(p) == [type |-> "opened", phase |-> p, by |-> None, key |-> None]
Joining(a) == [type |-> "joined", phase |-> PhaseOf[a], by |-> a, key |-> None]
LEMMA JoinIs ==
    ASSUME TypeInv, NEW a \in Attempts, Join(a)
    PROVE  /\ Opening(PhaseOf[a]) \in Entry /\ Joining(a) \in Entry
           /\ \/ log' = log /\ (PhaseOf[a] = None \/ Opened(PhaseOf[a]))
              \/ log' = Append(log, Joining(a)) /\ Opened(PhaseOf[a])
              \/ log' = Append(log, Opening(PhaseOf[a]))
              \/ log' = Append(Append(log, Opening(PhaseOf[a])), Joining(a))
<1>1. Opening(PhaseOf[a]) \in Entry /\ Joining(a) \in Entry
  BY DEF Opening, Joining, Entry
<1>2. log \in Seq(Entry)
  BY DEF TypeInv
<1>3. \A x, y \in Entry : /\ log \o <<>> \o <<>> = log /\ log \o <<>> \o <<y>> = Append(log, y)
                          /\ log \o <<x>> \o <<>> = Append(log, x)
                          /\ log \o <<x>> \o <<y>> = Append(Append(log, x), y)
  BY <1>2
<1>4. \/ PhaseOf[a] = None /\ log' = log
      \/ /\ PhaseOf[a] # None
         /\ \/ Opened(PhaseOf[a]) /\ (log' = log \o <<>> \o <<>> \/ log' = log \o <<>> \o <<Joining(a)>>)
            \/ log' = log \o <<Opening(PhaseOf[a])>> \o <<>>
            \/ log' = log \o <<Opening(PhaseOf[a])>> \o <<Joining(a)>>
  BY DEF Join, Opening, Joining
<1> QED
  BY <1>1, <1>3, <1>4

LEMMA TypeStep ==
    ASSUME SessionInv, [Next]_vars
    PROVE  TypeInv'
<1> USE DEF SessionInv
<1>0. TypeInv /\ PlaceInv
  OBVIOUS
<1>1. ASSUME NEW a \in Attempts, Bind(a) PROVE TypeInv'
  BY <1>0, <1>1 DEF TypeInv, Bind, memory
<1>2. ASSUME NEW a \in Attempts, Join(a) PROVE TypeInv'
  <2>0. /\ log \in Seq(Entry) /\ Opening(PhaseOf[a]) \in Entry /\ Joining(a) \in Entry
        /\ \/ log' = log \/ log' = Append(log, Joining(a)) \/ log' = Append(log, Opening(PhaseOf[a]))
           \/ log' = Append(Append(log, Opening(PhaseOf[a])), Joining(a))
    BY <1>0, <1>2, JoinIs DEF TypeInv
  <2>1. log' \in Seq(Entry)
    BY <2>0
  <2> QED
    BY <1>0, <1>2, <2>1 DEF TypeInv, Join, Working, Away
<1>3. ASSUME NEW a \in Attempts, BeginTurn(a) PROVE TypeInv'
  <2>1. BeforeStep(a) \in SUBSET (Pages \cup Mails)
    BY Steers
  <2>2. trace' \in [Attempts -> Trace]
    BY <1>0, <1>3, Traces DEF BeginTurn
  <2> QED
    BY <1>0, <1>3, <2>1, <2>2 DEF TypeInv, BeginTurn, Working, Away
<1>4. ASSUME NEW a \in Attempts, Ends(a) PROVE TypeInv'
  BY <1>0, <1>4, EndsIs DEF TypeInv, Working, Away
<1>5. ASSUME NEW a \in Attempts, InputPrepared(a) PROVE TypeInv'
  <2>1. PICK m \in queued[a] :
           /\ queued' = [queued EXCEPT ![a] = @ \ {m}] /\ trace' = Recorded(a, m)
           /\ call' = [call EXCEPT ![a] = IF m.kind = "mail" THEN m ELSE None]
           /\ pc' = [pc EXCEPT ![a] = IF m.kind = "mail" THEN "acknowledge" ELSE "turn"]
           /\ UNCHANGED <<status, log, mail>>
    BY <1>5 DEF InputPrepared
  <2>2. m \in Pages \cup Mails
    BY <1>0, <2>1 DEF TypeInv
  <2>3. trace' \in [Attempts -> Trace]
    BY <1>0, <2>1, <2>2, Traces
  <2> QED
    BY <1>0, <2>1, <2>3 DEF TypeInv, Working, Away
<1>6. ASSUME NEW a \in Attempts, Acknowledge(a) PROVE TypeInv'
  <2>1. \A m \in Ids : mail[m] # None => Delivered(m) \in Mail
    BY <1>0 DEF TypeInv, Delivered, Mail
  <2>2. \A m \in Ids : m = call[a].id => mail[m] # None
    BY <1>6, Messages DEF Acknowledge, MailInv, Acknowledging, Steered, Addressed
  <2>3. mail' \in [Ids -> Mail \cup {None}]
    BY <1>0, <1>6, <2>1, <2>2 DEF TypeInv, Acknowledge, Acknowledged
  <2> QED
    BY <1>0, <1>6, <2>3 DEF TypeInv, Acknowledge, Working, Away
<1>7. ASSUME NEW a \in Attempts, CallTool(a) PROVE TypeInv'
  BY <1>0, <1>7 DEF TypeInv, CallTool, Working, Away
<1>8. ASSUME NEW a \in Attempts, NEW kind \in {"publish", "handoff"}, NEW type \in Entries, Publish(a, kind, type)
      PROVE  TypeInv'
  <2>0. log \in Seq(Entry) /\ (log' = log \/ \E e \in Entry : log' = Append(log, e))
    BY <1>0, <1>8, PublishIs DEF TypeInv
  <2>1. log' \in Seq(Entry)
    BY <2>0
  <2> QED
    BY <1>0, <1>8, <2>1 DEF TypeInv, Publish, Returns, Working, Away
<1>9. ASSUME NEW a \in Attempts, Send(a) PROVE TypeInv'
  <2>1. mail' \in [Ids -> Mail \cup {None}]
    BY <1>0, <1>9, SendIs DEF TypeInv
  <2> QED
    BY <1>0, <1>9, <2>1 DEF TypeInv, Send, Returns, Working, Away
<1>10. ASSUME NEW a \in Attempts, Read(a) \/ Wait(a) PROVE TypeInv'
  <2>1. PICK S \in SUBSET Ids : mail' = MarkRead(S) /\ \A m \in S : mail[m] # None
    BY <1>10 DEF Read, Wait, MailFor
  <2>2. \A m \in S : [mail[m] EXCEPT !.status = "read"] \in Mail
    BY <1>0, <2>1 DEF TypeInv, Mail
  <2>3. mail' \in [Ids -> Mail \cup {None}]
    BY <1>0, <2>1, <2>2 DEF TypeInv, MarkRead
  <2> QED
    BY <1>0, <1>10, <2>3 DEF TypeInv, Read, Wait, Returns, Working, Away
<1>11. ASSUME NEW a \in Attempts, Submit(a) PROVE TypeInv'
  BY <1>0, <1>11 DEF TypeInv, Submit, Returns, Working, Away
<1>12. ASSUME NEW a \in Attempts, ToolResult(a) PROVE TypeInv'
  <2>1. BeforeStep(a) \in SUBSET (Pages \cup Mails)
    BY Steers
  <2>2. call[a].ids \in SUBSET Ids
    BY <1>0, <1>12 DEF ToolResult, PlaceInv, Placed
  <2>3. trace' \in [Attempts -> Trace]
    BY <1>0, <1>12, <2>2, Traces DEF ToolResult
  <2>4. queued' \in [Attempts -> SUBSET (Pages \cup Mails)] /\ pc' \in [Attempts -> Working \cup Away]
    BY <1>0, <1>12, <2>1 DEF TypeInv, ToolResult, Working, Away
  <2>5. call' = [call EXCEPT ![a] = None] /\ UNCHANGED <<status, log, mail>>
    BY <1>12 DEF ToolResult
  <2> QED
    BY <1>0, <2>3, <2>4, <2>5 DEF TypeInv
<1>13. ASSUME NEW a \in Attempts, Settled(a) PROVE TypeInv'
  <2>1. trace' \in [Attempts -> Trace]
    BY <1>0, <1>13, Traces DEF Settled
  <2> QED
    BY <1>0, <1>13, <2>1 DEF TypeInv, Settled, Working, Away
<1>14. CASE Crash
  BY <1>0, <1>14 DEF TypeInv, Crash, Working, Away
<1>15. CASE UNCHANGED vars
  BY <1>0, <1>15 DEF TypeInv, vars
<1> QED
  BY <1>1, <1>2, <1>3, <1>4, <1>5, <1>6, <1>7, <1>8, <1>9, <1>10, <1>11, <1>12, <1>13, <1>14, <1>15
  DEF Next, Ends, Entries

\* an Attempt's step is seen in its own state
Steps(a) ==
    \/ Bind(a) \/ Join(a) \/ BeginTurn(a) \/ Ends(a)
    \/ InputPrepared(a) \/ Acknowledge(a) \/ CallTool(a)
    \/ Publish(a, "publish", "published") \/ Publish(a, "handoff", "handoff")
    \/ Send(a) \/ Read(a) \/ Wait(a) \/ Submit(a) \/ ToolResult(a) \/ Settled(a)

LEMMA NextIs == Next => Crash \/ \E a \in Attempts : Steps(a)
BY DEF Next, Steps, Ends

Same(b) ==
    /\ status'[b] = status[b] /\ trace'[b] = trace[b] /\ pc'[b] = pc[b]
    /\ queued'[b] = queued[b] /\ call'[b] = call[b]

LEMMA Elsewhere ==
    ASSUME TypeInv, NEW a \in Attempts, NEW b \in Attempts \ {a}, Steps(a)
    PROVE  Same(b)
<1> USE DEF Same, TypeInv
<1>1. CASE Bind(a) \/ Join(a) \/ BeginTurn(a)
  BY <1>1 DEF Bind, Join, BeginTurn, memory
<1>2. CASE Ends(a)
  BY <1>2, EndsIs
<1>3. CASE InputPrepared(a) \/ Acknowledge(a)
  BY <1>3 DEF InputPrepared, Acknowledge, Recorded
<1>4. CASE CallTool(a)
  BY <1>4 DEF CallTool
<1>5. CASE Publish(a, "publish", "published") \/ Publish(a, "handoff", "handoff") \/ Send(a) \/ Read(a) \/ Wait(a) \/ Submit(a)
  BY <1>5 DEF Publish, Send, Read, Wait, Submit, Returns
<1>6. CASE ToolResult(a) \/ Settled(a)
  BY <1>6 DEF ToolResult, Settled
<1> QED
  BY <1>1, <1>2, <1>3, <1>4, <1>5, <1>6 DEF Steps

LEMMA PlaceStep ==
    ASSUME SessionInv, [Next]_vars
    PROVE  PlaceInv'
<1>0. TypeInv /\ PlaceInv
  BY DEF SessionInv
<1>1. ASSUME NEW a \in Attempts, Steps(a) PROVE PlaceInv'
  <2>1. ASSUME NEW b \in Attempts \ {a} PROVE Placed(b)'
    <3>1. Placed(b) /\ Same(b)
      BY <1>0, <1>1, Elsewhere DEF PlaceInv
    <3> QED
      BY <3>1 DEF Placed, Same, Tools, PhaseTools, MailTools
  <2>2. Placed(a)'
    <3>0. Placed(a) /\ status[a] \in {"pending", "running", "over"} /\ trace[a] \in Trace /\ DOMAIN call = Attempts
      BY <1>0 DEF PlaceInv, TypeInv
    <3> USE DEF Working, Placed, TypeInv, Trace
    <3>1. CASE Bind(a) \/ Join(a)
      BY <1>0, <3>0, <3>1 DEF Bind, Join, Active, memory
    <3>2. CASE BeginTurn(a)
      <4>1. trace'[a].turn /\ pc'[a] = "turn" /\ status'[a] = status[a] /\ pc[a] = "joined"
        BY <1>0, <3>2 DEF BeginTurn
      <4> QED
        BY <3>0, <4>1
    <3>3. CASE Ends(a)
      <4>1. pc'[a] = "done" /\ status'[a] = "over" /\ trace'[a] = trace[a]
        BY <1>0, <3>3, EndsIs
      <4> QED
        BY <3>0, <4>1
    <3>4. CASE InputPrepared(a)
      <4>1. /\ pc[a] = "turn" /\ pc'[a] \in {"acknowledge", "turn"} /\ status'[a] = status[a]
            /\ trace'[a].turn = trace[a].turn
        BY <1>0, <3>4 DEF InputPrepared, Recorded
      <4> QED
        BY <3>0, <4>1
    <3>5. CASE Acknowledge(a)
      <4>1. pc[a] = "acknowledge" /\ pc'[a] = "turn" /\ status'[a] = status[a] /\ trace'[a] = trace[a]
        BY <1>0, <3>5 DEF Acknowledge
      <4> QED
        BY <3>0, <4>1
    <3>6. CASE CallTool(a)
      <4>1. PICK t \in Tools(a) : call' = [call EXCEPT ![a] = t]
        BY <3>6 DEF CallTool
      <4>2. /\ pc[a] = "turn" /\ pc'[a] = "tool" /\ status'[a] = status[a] /\ trace'[a] = trace[a]
            /\ call'[a] \in Tools(a)
        BY <1>0, <3>0, <3>6, <4>1 DEF CallTool
      <4> QED
        BY <3>0, <4>2 DEF Tools, PhaseTools, MailTools
    <3>7. CASE Publish(a, "publish", "published") \/ Publish(a, "handoff", "handoff") \/ Send(a) \/ Read(a) \/ Wait(a) \/ Submit(a)
      <4>1. /\ pc[a] = "tool" /\ pc'[a] = "executed" /\ status'[a] = status[a] /\ trace'[a] = trace[a]
            /\ call'[a].ids \subseteq Ids
        BY <1>0, <3>0, <3>7 DEF Publish, Send, Read, Wait, Submit, Returns, Result, MailFor
      <4> QED
        BY <3>0, <4>1
    <3>8. CASE ToolResult(a)
      <4>1. /\ pc[a] = "executed" /\ pc'[a] \in {"settling", "turn"} /\ status'[a] = status[a]
            /\ trace'[a].turn = trace[a].turn
        BY <1>0, <3>8 DEF ToolResult
      <4> QED
        BY <3>0, <4>1
    <3>9. CASE Settled(a)
      <4>1. /\ pc[a] = "settling" /\ pc'[a] = "done" /\ status'[a] = status[a] /\ trace'[a].turn = trace[a].turn
        BY <1>0, <3>9 DEF Settled
      <4> QED
        BY <3>0, <4>1
    <3> QED
      BY <1>1, <3>1, <3>2, <3>3, <3>4, <3>5, <3>6, <3>7, <3>8, <3>9 DEF Steps
  <2> QED
    BY <2>1, <2>2 DEF PlaceInv
<1>2. CASE Crash
  BY <1>0, <1>2 DEF Crash, PlaceInv, Placed, Working
<1>3. CASE UNCHANGED vars
  BY <1>0, <1>3 DEF vars, PlaceInv, Placed, Tools, PhaseTools, MailTools
<1> QED
  BY <1>1, <1>2, <1>3, NextIs

-----------------------------------------------------------------------------
(* The event log.                                                            *)

\* what is in the log stays where it is
LogGrows ==
    /\ Len(log) \in Nat /\ Len(log') \in Nat /\ Len(log) <= Len(log')
    /\ DOMAIN log = 1..Len(log) /\ DOMAIN log' = 1..Len(log')
    /\ \A i \in 1..Len(log) : log'[i] = log[i]

LEMMA LogStep ==
    ASSUME SessionInv, SessionAssumption, [Next]_vars
    PROVE  LogGrows /\ LogInv'
<1>0. TypeInv /\ PlaceInv /\ LogInv /\ log \in Seq(Entry) /\ Len(log) \in Nat /\ DOMAIN log = 1..Len(log)
  BY DEF SessionInv, TypeInv
\* the log is kept, and who is in a phase was there before
<1>1. ASSUME log' = log,
             \A a \in Attempts : pc'[a] \in Working \cup {"joined"} =>
                pc[a] \in Working \cup {"joined"} \/ PhaseOf[a] = None \/ Opened(PhaseOf[a])
      PROVE  LogGrows /\ LogInv'
  <2>1. LogGrows
    BY <1>0, <1>1 DEF LogGrows
  <2>2. \A i \in DOMAIN log' : PublishedDocument(i)'
    BY <1>0, <1>1 DEF LogInv, PublishedDocument
  <2>3. \A a \in Attempts : pc'[a] \in Working \cup {"joined"} /\ PhaseOf[a] # None => Opened(PhaseOf[a])'
    BY <1>0, <1>1 DEF LogInv, Opened
  <2> QED
    BY <2>1, <2>2, <2>3 DEF LogInv
<1>3. ASSUME NEW a \in Attempts, Join(a) PROVE LogGrows /\ LogInv'
  <2>0. /\ Opening(PhaseOf[a]) \in Entry /\ Joining(a) \in Entry
        /\ Opening(PhaseOf[a]).type = "opened" /\ Opening(PhaseOf[a]).phase = PhaseOf[a]
        /\ Joining(a).type = "joined" /\ Joining(a).phase = PhaseOf[a] /\ Joining(a).by = a
    BY <1>3, <1>0, JoinIs DEF Opening, Joining
  <2>a. \A b \in Attempts : pc'[b] \in Working \cup {"joined"} => pc[b] \in Working \cup {"joined"} \/ b \in {a}
    BY <1>0, <1>3 DEF TypeInv, Join
  <2>1. CASE log' = log /\ (PhaseOf[a] = None \/ Opened(PhaseOf[a]))
    BY <1>1, <2>a, <2>1
  \* the phase is open in the log after, and each new entry is well placed
  <2>2. ASSUME LogGrows, Opened(PhaseOf[a])',
               \A i \in Len(log) + 1 .. Len(log') : PublishedDocument(i)'
        PROVE  LogInv'
    <3>1. ASSUME NEW i \in 1..Len(log) PROVE PublishedDocument(i)'
      <4>1. PublishedDocument(i) /\ log'[i] = log[i] /\ \A j \in 1..i - 1 : log'[j] = log[j]
        BY <1>0, <2>2 DEF LogInv, LogGrows
      <4> QED
        BY <4>1 DEF PublishedDocument
    <3>2. \A i \in DOMAIN log' : PublishedDocument(i)'
      BY <2>2, <3>1 DEF LogGrows
    <3>3. ASSUME NEW b \in Attempts, pc'[b] \in Working \cup {"joined"}, PhaseOf[b] # None PROVE Opened(PhaseOf[b])'
      <4>1. CASE b = a
        BY <2>2, <4>1
      <4>2. CASE b # a
        <5>1. Opened(PhaseOf[b])
          BY <1>0, <2>a, <3>3, <4>2 DEF LogInv
        <5> QED
          BY <1>0, <2>2, <5>1 DEF Opened, LogGrows
      <4> QED
        BY <4>1, <4>2
    <3> QED
      BY <3>2, <3>3 DEF LogInv
  <2>3. CASE log' = Append(log, Joining(a)) /\ Opened(PhaseOf[a])
    <3>1. LogGrows /\ Len(log') = Len(log) + 1 /\ log'[Len(log) + 1] = Joining(a)
      BY <1>0, <2>0, <2>3 DEF LogGrows
    <3>2. PICK j \in 1..Len(log) : log[j].type = "opened" /\ log[j].phase = PhaseOf[a]
      BY <1>0, <2>3 DEF Opened
    <3>3. log'[j].type = "opened" /\ log'[j].phase = PhaseOf[a] /\ j \in DOMAIN log'
      BY <1>0, <3>1, <3>2 DEF LogGrows
    <3>4. Opened(PhaseOf[a])'
      BY <3>3 DEF Opened
    <3>5. ASSUME NEW i \in Len(log) + 1 .. Len(log') PROVE PublishedDocument(i)'
      <4>1. i = Len(log) + 1 /\ j \in 1..i - 1 /\ log'[i].phase = PhaseOf[a] /\ log'[i].by = a
        BY <1>0, <2>0, <3>1
      <4> QED
        BY <3>3, <4>1 DEF PublishedDocument
    <3> QED
      BY <2>2, <3>1, <3>4, <3>5
  <2>4. CASE log' = Append(log, Opening(PhaseOf[a]))
    <3>1. LogGrows /\ Len(log') = Len(log) + 1 /\ log'[Len(log) + 1] = Opening(PhaseOf[a])
      BY <1>0, <2>0, <2>4 DEF LogGrows
    <3>2. Len(log) + 1 \in DOMAIN log'
      BY <1>0, <3>1 DEF LogGrows
    <3>3. Opened(PhaseOf[a])'
      BY <2>0, <3>1, <3>2 DEF Opened
    <3>4. ASSUME NEW i \in Len(log) + 1 .. Len(log') PROVE PublishedDocument(i)'
      <4>1. log'[i].type = "opened"
        BY <1>0, <2>0, <3>1
      <4> QED
        BY <4>1 DEF PublishedDocument, Entries
    <3> QED
      BY <2>2, <3>1, <3>3, <3>4
  <2>5. CASE log' = Append(Append(log, Opening(PhaseOf[a])), Joining(a))
    <3>1. /\ LogGrows /\ Len(log') = Len(log) + 2
          /\ log'[Len(log) + 1] = Opening(PhaseOf[a]) /\ log'[Len(log) + 2] = Joining(a)
      BY <1>0, <2>0, <2>5 DEF LogGrows
    <3>2. Len(log) + 1 \in DOMAIN log'
      BY <1>0, <3>1 DEF LogGrows
    <3>3. Opened(PhaseOf[a])'
      BY <2>0, <3>1, <3>2 DEF Opened
    <3>4. ASSUME NEW i \in Len(log) + 1 .. Len(log') PROVE PublishedDocument(i)'
      <4>1. CASE i = Len(log) + 1
        <5>1. log'[i].type = "opened"
          BY <2>0, <3>1, <4>1
        <5> QED
          BY <5>1 DEF PublishedDocument, Entries
      <4>2. CASE i = Len(log) + 2
        <5>1. Len(log) + 1 \in 1..i - 1 /\ log'[i].phase = PhaseOf[a] /\ log'[i].by = a
          BY <1>0, <2>0, <3>1, <4>2
        <5> QED
          BY <2>0, <3>1, <5>1 DEF PublishedDocument
      <4> QED
        BY <1>0, <3>1, <4>1, <4>2
    <3> QED
      BY <2>2, <3>1, <3>3, <3>4
  <2> QED
    BY <1>0, <1>3, <2>1, <2>3, <2>4, <2>5, JoinIs
<1>4. ASSUME NEW a \in Attempts, NEW kind \in {"publish", "handoff"}, NEW type \in Entries, Publish(a, kind, type)
      PROVE  LogGrows /\ LogInv'
  <2>0. /\ pc[a] = "tool" /\ \A b \in Attempts : pc'[b] \in Working \cup {"joined"} => pc[b] \in Working \cup {"joined"}
    BY <1>0, <1>4 DEF TypeInv, Publish, Returns, Working
  <2>1. CASE log' = log
    BY <1>1, <2>0, <2>1
  <2>2. ASSUME PhaseOf[a] # None, NEW e \in Entry,
               e.type = type /\ e.phase = PhaseOf[a] /\ e.by = a /\ log' = Append(log, e)
        PROVE  LogGrows /\ LogInv'
    <3>1. LogGrows /\ Len(log') = Len(log) + 1 /\ log'[Len(log) + 1] = e
      BY <1>0, <2>2 DEF LogGrows
    <3>2. PICK j \in 1..Len(log) : log[j].type = "opened" /\ log[j].phase = PhaseOf[a]
      BY <1>0, <2>0, <2>2 DEF LogInv, Opened, Working
    <3>3. ASSUME NEW i \in 1..Len(log') PROVE PublishedDocument(i)'
      <4>1. CASE i = Len(log) + 1
        BY <1>0, <2>2, <3>1, <3>2, <4>1 DEF PublishedDocument, LogGrows
      <4>2. CASE i \in 1..Len(log)
        <5>1. PublishedDocument(i) /\ log'[i] = log[i] /\ \A k \in 1..i - 1 : log'[k] = log[k]
          BY <1>0, <3>1, <4>2 DEF LogInv, LogGrows
        <5> QED
          BY <5>1 DEF PublishedDocument
      <4> QED
        BY <1>0, <3>1, <4>1, <4>2
    <3>4. \A b \in Attempts : pc'[b] \in Working \cup {"joined"} /\ PhaseOf[b] # None => Opened(PhaseOf[b])'
      BY <1>0, <2>0, <3>1 DEF LogInv, Opened, LogGrows
    <3> QED
      BY <3>1, <3>3, <3>4 DEF LogInv, LogGrows
  <2> QED
    BY <1>0, <1>4, <2>1, <2>2, PublishIs
<1>5. ASSUME log' = log, \A a \in Attempts : pc'[a] \in Working \cup {"joined"} => pc[a] \in Working \cup {"joined"}
      PROVE  LogGrows /\ LogInv'
  BY <1>1, <1>5
<1>6. ASSUME NEW a \in Attempts, Steps(a) PROVE LogGrows /\ LogInv'
  <2>0. /\ \A b \in Attempts \ {a} : pc'[b] = pc[b]
        /\ DOMAIN pc = Attempts
    BY <1>0, <1>6, Elsewhere DEF Same, TypeInv
  <2>1. CASE Bind(a) \/ Ends(a) \/ Acknowledge(a) \/ BeginTurn(a) \/ CallTool(a)
    <3>1. log' = log /\ (pc'[a] = "done" \/ pc[a] \in Working \cup {"joined"} \/ pc'[a] = pc[a])
      BY <2>0, <2>1, EndsIs DEF Bind, Acknowledge, BeginTurn, CallTool, Working, memory
    <3> QED
      BY <1>5, <2>0, <3>1 DEF Working
  <2>2. CASE InputPrepared(a)
    BY <1>5, <2>0, <2>2 DEF InputPrepared, Working
  <2>3. CASE Send(a) \/ Read(a) \/ Wait(a) \/ Submit(a) \/ ToolResult(a) \/ Settled(a)
    <3>1. log' = log /\ pc[a] \in Working
      BY <2>3 DEF Send, Read, Wait, Submit, ToolResult, Settled, Working
    <3> QED
      BY <1>5, <2>0, <3>1
  <2> QED
    BY <1>3, <1>4, <1>6, <2>1, <2>2, <2>3 DEF Steps, Entries
<1>7. CASE Crash
  BY <1>5, <1>7 DEF Crash, Working
<1>8. CASE UNCHANGED vars
  BY <1>5, <1>8 DEF vars
<1> QED
  BY <1>6, <1>7, <1>8, NextIs

-----------------------------------------------------------------------------
(* Pages.                                                                    *)

LEMMA CoveredStays ==
    ASSUME LogGrows, NEW a \in Attempts, NEW to \in Nat, to <= Len(log), Covered(a, to),
           \A m \in Is("page", Received(a)) : m \in Is("page", Received(a)')
    PROVE  Covered(a, to)'
<1> SUFFICES ASSUME NEW i \in Published(PhaseOf[a], 0)', i <= to
             PROVE  \E m \in Is("page", Received(a))' : i \in m.entries
  BY DEF Covered
<1>1. i \in Published(PhaseOf[a], 0)
  BY DEF Published, LogGrows
<1>2. PICK m \in Is("page", Received(a)) : i \in m.entries
  BY <1>1 DEF Covered
<1> QED
  BY <1>2 DEF Is

LEMMA ContinuesStays ==
    ASSUME LogGrows, NEW a \in Attempts, NEW m \in Pages, Continues(a, m),
           \A k \in Is("page", Received(a)) : k \in Is("page", Received(a)')
    PROVE  Continues(a, m)'
<1>1. m.after \in Nat /\ m.next \in Nat /\ m.after <= Len(log)
  BY Messages DEF Continues, LogGrows
<1>2. Covered(a, m.after)'
  BY <1>1, CoveredStays DEF Continues
<1>3. ASSUME NEW i \in Published(PhaseOf[a], m.after)', i <= m.next PROVE i \in m.entries
  <2>1. i \in Published(PhaseOf[a], m.after)
    BY <1>1, <1>3 DEF Published, LogGrows, Continues
  <2> QED
    BY <1>3, <2>1 DEF Continues
<1> QED
  BY <1>1, <1>2, <1>3 DEF Continues, LogGrows

\* nothing new is steered or shown
LEMMA PagesStay ==
    ASSUME TypeInv, LogGrows, NEW a \in Attempts, PagesOf(a),
           trace'[a].received = trace[a].received, queued'[a] \subseteq queued[a]
    PROVE  PagesOf(a)'
<1>1. Received(a)' = Received(a)
  BY DEF Received
<1>2. \A m \in Is("page", Received(a)) \cup Is("page", queued[a]) : m \in Pages
  BY Messages DEF TypeInv, Trace, Received, Is
<1>3. ASSUME NEW m \in Is("page", Received(a)) PROVE m.next <= Len(log') /\ Covered(a, m.next)'
  BY <1>1, <1>2, <1>3, CoveredStays, Messages DEF PagesOf, LogGrows
<1>4. ASSUME NEW m \in Is("page", queued[a]) PROVE Continues(a, m)'
  BY <1>1, <1>2, <1>4, ContinuesStays DEF PagesOf
<1>5. Is("page", Received(a))' = Is("page", Received(a))
  BY <1>1 DEF Is
<1>6. Is("page", queued[a])' \subseteq Is("page", queued[a])
  BY DEF Is
<1> QED
  BY <1>3, <1>4, <1>5, <1>6 DEF PagesOf

\* the next page is steered
LEMMA PagesSteered ==
    ASSUME SessionInv, LogGrows, NEW a \in Attempts,
           trace'[a].received = trace[a].received, queued'[a] = BeforeStep(a)
    PROVE  PagesOf(a)'
<1>0. TypeInv /\ PagesOf(a)
  BY DEF SessionInv, PageInv
<1>1. Received(a)' = Received(a) /\ Is("page", Received(a))' = Is("page", Received(a))
  BY DEF Received, Is
<1>2. \A m \in Is("page", Received(a)) : m \in Pages
  BY <1>0, Messages DEF TypeInv, Trace, Received, Is
<1>3. ASSUME NEW m \in Is("page", Received(a)) PROVE m.next <= Len(log') /\ Covered(a, m.next)'
  BY <1>0, <1>1, <1>2, <1>3, CoveredStays, Messages DEF PagesOf, LogGrows
<1>4. ASSUME NEW m \in Is("page", BeforeStep(a)) PROVE Continues(a, m)'
  <2>1. Continues(a, m) /\ m \in Pages
    BY <1>4, Steers, Messages DEF Is
  <2> QED
    BY <1>1, <2>1, ContinuesStays
<1>5. Is("page", queued[a])' = Is("page", BeforeStep(a))
  BY DEF Is
<1> QED
  BY <1>1, <1>3, <1>4, <1>5 DEF PagesOf

\* what an Attempt's traces show
LEMMA ReceivedNow ==
    ASSUME TypeInv, NEW a \in Attempts, NEW m \in Pages \cup Mails, trace' = Recorded(a, m)
    PROVE  /\ trace'[a].received = Append(trace[a].received, m)
           /\ Len(trace[a].received) \in Nat /\ DOMAIN trace[a].received = 1..Len(trace[a].received)
           /\ DOMAIN trace'[a].received = 1..Len(trace[a].received) + 1
           /\ \A i \in 1..Len(trace[a].received) : trace'[a].received[i] = trace[a].received[i]
           /\ trace'[a].received[Len(trace[a].received) + 1] = m
           /\ trace'[a].turn = trace[a].turn /\ trace'[a].results = trace[a].results
<1>1. /\ trace'[a].received = Append(trace[a].received, m)
      /\ trace'[a].turn = trace[a].turn /\ trace'[a].results = trace[a].results
  BY DEF Recorded, TypeInv, Trace
<1>2. trace[a].received \in Seq(Pages \cup Mails)
  BY DEF TypeInv, Trace
<1> QED
  BY <1>1, <1>2

LEMMA PagesShown ==
    ASSUME SessionInv, LogGrows, NEW a \in Attempts, NEW m \in queued[a],
           trace' = Recorded(a, m), queued'[a] = queued[a] \ {m}
    PROVE  PagesOf(a)'
<1>0. TypeInv /\ PagesOf(a) /\ m \in Pages \cup Mails
  BY DEF SessionInv, PageInv, TypeInv
<1>1. Received(a)' = Received(a) \cup {m}
  <2>1. /\ DOMAIN trace[a].received = 1..Len(trace[a].received) /\ Len(trace[a].received) \in Nat
        /\ DOMAIN trace'[a].received = 1..Len(trace[a].received) + 1
        /\ \A i \in 1..Len(trace[a].received) : trace'[a].received[i] = trace[a].received[i]
        /\ trace'[a].received[Len(trace[a].received) + 1] = m
    BY <1>0, ReceivedNow
  <2>2. 1..Len(trace[a].received) + 1 = (1..Len(trace[a].received)) \cup {Len(trace[a].received) + 1}
    BY <2>1
  <2>3. Received(a) = {trace[a].received[i] : i \in 1..Len(trace[a].received)}
    BY <2>1 DEF Received
  <2>4. Received(a)' = {trace'[a].received[i] : i \in 1..Len(trace[a].received) + 1}
    BY <2>1 DEF Received
  <2>5. ASSUME NEW k \in Received(a)' PROVE k \in Received(a) \cup {m}
    BY <2>1, <2>2, <2>3, <2>4
  <2>6. ASSUME NEW k \in Received(a) \cup {m} PROVE k \in Received(a)'
    BY <2>1, <2>2, <2>3, <2>4
  <2> QED
    BY <2>5, <2>6
<1>2. \A k \in Is("page", Received(a)) : k \in Is("page", Received(a)') /\ k \in Pages
  <2>1. \A k \in Received(a) : k \in Pages \cup Mails
    BY <1>0 DEF TypeInv, Trace, Received
  <2>2. \A k \in Is("page", Received(a)) : k \in Pages
    BY <2>1, Messages DEF Is
  <2> QED
    BY <1>1, <2>2 DEF Is
<1>3. \A k \in Is("page", Received(a)) : k.next <= Len(log') /\ Covered(a, k.next)'
  BY <1>0, <1>2, CoveredStays, Messages DEF PagesOf, LogGrows
<1>4. ASSUME NEW k \in Is("page", queued[a]) PROVE Continues(a, k)' /\ k \in Pages
  <2>1. k \in Pages
    BY <1>0, Messages DEF Is, TypeInv
  <2> QED
    BY <1>0, <1>2, <2>1, ContinuesStays DEF PagesOf
<1>5. ASSUME m.kind = "page" PROVE m.next <= Len(log') /\ Covered(a, m.next)'
  <2>1. m \in Is("page", queued[a]) /\ m \in Is("page", Received(a)') /\ m \in Pages
    BY <1>0, <1>1, <1>5, Messages DEF Is
  <2>2. Continues(a, m)'
    BY <1>4, <2>1
  <2>3. ASSUME NEW i \in Published(PhaseOf[a], 0)', i <= m.next
        PROVE  \E k \in Is("page", Received(a))' : i \in k.entries
    <3>1. CASE i <= m.after
      BY <2>2, <2>3, <3>1 DEF Continues, Covered
    <3>2. CASE ~(i <= m.after)
      <4>1. i \in Published(PhaseOf[a], m.after)'
        BY <2>1, <2>3, <3>2, Messages DEF Published, LogGrows
      <4>2. i \in m.entries
        BY <2>2, <2>3, <4>1 DEF Continues
      <4> QED
        BY <2>1, <4>2 DEF Is
    <3> QED
      BY <3>1, <3>2
  <2> QED
    BY <2>2, <2>3 DEF Covered, Continues
<1>6. \A k \in Is("page", Received(a))' : k \in Is("page", Received(a)) \/ (k = m /\ m.kind = "page")
  BY <1>1 DEF Is
<1>7. \A k \in Is("page", queued[a])' : k \in Is("page", queued[a])
  BY DEF Is
<1> QED
  BY <1>3, <1>4, <1>5, <1>6, <1>7 DEF PagesOf

\* what a step shows, and what it steers
LEMMA TraceStep ==
    ASSUME SessionInv, NEW a \in Attempts, Steps(a)
    PROVE  \/ trace'[a].received = trace[a].received /\ queued'[a] \in {queued[a], BeforeStep(a)}
           \/ \E m \in queued[a] : trace' = Recorded(a, m) /\ queued'[a] = queued[a] \ {m}
<1>0. TypeInv /\ trace[a] \in Trace
  BY DEF SessionInv, TypeInv
<1> USE DEF TypeInv, Trace
<1>1. CASE InputPrepared(a)
  BY <1>0, <1>1 DEF InputPrepared
<1>2. CASE Bind(a) \/ Join(a) \/ Ends(a) \/ Acknowledge(a) \/ CallTool(a)
  BY <1>0, <1>2, EndsIs DEF Bind, Join, Acknowledge, CallTool, memory
<1>3. CASE BeginTurn(a) \/ ToolResult(a) \/ Settled(a)
  BY <1>0, <1>3 DEF BeginTurn, ToolResult, Settled
<1>4. CASE Publish(a, "publish", "published") \/ Publish(a, "handoff", "handoff") \/ Send(a) \/ Read(a) \/ Wait(a) \/ Submit(a)
  BY <1>0, <1>4 DEF Publish, Send, Read, Wait, Submit, Returns
<1> QED
  BY <1>1, <1>2, <1>3, <1>4 DEF Steps

LEMMA PageStep ==
    ASSUME SessionInv, SessionAssumption, [Next]_vars
    PROVE  PageInv'
<1>0. TypeInv /\ LogGrows /\ \A a \in Attempts : PagesOf(a)
  BY LogStep DEF SessionInv, PageInv
<1>1. ASSUME NEW a \in Attempts, Steps(a) PROVE PageInv'
  <2>1. ASSUME NEW b \in Attempts \ {a} PROVE PagesOf(b)'
    BY <1>0, <1>1, Elsewhere, PagesStay DEF Same
  <2>2. PagesOf(a)'
    BY <1>0, <1>1, TraceStep, PagesStay, PagesSteered, PagesShown
  <2> QED
    BY <2>1, <2>2 DEF PageInv
<1>2. CASE Crash
  BY <1>0, <1>2, PagesStay DEF Crash, PageInv
<1>3. CASE UNCHANGED vars
  BY <1>0, <1>3, PagesStay DEF vars, PageInv
<1> QED
  BY <1>1, <1>2, <1>3, NextIs

-----------------------------------------------------------------------------
(* Mail.                                                                     *)

\* what every step keeps of a session
Grows(b) ==
    /\ trace[b].turn => trace'[b].turn
    /\ trace[b].results \subseteq trace'[b].results
    /\ status[b] # "pending" => status'[b] # "pending"

LEMMA GrowStep ==
    ASSUME SessionInv, [Next]_vars, NEW b \in Attempts
    PROVE  Grows(b)
<1>0. TypeInv /\ trace[b] \in Trace
  BY DEF SessionInv, TypeInv
<1>1. ASSUME NEW a \in Attempts, Steps(a), a # b PROVE Grows(b)
  <2>1. Same(b)
    BY <1>0, <1>1, Elsewhere
  <2> QED
    BY <2>1 DEF Same, Grows
<1>2. ASSUME Steps(b) PROVE Grows(b)
  <2> USE DEF TypeInv, Trace, Grows
  <2>1. CASE Bind(b) \/ Join(b)
    BY <1>0, <2>1 DEF Bind, Join, memory
  <2>2. CASE Ends(b)
    BY <1>0, <2>2, EndsIs
  <2>3. CASE BeginTurn(b) \/ Acknowledge(b) \/ CallTool(b)
    BY <1>0, <2>3 DEF BeginTurn, Acknowledge, CallTool
  <2>6. CASE InputPrepared(b)
    <3>1. PICK m \in queued[b] : trace' = Recorded(b, m) /\ status' = status
      BY <2>6 DEF InputPrepared
    <3>2. m \in Pages \cup Mails
      BY <1>0, <3>1
    <3>3. trace'[b].turn = trace[b].turn /\ trace'[b].results = trace[b].results
      BY <1>0, <3>1, <3>2, ReceivedNow
    <3> QED
      BY <3>1, <3>3
  <2>4. CASE Publish(b, "publish", "published") \/ Publish(b, "handoff", "handoff") \/ Send(b) \/ Read(b) \/ Wait(b) \/ Submit(b)
    BY <1>0, <2>4 DEF Publish, Send, Read, Wait, Submit, Returns
  <2>5. CASE ToolResult(b) \/ Settled(b)
    BY <1>0, <2>5 DEF ToolResult, Settled
  <2> QED
    BY <1>2, <2>1, <2>2, <2>3, <2>4, <2>5, <2>6 DEF Steps
<1>3. CASE Crash
  BY <1>3 DEF Crash, Grows
<1>4. CASE UNCHANGED vars
  BY <1>4 DEF vars, Grows
<1> QED
  BY <1>1, <1>2, <1>3, <1>4, NextIs

\* the task is gone, as it was, or goes on between two calls
Between(b) ==
    \/ pc'[b] \in Away
    \/ pc'[b] = pc[b] /\ call'[b] = call[b]
    \/ pc[b] \in {"turn", "tool", "settling"} /\ pc'[b] # "acknowledge"
\* nothing is shown to the session or steered
Silent(b) ==
    /\ trace'[b].received = trace[b].received /\ queued'[b] \subseteq queued[b]
    /\ Grows(b) /\ Between(b)

\* what concerns one session
Session(b) ==
    /\ \A i, j \in DOMAIN trace[b].received :
          trace[b].received[i].kind = "mail" /\ trace[b].received[i] = trace[b].received[j] => i = j
    /\ \A m \in Ids : /\ MailMessage(m) \in queued[b] => Addressed(m, b) /\ ~Got(b, m)
                      /\ Got(b, m) => Addressed(m, b)
    /\ pc[b] = "acknowledge" => \E m \in Ids : call[b] = MailMessage(m) /\ Got(b, m)
LEMMA MailIs == MailInv <=> (\A b \in Attempts : Session(b)) /\ \A m \in Ids : Shown(m)
BY DEF MailInv, Session, GotOnce, Steered, Acknowledging
LEMMA MailIsThen ==
    ASSUME \A b \in Attempts : Session(b)', \A m \in Ids : Shown(m)' PROVE MailInv'
BY DEF MailInv, Session, GotOnce, Steered, Acknowledging

\* a message stays addressed
MailStays == \A m \in Ids : mail[m] # None =>
    mail'[m] # None /\ mail'[m].to = mail[m].to /\ mail'[m].from = mail[m].from

LEMMA SilentSession ==
    ASSUME NEW b \in Attempts, Session(b), Silent(b), MailStays
    PROVE  Session(b)'
<1>1. trace'[b].received = trace[b].received /\ queued'[b] \subseteq queued[b]
  BY DEF Silent
<1>2. \A m \in Ids : Got(b, m)' = Got(b, m) /\ (Addressed(m, b) => Addressed(m, b)')
  BY <1>1 DEF Got, MailMessage, Addressed, MailStays
<1>3. pc'[b] = "acknowledge" => pc[b] = "acknowledge" /\ call'[b] = call[b]
  BY DEF Silent, Between, Away
<1> QED
  BY <1>1, <1>2, <1>3 DEF Session, MailMessage

\* a message that is as it was, to a session that is silent
LEMMA SilentShown ==
    ASSUME TypeInv, NEW m \in Ids, Shown(m), mail'[m] = mail[m],
           mail[m] # None => Silent(mail[m].to) /\ Grows(mail[m].to) /\ Grows(mail[m].from)
    PROVE  Shown(m)'
<1> SUFFICES ASSUME mail[m] # None PROVE Shown(m)'
  BY DEF Shown
<1> DEFINE a == mail[m].to
<1>1. mail[m] \in Mail /\ a \in Attempts /\ mail[m].from \in Attempts
  BY DEF TypeInv, Mail
<1>2. SessionMessage(m)'
  BY <1>1 DEF Shown, SessionMessage, Sessions, Grows
<1>3. Got(a, m)' = Got(a, m)
  BY DEF Got, Silent, MailMessage
<1>4. mail[m].status # "pending" => trace'[a].turn
  BY DEF Shown, Grows
<1>5. mail[m].status = "pending" /\ Got(a, m) => pc'[a] \in Away \/ Acknowledges(a, m)'
  BY DEF Shown, Silent, Between, Acknowledges, MailMessage, Away
<1>6. mail[m].status = "read" => m \in trace'[a].results \/ Returned(a, m)' \/ pc'[a] \in Away
  BY DEF Shown, Silent, Between, Returned, Grows, Away
<1> QED
  BY <1>2, <1>3, <1>4, <1>5, <1>6 DEF Shown

LEMMA MailStep ==
    ASSUME SessionInv, [Next]_vars
    PROVE  MailInv'
<1>0. /\ TypeInv /\ PlaceInv /\ (\A b \in Attempts : Session(b)) /\ (\A m \in Ids : Shown(m))
      /\ \A b \in Attempts : Grows(b)
  BY MailIs, GrowStep DEF SessionInv
<1>a. \A m \in Ids : mail[m] # None => mail[m] \in Mail /\ mail[m].to \in Attempts /\ mail[m].from \in Attempts
  BY <1>0 DEF TypeInv, Mail
\* nothing is sent, marked, shown or steered
<1>1. ASSUME mail' = mail, \A b \in Attempts : Silent(b) PROVE MailInv'
  <2>1. MailStays
    BY <1>1 DEF MailStays
  <2>2. \A b \in Attempts : Session(b)'
    BY <1>0, <1>1, <2>1, SilentSession
  <2>3. \A m \in Ids : Shown(m)'
    BY <1>0, <1>1, <1>a, SilentShown
  <2> QED
    BY <2>2, <2>3, MailIsThen
\* a step of a's, with what remains to be shown of it
<1>2. ASSUME NEW a \in Attempts, Steps(a), MailStays, Session(a)',
             \A m \in Ids : mail[m] = None \/ mail[m].to = a \/ mail'[m] # mail[m] => Shown(m)'
      PROVE  MailInv'
  <2>1. \A b \in Attempts \ {a} : Silent(b)
    <3> SUFFICES ASSUME NEW b \in Attempts \ {a} PROVE Silent(b)
      OBVIOUS
    <3>1. Same(b)
      BY <1>0, <1>2, Elsewhere
    <3> QED
      BY <1>0, <3>1 DEF Same, Silent, Between
  <2>2. \A b \in Attempts : Session(b)'
    BY <1>0, <1>2, <2>1, SilentSession
  <2>3. ASSUME NEW m \in Ids, mail[m] # None, mail[m].to # a, mail'[m] = mail[m] PROVE Shown(m)'
    BY <1>0, <1>a, <2>1, <2>3, SilentShown
  <2>4. \A m \in Ids : Shown(m)'
    BY <1>2, <2>3
  <2> QED
    BY <1>2, <2>2, <2>4, MailIsThen
<1>3. ASSUME NEW a \in Attempts, Bind(a) \/ Join(a) \/ Ends(a) \/ CallTool(a) \/ Submit(a) \/ Settled(a)
                                  \/ Publish(a, "publish", "published") \/ Publish(a, "handoff", "handoff")
      PROVE  MailInv'
  <2>1. Steps(a)
    BY <1>3 DEF Steps
  <2>2. /\ mail' = mail /\ queued' = queued /\ trace'[a].received = trace[a].received
        /\ \/ pc'[a] = pc[a] /\ call' = call
           \/ pc'[a] \in Away
           \/ pc[a] \in {"turn", "tool", "settling"} /\ pc'[a] # "acknowledge"
    <3>0. DOMAIN pc = Attempts /\ DOMAIN trace = Attempts /\ trace[a] \in Trace
      BY <1>0 DEF TypeInv
    <3>1. CASE Bind(a) \/ Join(a)
      BY <3>0, <3>1 DEF Bind, Join, memory, Away
    <3>2. CASE Ends(a)
      BY <3>0, <3>2, EndsIs DEF Away
    <3>3. CASE CallTool(a)
      BY <3>0, <3>3 DEF CallTool
    <3>4. CASE Submit(a) \/ Publish(a, "publish", "published") \/ Publish(a, "handoff", "handoff")
      BY <3>0, <3>4 DEF Submit, Publish, Returns
    <3>5. CASE Settled(a)
      BY <3>0, <3>5 DEF Settled, Away, Trace
    <3> QED
      BY <1>3, <3>1, <3>2, <3>3, <3>4, <3>5
  <2>3. \A b \in Attempts : Silent(b)
    BY <1>0, <2>1, <2>2, Elsewhere DEF Same, Silent, Between
  <2> QED
    BY <1>1, <2>2, <2>3
<1>4. ASSUME NEW a \in Attempts, BeginTurn(a) PROVE MailInv'
  <2>1. /\ pc[a] = "joined" /\ ~trace[a].turn /\ mail' = mail /\ pc'[a] = "turn" /\ queued'[a] = BeforeStep(a)
        /\ trace'[a].received = trace[a].received
    BY <1>0, <1>4 DEF BeginTurn, TypeInv, Trace
  <2>2. trace[a].received = <<>>
    BY <1>0, <2>1 DEF PlaceInv, Placed
  <2>3. \A m \in Ids : ~Got(a, m) /\ ~Got(a, m)'
    BY <2>1, <2>2 DEF Got
  <2>4. \A m \in Ids : MailMessage(m) \in queued'[a] => Addressed(m, a)'
    <3>1. \A m \in Ids : MailMessage(m) \in queued'[a] => Addressed(m, a)
      BY <1>0, <2>1, Steers DEF Session
    <3> QED
      BY <2>1, <3>1 DEF Addressed
  <2>5. Session(a)'
    BY <2>1, <2>2, <2>3, <2>4 DEF Session, MailMessage
  <2>6. ASSUME NEW m \in Ids, mail[m] = None \/ mail[m].to = a PROVE Shown(m)'
    <3>1. CASE mail[m] = None
      BY <2>1, <3>1 DEF Shown
    <3>2. CASE mail[m] # None
      <4>1. mail[m].to = a /\ mail[m].status = "pending" /\ SessionMessage(m)
        BY <1>0, <2>1, <2>3, <2>6, <3>2 DEF Shown, SessionMessage
      <4>2. SessionMessage(m)'
        BY <1>0, <1>a, <2>1, <3>2, <4>1 DEF SessionMessage, Sessions, Grows
      <4> QED
        BY <2>1, <2>3, <4>1, <4>2 DEF Shown
    <3> QED
      BY <3>1, <3>2
  <2>7. MailStays /\ Steps(a)
    BY <1>4, <2>1 DEF MailStays, Steps
  <2> QED
    BY <1>2, <2>1, <2>5, <2>6, <2>7
<1>5. ASSUME NEW a \in Attempts, ToolResult(a) PROVE MailInv'
  <2>1. /\ pc[a] = "executed" /\ mail' = mail /\ pc'[a] \in {"settling", "turn"}
        /\ queued'[a] \in {queued[a], BeforeStep(a)}
        /\ trace'[a].received = trace[a].received /\ trace'[a].results = trace[a].results \cup call[a].ids
    BY <1>0, <1>5 DEF ToolResult, TypeInv, Trace
  <2>2. \A m \in Ids : Got(a, m)' = Got(a, m)
    BY <2>1 DEF Got, MailMessage
  <2>3. \A m \in Ids : mail[m] # None /\ mail[m].to = a /\ mail[m].status = "pending" => ~Got(a, m)
    BY <1>0, <2>1 DEF Shown, Acknowledges, Away
  <2>4. \A m \in Ids : MailMessage(m) \in queued'[a] => Addressed(m, a) /\ ~Got(a, m)
    BY <1>0, <2>1, <2>3, Steers DEF Session, Addressed
  <2>5. Session(a)'
    BY <1>0, <2>1, <2>2, <2>4 DEF Session, MailMessage, Addressed
  <2>6. ASSUME NEW m \in Ids, mail[m] = None \/ mail[m].to = a PROVE Shown(m)'
    <3>1. CASE mail[m] = None
      BY <2>1, <3>1 DEF Shown
    <3>2. CASE mail[m] # None
      <4>1. mail[m].to = a /\ SessionMessage(m)
        BY <1>0, <2>6, <3>2 DEF Shown
      <4>2. SessionMessage(m)'
        BY <1>0, <1>a, <2>1, <3>2, <4>1 DEF SessionMessage, Sessions, Grows
      <4>3. mail[m].status = "read" => m \in trace'[a].results
        BY <1>0, <2>1, <3>2, <4>1 DEF Shown, Returned, Away
      <4>4. mail[m].status # "pending" => trace'[a].turn
        BY <1>0, <3>2, <4>1 DEF Shown, Grows
      <4> QED
        BY <1>0, <2>1, <2>2, <2>3, <3>2, <4>1, <4>2, <4>3, <4>4 DEF Shown
    <3> QED
      BY <3>1, <3>2
  <2>7. MailStays /\ Steps(a)
    BY <1>5, <2>1 DEF MailStays, Steps
  <2> QED
    BY <1>2, <2>1, <2>5, <2>6, <2>7
<1>6. ASSUME NEW a \in Attempts, InputPrepared(a) PROVE MailInv'
  <2>1. PICK x \in queued[a] :
           /\ pc[a] = "turn" /\ queued' = [queued EXCEPT ![a] = @ \ {x}] /\ trace' = Recorded(a, x)
           /\ call' = [call EXCEPT ![a] = IF x.kind = "mail" THEN x ELSE None]
           /\ pc' = [pc EXCEPT ![a] = IF x.kind = "mail" THEN "acknowledge" ELSE "turn"]
           /\ mail' = mail
    BY <1>6 DEF InputPrepared
  <2>2. x \in Pages \cup Mails /\ queued'[a] = queued[a] \ {x}
    BY <1>0, <2>1 DEF TypeInv
  <2> DEFINE n == Len(trace[a].received)
  <2>3. /\ n \in Nat /\ DOMAIN trace[a].received = 1..n /\ DOMAIN trace'[a].received = 1..n + 1
        /\ \A i \in 1..n : trace'[a].received[i] = trace[a].received[i]
        /\ trace'[a].received[n + 1] = x
        /\ trace'[a].turn = trace[a].turn /\ trace'[a].results = trace[a].results
    BY <1>0, <2>1, <2>2, ReceivedNow
  <2> HIDE DEF n
  <2>4. \A m \in Ids : Got(a, m)' = (Got(a, m) \/ MailMessage(m) = x)
    <3> SUFFICES ASSUME NEW m \in Ids PROVE Got(a, m)' = (Got(a, m) \/ MailMessage(m) = x)
      OBVIOUS
    <3>1. Got(a, m)' = \E i \in 1..n + 1 : trace'[a].received[i] = MailMessage(m)
      BY <2>3 DEF Got, MailMessage
    <3>2. Got(a, m) = \E i \in 1..n : trace[a].received[i] = MailMessage(m)
      BY <2>3 DEF Got
    <3>3. \A i \in 1..n + 1 : i \in 1..n \/ i = n + 1
      BY <2>3
    <3>4. 1..n \subseteq 1..n + 1 /\ n + 1 \in 1..n + 1
      BY <2>3
    <3> QED
      BY <2>3, <3>1, <3>2, <3>3, <3>4
  <2>5. \A i \in DOMAIN trace'[a].received, j \in DOMAIN trace'[a].received :
           trace'[a].received[i].kind = "mail" /\ trace'[a].received[i] = trace'[a].received[j] => i = j
    <3>1. \A i \in 1..n : trace[a].received[i] = x => x.kind # "mail"
      <4> SUFFICES ASSUME NEW i \in 1..n, trace[a].received[i] = x, x.kind = "mail" PROVE FALSE
        OBVIOUS
      <4>1. x.id \in Ids /\ x = MailMessage(x.id)
        BY <2>2, Messages
      <4>2. ~Got(a, x.id)
        BY <1>0, <4>1 DEF Session
      <4> QED
        BY <2>3, <4>1, <4>2 DEF Got
    <3>2. \A i, j \in 1..n : trace[a].received[i].kind = "mail" /\ trace[a].received[i] = trace[a].received[j] => i = j
      BY <1>0, <2>3 DEF Session
    <3>3. \A i \in 1..n + 1 : i \in 1..n \/ i = n + 1
      BY <2>3
    <3> QED
      BY <2>3, <3>1, <3>2, <3>3
  <2>6. \A m \in Ids : MailMessage(m) \in queued[a] \/ Got(a, m) => Addressed(m, a)'
    BY <1>0, <2>1 DEF Session, Addressed
  <2>7. pc'[a] = "acknowledge" => \E m \in Ids : call'[a] = MailMessage(m) /\ Got(a, m)'
    <3> SUFFICES ASSUME pc'[a] = "acknowledge" PROVE \E m \in Ids : call'[a] = MailMessage(m) /\ Got(a, m)'
      OBVIOUS
    <3>1. x.kind = "mail" /\ call'[a] = x
      BY <1>0, <2>1 DEF TypeInv
    <3>2. x.id \in Ids /\ x = MailMessage(x.id)
      BY <2>2, <3>1, Messages
    <3> QED
      BY <2>4, <3>1, <3>2
  <2>8. \A m \in Ids : /\ MailMessage(m) \in queued'[a] => Addressed(m, a)' /\ ~Got(a, m)'
                       /\ Got(a, m)' => Addressed(m, a)'
    BY <1>0, <2>2, <2>4, <2>6 DEF Session
  <2>9. Session(a)'
    BY <2>5, <2>7, <2>8 DEF Session, MailMessage
  <2>10. ASSUME NEW m \in Ids, mail[m] = None \/ mail[m].to = a PROVE Shown(m)'
    <3>1. CASE mail[m] = None
      BY <2>1, <3>1 DEF Shown
    <3>2. CASE mail[m] # None
      <4>1. mail[m].to = a /\ SessionMessage(m)
        BY <1>0, <2>10, <3>2 DEF Shown
      <4>2. SessionMessage(m)'
        BY <1>0, <1>a, <2>1, <3>2, <4>1 DEF SessionMessage, Sessions, Grows
      <4>3. mail[m].status = "read" => m \in trace'[a].results
        BY <1>0, <2>1, <2>3, <3>2, <4>1 DEF Shown, Returned, Away
      <4>4. mail[m].status = "pending" /\ Got(a, m)' => Acknowledges(a, m)'
        <5> SUFFICES ASSUME mail[m].status = "pending", Got(a, m)' PROVE Acknowledges(a, m)'
          OBVIOUS
        <5>1. ~Got(a, m)
          BY <1>0, <2>1, <3>2, <4>1 DEF Shown, Acknowledges, Away
        <5>2. x = MailMessage(m) /\ x.kind = "mail"
          BY <2>4, <5>1, Messages
        <5> QED
          BY <1>0, <2>1, <5>2 DEF Acknowledges, TypeInv, MailMessage
      <4>5. mail[m].status # "pending" => trace'[a].turn
        BY <1>0, <3>2, <4>1 DEF Shown, Grows
      <4>6. mail[m].status = "delivered" => Got(a, m)'
        BY <1>0, <2>4, <3>2, <4>1 DEF Shown
      <4> QED
        BY <2>1, <4>1, <4>2, <4>3, <4>4, <4>5, <4>6 DEF Shown
    <3> QED
      BY <3>1, <3>2
  <2>11. MailStays /\ Steps(a)
    BY <1>6, <2>1 DEF MailStays, Steps
  <2> QED
    BY <1>2, <2>1, <2>9, <2>10, <2>11
<1>7. ASSUME NEW a \in Attempts, Acknowledge(a) PROVE MailInv'
  <2>1. PICK x \in Ids : call[a] = MailMessage(x) /\ Got(a, x)
    BY <1>0, <1>7 DEF Acknowledge, Session
  <2>2. /\ pc[a] = "acknowledge" /\ pc'[a] = "turn" /\ trace' = trace /\ queued' = queued
        /\ mail[x] # None /\ mail[x].to = a /\ mail[x] \in Mail /\ Mail \cap {None} = {}
        /\ \A m \in Ids \ {x} : mail'[m] = mail[m]
    BY <1>0, <1>7, <1>a, <2>1, SessionAssumption DEF Acknowledge, Acknowledged, Session, Addressed, TypeInv, MailMessage, Mail
  <2>3. /\ mail'[x] \in Mail /\ mail'[x].to = a /\ mail'[x].from = mail[x].from
        /\ mail'[x].status = IF mail[x].status = "pending" THEN "delivered" ELSE mail[x].status
    <3>1. mail'[x] = IF mail[x].status = "pending" THEN [mail[x] EXCEPT !.status = "delivered"] ELSE mail[x]
      BY <1>7, <2>1 DEF Acknowledge, Acknowledged, Delivered, MailMessage
    <3> QED
      BY <2>2, <3>1 DEF Mail
  <2>4. MailStays /\ Steps(a)
    BY <1>7, <2>2, <2>3 DEF MailStays, Steps
  <2>5. \A m \in Ids : Got(a, m)' = Got(a, m) /\ (Addressed(m, a) => Addressed(m, a)')
    BY <2>2, <2>4 DEF Got, MailMessage, Addressed, MailStays
  <2>6. Session(a)'
    BY <1>0, <2>2, <2>5 DEF Session, MailMessage
  <2>7. ASSUME NEW m \in Ids, mail[m] = None \/ mail[m].to = a \/ mail'[m] # mail[m] PROVE Shown(m)'
    <3>1. CASE m = x
      <4>1. Shown(x) /\ trace[a].turn
        BY <1>0, <2>2 DEF PlaceInv, Placed, Working
      <4>2. SessionMessage(x)'
        BY <1>0, <1>a, <2>2, <2>3, <4>1 DEF Shown, SessionMessage, Sessions, Grows, Mail
      <4> QED
        BY <2>1, <2>2, <2>3, <2>5, <3>1, <4>1, <4>2 DEF Shown, Returned, Away
    <3>2. CASE m # x /\ mail[m] = None
      BY <2>2, <3>2 DEF Shown
    <3>3. CASE m # x /\ mail[m] # None
      <4>1. mail[m].to = a /\ mail'[m] = mail[m] /\ SessionMessage(m) /\ Shown(m)
        BY <1>0, <2>2, <2>7, <3>3 DEF Shown
      <4>2. SessionMessage(m)'
        BY <1>0, <1>a, <3>3, <4>1 DEF SessionMessage, Sessions, Grows
      <4>3. mail[m].status = "pending" => ~Got(a, m)
        BY <2>1, <2>2, <3>3, <4>1, Messages DEF Shown, Acknowledges, Away
      <4> QED
        BY <2>2, <2>5, <3>3, <4>1, <4>2, <4>3 DEF Shown, Returned, Away
    <3> QED
      BY <3>1, <3>2, <3>3
  <2> QED
    BY <1>2, <2>4, <2>6, <2>7
<1>8. ASSUME NEW a \in Attempts, Send(a) PROVE MailInv'
  <2>1. /\ pc[a] = "tool" /\ pc'[a] = "executed" /\ trace' = trace /\ queued' = queued /\ Steps(a)
    BY <1>0, <1>8 DEF Send, Returns, TypeInv, Steps
  <2>2. Silent(a)
    BY <1>0, <2>1 DEF Silent, Between
  <2>3. PICK x \in Ids, b \in Attempts \ {a} :
           /\ \/ mail' = mail
              \/ mail[x] = None /\ status[b] # "pending" /\ mail' = [mail EXCEPT ![x] = Message(a, b)]
           /\ Message(a, b) \in Mail
    BY <1>0, <1>8, SendIs
  <2>4. CASE mail' = mail
    <3>1. \A c \in Attempts : Silent(c)
      BY <1>0, <2>1, <2>2, Elsewhere DEF Same, Silent, Between
    <3> QED
      BY <1>1, <2>4, <3>1
  <2>5. CASE mail[x] = None /\ status[b] # "pending" /\ mail' = [mail EXCEPT ![x] = Message(a, b)]
    <3>1. mail'[x] = Message(a, b) /\ \A m \in Ids \ {x} : mail'[m] = mail[m]
      BY <1>0, <2>5 DEF TypeInv
    <3>2. MailStays
      BY <2>5, <3>1 DEF MailStays
    <3>3. Session(a)'
      BY <1>0, <2>2, <3>2, SilentSession
    <3>4. ~Got(b, x) /\ ~Got(b, x)'
      BY <1>0, <2>1, <2>5 DEF Session, Addressed, Got, MailMessage
    <3>5. Shown(x)'
      <4>1. /\ mail'[x].to = b /\ mail'[x].from = a /\ mail'[x].status = "pending"
        BY <3>1 DEF Message
      <4>2. status'[a] # "pending" /\ status'[b] # "pending"
        BY <1>0, <2>1, <2>5 DEF PlaceInv, Placed, Grows
      <4>3. SessionMessage(x)'
        BY <2>3, <4>1, <4>2 DEF SessionMessage, Sessions
      <4> QED
        BY <3>4, <4>1, <4>3 DEF Shown
    <3>6. ASSUME NEW m \in Ids \ {x}, mail[m] = None \/ mail[m].to = a PROVE Shown(m)'
      <4>1. mail'[m] = mail[m] /\ (mail[m] # None => mail[m].to = a)
        BY <3>1, <3>6
      <4> QED
        BY <1>0, <1>a, <2>2, <4>1, SilentShown
    <3> QED
      BY <1>2, <2>1, <3>1, <3>2, <3>3, <3>5, <3>6
  <2> QED
    BY <2>3, <2>4, <2>5
<1>9. ASSUME NEW a \in Attempts, Read(a) \/ Wait(a) PROVE MailInv'
  <2>1. PICK S \in SUBSET Ids :
           /\ \A m \in S : mail[m] # None /\ mail[m].to = a
           /\ mail' = MarkRead(S) /\ call'[a].ids = S /\ call'[a].kind \in {"read", "wait"}
    <3>0. DOMAIN call = Attempts
      BY <1>0 DEF TypeInv
    <3>1. CASE Read(a)
      <4>1. /\ mail' = MarkRead(MailFor(a, {"pending", "delivered", "read"}))
            /\ call'[a] = Result("read", MailFor(a, {"pending", "delivered", "read"}))
        BY <3>0, <3>1 DEF Read, Returns
      <4>2. /\ MailFor(a, {"pending", "delivered", "read"}) \in SUBSET Ids
            /\ \A m \in MailFor(a, {"pending", "delivered", "read"}) : mail[m] # None /\ mail[m].to = a
        BY DEF MailFor
      <4> QED
        BY <4>1, <4>2 DEF Result
    <3>2. CASE Wait(a)
      <4>1. /\ mail' = MarkRead(MailFor(a, {"pending", "delivered"}))
            /\ call'[a] = Result("wait", MailFor(a, {"pending", "delivered"}))
        BY <3>0, <3>2 DEF Wait, Returns
      <4>2. /\ MailFor(a, {"pending", "delivered"}) \in SUBSET Ids
            /\ \A m \in MailFor(a, {"pending", "delivered"}) : mail[m] # None /\ mail[m].to = a
        BY DEF MailFor
      <4> QED
        BY <4>1, <4>2 DEF Result
    <3> QED
      BY <1>9, <3>1, <3>2
  <2>2. pc[a] = "tool" /\ pc'[a] = "executed" /\ trace' = trace /\ queued' = queued /\ Steps(a)
    BY <1>0, <1>9 DEF Read, Wait, Returns, TypeInv, Steps
  <2>3. \A m \in Ids \ S : mail'[m] = mail[m]
    BY <2>1 DEF MarkRead
  <2>4. \A m \in S : /\ mail'[m] \in Mail /\ mail'[m].to = a /\ mail'[m].from = mail[m].from
                     /\ mail'[m].status = "read"
    <3>1. \A m \in S : mail'[m] = [mail[m] EXCEPT !.status = "read"] /\ mail[m] \in Mail
      BY <1>a, <2>1 DEF MarkRead
    <3> QED
      BY <2>1, <3>1 DEF Mail
  <2>5. \A m \in S : mail'[m] # None
    BY <2>4, SessionAssumption DEF Mail
  <2>6. MailStays
    BY <2>1, <2>3, <2>4, <2>5 DEF MailStays
  <2>7. Silent(a)
    BY <1>0, <2>2 DEF Silent, Between
  <2>8. Session(a)'
    BY <1>0, <2>6, <2>7, SilentSession
  <2>9. ASSUME NEW m \in S PROVE Shown(m)'
    <3>1. Shown(m) /\ SessionMessage(m) /\ trace[a].turn
      BY <1>0, <2>1, <2>2, <2>9 DEF Shown, PlaceInv, Placed, Working
    <3>2. SessionMessage(m)'
      BY <1>0, <1>a, <2>1, <2>4, <2>9, <3>1 DEF SessionMessage, Sessions, Grows
    <3>3. Returned(a, m)'
      BY <2>1, <2>2, <2>9 DEF Returned
    <3> QED
      BY <2>2, <2>4, <2>9, <3>1, <3>2, <3>3 DEF Shown
  <2>10. ASSUME NEW m \in Ids \ S, mail[m] = None \/ mail[m].to = a PROVE Shown(m)'
    <3>1. mail'[m] = mail[m] /\ (mail[m] # None => mail[m].to = a)
      BY <2>3, <2>10
    <3> QED
      BY <1>0, <1>a, <2>7, <3>1, SilentShown
  <2> QED
    BY <1>2, <2>2, <2>3, <2>6, <2>8, <2>9, <2>10
<1>10. CASE Crash
  <2>1. \A b \in Attempts : Silent(b)
    BY <1>0, <1>10 DEF Crash, Silent, Between, Away
  <2> QED
    BY <1>1, <1>10, <2>1 DEF Crash
<1>11. CASE UNCHANGED vars
  <2>1. \A b \in Attempts : Silent(b)
    BY <1>0, <1>11 DEF vars, Silent, Between
  <2> QED
    BY <1>1, <1>11, <2>1 DEF vars
<1>12. ASSUME NEW a \in Attempts, Steps(a) PROVE MailInv'
  BY <1>3, <1>4, <1>5, <1>6, <1>7, <1>8, <1>9, <1>12 DEF Steps
<1> QED
  BY <1>10, <1>11, <1>12, NextIs

-----------------------------------------------------------------------------
LEMMA InitHolds ==
    ASSUME Init
    PROVE  SessionInv
<1> USE DEF Init
<1>1. TypeInv
  <2>1. <<>> \in Seq(Entry) /\ <<>> \in Seq(Pages \cup Mails)
    OBVIOUS
  <2> QED
    BY <2>1 DEF TypeInv, Trace, Away
<1>2. PlaceInv
  BY DEF PlaceInv, Placed, Working
<1>3. LogInv
  BY DEF LogInv, Working
<1>4. PageInv
  BY DEF PageInv, PagesOf, Received, Is
<1>5. MailInv
  BY DEF MailInv, GotOnce, Steered, Acknowledging, Shown, Got, Away
<1> QED
  BY <1>1, <1>2, <1>3, <1>4, <1>5 DEF SessionInv

LEMMA SessionsAlways == Spec => []SessionInv
<1>1. SessionInv /\ [Next]_vars => SessionInv'
  BY TypeStep, PlaceStep, LogStep, PageStep, MailStep, SessionAssumption DEF SessionInv
<1> QED
  BY <1>1, InitHolds, PTL DEF Spec

\* Up to its cursor an Agent was shown every entry of its phase, whatever is published, lost or
\* steered again meanwhile (PhaseSessions.read, before_step).
THEOREM DiscussionsAreRead == Spec => []NoGaps
<1>1. SessionInv => NoGaps
  <2> SUFFICES ASSUME SessionInv, NEW a \in Attempts, NEW i \in Published(PhaseOf[a], 0), i <= Cursor(a)
               PROVE  \E m \in Is("page", Received(a)) : i \in m.entries
    BY DEF NoGaps
  <2>1. Covered(a, Cursor(a))
    BY CursorIs DEF SessionInv
  <2> QED
    BY <2>1 DEF Covered
<1> QED
  BY <1>1, SessionsAlways, PTL

\* A message is shown to its target's model at most once, "delivered" says that it was, "read" that
\* the target's own tool took it, and only a session whose process died between the trace and the
\* mailbox leaves a shown message pending (SessionMailbox, before_step, on_input_prepared).
THEOREM MailIsAccounted == Spec => []MailAccounted
<1>1. SessionInv => MailAccounted
  <2> SUFFICES ASSUME SessionInv PROVE MailAccounted
    OBVIOUS
  <2>0. TypeInv /\ PlaceInv /\ LogInv /\ MailInv
    BY DEF SessionInv
  <2>1. Stored
    <3>1. \A m \in Ids : mail[m] # None => SessionMessage(m)
      BY <2>0 DEF MailInv, Shown
    <3>2. \A a \in Attempts : AgentTrace(a)
      BY <2>0 DEF PlaceInv, Placed, AgentTrace, Sessions
    <3> QED
      BY <2>0, <3>1, <3>2 DEF Stored, LogInv
  <2>2. ASSUME NEW m \in Ids, mail[m] # None
        PROVE  Cardinality(Copies(m)) <= 1 /\ (Got(mail[m].to, m) <=> Copies(m) # {})
    <3> DEFINE a == mail[m].to
    <3>1. a \in Attempts
      BY <2>0, <2>2 DEF TypeInv, Mail
    <3>2. \A i, j \in Copies(m) : i = j
      BY <2>0, <3>1, Messages DEF MailInv, GotOnce, Copies
    <3>3. CASE Copies(m) = {}
      BY <3>3, FS_EmptySet DEF Got, Copies
    <3>4. CASE Copies(m) # {}
      <4>1. PICK i \in Copies(m) : Copies(m) = {i}
        BY <3>2, <3>4
      <4>2. Cardinality(Copies(m)) = 1
        BY <4>1, FS_Singleton
      <4> QED
        BY <4>1, <4>2 DEF Got, Copies
    <3> QED
      BY <3>3, <3>4
  <2> QED
    BY <2>0, <2>1, <2>2 DEF MailAccounted, MailInv, Shown, Acknowledges, Returned, Away
<1> QED
  BY <1>1, SessionsAlways, PTL

-----------------------------------------------------------------------------
(***************************************************************************)
(* The serial host. SerialInv says what is stored (SerialTypes,            *)
(* References), what the executor and a person's thread hold in their      *)
(* hands (Threads), what a command has read (CommandInv), and that nodes,  *)
(* Attempts and results agree (NodesAgree, ResultsWait). Every step keeps  *)
(* it and is a GateStep.                                                   *)
(***************************************************************************)

Places == {"idle", "loop", "work", "candidate", "checks", "finish", "record"}
Thread == [pc : Places, attempt : Nat, rest : SUBSET Nat, goes : BOOLEAN, outcome : {None, "recover", "passed", "rejected"}]
Verification == [attempt : Nat, runs : UNION {[S -> Serial!CheckRun] : S \in SUBSET {"auto", "human"}}]
Plans == [Serial!Nodes -> Serial!PlanNode]
Point == [node : Plans, attempt : Nat]
Requests == [kind : {"pause", "cancel"}, read : [run : Serial!Runs, node : Plans, attempts : Seq(Serial!Attempt)]]

SerialTypes ==
    /\ run \in Serial!Runs /\ cause \in Serial!PauseCauses /\ limit \in Serial!Limits
    /\ node \in Plans /\ attempts \in Seq(Serial!Attempt) /\ checks \in Seq(Verification)
    /\ points \in Seq(Point) /\ kept \in SUBSET Nat
    /\ exec \in Thread /\ decider \in Thread
    /\ control \in [Controls -> {None} \cup Requests]

Made(i) == i \in DOMAIN attempts /\ Serial!Is(i, "succeeded") /\ attempts[i].made
\* what is stored about Attempts is about Attempts that exist
References ==
    /\ \A v \in DOMAIN checks : /\ checks[v].attempt \in DOMAIN attempts
                                /\ DOMAIN checks[v].runs = Serial!Kinds(attempts[checks[v].attempt].node)
    /\ \A i \in DOMAIN points : /\ points[i].attempt \in DOMAIN attempts
                                /\ points[i].node[attempts[points[i].attempt].node] = "completed"
    /\ \A i \in kept : i \in DOMAIN attempts /\ attempts[i].made
\* one set of the Attempt's CheckRuns has passed
Judged(a) == \E v \in Serial!VerificationsOf(a) : \A k \in Serial!Kinds(attempts[a].node) : Serial!Passed(checks[v].runs[k])
ExecInv ==
    /\ exec.pc = "work" => Serial!Mine \in DOMAIN attempts
    /\ exec.pc \in {"candidate", "checks", "finish", "record"} => Made(Serial!Mine)
    /\ \A a \in exec.rest : Made(a)
    /\ exec.pc = "checks" => /\ checks # <<>> /\ checks[Len(checks)].attempt = Serial!Mine
                             /\ Serial!Unfinished(checks[Len(checks)].runs)
    /\ exec.pc = "record" /\ exec.outcome = "passed" => Judged(Serial!Mine)
DeciderInv ==
    /\ decider.pc \in {"idle", "finish", "record"}
    /\ decider.pc # "idle" => decider.attempt \in DOMAIN attempts
    /\ decider.pc = "finish" => decider.outcome # "recover"
    /\ decider.pc = "record" /\ decider.outcome = "passed" => Judged(decider.attempt)
CommandInv == \A c \in Controls : control[c] # None =>
    control[c].read.run \in IF control[c].kind = "pause" THEN {"running"} ELSE {"pending", "running", "paused"}
NodesAgree ==
    /\ \A i, j \in Serial!Running : i = j
    /\ \A i \in Serial!Running : node[attempts[i].node] = "running"
    /\ \A n \in Serial!Nodes : node[n] = "running" => Serial!WasRunning(n) \/ \E i \in Serial!Running : attempts[i].node = n
    /\ run \in {"paused", "cancelled", "completed"} => Serial!Running = {}
    /\ run = "completed" => \A n \in Serial!Nodes : node[n] = "completed"
\* the nodes of a plan that wait for their Gate have a result and, if it is looked at, its CheckRuns
Waits(plan) == \A n \in Serial!Nodes : plan[n] \in {"candidate", "verifying"} =>
    \E i \in Serial!AttemptsOf(n) : Made(i) /\ (plan[n] = "verifying" => Serial!VerificationsOf(i) # {})
ResultsWait ==
    /\ Waits(node) /\ \A p \in DOMAIN points : Waits(points[p].node)
    /\ \A i \in DOMAIN attempts : Serial!Is(i, "succeeded") /\ ~attempts[i].made => run = "failed"
Threads == ExecInv /\ DeciderInv
SerialInv == SerialTypes /\ References /\ Threads /\ CommandInv /\ NodesAgree /\ ResultsWait

GateStep == \A n \in Serial!Nodes : Serial!Restores
    \/ /\ Serial!Completes(n) /\ Serial!Kinds(n) # {} =>
             /\ run = "running" /\ Serial!AttemptsOf(n) # {}
             /\ \A a \in Serial!AttemptsOf(n) : Serial!IsLatest(a) =>
                   Serial!Is(a, "succeeded") /\ \E v \in Serial!VerificationsOf(a) : \A k \in Serial!Kinds(n) : Serial!Passed(checks[v].runs[k])
       /\ node[n] = "completed" => node'[n] = "completed"

\* what no step takes back
Kept ==
    /\ DOMAIN attempts \subseteq DOMAIN attempts' /\ DOMAIN checks \subseteq DOMAIN checks'
    /\ \A i \in DOMAIN attempts : /\ attempts'[i].node = attempts[i].node
                                  /\ attempts[i].status = "succeeded" => attempts'[i] = attempts[i]
    /\ \A v \in DOMAIN checks : /\ checks'[v].attempt = checks[v].attempt
                                /\ DOMAIN checks'[v].runs = DOMAIN checks[v].runs
                                /\ \A k \in DOMAIN checks[v].runs : Serial!Passed(checks[v].runs[k]) => checks'[v].runs[k] = checks[v].runs[k]
-----------------------------------------------------------------------------
LEMMA NothingTaken == ASSUME UNCHANGED <<attempts, checks>> PROVE Kept
BY DEF Kept

LEMMA KeptMade == ASSUME Kept, NEW i, Made(i) PROVE Made(i)' /\ attempts'[i] = attempts[i]
BY DEF Kept, Made, Serial!Is

LEMMA KeptVerifications == ASSUME Kept, NEW a, Serial!VerificationsOf(a) # {} PROVE Serial!VerificationsOf(a)' # {}
BY DEF Kept, Serial!VerificationsOf

LEMMA KeptJudged == ASSUME SerialTypes, References, Kept, NEW a \in DOMAIN attempts, Judged(a) PROVE Judged(a)'
<1>1. PICK v \in Serial!VerificationsOf(a) : \A k \in Serial!Kinds(attempts[a].node) : Serial!Passed(checks[v].runs[k])
  BY DEF Judged
<1>2. v \in DOMAIN checks /\ checks[v].attempt = a /\ v \in Serial!VerificationsOf(a)'
  BY <1>1 DEF Serial!VerificationsOf, Kept
<1>3. DOMAIN checks[v].runs = Serial!Kinds(attempts[a].node)
  BY <1>2 DEF References
<1>4. attempts'[a].node = attempts[a].node
  BY DEF Kept
<1>5. \A k \in Serial!Kinds(attempts[a].node) : checks'[v].runs[k] = checks[v].runs[k]
  BY <1>1, <1>2, <1>3 DEF Kept
<1>6. \A k \in Serial!Kinds(attempts'[a].node) : Serial!Passed(checks'[v].runs[k])
  BY <1>1, <1>4, <1>5
<1> QED
  BY <1>2, <1>6 DEF Judged

LEMMA KeptWaits == ASSUME Kept, NEW plan, Waits(plan)
    PROVE \A n \in Serial!Nodes : plan[n] \in {"candidate", "verifying"} =>
             \E i \in Serial!AttemptsOf(n)' : Made(i)' /\ (plan[n] = "verifying" => Serial!VerificationsOf(i)' # {})
<1> SUFFICES ASSUME NEW n \in Serial!Nodes, plan[n] \in {"candidate", "verifying"}
             PROVE  \E i \in Serial!AttemptsOf(n)' : Made(i)' /\ (plan[n] = "verifying" => Serial!VerificationsOf(i)' # {})
  OBVIOUS
<1>1. PICK i \in Serial!AttemptsOf(n) : Made(i) /\ (plan[n] = "verifying" => Serial!VerificationsOf(i) # {})
  BY DEF Waits
<1>2. Made(i)' /\ attempts'[i] = attempts[i]
  BY <1>1, KeptMade
<1>3. i \in Serial!AttemptsOf(n)'
  BY <1>1, <1>2 DEF Serial!AttemptsOf, Made
<1>4. plan[n] = "verifying" => Serial!VerificationsOf(i)' # {}
  BY <1>1, KeptVerifications
<1> QED
  BY <1>2, <1>3, <1>4

LEMMA KeptPoints == ASSUME Kept, ResultsWait, UNCHANGED points PROVE \A p \in DOMAIN points' : Waits(points[p].node)'
<1> SUFFICES ASSUME NEW p \in DOMAIN points PROVE Waits(points[p].node)'
  OBVIOUS
<1>1. Waits(points[p].node)
  BY DEF ResultsWait
<1> QED
  BY <1>1, KeptWaits DEF Waits

LEMMA KeptDecider == ASSUME SerialTypes, References, Kept, DeciderInv, UNCHANGED decider PROVE DeciderInv'
<1>1. decider.pc # "idle" => decider.attempt \in DOMAIN attempts'
  BY DEF DeciderInv, Kept
<1>2. decider.pc = "record" /\ decider.outcome = "passed" => Judged(decider.attempt)'
  BY KeptJudged DEF DeciderInv
<1> QED
  BY <1>1, <1>2 DEF DeciderInv

LEMMA KeptExec ==
    ASSUME SerialTypes, References, Kept, ExecInv, UNCHANGED exec,
           exec.pc = "checks" => /\ Len(checks') = Len(checks) /\ checks' # <<>>
                                 /\ Serial!Unfinished(checks'[Len(checks)].runs)
    PROVE ExecInv'
<1>1. exec.pc = "work" => Serial!Mine \in DOMAIN attempts'
  BY DEF ExecInv, Kept
<1>2. exec.pc \in {"candidate", "checks", "finish", "record"} => Made(Serial!Mine)'
  BY KeptMade DEF ExecInv, Serial!Mine
<1>3. \A a \in exec.rest : Made(a)'
  BY KeptMade DEF ExecInv
<1>4. exec.pc = "record" /\ exec.outcome = "passed" => Judged(Serial!Mine)'
  <2> SUFFICES ASSUME exec.pc = "record", exec.outcome = "passed" PROVE Judged(Serial!Mine)'
    OBVIOUS
  <2>1. Judged(Serial!Mine) /\ Serial!Mine \in DOMAIN attempts
    BY DEF ExecInv, Made
  <2> QED
    BY <2>1, KeptJudged DEF Serial!Mine
<1>5. ASSUME exec.pc = "checks" PROVE checks'[Len(checks')].attempt = Serial!Mine' /\ Serial!Unfinished(checks[Len(checks)].runs)'
  <2>1. checks # <<>> /\ checks[Len(checks)].attempt = Serial!Mine
    BY <1>5 DEF ExecInv
  <2>2. Len(checks) \in DOMAIN checks
    BY <2>1 DEF SerialTypes
  <2> QED
    BY <1>5, <2>1, <2>2 DEF Kept, Serial!Mine, Serial!Unfinished
<1> QED
  BY <1>1, <1>2, <1>3, <1>4, <1>5 DEF ExecInv, Serial!Mine

LEMMA IdleThread == Serial!Idle \in Thread /\ Serial!Looping \in Thread /\ Serial!Idle.pc = "idle" /\ Serial!Looping.pc = "loop" /\ Serial!Idle.rest = {} /\ Serial!Looping.rest = {}
BY DEF Serial!Idle, Serial!Looping, Thread, Places

LEMMA IsIdle == ASSUME exec' \in {Serial!Idle, Serial!Looping} PROVE ExecInv' /\ exec' \in Thread
BY IdleThread DEF ExecInv, Serial!Mine

LEMMA TakesInv == ASSUME NEW rest \in SUBSET Nat, NEW goes \in BOOLEAN, Serial!Takes(rest, goes), \A a \in rest : Made(a)'
    PROVE ExecInv' /\ exec' \in Thread
<1>1. PICK a \in rest : exec' = [pc |-> "candidate", attempt |-> a, rest |-> rest \ {a}, goes |-> goes, outcome |-> None]
  BY DEF Serial!Takes
<1>2. exec' \in Thread
  BY <1>1 DEF Thread, Places
<1> QED
  BY <1>1, <1>2 DEF ExecInv, Serial!Mine

LEMMA ContinuesInv == ASSUME SerialTypes, Kept, ExecInv, Serial!Continues PROVE ExecInv' /\ exec' \in Thread
<1>1. exec.rest \in SUBSET Nat /\ exec.goes \in BOOLEAN
  BY DEF SerialTypes, Thread
<1>2. \A a \in exec.rest : Made(a)'
  BY KeptMade DEF ExecInv
<1>3. CASE exec.rest # {}
  BY <1>1, <1>2, <1>3, TakesInv DEF Serial!Continues
<1>4. CASE exec.rest = {}
  <2>1. exec' \in {Serial!Idle, Serial!Looping}
    BY <1>4 DEF Serial!Continues
  <2> QED
    BY <2>1, IsIdle
<1> QED
  BY <1>3, <1>4

LEMMA RaisesInv == ASSUME Serial!Raises PROVE ExecInv' /\ exec' \in Thread
BY IsIdle DEF Serial!Raises

LEMMA RecoveringInv ==
    ASSUME SerialTypes, ResultsWait, Kept, NEW goes \in BOOLEAN, NEW plan, Serial!Recovering(goes, plan), run # "failed"
    PROVE ExecInv' /\ exec' \in Thread
<1>1. Serial!Recoverable(plan) \in SUBSET Nat
  BY DEF Serial!Recoverable, SerialTypes
<1>2. \A a \in Serial!Recoverable(plan) : Made(a)
  BY DEF Serial!Recoverable, ResultsWait, Made
<1>3. \A a \in Serial!Recoverable(plan) : Made(a)'
  BY <1>2, KeptMade
<1>4. CASE Serial!Recoverable(plan) # {}
  BY <1>1, <1>3, <1>4, TakesInv DEF Serial!Recovering
<1>5. CASE Serial!Recoverable(plan) = {}
  <2>1. exec' \in {Serial!Idle, Serial!Looping}
    BY <1>5 DEF Serial!Recovering
  <2> QED
    BY <2>1, IsIdle
<1> QED
  BY <1>4, <1>5
-----------------------------------------------------------------------------
LEMMA NoGate == ASSUME \A n \in Serial!Nodes : node'[n] = "completed" <=> node[n] = "completed" PROVE GateStep
BY DEF GateStep, Serial!Completes

LEMMA AgreeSame ==
    ASSUME NodesAgree, Serial!Running' = Serial!Running, \A i \in Serial!Running : attempts'[i].node = attempts[i].node /\ attempts[i].node \in Serial!Nodes,
           \A i \in DOMAIN points : i \in DOMAIN points' /\ points'[i] = points[i],
           \A n \in Serial!Nodes : node'[n] = "running" <=> node[n] = "running",
           run' \in {"paused", "cancelled", "completed"} => Serial!Running = {},
           run' = "completed" => \A n \in Serial!Nodes : node'[n] = "completed"
    PROVE  NodesAgree'
<1>1. \A n \in Serial!Nodes : Serial!WasRunning(n) => Serial!WasRunning(n)'
  BY DEF Serial!WasRunning
<1> QED
  BY <1>1 DEF NodesAgree

LEMMA AttemptTypes == ASSUME SerialTypes, NEW i \in DOMAIN attempts
    PROVE attempts[i] \in Serial!Attempt /\ attempts[i].node \in Serial!Nodes /\ i \in Nat /\ i <= Len(attempts) /\ i >= 1
BY DEF SerialTypes, Serial!Attempt

LEMMA RunningIsAttempt == Serial!Running \subseteq DOMAIN attempts
BY DEF Serial!Running

LEMMA CommandsSame == ASSUME SerialTypes, CommandInv, UNCHANGED control
    PROVE CommandInv' /\ control' \in [Controls -> {None} \cup Requests]
BY DEF SerialTypes, CommandInv

LEMMA FactsSame ==
    ASSUME SerialInv, UNCHANGED <<limit, Serial!facts>>, exec' \in Thread, decider' \in Thread, Threads',
           CommandInv', control' \in [Controls -> {None} \cup Requests]
    PROVE  SerialInv' /\ GateStep
<1> USE DEF SerialInv, Serial!facts
<1>1. SerialTypes'
  BY DEF SerialTypes
<1>2. References'
  BY DEF References
<1>3. NodesAgree'
  BY AgreeSame, RunningIsAttempt, AttemptTypes DEF NodesAgree, Serial!Running, Serial!Is
<1>4. ResultsWait'
  <2>1. Kept
    BY NothingTaken
  <2>2. Waits(node)'
    BY <2>1, KeptWaits DEF ResultsWait, Waits
  <2>3. \A p \in DOMAIN points' : Waits(points[p].node)'
    BY <2>1, KeptPoints
  <2> QED
    BY <2>2, <2>3 DEF ResultsWait, Serial!Is
<1>5. GateStep
  BY NoGate
<1> QED
  BY <1>1, <1>2, <1>3, <1>4, <1>5

LEMMA ThreadsSame == ASSUME SerialInv, UNCHANGED <<limit, Serial!facts, decider, control>>, exec' \in Thread, ExecInv'
    PROVE SerialInv' /\ GateStep
<1>1. Kept
  BY NothingTaken DEF Serial!facts
<1>2. DeciderInv' /\ decider' \in Thread
  BY <1>1, KeptDecider DEF SerialInv, Threads, SerialTypes
<1> QED
  BY <1>2, CommandsSame, FactsSame DEF SerialInv, Threads

LEMMA DeciderSame == ASSUME SerialInv, UNCHANGED <<limit, Serial!facts, exec, control>>, decider' \in Thread, DeciderInv'
    PROVE SerialInv' /\ GateStep
<1>1. Kept
  BY NothingTaken DEF Serial!facts
<1>2. ExecInv' /\ exec' \in Thread
  <2>1. exec.pc = "checks" => /\ Len(checks') = Len(checks) /\ checks' # <<>>
                               /\ Serial!Unfinished(checks'[Len(checks)].runs)
    BY DEF SerialInv, Threads, ExecInv, Serial!facts
  <2> QED
    BY <1>1, <2>1, KeptExec DEF SerialInv, Threads, SerialTypes
<1> QED
  BY <1>2, CommandsSame, FactsSame DEF SerialInv, Threads

-----------------------------------------------------------------------------
LEMMA StopsAtLimitInv == ASSUME SerialInv, Serial!StopsAtLimit, Serial!Outside, ~Serial!Refuse PROVE SerialInv' /\ GateStep
<1> USE DEF SerialInv
<1>1. UNCHANGED <<limit, node, attempts, checks, points, kept, decider, control>> /\ Serial!Raises
  BY DEF Serial!StopsAtLimit, Serial!Outside
<1>2. run' \in {"paused", "failed"} /\ cause' \in {cause, "budget"} /\ Serial!Running = {} /\ run \in {"pending", "running"}
  BY DEF Serial!StopsAtLimit, Serial!Refuse
<1>3. Kept
  BY <1>1, NothingTaken
<1>4. ExecInv' /\ exec' \in Thread
  BY <1>1, RaisesInv
<1>5. SerialTypes'
  BY <1>1, <1>2, <1>4 DEF SerialTypes, Serial!Runs, Serial!PauseCauses
<1>6. References'
  BY <1>1 DEF References
<1>7. NodesAgree'
  BY <1>1, <1>2, AgreeSame, RunningIsAttempt, AttemptTypes DEF Serial!Running, Serial!Is
<1>8. ResultsWait'
  <2>1. Waits(node)'
    BY <1>1, <1>3, KeptWaits DEF ResultsWait, Waits
  <2> QED
    BY <1>1, <1>2, <1>3, <2>1, KeptPoints DEF ResultsWait, Serial!Is
<1>9. DeciderInv'
  BY <1>1, <1>3, KeptDecider DEF Threads
<1>10. CommandInv'
  BY <1>1, CommandsSame
<1>11. GateStep
  BY <1>1, NoGate
<1> QED
  BY <1>4, <1>5, <1>6, <1>7, <1>8, <1>9, <1>10, <1>11 DEF Threads

LEMMA StartAttemptInv == ASSUME SerialInv, NEW n \in Serial!Candidates, Serial!StartAttempt(n), Serial!Outside, ~Serial!Refuse PROVE SerialInv' /\ GateStep
<1> USE DEF SerialInv
<1> DEFINE new == [node |-> n, status |-> "running", made |-> FALSE]
<1>1. UNCHANGED <<limit, cause, checks, points, kept, decider, control>>
  BY DEF Serial!StartAttempt, Serial!Outside
<1>2. Serial!Running = {} /\ run \in {"pending", "running"} /\ run' = "running"
  BY DEF Serial!StartAttempt, Serial!Refuse
<1>3. n \in Serial!Nodes /\ node[n] \in {"pending", "ready"}
  BY DEF Serial!Candidates, Serial!Ready, Serial!At
<1>4. node' = [node EXCEPT ![n] = "running"] /\ attempts' = Append(attempts, new)
  BY DEF Serial!StartAttempt
<1>5. new \in Serial!Attempt
  BY <1>3 DEF Serial!Attempt
<1>6. /\ attempts' \in Seq(Serial!Attempt) /\ DOMAIN attempts' = DOMAIN attempts \cup {Len(attempts')}
      /\ Len(attempts') = Len(attempts) + 1 /\ Len(attempts) \in Nat
      /\ attempts'[Len(attempts')] = new /\ \A i \in DOMAIN attempts : attempts'[i] = attempts[i]
  BY <1>4, <1>5 DEF SerialTypes
<1>7. Kept
  BY <1>1, <1>6 DEF Kept
<1>8. ExecInv' /\ exec' \in Thread
  <2>1. exec' = [exec EXCEPT !.pc = "work", !.attempt = Len(attempts')]
    BY DEF Serial!StartAttempt
  <2>2. exec' \in Thread /\ exec'.pc = "work" /\ exec'.attempt = Len(attempts') /\ exec'.rest = exec.rest
    <3>1. Len(attempts') \in Nat
      BY <1>6
    <3>2. exec \in Thread
      BY DEF SerialTypes
    <3> QED
      BY <2>1, <3>1, <3>2 DEF Thread, Places
  <2>3. \A a \in exec'.rest : Made(a)'
    BY <1>7, <2>2, KeptMade DEF Threads, ExecInv
  <2> QED
    BY <1>6, <2>2, <2>3 DEF ExecInv, Serial!Mine
<1>9. SerialTypes'
  BY <1>1, <1>2, <1>3, <1>4, <1>6, <1>8 DEF SerialTypes, Serial!Runs, Plans, Serial!PlanNode
<1>10. References'
  BY <1>1, <1>6 DEF References
<1>11. Serial!Running' = {Len(attempts')}
  BY <1>2, <1>6 DEF Serial!Running, Serial!Is
<1>12. NodesAgree'
  <2>1. \A m \in Serial!Nodes : node'[m] = "running" => m = n \/ Serial!WasRunning(m)'
    BY <1>1, <1>2, <1>3, <1>4 DEF NodesAgree, Serial!WasRunning, SerialTypes, Plans
  <2>2. node'[n] = "running"
    BY <1>3, <1>4 DEF SerialTypes, Plans
  <2> QED
    BY <1>2, <1>6, <1>11, <2>1, <2>2 DEF NodesAgree
<1>13. ResultsWait'
  <2>1. Waits(node)
    BY DEF ResultsWait
  <2>2. \A m \in Serial!Nodes : node'[m] \in {"candidate", "verifying"} => node'[m] = node[m]
    BY <1>3, <1>4 DEF SerialTypes, Plans
  <2>3. Waits(node)'
    BY <1>7, <2>1, <2>2, KeptWaits DEF Waits
  <2>4. \A i \in DOMAIN attempts' : Serial!Is(i, "succeeded")' => attempts'[i].made
    BY <1>2, <1>6 DEF ResultsWait, Serial!Is
  <2> QED
    BY <1>1, <1>7, <2>3, <2>4, KeptPoints DEF ResultsWait
<1>14. DeciderInv'
  BY <1>1, <1>7, KeptDecider DEF Threads
<1>15. CommandInv'
  BY <1>1, CommandsSame
<1>16. GateStep
  BY <1>3, <1>4, NoGate DEF SerialTypes, Plans
<1> QED
  BY <1>8, <1>9, <1>10, <1>12, <1>13, <1>14, <1>15, <1>16 DEF Threads

LEMMA PrepareInv == ASSUME SerialInv, Serial!Prepare PROVE SerialInv' /\ GateStep
<1>1. CASE Serial!WaitingForHuman \/ Serial!Refuse
  <2>1. Serial!Raises /\ UNCHANGED <<limit, Serial!facts, decider, control>>
    BY <1>1 DEF Serial!Prepare, Serial!Outside
  <2> QED
    BY <2>1, RaisesInv, ThreadsSame
<1>2. CASE ~(Serial!WaitingForHuman \/ Serial!Refuse) /\ Serial!Exhausted
  BY <1>2, StopsAtLimitInv DEF Serial!Prepare
<1>3. CASE ~(Serial!WaitingForHuman \/ Serial!Refuse) /\ ~Serial!Exhausted
  <2>1. PICK n \in Serial!Candidates : Serial!StartAttempt(n)
    BY <1>3 DEF Serial!Prepare
  <2> QED
    BY <1>3, <2>1, StartAttemptInv DEF Serial!Prepare
<1> QED
  BY <1>1, <1>2, <1>3
-----------------------------------------------------------------------------
LEMMA StaleInv == ASSUME SerialInv, Serial!Discarded \/ Serial!AwaitControlledCancellation PROVE SerialInv' /\ GateStep
<1>1. Serial!Raises /\ UNCHANGED <<limit, Serial!facts, decider, control>>
  BY DEF Serial!Discarded, Serial!AwaitControlledCancellation, Serial!Works, Serial!Outside, Serial!facts
<1> QED
  BY <1>1, RaisesInv, ThreadsSame

\* the running Attempt ends
LEMMA OneEnds ==
    ASSUME SerialInv, NEW a \in Serial!Running, NEW e \in Serial!Attempt, e.node = attempts[a].node, e.status # "running",
           attempts' = [attempts EXCEPT ![a] = e], UNCHANGED checks
    PROVE  /\ a \in DOMAIN attempts /\ attempts' \in Seq(Serial!Attempt) /\ DOMAIN attempts' = DOMAIN attempts /\ attempts'[a] = e
           /\ \A i \in DOMAIN attempts : i # a => attempts'[i] = attempts[i]
           /\ Kept /\ Serial!Running' = {}
<1> USE DEF SerialInv
<1>1. /\ a \in DOMAIN attempts /\ attempts' \in Seq(Serial!Attempt) /\ DOMAIN attempts' = DOMAIN attempts /\ attempts'[a] = e
      /\ \A i \in DOMAIN attempts : i # a => attempts'[i] = attempts[i]
  BY DEF SerialTypes, Serial!Running
<1>2. Kept
  BY <1>1 DEF Kept, Serial!Running, Serial!Is
<1>3. Serial!Running' = {}
  BY <1>1 DEF Serial!Running, Serial!Is, NodesAgree
<1> QED
  BY <1>1, <1>2, <1>3

LEMMA KeptReferences ==
    ASSUME SerialTypes, References, Kept, UNCHANGED points,
           \A v \in DOMAIN checks' : v \in DOMAIN checks \/ (/\ checks'[v].attempt \in DOMAIN attempts
                                                          /\ DOMAIN checks'[v].runs = Serial!Kinds(attempts[checks'[v].attempt].node)),
           \A i \in kept' : i \in kept \/ (i \in DOMAIN attempts' /\ attempts'[i].made)
    PROVE References'
<1>1. ASSUME NEW v \in DOMAIN checks'
      PROVE  /\ checks'[v].attempt \in DOMAIN attempts'
             /\ DOMAIN checks'[v].runs = Serial!Kinds(attempts'[checks'[v].attempt].node)
  <2>1. checks'[v].attempt \in DOMAIN attempts /\ DOMAIN checks'[v].runs = Serial!Kinds(attempts[checks'[v].attempt].node)
    BY <1>1 DEF References, Kept
  <2> QED
    BY <2>1 DEF Kept
<1>2. ASSUME NEW i \in DOMAIN points
      PROVE  /\ points[i].attempt \in DOMAIN attempts'
             /\ points[i].node[attempts'[points[i].attempt].node] = "completed"
  <2>1. points[i].attempt \in DOMAIN attempts /\ points[i].node[attempts[points[i].attempt].node] = "completed"
    BY DEF References
  <2> QED
    BY <2>1 DEF Kept
<1>3. ASSUME NEW i \in kept' PROVE i \in DOMAIN attempts' /\ attempts'[i].made
  <2>1. CASE i \in kept
    <3>1. i \in DOMAIN attempts /\ attempts[i].made
      BY <2>1 DEF References
    <3>2. attempts[i].status = "succeeded"
      BY <3>1, AttemptTypes DEF Serial!Attempt
    <3> QED
      BY <3>1, <3>2 DEF Kept
  <2> QED
    BY <1>3, <2>1
<1> QED
  BY <1>1, <1>2, <1>3 DEF References

LEMMA RecordCandidateInv == ASSUME SerialInv, Serial!RecordCandidate PROVE SerialInv' /\ GateStep
<1> USE DEF SerialInv
<1> DEFINE a == exec.attempt
           e == [attempts[a] EXCEPT !.status = "succeeded", !.made = TRUE]
           n == attempts[a].node
<1>1. UNCHANGED <<limit, cause, checks, points, decider, control, run>> /\ kept' = kept \cup {a} /\ exec.pc = "work"
  BY DEF Serial!RecordCandidate, Serial!Works, Serial!Outside, Serial!Executor, Serial!Mine
<1>2. a \in Serial!Running /\ node[n] = "running" /\ a \in DOMAIN attempts
  BY <1>1 DEF Serial!RecordCandidate, Serial!Stale, Serial!Running, Threads, ExecInv, Serial!Mine, Serial!MyNode
<1>3. n \in Serial!Nodes /\ attempts[a] \in Serial!Attempt /\ a \in Nat
  BY <1>2, AttemptTypes DEF Serial!MyNode, Serial!Mine
<1>4. e \in Serial!Attempt /\ e.node = n /\ e.status = "succeeded" /\ e.made
  BY <1>3 DEF Serial!Attempt, Serial!MyNode, Serial!Mine
<1>5. attempts' = [attempts EXCEPT ![a] = e]
  BY <1>2 DEF Serial!RecordCandidate, SerialTypes, Serial!Mine
<1>6. /\ attempts' \in Seq(Serial!Attempt) /\ DOMAIN attempts' = DOMAIN attempts /\ attempts'[a] = e
      /\ \A i \in DOMAIN attempts : i # a => attempts'[i] = attempts[i]
      /\ Kept /\ Serial!Running' = {}
  BY <1>1, <1>2, <1>4, <1>5, OneEnds DEF Serial!MyNode, Serial!Mine
<1>7. node' = [node EXCEPT ![n] = "candidate"] /\ exec' = [exec EXCEPT !.pc = "candidate"]
  BY DEF Serial!RecordCandidate, Serial!MyNode, Serial!Mine
<1>8. node' \in Plans /\ node'[n] = "candidate" /\ \A m \in Serial!Nodes : m # n => node'[m] = node[m]
  BY <1>3, <1>7 DEF SerialTypes, Plans, Serial!PlanNode
<1>9. a \in DOMAIN attempts' /\ attempts'[a].status = "succeeded" /\ attempts'[a].made /\ attempts'[a].node = n /\ exec'.attempt = a
  <2>1. exec'.attempt = a
    BY <1>7 DEF SerialTypes, Thread
  <2> QED
    BY <1>2, <1>4, <1>6, <2>1
<1>10. \E i \in DOMAIN attempts' : i = a /\ Made(i)'
  BY <1>9 DEF Made, Serial!Is
<1>11. ExecInv' /\ exec' \in Thread
  <2>1. exec' \in Thread /\ exec'.pc = "candidate" /\ exec'.rest = exec.rest
    BY <1>7 DEF SerialTypes, Thread, Places
  <2>2. \A b \in exec'.rest : Made(b)'
    BY <1>6, <2>1, KeptMade DEF Threads, ExecInv
  <2> QED
    BY <1>9, <1>10, <2>1, <2>2 DEF ExecInv, Serial!Mine
<1>12. SerialTypes'
  BY <1>1, <1>3, <1>6, <1>8, <1>11 DEF SerialTypes
<1>13. References'
  BY <1>1, <1>6, <1>9, KeptReferences
<1>14. NodesAgree'
  <2>1. \A m \in Serial!Nodes : node'[m] = "running" => Serial!WasRunning(m)'
    <3> SUFFICES ASSUME NEW m \in Serial!Nodes, node'[m] = "running" PROVE Serial!WasRunning(m)'
      OBVIOUS
    <3>1. m # n /\ node[m] = "running"
      BY <1>8
    <3>2. Serial!WasRunning(m)
      BY <1>2, <3>1 DEF NodesAgree, Serial!MyNode, Serial!Mine
    <3> QED
      BY <1>1, <3>2 DEF Serial!WasRunning
  <2>2. run # "completed"
    BY <1>2 DEF NodesAgree
  <2> QED
    BY <1>1, <1>6, <2>1, <2>2 DEF NodesAgree
<1>15. ResultsWait'
  <2>1. Waits(node)'
    <3> SUFFICES ASSUME NEW m \in Serial!Nodes, node'[m] \in {"candidate", "verifying"}
                 PROVE  \E i \in Serial!AttemptsOf(m)' : Made(i)' /\ (node'[m] = "verifying" => Serial!VerificationsOf(i)' # {})
      BY DEF Waits
    <3>1. CASE m = n
      <4>1. PICK i \in DOMAIN attempts' : Made(i)' /\ attempts'[i].node = m
        BY <1>9, <1>10, <3>1
      <4> QED
        BY <1>8, <3>1, <4>1 DEF Serial!AttemptsOf
    <3>2. CASE m # n
      BY <1>6, <1>8, <3>2, KeptWaits DEF ResultsWait, Waits
    <3> QED
      BY <3>1, <3>2
  <2>2. \A i \in DOMAIN attempts' : Serial!Is(i, "succeeded")' /\ ~attempts'[i].made => run' = "failed"
    BY <1>1, <1>4, <1>6 DEF ResultsWait, Serial!Is
  <2> QED
    BY <1>1, <1>6, <2>1, <2>2, KeptPoints DEF ResultsWait
<1>16. DeciderInv'
  BY <1>1, <1>6, KeptDecider DEF Threads
<1>17. CommandInv'
  BY <1>1, CommandsSame
<1>18. GateStep
  BY <1>2, <1>8, NoGate DEF Serial!MyNode, Serial!Mine
<1> QED
  BY <1>11, <1>12, <1>13, <1>14, <1>15, <1>16, <1>17, <1>18 DEF Threads

LEMMA RecordWorkerFailureInv ==
    ASSUME SerialInv, NEW ended \in {"failed", "timed_out", "succeeded"}, Serial!RecordWorkerFailure(ended)
    PROVE SerialInv' /\ GateStep
<1> USE DEF SerialInv
<1> DEFINE e == [attempts[Serial!Mine] EXCEPT !.status = ended]
           n == Serial!MyNode
<1>1. UNCHANGED <<limit, cause, checks, points, decider, control, kept>> /\ exec.pc = "work" /\ Serial!Raises
  BY DEF Serial!RecordWorkerFailure, Serial!Works, Serial!Outside, Serial!Executor
<1>2. Serial!Mine \in Serial!Running /\ node[n] = "running" /\ Serial!Mine \in DOMAIN attempts
  BY <1>1 DEF Serial!RecordWorkerFailure, Serial!Stale, Serial!Running, Threads, ExecInv
<1>3. n \in Serial!Nodes /\ attempts[Serial!Mine] \in Serial!Attempt /\ Serial!Mine \in Nat /\ attempts[Serial!Mine].status = "running"
  BY <1>2, AttemptTypes DEF Serial!MyNode, Serial!Running, Serial!Is
<1>4. CASE run \notin {"running", "paused"}
  <2>1. UNCHANGED <<limit, Serial!facts, decider, control>>
    BY <1>1, <1>4 DEF Serial!RecordWorkerFailure, Serial!facts
  <2> QED
    BY <1>1, <2>1, RaisesInv, ThreadsSame
<1>5. CASE run \in {"running", "paused"}
  <2>1. e \in Serial!Attempt /\ e.node = n /\ e.status = ended
    BY <1>3 DEF Serial!Attempt, Serial!MyNode, Serial!EndedStatus
  <2>2. attempts' = [attempts EXCEPT ![Serial!Mine] = e] /\ node' = [node EXCEPT ![n] = "failed"] /\ run' = "failed"
    BY <1>2, <1>5 DEF Serial!RecordWorkerFailure, Serial!Set
  <2>3. /\ attempts' \in Seq(Serial!Attempt) /\ DOMAIN attempts' = DOMAIN attempts /\ attempts'[Serial!Mine] = e
        /\ \A i \in DOMAIN attempts : i # Serial!Mine => attempts'[i] = attempts[i]
        /\ Kept /\ Serial!Running' = {}
    BY <1>1, <1>2, <2>1, <2>2, OneEnds DEF Serial!MyNode
  <2>4. node' \in Plans /\ node'[n] = "failed" /\ \A m \in Serial!Nodes : m # n => node'[m] = node[m]
    BY <1>3, <2>2 DEF SerialTypes, Plans, Serial!PlanNode
  <2>5. ExecInv' /\ exec' \in Thread
    BY <1>1, RaisesInv
  <2>6. SerialTypes'
    BY <1>1, <2>2, <2>3, <2>4, <2>5 DEF SerialTypes, Serial!Runs
  <2>7. References'
    BY <1>1, <2>3, KeptReferences
  <2>8. NodesAgree'
    <3>1. \A m \in Serial!Nodes : node'[m] = "running" => Serial!WasRunning(m)'
      <4> SUFFICES ASSUME NEW m \in Serial!Nodes, node'[m] = "running" PROVE Serial!WasRunning(m)'
        OBVIOUS
      <4>1. m # n /\ node[m] = "running"
        BY <2>4
      <4>2. Serial!WasRunning(m)
        BY <1>2, <4>1 DEF NodesAgree, Serial!MyNode
      <4> QED
        BY <1>1, <4>2 DEF Serial!WasRunning
    <3> QED
      BY <2>2, <2>3, <3>1 DEF NodesAgree
  <2>9. ResultsWait'
    <3>1. Waits(node)'
      BY <2>3, <2>4, KeptWaits DEF ResultsWait, Waits
    <3> QED
      BY <1>1, <2>2, <2>3, <3>1, KeptPoints DEF ResultsWait
  <2>10. DeciderInv'
    BY <1>1, <2>3, KeptDecider DEF Threads
  <2>11. CommandInv'
    BY <1>1, CommandsSame
  <2>12. GateStep
    BY <1>2, <2>4, NoGate DEF Serial!MyNode
  <2> QED
    BY <2>5, <2>6, <2>7, <2>8, <2>9, <2>10, <2>11, <2>12 DEF Threads
<1> QED
  BY <1>4, <1>5
-----------------------------------------------------------------------------
(* Changes of CheckRuns.                                                      *)

LEMMA VerificationTypes == ASSUME SerialTypes, NEW v \in DOMAIN checks
    PROVE /\ checks[v] \in Verification /\ checks[v].attempt \in Nat
          /\ checks[v].runs \in [DOMAIN checks[v].runs -> Serial!CheckRun] /\ DOMAIN checks[v].runs \subseteq {"auto", "human"}
          /\ v \in 1..Len(checks) /\ Len(checks) \in Nat /\ checks \in [1..Len(checks) -> Verification]
<1>1. /\ checks[v] \in Verification /\ v \in 1..Len(checks) /\ Len(checks) \in Nat
      /\ checks \in [1..Len(checks) -> Verification]
  BY DEF SerialTypes
<1>2. PICK S \in SUBSET {"auto", "human"} : checks[v].runs \in [S -> Serial!CheckRun]
  BY <1>1 DEF Verification
<1> QED
  BY <1>1, <1>2 DEF Verification

LEMMA IsVerification == ASSUME NEW S \in SUBSET {"auto", "human"}, NEW f \in [S -> Serial!CheckRun], NEW a \in Nat, NEW r,
                               r = [attempt |-> a, runs |-> f]
    PROVE r \in Verification
<1>1. [S -> Serial!CheckRun] \in {[T -> Serial!CheckRun] : T \in SUBSET {"auto", "human"}}
  OBVIOUS
<1>2. f \in UNION {[T -> Serial!CheckRun] : T \in SUBSET {"auto", "human"}}
  BY <1>1
<1> QED
  BY <1>2 DEF Verification

LEMMA OneRuns ==
    ASSUME SerialTypes, UNCHANGED attempts, NEW v \in DOMAIN checks, NEW f \in [DOMAIN checks[v].runs -> Serial!CheckRun],
           \A k \in DOMAIN checks[v].runs : Serial!Passed(checks[v].runs[k]) => f[k] = checks[v].runs[k],
           checks' = [checks EXCEPT ![v].runs = f]
    PROVE  /\ checks' \in Seq(Verification) /\ DOMAIN checks' = DOMAIN checks /\ Len(checks') = Len(checks)
           /\ checks'[v].runs = f /\ \A u \in DOMAIN checks : u # v => checks'[u] = checks[u]
           /\ Kept
<1> DEFINE r == [attempt |-> checks[v].attempt, runs |-> f]
<1>1. r \in Verification
  BY VerificationTypes, IsVerification
<1>2. [checks[v] EXCEPT !.runs = f] = r
  <2>1. checks[v] \in Verification
    BY VerificationTypes
  <2> QED
    BY <2>1 DEF Verification
<1>3. /\ checks' \in Seq(Verification) /\ DOMAIN checks' = DOMAIN checks /\ Len(checks') = Len(checks)
      /\ checks'[v] = r /\ \A u \in DOMAIN checks : u # v => checks'[u] = checks[u]
  <2>1. checks' = [checks EXCEPT ![v] = [checks[v] EXCEPT !.runs = f]]
    OBVIOUS
  <2>2. checks' = [checks EXCEPT ![v] = r]
    BY <1>2, <2>1
  <2>3. checks \in Seq(Verification) /\ DOMAIN checks = 1..Len(checks) /\ Len(checks) \in Nat
    BY DEF SerialTypes
  <2> HIDE DEF r
  <2>4. checks' \in [1..Len(checks) -> Verification] /\ DOMAIN checks' = DOMAIN checks
    BY <1>1, <2>2, <2>3
  <2>5. checks' \in Seq(Verification) /\ Len(checks') = Len(checks)
    BY <2>3, <2>4
  <2>6. checks'[v] = r /\ \A u \in DOMAIN checks : u # v => checks'[u] = checks[u]
    BY <2>2, <2>3
  <2> QED
    BY <2>4, <2>5, <2>6
<1>4. Kept
  BY <1>3 DEF Kept
<1> QED
  BY <1>3, <1>4

LEMMA ManyRuns ==
    ASSUME SerialTypes, UNCHANGED attempts, checks' \in [DOMAIN checks -> Verification],
           \A v \in DOMAIN checks : /\ checks'[v].attempt = checks[v].attempt
                                    /\ DOMAIN checks'[v].runs = DOMAIN checks[v].runs
                                    /\ \A k \in DOMAIN checks[v].runs : Serial!Passed(checks[v].runs[k]) => checks'[v].runs[k] = checks[v].runs[k]
    PROVE  checks' \in Seq(Verification) /\ DOMAIN checks' = DOMAIN checks /\ Len(checks') = Len(checks) /\ Kept
<1>1. DOMAIN checks = 1..Len(checks) /\ Len(checks) \in Nat
  BY DEF SerialTypes
<1>2. checks' \in Seq(Verification) /\ DOMAIN checks' = DOMAIN checks /\ Len(checks') = Len(checks)
  BY <1>1
<1> QED
  BY <1>2 DEF Kept

LEMMA ChecksStep ==
    ASSUME SerialInv, Kept, checks' \in Seq(Verification), DOMAIN checks' = DOMAIN checks,
           UNCHANGED <<limit, node, attempts, points, kept, control>>,
           cause' \in Serial!PauseCauses, run' = run \/ (run = "running" /\ run' = "paused" /\ Serial!Running = {}),
           exec' \in Thread, decider' \in Thread, Threads'
    PROVE  SerialInv' /\ GateStep
<1> USE DEF SerialInv
<1>1. SerialTypes'
  BY DEF SerialTypes, Serial!Runs
<1>2. References'
  BY KeptReferences
<1>3. NodesAgree'
  <2>1. Serial!Running' = Serial!Running
    BY DEF Serial!Running, Serial!Is
  <2> QED
    BY <2>1, AgreeSame, RunningIsAttempt, AttemptTypes DEF NodesAgree
<1>4. ResultsWait'
  <2>1. Waits(node)'
    BY KeptWaits DEF ResultsWait, Waits
  <2>2. \A p \in DOMAIN points' : Waits(points[p].node)'
    BY KeptPoints
  <2> QED
    BY <2>1, <2>2 DEF ResultsWait, Serial!Is
<1>5. CommandInv'
  BY CommandsSame
<1>6. GateStep
  BY NoGate
<1> QED
  BY <1>1, <1>2, <1>3, <1>4, <1>5, <1>6

-----------------------------------------------------------------------------
(* Changes of one node, its Attempts and Checks as they are.                  *)

LEMMA OneNode ==
    ASSUME SerialInv, NEW n \in Serial!Nodes, NEW s \in {"completed", "failed"}, node[n] \in {"candidate", "verifying"},
           node' = [node EXCEPT ![n] = s], UNCHANGED <<attempts, checks>>
    PROVE  /\ node' \in Plans /\ node'[n] = s /\ \A m \in Serial!Nodes : m # n => node'[m] = node[m]
           /\ Serial!Running' = Serial!Running /\ Kept /\ Waits(node)'
<1> USE DEF SerialInv
<1>1. node' \in Plans /\ node'[n] = s /\ \A m \in Serial!Nodes : m # n => node'[m] = node[m]
  BY DEF SerialTypes, Plans, Serial!PlanNode
<1>2. Kept
  BY NothingTaken
<1>3. Waits(node)'
  BY <1>1, <1>2, KeptWaits DEF ResultsWait, Waits
<1> QED
  BY <1>1, <1>2, <1>3 DEF Serial!Running, Serial!Is

LEMMA AcceptedInv ==
    ASSUME SerialInv, NEW n \in Serial!Nodes, node[n] = "candidate", Serial!Kinds(n) = {}, node' = [node EXCEPT ![n] = "completed"],
           UNCHANGED <<limit, run, cause, attempts, checks, points, kept, decider, control>>, exec' \in Thread, ExecInv'
    PROVE  SerialInv' /\ GateStep
<1> USE DEF SerialInv
<1>1. /\ node' \in Plans /\ node'[n] = "completed" /\ \A m \in Serial!Nodes : m # n => node'[m] = node[m]
      /\ Serial!Running' = Serial!Running /\ Kept /\ Waits(node)'
  BY OneNode
<1>2. SerialTypes'
  BY <1>1 DEF SerialTypes
<1>3. References'
  BY <1>1, KeptReferences
<1>4. NodesAgree'
  BY <1>1, AgreeSame, RunningIsAttempt, AttemptTypes DEF NodesAgree
<1>5. ResultsWait'
  BY <1>1, KeptPoints DEF ResultsWait, Serial!Is
<1>6. DeciderInv' /\ CommandInv'
  BY <1>1, KeptDecider, CommandsSame DEF Threads
<1>7. GateStep
  BY <1>1 DEF GateStep, Serial!Completes
<1> QED
  BY <1>2, <1>3, <1>4, <1>5, <1>6, <1>7 DEF Threads

LEMMA CompletionInv ==
    ASSUME SerialInv, NEW a \in DOMAIN attempts, ~Serial!Unwanted(a), Serial!IsLatest(a), Serial!Is(a, "succeeded"), Judged(a),
           node' = [node EXCEPT ![attempts[a].node] = "completed"],
           points' = Append(points, Serial!Checkpoint(node', a)),
           run' = IF Serial!IsFinalCompletion(attempts[a].node, node') THEN "completed" ELSE run,
           UNCHANGED <<limit, cause, attempts, checks, kept, control>>, exec' \in Thread, decider' \in Thread, Threads'
    PROVE  SerialInv' /\ GateStep
<1> USE DEF SerialInv
<1> DEFINE n == attempts[a].node
<1>1. n \in Serial!Nodes /\ a \in Nat /\ run = "running" /\ node[n] = "verifying"
  BY AttemptTypes DEF Serial!Unwanted
<1>2. /\ node' \in Plans /\ node'[n] = "completed" /\ \A m \in Serial!Nodes : m # n => node'[m] = node[m]
      /\ Serial!Running' = Serial!Running /\ Kept /\ Waits(node)'
  BY <1>1, OneNode
<1>3. Serial!Checkpoint(node', a) \in Point
  BY <1>1, <1>2 DEF Serial!Checkpoint, Point
<1>4. /\ points' \in Seq(Point) /\ DOMAIN points' = DOMAIN points \cup {Len(points')}
      /\ points'[Len(points')] = Serial!Checkpoint(node', a)
      /\ \A i \in DOMAIN points : points'[i] = points[i]
  BY <1>3 DEF SerialTypes
<1>5. run' = "running" \/ (run' = "completed" /\ \A m \in Serial!Nodes : node'[m] = "completed")
  BY <1>1 DEF Serial!IsFinalCompletion
<1>6. SerialTypes'
  BY <1>2, <1>4, <1>5 DEF SerialTypes, Serial!Runs
<1>7. References'
  <2>1. ASSUME NEW i \in DOMAIN points'
        PROVE  points'[i].attempt \in DOMAIN attempts /\ points'[i].node[attempts[points'[i].attempt].node] = "completed"
    <3>1. CASE i \in DOMAIN points
      BY <1>4, <3>1 DEF References
    <3>2. CASE i = Len(points')
      BY <1>2, <1>4, <3>2 DEF Serial!Checkpoint
    <3> QED
      BY <1>4, <2>1, <3>1, <3>2
  <2> QED
    BY <2>1 DEF References
<1>8. NodesAgree'
  <2>1. run' = "completed" => Serial!Running = {}
    BY <1>1, <1>2, <1>5, RunningIsAttempt, AttemptTypes DEF NodesAgree
  <2>2. \A i \in DOMAIN points : i \in DOMAIN points' /\ points'[i] = points[i]
    BY <1>4
  <2>3. \A m \in Serial!Nodes : node'[m] = "running" <=> node[m] = "running"
    BY <1>1, <1>2
  <2> QED
    BY <1>2, <1>5, <2>1, <2>2, <2>3, AgreeSame, RunningIsAttempt, AttemptTypes
<1>9. ResultsWait'
  <2>1. ASSUME NEW p \in DOMAIN points' PROVE Waits(points[p].node)'
    <3>1. CASE p \in DOMAIN points
      <4>1. Waits(points[p].node)
        BY <3>1 DEF ResultsWait
      <4> QED
        BY <1>2, <1>4, <3>1, <4>1, KeptWaits DEF Waits
    <3>2. CASE p = Len(points')
      BY <1>2, <1>4, <3>2 DEF Serial!Checkpoint, Waits
    <3> QED
      BY <1>4, <2>1, <3>1, <3>2
  <2>2. \A i \in DOMAIN attempts : ~(Serial!Is(i, "succeeded") /\ ~attempts[i].made)
    BY <1>1 DEF ResultsWait
  <2> QED
    BY <1>2, <2>1, <2>2 DEF ResultsWait, Serial!Is
<1>10. CommandInv'
  BY CommandsSame
<1>11. GateStep
  <2> SUFFICES ASSUME NEW m \in Serial!Nodes
               PROVE  /\ Serial!Completes(m) => /\ run = "running" /\ Serial!AttemptsOf(m) # {}
                                         /\ \A b \in Serial!AttemptsOf(m) : Serial!IsLatest(b) =>
                                              Serial!Is(b, "succeeded") /\ \E v \in Serial!VerificationsOf(b) : \A k \in Serial!Kinds(m) : Serial!Passed(checks[v].runs[k])
                      /\ node[m] = "completed" => node'[m] = "completed"
    BY DEF GateStep
  <2>1. node[m] = "completed" => node'[m] = "completed"
    BY <1>2
  <2>2. ASSUME Serial!Completes(m)
        PROVE  /\ Serial!AttemptsOf(m) # {}
               /\ \A b \in Serial!AttemptsOf(m) : Serial!IsLatest(b) =>
                    Serial!Is(b, "succeeded") /\ \E v \in Serial!VerificationsOf(b) : \A k \in Serial!Kinds(m) : Serial!Passed(checks[v].runs[k])
    <3>1. m = n
      BY <1>2, <2>2 DEF Serial!Completes
    <3>2. a \in Serial!AttemptsOf(m)
      BY <3>1 DEF Serial!AttemptsOf
    <3>3. ASSUME NEW b \in Serial!AttemptsOf(m), Serial!IsLatest(b) PROVE b = a
      <4>1. b \in DOMAIN attempts /\ attempts[b].node = n /\ b \in Nat
        BY <3>1, AttemptTypes DEF Serial!AttemptsOf
      <4>2. a <= b /\ b <= a
        BY <3>1, <3>2, <3>3, <4>1 DEF Serial!IsLatest
      <4> QED
        BY <1>1, <4>1, <4>2
    <3>4. \E v \in Serial!VerificationsOf(a) : \A k \in Serial!Kinds(m) : Serial!Passed(checks[v].runs[k])
      BY <3>1 DEF Judged
    <3> QED
      BY <3>2, <3>3, <3>4
  <2> QED
    BY <1>1, <2>1, <2>2
<1> QED
  BY <1>6, <1>7, <1>8, <1>9, <1>10, <1>11

LEMMA GateFailureInv ==
    ASSUME SerialInv, NEW n \in Serial!Nodes, node[n] = "verifying", run = "running",
           node' = [node EXCEPT ![n] = "failed"], run' = "failed",
           UNCHANGED <<limit, cause, attempts, checks, points, kept, control>>, exec' \in Thread, decider' \in Thread, Threads'
    PROVE  SerialInv' /\ GateStep
<1> USE DEF SerialInv
<1>1. /\ node' \in Plans /\ node'[n] = "failed" /\ \A m \in Serial!Nodes : m # n => node'[m] = node[m]
      /\ Serial!Running' = Serial!Running /\ Kept /\ Waits(node)'
  BY OneNode
<1>2. SerialTypes'
  BY <1>1 DEF SerialTypes, Serial!Runs
<1>3. References'
  BY <1>1, KeptReferences
<1>4. NodesAgree'
  BY <1>1, AgreeSame, RunningIsAttempt, AttemptTypes DEF NodesAgree
<1>5. ResultsWait'
  BY <1>1, KeptPoints DEF ResultsWait, Serial!Is
<1>6. CommandInv'
  BY CommandsSame
<1>7. GateStep
  BY <1>1, NoGate
<1> QED
  BY <1>2, <1>3, <1>4, <1>5, <1>6, <1>7
-----------------------------------------------------------------------------
(* The executor at a result.                                                  *)

LEMMA AcceptIntermediateInv == ASSUME SerialInv, Serial!AcceptIntermediate PROVE SerialInv' /\ GateStep
<1> USE DEF SerialInv
<1>1. /\ UNCHANGED <<limit, cause, kept, decider, control, run, attempts, checks, points>>
      /\ exec.pc = "candidate" /\ Serial!Kinds(Serial!MyNode) = {}
  BY DEF Serial!AcceptIntermediate, Serial!Candidate, Serial!Outside, Serial!Executor
<1>2. Kept
  BY <1>1, NothingTaken
<1>3. CASE node[Serial!MyNode] = "candidate" /\ ~Serial!Final(Serial!MyNode) /\ attempts[Serial!Mine].made
  <2>1. node' = [node EXCEPT ![Serial!MyNode] = "completed"] /\ Serial!Continues
    BY <1>3 DEF Serial!AcceptIntermediate
  <2>2. Serial!MyNode \in Serial!Nodes
    BY <1>1, AttemptTypes DEF Threads, ExecInv, Made, Serial!MyNode
  <2>3. ExecInv' /\ exec' \in Thread
    BY <1>2, <2>1, ContinuesInv DEF Threads
  <2> QED
    BY <1>1, <1>3, <2>1, <2>2, <2>3, AcceptedInv
<1>4. CASE ~(node[Serial!MyNode] = "candidate" /\ ~Serial!Final(Serial!MyNode) /\ attempts[Serial!Mine].made)
  <2>1. UNCHANGED node /\ Serial!Raises
    BY <1>4 DEF Serial!AcceptIntermediate
  <2> QED
    BY <1>1, <2>1, RaisesInv, ThreadsSame DEF Serial!facts
<1> QED
  BY <1>3, <1>4

LEMMA ResumeVerificationInv == ASSUME SerialInv, Serial!ResumeVerification PROVE SerialInv' /\ GateStep
<1> USE DEF SerialInv
<1>1. UNCHANGED <<limit, Serial!facts, decider, control>> /\ exec.pc = "candidate"
      /\ exec' = [exec EXCEPT !.pc = "finish", !.outcome = "recover"]
  BY DEF Serial!ResumeVerification, Serial!Candidate, Serial!Outside, Serial!Executor, Serial!facts
<1>2. exec \in Thread
  BY DEF SerialTypes
<1>3. exec' \in Thread /\ exec'.pc = "finish" /\ exec'.attempt = exec.attempt /\ exec'.rest = exec.rest
  BY <1>1, <1>2 DEF Thread, Places
<1>4. ExecInv'
  BY <1>1, <1>3, KeptMade, NothingTaken DEF Threads, ExecInv, Serial!Mine, Serial!facts
<1> QED
  BY <1>1, <1>3, <1>4, ThreadsSame

LEMMA NewChecksType == ASSUME SerialTypes, Serial!Mine \in Nat PROVE Serial!NewChecks \in Verification
<1>1. Serial!Kinds(Serial!MyNode) \in SUBSET {"auto", "human"}
  BY DEF Serial!Kinds
<1>2. [k \in Serial!Kinds(Serial!MyNode) |-> [status |-> "running", passed |-> FALSE, asked |-> FALSE]] \in [Serial!Kinds(Serial!MyNode) -> Serial!CheckRun]
  BY DEF Serial!CheckRun
<1> QED
  BY <1>1, <1>2, IsVerification DEF Serial!NewChecks

LEMMA StartChecksInv == ASSUME SerialInv, Serial!StartChecks PROVE SerialInv' /\ GateStep
<1> USE DEF SerialInv
<1> DEFINE a == exec.attempt
           n == attempts[a].node
<1>1. /\ UNCHANGED <<limit, cause, kept, decider, control, run, attempts, points>>
      /\ exec.pc = "candidate" /\ node[n] # "verifying"
  BY DEF Serial!StartChecks, Serial!Candidate, Serial!Outside, Serial!Executor, Serial!MyNode, Serial!Mine
<1>2. Made(a) /\ a \in DOMAIN attempts /\ a \in Nat /\ n \in Serial!Nodes
  BY <1>1, AttemptTypes DEF Threads, ExecInv, Made, Serial!Mine
<1>3. CASE node[n] # "candidate"
  <2>1. UNCHANGED <<node, checks>> /\ Serial!Raises
    BY <1>3 DEF Serial!StartChecks, Serial!MyNode, Serial!Mine
  <2> QED
    BY <1>1, <2>1, RaisesInv, ThreadsSame DEF Serial!facts
<1>4. CASE node[n] = "candidate"
  <2> DEFINE new == Serial!NewChecks
  <2>1. node' = [node EXCEPT ![n] = "verifying"] /\ checks' = Append(checks, new)
    BY <1>4 DEF Serial!StartChecks, Serial!MyNode, Serial!Mine
  <2>2. new \in Verification /\ new.attempt = a /\ DOMAIN new.runs = Serial!Kinds(n)
    BY <1>2, NewChecksType DEF Serial!NewChecks, Serial!MyNode, Serial!Mine
  <2>3. "auto" \in Serial!Kinds(n) => Serial!Unfinished(new.runs)
    BY DEF Serial!NewChecks, Serial!Unfinished, Serial!MyNode, Serial!Mine
  <2>4. /\ checks' \in Seq(Verification) /\ DOMAIN checks' = DOMAIN checks \cup {Len(checks')}
        /\ checks'[Len(checks')] = new /\ checks' # <<>> /\ \A v \in DOMAIN checks : checks'[v] = checks[v]
    <3> HIDE DEF new
    <3> QED
      BY <2>1, <2>2 DEF SerialTypes
  <2>5. Kept
    BY <1>1, <2>4 DEF Kept
  <2>6. node' \in Plans /\ node'[n] = "verifying" /\ \A m \in Serial!Nodes : m # n => node'[m] = node[m]
    BY <1>2, <2>1 DEF SerialTypes, Plans, Serial!PlanNode
  <2>7. ExecInv' /\ exec' \in Thread
    <3>1. \A b \in exec.rest : Made(b)'
      BY <2>5, KeptMade DEF Threads, ExecInv
    <3>2. exec \in Thread
      BY DEF SerialTypes
    <3>3. CASE exec' = [exec EXCEPT !.pc = "finish", !.outcome = None]
      <4>1. exec' \in Thread /\ exec'.pc = "finish" /\ exec'.attempt = a /\ exec'.rest = exec.rest
        BY <3>2, <3>3 DEF Thread, Places
      <4> QED
        BY <1>1, <1>2, <2>5, <3>1, <4>1, KeptMade DEF Threads, ExecInv, Serial!Mine
    <3>4. CASE "auto" \in Serial!Kinds(n) /\ exec' = [exec EXCEPT !.pc = "checks"]
      <4>1. exec' \in Thread /\ exec'.pc = "checks" /\ exec'.attempt = a /\ exec'.rest = exec.rest
        BY <3>2, <3>4 DEF Thread, Places
      <4>2. Made(Serial!Mine)'
        BY <1>1, <2>5, <4>1, KeptMade DEF Threads, ExecInv, Serial!Mine
      <4>3. checks'[Len(checks')].attempt = Serial!Mine' /\ Serial!Unfinished(checks[Len(checks)].runs)'
        BY <2>2, <2>3, <2>4, <3>4, <4>1 DEF Serial!Mine, Serial!Unfinished
      <4> QED
        BY <2>4, <3>1, <4>1, <4>2, <4>3 DEF ExecInv
    <3>5. CASE Serial!Raises
      BY <3>5, RaisesInv
    <3> QED
      BY <1>4, <3>3, <3>4, <3>5 DEF Serial!StartChecks, Serial!MyNode, Serial!Mine
  <2>8. SerialTypes'
    BY <1>1, <2>4, <2>6, <2>7 DEF SerialTypes
  <2>9. References'
    BY <1>1, <1>2, <2>2, <2>4, <2>5, KeptReferences
  <2>10. NodesAgree'
    <3>1. Serial!Running' = Serial!Running
      BY <1>1 DEF Serial!Running, Serial!Is
    <3>2. run # "completed"
      BY <1>2, <1>4 DEF NodesAgree
    <3> QED
      BY <1>1, <1>4, <2>6, <3>1, <3>2, AgreeSame, RunningIsAttempt, AttemptTypes DEF NodesAgree
  <2>11. ResultsWait'
    <3>1. Waits(node)'
      <4> SUFFICES ASSUME NEW m \in Serial!Nodes, node'[m] \in {"candidate", "verifying"}
                   PROVE  \E i \in Serial!AttemptsOf(m)' : Made(i)' /\ (node'[m] = "verifying" => Serial!VerificationsOf(i)' # {})
        BY DEF Waits
      <4>1. CASE m = n
        <5>1. PICK i \in DOMAIN attempts : i = a
          BY <1>2
        <5>2. Made(i)' /\ i \in Serial!AttemptsOf(m)'
          BY <1>1, <1>2, <2>5, <4>1, <5>1, KeptMade DEF Serial!AttemptsOf, Made
        <5>3. Len(checks') \in Serial!VerificationsOf(i)'
          BY <2>2, <2>4, <5>1 DEF Serial!VerificationsOf
        <5> QED
          BY <5>2, <5>3
      <4>2. CASE m # n
        BY <2>5, <2>6, <4>2, KeptWaits DEF ResultsWait, Waits
      <4> QED
        BY <4>1, <4>2
    <3> QED
      BY <1>1, <2>5, <3>1, KeptPoints DEF ResultsWait, Serial!Is
  <2>12. DeciderInv' /\ CommandInv'
    BY <1>1, <2>5, KeptDecider, CommandsSame DEF Threads
  <2>13. GateStep
    BY <1>4, <2>6, NoGate
  <2> QED
    BY <2>7, <2>8, <2>9, <2>10, <2>11, <2>12, <2>13 DEF Threads
<1> QED
  BY <1>3, <1>4

LEMMA RunCheckInv == ASSUME SerialInv, Serial!RunCheck PROVE SerialInv' /\ GateStep
<1> USE DEF SerialInv
<1> DEFINE v == Len(checks)
<1>1. UNCHANGED <<limit, run, cause, node, attempts, points, kept, decider, control>> /\ exec.pc = "checks"
      /\ exec' = [exec EXCEPT !.pc = "finish", !.outcome = None]
  BY DEF Serial!RunCheck, Serial!Outside, Serial!Executor
<1>2. checks # <<>> /\ Serial!Unfinished(checks[v].runs)
  BY <1>1 DEF Threads, ExecInv
<1>3. v \in DOMAIN checks
  BY <1>2 DEF SerialTypes
<1>4. PICK o \in Serial!Outcomes(Serial!Mine) : checks' = Serial!Rebound(o)
  BY DEF Serial!RunCheck
<1> DEFINE c == [status |-> o[1], passed |-> o[2], asked |-> FALSE]
           f == [checks[v].runs EXCEPT !["auto"] = c]
<1>5. c \in Serial!CheckRun
  <2>1. o \in {<<"completed", FALSE>>, <<"completed", TRUE>>, <<"failed", FALSE>>, <<"timed_out", FALSE>>}
    BY <1>4 DEF Serial!Outcomes, Serial!Materialized, Serial!Inspected, Serial!Scored
  <2>2. o[1] \in {"completed", "failed", "timed_out"} /\ o[2] \in BOOLEAN /\ (o[2] => o[1] = "completed")
    <3>1. CASE o = <<"completed", FALSE>>
      BY <3>1
    <3>2. CASE o = <<"completed", TRUE>>
      BY <3>2
    <3>3. CASE o = <<"failed", FALSE>>
      BY <3>3
    <3>4. CASE o = <<"timed_out", FALSE>>
      BY <3>4
    <3> QED
      BY <2>1, <3>1, <3>2, <3>3, <3>4
  <2> QED
    BY <2>2 DEF Serial!CheckRun, Serial!EndedStatus
<1>6. checks' = [checks EXCEPT ![v].runs = f]
  BY <1>4 DEF Serial!Rebound
<1>7. f \in [DOMAIN checks[v].runs -> Serial!CheckRun]
  BY <1>3, <1>5, VerificationTypes
<1>8. \A k \in DOMAIN checks[v].runs : Serial!Passed(checks[v].runs[k]) => f[k] = checks[v].runs[k]
  BY <1>2, <1>3, VerificationTypes DEF Serial!Passed, Serial!Unfinished
<1>9. checks' \in Seq(Verification) /\ DOMAIN checks' = DOMAIN checks /\ Kept
  <2> HIDE DEF f, v
  <2> QED
    BY <1>1, <1>3, <1>6, <1>7, <1>8, OneRuns
<1>10. ExecInv' /\ exec' \in Thread
  <2>1. exec \in Thread
    BY DEF SerialTypes
  <2>2. exec' \in Thread /\ exec'.pc = "finish" /\ exec'.attempt = exec.attempt /\ exec'.rest = exec.rest
    BY <1>1, <2>1 DEF Thread, Places
  <2> QED
    BY <1>1, <1>9, <2>2, KeptMade DEF Threads, ExecInv, Serial!Mine
<1>11. DeciderInv' /\ decider' \in Thread
  BY <1>1, <1>9, KeptDecider DEF Threads, SerialTypes
<1>12. cause' \in Serial!PauseCauses
  BY <1>1 DEF SerialTypes
<1> QED
  BY <1>1, <1>9, <1>10, <1>11, <1>12, ChecksStep DEF Threads
-----------------------------------------------------------------------------
(* Gates.                                                                     *)

LEMMA SettlesType == ASSUME NEW c, c \in [DOMAIN c -> Serial!CheckRun]
    PROVE /\ Serial!Settles(c) \in [DOMAIN c -> Serial!CheckRun]
          /\ \A k \in DOMAIN c : Serial!Passed(c[k]) => Serial!Settles(c)[k] = c[k]
<1>1. ASSUME NEW k \in DOMAIN c PROVE Serial!Settles(c)[k] \in Serial!CheckRun /\ (Serial!Passed(c[k]) => Serial!Settles(c)[k] = c[k])
  <2>1. c[k] \in Serial!CheckRun
    OBVIOUS
  <2>2. CASE c[k].status # "running"
    <3>1. Serial!Settles(c)[k] = c[k]
      BY <2>2 DEF Serial!Settles
    <3> QED
      BY <2>1, <3>1
  <2>3. CASE c[k].status = "running"
    <3>1. ~Serial!Passed(c[k]) /\ ~c[k].passed
      BY <2>1, <2>3 DEF Serial!Passed, Serial!CheckRun
    <3>2. Serial!Settles(c)[k] \in {[c[k] EXCEPT !.status = "interrupted"], [c[k] EXCEPT !.status = "cancelled"], [c[k] EXCEPT !.asked = TRUE]}
      BY <2>3 DEF Serial!Settles
    <3>3. \A r \in {[c[k] EXCEPT !.status = "interrupted"], [c[k] EXCEPT !.status = "cancelled"], [c[k] EXCEPT !.asked = TRUE]} : r \in Serial!CheckRun
      BY <2>1, <2>3, <3>1 DEF Serial!CheckRun, Serial!EndedStatus
    <3> QED
      BY <3>1, <3>2, <3>3
  <2> QED
    BY <2>2, <2>3
<1> QED
  BY <1>1 DEF Serial!Settles

LEMMA GatedIs ==
    ASSUME SerialInv, NEW p \in Thread, NEW v \in DOMAIN checks, Serial!Gated(p, v), UNCHANGED attempts
    PROVE  /\ checks' \in Seq(Verification) /\ DOMAIN checks' = DOMAIN checks /\ Len(checks') = Len(checks) /\ Kept
           /\ p.attempt \in DOMAIN attempts
           /\ Serial!Verdict(checks[v].runs) = "passed" => Judged(p.attempt)'
           /\ p.outcome # "recover" /\ Serial!Unfinished(checks[Len(checks)].runs) => Serial!Unfinished(checks'[Len(checks)].runs)
<1> USE DEF SerialInv
<1> DEFINE c == checks[v].runs
<1>1. c \in [DOMAIN c -> Serial!CheckRun] /\ Len(checks) \in DOMAIN checks
  BY VerificationTypes
<1>2. v \in Serial!VerificationsOf(p.attempt) /\ checks[v].attempt = p.attempt
  BY DEF Serial!Gated, Serial!VerificationsOf
<1>3. p.attempt \in DOMAIN attempts /\ DOMAIN c = Serial!Kinds(attempts[p.attempt].node)
  BY <1>2 DEF References
<1>4. /\ checks' \in Seq(Verification) /\ DOMAIN checks' = DOMAIN checks /\ Len(checks') = Len(checks) /\ Kept
      /\ p.outcome # "recover" /\ Serial!Unfinished(checks[Len(checks)].runs) => Serial!Unfinished(checks'[Len(checks)].runs)
  <2>1. CASE Serial!TooEarly(p, c)
    <3>1. checks' = checks
      BY <2>1 DEF Serial!Gated
    <3> QED
      BY <3>1, NothingTaken DEF SerialTypes
  <2>2. CASE ~Serial!TooEarly(p, c)
    <3> DEFINE f == Serial!Settles(c)
    <3>1. checks' = [checks EXCEPT ![v].runs = f]
      BY <2>2 DEF Serial!Gated
    <3>2. f \in [DOMAIN c -> Serial!CheckRun] /\ \A k \in DOMAIN c : Serial!Passed(c[k]) => f[k] = c[k]
      BY <1>1, SettlesType
    <3>3. /\ checks' \in Seq(Verification) /\ DOMAIN checks' = DOMAIN checks /\ Len(checks') = Len(checks)
          /\ \A u \in DOMAIN checks : u # v => checks'[u] = checks[u]
          /\ Kept
      <4> HIDE DEF f
      <4> QED
        BY <3>1, <3>2, OneRuns
    <3>4. p.outcome # "recover" /\ Serial!Unfinished(checks[Len(checks)].runs) => v # Len(checks)
      BY <2>2 DEF Serial!TooEarly
    <3> QED
      BY <1>1, <3>3, <3>4
  <2> QED
    BY <2>1, <2>2
<1>5. ASSUME Serial!Verdict(c) = "passed" PROVE Judged(p.attempt)'
  <2>1. \A k \in DOMAIN c : Serial!Passed(c[k])
    BY <1>5 DEF Serial!Verdict
  <2>2. Judged(p.attempt)
    BY <1>2, <1>3, <2>1 DEF Judged
  <2>3. PICK a \in DOMAIN attempts : a = p.attempt
    BY <1>3
  <2> QED
    BY <1>4, <2>2, <2>3, KeptJudged
<1> QED
  BY <1>3, <1>4, <1>5

LEMMA VerdictType == ASSUME NEW c PROVE Serial!Verdict(c) \in {"passed", "rejected"}
BY DEF Serial!Verdict

LEMMA ExecutorFinishesInv == ASSUME SerialInv, Serial!ExecutorFinishes PROVE SerialInv' /\ GateStep
<1> USE DEF SerialInv
<1>1. UNCHANGED <<limit, run, cause, node, attempts, points, kept, decider, control>> /\ exec.pc = "finish"
  BY DEF Serial!ExecutorFinishes, Serial!Outside, Serial!Executor
<1>2. exec \in Thread
  BY DEF SerialTypes
<1>3. CASE UNCHANGED checks /\ Serial!Continues
  BY <1>1, <1>3, NothingTaken, ContinuesInv, ThreadsSame DEF Serial!facts, Threads
<1>4. CASE UNCHANGED checks /\ Serial!Raises
  BY <1>1, <1>4, RaisesInv, ThreadsSame DEF Serial!facts
<1>5. ASSUME NEW v \in DOMAIN checks, Serial!Gated(exec, v),
             IF Serial!Returns(exec, checks[v].runs) THEN Serial!Continues ELSE exec' = Serial!Recording(exec, checks[v].runs)
      PROVE  SerialInv' /\ GateStep
  <2> DEFINE c == checks[v].runs
  <2>1. checks' \in Seq(Verification) /\ DOMAIN checks' = DOMAIN checks /\ Kept
    BY <1>1, <1>2, <1>5, GatedIs
  <2>2. ExecInv' /\ exec' \in Thread
    <3>1. CASE Serial!Continues
      BY <2>1, <3>1, ContinuesInv DEF Threads
    <3>2. CASE exec' = Serial!Recording(exec, c)
      <4> DEFINE verdict == Serial!Verdict(c)
      <4>1. exec' = [exec EXCEPT !.pc = "record", !.outcome = verdict]
        BY <3>2 DEF Serial!Recording
      <4>2. verdict \in {"passed", "rejected"}
        BY VerdictType
      <4>3. exec' \in Thread /\ exec'.pc = "record" /\ exec'.attempt = exec.attempt /\ exec'.rest = exec.rest /\ exec'.outcome = verdict
        <5> HIDE DEF verdict
        <5> QED
          BY <1>2, <4>1, <4>2 DEF Thread, Places
      <4>4. Made(Serial!Mine)' /\ \A b \in exec.rest : Made(b)'
        BY <1>1, <2>1, <4>3, KeptMade DEF Threads, ExecInv, Serial!Mine
      <4>5. CASE verdict = "passed"
        <5>1. PICK a \in DOMAIN attempts : a = exec.attempt
          BY <1>1 DEF Threads, ExecInv, Made, Serial!Mine
        <5>2. Serial!VerificationsOf(a)' = Serial!VerificationsOf(Serial!Mine)' /\ Serial!Mine' = a
          BY <4>3, <5>1 DEF Serial!Mine
        <5>3. Judged(a)
          <6>1. \A k \in DOMAIN c : Serial!Passed(c[k])
            BY <4>5 DEF Serial!Verdict
          <6>2. v \in Serial!VerificationsOf(a) /\ DOMAIN c = Serial!Kinds(attempts[a].node)
            BY <1>5, <5>1 DEF Serial!Gated, Serial!VerificationsOf, References
          <6> QED
            BY <6>1, <6>2 DEF Judged
        <5>4. Judged(a)'
          BY <2>1, <5>3, KeptJudged
        <5>5. Judged(Serial!Mine)'
          BY <5>2, <5>4 DEF Judged
        <5> QED
          BY <4>3, <4>4, <5>5 DEF ExecInv
      <4>6. CASE verdict # "passed"
        BY <4>3, <4>4, <4>6 DEF ExecInv
      <4> QED
        BY <4>3, <4>5, <4>6
    <3> QED
      BY <1>5, <3>1, <3>2
  <2>3. DeciderInv' /\ decider' \in Thread
    BY <1>1, <2>1, KeptDecider DEF Threads, SerialTypes
  <2>4. cause' \in Serial!PauseCauses
    BY <1>1 DEF SerialTypes
  <2> QED
    BY <1>1, <2>1, <2>2, <2>3, <2>4, ChecksStep DEF Threads
<1> QED
  BY <1>3, <1>4, <1>5 DEF Serial!ExecutorFinishes

LEMMA ExecutorRecordsInv == ASSUME SerialInv, Serial!ExecutorRecords PROVE SerialInv' /\ GateStep
<1> USE DEF SerialInv
<1>1. UNCHANGED <<limit, cause, attempts, checks, kept, decider, control>> /\ exec.pc = "record"
  BY DEF Serial!ExecutorRecords, Serial!Outside, Serial!Executor
<1>2. Kept
  BY <1>1, NothingTaken
<1>3. PICK a \in DOMAIN attempts : a = exec.attempt
  BY <1>1 DEF Threads, ExecInv, Made, Serial!Mine
<1>4. attempts[a].node \in Serial!Nodes
  BY AttemptTypes
<1>5. DeciderInv' /\ decider' \in Thread
  BY <1>1, <1>2, KeptDecider DEF Threads, SerialTypes
<1>6. CASE ~Serial!Current(exec) /\ UNCHANGED <<run, node, points>> /\ Serial!Continues
  BY <1>1, <1>2, <1>6, ContinuesInv, ThreadsSame DEF Serial!facts, Threads
<1>7. CASE Serial!RecordCompletion(exec) /\ Serial!Continues
  <2>1. ExecInv' /\ exec' \in Thread
    BY <1>2, <1>7, ContinuesInv DEF Threads
  <2>2. ~Serial!Unwanted(a) /\ Serial!IsLatest(a) /\ Serial!Is(a, "succeeded") /\ exec.outcome = "passed"
    BY <1>3, <1>7 DEF Serial!RecordCompletion, Serial!Current
  <2>3. Judged(a)
    BY <1>1, <1>3, <2>2 DEF Threads, ExecInv, Serial!Mine
  <2>4. /\ node' = [node EXCEPT ![attempts[a].node] = "completed"] /\ points' = Append(points, Serial!Checkpoint(node', a))
        /\ run' = IF Serial!IsFinalCompletion(attempts[a].node, node') THEN "completed" ELSE run
    BY <1>3, <1>7 DEF Serial!RecordCompletion
  <2> QED
    BY <1>1, <1>5, <2>1, <2>2, <2>3, <2>4, CompletionInv DEF Threads
<1>8. CASE Serial!RecordGateFailure(exec) /\ Serial!Raises
  <2>1. ExecInv' /\ exec' \in Thread
    BY <1>8, RaisesInv
  <2>2. node[attempts[a].node] = "verifying" /\ run = "running"
    BY <1>3, <1>8 DEF Serial!RecordGateFailure, Serial!Current, Serial!Unwanted
  <2>3. node' = [node EXCEPT ![attempts[a].node] = "failed"] /\ run' = "failed" /\ UNCHANGED points
    BY <1>3, <1>8 DEF Serial!RecordGateFailure
  <2> QED
    BY <1>1, <1>4, <1>5, <2>1, <2>2, <2>3, GateFailureInv DEF Threads
<1> QED
  BY <1>6, <1>7, <1>8 DEF Serial!ExecutorRecords
-----------------------------------------------------------------------------
(* The thread of a person's decision.                                          *)

LEMMA DeciderStarts == ASSUME SerialInv, Kept, NEW a \in DOMAIN attempts, Serial!DeciderWith(a) PROVE DeciderInv' /\ decider' \in Thread
<1>1. a \in Nat
  BY AttemptTypes DEF SerialInv
<1>2. decider' = [pc |-> "finish", attempt |-> a, rest |-> {}, goes |-> FALSE, outcome |-> None]
  BY DEF Serial!DeciderWith, Serial!Idle
<1>3. decider' \in Thread
  BY <1>1, <1>2 DEF Thread, Places
<1>4. a \in DOMAIN attempts'
  BY DEF Kept
<1> QED
  BY <1>2, <1>3, <1>4, SerialAssumption DEF DeciderInv

LEMMA DecideHumanCheckInv ==
    ASSUME SerialInv, NEW v \in DOMAIN checks, NEW passed \in BOOLEAN, NEW hold \in BOOLEAN, Serial!DecideHumanCheck(v, passed, hold)
    PROVE  SerialInv' /\ GateStep
<1> USE DEF SerialInv
<1> DEFINE a == checks[v].attempt
           c == [status |-> "completed", passed |-> passed, asked |-> TRUE]
           f == [checks[v].runs EXCEPT !["human"] = c]
<1>1. /\ UNCHANGED <<limit, host, node, attempts, points, kept, exec, control>> /\ decider.pc = "idle" /\ Serial!Asks(v)
      /\ run = "running" /\ (hold => Serial!Running = {})
      /\ checks' = [checks EXCEPT ![v].runs["human"] = c]
      /\ run' = (IF hold THEN "paused" ELSE run) /\ cause' = (IF hold THEN "hold" ELSE cause)
      /\ IF hold THEN UNCHANGED decider ELSE Serial!DeciderWith(a)
  BY DEF Serial!DecideHumanCheck, Serial!Outside, Serial!Unwanted
<1>2. /\ checks[v].runs \in [DOMAIN checks[v].runs -> Serial!CheckRun] /\ "human" \in DOMAIN checks[v].runs
      /\ checks[v].runs["human"].status = "running" /\ a \in DOMAIN attempts
  BY <1>1, VerificationTypes DEF Serial!Asks, References
<1>3. f \in [DOMAIN checks[v].runs -> Serial!CheckRun]
  <2>1. c \in Serial!CheckRun
    BY DEF Serial!CheckRun
  <2> QED
    BY <1>2, <2>1
<1>4. \A k \in DOMAIN checks[v].runs : Serial!Passed(checks[v].runs[k]) => f[k] = checks[v].runs[k]
  BY <1>2 DEF Serial!Passed
<1>5. checks' = [checks EXCEPT ![v].runs = f]
  BY <1>1
<1>6. /\ checks' \in Seq(Verification) /\ DOMAIN checks' = DOMAIN checks /\ Len(checks') = Len(checks) /\ Kept
      /\ checks'[v].runs = f /\ \A u \in DOMAIN checks : u # v => checks'[u] = checks[u]
  <2> HIDE DEF f
  <2> QED
    BY <1>1, <1>3, <1>4, <1>5, OneRuns
<1>7. ExecInv' /\ exec' \in Thread
  <2>1. exec.pc = "checks" => /\ Len(checks') = Len(checks) /\ checks' # <<>>
                               /\ Serial!Unfinished(checks'[Len(checks)].runs)
    <3> SUFFICES ASSUME exec.pc = "checks"
                 PROVE  Len(checks') = Len(checks) /\ checks' # <<>> /\ Serial!Unfinished(checks'[Len(checks)].runs)
      OBVIOUS
    <3>1. checks # <<>> /\ Serial!Unfinished(checks[Len(checks)].runs)
      BY DEF Threads, ExecInv
    <3>2. Len(checks) \in DOMAIN checks /\ Len(checks) > 0
      BY <3>1 DEF SerialTypes
    <3> QED
      BY <1>2, <1>6, <3>1, <3>2 DEF Serial!Unfinished
  <2> QED
    BY <1>1, <1>6, <2>1, KeptExec DEF Threads, SerialTypes
<1>8. DeciderInv' /\ decider' \in Thread
  <2>1. CASE hold
    BY <1>1, <1>6, <2>1, KeptDecider DEF Threads, SerialTypes
  <2>2. CASE ~hold
    BY <1>1, <1>2, <1>6, <2>2, DeciderStarts
  <2> QED
    BY <2>1, <2>2
<1>9. cause' \in Serial!PauseCauses
  BY <1>1 DEF SerialTypes, Serial!PauseCauses
<1> QED
  BY <1>1, <1>6, <1>7, <1>8, <1>9, ChecksStep DEF Threads

LEMMA DecidedAgainInv == ASSUME SerialInv, NEW v \in DOMAIN checks, Serial!DecidedAgain(v) PROVE SerialInv' /\ GateStep
<1>1. UNCHANGED <<limit, Serial!facts, exec, control>> /\ Serial!DeciderWith(checks[v].attempt)
  BY DEF Serial!DecidedAgain, Serial!Outside
<1>2. DeciderInv' /\ decider' \in Thread
  BY <1>1, DeciderStarts, NothingTaken DEF SerialInv, References, Serial!facts
<1> QED
  BY <1>1, <1>2, DeciderSame

LEMMA DeciderIdles == ASSUME decider' = Serial!Idle PROVE DeciderInv' /\ decider' \in Thread
BY IdleThread DEF DeciderInv

LEMMA DeciderFinishesInv == ASSUME SerialInv, Serial!DeciderFinishes PROVE SerialInv' /\ GateStep
<1> USE DEF SerialInv
<1>1. UNCHANGED <<limit, run, cause, node, attempts, points, kept, exec, control>> /\ decider.pc = "finish"
  BY DEF Serial!DeciderFinishes, Serial!Outside
<1>2. decider \in Thread /\ decider.outcome # "recover"
  BY <1>1 DEF SerialTypes, Threads, DeciderInv
<1>3. CASE UNCHANGED checks /\ decider' = Serial!Idle
  BY <1>1, <1>3, DeciderIdles, DeciderSame DEF Serial!facts
<1>4. ASSUME NEW v \in DOMAIN checks, Serial!Gated(decider, v),
             decider' = IF Serial!Returns(decider, checks[v].runs) THEN Serial!Idle ELSE Serial!Recording(decider, checks[v].runs)
      PROVE  SerialInv' /\ GateStep
  <2> DEFINE c == checks[v].runs
  <2>1. /\ checks' \in Seq(Verification) /\ DOMAIN checks' = DOMAIN checks /\ Len(checks') = Len(checks) /\ Kept
        /\ Serial!Unfinished(checks[Len(checks)].runs) => Serial!Unfinished(checks'[Len(checks)].runs)
    BY <1>1, <1>2, <1>4, GatedIs
  <2>2. ExecInv' /\ exec' \in Thread
    <3>1. exec.pc = "checks" => /\ Len(checks') = Len(checks) /\ checks' # <<>>
                                 /\ Serial!Unfinished(checks'[Len(checks)].runs)
      BY <2>1 DEF Threads, ExecInv, SerialTypes
    <3> QED
      BY <1>1, <2>1, <3>1, KeptExec DEF Threads, SerialTypes
  <2>3. DeciderInv' /\ decider' \in Thread
    <3>1. CASE decider' = Serial!Idle
      BY <3>1, DeciderIdles
    <3>2. CASE decider' = Serial!Recording(decider, c)
      <4> DEFINE verdict == Serial!Verdict(c)
      <4>1. decider' = [decider EXCEPT !.pc = "record", !.outcome = verdict]
        BY <3>2 DEF Serial!Recording
      <4>2. verdict \in {"passed", "rejected"}
        BY VerdictType
      <4>3. decider' \in Thread /\ decider'.pc = "record" /\ decider'.attempt = decider.attempt /\ decider'.outcome = verdict
        <5> HIDE DEF verdict
        <5> QED
          BY <1>2, <4>1, <4>2 DEF Thread, Places
      <4>4. PICK a \in DOMAIN attempts : a = decider.attempt
        BY <1>1 DEF Threads, DeciderInv
      <4>5. verdict = "passed" => Judged(a)'
        <5> SUFFICES ASSUME verdict = "passed" PROVE Judged(a)'
          OBVIOUS
        <5>1. \A k \in DOMAIN c : Serial!Passed(c[k])
          BY DEF Serial!Verdict
        <5>2. v \in Serial!VerificationsOf(a) /\ DOMAIN c = Serial!Kinds(attempts[a].node)
          BY <1>4, <4>4 DEF Serial!Gated, Serial!VerificationsOf, References
        <5>3. Judged(a)
          BY <5>1, <5>2 DEF Judged
        <5> QED
          BY <2>1, <5>3, KeptJudged
      <4>6. decider'.attempt = a /\ a \in DOMAIN attempts'
        BY <1>1, <4>3, <4>4
      <4>7. decider'.outcome = "passed" => Judged(decider.attempt)'
        BY <4>3, <4>5, <4>6 DEF Judged, Serial!VerificationsOf
      <4> QED
        BY <4>3, <4>6, <4>7 DEF DeciderInv
    <3> QED
      BY <1>4, <3>1, <3>2
  <2>4. cause' \in Serial!PauseCauses
    BY <1>1 DEF SerialTypes
  <2> QED
    BY <1>1, <2>1, <2>2, <2>3, <2>4, ChecksStep DEF Threads
<1> QED
  BY <1>3, <1>4 DEF Serial!DeciderFinishes

LEMMA DeciderRecordsInv == ASSUME SerialInv, Serial!DeciderRecords PROVE SerialInv' /\ GateStep
<1> USE DEF SerialInv
<1>1. UNCHANGED <<limit, cause, attempts, checks, kept, exec, control>> /\ decider.pc = "record" /\ decider' = Serial!Idle
  BY DEF Serial!DeciderRecords, Serial!Outside
<1>2. PICK a \in DOMAIN attempts : a = decider.attempt
  BY <1>1 DEF Threads, DeciderInv
<1>3. attempts[a].node \in Serial!Nodes
  BY AttemptTypes
<1>4. DeciderInv' /\ decider' \in Thread
  BY <1>1, DeciderIdles
<1>5. ExecInv' /\ exec' \in Thread
  <2>1. exec.pc = "checks" => /\ Len(checks') = Len(checks) /\ checks' # <<>>
                               /\ Serial!Unfinished(checks'[Len(checks)].runs)
    BY <1>1 DEF Threads, ExecInv
  <2> QED
    BY <1>1, <2>1, NothingTaken, KeptExec DEF Threads, SerialTypes
<1>6. CASE ~Serial!Current(decider) /\ UNCHANGED <<run, node, points>>
  BY <1>1, <1>4, <1>6, DeciderSame DEF Serial!facts
<1>7. CASE Serial!RecordCompletion(decider)
  <2>1. ~Serial!Unwanted(a) /\ Serial!IsLatest(a) /\ Serial!Is(a, "succeeded") /\ decider.outcome = "passed"
    BY <1>2, <1>7 DEF Serial!RecordCompletion, Serial!Current
  <2>2. Judged(a)
    BY <1>1, <1>2, <2>1 DEF Threads, DeciderInv
  <2>3. /\ node' = [node EXCEPT ![attempts[a].node] = "completed"] /\ points' = Append(points, Serial!Checkpoint(node', a))
        /\ run' = IF Serial!IsFinalCompletion(attempts[a].node, node') THEN "completed" ELSE run
    BY <1>2, <1>7 DEF Serial!RecordCompletion
  <2> QED
    BY <1>1, <1>4, <1>5, <2>1, <2>2, <2>3, CompletionInv DEF Threads
<1>8. CASE Serial!RecordGateFailure(decider)
  <2>1. node[attempts[a].node] = "verifying" /\ run = "running"
    BY <1>2, <1>8 DEF Serial!RecordGateFailure, Serial!Current, Serial!Unwanted
  <2>2. node' = [node EXCEPT ![attempts[a].node] = "failed"] /\ run' = "failed" /\ UNCHANGED points
    BY <1>2, <1>8 DEF Serial!RecordGateFailure
  <2> QED
    BY <1>1, <1>3, <1>4, <1>5, <2>1, <2>2, GateFailureInv DEF Threads
<1> QED
  BY <1>6, <1>7, <1>8 DEF Serial!DeciderRecords
-----------------------------------------------------------------------------
(* Commands.                                                                  *)

LEMMA CommandStep ==
    ASSUME SerialInv, UNCHANGED <<limit, Serial!facts, exec, decider>>,
           CommandInv', control' \in [Controls -> {None} \cup Requests]
    PROVE  SerialInv' /\ GateStep
<1>1. Kept
  BY NothingTaken DEF Serial!facts
<1>2. exec.pc = "checks" => /\ Len(checks') = Len(checks) /\ checks' # <<>>
                             /\ Serial!Unfinished(checks'[Len(checks)].runs)
  BY DEF SerialInv, Threads, ExecInv, Serial!facts
<1>3. Threads' /\ exec' \in Thread /\ decider' \in Thread
  BY <1>1, <1>2, KeptExec, KeptDecider DEF SerialInv, Threads, SerialTypes
<1> QED
  BY <1>3, FactsSame

LEMMA ReadSnapshotInv == ASSUME SerialInv, NEW c \in Controls, NEW kind \in {"pause", "cancel"}, Serial!ReadSnapshot(c, kind)
    PROVE SerialInv' /\ GateStep
<1> USE DEF SerialInv
<1> DEFINE r == [kind |-> kind, read |-> Serial!Snapshot]
<1>1. UNCHANGED <<limit, Serial!facts, exec, decider>> /\ control' = [control EXCEPT ![c] = r] /\ Serial!May(kind)
  BY DEF Serial!ReadSnapshot, Serial!Outside
<1>2. r \in Requests
  BY DEF Requests, Serial!Snapshot, SerialTypes
<1>3. r.read.run = run /\ r.kind = kind
  BY DEF Serial!Snapshot
<1>4. control' \in [Controls -> {None} \cup Requests]
  <2> HIDE DEF r
  <2> QED
    BY <1>1, <1>2 DEF SerialTypes
<1>5. CommandInv'
  <2> HIDE DEF r
  <2> QED
    BY <1>1, <1>3 DEF CommandInv, Serial!May, SerialTypes
<1> QED
  BY <1>1, <1>4, <1>5, CommandStep

LEMMA ControlEnds == ASSUME SerialInv, NEW c \in Controls, Serial!Control(c)
    PROVE CommandInv' /\ control' \in [Controls -> {None} \cup Requests]
BY DEF SerialInv, SerialTypes, CommandInv, Serial!Control

LEMMA NothingInv == ASSUME SerialInv, NEW c \in Controls, Serial!Nothing(c) PROVE SerialInv' /\ GateStep
<1>1. UNCHANGED <<limit, Serial!facts, exec, decider>> /\ Serial!Control(c)
  BY DEF Serial!Nothing, Serial!Outside
<1> QED
  BY <1>1, ControlEnds, CommandStep

\* no Attempt runs after the step
LEMMA StopStep ==
    ASSUME SerialInv, Kept, attempts' \in Seq(Serial!Attempt), checks' \in Seq(Verification), DOMAIN checks' = DOMAIN checks,
           DOMAIN attempts' = DOMAIN attempts, Serial!Running' = {},
           \A i \in DOMAIN attempts : Serial!Is(i, "succeeded")' => Serial!Is(i, "succeeded"),
           run' \in Serial!Runs, cause' \in Serial!PauseCauses, run' # "completed" \/ (run' = run /\ UNCHANGED node), UNCHANGED <<limit, points>>,
           kept' \subseteq kept,
           \A i \in DOMAIN attempts : Serial!Is(i, "succeeded") /\ ~attempts[i].made => run' = "failed",
           node' \in Plans, Waits(node)', \A n \in Serial!Nodes : node'[n] = "running" => Serial!WasRunning(n),
           exec' \in Thread, decider' \in Thread, Threads', CommandInv', control' \in [Controls -> {None} \cup Requests]
    PROVE  SerialInv'
<1> USE DEF SerialInv
<1>1. SerialTypes'
  BY DEF SerialTypes
<1>2. References'
  BY KeptReferences
<1>3. NodesAgree'
  <2>1. \A n \in Serial!Nodes : node'[n] = "running" => Serial!WasRunning(n)'
    BY DEF Serial!WasRunning
  <2>2. run' = "completed" => \A n \in Serial!Nodes : node'[n] = "completed"
    BY DEF NodesAgree
  <2> QED
    BY <2>1, <2>2 DEF NodesAgree
<1>4. ResultsWait'
  <2>1. \A i \in DOMAIN attempts' : Serial!Is(i, "succeeded")' /\ ~attempts'[i].made => run' = "failed"
    <3> SUFFICES ASSUME NEW i \in DOMAIN attempts, Serial!Is(i, "succeeded")', ~attempts'[i].made PROVE run' = "failed"
      OBVIOUS
    <3>1. Serial!Is(i, "succeeded")
      OBVIOUS
    <3>2. attempts'[i] = attempts[i]
      BY <3>1 DEF Kept, Serial!Is
    <3> QED
      BY <3>1, <3>2
  <2> QED
    BY <2>1, KeptPoints DEF ResultsWait
<1> QED
  BY <1>1, <1>2, <1>3, <1>4

\* every running Attempt ends
LEMMA AllEnd ==
    ASSUME SerialTypes, NEW s \in Serial!EndedStatus,
           attempts' = [i \in DOMAIN attempts |-> IF Serial!Is(i, "running") THEN [attempts[i] EXCEPT !.status = s] ELSE attempts[i]]
    PROVE  /\ attempts' \in Seq(Serial!Attempt) /\ DOMAIN attempts' = DOMAIN attempts /\ Serial!Running' = {}
           /\ \A i \in DOMAIN attempts : /\ attempts'[i].node = attempts[i].node
                                         /\ Serial!Is(i, "succeeded")' => Serial!Is(i, "succeeded")
                                         /\ attempts[i].status = "succeeded" => attempts'[i] = attempts[i]
<1>1. DOMAIN attempts' = DOMAIN attempts /\ DOMAIN attempts = 1..Len(attempts) /\ Len(attempts) \in Nat
  BY DEF SerialTypes
<1>2. ASSUME NEW i \in DOMAIN attempts
      PROVE  /\ attempts'[i] \in Serial!Attempt /\ attempts'[i].node = attempts[i].node /\ attempts'[i].status # "running"
             /\ Serial!Is(i, "succeeded")' => Serial!Is(i, "succeeded")
             /\ attempts[i].status = "succeeded" => attempts'[i] = attempts[i]
  <2>1. attempts[i] \in Serial!Attempt
    BY AttemptTypes
  <2>2. CASE Serial!Is(i, "running")
    <3>1. attempts'[i] = [attempts[i] EXCEPT !.status = s]
      BY <2>2
    <3>2. s \in {"failed", "timed_out", "cancelled", "interrupted"}
      BY DEF Serial!EndedStatus
    <3> QED
      BY <2>1, <2>2, <3>1, <3>2 DEF Serial!Attempt, Serial!Is, Serial!EndedStatus
  <2>3. CASE ~Serial!Is(i, "running")
    BY <2>1, <2>3 DEF Serial!Is
  <2> QED
    BY <2>2, <2>3
<1>3. attempts' \in [1..Len(attempts) -> Serial!Attempt]
  BY <1>1, <1>2
<1>4. attempts' \in Seq(Serial!Attempt)
  BY <1>1, <1>3
<1>5. Serial!Running' = {}
  BY <1>1, <1>2 DEF Serial!Running, Serial!Is
<1> QED
  BY <1>1, <1>2, <1>4, <1>5

\* the CheckRuns of one kind end where they run
Ended(v, k, s) == [checks[v] EXCEPT !.runs[k].status = s]
LEMMA ChecksEnd ==
    ASSUME SerialTypes, NEW S \in SUBSET DOMAIN checks, NEW k \in {"auto", "human"}, NEW s \in Serial!EndedStatus,
           \A v \in S : k \in DOMAIN checks[v].runs /\ checks[v].runs[k].status = "running",
           checks' = [v \in DOMAIN checks |-> IF v \in S THEN Ended(v, k, s) ELSE checks[v]]
    PROVE  /\ checks' \in Seq(Verification) /\ DOMAIN checks' = DOMAIN checks /\ Len(checks') = Len(checks)
           /\ \A v \in DOMAIN checks :
                 /\ checks'[v].attempt = checks[v].attempt
                 /\ DOMAIN checks'[v].runs = DOMAIN checks[v].runs
                 /\ \A h \in DOMAIN checks[v].runs : /\ Serial!Passed(checks[v].runs[h]) => checks'[v].runs[h] = checks[v].runs[h]
                                                     /\ h # k => checks'[v].runs[h] = checks[v].runs[h]
<1>1. DOMAIN checks' = DOMAIN checks /\ DOMAIN checks = 1..Len(checks) /\ Len(checks) \in Nat
  BY DEF SerialTypes
<1>2. ASSUME NEW v \in DOMAIN checks
      PROVE  /\ checks'[v] \in Verification
             /\ checks'[v].attempt = checks[v].attempt
             /\ DOMAIN checks'[v].runs = DOMAIN checks[v].runs
             /\ \A h \in DOMAIN checks[v].runs : /\ Serial!Passed(checks[v].runs[h]) => checks'[v].runs[h] = checks[v].runs[h]
                                                 /\ h # k => checks'[v].runs[h] = checks[v].runs[h]
  <2>1. checks[v] \in Verification /\ checks[v].runs \in [DOMAIN checks[v].runs -> Serial!CheckRun]
        /\ DOMAIN checks[v].runs \in SUBSET {"auto", "human"} /\ checks[v].attempt \in Nat
    BY VerificationTypes
  <2>2. CASE v \in S
    <3> DEFINE c == [checks[v].runs[k] EXCEPT !.status = s]
               f == [checks[v].runs EXCEPT ![k] = c]
               r == [attempt |-> checks[v].attempt, runs |-> f]
    <3>1. k \in DOMAIN checks[v].runs /\ checks[v].runs[k].status = "running" /\ checks[v].runs[k] \in Serial!CheckRun
      BY <2>1, <2>2
    <3>2. c \in Serial!CheckRun
      BY <3>1 DEF Serial!CheckRun
    <3>3. f \in [DOMAIN checks[v].runs -> Serial!CheckRun]
      <4> HIDE DEF c
      <4> QED
        BY <2>1, <3>2
    <3>4. \A h \in DOMAIN checks[v].runs : (Serial!Passed(checks[v].runs[h]) => h # k) /\ (h # k => f[h] = checks[v].runs[h])
      BY <3>1 DEF Serial!Passed
    <3>5. r \in Verification
      <4> HIDE DEF f
      <4> QED
        BY <2>1, <3>3, IsVerification
    <3>6. checks'[v] = [checks[v] EXCEPT !.runs = f]
      BY <2>2 DEF Ended
    <3>7. checks'[v] = r
      <4> HIDE DEF f
      <4> QED
        BY <2>1, <3>6 DEF Verification
    <3> HIDE DEF f
    <3> QED
      BY <3>3, <3>4, <3>5, <3>7
  <2>3. CASE v \notin S
    BY <2>1, <2>3
  <2> QED
    BY <2>2, <2>3
<1>3. checks' \in [1..Len(checks) -> Verification]
  BY <1>1, <1>2
<1>4. checks' \in Seq(Verification) /\ Len(checks') = Len(checks)
  BY <1>1, <1>3
<1> QED
  BY <1>1, <1>2, <1>4

\* the nodes of what was running fail
LEMMA NodesFail ==
    ASSUME SerialInv, NEW F, node' = [n \in Serial!Nodes |-> IF n \in F THEN "failed" ELSE node[n]], Kept,
           \A n \in F : n \in Serial!Nodes => node[n] # "completed", \A i \in Serial!Running : attempts[i].node \in F
    PROVE  /\ node' \in Plans /\ Waits(node)' /\ \A n \in Serial!Nodes : node'[n] = "running" => Serial!WasRunning(n)
           /\ GateStep
<1> USE DEF SerialInv
<1>1. node' \in Plans
  BY DEF SerialTypes, Plans, Serial!PlanNode
<1>2. Waits(node)'
  BY KeptWaits DEF ResultsWait, Waits
<1>3. \A n \in Serial!Nodes : node'[n] = "running" => Serial!WasRunning(n)
  BY DEF NodesAgree
<1>4. GateStep
  BY NoGate
<1> QED
  BY <1>1, <1>2, <1>3, <1>4

\* a command that commits stops the Run as it had read it
LEMMA CommitsIs ==
    ASSUME SerialInv, NEW c \in Controls, NEW kind \in {"pause", "cancel"}, Serial!Commits(c, kind)
    PROVE  /\ run \in {"pending", "running", "paused"} /\ (kind = "pause" => run = "running")
           /\ attempts' \in Seq(Serial!Attempt) /\ DOMAIN attempts' = DOMAIN attempts /\ Serial!Running' = {}
           /\ \A i \in DOMAIN attempts : /\ attempts'[i].node = attempts[i].node
                                         /\ Serial!Is(i, "succeeded")' => Serial!Is(i, "succeeded")
                                         /\ attempts[i].status = "succeeded" => attempts'[i] = attempts[i]
           /\ \A i \in DOMAIN attempts : ~(Serial!Is(i, "succeeded") /\ ~attempts[i].made)
           /\ CommandInv' /\ control' \in [Controls -> {None} \cup Requests]
           /\ Kept => (node' \in Plans /\ Waits(node)' /\ GateStep /\ \A n \in Serial!Nodes : node'[n] = "running" => Serial!WasRunning(n))
<1> USE DEF SerialInv
<1>1. run \in {"pending", "running", "paused"} /\ (kind = "pause" => run = "running")
  <2>1. control[c] # None /\ control[c].kind = kind /\ control[c].read.run = run
    BY DEF Serial!Commits, Serial!Control, Serial!Snapshot
  <2> QED
    BY <2>1 DEF CommandInv
<1>2. /\ attempts' = [i \in DOMAIN attempts |-> IF Serial!Is(i, "running") THEN [attempts[i] EXCEPT !.status = "cancelled"] ELSE attempts[i]]
      /\ node' = [n \in Serial!Nodes |-> IF \E i \in Serial!Running : attempts[i].node = n THEN "failed" ELSE node[n]]
  BY DEF Serial!Commits, Serial!CancelActive
<1>3. "cancelled" \in Serial!EndedStatus
  BY DEF Serial!EndedStatus
<1>4. /\ attempts' \in Seq(Serial!Attempt) /\ DOMAIN attempts' = DOMAIN attempts /\ Serial!Running' = {}
      /\ \A i \in DOMAIN attempts : /\ attempts'[i].node = attempts[i].node
                                    /\ Serial!Is(i, "succeeded")' => Serial!Is(i, "succeeded")
                                    /\ attempts[i].status = "succeeded" => attempts'[i] = attempts[i]
  BY <1>2, <1>3, AllEnd
<1>5. \A i \in DOMAIN attempts : ~(Serial!Is(i, "succeeded") /\ ~attempts[i].made)
  BY <1>1 DEF ResultsWait
<1>6. CommandInv' /\ control' \in [Controls -> {None} \cup Requests]
  BY ControlEnds DEF Serial!Commits
<1>7. ASSUME Kept PROVE node' \in Plans /\ Waits(node)' /\ GateStep /\ \A n \in Serial!Nodes : node'[n] = "running" => Serial!WasRunning(n)
  <2> DEFINE F == {n \in Serial!Nodes : \E i \in Serial!Running : attempts[i].node = n}
  <2>1. node' = [n \in Serial!Nodes |-> IF n \in F THEN "failed" ELSE node[n]]
    BY <1>2
  <2>2. \A n \in F : n \in Serial!Nodes => node[n] # "completed"
    BY DEF NodesAgree
  <2>3. \A i \in Serial!Running : attempts[i].node \in F
    BY RunningIsAttempt, AttemptTypes
  <2> HIDE DEF F
  <2> QED
    BY <1>7, <2>1, <2>2, <2>3, NodesFail
<1> QED
  BY <1>1, <1>4, <1>5, <1>6, <1>7

LEMMA PauseInv == ASSUME SerialInv, NEW c \in Controls, Serial!Pause(c) PROVE SerialInv' /\ GateStep
<1> USE DEF SerialInv
<1>1. UNCHANGED <<limit, checks, points, kept, exec, decider>> /\ run' = "paused" /\ cause' = "operator" /\ Serial!Commits(c, "pause")
  BY DEF Serial!Pause, Serial!Outside
<1>2. Kept
  BY <1>1, CommitsIs DEF Kept
<1>3. Threads' /\ exec' \in Thread /\ decider' \in Thread
  <2>1. exec.pc = "checks" => /\ Len(checks') = Len(checks) /\ checks' # <<>>
                               /\ Serial!Unfinished(checks'[Len(checks)].runs)
    BY <1>1 DEF Threads, ExecInv
  <2> QED
    BY <1>1, <1>2, <2>1, KeptExec, KeptDecider DEF Threads, SerialTypes
<1>4. checks' \in Seq(Verification) /\ run' \in Serial!Runs /\ cause' \in Serial!PauseCauses
  BY <1>1 DEF SerialTypes, Serial!Runs, Serial!PauseCauses
<1>5. SerialInv'
  BY <1>1, <1>2, <1>3, <1>4, CommitsIs, StopStep
<1> QED
  BY <1>1, <1>2, <1>5, CommitsIs

LEMMA CancelInv == ASSUME SerialInv, NEW c \in Controls, Serial!Cancel(c) PROVE SerialInv' /\ GateStep
<1> USE DEF SerialInv
<1> DEFINE S == {v \in DOMAIN checks : Serial!Asks(v)}
<1>1. /\ UNCHANGED <<limit, cause, points, kept, exec, decider>> /\ run' = "cancelled" /\ Serial!Commits(c, "cancel")
      /\ checks' = [v \in DOMAIN checks |-> IF v \in S THEN [checks[v] EXCEPT !.runs["human"].status = "cancelled"] ELSE checks[v]]
  BY DEF Serial!Cancel, Serial!Outside
<1>2. S \in SUBSET DOMAIN checks /\ \A v \in S : "human" \in DOMAIN checks[v].runs /\ checks[v].runs["human"].status = "running"
  BY DEF Serial!Asks
<1>3. "cancelled" \in Serial!EndedStatus
  BY DEF Serial!EndedStatus
<1>4. /\ checks' \in Seq(Verification) /\ DOMAIN checks' = DOMAIN checks /\ Len(checks') = Len(checks)
      /\ \A v \in DOMAIN checks :
            /\ checks'[v].attempt = checks[v].attempt
            /\ DOMAIN checks'[v].runs = DOMAIN checks[v].runs
            /\ \A h \in DOMAIN checks[v].runs : /\ Serial!Passed(checks[v].runs[h]) => checks'[v].runs[h] = checks[v].runs[h]
                                                /\ h # "human" => checks'[v].runs[h] = checks[v].runs[h]
  <2>1. checks' = [v \in DOMAIN checks |-> IF v \in S THEN Ended(v, "human", "cancelled") ELSE checks[v]]
    BY <1>1 DEF Ended
  <2>2. SerialTypes
    OBVIOUS
  <2> HIDE DEF S
  <2> QED
    BY <1>2, <1>3, <2>1, <2>2, ChecksEnd
<1>5. Kept
  BY <1>1, <1>4, CommitsIs DEF Kept
<1>6. Threads' /\ exec' \in Thread /\ decider' \in Thread
  <2>1. exec.pc = "checks" => /\ Len(checks') = Len(checks) /\ checks' # <<>>
                               /\ Serial!Unfinished(checks'[Len(checks)].runs)
    <3> SUFFICES ASSUME exec.pc = "checks"
                 PROVE  Len(checks') = Len(checks) /\ checks' # <<>> /\ Serial!Unfinished(checks'[Len(checks)].runs)
      OBVIOUS
    <3>1. checks # <<>> /\ Serial!Unfinished(checks[Len(checks)].runs)
      BY DEF Threads, ExecInv
    <3>2. Len(checks) \in DOMAIN checks /\ Len(checks) > 0
      BY <3>1 DEF SerialTypes
    <3> QED
      BY <1>4, <3>1, <3>2 DEF Serial!Unfinished
  <2> QED
    BY <1>1, <1>5, <2>1, KeptExec, KeptDecider DEF Threads, SerialTypes
<1>7. run' \in Serial!Runs /\ cause' \in Serial!PauseCauses
  BY <1>1 DEF SerialTypes, Serial!Runs
<1>8. SerialInv'
  BY <1>1, <1>4, <1>5, <1>6, <1>7, CommitsIs, StopStep
<1> QED
  BY <1>1, <1>5, <1>8, CommitsIs

LEMMA ThreadsKept == ASSUME SerialInv, UNCHANGED <<attempts, checks, exec, decider>>
    PROVE Kept /\ Threads' /\ exec' \in Thread /\ decider' \in Thread
<1>1. Kept
  BY NothingTaken
<1>2. exec.pc = "checks" => /\ Len(checks') = Len(checks) /\ checks' # <<>>
                             /\ Serial!Unfinished(checks'[Len(checks)].runs)
  BY DEF SerialInv, Threads, ExecInv
<1> QED
  BY <1>1, <1>2, KeptExec, KeptDecider DEF SerialInv, Threads, SerialTypes

\* a paused Run has no running Attempt and no result without its bytes
LEMMA PausedIs == ASSUME SerialInv, run = "paused", UNCHANGED <<attempts, checks>>
    PROVE  /\ attempts' \in Seq(Serial!Attempt) /\ checks' \in Seq(Verification) /\ DOMAIN checks' = DOMAIN checks
           /\ DOMAIN attempts' = DOMAIN attempts /\ Serial!Running' = {} /\ Serial!Running = {}
           /\ \A i \in DOMAIN attempts : Serial!Is(i, "succeeded")' => Serial!Is(i, "succeeded")
           /\ \A i \in DOMAIN attempts : ~(Serial!Is(i, "succeeded") /\ ~attempts[i].made)
           /\ \A n \in Serial!Nodes : node[n] = "running" => Serial!WasRunning(n)
BY DEF SerialInv, SerialTypes, NodesAgree, ResultsWait, Serial!Running, Serial!Is

LEMMA PauseAgainInv == ASSUME SerialInv, Serial!PauseAgain PROVE SerialInv' /\ GateStep
<1> USE DEF SerialInv
<1>1. UNCHANGED <<limit, run, node, attempts, checks, points, kept, exec, decider, control>> /\ cause' = "operator" /\ run = "paused"
  BY DEF Serial!PauseAgain, Serial!Outside, Serial!threads
<1>2. Kept /\ Threads' /\ exec' \in Thread /\ decider' \in Thread
  BY <1>1, ThreadsKept
<1>3. Waits(node)'
  BY <1>1, <1>2, KeptWaits DEF ResultsWait, Waits
<1>4. node' \in Plans /\ run' \in Serial!Runs /\ cause' \in Serial!PauseCauses
  BY <1>1 DEF SerialTypes, Serial!PauseCauses
<1>5. SerialInv'
  BY <1>1, <1>2, <1>3, <1>4, PausedIs, CommandsSame, StopStep
<1>6. GateStep
  BY <1>1, NoGate
<1> QED
  BY <1>5, <1>6

LEMMA ResumeInv == ASSUME SerialInv, Serial!Resume PROVE SerialInv' /\ GateStep
<1> USE DEF SerialInv
<1>1. /\ UNCHANGED <<limit, cause, attempts, checks, points, kept, decider, control>> /\ run = "paused" /\ run' = "running"
      /\ Serial!Recovering(TRUE, node')
      /\ node' = IF Serial!LastRetryable = 0 THEN node
                 ELSE [node EXCEPT ![attempts[Serial!LastRetryable].node] = IF @ = "failed" THEN "ready" ELSE @]
  BY DEF Serial!Resume, Serial!Outside
<1>2. Kept
  BY <1>1, NothingTaken
<1>3. ExecInv' /\ exec' \in Thread
  BY <1>1, <1>2, RecoveringInv
<1>4. DeciderInv' /\ decider' \in Thread
  BY <1>1, <1>2, KeptDecider DEF Threads, SerialTypes
<1>5. node' \in Plans /\ \A n \in Serial!Nodes : node'[n] = node[n] \/ (node[n] = "failed" /\ node'[n] = "ready")
  <2>1. CASE Serial!LastRetryable = 0
    BY <1>1, <2>1 DEF SerialTypes
  <2>2. CASE Serial!LastRetryable # 0
    <3> DEFINE n == attempts[Serial!LastRetryable].node
    <3>1. node' = [node EXCEPT ![n] = IF node[n] = "failed" THEN "ready" ELSE node[n]]
      BY <1>1, <2>2
    <3> HIDE DEF n
    <3> QED
      BY <3>1 DEF SerialTypes, Plans, Serial!PlanNode
  <2> QED
    BY <2>1, <2>2
<1>6. Waits(node)'
  BY <1>2, <1>5, KeptWaits DEF ResultsWait, Waits
<1>7. run' \in Serial!Runs /\ cause' \in Serial!PauseCauses
  BY <1>1 DEF SerialTypes, Serial!Runs
<1>8. \A n \in Serial!Nodes : node'[n] = "running" => Serial!WasRunning(n)
  BY <1>1, <1>5, PausedIs
<1>9. SerialInv'
  BY <1>1, <1>2, <1>3, <1>4, <1>5, <1>6, <1>7, <1>8, PausedIs, CommandsSame, StopStep DEF Threads
<1>10. GateStep
  BY <1>5, NoGate
<1> QED
  BY <1>9, <1>10

LEMMA StartAgainInv == ASSUME SerialInv, Serial!StartAgain PROVE SerialInv' /\ GateStep
<1>1. UNCHANGED <<limit, Serial!facts, decider, control>> /\ exec' = Serial!Looping
  BY DEF Serial!StartAgain, Serial!Outside
<1> QED
  BY <1>1, IsIdle, ThreadsSame
-----------------------------------------------------------------------------
(* The environment.                                                           *)

LEMMA CrashInv == ASSUME SerialInv, Serial!Crash PROVE SerialInv' /\ GateStep
<1>1. UNCHANGED <<limit, Serial!facts>> /\ exec' = Serial!Idle /\ decider' = Serial!Idle /\ control' = [c \in Controls |-> None]
  BY DEF Serial!Crash
<1>2. CommandInv' /\ control' \in [Controls -> {None} \cup Requests]
  BY <1>1 DEF CommandInv
<1> QED
  BY <1>1, <1>2, IsIdle, DeciderIdles, FactsSame DEF Threads

LEMMA RestoreLatestInv == ASSUME SerialInv, Serial!RestoreLatest PROVE SerialInv' /\ GateStep
<1> USE DEF SerialInv
<1>1. /\ UNCHANGED <<limit, run, cause, attempts, checks, points, kept, exec, decider, control>> /\ run = "paused"
      /\ points # <<>> /\ node' = Serial!LatestPoint.node
  BY DEF Serial!RestoreLatest, Serial!RestoreState, Serial!threads
<1>2. Kept /\ Threads' /\ exec' \in Thread /\ decider' \in Thread
  BY <1>1, ThreadsKept
<1>3. Len(points) \in DOMAIN points /\ points[Len(points)] \in Point
  BY <1>1 DEF SerialTypes
<1>4. node' = points[Len(points)].node /\ node' \in Plans
  BY <1>1, <1>3 DEF Serial!LatestPoint, Point
<1>5. Waits(node)'
  <2>1. Waits(points[Len(points)].node)
    BY <1>3 DEF ResultsWait
  <2> QED
    BY <1>2, <1>4, <2>1, KeptWaits DEF Waits
<1>6. \A n \in Serial!Nodes : node'[n] = "running" => Serial!WasRunning(n)
  BY <1>3, <1>4 DEF Serial!WasRunning
<1>7. run' \in Serial!Runs /\ cause' \in Serial!PauseCauses
  BY <1>1 DEF SerialTypes
<1>8. SerialInv'
  BY <1>1, <1>2, <1>4, <1>5, <1>6, <1>7, PausedIs, CommandsSame, StopStep
<1>9. GateStep
  BY <1>1 DEF GateStep, Serial!Restores
<1> QED
  BY <1>8, <1>9

LEMMA LoseEvidenceInv == ASSUME SerialInv, NEW a \in DOMAIN attempts, Serial!LoseEvidence(a) PROVE SerialInv' /\ GateStep
<1> USE DEF SerialInv
<1>1. UNCHANGED <<limit, run, cause, node, attempts, checks, points, exec, decider, control>> /\ kept' \subseteq kept
  BY DEF Serial!LoseEvidence, Serial!threads
<1>2. Kept /\ Threads' /\ exec' \in Thread /\ decider' \in Thread
  BY <1>1, ThreadsKept
<1>3. SerialTypes'
  BY <1>1, <1>2 DEF SerialTypes
<1>4. References'
  BY <1>1, <1>2, KeptReferences
<1>5. NodesAgree'
  BY <1>1, AgreeSame, RunningIsAttempt, AttemptTypes DEF NodesAgree, Serial!Running, Serial!Is
<1>6. ResultsWait'
  <2>1. Waits(node)'
    BY <1>1, <1>2, KeptWaits DEF ResultsWait, Waits
  <2> QED
    BY <1>1, <1>2, <2>1, KeptPoints DEF ResultsWait, Serial!Is
<1>7. CommandInv'
  BY <1>1, CommandsSame
<1>8. GateStep
  BY <1>1, NoGate
<1> QED
  BY <1>2, <1>3, <1>4, <1>5, <1>6, <1>7, <1>8

LEMMA RecoverStartupInv == ASSUME SerialInv, Serial!RecoverStartup PROVE SerialInv' /\ GateStep
<1> USE DEF SerialInv
<1>1. UNCHANGED <<limit, points, kept, decider, control>> /\ (IF run' = "running" THEN Serial!Recovering(FALSE, node') ELSE exec' = Serial!Idle)
  BY DEF Serial!RecoverStartup
<1>2. CASE run # "running"
  <2>1. UNCHANGED <<run, cause, node, attempts, checks>>
    BY <1>2 DEF Serial!RecoverStartup
  <2> QED
    BY <1>1, <1>2, <2>1, IsIdle, ThreadsSame DEF Serial!facts
<1>3. CASE run = "running"
  <2>1. attempts' = [i \in DOMAIN attempts |-> IF Serial!Is(i, "running") THEN [attempts[i] EXCEPT !.status = "interrupted"] ELSE attempts[i]]
    BY <1>3 DEF Serial!RecoverStartup
  <2>2. checks' = [v \in DOMAIN checks |-> IF v \in Serial!Broken THEN Ended(v, "auto", "interrupted") ELSE checks[v]]
    BY <1>3 DEF Serial!RecoverStartup, Ended
  <2>3. node' = [n \in Serial!Nodes |-> IF n \in Serial!Lost THEN "failed" ELSE node[n]]
    BY <1>3 DEF Serial!RecoverStartup
  <2>4. (run' = "running" /\ cause' = cause) \/ (run' = "paused" /\ cause' = "startup")
    BY <1>3 DEF Serial!RecoverStartup
  <2>5. "interrupted" \in Serial!EndedStatus
    BY DEF Serial!EndedStatus
  <2>6. /\ attempts' \in Seq(Serial!Attempt) /\ DOMAIN attempts' = DOMAIN attempts /\ Serial!Running' = {}
        /\ \A i \in DOMAIN attempts : /\ attempts'[i].node = attempts[i].node
                                      /\ Serial!Is(i, "succeeded")' => Serial!Is(i, "succeeded")
                                      /\ attempts[i].status = "succeeded" => attempts'[i] = attempts[i]
    BY <2>1, <2>5, AllEnd
  <2>7. /\ checks' \in Seq(Verification) /\ DOMAIN checks' = DOMAIN checks
        /\ \A v \in DOMAIN checks :
              /\ checks'[v].attempt = checks[v].attempt
              /\ DOMAIN checks'[v].runs = DOMAIN checks[v].runs
              /\ \A h \in DOMAIN checks[v].runs : Serial!Passed(checks[v].runs[h]) => checks'[v].runs[h] = checks[v].runs[h]
    <3>1. Serial!Broken \in SUBSET DOMAIN checks /\ \A v \in Serial!Broken : "auto" \in DOMAIN checks[v].runs /\ checks[v].runs["auto"].status = "running"
      BY DEF Serial!Broken, Serial!Unfinished
    <3>2. SerialTypes
      OBVIOUS
    <3> QED
      BY <2>2, <2>5, <3>1, <3>2, ChecksEnd
  <2>8. Kept
    BY <2>6, <2>7 DEF Kept
  <2>9. node' \in Plans /\ Waits(node)' /\ GateStep /\ \A n \in Serial!Nodes : node'[n] = "running" => Serial!WasRunning(n)
    <3>1. \A n \in Serial!Lost : n \in Serial!Nodes => node[n] # "completed"
      BY DEF Serial!Lost, Serial!At
    <3>2. ASSUME NEW i \in Serial!Running PROVE attempts[i].node \in Serial!Lost
      <4>1. attempts[i].node \in Serial!Nodes /\ node[attempts[i].node] = "running"
        BY <3>2, RunningIsAttempt, AttemptTypes DEF NodesAgree
      <4> QED
        BY <3>2, <4>1 DEF Serial!Lost, Serial!At
    <3> QED
      BY <2>3, <2>8, <3>1, <3>2, NodesFail
  <2>10. ExecInv' /\ exec' \in Thread
    <3>1. CASE run' = "running"
      BY <1>1, <1>3, <2>8, <3>1, RecoveringInv
    <3>2. CASE run' # "running"
      BY <1>1, <3>2, IsIdle
    <3> QED
      BY <3>1, <3>2
  <2>11. DeciderInv' /\ decider' \in Thread
    BY <1>1, <2>8, KeptDecider DEF Threads, SerialTypes
  <2>12. \A i \in DOMAIN attempts : ~(Serial!Is(i, "succeeded") /\ ~attempts[i].made)
    BY <1>3 DEF ResultsWait
  <2>13. run' \in Serial!Runs /\ run' # "completed" /\ cause' \in Serial!PauseCauses
    BY <2>4 DEF SerialTypes, Serial!Runs, Serial!PauseCauses
  <2>14. SerialInv'
    BY <1>1, <2>6, <2>7, <2>8, <2>9, <2>10, <2>11, <2>12, <2>13, CommandsSame, StopStep DEF Threads
  <2> QED
    BY <2>9, <2>14
<1> QED
  BY <1>2, <1>3
-----------------------------------------------------------------------------
LEMMA SerialInit == Serial!Init => SerialInv
<1> SUFFICES ASSUME Serial!Init PROVE SerialInv
  OBVIOUS
<1> USE DEF Serial!Init
<1>1. SerialTypes
  BY IdleThread DEF SerialTypes, Serial!Runs, Serial!PauseCauses, Serial!Limits, Plans, Serial!PlanNode
<1>2. Threads
  BY IdleThread DEF Threads, ExecInv, DeciderInv
<1>3. Serial!Running = {}
  BY DEF Serial!Running
<1>4. NodesAgree
  BY <1>3 DEF NodesAgree
<1>5. ResultsWait
  BY DEF ResultsWait, Waits
<1> QED
  BY <1>1, <1>2, <1>4, <1>5 DEF SerialInv, References, CommandInv

LEMMA SerialNext == ASSUME SerialInv, [Serial!Next]_Serial!vars PROVE SerialInv' /\ GateStep
<1>1. CASE Serial!Execute
  <2>1. CASE Serial!RecordArtifactFailure
    BY <2>1, RecordWorkerFailureInv DEF Serial!RecordArtifactFailure
  <2>2. CASE \E ended \in {"failed", "timed_out"} : Serial!RecordWorkerFailure(ended)
    BY <2>2, RecordWorkerFailureInv
  <2>3. CASE Serial!Prepare \/ Serial!RecordCandidate \/ Serial!Discarded \/ Serial!AwaitControlledCancellation
    BY <2>3, PrepareInv, RecordCandidateInv, StaleInv
  <2>4. CASE Serial!AcceptIntermediate \/ Serial!ResumeVerification \/ Serial!StartChecks \/ Serial!RunCheck \/ Serial!ExecutorFinishes \/ Serial!ExecutorRecords
    BY <2>4, AcceptIntermediateInv, ResumeVerificationInv, StartChecksInv, RunCheckInv, ExecutorFinishesInv, ExecutorRecordsInv
  <2> QED
    BY <1>1, <2>1, <2>2, <2>3, <2>4 DEF Serial!Execute
<1>2. CASE Serial!Decide
  <2>1. CASE \E v \in DOMAIN checks, passed, hold \in BOOLEAN : Serial!DecideHumanCheck(v, passed, hold)
    BY <2>1, DecideHumanCheckInv
  <2>2. CASE \E v \in DOMAIN checks : Serial!DecidedAgain(v)
    BY <2>2, DecidedAgainInv
  <2>3. CASE Serial!DeciderFinishes \/ Serial!DeciderRecords
    BY <2>3, DeciderFinishesInv, DeciderRecordsInv
  <2> QED
    BY <1>2, <2>1, <2>2, <2>3 DEF Serial!Decide
<1>3. CASE Serial!Command
  <2>1. CASE \E c \in Controls, kind \in {"pause", "cancel"} : Serial!ReadSnapshot(c, kind)
    BY <2>1, ReadSnapshotInv
  <2>2. CASE \E c \in Controls : Serial!Nothing(c) \/ Serial!Pause(c) \/ Serial!Cancel(c)
    BY <2>2, NothingInv, PauseInv, CancelInv
  <2>3. CASE Serial!PauseAgain \/ Serial!Resume \/ Serial!StartAgain
    BY <2>3, PauseAgainInv, ResumeInv, StartAgainInv
  <2> QED
    BY <1>3, <2>1, <2>2, <2>3 DEF Serial!Command
<1>4. CASE Serial!Environment
  BY <1>4, CrashInv, RecoverStartupInv, RestoreLatestInv, LoseEvidenceInv DEF Serial!Environment
<1>5. CASE UNCHANGED Serial!vars
  <2>1. UNCHANGED <<limit, Serial!facts, exec, decider, control>>
    BY <1>5 DEF Serial!vars, Serial!threads
  <2> QED
    BY <2>1, CommandsSame, CommandStep DEF SerialInv
<1> QED
  BY <1>1, <1>2, <1>3, <1>4, <1>5 DEF Serial!Next

LEMMA FactsHold == SerialInv => Serial!NodeFacts
<1> SUFFICES ASSUME SerialInv PROVE Serial!NodeFacts
  OBVIOUS
<1> USE DEF SerialInv
<1>1. Serial!RecordsValid
  <2>1. \A i \in DOMAIN attempts : attempts[i] \in Serial!Attempt
    BY AttemptTypes
  <2>2. \A v \in DOMAIN checks : /\ checks[v].attempt \in DOMAIN attempts
                                 /\ checks[v].runs \in [Serial!Kinds(attempts[checks[v].attempt].node) -> Serial!CheckRun]
    BY VerificationTypes DEF References
  <2>3. ASSUME NEW i \in DOMAIN points PROVE points[i] \in Serial!Points
    <3>1. points[i] \in Point
      BY DEF SerialTypes
    <3>2. points[i].attempt \in DOMAIN attempts /\ points[i].node[attempts[points[i].attempt].node] = "completed"
      BY DEF References
    <3> QED
      BY <3>1, <3>2 DEF Serial!Points, Point, Plans
  <2>4. kept \in Serial!StoredArtifacts
    BY DEF Serial!StoredArtifacts, References
  <2> QED
    BY <2>1, <2>2, <2>3, <2>4 DEF Serial!RecordsValid, SerialTypes, Plans
<1>2. \A n \in Serial!At({"running"}) : Serial!WasRunning(n) \/ \E i \in Serial!AttemptsOf(n) : Serial!Is(i, "running")
  BY DEF NodesAgree, Serial!At, Serial!Running, Serial!AttemptsOf
<1>3. \A n \in Serial!At({"candidate", "verifying"}) : \E i \in Serial!AttemptsOf(n) :
          /\ Serial!Is(i, "succeeded") /\ attempts[i].made
          /\ node[n] = "verifying" => Serial!VerificationsOf(i) # {}
  BY DEF ResultsWait, Waits, Serial!At, Made
<1>4. run = "completed" => Serial!At({"completed"}) = Serial!Nodes
  BY DEF NodesAgree, Serial!At
<1> QED
  BY <1>1, <1>2, <1>3, <1>4 DEF Serial!NodeFacts, NodesAgree

LEMMA GatesHold == GateStep => [\A n \in Serial!Nodes : Serial!Restores
          \/ /\ Serial!Completes(n) /\ Serial!Kinds(n) # {} =>
                   /\ run = "running" /\ Serial!AttemptsOf(n) # {}
                   /\ \A a \in Serial!AttemptsOf(n) : Serial!IsLatest(a) =>
                         Serial!Is(a, "succeeded") /\ \E v \in Serial!VerificationsOf(a) : \A k \in Serial!Kinds(n) : Serial!Passed(checks[v].runs[k])
             /\ node[n] = "completed" => node'[n] = "completed"]_Serial!vars
BY DEF GateStep

\* The local host's threads, its restarts and restores agree on the nodes of a Run, and no
\* node with a Gate completes but by the Checks of its last Attempt.
THEOREM SerialIsTrue == SessionsSpec => SerialHolds
<1>1. SerialInv /\ [Serial!Next]_Serial!vars => SerialInv' /\ GateStep
  BY SerialNext
<1>2. SessionsInit => Serial!Init
  BY DEF SessionsInit
<1>3. [SessionsNext]_<<part, vars, serial>> => [Serial!Next]_Serial!vars
  BY DEF SessionsNext, serial, Serial!vars, Serial!facts, Serial!threads
<1>4. SessionsSpec => Serial!Spec
  BY <1>2, <1>3, PTL DEF SessionsSpec, Serial!Spec
<1>5. Serial!Spec => []SerialInv
  BY <1>1, SerialInit, PTL DEF Serial!Spec
<1>6. Serial!Spec => []Serial!NodeFacts
  BY <1>5, FactsHold, PTL
<1>7. Serial!Spec => Serial!GatesDecide
  BY <1>1, <1>5, GatesHold, PTL DEF Serial!Spec, Serial!GatesDecide
<1> QED
  BY <1>4, <1>6, <1>7, PTL DEF SerialHolds, Serial!SerialHolds
=============================================================================
