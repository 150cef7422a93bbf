------------------------ MODULE GoalPlanning_proofs ------------------------
(***************************************************************************)
(* Theorems about the plans of a Goal and the Runs that execute them, for  *)
(* any number of threads, keys, conversations, plans, Runs and crashes.    *)
(***************************************************************************)
EXTENDS GoalPlanning, FiniteSetTheorems, SequenceTheorems, TLAPS

Questions == {"check", "question"}
CoverType == [run : Nat, process : Nat, pending : SUBSET Questions]
PlanType == [status : {"draft", "approved"}, contract : Nat, base : Nat, key : Keys, cover : CoverType]
RunType == [plan : Nat, pred : Nat, status : {"pending", "running", "paused", "completed", "failed", "cancelled"},
            active : BOOLEAN, open : SUBSET Questions, pauses : Nat, process : Nat]
TurnType == [conv : Conversations, source : Nat, key : Keys, status : {"running", "completed", "failed"}]

TypeInv ==
    /\ goal \in [contract : Nat, satisfied : BOOLEAN]
    /\ plans \in Seq(PlanType) /\ runs \in Seq(RunType) /\ turns \in Seq(TurnType)
    /\ receipts \subseteq Keys

\* what a thread has begun
CallInv ==
    /\ calls = [q \in Requests |-> calls[q]]
    /\ \A q \in Requests :
          /\ calls[q].kind \in {"idle", "propose", "import", "discuss", "replan"}
          /\ calls[q].kind \in {"propose", "import", "replan"} => calls[q].key \in Keys
          /\ calls[q].kind = "replan" => calls[q].base \in Nat \ {0}
          /\ calls[q].kind = "discuss" =>
                /\ calls[q].turn \in DOMAIN turns /\ turns[calls[q].turn].key = calls[q].key
                /\ turns[calls[q].turn].status = "running"
    /\ \A q, s \in Requests : calls[q].kind = "discuss" /\ calls[s].kind = "discuss"
                                  /\ calls[q].turn = calls[s].turn => q = s

\* a turn's key is taken, and while its model works no revision has it
KeyInv ==
    /\ \A t \in DOMAIN turns : turns[t].key \in receipts
    /\ \A p \in DOMAIN plans : plans[p].key \in receipts
    /\ \A t \in DOMAIN turns : turns[t].status = "running" => \A p \in DOMAIN plans : plans[p].key # turns[t].key
    /\ AskedOnce

\* a conversation has one open turn and one source Run at most
TalkInv ==
    \A t, u \in DOMAIN turns : turns[t].conv = turns[u].conv =>
        /\ turns[t].status = "running" /\ turns[u].status = "running" => t = u
        /\ turns[t].source # 0 /\ turns[u].source # 0 => turns[t].source = turns[u].source

\* the revisions, and how far the Goal has come with them
PlanInv ==
    /\ \A p \in DOMAIN plans :
          /\ plans[p].base = p - 1 /\ plans[p].contract = p
          /\ plans[p].status = "draft" => plans[p].cover = NoCover
          /\ plans[p].status = "approved" => p <= goal.contract
    /\ goal.contract <= Len(plans)
    /\ goal.satisfied => goal.contract \in confirmed
    /\ \A v \in confirmed : v \in DOMAIN plans /\ plans[v].status = "approved"

\* the Runs, and the approvals that covered their questions
RunInv ==
    /\ Len(runs) <= MaxRuns
    /\ \A r \in Runs : runs[r].plan \in DOMAIN plans /\ runs[r].plan <= goal.contract
                         /\ runs[r].pred \in 0..(r - 1)
    /\ \A p \in DOMAIN plans : plans[p].cover.run # 0 =>
          plans[p].cover.run \in Runs /\ runs[plans[p].cover.run].plan < p
    /\ \A r, s \in Runs : runs[s].pred = r /\ runs[r].open # {} =>
          \E p \in DOMAIN plans : plans[p].cover.run = r /\ runs[r].open = plans[p].cover.pending
    /\ Successions /\ QuestionsCovered /\ ExecutionIsApproved

HistoryInv == TypeInv /\ CallInv /\ KeyInv /\ TalkInv /\ PlanInv /\ RunInv

-----------------------------------------------------------------------------
(* The four ways in which the plans and the Runs change.                     *)

\* an entry of a sequence is added or replaced
LEMMA Appended ==
    ASSUME NEW S, NEW s \in Seq(S), NEW e \in S
    PROVE  /\ Append(s, e) \in Seq(S) /\ Len(s) \in Nat
           /\ DOMAIN s = 1..Len(s) /\ DOMAIN Append(s, e) = 1..(Len(s) + 1) /\ Len(Append(s, e)) = Len(s) + 1
           /\ \A i \in 1..Len(s) : Append(s, e)[i] = s[i]
           /\ Append(s, e)[Len(s) + 1] = e
OBVIOUS

LEMMA Replaced ==
    ASSUME NEW S, NEW s \in Seq(S), NEW i \in DOMAIN s, NEW e \in S
    PROVE  /\ [s EXCEPT ![i] = e] \in Seq(S) /\ DOMAIN [s EXCEPT ![i] = e] = DOMAIN s
           /\ Len([s EXCEPT ![i] = e]) = Len(s)
           /\ \A j \in DOMAIN s : [s EXCEPT ![i] = e][j] = IF j = i THEN e ELSE s[j]
BY ExceptSeq, LenProperties

LEMMA Entries ==
    ASSUME TypeInv
    PROVE  /\ DOMAIN plans = 1..Len(plans) /\ Len(plans) \in Nat /\ \A p \in DOMAIN plans : plans[p] \in PlanType
           /\ DOMAIN runs = 1..Len(runs) /\ Len(runs) \in Nat /\ \A r \in DOMAIN runs : runs[r] \in RunType
           /\ DOMAIN turns = 1..Len(turns) /\ Len(turns) \in Nat /\ \A t \in DOMAIN turns : turns[t] \in TurnType
BY LenProperties, ElementOfSeq DEF TypeInv

\* a thread stores a revision: the next one of the chain
Drafts(q) == EndProposal(q) \/ Propose(q) \/ EndReplan(q)

LEMMA DraftStep ==
    ASSUME TypeInv, CallInv, PlanInv, NEW q \in Requests, Drafts(q)
    PROVE  /\ calls[q].key \in Keys
           /\ plans' = Append(plans, Draft(Len(plans), Len(plans) + 1, calls[q].key))
           /\ UNCHANGED <<confirmed, runs>>
           /\ \/ goal' = goal
              \/ goal' = [goal EXCEPT !.contract = Len(plans) + 1] /\ NoActiveRuns /\ ~goal.satisfied
<1>0. goal \in [contract : Nat, satisfied : BOOLEAN] /\ DOMAIN plans = 1..Len(plans) /\ Len(plans) \in Nat
  BY Entries DEF TypeInv
<1>1. CASE EndProposal(q)
  <2>1. Len(plans) = 0 /\ plans' = Append(plans, Draft(0, 1, calls[q].key)) /\ goal' = [goal EXCEPT !.contract = 1]
        /\ NoActiveRuns /\ ~goal.satisfied
    BY <1>1 DEF EndProposal, PutDraft, VersionFree, MayUse
  <2>2. calls[q].key \in Keys
    BY <1>1 DEF EndProposal, CallInv
  <2> QED
    BY <1>1, <2>1, <2>2 DEF EndProposal
<1>2. CASE Propose(q)
  <2> DEFINE c == calls[q]
             base == c.seen.base
             current == IF base = 0 THEN 0
                        ELSE IF c.source = 0 THEN c.seen.goal.contract ELSE plans[base].contract
  <2>1. /\ c.kind = "discuss" /\ Recheck(c) /\ PutDraft(base, current + 1, c.key)
        /\ base > 0 => current = plans[base].contract
        /\ IF c.source = 0 THEN MayUse(goal, current + 1) /\ goal' = [goal EXCEPT !.contract = current + 1] ELSE goal' = goal
        /\ UNCHANGED <<confirmed, runs>>
    BY <1>2 DEF Propose
  <2>2. base = Len(plans) /\ plans' = Append(plans, Draft(base, current + 1, c.key))
    BY <2>1 DEF PutDraft, VersionFree
  <2>3. current = Len(plans)
    BY <1>0, <2>1, <2>2 DEF PlanInv
  <2>4. c.source = 0 => NoActiveRuns /\ ~goal.satisfied
    BY <2>1 DEF Recheck, Discussable, MayUse
  <2>5. c.key \in Keys
    <3>1. c.turn \in DOMAIN turns /\ turns[c.turn].key = c.key
      BY <2>1 DEF CallInv
    <3> QED
      BY <3>1, Entries DEF TurnType
  <2> HIDE DEF current, base
  <2> QED
    BY <2>1, <2>2, <2>3, <2>4, <2>5
<1>3. CASE EndReplan(q)
  <2> DEFINE c == calls[q]
  <2>1. /\ c.kind = "replan" /\ PutDraft(c.base, c.goal.contract + 1, c.key) /\ plans[c.base] = c.plan
        /\ c.plan.contract = c.goal.contract /\ ~goal.satisfied
        /\ goal' = goal \/ (goal' = [goal EXCEPT !.contract = c.goal.contract + 1] /\ NoActiveRuns)
        /\ UNCHANGED <<confirmed, runs>>
    BY <1>3 DEF EndReplan
  <2>2. c.key \in Keys /\ c.base \in Nat \ {0}
    BY <2>1 DEF CallInv
  <2>3. c.base = Len(plans) /\ plans' = Append(plans, Draft(c.base, c.goal.contract + 1, c.key))
    BY <2>1 DEF PutDraft, VersionFree
  <2>4. c.goal.contract = Len(plans)
    BY <1>0, <2>1, <2>2, <2>3 DEF PlanInv
  <2> QED
    BY <2>1, <2>2, <2>3, <2>4
<1> QED
  BY <1>1, <1>2, <1>3 DEF Drafts

\* what such a revision is, and that those before it stay
LEMMA DraftedPlans ==
    ASSUME TypeInv, NEW k \in Keys, plans' = Append(plans, Draft(Len(plans), Len(plans) + 1, k))
    PROVE  /\ plans' \in Seq(PlanType) /\ Len(plans') = Len(plans) + 1 /\ DOMAIN plans' = 1..(Len(plans) + 1)
           /\ \A p \in DOMAIN plans : plans'[p] = plans[p]
           /\ plans'[Len(plans) + 1] = Draft(Len(plans), Len(plans) + 1, k)
<1>1. Draft(Len(plans), Len(plans) + 1, k) \in PlanType
  BY Entries DEF Draft, PlanType, NoCover, CoverType
<1> QED
  BY <1>1, Entries, Appended DEF TypeInv

LEMMA ApprovalStep ==
    ASSUME TypeInv, NEW p \in DOMAIN plans, NEW r \in {0} \cup Runs, ApprovePlan(p, r)
    PROVE  /\ plans' \in Seq(PlanType) /\ DOMAIN plans' = DOMAIN plans /\ Len(plans') = Len(plans)
           /\ \A s \in DOMAIN plans : s # p => plans'[s] = plans[s]
           /\ plans'[p].status = "approved" /\ plans'[p].cover = IF r = 0 THEN NoCover ELSE Cover(r)
           /\ plans'[p].contract = plans[p].contract /\ plans'[p].base = plans[p].base /\ plans'[p].key = plans[p].key
           /\ UNCHANGED <<runs, turns, calls, receipts>>
<1>1. plans[p] \in PlanType /\ DOMAIN plans = 1..Len(plans)
  BY Entries
<1>2. (IF r = 0 THEN NoCover ELSE Cover(r)) \in CoverType
  BY Entries DEF NoCover, Cover, CoverType, RunType, Runs
<1> DEFINE e == [plans[p] EXCEPT !.status = "approved", !.cover = IF r = 0 THEN NoCover ELSE Cover(r)]
<1>3. e \in PlanType /\ e.status = "approved" /\ e.cover = (IF r = 0 THEN NoCover ELSE Cover(r))
      /\ e.contract = plans[p].contract /\ e.base = plans[p].base /\ e.key = plans[p].key
  BY <1>1, <1>2 DEF PlanType
<1>4. plans' = [plans EXCEPT ![p] = e]
  BY DEF ApprovePlan
<1> HIDE DEF e
<1>5. plans \in Seq(PlanType)
  BY DEF TypeInv
<1>6. /\ plans' \in Seq(PlanType) /\ DOMAIN plans' = DOMAIN plans /\ Len(plans') = Len(plans)
      /\ \A s \in DOMAIN plans : plans'[s] = IF s = p THEN e ELSE plans[s]
  BY <1>3, <1>4, <1>5, Replaced
<1>7. UNCHANGED <<runs, turns, calls, receipts>>
  BY DEF ApprovePlan
<1> QED
  BY <1>3, <1>6, <1>7

LEMMA StartStep ==
    ASSUME TypeInv, NEW p \in DOMAIN plans, NEW r \in {0} \cup Runs, StartRun(p, r)
    PROVE  /\ runs' \in Seq(RunType) /\ DOMAIN runs' = 1..(Len(runs) + 1) /\ Len(runs') = Len(runs) + 1
           /\ \A s \in Runs : runs'[s] = runs[s]
           /\ runs'[Len(runs) + 1].plan = p /\ runs'[Len(runs) + 1].pred = r /\ runs'[Len(runs) + 1].open = {}
           /\ runs'[Len(runs) + 1].status \in {"pending", "running"}
           /\ UNCHANGED <<goal, confirmed, plans, turns, calls, receipts>>
<1>1. p \in Nat /\ r \in Nat
  BY Entries DEF Runs
<1>2. PICK status \in {"pending", "running"} :
          runs' = Append(runs, [plan |-> p, pred |-> r, status |-> status, active |-> FALSE,
                                open |-> {}, pauses |-> 0, process |-> 1])
  BY DEF StartRun
<1> DEFINE e == [plan |-> p, pred |-> r, status |-> status, active |-> FALSE, open |-> {}, pauses |-> 0, process |-> 1]
<1>3. e \in RunType /\ e.plan = p /\ e.pred = r /\ e.open = {} /\ e.status = status
  BY <1>1 DEF RunType
<1>4. runs' = Append(runs, e)
  BY <1>2
<1> HIDE DEF e
<1> QED
  BY <1>3, <1>4, Appended, Entries DEF StartRun, TypeInv, Runs

\* what a Run may do to itself
Moves(r, e) ==
    /\ runs' = [runs EXCEPT ![r] = e] /\ e.plan = runs[r].plan /\ e.pred = runs[r].pred
    /\ e.status \in {"pending", "running"} => runs[r].status \in {"pending", "running"} \/ Current(r)
    /\ e.status = "paused" => runs[r].status = "paused" \/ (runs[r].status = "running" /\ e.open = runs[r].open)
    /\ \/ e.open = runs[r].open
       \/ runs[r].status = "running" /\ e.status = "running"
       \/ goal.contract = plans[runs[r].plan].contract
    /\ runs[r].status \in {"paused", "cancelled"} => e.status \in {"paused", "cancelled"} \/ Current(r)

LEMMA ExecuteStep ==
    ASSUME TypeInv, NEW r \in Runs, Execute(r)
    PROVE  /\ UNCHANGED <<confirmed, plans, turns, calls, receipts>>
           /\ goal' = goal \/ (goal' = [goal EXCEPT !.satisfied = TRUE] /\ Current(r))
           /\ runs' \in Seq(RunType) /\ DOMAIN runs' = DOMAIN runs /\ Len(runs') = Len(runs)
           /\ \A s \in Runs : s # r => runs'[s] = runs[s]
           /\ runs'[r].plan = runs[r].plan /\ runs'[r].pred = runs[r].pred
           /\ runs'[r].status \in {"pending", "running"} => runs[r].status \in {"pending", "running"} \/ Current(r)
           /\ runs'[r].status = "paused" => runs[r].status = "paused" \/ (runs[r].status = "running" /\ runs'[r].open = runs[r].open)
           /\ \/ runs'[r].open = runs[r].open
              \/ runs[r].status = "running" /\ runs'[r].status = "running"
              \/ goal.contract = plans[runs[r].plan].contract
           /\ runs[r].status \in {"paused", "cancelled"} => runs'[r].status \in {"paused", "cancelled"} \/ Current(r)
<1>0. runs[r] \in RunType /\ DOMAIN runs = 1..Len(runs)
  BY Entries DEF Runs
<1>1. \E e \in RunType : Moves(r, e)
  <2>1. CASE Work(r)
    <3>1. [runs[r] EXCEPT !.status = "running", !.active = TRUE] \in RunType
      BY <1>0 DEF RunType
    <3> QED
      BY <1>0, <2>1, <3>1 DEF Work, Change, RunType, Moves
  <2>2. CASE Drain(r)
    <3>1. [runs[r] EXCEPT !.active = FALSE] \in RunType
      BY <1>0 DEF RunType
    <3> QED
      BY <1>0, <2>2, <3>1 DEF Drain, Change, RunType, Moves
  <2>3. CASE Pause(r)
    <3>0. runs[r].pauses + 1 \in Nat
      BY <1>0 DEF RunType
    <3>1. [runs[r] EXCEPT !.status = "paused", !.pauses = @ + 1] \in RunType
      BY <1>0, <3>0, Zenon DEF RunType
    <3> QED
      BY <1>0, <2>3, <3>1 DEF Pause, Change, RunType, Moves
  <2>4. CASE Resume(r)
    <3>1. [runs[r] EXCEPT !.status = "running"] \in RunType
      BY <1>0 DEF RunType
    <3> QED
      BY <1>0, <2>4, <3>1 DEF Resume, Change, RunType, Moves
  <2>5. CASE AdjustProcess(r)
    <3>0. runs[r].process + 1 \in Nat
      BY <1>0 DEF RunType
    <3>1. [runs[r] EXCEPT !.process = @ + 1] \in RunType
      BY <1>0, <3>0, Zenon DEF RunType
    <3> QED
      BY <1>0, <2>5, <3>1 DEF AdjustProcess, Change, RunType, Moves
  <2>6. CASE Stop(r)
    <3>1. PICK status \in {"cancelled"} \cup IF runs[r].status = "running" THEN {"failed"} ELSE {} :
              Change(r, [runs[r] EXCEPT !.status = status, !.active = FALSE])
      BY <2>6 DEF Stop
    <3>2. [runs[r] EXCEPT !.status = status, !.active = FALSE] \in RunType
      BY <1>0 DEF RunType
    <3> QED
      BY <1>0, <3>1, <3>2 DEF Change, RunType, Moves
  <2>7. CASE Complete(r)
    <3>1. [runs[r] EXCEPT !.status = "completed"] \in RunType
      BY <1>0 DEF RunType
    <3> QED
      BY <1>0, <2>7, <3>1 DEF Complete, RunType, Moves
  <2>8. ASSUME NEW x \in {"check", "question"}, Ask(r, x) PROVE \E e \in RunType : Moves(r, e)
    <3>1. [runs[r] EXCEPT !.open = @ \cup {x}] \in RunType
      BY <1>0 DEF RunType, Questions
    <3> QED
      BY <1>0, <2>8, <3>1 DEF Ask, Change, RunType, Moves
  <2>9. ASSUME NEW x \in {"check", "question"}, Answer(r, x) PROVE \E e \in RunType : Moves(r, e)
    <3>1. [runs[r] EXCEPT !.open = @ \ {x}] \in RunType
      BY <1>0 DEF RunType, Questions
    <3> QED
      BY <1>0, <2>9, <3>1 DEF Answer, Change, RunType, Moves, Current, Aligned
  <2> QED
    BY <2>1, <2>2, <2>3, <2>4, <2>5, <2>6, <2>7, <2>8, <2>9 DEF Execute
<1>2. /\ UNCHANGED <<confirmed, plans, turns, calls, receipts>>
      /\ goal' = goal \/ (goal' = [goal EXCEPT !.satisfied = TRUE] /\ Current(r))
  BY DEF Execute, Work, Drain, Pause, Resume, AdjustProcess, Stop, Complete, Ask, Answer, Change
<1> QED
  BY <1>0, <1>1, <1>2, Replaced DEF TypeInv, Runs, Moves

-----------------------------------------------------------------------------
(* What the threads do to the turns, the receipts and their own calls.       *)

\* a thread begins a proposal or a replan, or gives it up
Quiet(q) ==
    \/ \E k \in Keys, kind \in {"propose", "import"} : BeginProposal(q, k, kind)
    \/ AbandonProposal(q)
    \/ \E k \in Keys, p \in DOMAIN plans, r \in {0} \cup Runs : BeginReplan(q, k, p, r)
\* a thread ends a discussion without a proposal
Closes(q) == EndDiscussion(q) \/ FailDiscussion(q)

LEMMA CallSet ==
    ASSUME CallInv, NEW q \in Requests, NEW c, calls' = [calls EXCEPT ![q] = c]
    PROVE  /\ calls' = [s \in Requests |-> calls'[s]]
           /\ \A s \in Requests : calls'[s] = IF s = q THEN c ELSE calls[s]
<1>1. DOMAIN calls = Requests
  BY DEF CallInv
<1>2. calls' = [s \in Requests |-> IF s = q THEN c ELSE calls[s]]
  BY <1>1
<1> QED
  BY <1>2

Asks(q, c) ==
    /\ calls' = [calls EXCEPT ![q] = c] /\ c.kind \in {"idle", "propose", "import", "replan"}
    /\ c.kind \in {"propose", "import", "replan"} => c.key \in Keys
    /\ c.kind = "replan" => c.base \in Nat \ {0}

LEMMA QuietStep ==
    ASSUME TypeInv, CallInv, NEW q \in Requests, Quiet(q)
    PROVE  /\ UNCHANGED <<goal, confirmed, plans, runs, turns, receipts>>
           /\ \E c : Asks(q, c)
<1> DEFINE Result == UNCHANGED <<goal, confirmed, plans, runs, turns, receipts>> /\ \E c : Asks(q, c)
<1>1. ASSUME NEW k \in Keys, NEW kind \in {"propose", "import"}, BeginProposal(q, k, kind) PROVE Result
  <2> DEFINE c == [kind |-> kind, key |-> k, goal |-> GoalView]
  <2>1. UNCHANGED <<goal, confirmed, plans, runs, turns, receipts>> /\ calls' = [calls EXCEPT ![q] = c]
    BY <1>1 DEF BeginProposal, Admit
  <2>2. Asks(q, c)
    BY <2>1 DEF Asks
  <2> QED
    BY <2>1, <2>2
<1>2. ASSUME AbandonProposal(q) PROVE Result
  <2>1. UNCHANGED <<goal, confirmed, plans, runs, turns, receipts>> /\ calls' = [calls EXCEPT ![q] = Idle]
    BY <1>2 DEF AbandonProposal, Leave
  <2>2. Asks(q, Idle)
    BY <2>1 DEF Asks, Idle
  <2> QED
    BY <2>1, <2>2
<1>3. ASSUME NEW k \in Keys, NEW p \in DOMAIN plans, NEW r \in {0} \cup Runs, BeginReplan(q, k, p, r) PROVE Result
  <2> DEFINE c == [kind |-> "replan", key |-> k, base |-> p, plan |-> plans[p], goal |-> GoalView,
                   source |-> r, run |-> IF r = 0 THEN Idle ELSE runs[r]]
  <2>1. UNCHANGED <<goal, confirmed, plans, runs, turns, receipts>> /\ calls' = [calls EXCEPT ![q] = c]
    BY <1>3 DEF BeginReplan, Admit
  <2>2. p \in Nat \ {0}
    BY Entries
  <2>3. Asks(q, c)
    BY <2>1, <2>2 DEF Asks
  <2> QED
    BY <2>1, <2>3
<1> HIDE DEF Result
<1>4. Result
  BY <1>1, <1>2, <1>3 DEF Quiet
<1> QED
  BY <1>4 DEF Result

\* a thread that worked for an answer is free again, and its turn is closed
LEMMA AnswerStep ==
    ASSUME TypeInv, CallInv, NEW q \in Requests, Drafts(q) \/ Closes(q)
    PROVE  /\ calls' = [calls EXCEPT ![q] = Idle]
           /\ \/ /\ Drafts(q) /\ calls[q].kind \in {"propose", "import", "replan"} /\ calls[q].key \notin receipts
                 /\ turns' = turns /\ receipts' = receipts \cup {calls[q].key}
              \/ /\ calls[q].kind = "discuss" /\ receipts' = receipts /\ calls[q].turn \in DOMAIN turns
                 /\ turns' \in Seq(TurnType) /\ DOMAIN turns' = DOMAIN turns
                 /\ \A t \in DOMAIN turns :
                       /\ turns'[t].conv = turns[t].conv /\ turns'[t].source = turns[t].source
                       /\ turns'[t].key = turns[t].key
                       /\ turns'[t].status = "running" => turns[t].status = "running" /\ t # calls[q].turn
                       /\ t # calls[q].turn => turns'[t] = turns[t]
<1>1. CASE EndProposal(q) \/ EndReplan(q)
  BY <1>1 DEF EndProposal, EndReplan, Leave, Drafts
<1>2. CASE Propose(q) \/ Closes(q)
  <2>1. PICK status \in {"completed", "failed"} :
            calls[q].kind = "discuss" /\ receipts' = receipts /\ CloseTurn(q, status)
    BY <1>2 DEF Propose, Closes, EndDiscussion, FailDiscussion
  <2> DEFINE t == calls[q].turn
             e == [turns[t] EXCEPT !.status = status]
  <2>2. t \in DOMAIN turns /\ turns[t] \in TurnType /\ turns \in Seq(TurnType)
    BY <2>1, Entries DEF CallInv, TypeInv
  <2>3. /\ e \in TurnType /\ e.conv = turns[t].conv /\ e.source = turns[t].source /\ e.key = turns[t].key
        /\ e.status # "running"
    BY <2>2 DEF TurnType
  <2>4. turns' = [turns EXCEPT ![t] = e] /\ calls' = [calls EXCEPT ![q] = Idle]
    BY <2>1 DEF CloseTurn, Leave
  <2> HIDE DEF e, t
  <2>5. /\ turns' \in Seq(TurnType) /\ DOMAIN turns' = DOMAIN turns
        /\ \A u \in DOMAIN turns : turns'[u] = IF u = t THEN e ELSE turns[u]
    BY <2>2, <2>3, <2>4, Replaced
  <2> QED
    BY <2>1, <2>2, <2>3, <2>4, <2>5 DEF t
<1> QED
  BY <1>1, <1>2 DEF Drafts

\* a discussion stores its turn and takes its key
Opens(q, c, k) ==
    calls' = [calls EXCEPT ![q] = c] /\ c.kind = "discuss" /\ c.key = k /\ c.turn = Len(turns) + 1

LEMMA DiscussStep ==
    ASSUME TypeInv, CallInv, NEW q \in Requests, NEW k \in Keys, NEW v \in Conversations, NEW r \in {0} \cup Runs,
           BeginDiscussion(q, k, v, r)
    PROVE  /\ UNCHANGED <<goal, confirmed, plans, runs>> /\ receipts' = receipts \cup {k} /\ k \notin receipts
           /\ MayTalk(v, r) /\ calls[q] = Idle
           /\ \E c : Opens(q, c, k)
           /\ turns' \in Seq(TurnType) /\ DOMAIN turns' = 1..(Len(turns) + 1)
           /\ \A t \in DOMAIN turns : turns'[t] = turns[t]
           /\ turns'[Len(turns) + 1].conv = v /\ turns'[Len(turns) + 1].source = r
           /\ turns'[Len(turns) + 1].key = k /\ turns'[Len(turns) + 1].status = "running"
<1> DEFINE e == [conv |-> v, source |-> r, key |-> k, status |-> "running"]
<1>1. e \in TurnType
  <2>1. r \in Nat
    BY Entries DEF Runs
  <2> QED
    BY <2>1 DEF TurnType
<1>2. turns' = Append(turns, e) /\ turns \in Seq(TurnType)
  BY DEF BeginDiscussion, TypeInv
<1> HIDE DEF e
<1>3. /\ turns' \in Seq(TurnType) /\ DOMAIN turns' = 1..(Len(turns) + 1) /\ DOMAIN turns = 1..Len(turns)
      /\ \A t \in 1..Len(turns) : turns'[t] = turns[t]
      /\ turns'[Len(turns) + 1] = e
  BY <1>1, <1>2, Appended
<1>4. e.conv = v /\ e.source = r /\ e.key = k /\ e.status = "running"
  BY DEF e
<1> DEFINE c == [kind |-> "discuss", key |-> k, source |-> r, turn |-> Len(turns) + 1, seen |-> Observed(r)]
<1>5. /\ UNCHANGED <<goal, confirmed, plans, runs>> /\ receipts' = receipts \cup {k} /\ k \notin receipts
      /\ MayTalk(v, r) /\ calls[q] = Idle /\ calls' = [calls EXCEPT ![q] = c]
  BY DEF BeginDiscussion, Admit
<1>6. Opens(q, c, k)
  BY <1>5 DEF Opens
<1> HIDE DEF c
<1> QED
  BY <1>3, <1>4, <1>5, <1>6

-----------------------------------------------------------------------------
(* One lemma for each part of the inductive invariant.                       *)

LEMMA TypeStep ==
    ASSUME TypeInv, CallInv, PlanInv, [Next]_vars
    PROVE  TypeInv'
<1>0. /\ goal \in [contract : Nat, satisfied : BOOLEAN] /\ receipts \subseteq Keys
      /\ plans \in Seq(PlanType) /\ runs \in Seq(RunType) /\ turns \in Seq(TurnType)
  BY DEF TypeInv
<1>1. ASSUME NEW q \in Requests, Quiet(q) PROVE TypeInv'
  BY <1>0, <1>1, QuietStep DEF TypeInv
<1>2. ASSUME NEW q \in Requests, Drafts(q) PROVE TypeInv'
  <2>1. calls[q].key \in Keys /\ goal' \in [contract : Nat, satisfied : BOOLEAN] /\ plans' \in Seq(PlanType) /\ runs' = runs
    BY <1>0, <1>2, DraftStep, DraftedPlans, Entries
  <2>2. turns' \in Seq(TurnType) /\ receipts' \subseteq Keys
    BY <1>0, <1>2, <2>1, AnswerStep
  <2> QED
    BY <1>0, <2>1, <2>2 DEF TypeInv
<1>3. ASSUME NEW q \in Requests, Closes(q) PROVE TypeInv'
  <2>1. UNCHANGED <<goal, plans, runs, receipts>>
    BY <1>3 DEF Closes, EndDiscussion, FailDiscussion
  <2>2. turns' \in Seq(TurnType)
    BY <1>0, <1>3, AnswerStep
  <2> QED
    BY <1>0, <2>1, <2>2 DEF TypeInv
<1>4. ASSUME NEW q \in Requests, NEW k \in Keys, NEW v \in Conversations, NEW r \in {0} \cup Runs,
             BeginDiscussion(q, k, v, r)
      PROVE  TypeInv'
  BY <1>0, <1>4, DiscussStep DEF TypeInv
<1>5. ASSUME NEW p \in DOMAIN plans, NEW r \in {0} \cup Runs, ApprovePlan(p, r) PROVE TypeInv'
  <2>1. plans[p].contract \in Nat /\ goal' = [goal EXCEPT !.contract = plans[p].contract]
    BY <1>5, Entries DEF ApprovePlan, PlanType
  <2>2. plans' \in Seq(PlanType) /\ UNCHANGED <<runs, turns, receipts>>
    BY <1>5, ApprovalStep
  <2> QED
    BY <1>0, <2>1, <2>2 DEF TypeInv
<1>6. ASSUME NEW p \in DOMAIN plans, NEW r \in {0} \cup Runs, StartRun(p, r) PROVE TypeInv'
  BY <1>0, <1>6, StartStep DEF TypeInv
<1>7. ASSUME NEW r \in Runs, Execute(r) PROVE TypeInv'
  BY <1>0, <1>7, ExecuteStep DEF TypeInv
<1>8. CASE Crash
  BY <1>0, <1>8 DEF TypeInv, Crash
<1>9. CASE UNCHANGED vars
  BY <1>0, <1>9 DEF TypeInv, vars
<1> QED
  BY <1>1, <1>2, <1>3, <1>4, <1>5, <1>6, <1>7, <1>8, <1>9 DEF Next, Serve, Command, Quiet, Drafts, Closes

LEMMA CallStep ==
    ASSUME TypeInv, CallInv, PlanInv, [Next]_vars
    PROVE  CallInv'
<1>0. UNCHANGED <<calls, turns>> => CallInv'
  BY DEF CallInv
<1>1. ASSUME NEW q \in Requests, Quiet(q) PROVE CallInv'
  <2>1. PICK c : Asks(q, c)
    BY <1>1, QuietStep
  <2>2. turns' = turns
    BY <1>1, QuietStep
  <2>3. calls' = [s \in Requests |-> calls'[s]] /\ \A s \in Requests : calls'[s] = IF s = q THEN c ELSE calls[s]
    BY <2>1, CallSet DEF Asks
  <2> QED
    BY <2>1, <2>2, <2>3 DEF CallInv, Asks
<1>2. ASSUME NEW q \in Requests, Drafts(q) \/ Closes(q) PROVE CallInv'
  <2>1. calls' = [s \in Requests |-> calls'[s]] /\ \A s \in Requests : calls'[s] = IF s = q THEN Idle ELSE calls[s]
    BY <1>2, AnswerStep, CallSet
  <2>2. \A s \in Requests : s # q /\ calls[s].kind = "discuss" =>
            calls[s].turn \in DOMAIN turns' /\ turns'[calls[s].turn] = turns[calls[s].turn]
    BY <1>2, AnswerStep DEF CallInv
  <2>3. Idle.kind = "idle"
    BY DEF Idle
  <2> QED
    BY <2>1, <2>2, <2>3 DEF CallInv
<1>3. ASSUME NEW q \in Requests, NEW k \in Keys, NEW v \in Conversations, NEW r \in {0} \cup Runs,
             BeginDiscussion(q, k, v, r)
      PROVE  CallInv'
  <2>0. PICK c : Opens(q, c, k)
    BY <1>3, DiscussStep
  <2>1. calls' = [calls EXCEPT ![q] = c] /\ c.kind = "discuss" /\ c.key = k /\ c.turn = Len(turns) + 1
    BY <2>0 DEF Opens
  <2>2. calls' = [s \in Requests |-> calls'[s]] /\ \A s \in Requests : calls'[s] = IF s = q THEN c ELSE calls[s]
    BY <2>1, CallSet
  <2>3. /\ DOMAIN turns' = 1..(Len(turns) + 1) /\ \A t \in DOMAIN turns : turns'[t] = turns[t]
        /\ turns'[Len(turns) + 1].key = k /\ turns'[Len(turns) + 1].status = "running"
    BY <1>3, DiscussStep
  <2>4. DOMAIN turns = 1..Len(turns) /\ Len(turns) \in Nat
    BY Entries
  <2>5. \A s \in Requests : calls[s].kind = "discuss" =>
            calls[s].turn \in DOMAIN turns' /\ calls[s].turn # c.turn /\ turns'[calls[s].turn] = turns[calls[s].turn]
    BY <2>1, <2>3, <2>4 DEF CallInv
  <2>6. c.turn \in DOMAIN turns'
    BY <2>1, <2>3, <2>4
  <2> QED
    BY <2>1, <2>2, <2>3, <2>5, <2>6 DEF CallInv
<1>4. CASE Crash
  BY <1>4 DEF Crash, CallInv, Idle
<1>5. ASSUME NEW p \in DOMAIN plans, NEW r \in {0} \cup Runs, ApprovePlan(p, r) \/ StartRun(p, r) PROVE CallInv'
  BY <1>0, <1>5 DEF ApprovePlan, StartRun
<1>6. ASSUME NEW r \in Runs, Execute(r) PROVE CallInv'
  BY <1>0, <1>6, ExecuteStep
<1>7. CASE UNCHANGED vars
  BY <1>0, <1>7 DEF vars
<1> QED
  BY <1>1, <1>2, <1>3, <1>4, <1>5, <1>6, <1>7 DEF Next, Serve, Command, Quiet, Drafts, Closes

LEMMA KeyStep ==
    ASSUME TypeInv, CallInv, KeyInv, PlanInv, [Next]_vars
    PROVE  KeyInv'
<1>0. UNCHANGED <<plans, turns, receipts>> => KeyInv'
  BY DEF KeyInv, AskedOnce
<1>1. ASSUME NEW q \in Requests, Quiet(q) PROVE KeyInv'
  BY <1>0, <1>1, QuietStep
<1>2. ASSUME NEW q \in Requests, Drafts(q) PROVE KeyInv'
  <2> DEFINE k == calls[q].key
             n == Len(plans) + 1
  <2>1. /\ DOMAIN plans' = DOMAIN plans \cup {n} /\ n \notin DOMAIN plans
        /\ \A p \in DOMAIN plans : plans'[p] = plans[p]
        /\ plans'[n].key = k
    <3>1. k \in Keys /\ plans' = Append(plans, Draft(Len(plans), Len(plans) + 1, k))
      BY <1>2, DraftStep
    <3>2. /\ DOMAIN plans' = 1..(Len(plans) + 1) /\ \A p \in DOMAIN plans : plans'[p] = plans[p]
          /\ plans'[Len(plans) + 1] = Draft(Len(plans), Len(plans) + 1, k)
      BY <3>1, DraftedPlans
    <3>3. DOMAIN plans = 1..Len(plans) /\ Len(plans) \in Nat
      BY Entries
    <3>4. Draft(Len(plans), Len(plans) + 1, k).key = k
      BY DEF Draft
    <3> QED
      BY <3>2, <3>3, <3>4
  <2>2. CASE k \notin receipts /\ turns' = turns /\ receipts' = receipts \cup {k}
    <3> HIDE DEF k, n
    <3> QED
      BY <2>1, <2>2 DEF KeyInv, AskedOnce
  <2>3. CASE /\ calls[q].kind = "discuss" /\ receipts' = receipts /\ calls[q].turn \in DOMAIN turns
             /\ DOMAIN turns' = DOMAIN turns
             /\ \A t \in DOMAIN turns :
                   /\ turns'[t].key = turns[t].key
                   /\ turns'[t].status = "running" => turns[t].status = "running" /\ t # calls[q].turn
    <3>1. calls[q].turn \in DOMAIN turns /\ turns[calls[q].turn].key = k /\ turns[calls[q].turn].status = "running"
      BY <2>3 DEF CallInv
    <3>2. k \in receipts /\ \A p \in DOMAIN plans : plans[p].key # k
      BY <3>1 DEF KeyInv
    <3> HIDE DEF k, n
    <3>3. \A t \in DOMAIN turns : turns'[t].status = "running" => turns'[t].key # k
      BY <2>3, <3>1 DEF KeyInv, AskedOnce
    <3> QED
      BY <2>1, <2>3, <3>2, <3>3 DEF KeyInv, AskedOnce
  <2>4. \/ k \notin receipts /\ turns' = turns /\ receipts' = receipts \cup {k}
        \/ /\ calls[q].kind = "discuss" /\ receipts' = receipts /\ calls[q].turn \in DOMAIN turns
           /\ DOMAIN turns' = DOMAIN turns
           /\ \A t \in DOMAIN turns :
                 /\ turns'[t].key = turns[t].key
                 /\ turns'[t].status = "running" => turns[t].status = "running" /\ t # calls[q].turn
    BY <1>2, AnswerStep
  <2> QED
    BY <2>2, <2>3, <2>4
<1>3. ASSUME NEW q \in Requests, Closes(q) PROVE KeyInv'
  <2>1. calls[q].kind = "discuss" /\ UNCHANGED <<plans, receipts>>
    BY <1>3 DEF Closes, EndDiscussion, FailDiscussion
  <2>2. ~(calls[q].kind \in {"propose", "import", "replan"})
    BY <2>1
  <2>3. /\ DOMAIN turns' = DOMAIN turns
        /\ \A t \in DOMAIN turns :
              turns'[t].key = turns[t].key /\ (turns'[t].status = "running" => turns[t].status = "running")
    BY <1>3, <2>2, AnswerStep
  <2> QED
    BY <2>1, <2>3 DEF KeyInv, AskedOnce
<1>4. ASSUME NEW q \in Requests, NEW k \in Keys, NEW v \in Conversations, NEW r \in {0} \cup Runs,
             BeginDiscussion(q, k, v, r)
      PROVE  KeyInv'
  <2> DEFINE n == Len(turns) + 1
  <2>1. plans' = plans /\ receipts' = receipts \cup {k} /\ k \notin receipts
    BY <1>4, DiscussStep
  <2>2. /\ DOMAIN turns' = DOMAIN turns \cup {n} /\ \A t \in DOMAIN turns : turns'[t] = turns[t]
        /\ turns'[n].key = k
    <3>1. DOMAIN turns' = 1..n /\ (\A t \in DOMAIN turns : turns'[t] = turns[t]) /\ turns'[n].key = k
      BY <1>4, DiscussStep
    <3> QED
      BY <3>1, Entries
  <2> HIDE DEF n
  <2> QED
    BY <2>1, <2>2 DEF KeyInv, AskedOnce
<1>5. ASSUME NEW p \in DOMAIN plans, NEW r \in {0} \cup Runs, ApprovePlan(p, r) PROVE KeyInv'
  <2>1. /\ DOMAIN plans' = DOMAIN plans /\ UNCHANGED <<turns, receipts>>
        /\ \A s \in DOMAIN plans : plans'[s].key = plans[s].key
    BY <1>5, ApprovalStep
  <2> QED
    BY <2>1 DEF KeyInv, AskedOnce
<1>6. ASSUME NEW p \in DOMAIN plans, NEW r \in {0} \cup Runs, StartRun(p, r) PROVE KeyInv'
  BY <1>0, <1>6, StartStep
<1>7. ASSUME NEW r \in Runs, Execute(r) PROVE KeyInv'
  BY <1>0, <1>7, ExecuteStep
<1>8. CASE Crash \/ UNCHANGED vars
  BY <1>0, <1>8 DEF Crash, vars
<1> QED
  BY <1>1, <1>2, <1>3, <1>4, <1>5, <1>6, <1>7, <1>8 DEF Next, Serve, Command, Quiet, Drafts, Closes

LEMMA TalkStep ==
    ASSUME TypeInv, CallInv, TalkInv, PlanInv, [Next]_vars
    PROVE  TalkInv'
<1>0. turns' = turns => TalkInv'
  BY DEF TalkInv
<1>1. ASSUME NEW q \in Requests, Quiet(q) PROVE TalkInv'
  BY <1>0, <1>1, QuietStep
<1>2. ASSUME NEW q \in Requests, Drafts(q) \/ Closes(q) PROVE TalkInv'
  <2>1. \/ turns' = turns
        \/ /\ DOMAIN turns' = DOMAIN turns
           /\ \A t \in DOMAIN turns :
                 /\ turns'[t].conv = turns[t].conv /\ turns'[t].source = turns[t].source
                 /\ turns'[t].status = "running" => turns[t].status = "running"
    BY <1>2, AnswerStep
  <2> QED
    BY <1>0, <2>1 DEF TalkInv
<1>3. ASSUME NEW q \in Requests, NEW k \in Keys, NEW v \in Conversations, NEW r \in {0} \cup Runs,
             BeginDiscussion(q, k, v, r)
      PROVE  TalkInv'
  <2> DEFINE n == Len(turns) + 1
  <2>1. /\ DOMAIN turns' = DOMAIN turns \cup {n} /\ \A t \in DOMAIN turns : turns'[t] = turns[t]
        /\ turns'[n].conv = v /\ turns'[n].source = r
    <3>1. /\ DOMAIN turns' = 1..n /\ \A t \in DOMAIN turns : turns'[t] = turns[t]
          /\ turns'[n].conv = v /\ turns'[n].source = r
      BY <1>3, DiscussStep
    <3> QED
      BY <3>1, Entries
  <2>2. \A t \in DOMAIN turns : turns[t].conv = v =>
            turns[t].status # "running" /\ (turns[t].source # 0 => turns[t].source = r)
    BY <1>3, DiscussStep DEF MayTalk, TurnsOf
  <2> HIDE DEF n
  <2> QED
    BY <2>1, <2>2 DEF TalkInv
<1>4. ASSUME NEW p \in DOMAIN plans, NEW r \in {0} \cup Runs, ApprovePlan(p, r) \/ StartRun(p, r) PROVE TalkInv'
  BY <1>0, <1>4 DEF ApprovePlan, StartRun
<1>5. ASSUME NEW r \in Runs, Execute(r) PROVE TalkInv'
  BY <1>0, <1>5, ExecuteStep
<1>6. CASE Crash \/ UNCHANGED vars
  BY <1>0, <1>6 DEF Crash, vars
<1> QED
  BY <1>1, <1>2, <1>3, <1>4, <1>5, <1>6 DEF Next, Serve, Command, Quiet, Drafts, Closes

\* the Goal comes one contract further, with an approval or with the draft that replaces one
LEMMA PlanStep ==
    ASSUME TypeInv, CallInv, PlanInv, [Next]_vars
    PROVE  PlanInv' /\ goal'.contract >= goal.contract
<1>0. /\ goal \in [contract : Nat, satisfied : BOOLEAN] /\ DOMAIN plans = 1..Len(plans) /\ Len(plans) \in Nat
      /\ \A p \in DOMAIN plans : plans[p] \in PlanType
  BY Entries DEF TypeInv
<1>1. UNCHANGED <<goal, confirmed, plans>> => PlanInv' /\ goal'.contract >= goal.contract
  BY <1>0 DEF PlanInv, NoCover
<1>2. ASSUME NEW q \in Requests, Quiet(q) PROVE PlanInv' /\ goal'.contract >= goal.contract
  BY <1>1, <1>2, QuietStep
<1>3. ASSUME NEW q \in Requests, Drafts(q) PROVE PlanInv' /\ goal'.contract >= goal.contract
  <2> DEFINE n == Len(plans) + 1
  <2>1. /\ calls[q].key \in Keys /\ plans' = Append(plans, Draft(Len(plans), n, calls[q].key)) /\ confirmed' = confirmed
        /\ goal' = goal \/ (goal' = [goal EXCEPT !.contract = n] /\ ~goal.satisfied)
    BY <1>3, DraftStep
  <2>2. /\ Len(plans') = n /\ DOMAIN plans' = 1..n /\ \A p \in DOMAIN plans : plans'[p] = plans[p]
        /\ plans'[n] = Draft(Len(plans), n, calls[q].key)
    BY <2>1, DraftedPlans
  <2>3. /\ plans'[n].base = n - 1 /\ plans'[n].contract = n /\ plans'[n].status = "draft" /\ plans'[n].cover = NoCover
    BY <1>0, <2>2 DEF Draft
  <2>4. /\ goal'.contract \in {goal.contract, n} /\ goal'.satisfied = goal.satisfied
        /\ goal'.satisfied => goal'.contract = goal.contract
    BY <1>0, <2>1
  <2> HIDE DEF n
  <2>5. n = Len(plans) + 1
    BY DEF n
  <2>6. goal'.contract >= goal.contract /\ goal'.contract <= n /\ goal.contract \in Nat /\ n \in Nat
    BY <1>0, <2>4, <2>5 DEF PlanInv
  <2>7. \A p \in DOMAIN plans' : p \in DOMAIN plans \/ p = n
    BY <1>0, <2>2, <2>5
  <2>8. \A p \in DOMAIN plans' : /\ plans'[p].base = p - 1 /\ plans'[p].contract = p
                                 /\ plans'[p].status = "draft" => plans'[p].cover = NoCover
    BY <2>2, <2>3, <2>7 DEF PlanInv
  <2>9. \A p \in DOMAIN plans' : plans'[p].status = "approved" => p <= goal'.contract
    <3>1. \A p \in DOMAIN plans : plans[p].status = "approved" => p <= goal.contract /\ p \in Nat
      BY <1>0 DEF PlanInv
    <3>2. \A p \in DOMAIN plans : plans[p].status = "approved" => p <= goal'.contract
      BY <2>4, <2>5, <2>6, <3>1
    <3> QED
      BY <2>2, <2>3, <2>7, <3>2
  <2>10. \A v \in confirmed : v \in DOMAIN plans' /\ plans'[v].status = "approved"
    BY <1>0, <2>2, <2>5 DEF PlanInv
  <2> QED
    BY <2>1, <2>2, <2>4, <2>6, <2>8, <2>9, <2>10 DEF PlanInv, NoCover
<1>4. ASSUME NEW q \in Requests, Closes(q) PROVE PlanInv' /\ goal'.contract >= goal.contract
  BY <1>1, <1>4 DEF Closes, EndDiscussion, FailDiscussion
<1>5. ASSUME NEW q \in Requests, NEW k \in Keys, NEW v \in Conversations, NEW r \in {0} \cup Runs,
             BeginDiscussion(q, k, v, r)
      PROVE  PlanInv' /\ goal'.contract >= goal.contract
  BY <1>1, <1>5 DEF BeginDiscussion
<1>6. ASSUME NEW p \in DOMAIN plans, NEW r \in {0} \cup Runs, ApprovePlan(p, r)
      PROVE  PlanInv' /\ goal'.contract >= goal.contract
  <2>1. /\ goal' = [goal EXCEPT !.contract = plans[p].contract] /\ confirmed' = confirmed \cup {plans[p].contract}
        /\ plans[p].contract \in {goal.contract, goal.contract + 1} /\ plans[p].contract = p
    BY <1>6 DEF ApprovePlan, MayUse, PlanInv
  <2>2. goal'.contract = p /\ p >= goal.contract /\ confirmed' = confirmed \cup {p} /\ p \in Nat
    BY <1>0, <2>1
  <2>3. /\ DOMAIN plans' = DOMAIN plans /\ Len(plans') = Len(plans)
        /\ \A s \in DOMAIN plans : s # p => plans'[s] = plans[s]
        /\ plans'[p].status = "approved" /\ plans'[p].contract = plans[p].contract /\ plans'[p].base = plans[p].base
    BY <1>6, ApprovalStep
  <2>4. \A s \in DOMAIN plans' : /\ plans'[s].base = s - 1 /\ plans'[s].contract = s
                                 /\ plans'[s].status = "draft" => plans'[s].cover = NoCover
    BY <2>3 DEF PlanInv
  <2>5. \A s \in DOMAIN plans' : plans'[s].status = "approved" => s <= goal'.contract
    <3>1. \A s \in DOMAIN plans : s # p /\ plans[s].status = "approved" => s <= goal.contract /\ s \in Nat
      BY <1>0 DEF PlanInv
    <3>2. \A s \in DOMAIN plans : s # p /\ plans[s].status = "approved" => s <= p
      BY <1>0, <2>2, <3>1
    <3> QED
      BY <2>2, <2>3, <3>2
  <2>6. \A v \in confirmed' : v \in DOMAIN plans' /\ plans'[v].status = "approved"
    BY <2>2, <2>3 DEF PlanInv
  <2>7. goal'.contract <= Len(plans') /\ goal'.contract \in confirmed'
    BY <1>0, <2>2, <2>3
  <2> QED
    BY <2>2, <2>4, <2>5, <2>6, <2>7 DEF PlanInv, NoCover
<1>7. ASSUME NEW p \in DOMAIN plans, NEW r \in {0} \cup Runs, StartRun(p, r)
      PROVE  PlanInv' /\ goal'.contract >= goal.contract
  BY <1>1, <1>7 DEF StartRun
<1>8. ASSUME NEW r \in Runs, Execute(r) PROVE PlanInv' /\ goal'.contract >= goal.contract
  <2>1. UNCHANGED <<confirmed, plans>> /\ (goal' = goal \/ (goal' = [goal EXCEPT !.satisfied = TRUE] /\ Current(r)))
    BY <1>8, ExecuteStep
  <2>2. goal'.contract = goal.contract /\ (goal'.satisfied => goal.satisfied \/ goal.contract \in confirmed)
    BY <1>0, <2>1 DEF Current, Aligned
  <2> QED
    BY <1>0, <2>1, <2>2 DEF PlanInv, NoCover
<1>9. CASE Crash \/ UNCHANGED vars
  BY <1>1, <1>9 DEF Crash, vars
<1> QED
  BY <1>2, <1>3, <1>4, <1>5, <1>6, <1>7, <1>8, <1>9 DEF Next, Serve, Command, Quiet, Drafts, Closes

\* a Run that has a successor is not the current one, whatever the Goal does
LEMMA SucceededIsBehind ==
    ASSUME TypeInv, PlanInv, RunInv, NEW r \in Runs, HasSuccessor(r)
    PROVE  goal.contract # plans[runs[r].plan].contract /\ ~Current(r)
<1>1. PICK s \in Runs : runs[s].pred = r
  BY DEF HasSuccessor
<1>2. r # 0
  BY Entries DEF Runs
<1>3. runs[r].plan = plans[runs[s].plan].base /\ runs[s].plan \in DOMAIN plans /\ runs[s].plan <= goal.contract
  BY <1>1, <1>2 DEF RunInv, Successions
<1>4. runs[r].plan = runs[s].plan - 1 /\ runs[r].plan \in DOMAIN plans /\ plans[runs[r].plan].contract = runs[r].plan
  BY <1>3 DEF PlanInv, RunInv
<1>5. goal.contract \in Nat /\ runs[s].plan \in Nat
  BY <1>3, Entries DEF TypeInv
<1> QED
  BY <1>3, <1>4, <1>5 DEF Current

LEMMA RunStep ==
    ASSUME TypeInv, CallInv, PlanInv, RunInv, [Next]_vars, TypeInv', PlanInv', goal'.contract >= goal.contract
    PROVE  RunInv'
<1>0. /\ goal.contract \in Nat /\ goal'.contract \in Nat /\ DOMAIN plans = 1..Len(plans) /\ Len(plans) \in Nat
      /\ Runs = 1..Len(runs) /\ Len(runs) \in Nat /\ \A r \in Runs : runs[r] \in RunType
  BY Entries DEF TypeInv, Runs
<1>1. UNCHANGED <<goal, confirmed, plans, runs>> => RunInv'
  BY DEF RunInv, Successions, QuestionsCovered, ExecutionIsApproved, Current, Aligned, HasSuccessor, Runs
<1>2. ASSUME NEW q \in Requests, Quiet(q) PROVE RunInv'
  BY <1>1, <1>2, QuietStep
<1>3. ASSUME NEW q \in Requests, Drafts(q) PROVE RunInv'
  <2> DEFINE n == Len(plans) + 1
  <2>1. /\ calls[q].key \in Keys /\ plans' = Append(plans, Draft(Len(plans), n, calls[q].key))
        /\ UNCHANGED <<confirmed, runs>> /\ (goal' = goal \/ NoActiveRuns)
    BY <1>3, DraftStep
  <2>2. /\ DOMAIN plans' = 1..n /\ \A p \in DOMAIN plans : plans'[p] = plans[p]
        /\ plans'[n] = Draft(Len(plans), n, calls[q].key)
    BY <2>1, DraftedPlans
  <2>3. plans'[n].cover.run = 0
    BY <2>2 DEF Draft, NoCover
  <2>4. DOMAIN plans' = DOMAIN plans \cup {n} /\ n \notin DOMAIN plans
    BY <1>0, <2>2
  <2>5. Runs' = Runs /\ runs' = runs
    BY <2>1 DEF Runs
  <2>6. \A r \in Runs : /\ runs[r].plan \in DOMAIN plans' /\ runs[r].plan <= goal'.contract
                        /\ plans'[runs[r].plan] = plans[runs[r].plan]
    <3>1. \A r \in Runs : runs[r].plan \in DOMAIN plans /\ runs[r].plan \in Nat /\ runs[r].plan <= goal.contract
      BY <1>0 DEF RunInv
    <3> QED
      BY <1>0, <2>2, <2>4, <3>1
  <2> HIDE DEF n
  <2>7. \A p \in DOMAIN plans' : plans'[p].cover.run # 0 =>
            plans'[p].cover.run \in Runs /\ runs[plans'[p].cover.run].plan < p
    BY <2>2, <2>3, <2>4 DEF RunInv
  <2>8. \A r \in Runs : (\E p \in DOMAIN plans : plans[p].cover.run = r /\ runs[r].open = plans[p].cover.pending)
            => \E p \in DOMAIN plans' : plans'[p].cover.run = r /\ runs[r].open = plans'[p].cover.pending
    BY <2>2, <2>4
  <2>9. Successions'
    <3>1. \A r \in Runs : plans'[runs[r].plan].base = plans[runs[r].plan].base
      BY <2>6
    <3> QED
      BY <2>5, <3>1 DEF RunInv, Successions
  <2>10. QuestionsCovered' /\ ExecutionIsApproved'
    <3>1. CASE goal' = goal
      BY <2>1, <2>5, <2>6, <2>8, <3>1
         DEF RunInv, QuestionsCovered, ExecutionIsApproved, Current, Aligned, HasSuccessor
    <3>2. CASE NoActiveRuns
      BY <2>5, <3>2 DEF QuestionsCovered, ExecutionIsApproved, NoActiveRuns, Live
    <3> QED
      BY <2>1, <3>1, <3>2
  <2> QED
    BY <2>5, <2>6, <2>7, <2>8, <2>9, <2>10 DEF RunInv
<1>4. ASSUME NEW q \in Requests, Closes(q) PROVE RunInv'
  BY <1>1, <1>4 DEF Closes, EndDiscussion, FailDiscussion
<1>5. ASSUME NEW q \in Requests, NEW k \in Keys, NEW v \in Conversations, NEW r \in {0} \cup Runs,
             BeginDiscussion(q, k, v, r)
      PROVE  RunInv'
  BY <1>1, <1>5 DEF BeginDiscussion
<1>6. ASSUME NEW p \in DOMAIN plans, NEW b \in {0} \cup Runs, ApprovePlan(p, b) PROVE RunInv'
  <2>1. /\ DOMAIN plans' = DOMAIN plans /\ runs' = runs /\ Runs' = Runs
        /\ \A s \in DOMAIN plans : s # p => plans'[s] = plans[s]
        /\ plans'[p].cover = IF b = 0 THEN NoCover ELSE Cover(b)
        /\ \A s \in DOMAIN plans : plans'[s].contract = plans[s].contract /\ plans'[s].base = plans[s].base
    BY <1>6, ApprovalStep DEF Runs
  <2>2. /\ plans[p].status = "draft" /\ (b # 0 => SuccessorSource(p, b))
        /\ \A r \in Runs : runs[r].status \notin {"pending", "running"} /\ ~Unanswered(r, p, b)
        /\ goal'.contract = plans[p].contract
    BY <1>6 DEF ApprovePlan, TypeInv
  <2>3. plans[p].cover.run = 0 /\ plans[p].base = p - 1
    BY <2>2 DEF PlanInv, NoCover
  <2>4. b # 0 => /\ b \in Runs /\ runs[b].plan < p
                 /\ plans'[p].cover.run = b /\ plans'[p].cover.pending = runs[b].open
    <3> SUFFICES ASSUME b # 0 PROVE /\ b \in Runs /\ runs[b].plan < p
                                    /\ plans'[p].cover.run = b /\ plans'[p].cover.pending = runs[b].open
      OBVIOUS
    <3>1. b \in Runs /\ runs[b].plan = p - 1
      BY <2>2, <2>3 DEF SuccessorSource
    <3>2. plans'[p].cover = Cover(b)
      BY <2>1
    <3> QED
      BY <1>0, <3>1, <3>2 DEF Cover
  <2>5. b = 0 => plans'[p].cover.run = 0
    BY <2>1 DEF NoCover
  <2>6. \A s \in DOMAIN plans' : plans'[s].cover.run # 0 =>
            plans'[s].cover.run \in Runs /\ runs[plans'[s].cover.run].plan < s
    BY <2>1, <2>4, <2>5 DEF RunInv
  <2>7. \A r \in Runs : (\E s \in DOMAIN plans : plans[s].cover.run = r /\ runs[r].open = plans[s].cover.pending)
            => \E s \in DOMAIN plans' : plans'[s].cover.run = r /\ runs[r].open = plans'[s].cover.pending
    <3>1. \A r \in Runs : r # 0
      BY <1>0
    <3> QED
      BY <2>1, <2>3, <3>1
  <2>8. QuestionsCovered'
    <3> SUFFICES ASSUME NEW r \in Runs, runs[r].status = "paused", runs[r].open # {},
                        plans[p].contract # plans[runs[r].plan].contract
                 PROVE  \E s \in DOMAIN plans' : plans'[s].cover.run = r /\ runs[r].open = plans'[s].cover.pending
      <4>1. \A r \in Runs : plans'[runs[r].plan].contract = plans[runs[r].plan].contract
        BY <2>1 DEF RunInv
      <4> QED
        BY <2>1, <2>2, <4>1 DEF QuestionsCovered
    <3>1. CASE HasSuccessor(r)
      BY <2>7, <3>1 DEF HasSuccessor, RunInv
    <3>2. CASE r = b
      BY <1>0, <2>1, <2>4, <3>2
    <3>3. CASE ~HasSuccessor(r) /\ r # b
      BY <2>2, <3>3 DEF Unanswered
    <3> QED
      BY <3>1, <3>2, <3>3
  <2>9. Successions'
    <3>1. \A r \in Runs : plans'[runs[r].plan].base = plans[runs[r].plan].base
      BY <2>1 DEF RunInv
    <3> QED
      BY <2>1, <3>1 DEF RunInv, Successions
  <2>10. ExecutionIsApproved'
    BY <2>1, <2>2 DEF ExecutionIsApproved
  <2>11. \A r \in Runs : runs[r].plan \in DOMAIN plans' /\ runs[r].plan <= goal'.contract
    BY <1>0, <2>1 DEF RunInv
  <2> QED
    BY <2>1, <2>6, <2>7, <2>8, <2>9, <2>10, <2>11 DEF RunInv
<1>7. ASSUME NEW p \in DOMAIN plans, NEW b \in {0} \cup Runs, StartRun(p, b) PROVE RunInv'
  <2>0. PICK n : n = Len(runs) + 1
    OBVIOUS
  <2>1. /\ Runs' = Runs \cup {n} /\ n \notin Runs /\ Len(runs') = n /\ n \in Nat
        /\ \A s \in Runs : runs'[s] = runs[s] /\ s < n
        /\ runs'[n].plan = p /\ runs'[n].pred = b /\ runs'[n].open = {}
        /\ runs'[n].status \in {"pending", "running"}
        /\ UNCHANGED <<goal, confirmed, plans>>
    <3>1. /\ DOMAIN runs' = 1..n /\ Len(runs') = n /\ \A s \in Runs : runs'[s] = runs[s]
          /\ runs'[n].plan = p /\ runs'[n].pred = b /\ runs'[n].open = {}
          /\ runs'[n].status \in {"pending", "running"}
          /\ UNCHANGED <<goal, confirmed, plans>>
      BY <1>7, <2>0, StartStep
    <3>2. 1..n = Runs \cup {n} /\ n \notin Runs /\ n \in Nat /\ \A s \in Runs : s < n
      BY <1>0, <2>0
    <3> QED
      BY <3>1, <3>2 DEF Runs
  <2>2. /\ Len(runs) < MaxRuns /\ goal.contract \in confirmed /\ goal.contract = plans[p].contract
        /\ \A r \in Runs : runs[r].plan # p
        /\ b # 0 => /\ SuccessorSource(p, b)
                    /\ IF plans[p].cover = NoCover THEN runs[b].open = {} ELSE plans[p].cover = Cover(b)
    BY <1>7 DEF StartRun, MaySucceed
  <2>3. MaxRuns \in Nat
    BY PlanningAssumption
  <2>4. p = plans[p].contract /\ p <= goal.contract /\ b \in 0..(n - 1)
    BY <1>0, <2>0, <2>1, <2>2 DEF PlanInv
  <2>5. n <= MaxRuns
    BY <1>0, <2>0, <2>2, <2>3
  <2>6. ~HasSuccessor(n)'
    <3>1. \A s \in Runs : runs[s].pred # n
      <4>1. \A s \in Runs : s \in Nat /\ s < n /\ runs[s].pred \in 0..(s - 1)
        BY <1>0, <2>1 DEF RunInv
      <4> QED
        BY <2>1, <4>1
    <3>2. b # n
      BY <1>0, <2>4
    <3> QED
      BY <2>1, <3>1, <3>2 DEF HasSuccessor
  <2>7. \A r \in Runs : runs[r].status \notin {"pending", "running"}
    <3>1. \A r \in Runs : runs[r].status \in {"pending", "running"} => runs[r].plan = p
      BY <2>2 DEF RunInv, ExecutionIsApproved, Current, Aligned, PlanInv
    <3> QED
      BY <2>2, <3>1
  <2>8. ExecutionIsApproved'
    <3>1. \A r \in Runs' : runs'[r].status \in {"pending", "running"} => r = n
      BY <2>1, <2>7
    <3>2. Current(n)'
      BY <2>1, <2>2, <2>6 DEF Current, Aligned
    <3> QED
      BY <3>1, <3>2 DEF ExecutionIsApproved
  <2>9. b # 0 => /\ b \in Runs /\ runs[b].plan = plans[p].base /\ runs[b].status = "paused" /\ ~HasSuccessor(b)
                 /\ runs[b].open # {} => plans[p].cover.run = b /\ runs[b].open = plans[p].cover.pending
    BY <2>2 DEF SuccessorSource, Cover
  <2>10. Successions'
    <3> SUFFICES ASSUME NEW r \in Runs', runs'[r].pred # 0
                 PROVE  /\ runs'[runs'[r].pred].plan = plans[runs'[r].plan].base
                        /\ runs'[runs'[r].pred].status \in {"paused", "cancelled"}
                        /\ \A s \in Runs' : runs'[s].pred = runs'[r].pred => s = r
      BY <2>1 DEF Successions
    <3>1. CASE r = n
      BY <2>1, <2>9, <3>1 DEF HasSuccessor
    <3>2. CASE r \in Runs
      <4>1. runs[r].pred \in Runs
        BY <1>0, <2>1, <3>2 DEF RunInv
      <4>2. b # runs[r].pred
        BY <2>1, <2>9, <3>2 DEF HasSuccessor
      <4>3. /\ runs'[r] = runs[r] /\ runs'[runs[r].pred] = runs[runs[r].pred]
            /\ \A s \in Runs : runs'[s].pred = runs[s].pred
        BY <2>1, <3>2, <4>1
      <4>4. /\ runs[runs[r].pred].plan = plans[runs[r].plan].base
            /\ runs[runs[r].pred].status \in {"paused", "cancelled"}
            /\ \A s \in Runs : runs[s].pred = runs[r].pred => s = r
        BY <3>2, <4>3 DEF RunInv, Successions
      <4> QED
        BY <2>1, <4>2, <4>3, <4>4
    <3> QED
      BY <2>1, <3>1, <3>2
  <2>11. QuestionsCovered'
    BY <2>1 DEF RunInv, QuestionsCovered
  <2>12. \A r \in Runs' : /\ runs'[r].plan \in DOMAIN plans /\ runs'[r].plan <= goal.contract
                          /\ runs'[r].pred \in 0..(r - 1)
    BY <2>1, <2>4 DEF RunInv
  <2>13. \A s \in DOMAIN plans : plans[s].cover.run # 0 =>
            plans[s].cover.run \in Runs' /\ runs'[plans[s].cover.run].plan < s
    BY <2>1 DEF RunInv
  <2>14. \A r, s \in Runs' : runs'[s].pred = r /\ runs'[r].open # {} =>
            \E t \in DOMAIN plans : plans[t].cover.run = r /\ runs'[r].open = plans[t].cover.pending
    <3> SUFFICES ASSUME NEW r \in Runs', NEW s \in Runs', runs'[s].pred = r, runs'[r].open # {}
                 PROVE  \E t \in DOMAIN plans : plans[t].cover.run = r /\ runs'[r].open = plans[t].cover.pending
      OBVIOUS
    <3>1. r \in Runs /\ runs'[r] = runs[r] /\ r # 0
      BY <1>0, <2>1
    <3>2. CASE s = n
      BY <2>1, <2>9, <3>1, <3>2
    <3>3. CASE s \in Runs
      BY <2>1, <3>1, <3>3 DEF RunInv
    <3> QED
      BY <2>1, <3>2, <3>3
  <2> QED
    BY <2>1, <2>5, <2>8, <2>10, <2>11, <2>12, <2>13, <2>14 DEF RunInv
<1>8. ASSUME NEW r \in Runs, Execute(r) PROVE RunInv'
  <2>1. /\ UNCHANGED <<confirmed, plans>> /\ goal'.contract = goal.contract
        /\ Runs' = Runs /\ Len(runs') = Len(runs)
        /\ \A s \in Runs : s # r => runs'[s] = runs[s]
        /\ \A s \in Runs : runs'[s].plan = runs[s].plan /\ runs'[s].pred = runs[s].pred
        /\ runs'[r].status \in {"pending", "running"} => runs[r].status \in {"pending", "running"} \/ Current(r)
        /\ runs'[r].status = "paused" => runs[r].status = "paused" \/ (runs[r].status = "running" /\ runs'[r].open = runs[r].open)
        /\ \/ runs'[r].open = runs[r].open
           \/ runs[r].status = "running" /\ runs'[r].status = "running"
           \/ goal.contract = plans[runs[r].plan].contract
        /\ runs[r].status \in {"paused", "cancelled"} => runs'[r].status \in {"paused", "cancelled"} \/ Current(r)
    BY <1>8, ExecuteStep DEF Runs, TypeInv
  <2>2. \A s \in Runs : HasSuccessor(s)' = HasSuccessor(s)
    BY <2>1 DEF HasSuccessor
  <2>3. \A s \in Runs : Current(s)' = Current(s)
    BY <2>1, <2>2 DEF Current, Aligned
  <2>4. ExecutionIsApproved'
    BY <2>1, <2>3 DEF RunInv, ExecutionIsApproved
  <2>5. HasSuccessor(r) => /\ ~Current(r) /\ goal.contract # plans[runs[r].plan].contract
                           /\ runs'[r].open = runs[r].open
    <3>1. HasSuccessor(r) => ~Current(r) /\ goal.contract # plans[runs[r].plan].contract
      BY SucceededIsBehind
    <3> QED
      BY <2>1, <3>1 DEF RunInv, ExecutionIsApproved
  <2>6. Successions'
    <3> SUFFICES ASSUME NEW s \in Runs, runs[s].pred # 0
                 PROVE  /\ runs'[runs[s].pred].plan = plans[runs[s].plan].base
                        /\ runs'[runs[s].pred].status \in {"paused", "cancelled"}
                        /\ \A t \in Runs : runs[t].pred = runs[s].pred => t = s
      BY <2>1 DEF Successions
    <3>1. runs[s].pred \in Runs
      BY <1>0 DEF RunInv
    <3>2. HasSuccessor(runs[s].pred)
      BY DEF HasSuccessor
    <3> QED
      BY <2>1, <2>5, <3>1, <3>2 DEF RunInv, Successions
  <2>7. QuestionsCovered'
    <3> SUFFICES ASSUME NEW s \in Runs, runs'[s].status = "paused", runs'[s].open # {},
                        goal.contract # plans[runs[s].plan].contract
                 PROVE  \E p \in DOMAIN plans : plans[p].cover.run = s /\ runs'[s].open = plans[p].cover.pending
      BY <2>1 DEF QuestionsCovered
    <3>1. CASE s # r
      BY <2>1, <3>1 DEF RunInv, QuestionsCovered
    <3>2. CASE s = r
      <4>1. runs'[r].open = runs[r].open
        BY <2>1, <3>2
      <4>2. runs[r].status # "running"
        BY <3>2 DEF RunInv, ExecutionIsApproved, Current, Aligned
      <4> QED
        BY <2>1, <3>2, <4>1, <4>2 DEF RunInv, QuestionsCovered
    <3> QED
      BY <3>1, <3>2
  <2>8. \A s, t \in Runs : runs[t].pred = s /\ runs'[s].open # {} =>
            \E p \in DOMAIN plans : plans[p].cover.run = s /\ runs'[s].open = plans[p].cover.pending
    <3> SUFFICES ASSUME NEW s \in Runs, NEW t \in Runs, runs[t].pred = s, runs'[s].open # {}
                 PROVE  \E p \in DOMAIN plans : plans[p].cover.run = s /\ runs'[s].open = plans[p].cover.pending
      OBVIOUS
    <3>1. HasSuccessor(s)
      BY DEF HasSuccessor
    <3>2. runs'[s].open = runs[s].open
      BY <2>1, <2>5, <3>1
    <3> QED
      BY <3>2 DEF RunInv
  <2>9. \A p \in DOMAIN plans : plans[p].cover.run # 0 =>
            plans[p].cover.run \in Runs /\ runs'[plans[p].cover.run].plan < p
    BY <2>1 DEF RunInv
  <2>10. \A s \in Runs : /\ runs'[s].plan \in DOMAIN plans /\ runs'[s].plan <= goal.contract
                         /\ runs'[s].pred \in 0..(s - 1)
    BY <2>1 DEF RunInv
  <2>11. \A s, t \in Runs : runs'[t].pred = s => runs[t].pred = s
    BY <2>1
  <2>12. Len(runs') <= MaxRuns
    BY <2>1 DEF RunInv
  <2> QED
    BY <2>1, <2>4, <2>6, <2>7, <2>8, <2>9, <2>10, <2>11, <2>12 DEF RunInv
<1>9. CASE Crash \/ UNCHANGED vars
  BY <1>1, <1>9 DEF Crash, vars
<1> QED
  BY <1>2, <1>3, <1>4, <1>5, <1>6, <1>7, <1>8, <1>9 DEF Next, Serve, Command, Quiet, Drafts, Closes

-----------------------------------------------------------------------------
(* The theorems.                                                             *)

LEMMA HistoryKept == Spec => []HistoryInv
<1>1. Init => HistoryInv
  <2> SUFFICES ASSUME Init PROVE HistoryInv
    OBVIOUS
  <2>1. /\ goal = [contract |-> 0, satisfied |-> FALSE] /\ confirmed = {} /\ plans = <<>> /\ runs = <<>> /\ turns = <<>>
        /\ calls = [q \in Requests |-> Idle] /\ receipts = {}
    BY DEF Init
  <2>2. DOMAIN plans = {} /\ DOMAIN runs = {} /\ DOMAIN turns = {} /\ Len(plans) = 0 /\ Len(runs) = 0
    BY <2>1
  <2>3. TypeInv
    BY <2>1 DEF TypeInv
  <2>4. CallInv
    BY <2>1 DEF CallInv, Idle
  <2>5. KeyInv /\ TalkInv /\ PlanInv
    BY <2>1, <2>2 DEF KeyInv, AskedOnce, TalkInv, PlanInv
  <2>6. MaxRuns \in Nat
    BY PlanningAssumption
  <2>7. RunInv
    BY <2>2, <2>6 DEF RunInv, Successions, QuestionsCovered, ExecutionIsApproved, Runs
  <2> QED
    BY <2>3, <2>4, <2>5, <2>7 DEF HistoryInv
<1>2. HistoryInv /\ [Next]_vars => HistoryInv'
  <2> SUFFICES ASSUME HistoryInv, [Next]_vars PROVE HistoryInv'
    OBVIOUS
  <2>1. TypeInv' /\ CallInv' /\ KeyInv' /\ TalkInv' /\ PlanInv' /\ goal'.contract >= goal.contract
    BY TypeStep, CallStep, KeyStep, TalkStep, PlanStep DEF HistoryInv
  <2>2. RunInv'
    BY <2>1, RunStep DEF HistoryInv
  <2> QED
    BY <2>1, <2>2 DEF HistoryInv
<1> QED
  BY <1>1, <1>2, PTL DEF Spec

\* Whatever is approved, replanned or answered while models work, a Run that is pending or
\* running has no successor, and its contract is the one the Goal uses, which the user has confirmed.
THEOREM ApprovedWork == Spec => []ExecutionIsApproved
<1>1. HistoryInv => ExecutionIsApproved
  BY DEF HistoryInv, RunInv
<1> QED
  BY <1>1, HistoryKept, PTL

\* one open turn and one source Run make a conversation
LEMMA OneTalk ==
    ASSUME TalkInv, NEW v
    PROVE  Conversation(v)
<1> DEFINE S == {t \in TurnsOf(v) : turns[t].status = "running"}
           R == {turns[t].source : t \in TurnsOf(v)} \ {0}
<1>1. \A S0 : (\A a, b \in S0 : a = b) => Cardinality(S0) <= 1
  <2> SUFFICES ASSUME NEW S0, \A a, b \in S0 : a = b PROVE Cardinality(S0) <= 1
    OBVIOUS
  <2>1. CASE S0 = {}
    BY <2>1, FS_EmptySet
  <2>2. CASE S0 # {}
    <3>1. PICK a : a \in S0
      BY <2>2
    <3>2. S0 = {a}
      BY <3>1
    <3>3. Cardinality(S0) = 1
      BY <3>2, FS_Singleton, Zenon
    <3> QED
      BY <3>3
  <2> QED
    BY <2>1, <2>2
<1>2. \A a, b \in S : a = b
  BY DEF TalkInv, TurnsOf
<1>3. \A a, b \in R : a = b
  BY DEF TalkInv, TurnsOf
<1>4. Cardinality(S) <= 1 /\ Cardinality(R) <= 1
  BY <1>1, <1>2, <1>3
<1> QED
  BY <1>4 DEF Conversation

\* The revisions of a Goal form one chain with a contract each, whichever drafts race; a question
\* of a Run that was left behind is covered by an approval; a Run has one successor at most, and
\* never goes on after it; a key asks the model once and produces one revision.
THEOREM PlanningIsOneHistory == Spec => []OneHistory
<1>1. HistoryInv => OneHistory
  <2> SUFFICES ASSUME HistoryInv PROVE OneHistory
    OBVIOUS
  <2>0. TypeInv /\ KeyInv /\ TalkInv /\ PlanInv /\ RunInv
    BY DEF HistoryInv
  <2>1. /\ goal \in [contract : Nat, satisfied : BOOLEAN] /\ DOMAIN plans = 1..Len(plans) /\ Len(plans) \in Nat
        /\ \A p \in DOMAIN plans : plans[p] \in PlanType
        /\ Runs = 1..Len(runs) /\ Len(runs) \in Nat
    BY <2>0, Entries DEF TypeInv, Runs
  <2>2. Goal(goal)
    <3>1. goal.contract \in {0} \cup DOMAIN plans
      BY <2>0, <2>1 DEF PlanInv
    <3>2. goal.contract \in {0} \cup {plans[p].contract : p \in DOMAIN plans}
      BY <2>0, <3>1 DEF PlanInv
    <3> QED
      BY <2>0, <2>1, <3>2 DEF Goal, PlanInv
  <2>3. \A v \in confirmed : CompletionContract(v)
    BY <2>0 DEF PlanInv, CompletionContract
  <2>4. \A p \in DOMAIN plans : PlanRevision(p)
    BY <2>0, <2>1 DEF PlanInv, PlanRevision, PlanType
  <2>5. \A v \in Conversations : Conversation(v)
    BY <2>0, OneTalk
  <2>6. \A r \in Runs : runs[r].plan \in DOMAIN plans /\ runs[r].pred \in 0..MaxRuns
    <3>1. MaxRuns \in Nat
      BY PlanningAssumption
    <3> QED
      BY <2>0, <2>1, <3>1 DEF RunInv
  <2>7. TypeOK
    BY <2>0, <2>2, <2>3, <2>4, <2>5, <2>6 DEF TypeOK, TypeInv
  <2>8. OneChain
    BY <2>0, <2>7 DEF OneChain, PlanInv
  <2> QED
    BY <2>0, <2>8 DEF OneHistory, RunInv, KeyInv
<1> QED
  BY <1>1, HistoryKept, PTL

=============================================================================
