---------------------------- MODULE Control_proofs ----------------------------
(***************************************************************************)
(* Theorem about ProcessControl as MCControl instantiates it, for any      *)
(* number of nodes, hosts, Attempts, drafts, reviews and crashes.          *)
(*                                                                         *)
(* ControlInv is what the steps rest on: the documents refer to ones that  *)
(* exist (Referred), no two Attempts that run or wait for a person are of  *)
(* one node (Apart), and a coordinator that began an adjustment has        *)
(* recorded it for an eligible cause (Begun).  A step is then classified   *)
(* by what it may do to each group of documents: DraftsGrow and            *)
(* ReviewsGrow say that what a revision refers to is never taken back.     *)
(***************************************************************************)
EXTENDS MCControl, FiniteSetTheorems, TLAPS

CoordFields == {"pc", "pending", "cursor", "dropped", "trigger", "parent", "draft", "review"}
Kinds == {"started", "resumed", "adjusted", "auto", "operator", "hold", "done"}
PlanType == [rev : Nat, node : [Steps -> Process!Node]]
AttemptType == [node : Steps, since : Nat, rev : Nat, status : {"running", "succeeded", "interrupted", "failed"}]
Owners == Servers \cup {"nobody"}
DraftType == [base : PlanType, trigger : Nat, replaces : SUBSET Steps, status : {"planning", "ready", "failed"}, by : Owners]
ReviewType == [draft : Nat, preserves : BOOLEAN, status : {"reviewing", "completed", "failed"}, by : Owners]
RevisionType == [draft : Nat, review : Nat, over : PlanType, after : Nat, trigger : Nat]
FactType == [kind : {"started", "finished", "skipped"}, trigger : Nat]

\* what a coordinator that began an adjustment relies on
Begun(c) ==
    c.pc \notin {"idle", "spawned"} =>
        /\ c.trigger \in DOMAIN controls /\ Process!Eligible(c.trigger)
        /\ Process!Has({"started"}, c.trigger)

Shapes ==
    /\ pRun \in Process!Run /\ controls \in Seq(Kinds) /\ pPlan \in PlanType
    /\ attempts \in Seq(AttemptType) /\ asks \subseteq Nat
    /\ drafts \in Seq(DraftType) /\ reviews \in Seq(ReviewType) /\ revisions \in Seq(RevisionType)
    /\ facts \in Seq(FactType)
    /\ DOMAIN hosts = Servers /\ \A h \in Servers : DOMAIN hosts[h] = CoordFields /\ hosts[h].trigger \in Nat /\ hosts[h].draft \in Nat /\ hosts[h].review \in Nat
\* Attempts that run, and those a person is asked about
Held == {a \in DOMAIN attempts : attempts[a].status = "running"} \cup asks
\* no two of them are of one node
Apart == \A a, b \in Held : attempts[a].node = attempts[b].node => a = b
Referred ==
    /\ \A r \in DOMAIN reviews : reviews[r].draft \in DOMAIN drafts
    /\ \A i \in DOMAIN revisions : /\ revisions[i].draft \in DOMAIN drafts /\ revisions[i].review \in DOMAIN reviews
                                  /\ revisions[i].trigger \in 0..Process!Latest
    /\ Process!Latest \in DOMAIN controls /\ \A i \in DOMAIN controls : controls[i] = "adjusted" => i > 1
ControlInv ==
    /\ Shapes /\ Referred /\ Apart
    /\ \A h \in Servers : Begun(hosts[h])
    /\ Process!ControlHolds
----------------------------------------------------------------------------

\* what a step does to the drafts, the reviews and the plan
DraftsGrow ==
    /\ drafts' \in Seq(DraftType) /\ Len(drafts) <= Len(drafts')
    /\ \A d \in DOMAIN drafts :
        /\ drafts'[d].base = drafts[d].base
        /\ drafts[d].status = "ready" => drafts'[d].status = "ready"
    /\ \A d \in DOMAIN drafts' :
        /\ (drafts'[d].status = "ready") = (drafts'[d].replaces # {})
        /\ d \in DOMAIN drafts \/ drafts'[d].base = pPlan
ReviewsGrow ==
    /\ reviews' \in Seq(ReviewType) /\ Len(reviews) <= Len(reviews')
    /\ \A r \in DOMAIN reviews :
        /\ reviews'[r].draft = reviews[r].draft
        /\ reviews[r].preserves => reviews'[r].preserves
    /\ \A r \in DOMAIN reviews' :
        /\ reviews'[r].preserves => reviews'[r].status = "completed"
        /\ \/ r \in DOMAIN reviews
           \/ reviews'[r].draft \in DOMAIN drafts /\ drafts[reviews'[r].draft].status = "ready"

LEMMA Indices == ASSUME NEW S, NEW q \in Seq(S)
    PROVE DOMAIN q = 1..Len(q) /\ Len(q) \in Nat /\ \A i \in 1..Len(q) : q[i] \in S
  OBVIOUS

LEMMA Appended == ASSUME NEW S, NEW q \in Seq(S), NEW e \in S
    PROVE /\ Append(q, e) \in Seq(S) /\ Len(Append(q, e)) = Len(q) + 1
          /\ DOMAIN Append(q, e) = 1..Len(q) + 1 /\ Append(q, e)[Len(q) + 1] = e
          /\ \A i \in 1..Len(q) : Append(q, e)[i] = q[i]
  OBVIOUS

LEMMA SeqOf == ASSUME NEW S, NEW n \in Nat, NEW q, q = [i \in 1..n |-> q[i]], \A i \in 1..n : q[i] \in S
    PROVE q \in Seq(S) /\ Len(q) = n /\ DOMAIN q = 1..n
  OBVIOUS

LEMMA DraftsKnown == ASSUME ControlInv
    PROVE /\ drafts \in Seq(DraftType) /\ DOMAIN drafts = 1..Len(drafts) /\ Len(drafts) \in Nat
          /\ \A x \in DOMAIN drafts : drafts[x] \in DraftType /\ (drafts[x].status = "ready") = (drafts[x].replaces # {})
  <1>1. drafts \in Seq(DraftType)
    BY DEF ControlInv, Shapes
  <1>2. \A x \in DOMAIN drafts : (drafts[x].status = "ready") = (drafts[x].replaces # {})
    BY DEF ControlInv, Process!ControlHolds, Process!AppliedIsReviewed, Process!TypeOK, Process!IsDraft
  <1> QED
    BY <1>1, <1>2, Indices
LEMMA DraftsChange == ASSUME ControlInv, DOMAIN drafts' = DOMAIN drafts, drafts' = [x \in DOMAIN drafts |-> drafts'[x]],
        \A x \in DOMAIN drafts : /\ drafts'[x] \in DraftType /\ (drafts'[x].status = "ready") = (drafts'[x].replaces # {})
                                 /\ drafts'[x].base = drafts[x].base /\ (drafts[x].status = "ready" => drafts'[x].status = "ready")
    PROVE DraftsGrow
  <1>1. drafts' \in Seq(DraftType) /\ Len(drafts') = Len(drafts)
    BY DraftsKnown, SeqOf
  <1> QED
    BY <1>1, DraftsKnown DEF DraftsGrow
LEMMA DraftsAsTheyAre == ASSUME ControlInv, UNCHANGED drafts PROVE DraftsGrow
  BY DraftsKnown, DraftsChange
LEMMA NewDraftGrows == ASSUME ControlInv, NEW h \in Servers, NEW t \in Nat, Process!NewDraft(h, t) PROVE DraftsGrow
  <1> DEFINE e == [base |-> pPlan, trigger |-> t, replaces |-> {}, status |-> "planning", by |-> h]
  <1>1. e \in DraftType
    BY DEF DraftType, ControlInv, Shapes, Owners
  <1>2. drafts \in Seq(DraftType) /\ drafts' = Append(drafts, e)
    BY DEF ControlInv, Shapes, Process!NewDraft
  <1>3. \A d \in DOMAIN drafts : (drafts[d].status = "ready") = (drafts[d].replaces # {})
    BY DEF ControlInv, Process!ControlHolds, Process!AppliedIsReviewed, Process!TypeOK, Process!IsDraft
  <1>4. e.base = pPlan /\ e.status = "planning" /\ e.replaces = {}
    OBVIOUS
  <1> HIDE DEF e
  <1>5. DOMAIN drafts = 1..Len(drafts) /\ Len(drafts) \in Nat
    BY <1>2, Indices
  <1> QED
    BY <1>1, <1>2, <1>3, <1>4, <1>5, Appended DEF DraftsGrow
LEMMA EndDraftGrows == ASSUME ControlInv, NEW d \in DOMAIN drafts, Process!EndDraft(d) PROVE DraftsGrow
  <1>1. drafts[d].status = "planning"
    BY DEF Process!EndDraft
  <1>2. ASSUME NEW S \in (SUBSET Steps) \ {{}}, drafts' = [drafts EXCEPT ![d].status = "ready", ![d].replaces = S]
        PROVE  DraftsGrow
    <2>1. ASSUME NEW x \in DOMAIN drafts
          PROVE  drafts'[x] \in DraftType /\ (drafts'[x].status = "ready") = (drafts'[x].replaces # {}) /\ drafts'[x].base = drafts[x].base /\ (drafts[x].status = "ready" => drafts'[x].status = "ready")
      BY <1>1, <1>2, DraftsKnown DEF DraftType
    <2>2. DOMAIN drafts' = DOMAIN drafts /\ drafts' = [x \in DOMAIN drafts |-> drafts'[x]]
      BY <1>2, DraftsKnown
    <2> QED
      BY <2>1, <2>2, DraftsChange
  <1>3. ASSUME drafts' = [drafts EXCEPT ![d].status = "failed"]
        PROVE  DraftsGrow
    <2>1. ASSUME NEW x \in DOMAIN drafts
          PROVE  drafts'[x] \in DraftType /\ (drafts'[x].status = "ready") = (drafts'[x].replaces # {}) /\ drafts'[x].base = drafts[x].base /\ (drafts[x].status = "ready" => drafts'[x].status = "ready")
      BY <1>1, <1>3, DraftsKnown DEF DraftType
    <2>2. DOMAIN drafts' = DOMAIN drafts /\ drafts' = [x \in DOMAIN drafts |-> drafts'[x]]
      BY <1>3, DraftsKnown
    <2> QED
      BY <2>1, <2>2, DraftsChange
  <1> QED
    BY <1>2, <1>3 DEF Process!EndDraft
\* a cancellation or a crash of h ends what a model of h works on
LEMMA CancelDrafts == ASSUME ControlInv, NEW h \in Servers, Process!CancelAdjustment(h) PROVE DraftsGrow
  <1>1. drafts' = [d \in DOMAIN drafts |->
           IF hosts[h].pc = "proposing" /\ d = hosts[h].draft /\ drafts[d].status = "planning"
           THEN [drafts[d] EXCEPT !.status = "failed"] ELSE drafts[d]]
    BY DEF Process!CancelAdjustment
  <1>2. ASSUME NEW x \in DOMAIN drafts
        PROVE  drafts'[x] \in DraftType /\ (drafts'[x].status = "ready") = (drafts'[x].replaces # {}) /\ drafts'[x].base = drafts[x].base /\ (drafts[x].status = "ready" => drafts'[x].status = "ready")
    BY <1>1, DraftsKnown DEF DraftType
  <1>3. DOMAIN drafts' = DOMAIN drafts /\ drafts' = [x \in DOMAIN drafts |-> drafts'[x]]
    BY <1>1
  <1> QED
    BY <1>2, <1>3, DraftsChange
LEMMA CrashDrafts == ASSUME ControlInv, NEW h \in Servers, Process!Crash(h) PROVE DraftsGrow
  <1>1. drafts' = [d \in DOMAIN drafts |-> IF drafts[d].by = h THEN [drafts[d] EXCEPT !.by = "nobody"] ELSE drafts[d]]
    BY DEF Process!Crash
  <1>2. ASSUME NEW x \in DOMAIN drafts
        PROVE  drafts'[x] \in DraftType /\ (drafts'[x].status = "ready") = (drafts'[x].replaces # {}) /\ drafts'[x].base = drafts[x].base /\ (drafts[x].status = "ready" => drafts'[x].status = "ready")
    BY <1>1, DraftsKnown DEF DraftType, Owners
  <1>3. DOMAIN drafts' = DOMAIN drafts /\ drafts' = [x \in DOMAIN drafts |-> drafts'[x]]
    BY <1>1
  <1> QED
    BY <1>2, <1>3, DraftsChange

LEMMA ReviewsKnown == ASSUME ControlInv
    PROVE /\ reviews \in Seq(ReviewType) /\ DOMAIN reviews = 1..Len(reviews) /\ Len(reviews) \in Nat
          /\ \A x \in DOMAIN reviews : reviews[x] \in ReviewType /\ (reviews[x].preserves => reviews[x].status = "completed")
  <1>1. reviews \in Seq(ReviewType)
    BY DEF ControlInv, Shapes
  <1>2. \A x \in DOMAIN reviews : (reviews[x].preserves => reviews[x].status = "completed")
    BY DEF ControlInv, Process!ControlHolds, Process!AppliedIsReviewed, Process!TypeOK, Process!IsReview
  <1> QED
    BY <1>1, <1>2, Indices
LEMMA ReviewsChange == ASSUME ControlInv, DOMAIN reviews' = DOMAIN reviews, reviews' = [x \in DOMAIN reviews |-> reviews'[x]],
        \A x \in DOMAIN reviews : /\ reviews'[x] \in ReviewType /\ (reviews'[x].preserves => reviews'[x].status = "completed")
                                  /\ reviews'[x].draft = reviews[x].draft /\ (reviews[x].preserves => reviews'[x].preserves)
    PROVE ReviewsGrow
  <1>1. reviews' \in Seq(ReviewType) /\ Len(reviews') = Len(reviews)
    BY ReviewsKnown, SeqOf
  <1> QED
    BY <1>1, ReviewsKnown DEF ReviewsGrow
LEMMA ReviewsAsTheyAre == ASSUME ControlInv, UNCHANGED reviews PROVE ReviewsGrow
  BY ReviewsKnown, ReviewsChange
LEMMA NewReviewGrows == ASSUME ControlInv, NEW h \in Servers, NEW d \in DOMAIN drafts, Process!NewReview(h, d) PROVE ReviewsGrow
  <1> DEFINE e == [draft |-> d, preserves |-> FALSE, status |-> "reviewing", by |-> h]
  <1>1. e \in ReviewType
    BY Indices DEF ReviewType, ControlInv, Shapes, Owners
  <1>2. reviews \in Seq(ReviewType) /\ reviews' = Append(reviews, e)
    BY DEF ControlInv, Shapes, Process!NewReview
  <1>3. \A r \in DOMAIN reviews : reviews[r].preserves => reviews[r].status = "completed"
    BY DEF ControlInv, Process!ControlHolds, Process!AppliedIsReviewed, Process!TypeOK, Process!IsReview
  <1>4. e.draft = d /\ e.preserves = FALSE /\ drafts[d].status = "ready"
    BY DEF Process!NewReview, Process!InContext
  <1> HIDE DEF e
  <1>5. DOMAIN reviews = 1..Len(reviews) /\ Len(reviews) \in Nat
    BY <1>2, Indices
  <1> QED
    BY <1>1, <1>2, <1>3, <1>4, <1>5, Appended DEF ReviewsGrow
LEMMA EndReviewGrows == ASSUME ControlInv, NEW r \in DOMAIN reviews, Process!EndReview(r) PROVE ReviewsGrow
  <1>1. reviews[r].status = "reviewing"
    BY DEF Process!EndReview
  <1>2. ASSUME NEW ok \in BOOLEAN, reviews' = [reviews EXCEPT ![r].status = "completed", ![r].preserves = ok]
        PROVE  ReviewsGrow
    <2>1. ASSUME NEW x \in DOMAIN reviews
          PROVE  reviews'[x] \in ReviewType /\ (reviews'[x].preserves => reviews'[x].status = "completed") /\ reviews'[x].draft = reviews[x].draft /\ (reviews[x].preserves => reviews'[x].preserves)
      BY <1>1, <1>2, ReviewsKnown DEF ReviewType
    <2>2. DOMAIN reviews' = DOMAIN reviews /\ reviews' = [x \in DOMAIN reviews |-> reviews'[x]]
      BY <1>2, ReviewsKnown
    <2> QED
      BY <2>1, <2>2, ReviewsChange
  <1>3. ASSUME reviews' = [reviews EXCEPT ![r].status = "failed"]
        PROVE  ReviewsGrow
    <2>1. ASSUME NEW x \in DOMAIN reviews
          PROVE  reviews'[x] \in ReviewType /\ (reviews'[x].preserves => reviews'[x].status = "completed") /\ reviews'[x].draft = reviews[x].draft /\ (reviews[x].preserves => reviews'[x].preserves)
      BY <1>1, <1>3, ReviewsKnown DEF ReviewType
    <2>2. DOMAIN reviews' = DOMAIN reviews /\ reviews' = [x \in DOMAIN reviews |-> reviews'[x]]
      BY <1>3, ReviewsKnown
    <2> QED
      BY <2>1, <2>2, ReviewsChange
  <1> QED
    BY <1>2, <1>3 DEF Process!EndReview
LEMMA CancelReviews == ASSUME ControlInv, NEW h \in Servers, Process!CancelAdjustment(h) PROVE ReviewsGrow
  <1>1. reviews' = [r \in DOMAIN reviews |->
           IF hosts[h].pc = "reviewing" /\ r = hosts[h].review /\ reviews[r].status = "reviewing"
           THEN [reviews[r] EXCEPT !.status = "failed"] ELSE reviews[r]]
    BY DEF Process!CancelAdjustment
  <1>2. ASSUME NEW x \in DOMAIN reviews
        PROVE  reviews'[x] \in ReviewType /\ (reviews'[x].preserves => reviews'[x].status = "completed") /\ reviews'[x].draft = reviews[x].draft /\ (reviews[x].preserves => reviews'[x].preserves)
    BY <1>1, ReviewsKnown DEF ReviewType
  <1>3. DOMAIN reviews' = DOMAIN reviews /\ reviews' = [x \in DOMAIN reviews |-> reviews'[x]]
    BY <1>1
  <1> QED
    BY <1>2, <1>3, ReviewsChange
LEMMA CrashReviews == ASSUME ControlInv, NEW h \in Servers, Process!Crash(h) PROVE ReviewsGrow
  <1>1. reviews' = [r \in DOMAIN reviews |-> IF reviews[r].by = h THEN [reviews[r] EXCEPT !.by = "nobody"] ELSE reviews[r]]
    BY DEF Process!Crash
  <1>2. ASSUME NEW x \in DOMAIN reviews
        PROVE  reviews'[x] \in ReviewType /\ (reviews'[x].preserves => reviews'[x].status = "completed") /\ reviews'[x].draft = reviews[x].draft /\ (reviews[x].preserves => reviews'[x].preserves)
    BY <1>1, ReviewsKnown DEF ReviewType, Owners
  <1>3. DOMAIN reviews' = DOMAIN reviews /\ reviews' = [x \in DOMAIN reviews |-> reviews'[x]]
    BY <1>1
  <1> QED
    BY <1>2, <1>3, ReviewsChange
----------------------------------------------------------------------------
(* Execution: the Attempts and the pPlan they belong to. *)
Statuses == {"waiting", "running", "verifying", "candidate", "completed", "failed"}
Work ==
    /\ pPlan \in PlanType /\ Process!IsRevision(pPlan)
    /\ attempts \in Seq(AttemptType) /\ asks \subseteq Process!Questions
    /\ Apart /\ Process!WorkBelongs

LEMMA WorkOf == ASSUME ControlInv PROVE Work
  BY DEF ControlInv, Shapes, Process!ControlHolds, Process!AppliedIsReviewed, Process!TypeOK, Work

LEMMA NodeSet == ASSUME pPlan \in PlanType, Process!IsRevision(pPlan), NEW n \in Steps, NEW s \in Statuses, Process!SetNode(n, s)
    PROVE /\ pPlan' \in PlanType /\ Process!IsRevision(pPlan') /\ pPlan'.rev = pPlan.rev
          /\ pPlan'.node[n] = [status |-> s, since |-> pPlan.node[n].since]
          /\ \A k \in Steps \ {n} : pPlan'.node[k] = pPlan.node[k]
  <1>1. pPlan.node \in [Steps -> Process!Node] /\ pPlan.rev \in Nat /\ pPlan.node[n] \in Process!Node
    BY DEF PlanType
  <1>2. pPlan' = [pPlan EXCEPT !.node = [pPlan.node EXCEPT ![n] = [pPlan.node[n] EXCEPT !.status = s]]]
    BY DEF Process!SetNode
  <1>3. [pPlan.node[n] EXCEPT !.status = s] = [status |-> s, since |-> pPlan.node[n].since]
    BY <1>1 DEF Process!Node
  <1>4. [status |-> s, since |-> pPlan.node[n].since] \in Process!Node
    BY <1>1 DEF Process!Node, Statuses
  <1> DEFINE f == [pPlan.node EXCEPT ![n] = [status |-> s, since |-> pPlan.node[n].since]]
  <1>5. f \in [Steps -> Process!Node] /\ f[n] = [status |-> s, since |-> pPlan.node[n].since]
        /\ \A k \in Steps \ {n} : f[k] = pPlan.node[k]
    BY <1>1, <1>4
  <1>6. pPlan'.node = f /\ pPlan'.rev = pPlan.rev /\ pPlan' \in PlanType
    BY <1>1, <1>2, <1>3, <1>5 DEF PlanType
  <1> HIDE DEF f
  <1>7. \A k \in Steps : f[k].since = pPlan.node[k].since
    BY <1>5
  <1> QED
    BY <1>5, <1>6, <1>7 DEF Process!IsRevision

LEMMA AttemptSet == ASSUME attempts \in Seq(AttemptType), NEW a \in DOMAIN attempts,
                           NEW s \in {"succeeded", "interrupted", "failed"}, Process!SetAttempt(a, s)
    PROVE /\ attempts' \in Seq(AttemptType) /\ DOMAIN attempts' = DOMAIN attempts
          /\ attempts'[a].status = s
          /\ \A b \in DOMAIN attempts : /\ attempts'[b].node = attempts[b].node /\ attempts'[b].rev = attempts[b].rev
                                        /\ attempts'[b].since = attempts[b].since
                                        /\ (b # a => attempts'[b].status = attempts[b].status)
  <1>1. attempts[a] \in AttemptType /\ attempts' = [attempts EXCEPT ![a] = [attempts[a] EXCEPT !.status = s]]
    BY DEF Process!SetAttempt
  <1> DEFINE e == [attempts[a] EXCEPT !.status = s]
  <1>2. e \in AttemptType /\ e.status = s /\ e.node = attempts[a].node /\ e.rev = attempts[a].rev /\ e.since = attempts[a].since
    BY <1>1 DEF AttemptType
  <1>3. attempts' = [attempts EXCEPT ![a] = e]
    BY <1>1
  <1> HIDE DEF e
  <1> QED
    BY <1>2, <1>3

LEMMA HeldNodes == ASSUME Work, NEW a \in Held
    PROVE /\ attempts[a].node \in Steps /\ pPlan.node[attempts[a].node] \in Process!Node
          /\ pPlan.node[attempts[a].node].status \in {"running", "verifying"}
          /\ attempts[a].status = "running" \/ pPlan.node[attempts[a].node].status = "verifying"
  <1>1. a \in DOMAIN attempts /\ attempts[a] \in AttemptType
    BY Indices DEF Held, Work, Process!Questions
  <1>2. attempts[a].node \in Steps /\ pPlan.node[attempts[a].node] \in Process!Node
    BY <1>1 DEF AttemptType, Work, PlanType
  <1>3. CASE attempts[a].status = "running"
    <2>1. pPlan.node[attempts[a].node] = [status |-> "running", since |-> attempts[a].since]
      BY <1>1, <1>3 DEF Work, Process!WorkBelongs
    <2> QED
      BY <2>1, <1>2, <1>3
  <1>4. CASE a \in asks
    <2>1. pPlan.node[attempts[a].node] = [status |-> "verifying", since |-> attempts[a].since]
      BY <1>4 DEF Work, Process!WorkBelongs
    <2> QED
      BY <2>1, <1>2
  <1> QED
    BY <1>2, <1>3, <1>4 DEF Held

LEMMA DispatchWorks == ASSUME Work, NEW n \in Steps, Process!Dispatch(n) PROVE Work'
  <1> DEFINE e == [node |-> n, since |-> pPlan.node[n].since, rev |-> pPlan.rev, status |-> "running"]
             i == Len(attempts) + 1
  <1>1. /\ pPlan \in PlanType /\ pPlan.node[n] \in Process!Node /\ pPlan.node[n].status = "waiting" /\ Process!SetNode(n, "running")
        /\ attempts' = Append(attempts, e) /\ asks' = asks /\ e \in AttemptType
    BY DEF Process!Dispatch, Work, PlanType, AttemptType, Process!Node
  <1>2. /\ pPlan' \in PlanType /\ Process!IsRevision(pPlan') /\ pPlan'.rev = pPlan.rev
        /\ pPlan'.node[n] = [status |-> "running", since |-> pPlan.node[n].since]
        /\ \A k \in Steps \ {n} : pPlan'.node[k] = pPlan.node[k]
    BY <1>1, NodeSet DEF Work, Statuses
  <1>3. /\ attempts' \in Seq(AttemptType) /\ DOMAIN attempts = 1..Len(attempts) /\ Len(attempts) \in Nat
        /\ DOMAIN attempts' = 1..i /\ attempts'[i] = e
        /\ \A a \in DOMAIN attempts : attempts'[a] = attempts[a] /\ attempts[a] \in AttemptType
    BY <1>1, Appended, Indices DEF Work
  <1>4. e.node = n /\ e.status = "running" /\ e.rev = pPlan.rev /\ e.since = pPlan.node[n].since
    OBVIOUS
  <1>5. \A a \in Held : a \in DOMAIN attempts /\ attempts[a].node \in Steps \ {n}
    BY <1>1, HeldNodes DEF Held, Work, Process!Questions
  <1> HIDE DEF e
  <1>6. Held' = Held \cup {i} /\ i \notin Held
    BY <1>1, <1>3, <1>4, <1>5 DEF Held
  <1>7. asks' \subseteq Process!Questions'
    BY <1>1, <1>3 DEF Work, Process!Questions
  <1>8. Apart'
    BY <1>3, <1>4, <1>5, <1>6 DEF Apart, Work
  <1>9. ASSUME NEW a \in DOMAIN attempts', attempts'[a].status = "running"
        PROVE  attempts'[a].rev = pPlan'.rev /\ pPlan'.node[attempts'[a].node] = [status |-> "running", since |-> attempts'[a].since]
    <2>1. CASE a = i
      BY <2>1, <1>2, <1>3, <1>4
    <2>2. CASE a # i
      <3>1. a \in DOMAIN attempts /\ attempts'[a] = attempts[a] /\ a \in Held
        BY <2>2, <1>3, <1>9 DEF Held
      <3> QED
        BY <3>1, <1>2, <1>5, <1>9 DEF Work, Process!WorkBelongs
    <2> QED
      BY <2>1, <2>2
  <1>10. ASSUME NEW a \in asks'
         PROVE  pPlan'.node[attempts'[a].node] = [status |-> "verifying", since |-> attempts'[a].since]
    <2>1. a \in asks /\ a \in Held /\ a \in DOMAIN attempts
      BY <1>1, <1>5 DEF Held
    <2> QED
      BY <2>1, <1>2, <1>3, <1>5 DEF Work, Process!WorkBelongs
  <1>11. Process!WorkBelongs'
    BY <1>9, <1>10 DEF Process!WorkBelongs
  <1> QED
    BY <1>2, <1>3, <1>7, <1>8, <1>11 DEF Work

\* the node of an Attempt that runs, or is asked about, changes with it alone
LEMMA OthersWork == ASSUME Work, NEW a \in Held, NEW s \in Statuses, Process!SetNode(attempts[a].node, s)
    PROVE /\ pPlan' \in PlanType /\ Process!IsRevision(pPlan') /\ pPlan'.rev = pPlan.rev
          /\ pPlan'.node[attempts[a].node] = [status |-> s, since |-> pPlan.node[attempts[a].node].since]
          /\ a \in DOMAIN attempts /\ attempts[a].node \in Steps
          /\ \A b \in Held \ {a} : /\ b \in DOMAIN attempts
                                   /\ pPlan'.node[attempts[b].node] = pPlan.node[attempts[b].node]
  <1>1. \A b \in Held : b \in DOMAIN attempts /\ attempts[b] \in AttemptType
    BY Indices DEF Held, Work, Process!Questions
  <1>2. \A b \in Held : attempts[b].node \in Steps
    BY <1>1 DEF AttemptType
  <1>3. \A b \in Held \ {a} : attempts[b].node # attempts[a].node
    BY DEF Work, Apart
  <1> QED
    BY <1>1, <1>2, <1>3, NodeSet DEF Work

LEMMA EndWorks == ASSUME Work, NEW a \in DOMAIN attempts, attempts[a].status = "running", NEW s \in {"succeeded", "interrupted", "failed"},
                        NEW t \in Statuses, Process!SetAttempt(a, s), Process!SetNode(attempts[a].node, t),
                        \/ asks' = asks
                        \/ s = "succeeded" /\ t = "verifying" /\ asks' = asks \cup {a}
    PROVE Work'
  <1>1. a \in Held
    BY DEF Held
  <1>2. /\ pPlan' \in PlanType /\ Process!IsRevision(pPlan') /\ pPlan'.rev = pPlan.rev
        /\ pPlan'.node[attempts[a].node] = [status |-> t, since |-> pPlan.node[attempts[a].node].since]
        /\ \A b \in Held \ {a} : /\ b \in DOMAIN attempts
                                 /\ pPlan'.node[attempts[b].node] = pPlan.node[attempts[b].node]
    BY <1>1, OthersWork
  <1>12. attempts' \in Seq(AttemptType)
    BY AttemptSet DEF Work
  <1>3. /\ DOMAIN attempts' = DOMAIN attempts /\ attempts'[a].status = s
        /\ \A b \in DOMAIN attempts : /\ attempts'[b].node = attempts[b].node /\ attempts'[b].rev = attempts[b].rev
                                      /\ attempts'[b].since = attempts[b].since
                                      /\ (b # a => attempts'[b].status = attempts[b].status)
    BY AttemptSet DEF Work
  <1>4. /\ a \notin asks /\ asks \subseteq Held /\ Held \subseteq DOMAIN attempts
        /\ \A b \in asks : attempts[b].status = "succeeded"
    BY DEF Work, Process!Questions, Held
  <1>11. attempts'[a].status # "running" /\ (asks' # asks => attempts'[a].status = "succeeded") /\ asks' \subseteq asks \cup {a}
    BY <1>3
  <1>5. Held' \subseteq Held
    <2>1. \A b \in DOMAIN attempts' : attempts'[b].status = "running" => b \in DOMAIN attempts /\ attempts[b].status = "running"
      BY <1>3, <1>11
    <2>2. Held' = {b \in DOMAIN attempts' : attempts'[b].status = "running"} \cup asks'
      BY DEF Held
    <2> QED
      BY <2>1, <2>2, <1>1, <1>4, <1>11 DEF Held
  <1>6. Apart'
    <2>1. \A b, c \in Held : attempts[b].node = attempts[c].node => b = c
      BY DEF Work, Apart
    <2>2. \A b \in Held' : b \in Held /\ attempts'[b].node = attempts[b].node
      BY <1>3, <1>4, <1>5
    <2> QED
      BY <2>1, <2>2 DEF Apart
  <1>7. asks' \subseteq Process!Questions'
    <2>1. ASSUME NEW b \in asks'
          PROVE  b \in DOMAIN attempts' /\ attempts'[b].status = "succeeded"
      <3>1. CASE b \in asks
        BY <3>1, <1>3, <1>4
      <3>2. CASE b \notin asks
        BY <2>1, <3>2, <1>3, <1>11
      <3> QED
        BY <3>1, <3>2
    <2> QED
      BY <2>1 DEF Process!Questions
  <1>8. ASSUME NEW b \in DOMAIN attempts', attempts'[b].status = "running"
        PROVE  attempts'[b].rev = pPlan'.rev /\ pPlan'.node[attempts'[b].node] = [status |-> "running", since |-> attempts'[b].since]
    <2>1. b # a /\ b \in DOMAIN attempts
      BY <1>3, <1>8, <1>11
    <2>2. attempts[b].status = "running"
      BY <2>1, <1>3, <1>8
    <2>3. b \in Held \ {a}
      BY <2>1, <2>2 DEF Held
    <2>4. attempts[b].rev = pPlan.rev /\ pPlan.node[attempts[b].node] = [status |-> "running", since |-> attempts[b].since]
      BY <2>1, <2>2 DEF Work, Process!WorkBelongs
    <2> QED
      BY <2>1, <2>3, <2>4, <1>2, <1>3
  <1>9. ASSUME NEW b \in asks'
        PROVE  pPlan'.node[attempts'[b].node] = [status |-> "verifying", since |-> attempts'[b].since]
    <2>1. CASE b \in asks
      <3>1. b \in Held \ {a} /\ b \in DOMAIN attempts
        BY <2>1, <1>4
      <3>2. pPlan.node[attempts[b].node] = [status |-> "verifying", since |-> attempts[b].since]
        BY <2>1 DEF Work, Process!WorkBelongs
      <3> QED
        BY <3>1, <3>2, <1>2, <1>3
    <2>2. CASE b \notin asks
      <3>1. b = a /\ t = "verifying"
        BY <2>2, <1>9
      <3>3. pPlan.node[attempts[a].node] = [status |-> "running", since |-> attempts[a].since]
        BY DEF Work, Process!WorkBelongs
      <3>2. pPlan.node[attempts[a].node].since = attempts[a].since
        BY <3>3
      <3> QED
        BY <3>1, <3>2, <1>2, <1>3
    <2> QED
      BY <2>1, <2>2
  <1>10. Process!WorkBelongs'
    BY <1>8, <1>9 DEF Process!WorkBelongs
  <1> QED
    BY <1>2, <1>6, <1>7, <1>10, <1>12 DEF Work

LEMMA AnswerWorks == ASSUME Work, NEW a \in DOMAIN attempts, Process!Answer(a) PROVE Work'
  <1>1. a \in asks /\ a \in Held /\ Process!SetNode(attempts[a].node, "candidate") /\ asks' = asks \ {a} /\ attempts' = attempts
    BY DEF Process!Answer, Held
  <1>2. /\ pPlan' \in PlanType /\ Process!IsRevision(pPlan') /\ pPlan'.rev = pPlan.rev
        /\ \A b \in Held \ {a} : /\ b \in DOMAIN attempts
                                 /\ pPlan'.node[attempts[b].node] = pPlan.node[attempts[b].node]
    BY <1>1, OthersWork DEF Statuses
  <1>3. attempts[a].status = "succeeded"
    BY <1>1 DEF Work, Process!Questions
  <1>4. Held' = Held \ {a}
    BY <1>1, <1>3 DEF Held
  <1>5. Apart' /\ asks' \subseteq Process!Questions'
    BY <1>1, <1>4 DEF Apart, Work, Process!Questions
  <1>6. \A b \in DOMAIN attempts : attempts[b].status = "running" => b \in Held \ {a}
    BY <1>3 DEF Held
  <1>7. \A b \in asks' : b \in Held \ {a}
    BY <1>1 DEF Held
  <1>8. Process!WorkBelongs'
    BY <1>1, <1>2, <1>6, <1>7 DEF Work, Process!WorkBelongs
  <1> QED
    BY <1>1, <1>2, <1>5, <1>8 DEF Work

\* what is kept for a node that nothing runs for or is asked about may change
LEMMA PlanWorks == ASSUME Work, pPlan' \in PlanType, Process!IsRevision(pPlan'), UNCHANGED <<attempts, asks>>,
        \A a \in Held : pPlan'.node[attempts[a].node] = pPlan.node[attempts[a].node],
        pPlan'.rev = pPlan.rev \/ ~Process!Active
    PROVE Work'
  <1>1. Held' = Held
    BY DEF Held
  <1>2. Apart' /\ asks' \subseteq Process!Questions'
    BY <1>1 DEF Apart, Work, Process!Questions
  <1>3. \A b \in DOMAIN attempts : attempts[b].status = "running" => b \in Held /\ pPlan'.rev = pPlan.rev
    BY DEF Held, Process!Active
  <1>4. \A b \in asks : b \in Held
    BY DEF Held
  <1>5. Process!WorkBelongs'
    BY <1>3, <1>4 DEF Work, Process!WorkBelongs
  <1> QED
    BY <1>2, <1>5 DEF Work

LEMMA SettleWorks == ASSUME Work, NEW n \in Steps, Process!Settle(n) PROVE Work'
  <1>1. PICK s \in Statuses : Process!SetNode(n, s)
    BY DEF Process!Settle, Statuses
  <1>2. pPlan.node[n].status = "candidate" /\ UNCHANGED <<attempts, asks>>
    BY DEF Process!Settle
  <1>3. /\ pPlan' \in PlanType /\ Process!IsRevision(pPlan') /\ pPlan'.rev = pPlan.rev
        /\ \A k \in Steps \ {n} : pPlan'.node[k] = pPlan.node[k]
    BY <1>1, NodeSet DEF Work
  <1>4. \A a \in Held : attempts[a].node \in Steps \ {n}
    BY <1>2, HeldNodes
  <1> QED
    BY <1>2, <1>3, <1>4, PlanWorks

LEMMA ResumeWorks == ASSUME Work, NEW k, Process!ResumeRun(k) PROVE Work' /\ pPlan'.rev = pPlan.rev /\ pPlan' \in PlanType
  <1> DEFINE f == [n \in Steps |->
           IF pPlan.node[n].status = "failed" THEN [pPlan.node[n] EXCEPT !.status = "waiting"] ELSE pPlan.node[n]]
  <1>1. pPlan' = [pPlan EXCEPT !.node = f] /\ UNCHANGED <<attempts, asks>> /\ pPlan \in PlanType
    BY DEF Process!ResumeRun, Work
  <1>2. \A n \in Steps : pPlan.node[n] \in Process!Node
    BY <1>1 DEF PlanType
  <1>3. \A n \in Steps : f[n] \in Process!Node /\ f[n].since = pPlan.node[n].since
    BY <1>2 DEF Process!Node
  <1>4. f \in [Steps -> Process!Node]
    BY <1>3
  <1>5. pPlan' \in PlanType /\ pPlan'.rev = pPlan.rev /\ pPlan'.node = f
    BY <1>1, <1>4 DEF PlanType
  <1>6. Process!IsRevision(pPlan')
    BY <1>3, <1>4, <1>5 DEF Process!IsRevision, Work
  <1>7. \A a \in Held : f[attempts[a].node] = pPlan.node[attempts[a].node]
    BY HeldNodes
  <1> HIDE DEF f
  <1> QED
    BY <1>1, <1>5, <1>6, <1>7, PlanWorks

LEMMA PublishWorks == ASSUME Work, NEW r \in DOMAIN reviews, NEW t, Process!Publish(r, t), drafts[reviews[r].draft].replaces \subseteq Steps
    PROVE Work' /\ pPlan'.rev = pPlan.rev + 1 /\ pPlan' \in PlanType
  <1> DEFINE S == drafts[reviews[r].draft].replaces
  <1>1. /\ pPlan' = [rev |-> pPlan.rev + 1, node |-> Process!Members(S)] /\ UNCHANGED <<attempts, asks>>
        /\ ~Process!Active /\ Process!KeepsWork(S)
    BY DEF Process!Publish, Process!MayApply
  <1>2. pPlan.rev \in Nat /\ \A n \in Steps : pPlan.node[n] \in Process!Node /\ pPlan.node[n].since \in 1..pPlan.rev
    BY DEF Work, PlanType, Process!IsRevision
  <1>3. \A n \in Steps : Process!Members(S)[n] \in Process!Node /\ Process!Members(S)[n].since \in 1..pPlan.rev + 1
    BY <1>2 DEF Process!Members, Process!Node
  <1>4. Process!Members(S) \in [Steps -> Process!Node]
    BY <1>3 DEF Process!Members
  <1>5. pPlan' \in PlanType /\ pPlan'.rev = pPlan.rev + 1 /\ pPlan'.node = Process!Members(S)
    BY <1>1, <1>2, <1>4 DEF PlanType
  <1>6. Process!IsRevision(pPlan')
    BY <1>2, <1>3, <1>4, <1>5 DEF Process!IsRevision
  <1>7. ASSUME NEW a \in Held
        PROVE  Process!Members(S)[attempts[a].node] = pPlan.node[attempts[a].node]
    <2>1. attempts[a].node \in Steps /\ pPlan.node[attempts[a].node].status \in {"running", "verifying"}
      BY HeldNodes
    <2>2. attempts[a].node \notin S
      BY <1>1, <2>1 DEF Process!KeepsWork, Process!InStatus
    <2> QED
      BY <2>1, <2>2 DEF Process!Members
  <1> QED
    BY <1>1, <1>5, <1>6, <1>7, PlanWorks
----------------------------------------------------------------------------
(* The events, and the coordinators that refer to them. *)
ControlsGrow ==
    /\ controls' \in Seq(Kinds) /\ Len(controls) <= Len(controls')
    /\ \A i \in DOMAIN controls : controls'[i] = controls[i]
FactsGrow ==
    /\ facts' \in Seq(FactType) /\ Len(facts) <= Len(facts')
    /\ \A f \in DOMAIN facts : facts'[f] = facts[f]
\* a Run goes on after an adjustment only in answer to the pause that was adjusted
Adjusts ==
    \A i \in DOMAIN controls' : i \in DOMAIN controls \/
        (controls'[i] = "adjusted" => i = Process!Latest + 1 /\ Process!Latest \in DOMAIN controls /\ Process!Eligible(Process!Latest) /\ Process!Has({"started"}, Process!Latest))
RevisionsGrow ==
    \/ revisions' = revisions /\ pPlan'.rev = pPlan.rev
    \/ \E r \in DOMAIN reviews, t \in Nat : Process!Publish(r, t) /\ (t # 0 => t = Process!Latest /\ t \in DOMAIN controls /\ Process!Eligible(t))

LEMMA EventsKnown == ASSUME ControlInv
    PROVE /\ controls \in Seq(Kinds) /\ DOMAIN controls = 1..Len(controls) /\ Len(controls) \in Nat
          /\ facts \in Seq(FactType) /\ DOMAIN facts = 1..Len(facts) /\ Len(facts) \in Nat
          /\ \A f \in DOMAIN facts : facts[f] \in FactType
  <1>1. controls \in Seq(Kinds) /\ facts \in Seq(FactType)
    BY DEF ControlInv, Shapes
  <1> QED
    BY <1>1, Indices

LEMMA ControlAppends == ASSUME ControlInv, NEW k \in Kinds, Process!Control(k)
    PROVE ControlsGrow /\ DOMAIN controls' = 1..Process!Latest + 1 /\ controls'[Process!Latest + 1] = k
  <1>1. controls' = Append(controls, k)
    BY DEF Process!Control
  <1> QED
    BY <1>1, EventsKnown, Appended DEF ControlsGrow, Process!Latest

LEMMA OrdinaryControl == ASSUME ControlInv, NEW k \in Kinds \ {"adjusted"}, Process!Control(k) \/ UNCHANGED controls
    PROVE ControlsGrow /\ Adjusts
  <1>1. CASE UNCHANGED controls
    BY <1>1, EventsKnown DEF ControlsGrow, Adjusts
  <1>2. CASE Process!Control(k)
    <2>1. ControlsGrow /\ DOMAIN controls' = 1..Process!Latest + 1 /\ controls'[Process!Latest + 1] = k
      BY <1>2, ControlAppends
    <2>2. \A i \in DOMAIN controls' : i \in DOMAIN controls \/ i = Process!Latest + 1
      BY <2>1, EventsKnown DEF Process!Latest
    <2> QED
      BY <2>1, <2>2 DEF Adjusts
  <1> QED
    BY <1>1, <1>2

LEMMA FactAppends == ASSUME ControlInv, NEW k \in {"started", "finished", "skipped"}, NEW t \in Nat, Process!Fact(k, t)
    PROVE /\ FactsGrow /\ DOMAIN facts' = 1..Len(facts) + 1
          /\ facts'[Len(facts) + 1].kind = k /\ facts'[Len(facts) + 1].trigger = t
  <1>1. facts' = Append(facts, [kind |-> k, trigger |-> t]) /\ [kind |-> k, trigger |-> t] \in FactType
    BY DEF Process!Fact, FactType
  <1> QED
    BY <1>1, EventsKnown, Appended DEF FactsGrow
LEMMA FactsAsTheyAre == ASSUME ControlInv, UNCHANGED facts PROVE FactsGrow /\ Process!AdjustedOnce'
  <1>1. FactsGrow
    BY EventsKnown DEF FactsGrow
  <1>2. Process!AdjustedOnce
    BY DEF ControlInv, Process!ControlHolds
  <1> QED
    BY <1>1, <1>2 DEF Process!AdjustedOnce, Process!Starts

\* what a coordinator refers to is there
FitsIn(c, cs, ds, rs, fs) ==
    /\ DOMAIN c = CoordFields /\ c.trigger \in Nat /\ c.draft \in Nat /\ c.review \in Nat
    /\ c.cursor \in 0..Len(cs) /\ c.pending \in 0..Len(cs) /\ c.dropped \subseteq 0..Len(cs)
    /\ c.pc \in {"idle", "spawned", "started", "ending"} \/ c.draft \in DOMAIN ds
    /\ c.pc \in {"reviewing", "reviewed", "applied"} => c.review \in DOMAIN rs
    /\ c.pc \notin {"idle", "spawned"} =>
        /\ c.trigger \in DOMAIN cs /\ cs[c.trigger] = "auto"
        /\ \E f \in DOMAIN fs : fs[f].kind = "started" /\ fs[f].trigger = c.trigger
HostsFit == DOMAIN hosts' = Servers /\ \A h \in Servers : FitsIn(hosts'[h], controls', drafts', reviews', facts')
Grow == DraftsGrow /\ ReviewsGrow /\ ControlsGrow /\ FactsGrow

LEMMA FitsNow == ASSUME ControlInv, NEW h \in Servers PROVE FitsIn(hosts[h], controls, drafts, reviews, facts)
  <1>1. Process!Coordinator(hosts[h]) /\ Begun(hosts[h])
    BY DEF ControlInv, Process!ControlHolds, Process!AppliedIsReviewed, Process!TypeOK
  <1>2. DOMAIN hosts[h] = CoordFields /\ hosts[h].trigger \in Nat /\ hosts[h].draft \in Nat /\ hosts[h].review \in Nat
    BY DEF ControlInv, Shapes
  <1> QED
    BY <1>1, <1>2 DEF FitsIn, Process!Coordinator, Begun, Process!Has, Process!Eligible, Process!Latest

LEMMA Wider == ASSUME ControlInv, Grow
    PROVE /\ 0..Len(controls) \subseteq 0..Len(controls') /\ DOMAIN controls \subseteq DOMAIN controls'
          /\ DOMAIN drafts \subseteq DOMAIN drafts' /\ DOMAIN reviews \subseteq DOMAIN reviews' /\ DOMAIN facts \subseteq DOMAIN facts'
          /\ \A i \in DOMAIN controls : controls'[i] = controls[i]
          /\ \A f \in DOMAIN facts : facts'[f] = facts[f]
          /\ Len(controls') \in Nat
  <1>1. DOMAIN drafts \subseteq DOMAIN drafts'
    <2>1. DOMAIN drafts' = 1..Len(drafts') /\ Len(drafts') \in Nat
      BY Indices DEF Grow, DraftsGrow
    <2> QED
      BY <2>1, DraftsKnown DEF Grow, DraftsGrow
  <1>2. DOMAIN reviews \subseteq DOMAIN reviews'
    <2>1. DOMAIN reviews' = 1..Len(reviews') /\ Len(reviews') \in Nat
      BY Indices DEF Grow, ReviewsGrow
    <2> QED
      BY <2>1, ReviewsKnown DEF Grow, ReviewsGrow
  <1>3. DOMAIN facts \subseteq DOMAIN facts' /\ \A f \in DOMAIN facts : facts'[f] = facts[f]
    <2>1. DOMAIN facts' = 1..Len(facts') /\ Len(facts') \in Nat
      BY Indices DEF Grow, FactsGrow
    <2> QED
      BY <2>1, EventsKnown DEF Grow, FactsGrow
  <1>4. DOMAIN controls \subseteq DOMAIN controls' /\ 0..Len(controls) \subseteq 0..Len(controls') /\ Len(controls') \in Nat
    <2>1. DOMAIN controls' = 1..Len(controls') /\ Len(controls') \in Nat
      BY Indices DEF Grow, ControlsGrow
    <2> QED
      BY <2>1, EventsKnown DEF Grow, ControlsGrow
  <1> QED
    BY <1>1, <1>2, <1>3, <1>4 DEF Grow, ControlsGrow

LEMMA FitsStill == ASSUME ControlInv, Grow, NEW h \in Servers PROVE FitsIn(hosts[h], controls', drafts', reviews', facts')
  BY FitsNow, Wider DEF FitsIn
LEMMA HostsAsTheyAre == ASSUME ControlInv, Grow, UNCHANGED hosts PROVE HostsFit
  BY FitsStill DEF HostsFit, ControlInv, Shapes
LEMMA OneHostMoves == ASSUME ControlInv, Grow, NEW h \in Servers, NEW c, hosts' = [hosts EXCEPT ![h] = c],
                             FitsIn(c, controls', drafts', reviews', facts')
    PROVE HostsFit
  <1>1. DOMAIN hosts = Servers
    BY DEF ControlInv, Shapes
  <1>2. DOMAIN hosts' = Servers /\ hosts'[h] = c /\ \A k \in Servers \ {h} : hosts'[k] = hosts[k]
    BY <1>1
  <1> QED
    BY <1>2, FitsStill DEF HostsFit
LEMMA HostGoes == ASSUME ControlInv, Grow, NEW h \in Servers, NEW pc, Process!Goes(h, pc),
                         \/ pc = "idle"
                         \/ /\ hosts[h].pc \notin {"idle", "spawned"}
                            /\ pc = "ending" \/ hosts[h].draft \in DOMAIN drafts
                            /\ pc \in {"ending", "drafted"} \/ hosts[h].review \in DOMAIN reviews
    PROVE HostsFit
  <1> DEFINE c == [hosts[h] EXCEPT !.pc = pc]
  <1>1. hosts' = [hosts EXCEPT ![h] = c]
    BY DEF Process!Goes
  <1>2. FitsIn(hosts[h], controls', drafts', reviews', facts')
    BY FitsStill
  <1>3. /\ DOMAIN c = DOMAIN hosts[h] /\ c.pc = pc
        /\ c.trigger = hosts[h].trigger /\ c.draft = hosts[h].draft /\ c.review = hosts[h].review
        /\ c.cursor = hosts[h].cursor /\ c.pending = hosts[h].pending /\ c.dropped = hosts[h].dropped
    BY <1>2 DEF FitsIn, CoordFields
  <1> HIDE DEF c
  <1>4. FitsIn(c, controls', drafts', reviews', facts')
    BY <1>2, <1>3, Wider DEF FitsIn
  <1> QED
    BY <1>1, <1>4, OneHostMoves

LEMMA FactOnce == ASSUME ControlInv, NEW k \in {"started", "finished", "skipped"}, NEW t \in Nat, Process!Fact(k, t),
                         \A f \in DOMAIN facts : facts[f].trigger = t => k = "finished" /\ facts[f].kind = "started",
                         k = "started" => Process!Starts < Adjustments
    PROVE Process!AdjustedOnce'
  <1> DEFINE n == Len(facts)
             S == {f \in DOMAIN facts : facts[f].kind = "started"}
             T == {f \in DOMAIN facts' : facts'[f].kind = "started"}
  <1>1. /\ FactsGrow /\ DOMAIN facts' = 1..n + 1 /\ facts'[n + 1].kind = k /\ facts'[n + 1].trigger = t
        /\ DOMAIN facts = 1..n /\ n \in Nat
    BY FactAppends, EventsKnown
  <1>2. \A f \in 1..n : facts'[f] = facts[f]
    BY <1>1 DEF FactsGrow
  <1>3. Process!AdjustedOnce
    BY DEF ControlInv, Process!ControlHolds
  <1>4. ASSUME NEW f \in DOMAIN facts', NEW g \in DOMAIN facts', facts'[f].trigger = facts'[g].trigger, f < g
        PROVE  facts'[f].kind = "started" /\ facts'[g].kind = "finished"
    <2>1. f \in 1..n /\ (g \in 1..n \/ g = n + 1)
      BY <1>1, <1>4
    <2>2. CASE g \in 1..n
      BY <2>1, <2>2, <1>1, <1>2, <1>3, <1>4 DEF Process!AdjustedOnce
    <2>3. CASE g = n + 1
      BY <2>1, <2>3, <1>1, <1>2, <1>4
    <2> QED
      BY <2>1, <2>2, <2>3
  <1>5. IsFiniteSet(S) /\ Cardinality(S) \in Nat
    <2>1. IsFiniteSet(1..n)
      <3>1. \A i \in Nat : IsFiniteSet(1..i)
        BY FS_Interval
      <3> QED
        BY <1>1, <3>1
    <2>2. S \subseteq 1..n
      BY <1>1
    <2> QED
      BY <2>1, <2>2, FS_Subset, FS_CardinalityType
  <1>6. n + 1 \notin S /\ T = IF k = "started" THEN S \cup {n + 1} ELSE S
    BY <1>1, <1>2
  <1>7. Process!Starts = Cardinality(S) /\ Process!Starts <= Adjustments /\ Process!Starts' = Cardinality(T)
    BY <1>3 DEF Process!Starts, Process!AdjustedOnce, Process!Cardinality, Cardinality
  <1> HIDE DEF S, T
  <1>8. Cardinality(S \cup {n + 1}) = Cardinality(S) + 1
    BY <1>5, <1>6, FS_AddElement
  <1>9. Process!Starts' <= Adjustments
    BY <1>5, <1>6, <1>7, <1>8, AdjustmentsAssumption
  <1> QED
    BY <1>4, <1>9 DEF Process!AdjustedOnce
----------------------------------------------------------------------------
(* Every step, action by action. *)
Good ==
    /\ pRun' \in Process!Run /\ Grow /\ Adjusts /\ RevisionsGrow /\ HostsFit
    /\ Work' /\ Process!AdjustedOnce'

LEMMA WorkAsItIs == ASSUME Work, UNCHANGED Process!execution PROVE Work'
  BY DEF Work, Process!execution, Process!IsRevision, Process!Questions, Apart, Held, Process!WorkBelongs

LEMMA ControlsAsTheyAre == ASSUME ControlInv, UNCHANGED controls PROVE ControlsGrow /\ Adjusts
  <1>1. "auto" \in Kinds \ {"adjusted"}
    BY DEF Kinds
  <1> QED
    BY <1>1, OrdinaryControl

\* the Run is executed, or a person commands it
LEMMA ExecutionIsGood == ASSUME ControlInv, UNCHANGED <<Process!process, facts, hosts>>, pRun' \in Process!Run, ControlsGrow, Adjusts,
                                Work', pPlan'.rev = pPlan.rev
    PROVE Good
  <1>1. UNCHANGED drafts /\ UNCHANGED reviews /\ UNCHANGED revisions /\ UNCHANGED facts /\ UNCHANGED hosts
    BY DEF Process!process
  <1>2. DraftsGrow /\ ReviewsGrow /\ FactsGrow /\ Process!AdjustedOnce'
    BY <1>1, DraftsAsTheyAre, ReviewsAsTheyAre, FactsAsTheyAre
  <1>3. Grow
    BY <1>2 DEF Grow
  <1> QED
    BY <1>1, <1>2, <1>3, HostsAsTheyAre DEF Good, RevisionsGrow

\* a model works on a draft or a review
LEMMA ModelIsGood == ASSUME ControlInv, UNCHANGED <<pRun, controls, Process!execution, revisions, facts, hosts>>, DraftsGrow, ReviewsGrow
    PROVE Good
  <1>1. pRun' \in Process!Run /\ Work' /\ pPlan'.rev = pPlan.rev /\ UNCHANGED controls
    BY WorkOf, WorkAsItIs DEF Process!execution, ControlInv, Shapes
  <1>2. ControlsGrow /\ Adjusts /\ FactsGrow /\ Process!AdjustedOnce'
    BY ControlsAsTheyAre, FactsAsTheyAre
  <1>3. Grow
    BY <1>2 DEF Grow
  <1> QED
    BY <1>1, <1>2, <1>3, HostsAsTheyAre DEF Good, RevisionsGrow

\* a coordinator moves, and nothing of the execution does
LEMMA CoordinatorIsGood == ASSUME ControlInv, UNCHANGED <<pRun, controls, Process!execution, revisions>>, DraftsGrow, ReviewsGrow, FactsGrow,
                                  Process!AdjustedOnce', HostsFit
    PROVE Good
  <1>1. pRun' \in Process!Run /\ Work' /\ pPlan'.rev = pPlan.rev /\ UNCHANGED controls
    BY WorkOf, WorkAsItIs DEF Process!execution, ControlInv, Shapes
  <1>2. ControlsGrow /\ Adjusts
    BY ControlsAsTheyAre
  <1> QED
    BY <1>1, <1>2 DEF Good, RevisionsGrow, Grow

LEMMA DispatchGood == ASSUME ControlInv, NEW n \in Steps, Process!Dispatch(n) PROVE Good
  <1>1. Work' /\ pPlan'.rev = pPlan.rev
    BY WorkOf, DispatchWorks, NodeSet DEF Process!Dispatch, Work, Statuses
  <1>2. UNCHANGED <<Process!process, facts, hosts>> /\ pRun' \in Process!Run /\ UNCHANGED controls
    BY DEF Process!Dispatch, ControlInv, Shapes
  <1> QED
    BY <1>1, <1>2, ControlsAsTheyAre, ExecutionIsGood

LEMMA SetsTheRev == ASSUME Work, NEW n \in Steps, NEW s, Process!SetNode(n, s) PROVE pPlan'.rev = pPlan.rev
  BY DEF Process!SetNode, Work, PlanType
LEMMA NodeOf == ASSUME Work, NEW a \in DOMAIN attempts PROVE attempts[a].node \in Steps
  <1>1. attempts[a] \in AttemptType
    BY Indices DEF Work
  <1> QED
    BY <1>1 DEF AttemptType

LEMMA SucceedGood == ASSUME ControlInv, NEW a \in DOMAIN attempts, Process!Succeed(a) PROVE Good
  <1>1. Work'
    BY WorkOf, EndWorks DEF Process!Succeed, Statuses
  <1>2. UNCHANGED <<Process!process, facts, hosts>> /\ pRun' \in Process!Run /\ UNCHANGED controls
    BY DEF Process!Succeed, ControlInv, Shapes
  <1>3. pPlan'.rev = pPlan.rev
    BY WorkOf, NodeOf, SetsTheRev DEF Process!Succeed
  <1> QED
    BY <1>1, <1>2, <1>3, ControlsAsTheyAre, ExecutionIsGood

LEMMA InterruptGood == ASSUME ControlInv, NEW a \in DOMAIN attempts, Process!Interrupt(a) PROVE Good
  <1>1. Work'
    BY WorkOf, EndWorks DEF Process!Interrupt, Statuses
  <1>2. UNCHANGED <<Process!process, facts, hosts>> /\ pRun' \in Process!Run /\ UNCHANGED controls
    BY DEF Process!Interrupt, ControlInv, Shapes
  <1>3. pPlan'.rev = pPlan.rev
    BY WorkOf, NodeOf, SetsTheRev DEF Process!Interrupt
  <1> QED
    BY <1>1, <1>2, <1>3, ControlsAsTheyAre, ExecutionIsGood

LEMMA RunTyped == ASSUME ControlInv, NEW s \in {"running", "paused", "done"}, pRun' = [pRun EXCEPT !.status = s] PROVE pRun' \in Process!Run
  BY DEF ControlInv, Shapes, Process!Run

LEMMA WorkerFailsGood == ASSUME ControlInv, NEW a \in DOMAIN attempts, Process!WorkerFails(a) PROVE Good
  <1>1. Work'
    BY WorkOf, EndWorks DEF Process!WorkerFails, Statuses
  <1>2. UNCHANGED <<Process!process, facts, hosts>> /\ pRun' \in Process!Run /\ Process!Control("hold")
    BY RunTyped DEF Process!WorkerFails
  <1>3. pPlan'.rev = pPlan.rev
    BY WorkOf, NodeOf, SetsTheRev DEF Process!WorkerFails
  <1>4. ControlsGrow /\ Adjusts
    BY <1>2, OrdinaryControl DEF Kinds
  <1> QED
    BY <1>1, <1>2, <1>3, <1>4, ExecutionIsGood

LEMMA AnswerGood == ASSUME ControlInv, NEW a \in DOMAIN attempts, Process!Answer(a) PROVE Good
  <1>1. Work'
    BY WorkOf, AnswerWorks
  <1>2. UNCHANGED <<Process!process, facts, hosts>> /\ pRun' \in Process!Run /\ UNCHANGED controls
    BY DEF Process!Answer, ControlInv, Shapes
  <1>3. pPlan'.rev = pPlan.rev
    BY WorkOf, NodeOf, SetsTheRev DEF Process!Answer
  <1> QED
    BY <1>1, <1>2, <1>3, ControlsAsTheyAre, ExecutionIsGood

LEMMA SettleGood == ASSUME ControlInv, NEW n \in Steps, Process!Settle(n) PROVE Good
  <1>1. Work'
    BY WorkOf, SettleWorks
  <1>2. UNCHANGED <<Process!process, facts, hosts>> /\ pRun' \in Process!Run /\ (Process!Control("auto") \/ UNCHANGED controls)
    BY RunTyped DEF Process!Settle, ControlInv, Shapes
  <1>3. pPlan'.rev = pPlan.rev
    BY WorkOf, SetsTheRev DEF Process!Settle
  <1>4. ControlsGrow /\ Adjusts
    BY <1>2, OrdinaryControl DEF Kinds
  <1> QED
    BY <1>1, <1>2, <1>3, <1>4, ExecutionIsGood

\* commands and completion leave the plan and its Attempts alone
LEMMA CommandsGood == ASSUME ControlInv, Process!Complete \/ Process!Pause \/ Process!Supersede PROVE Good
  <1>1. UNCHANGED <<Process!process, facts, hosts>> /\ UNCHANGED Process!execution
    BY DEF Process!Complete, Process!Pause, Process!Supersede
  <1>2. pRun' \in Process!Run
    <2>1. ASSUME Process!Supersede PROVE pRun' \in Process!Run
      BY <2>1 DEF Process!Supersede, ControlInv, Shapes, Process!Run
    <2> QED
      BY <2>1, RunTyped DEF Process!Complete, Process!Pause
  <1>3. ControlsGrow /\ Adjusts
    <2>1. Process!Control("done") \/ Process!Control("operator") \/ UNCHANGED controls
      BY DEF Process!Complete, Process!Pause, Process!Supersede
    <2> QED
      BY <2>1, OrdinaryControl DEF Kinds
  <1>4. Work' /\ pPlan'.rev = pPlan.rev
    BY <1>1, WorkOf, WorkAsItIs DEF Process!execution
  <1> QED
    BY <1>1, <1>2, <1>3, <1>4, ExecutionIsGood

LEMMA ResumeGood == ASSUME ControlInv, Process!Resume PROVE Good
  <1>1. Work' /\ pPlan'.rev = pPlan.rev
    BY WorkOf, ResumeWorks DEF Process!Resume
  <1>2. UNCHANGED <<Process!process, facts, hosts>> /\ pRun' \in Process!Run /\ Process!Control("resumed")
    BY RunTyped DEF Process!Resume, Process!ResumeRun
  <1>3. ControlsGrow /\ Adjusts
    BY <1>2, OrdinaryControl DEF Kinds
  <1> QED
    BY <1>1, <1>2, <1>3, ExecutionIsGood

LEMMA ModelsGood == ASSUME ControlInv,
                           \/ \E h \in Servers : Process!Propose(h) \/ \E d \in DOMAIN drafts : Process!Review(h, d)
                           \/ Process!Models
    PROVE Good
  <1>1. ASSUME NEW h \in Servers, Process!Propose(h) PROVE Good
    <2>1. Process!NewDraft(h, 0) /\ UNCHANGED <<pRun, controls, Process!execution, revisions, facts, hosts>> /\ UNCHANGED reviews
      BY <1>1 DEF Process!Propose, Process!NewDraft
    <2> QED
      BY <2>1, NewDraftGrows, ReviewsAsTheyAre, ModelIsGood
  <1>2. ASSUME NEW h \in Servers, NEW d \in DOMAIN drafts, Process!Review(h, d) PROVE Good
    <2>1. Process!NewReview(h, d) /\ UNCHANGED <<pRun, controls, Process!execution, revisions, facts, hosts>> /\ UNCHANGED drafts
      BY <1>2 DEF Process!Review, Process!NewReview
    <2> QED
      BY <2>1, NewReviewGrows, DraftsAsTheyAre, ModelIsGood
  <1>3. ASSUME NEW d \in DOMAIN drafts, Process!EndDraft(d) PROVE Good
    <2>1. UNCHANGED <<pRun, controls, Process!execution, revisions, facts, hosts>> /\ UNCHANGED reviews
      BY <1>3 DEF Process!EndDraft
    <2> QED
      BY <1>3, <2>1, EndDraftGrows, ReviewsAsTheyAre, ModelIsGood
  <1>4. ASSUME NEW r \in DOMAIN reviews, Process!EndReview(r) PROVE Good
    <2>1. UNCHANGED <<pRun, controls, Process!execution, revisions, facts, hosts>> /\ UNCHANGED drafts
      BY <1>4 DEF Process!EndReview
    <2> QED
      BY <1>4, <2>1, EndReviewGrows, DraftsAsTheyAre, ModelIsGood
  <1> QED
    BY <1>1, <1>2, <1>3, <1>4 DEF Process!Models

LEMMA PublishGrows == ASSUME ControlInv, NEW r \in DOMAIN reviews, NEW t, Process!Publish(r, t)
    PROVE Work' /\ DraftsGrow /\ ReviewsGrow
  <1>1. reviews[r].draft \in DOMAIN drafts
    BY DEF ControlInv, Referred
  <1>2. drafts[reviews[r].draft].replaces \subseteq Steps
    BY <1>1, DraftsKnown DEF DraftType
  <1>3. UNCHANGED drafts /\ UNCHANGED reviews
    BY DEF Process!Publish
  <1> QED
    BY <1>2, <1>3, WorkOf, PublishWorks, DraftsAsTheyAre, ReviewsAsTheyAre
LEMMA ApplyGood == ASSUME ControlInv, NEW r \in DOMAIN reviews, Process!Apply(r) PROVE Good
  <1>1. Process!Publish(r, 0) /\ UNCHANGED <<pRun, controls, facts, hosts>> /\ pRun' \in Process!Run
    BY DEF Process!Apply, ControlInv, Shapes
  <1>2. Grow /\ Adjusts /\ Process!AdjustedOnce' /\ Work'
    BY <1>1, PublishGrows, ControlsAsTheyAre, FactsAsTheyAre DEF Grow
  <1>3. RevisionsGrow
    BY <1>1 DEF RevisionsGrow
  <1> QED
    BY <1>1, <1>2, <1>3, HostsAsTheyAre DEF Good
----------------------------------------------------------------------------
(* The coordinators. *)
LEMMA AtIs == ASSUME ControlInv, NEW h \in Servers, NEW changes, Process!At(h, changes)
    PROVE hosts' = [hosts EXCEPT ![h] = [x \in CoordFields |-> IF x \in DOMAIN changes THEN changes[x] ELSE hosts[h][x]]]
  <1>1. DOMAIN hosts = Servers /\ DOMAIN hosts[h] = CoordFields
    BY DEF ControlInv, Shapes
  <1> QED
    BY <1>1 DEF Process!At

LEMMA LatestKnown == ASSUME ControlInv PROVE Process!Latest \in DOMAIN controls /\ Process!Latest \in Nat /\ Process!Latest = Len(controls)
  BY EventsKnown DEF ControlInv, Referred, Process!Latest

\* what a host does in memory: nothing else changes
LEMMA DiscoverGood == ASSUME ControlInv, NEW h \in Servers, Process!Discover(h) PROVE Good
  <1> DEFINE t == IF Process!Consumed(h) = 0 \/ Process!Has({"started"}, Process!Consumed(h)) \/ Process!Ended(Process!Consumed(h)) THEN 0 ELSE Process!Consumed(h)
             pc == IF t # 0 /\ pRun.status = "paused" THEN "spawned" ELSE "idle"
             ch == [cursor |-> Process!Latest, pending |-> t, pc |-> pc]
             c == [x \in CoordFields |-> IF x \in DOMAIN ch THEN ch[x] ELSE hosts[h][x]]
  <1>1. UNCHANGED <<pRun, controls, Process!execution, revisions>> /\ UNCHANGED drafts /\ UNCHANGED reviews /\ UNCHANGED facts
    BY DEF Process!Discover, Process!process
  <1>2. DraftsGrow /\ ReviewsGrow /\ FactsGrow /\ Process!AdjustedOnce' /\ Grow
    BY <1>1, DraftsAsTheyAre, ReviewsAsTheyAre, FactsAsTheyAre, ControlsAsTheyAre DEF Grow
  <1>3. hosts' = [hosts EXCEPT ![h] = c]
    <2>1. Process!At(h, ch)
      BY DEF Process!Discover
    <2> QED
      BY <2>1, AtIs
  <1>4. FitsIn(hosts[h], controls', drafts', reviews', facts')
    BY <1>2, FitsStill
  <1>5. t \in 0..Process!Latest
    BY FitsNow, LatestKnown DEF FitsIn, Process!Consumed
  <1>6. /\ DOMAIN c = CoordFields /\ c.pc \in {"idle", "spawned"} /\ c.cursor = Process!Latest /\ c.pending = t
        /\ c.trigger = hosts[h].trigger /\ c.draft = hosts[h].draft /\ c.review = hosts[h].review
        /\ c.dropped = hosts[h].dropped
    BY DEF CoordFields
  <1> HIDE DEF c, t, pc, ch
  <1>7. FitsIn(c, controls', drafts', reviews', facts')
    BY <1>1, <1>4, <1>5, <1>6, LatestKnown DEF FitsIn
  <1> QED
    BY <1>1, <1>2, <1>3, <1>7, OneHostMoves, CoordinatorIsGood

LEMMA PrepareGood == ASSUME ControlInv, NEW h \in Servers, Process!Prepare(h) PROVE Good
  <1>1. UNCHANGED <<pRun, controls, Process!execution, revisions>> /\ UNCHANGED drafts /\ UNCHANGED reviews
    BY DEF Process!Prepare, Process!process
  <1>2. DraftsGrow /\ ReviewsGrow /\ ControlsGrow
    BY <1>1, DraftsAsTheyAre, ReviewsAsTheyAre, ControlsAsTheyAre
  <1>3. CASE Process!Goes(h, "idle") /\ UNCHANGED facts
    <2>1. FactsGrow /\ Process!AdjustedOnce' /\ Grow
      BY <1>2, <1>3, FactsAsTheyAre DEF Grow
    <2> QED
      BY <1>1, <1>2, <1>3, <2>1, HostGoes, CoordinatorIsGood
  <1>4. ASSUME Process!Startable, Process!NotStarted
        PROVE  \A f \in DOMAIN facts : facts[f].trigger # Process!Latest
    BY <1>4, EventsKnown DEF Process!Startable, Process!NotStarted, Process!Ended, Process!Has, FactType
  <1>5. CASE Process!Startable /\ Process!NotStarted /\ Process!Goes(h, "idle") /\ Process!Fact("skipped", Process!Latest)
    <2>1. FactsGrow /\ Process!AdjustedOnce'
      BY <1>4, <1>5, LatestKnown, FactAppends, FactOnce
    <2>2. Grow
      BY <1>2, <2>1 DEF Grow
    <2> QED
      BY <1>1, <1>2, <1>5, <2>1, <2>2, HostGoes, CoordinatorIsGood
  <1> DEFINE ch == [pc |-> "started", trigger |-> Process!Latest, parent |-> pPlan.rev, draft |-> 0, review |-> 0]
             c == [x \in CoordFields |-> IF x \in DOMAIN ch THEN ch[x] ELSE hosts[h][x]]
  <1>6. CASE Process!Startable /\ Process!NotStarted /\ Process!Authorized /\ Process!Fact("started", Process!Latest) /\ Process!At(h, ch)
    <2>1. /\ FactsGrow /\ Process!AdjustedOnce' /\ DOMAIN facts' = 1..Len(facts) + 1
          /\ facts'[Len(facts) + 1].kind = "started" /\ facts'[Len(facts) + 1].trigger = Process!Latest
      BY <1>4, <1>6, LatestKnown, FactAppends, FactOnce DEF Process!Authorized
    <2>2. Grow
      BY <1>2, <2>1 DEF Grow
    <2>3. hosts' = [hosts EXCEPT ![h] = c]
      BY <1>6, AtIs
    <2>4. FitsIn(hosts[h], controls', drafts', reviews', facts')
      BY <2>2, FitsStill
    <2>5. /\ DOMAIN c = CoordFields /\ c.pc = "started" /\ c.cursor = hosts[h].cursor /\ c.pending = hosts[h].pending
          /\ c.trigger = Process!Latest /\ c.draft = 0 /\ c.review = 0 /\ c.dropped = hosts[h].dropped
      BY DEF CoordFields
    <2>6. Len(facts) + 1 \in DOMAIN facts' /\ controls[Process!Latest] = "auto"
      BY <1>6, <2>1, EventsKnown DEF Process!Startable, Process!Eligible
    <2> HIDE DEF c
    <2>7. FitsIn(c, controls', drafts', reviews', facts')
      BY <1>1, <2>1, <2>4, <2>5, <2>6, LatestKnown DEF FitsIn
    <2> QED
      BY <1>1, <1>2, <2>1, <2>2, <2>3, <2>7, OneHostMoves, CoordinatorIsGood
  <1> QED
    BY <1>3, <1>5, <1>6 DEF Process!Prepare

\* an adjustment that gives up: in any of its states
LEMMA GivesGood == ASSUME ControlInv, NEW h \in Servers, NEW from, from \notin {"idle", "spawned"}, NEW why, Process!Gives(h, from, why) PROVE Good
  <1>1. UNCHANGED <<pRun, controls, Process!execution, revisions>> /\ UNCHANGED drafts /\ UNCHANGED reviews /\ UNCHANGED facts
    BY DEF Process!Gives, Process!process
  <1>2. DraftsGrow /\ ReviewsGrow /\ FactsGrow /\ Process!AdjustedOnce' /\ Grow
    BY <1>1, DraftsAsTheyAre, ReviewsAsTheyAre, FactsAsTheyAre, ControlsAsTheyAre DEF Grow
  <1>3. HostsFit
    BY <1>2, HostGoes DEF Process!Gives
  <1> QED
    BY <1>1, <1>2, <1>3, CoordinatorIsGood

\* a recheck that passes, on a draft and, after that, on a review
LEMMA RechecksGood == ASSUME ControlInv, NEW h \in Servers, Process!RecheckDraft(h) \/ Process!RecheckReview(h) PROVE Good
  <1>1. ASSUME UNCHANGED <<pRun, controls, Process!execution, Process!process, facts>>, HostsFit \/ ~HostsFit
        PROVE  /\ UNCHANGED revisions /\ DraftsGrow /\ ReviewsGrow /\ FactsGrow /\ Process!AdjustedOnce' /\ Grow
    <2>1. UNCHANGED drafts /\ UNCHANGED reviews /\ UNCHANGED revisions /\ UNCHANGED facts /\ UNCHANGED controls
      BY <1>1 DEF Process!process
    <2> QED
      BY <2>1, DraftsAsTheyAre, ReviewsAsTheyAre, FactsAsTheyAre, ControlsAsTheyAre DEF Grow
  <1>2. ASSUME UNCHANGED <<pRun, controls, Process!execution, Process!process, facts>>, hosts[h].pc = "proposing", Process!Goes(h, "drafted")
        PROVE  Good
    <2>1. hosts[h].draft \in DOMAIN drafts
      BY <1>2, FitsNow DEF FitsIn
    <2>2. HostsFit
      BY <1>1, <1>2, <2>1, HostGoes
    <2> QED
      BY <1>1, <1>2, <2>2, CoordinatorIsGood
  <1>3. ASSUME UNCHANGED <<pRun, controls, Process!execution, Process!process, facts>>, hosts[h].pc = "reviewing", Process!Goes(h, "reviewed")
        PROVE  Good
    <2>1. hosts[h].draft \in DOMAIN drafts /\ hosts[h].review \in DOMAIN reviews
      BY <1>3, FitsNow DEF FitsIn
    <2>2. HostsFit
      BY <1>1, <1>3, <2>1, HostGoes
    <2> QED
      BY <1>1, <1>3, <2>2, CoordinatorIsGood
  <1>4. CASE Process!RecheckDraft(h)
    BY <1>2, <1>4, GivesGood DEF Process!RecheckDraft, Process!Step
  <1>5. CASE Process!RecheckReview(h)
    BY <1>3, <1>5, GivesGood DEF Process!RecheckReview, Process!Step
  <1> QED
    BY <1>4, <1>5

LEMMA ProposeAutoGood == ASSUME ControlInv, NEW h \in Servers, Process!ProposeAuto(h) PROVE Good
  <1> DEFINE ch == [pc |-> "proposing", draft |-> Len(drafts) + 1]
             c == [x \in CoordFields |-> IF x \in DOMAIN ch THEN ch[x] ELSE hosts[h][x]]
  <1>1. ASSUME Process!Step(h, "started", Process!NewDraft(h, hosts[h].trigger) /\ UNCHANGED Process!execution /\ Process!At(h, ch))
        PROVE  Good
    <2>1. /\ UNCHANGED <<pRun, controls, Process!execution, revisions>> /\ UNCHANGED reviews /\ UNCHANGED facts /\ UNCHANGED controls
          /\ Process!NewDraft(h, hosts[h].trigger) /\ Process!At(h, ch) /\ hosts[h].pc = "started"
      BY <1>1 DEF Process!Step, Process!NewDraft
    <2>2. hosts[h].trigger \in Nat
      BY DEF ControlInv, Shapes
    <2>3. DraftsGrow /\ ReviewsGrow /\ FactsGrow /\ Process!AdjustedOnce' /\ Grow
      BY <2>1, <2>2, NewDraftGrows, ReviewsAsTheyAre, FactsAsTheyAre, ControlsAsTheyAre DEF Grow
    <2>4. hosts' = [hosts EXCEPT ![h] = c]
      BY <2>1, AtIs
    <2>5. FitsIn(hosts[h], controls', drafts', reviews', facts')
      BY <2>3, FitsStill
    <2>6. /\ DOMAIN c = CoordFields /\ c.pc = "proposing" /\ c.cursor = hosts[h].cursor /\ c.pending = hosts[h].pending
          /\ c.trigger = hosts[h].trigger /\ c.draft = Len(drafts) + 1 /\ c.review = hosts[h].review /\ c.dropped = hosts[h].dropped
      BY DEF CoordFields
    <2>7. Len(drafts) + 1 \in DOMAIN drafts' /\ Len(drafts) \in Nat
      <3>1. /\ drafts \in Seq(DraftType)
            /\ drafts' = Append(drafts, [base |-> pPlan, trigger |-> hosts[h].trigger, replaces |-> {}, status |-> "planning", by |-> h])
        BY <2>1, DraftsKnown DEF Process!NewDraft
      <3> QED
        BY <3>1
    <2> HIDE DEF c
    <2>8. FitsIn(c, controls', drafts', reviews', facts')
      BY <2>1, <2>5, <2>6, <2>7 DEF FitsIn
    <2> QED
      BY <2>1, <2>3, <2>4, <2>8, OneHostMoves, CoordinatorIsGood
  <1> QED
    BY <1>1, GivesGood DEF Process!ProposeAuto

LEMMA ReviewAutoGood == ASSUME ControlInv, NEW h \in Servers, Process!ReviewAuto(h) PROVE Good
  <1> DEFINE ch == [pc |-> "reviewing", review |-> Len(reviews) + 1]
             c == [x \in CoordFields |-> IF x \in DOMAIN ch THEN ch[x] ELSE hosts[h][x]]
             d == hosts[h].draft
  <1>1. ASSUME Process!Step(h, "drafted", Process!NewReview(h, d) /\ UNCHANGED Process!execution /\ Process!At(h, ch))
        PROVE  Good
    <2>1. /\ UNCHANGED <<pRun, controls, Process!execution, revisions>> /\ UNCHANGED drafts /\ UNCHANGED facts /\ UNCHANGED controls
          /\ Process!NewReview(h, d) /\ Process!At(h, ch) /\ hosts[h].pc = "drafted"
      BY <1>1 DEF Process!Step, Process!NewReview
    <2>2. d \in DOMAIN drafts
      BY <2>1, FitsNow DEF FitsIn
    <2>3. DraftsGrow /\ ReviewsGrow /\ FactsGrow /\ Process!AdjustedOnce' /\ Grow
      BY <2>1, <2>2, NewReviewGrows, DraftsAsTheyAre, FactsAsTheyAre, ControlsAsTheyAre DEF Grow
    <2>4. hosts' = [hosts EXCEPT ![h] = c]
      BY <2>1, AtIs
    <2>5. FitsIn(hosts[h], controls', drafts', reviews', facts')
      BY <2>3, FitsStill
    <2>6. /\ DOMAIN c = CoordFields /\ c.pc = "reviewing" /\ c.cursor = hosts[h].cursor /\ c.pending = hosts[h].pending
          /\ c.trigger = hosts[h].trigger /\ c.draft = d /\ c.review = Len(reviews) + 1 /\ c.dropped = hosts[h].dropped
      BY DEF CoordFields
    <2>7. Len(reviews) + 1 \in DOMAIN reviews' /\ Len(reviews) \in Nat
      <3>1. /\ reviews \in Seq(ReviewType)
            /\ reviews' = Append(reviews, [draft |-> d, preserves |-> FALSE, status |-> "reviewing", by |-> h])
        BY <2>1, ReviewsKnown DEF Process!NewReview
      <3> QED
        BY <3>1
    <2> HIDE DEF c
    <2>8. FitsIn(c, controls', drafts', reviews', facts')
      BY <2>1, <2>2, <2>5, <2>6, <2>7 DEF FitsIn
    <2> QED
      BY <2>1, <2>3, <2>4, <2>8, OneHostMoves, CoordinatorIsGood
  <1> QED
    BY <1>1, GivesGood DEF Process!ReviewAuto

LEMMA ApplyAutoGood == ASSUME ControlInv, NEW h \in Servers, Process!ApplyAuto(h) PROVE Good
  <1> DEFINE r == hosts[h].review
             t == hosts[h].trigger
  <1>1. ASSUME Process!Step(h, "reviewed", Process!Guarded(h, hosts[h].parent) /\ Process!Publish(r, t) /\ Process!Goes(h, "applied"))
        PROVE  Good
    <2>1. /\ hosts[h].pc = "reviewed" /\ Process!Publish(r, t) /\ Process!Goes(h, "applied") /\ Process!Latest = t
          /\ UNCHANGED controls /\ UNCHANGED facts /\ UNCHANGED pRun
      BY <1>1 DEF Process!Step, Process!Guarded
    <2>2. /\ r \in DOMAIN reviews /\ hosts[h].draft \in DOMAIN drafts
          /\ t \in DOMAIN controls /\ controls[t] = "auto" /\ t \in Nat
      BY <2>1, FitsNow DEF FitsIn
    <2>3. Grow /\ Adjusts /\ Process!AdjustedOnce' /\ Work' /\ pRun' \in Process!Run
      BY <2>1, <2>2, PublishGrows, ControlsAsTheyAre, FactsAsTheyAre DEF Grow, ControlInv, Shapes
    <2>4. RevisionsGrow
      BY <2>1, <2>2 DEF RevisionsGrow, Process!Eligible
    <2>5. HostsFit
      BY <2>1, <2>2, <2>3, HostGoes
    <2> QED
      BY <2>3, <2>4, <2>5 DEF Good
  <1> QED
    BY <1>1, GivesGood DEF Process!ApplyAuto

LEMMA ResumeAutoGood == ASSUME ControlInv, NEW h \in Servers, Process!ResumeAuto(h) PROVE Good
  <1>1. ASSUME hosts[h].pc = "applied", Process!Guarded(h, hosts[h].parent + 1), Process!ResumeRun("adjusted"), Process!Goes(h, "ending"),
               UNCHANGED <<Process!process, facts, crashes>>
        PROVE  Good
    <2>1. UNCHANGED drafts /\ UNCHANGED reviews /\ UNCHANGED revisions /\ UNCHANGED facts /\ Process!Latest = hosts[h].trigger
      BY <1>1 DEF Process!process, Process!Guarded
    <2>2. /\ Process!Latest \in DOMAIN controls /\ Process!Eligible(Process!Latest) /\ Process!Has({"started"}, Process!Latest)
      BY <1>1, <2>1, FitsNow DEF FitsIn, Process!Eligible, Process!Has
    <2>3. ControlsGrow /\ DOMAIN controls' = 1..Process!Latest + 1 /\ controls'[Process!Latest + 1] = "adjusted"
      BY <1>1, ControlAppends DEF Process!ResumeRun, Kinds
    <2>4. Adjusts
      <3>1. \A i \in DOMAIN controls' : i \in DOMAIN controls \/ i = Process!Latest + 1
        BY <2>3, EventsKnown DEF Process!Latest
      <3> QED
        BY <2>2, <3>1 DEF Adjusts
    <2>5. Work' /\ pPlan'.rev = pPlan.rev
      BY <1>1, WorkOf, ResumeWorks
    <2>6. pRun' \in Process!Run
      BY <1>1, RunTyped DEF Process!ResumeRun
    <2>7. Grow /\ Process!AdjustedOnce'
      BY <2>1, <2>3, DraftsAsTheyAre, ReviewsAsTheyAre, FactsAsTheyAre DEF Grow
    <2>8. HostsFit
      BY <1>1, <2>7, HostGoes
    <2> QED
      BY <2>1, <2>4, <2>5, <2>6, <2>7, <2>8 DEF Good, RevisionsGrow
  <1> QED
    BY <1>1, GivesGood DEF Process!ResumeAuto

LEMMA FinishGood == ASSUME ControlInv, NEW h \in Servers, Process!Finish(h) PROVE Good
  <1> DEFINE t == hosts[h].trigger
  <1>1. UNCHANGED <<pRun, controls, Process!execution, revisions>> /\ UNCHANGED drafts /\ UNCHANGED reviews /\ Process!Goes(h, "idle")
    BY DEF Process!Finish, Process!process
  <1>2. DraftsGrow /\ ReviewsGrow /\ ControlsGrow /\ t \in Nat
    BY <1>1, DraftsAsTheyAre, ReviewsAsTheyAre, ControlsAsTheyAre DEF ControlInv, Shapes
  <1>3. FactsGrow /\ Process!AdjustedOnce'
    <2>1. CASE UNCHANGED facts
      BY <2>1, FactsAsTheyAre
    <2>2. CASE ~Process!Ended(t) /\ Process!Fact("finished", t)
      <3>1. \A f \in DOMAIN facts : facts[f].trigger = t => facts[f].kind = "started"
        BY <2>2, EventsKnown DEF Process!Ended, Process!Has, FactType
      <3> QED
        BY <1>2, <2>2, <3>1, FactAppends, FactOnce
    <2> QED
      BY <2>1, <2>2 DEF Process!Finish
  <1>4. HostsFit
    BY <1>1, <1>2, <1>3, HostGoes DEF Grow
  <1> QED
    BY <1>1, <1>2, <1>3, <1>4, CoordinatorIsGood

\* a cancelled adjustment is remembered, one that was begun ends
LEMMA CancelGood == ASSUME ControlInv, NEW h \in Servers, Process!CancelAdjustment(h) PROVE Good
  <1> DEFINE D == hosts[h].dropped \cup {hosts[h].pending}
             idle == [pending |-> 0, dropped |-> D]
             ends == [pending |-> 0, dropped |-> D, pc |-> "ending"]
             c == [x \in CoordFields |-> IF x \in DOMAIN idle THEN idle[x] ELSE hosts[h][x]]
             e == [x \in CoordFields |-> IF x \in DOMAIN ends THEN ends[x] ELSE hosts[h][x]]
  <1>1. UNCHANGED <<pRun, controls, Process!execution, revisions>> /\ UNCHANGED facts /\ UNCHANGED controls
    BY DEF Process!CancelAdjustment
  <1>2. DraftsGrow /\ ReviewsGrow /\ FactsGrow /\ Process!AdjustedOnce' /\ Grow
    BY <1>1, CancelDrafts, CancelReviews, FactsAsTheyAre, ControlsAsTheyAre DEF Grow
  <1>3. FitsIn(hosts[h], controls', drafts', reviews', facts')
    BY <1>2, FitsStill
  <1>4. D \subseteq 0..Len(controls') /\ 0 \in 0..Len(controls')
    BY <1>2, <1>3, Wider DEF FitsIn
  <1>5. CASE hosts[h].pc \in {"idle", "spawned"}
    <2>1. Process!At(h, idle)
      BY <1>5 DEF Process!CancelAdjustment
    <2>2. hosts' = [hosts EXCEPT ![h] = c]
      BY <2>1, AtIs
    <2>3. /\ DOMAIN c = CoordFields /\ c.pc = hosts[h].pc /\ c.cursor = hosts[h].cursor /\ c.pending = 0
          /\ c.trigger = hosts[h].trigger /\ c.draft = hosts[h].draft /\ c.review = hosts[h].review /\ c.dropped = D
      BY DEF CoordFields
    <2> HIDE DEF c, D
    <2>4. FitsIn(c, controls', drafts', reviews', facts')
      BY <1>3, <1>4, <1>5, <2>3 DEF FitsIn
    <2> QED
      BY <1>1, <1>2, <2>2, <2>4, OneHostMoves, CoordinatorIsGood
  <1>6. CASE hosts[h].pc \notin {"idle", "spawned"}
    <2>1. Process!At(h, ends)
      BY <1>6 DEF Process!CancelAdjustment
    <2>2. hosts' = [hosts EXCEPT ![h] = e]
      BY <2>1, AtIs
    <2>3. /\ DOMAIN e = CoordFields /\ e.pc = "ending" /\ e.cursor = hosts[h].cursor /\ e.pending = 0
          /\ e.trigger = hosts[h].trigger /\ e.draft = hosts[h].draft /\ e.review = hosts[h].review /\ e.dropped = D
      BY DEF CoordFields
    <2> HIDE DEF e, D
    <2>4. FitsIn(e, controls', drafts', reviews', facts')
      BY <1>3, <1>4, <1>6, <2>3 DEF FitsIn
    <2> QED
      BY <1>1, <1>2, <2>2, <2>4, OneHostMoves, CoordinatorIsGood
  <1> QED
    BY <1>5, <1>6

\* a host that starts again remembers nothing
LEMMA CrashGood == ASSUME ControlInv, NEW h \in Servers, Process!Crash(h) PROVE Good
  <1> DEFINE c == [x \in DOMAIN hosts[h] |-> IF x \in DOMAIN Process!NewHost THEN Process!NewHost[x] ELSE Process!CursorReset(h)[x]]
  <1>1. UNCHANGED <<pRun, controls, Process!execution, revisions>> /\ UNCHANGED facts /\ UNCHANGED controls
    BY DEF Process!Crash
  <1>2. DraftsGrow /\ ReviewsGrow /\ FactsGrow /\ Process!AdjustedOnce' /\ Grow
    BY <1>1, CrashDrafts, CrashReviews, FactsAsTheyAre, ControlsAsTheyAre DEF Grow
  <1>3. DOMAIN hosts = Servers /\ DOMAIN hosts[h] = CoordFields
    BY DEF ControlInv, Shapes
  <1>4. hosts' = [hosts EXCEPT ![h] = c]
    BY <1>3 DEF Process!Crash
  <1>5. /\ DOMAIN c = CoordFields /\ c.pc = "idle" /\ c.cursor = 0 /\ c.pending = 0
        /\ c.trigger = 0 /\ c.draft = 0 /\ c.review = 0 /\ c.dropped = {}
    BY <1>3 DEF CoordFields, Process!NewHost, Process!CursorReset
  <1> HIDE DEF c
  <1>6. FitsIn(c, controls', drafts', reviews', facts')
    BY <1>2, <1>5, Wider DEF FitsIn
  <1> QED
    BY <1>1, <1>2, <1>4, <1>6, OneHostMoves, CoordinatorIsGood

LEMMA NextIsGood == ASSUME ControlInv, Process!Next PROVE Good
  <1>1. CASE Process!Execute
    BY <1>1, DispatchGood, SettleGood, SucceedGood, InterruptGood, WorkerFailsGood, AnswerGood, CommandsGood DEF Process!Execute
  <1>2. CASE Process!Command
    BY <1>2, CommandsGood, ResumeGood, ModelsGood, ApplyGood DEF Process!Command
  <1>3. CASE Process!Models
    BY <1>3, ModelsGood
  <1>4. ASSUME NEW h \in Servers, Process!Coordinate(h) PROVE Good
    BY <1>4, ProposeAutoGood, RechecksGood, ReviewAutoGood, ApplyAutoGood, ResumeAutoGood, FinishGood DEF Process!Coordinate
  <1> QED
    BY <1>1, <1>2, <1>3, <1>4, DiscoverGood, PrepareGood, CancelGood, CrashGood DEF Process!Next
----------------------------------------------------------------------------
(* The invariant after a good step. *)
LEMMA DraftsStay == ASSUME ControlInv, Good
    PROVE /\ DOMAIN drafts \subseteq DOMAIN drafts' /\ DOMAIN reviews \subseteq DOMAIN reviews'
          /\ (\A d \in DOMAIN drafts : Process!IsDraft(drafts[d]))'
          /\ \A r \in DOMAIN reviews' : reviews'[r].draft \in DOMAIN drafts'
          /\ (\A r \in DOMAIN reviews : Process!IsReview(reviews[r]))'
  <1>1. DOMAIN drafts \subseteq DOMAIN drafts' /\ DOMAIN reviews \subseteq DOMAIN reviews'
    BY Wider DEF Good
  <1>2. pPlan.rev \in Nat /\ pPlan'.rev \in Nat /\ pPlan.rev <= pPlan'.rev
    <2>1. pPlan.rev \in Nat /\ pPlan'.rev \in Nat
      BY WorkOf DEF Good, Work, PlanType
    <2>2. ASSUME NEW r \in DOMAIN reviews, NEW t, Process!Publish(r, t)
          PROVE  pPlan'.rev = pPlan.rev + 1
      BY <2>2 DEF Process!Publish
    <2> QED
      BY <2>1, <2>2 DEF Good, RevisionsGrow
  <1>3. ASSUME NEW d \in DOMAIN drafts'
        PROVE  /\ Process!IsRevision(drafts'[d].base) /\ drafts'[d].base.rev <= pPlan'.rev
               /\ drafts'[d].status \in {"planning", "ready", "failed"} /\ (drafts'[d].status = "ready") = (drafts'[d].replaces # {})
    <2>1. drafts'[d] \in DraftType /\ (drafts'[d].status = "ready") = (drafts'[d].replaces # {})
      BY Indices DEF Good, Grow, DraftsGrow
    <2>2. drafts'[d].base \in PlanType /\ drafts'[d].status \in {"planning", "ready", "failed"}
      BY <2>1 DEF DraftType
    <2>3. Process!IsRevision(drafts'[d].base) /\ drafts'[d].base.rev <= pPlan.rev
      <3>1. CASE d \in DOMAIN drafts
        <4>1. Process!IsDraft(drafts[d]) /\ drafts'[d].base = drafts[d].base
          BY <3>1 DEF Good, Grow, DraftsGrow, ControlInv, Process!ControlHolds, Process!AppliedIsReviewed, Process!TypeOK
        <4> QED
          BY <4>1 DEF Process!IsDraft
      <3>2. CASE d \notin DOMAIN drafts
        <4>1. drafts'[d].base = pPlan /\ Process!IsRevision(pPlan)
          BY <3>2, WorkOf DEF Good, Grow, DraftsGrow, Work
        <4> QED
          BY <4>1, <1>2
      <3> QED
        BY <3>1, <3>2
    <2>4. drafts'[d].base.rev \in Nat
      BY <2>2 DEF PlanType
    <2> QED
      BY <2>1, <2>2, <2>3, <2>4, <1>2
  <1>4. ASSUME NEW r \in DOMAIN reviews'
        PROVE  /\ reviews'[r].draft \in DOMAIN drafts' /\ drafts'[reviews'[r].draft].status = "ready"
               /\ reviews'[r].status \in {"reviewing", "completed", "failed"} /\ (reviews'[r].preserves => reviews'[r].status = "completed")
    <2>1. reviews'[r] \in ReviewType /\ (reviews'[r].preserves => reviews'[r].status = "completed")
      BY Indices DEF Good, Grow, ReviewsGrow
    <2>2. reviews'[r].draft \in DOMAIN drafts /\ drafts[reviews'[r].draft].status = "ready"
      <3>1. CASE r \in DOMAIN reviews
        <4>1. reviews[r].draft \in DOMAIN drafts /\ Process!IsReview(reviews[r]) /\ reviews'[r].draft = reviews[r].draft
          BY <3>1 DEF Good, Grow, ReviewsGrow, ControlInv, Process!ControlHolds, Process!AppliedIsReviewed, Process!TypeOK, Referred
        <4> QED
          BY <4>1 DEF Process!IsReview
      <3>2. CASE r \notin DOMAIN reviews
        BY <3>2 DEF Good, Grow, ReviewsGrow
      <3> QED
        BY <3>1, <3>2
    <2>3. drafts'[reviews'[r].draft].status = "ready"
      BY <2>2 DEF Good, Grow, DraftsGrow
    <2> QED
      BY <1>1, <2>1, <2>2, <2>3 DEF ReviewType
  <1>5. (\A d \in DOMAIN drafts : Process!IsDraft(drafts[d]))'
    BY <1>3 DEF Process!IsDraft, Process!IsRevision
  <1> QED
    BY <1>1, <1>4, <1>5 DEF Process!IsReview

LEMMA TypesStay == ASSUME ControlInv, Good PROVE Process!TypeOK'
  <1>1. pRun' \in Process!Run /\ Process!IsRevision(pPlan') /\ asks' \subseteq Process!Questions'
    BY DEF Good, Work
  <1>2. pPlan'.rev = Len(revisions') + 1
    <2>1. pPlan.rev = Len(revisions) + 1 /\ revisions \in Seq(RevisionType)
      BY DEF ControlInv, Process!ControlHolds, Process!AppliedIsReviewed, Process!TypeOK, Shapes
    <2>2. ASSUME NEW r \in DOMAIN reviews, NEW t \in Nat, Process!Publish(r, t)
          PROVE  pPlan'.rev = Len(revisions') + 1
      <3>1. pPlan'.rev = pPlan.rev + 1 /\ \E v : revisions' = Append(revisions, v)
        BY <2>2 DEF Process!Publish
      <3> QED
        BY <2>1, <3>1
    <2> QED
      BY <2>1, <2>2 DEF Good, RevisionsGrow
  <1>3. (\A h \in Servers : Process!Coordinator(hosts[h]))'
    BY DEF Good, HostsFit, FitsIn, Process!Coordinator, Process!Latest
  <1> QED
    BY <1>1, <1>2, <1>3, DraftsStay DEF Process!TypeOK

\* what a publication refers to
LEMMA NewRevision == ASSUME ControlInv, Good, NEW r \in DOMAIN reviews, NEW t \in Nat, Process!Publish(r, t),
                            t # 0 => t = Process!Latest /\ t \in DOMAIN controls /\ Process!Eligible(t)
    PROVE \E v \in RevisionType :
        /\ revisions' = Append(revisions, v) /\ v.over = pPlan /\ v.over.rev = Len(revisions) + 1
        /\ v.draft \in DOMAIN drafts /\ v.review \in DOMAIN reviews
        /\ drafts[v.draft].base = pPlan /\ reviews[v.review].draft = v.draft /\ reviews[v.review].preserves
        /\ v.trigger \in 0..Process!Latest /\ (v.trigger # 0 => v.trigger \in DOMAIN controls /\ v.after = v.trigger /\ Process!Eligible(v.trigger))
  <1> DEFINE v == [draft |-> reviews[r].draft, review |-> r, over |-> pPlan, after |-> Process!Latest, trigger |-> t]
  <1>1. revisions' = Append(revisions, v) /\ reviews[r].preserves /\ drafts[reviews[r].draft].base = pPlan
    BY DEF Process!Publish, Process!MayApply, Process!InContext, Process!Unchanged
  <1>2. pPlan.rev = Len(revisions) + 1 /\ pPlan \in PlanType
    BY DEF ControlInv, Process!ControlHolds, Process!AppliedIsReviewed, Process!TypeOK, Shapes
  <1>3. reviews[r].draft \in DOMAIN drafts
    BY DEF ControlInv, Referred
  <1>4. DOMAIN drafts \subseteq Nat /\ DOMAIN reviews \subseteq Nat
    BY DraftsKnown, ReviewsKnown
  <1>5. v \in RevisionType
    BY <1>2, <1>3, <1>4, LatestKnown DEF RevisionType
  <1>6. t \in 0..Process!Latest
    BY LatestKnown
  <1> QED
    BY <1>1, <1>2, <1>3, <1>5, <1>6

\* what is kept of the revisions that there are
LEMMA RevisionsStay == ASSUME ControlInv, Good
    PROVE /\ revisions' \in Seq(RevisionType)
          /\ \A i \in DOMAIN revisions' :
                /\ revisions'[i].draft \in DOMAIN drafts' /\ revisions'[i].review \in DOMAIN reviews'
                /\ revisions'[i].trigger \in 0..Len(controls')
                /\ drafts'[revisions'[i].draft].base = revisions'[i].over /\ revisions'[i].over.rev = i
                /\ reviews'[revisions'[i].review].draft = revisions'[i].draft /\ reviews'[revisions'[i].review].preserves
                /\ revisions'[i].trigger # 0 => /\ revisions'[i].after = revisions'[i].trigger
                                                /\ controls'[revisions'[i].trigger] = "auto"
  <1> DEFINE Stands(v, i) ==
                /\ v.draft \in DOMAIN drafts /\ v.review \in DOMAIN reviews /\ v.trigger \in 0..Len(controls)
                /\ drafts[v.draft].base = v.over /\ v.over.rev = i
                /\ reviews[v.review].draft = v.draft /\ reviews[v.review].preserves
                /\ v.trigger # 0 => v.after = v.trigger /\ controls[v.trigger] = "auto"
             Standing(v, i) ==
                /\ v.draft \in DOMAIN drafts' /\ v.review \in DOMAIN reviews' /\ v.trigger \in 0..Len(controls')
                /\ drafts'[v.draft].base = v.over /\ v.over.rev = i
                /\ reviews'[v.review].draft = v.draft /\ reviews'[v.review].preserves
                /\ v.trigger # 0 => v.after = v.trigger /\ controls'[v.trigger] = "auto"
  <1>1. ASSUME NEW v, NEW i, Stands(v, i)
        PROVE  Standing(v, i)
    <2>1. /\ v.draft \in DOMAIN drafts' /\ v.review \in DOMAIN reviews' /\ v.trigger \in 0..Len(controls')
      BY <1>1, Wider DEF Good
    <2>2. drafts'[v.draft].base = v.over /\ v.over.rev = i
      BY <1>1 DEF Good, Grow, DraftsGrow
    <2>3. reviews'[v.review].draft = v.draft /\ reviews'[v.review].preserves
      BY <1>1 DEF Good, Grow, ReviewsGrow
    <2>4. v.trigger # 0 => v.trigger \in DOMAIN controls
      BY <1>1, EventsKnown
    <2>5. v.trigger # 0 => v.after = v.trigger /\ controls'[v.trigger] = "auto"
      BY <1>1, <2>4, Wider DEF Good
    <2> QED
      BY <2>1, <2>2, <2>3, <2>5
  <1>2. revisions \in Seq(RevisionType) /\ DOMAIN revisions = 1..Len(revisions) /\ Len(revisions) \in Nat
    BY Indices DEF ControlInv, Shapes
  <1>3. \A i \in DOMAIN revisions : Stands(revisions[i], i)
    BY DEF ControlInv, Referred, Process!ControlHolds, Process!AppliedIsReviewed, Process!PauseRespected, Process!Latest, Process!Eligible
  <1>4. /\ revisions' \in Seq(RevisionType)
        /\ \A i \in DOMAIN revisions' : Stands(revisions'[i], i)
    <2>1. CASE revisions' = revisions
      BY <2>1, <1>2, <1>3
    <2>2. ASSUME NEW r \in DOMAIN reviews, NEW t \in Nat, Process!Publish(r, t),
                 t # 0 => t = Process!Latest /\ t \in DOMAIN controls /\ Process!Eligible(t)
          PROVE  /\ revisions' \in Seq(RevisionType)
                 /\ \A i \in DOMAIN revisions' : Stands(revisions'[i], i)
      <3>1. PICK v \in RevisionType :
                /\ revisions' = Append(revisions, v) /\ v.over = pPlan /\ v.over.rev = Len(revisions) + 1
                /\ v.draft \in DOMAIN drafts /\ v.review \in DOMAIN reviews
                /\ drafts[v.draft].base = pPlan /\ reviews[v.review].draft = v.draft /\ reviews[v.review].preserves
                /\ v.trigger \in 0..Process!Latest /\ (v.trigger # 0 => v.trigger \in DOMAIN controls /\ v.after = v.trigger /\ Process!Eligible(v.trigger))
        BY <2>2, NewRevision
      <3>2. Stands(v, Len(revisions) + 1)
        BY <3>1 DEF Process!Latest, Process!Eligible
      <3> HIDE DEF Stands
      <3>3. /\ revisions' \in Seq(RevisionType) /\ DOMAIN revisions' = 1..Len(revisions) + 1
            /\ revisions'[Len(revisions) + 1] = v /\ \A i \in 1..Len(revisions) : revisions'[i] = revisions[i]
        BY <3>1, <1>2, Appended
      <3>4. \A i \in DOMAIN revisions' : i \in 1..Len(revisions) \/ i = Len(revisions) + 1
        BY <3>3, <1>2
      <3> QED
        BY <3>2, <3>3, <3>4, <1>2, <1>3
    <2> HIDE DEF Stands
    <2> QED
      BY <2>1, <2>2 DEF Good, RevisionsGrow
  <1>5. \A i \in DOMAIN revisions' : Standing(revisions'[i], i)
    BY <1>1, <1>4
  <1> QED
    BY <1>4, <1>5

LEMMA ControlsStay == ASSUME ControlInv, Good
    PROVE \A i \in DOMAIN controls' : controls'[i] = "adjusted" =>
              /\ i > 1 /\ controls'[i - 1] = "auto"
              /\ \E f \in DOMAIN facts' : facts'[f].kind = "started" /\ facts'[f].trigger = i - 1
  <1> SUFFICES ASSUME NEW i \in DOMAIN controls', controls'[i] = "adjusted"
               PROVE  /\ i - 1 \in DOMAIN controls /\ controls[i - 1] = "auto"
                      /\ \E f \in DOMAIN facts : facts[f].kind = "started" /\ facts[f].trigger = i - 1
    <2>1. \A j \in DOMAIN controls : j >= 1 /\ j \in Nat /\ controls'[j] = controls[j]
      BY EventsKnown, Wider DEF Good
    <2>2. DOMAIN controls' \subseteq Nat
      BY Indices DEF Good, Grow, ControlsGrow
    <2>3. \A f \in DOMAIN facts : f \in DOMAIN facts' /\ facts'[f] = facts[f]
      BY Wider DEF Good
    <2> QED
      BY <2>1, <2>2, <2>3
  <1>1. CASE i \in DOMAIN controls
    <2>1. controls[i] = "adjusted"
      BY <1>1, Wider DEF Good
    <2>2. i > 1 /\ Process!Eligible(i - 1) /\ Process!Has({"started"}, i - 1)
      BY <1>1, <2>1 DEF ControlInv, Referred, Process!ControlHolds, Process!PauseRespected
    <2>3. i - 1 \in DOMAIN controls
      BY <1>1, <2>2, EventsKnown
    <2> QED
      BY <2>2, <2>3 DEF Process!Eligible, Process!Has
  <1>2. CASE i \notin DOMAIN controls
    <2>1. i = Process!Latest + 1 /\ Process!Latest \in DOMAIN controls /\ Process!Eligible(Process!Latest) /\ Process!Has({"started"}, Process!Latest)
      BY <1>2 DEF Good, Adjusts
    <2>2. i - 1 = Process!Latest
      BY <2>1, LatestKnown
    <2> QED
      BY <2>1, <2>2 DEF Process!Eligible, Process!Has
  <1> QED
    BY <1>1, <1>2

LEMMA GoodStep == ASSUME ControlInv, Good PROVE ControlInv'
  <1>1. Process!TypeOK'
    BY TypesStay
  <1>2. (Process!AppliedIsReviewed)'
    BY <1>1, RevisionsStay DEF Process!AppliedIsReviewed
  <1>3. Process!PauseRespected'
    BY ControlsStay, RevisionsStay DEF Process!PauseRespected, Process!Eligible, Process!Has
  <1>4. Process!ControlHolds'
    BY <1>2, <1>3 DEF Process!ControlHolds, Good, Work
  <1>5. Referred'
    <2>1. DOMAIN controls' = 1..Len(controls') /\ Len(controls') \in Nat
      BY Indices DEF Good, Grow, ControlsGrow
    <2>2. Len(controls') >= 1
      BY <2>1, LatestKnown DEF Good, Grow, ControlsGrow
    <2> QED
      BY <2>1, <2>2, DraftsStay, RevisionsStay, ControlsStay DEF Referred, Process!Latest
  <1>6. Apart' /\ (\A h \in Servers : Begun(hosts[h]))'
    BY DEF Good, Work, HostsFit, FitsIn, Begun, Process!Has, Process!Eligible
  <1>7. Shapes'
    <2>1. asks' \subseteq Nat
      <3>1. DOMAIN attempts' \subseteq Nat
        BY Indices DEF Good, Work
      <3> QED
        BY <3>1 DEF Good, Work, Process!Questions
    <2> QED
      BY <2>1, RevisionsStay DEF Shapes, Good, Grow, DraftsGrow, ReviewsGrow, ControlsGrow, FactsGrow, Work, HostsFit, FitsIn
  <1> QED
    BY <1>4, <1>5, <1>6, <1>7 DEF ControlInv

LEMMA ChangesStart == ASSUME Process!Init PROVE ControlInv
  <1>1. /\ DOMAIN controls = {1} /\ controls[1] = "started" /\ Process!Latest = 1 /\ controls \in Seq(Kinds)
    BY DEF Process!Init, Kinds, Process!Latest
  <1>2. /\ DOMAIN attempts = {} /\ DOMAIN drafts = {} /\ DOMAIN reviews = {} /\ DOMAIN revisions = {} /\ DOMAIN facts = {}
        /\ attempts \in Seq(AttemptType) /\ drafts \in Seq(DraftType) /\ reviews \in Seq(ReviewType)
        /\ revisions \in Seq(RevisionType) /\ Len(revisions) = 0 /\ facts \in Seq(FactType) /\ asks = {}
    BY DEF Process!Init
  <1>3. pPlan \in PlanType /\ Process!IsRevision(pPlan) /\ pPlan.rev = 1 /\ pRun \in Process!Run
    BY DEF Process!Init, PlanType, Process!IsRevision, Process!Node, Process!Run
  <1>4. /\ DOMAIN hosts = Servers
        /\ \A h \in Servers : /\ DOMAIN hosts[h] = CoordFields /\ hosts[h].pc = "idle" /\ hosts[h].pending = 0
                              /\ hosts[h].cursor = 0 /\ hosts[h].dropped = {} /\ hosts[h].trigger = 0
                              /\ hosts[h].draft = 0 /\ hosts[h].review = 0
    BY DEF Process!Init, CoordFields
  <1>5. Process!Starts = 0
    <2>1. {f \in DOMAIN facts : facts[f].kind = "started"} = {}
      BY <1>2
    <2> QED
      BY <2>1, FS_EmptySet DEF Process!Starts, Process!Cardinality, Cardinality
  <1>6. Shapes
    BY <1>1, <1>2, <1>3, <1>4 DEF Shapes
  <1>7. Referred /\ Apart
    BY <1>1, <1>2 DEF Referred, Apart, Held
  <1>8. Process!TypeOK
    BY <1>1, <1>2, <1>3, <1>4 DEF Process!TypeOK, Process!Coordinator
  <1>9. Process!AppliedIsReviewed /\ Process!WorkBelongs /\ Process!PauseRespected
    BY <1>1, <1>2, <1>8 DEF Process!AppliedIsReviewed, Process!WorkBelongs, Process!PauseRespected
  <1>10. Process!AdjustedOnce
    BY <1>2, <1>5, AdjustmentsAssumption DEF Process!AdjustedOnce
  <1> QED
    BY <1>4, <1>6, <1>7, <1>9, <1>10 DEF ControlInv, Process!ControlHolds, Begun

LEMMA ControlStutters == ASSUME ControlInv, UNCHANGED Process!vars PROVE ControlInv'
  <1>1. UNCHANGED drafts /\ UNCHANGED reviews /\ UNCHANGED controls /\ UNCHANGED facts /\ UNCHANGED hosts /\ UNCHANGED revisions
        /\ UNCHANGED Process!execution /\ UNCHANGED <<Process!process, facts, hosts>> /\ pRun' = pRun /\ pPlan' = pPlan
    BY DEF Process!vars, Process!execution, Process!process
  <1>2. Work' /\ pRun' \in Process!Run /\ ControlsGrow /\ Adjusts
    BY <1>1, WorkOf, WorkAsItIs, ControlsAsTheyAre DEF ControlInv, Shapes
  <1> QED
    BY <1>1, <1>2, ExecutionIsGood, GoodStep

(* A process that was published was drafted and reviewed for the plan it replaced; what runs,  *)
(* or waits for a person, belongs to the plan in force; a coordinator changes and goes on only  *)
(* for the pause it was started by, once, and within the Goal's policy: with any number of      *)
(* hosts, crashes, models at work and controls of people (process_changes.py,                   *)
(* process_reviews.py, process_adjustments.py and process_control.py).                          *)
THEOREM ChangesAreReviewed == ControlSpec => []ControlHolds
  <1>1. ControlInit => ControlInv
    BY ChangesStart DEF ControlInit
  <1>2. ASSUME ControlInv, [ControlNext]_all PROVE ControlInv'
    <2>1. CASE Process!Next
      BY <1>2, <2>1, NextIsGood, GoodStep
    <2>2. CASE UNCHANGED process
      <3>1. UNCHANGED Process!vars
        BY <2>2 DEF process, Process!vars, Process!execution, Process!process
      <3> QED
        BY <1>2, <3>1, ControlStutters
    <2> QED
      BY <1>2, <2>1, <2>2 DEF ControlNext, InBranches, InProcess, all
  <1>3. ControlInv => ControlHolds
    BY DEF ControlInv, ControlHolds
  <1> QED
    BY <1>1, <1>2, <1>3, PTL DEF ControlSpec
=============================================================================
