---------------------------- MODULE TaskGateProofs ----------------------------
(***************************************************************************)
(* Proofs about TaskGate, for any snapshots, units, reviews, requests and    *)
(* bounds: a snapshot is accepted by all of its decisions or by none, the     *)
(* triggers never refuse what the services have prepared, and callbacks are  *)
(* a queue that keeps its promise.                                           *)
(***************************************************************************)
EXTENDS TaskGate, FiniteSetTheorems, TLAPS

-----------------------------------------------------------------------------
(* The policy *)

\* What a snapshot says of its units, whoever reads it.
LEMMA Facts ==
  ASSUME taken \in Taken, NEW s \in Snapshots
  PROVE  /\ taken[s].finality \in Finalities
         /\ \A u \in Units : taken[s].unit[u] \in Axes
  BY TakenAssumption

\* Every failure that is classified keeps the gate from accepting: what counts as
\* a failure and what the policy asks for agree.
LEMMA FailuresAreNoticed ==
  ASSUME NEW a \in Axes, IsDiagnostic(a)
  PROVE  IsUnsettled(a) \/ IsRejected(a)
  BY DEF Axes, IsDiagnostic, IsUnsettled, IsRejected, HasOpenFacts

\* What a snapshot needs of itself to be accepted.
Acceptable(s) ==
  /\ taken[s].finality # "QUALITY_FINAL"
  /\ \A u \in Units : ~ IsUnsettled(taken[s].unit[u]) /\ ~ IsRejected(taken[s].unit[u])

\* A snapshot is accepted if it could be and every judgment is ready: the rest of the policy only
\* tells the two refusals apart.
LEMMA VerdictAccepts ==
  ASSUME NEW s \in Snapshots, NEW judgments
  PROVE  /\ Verdict(s, judgments) \in {"ACCEPTED", "REJECTED", "INCONCLUSIVE"}
         /\ Verdict(s, judgments) = "ACCEPTED" <=>
              Acceptable(s) /\ \A j \in judgments : IsReady(j)
<1>1. UnitsThat(IsUnsettled, s) # {} <=> \E u \in Units : IsUnsettled(taken[s].unit[u])
  BY DEF UnitsThat
<1>2. UnitsThat(IsRejected, s) # {} <=> \E u \in Units : IsRejected(taken[s].unit[u])
  BY DEF UnitsThat
<1> DEFINE open == \/ taken[s].finality = "QUALITY_FINAL"
                   \/ UnitsThat(IsUnsettled, s) # {}
                   \/ \E j \in judgments : ~ IsReady(j)
           rejected == UnitsThat(IsRejected, s) # {}
<1>3. Verdict(s, judgments) =
        IF open THEN "INCONCLUSIVE" ELSE IF rejected THEN "REJECTED" ELSE "ACCEPTED"
  BY DEF Verdict
<1>4. Acceptable(s) /\ (\A j \in judgments : IsReady(j)) <=> ~ open /\ ~ rejected
  BY <1>1, <1>2 DEF Acceptable
<1> HIDE DEF open, rejected
<1>5. open \/ (~ open /\ rejected) \/ (~ open /\ ~ rejected)
  OBVIOUS
<1> QED
  BY <1>3, <1>4, <1>5

\* A judgment by rule is a judgment.
LEMMA RuleIsJudgment ==
  ASSUME NEW a \in Axes
  PROVE  RuleJudgment(a) \in Judgments
<1>1. Domain(a) \in Domains
  BY DEF Domain, Domains
<1>2. Confidence(a) \in {10000, 9500, 9000, 7500, 0, 2500}
  BY DEF Confidence
<1>3. Confidence(a) \in 0..10000
  BY <1>2
<1>4. (Domain(a) \notin {"CLEANUP", "EVIDENCE", "POLICY_SECURITY"}) \in BOOLEAN
  OBVIOUS
<1> QED
  BY <1>1, <1>3, <1>4 DEF RuleJudgment, Judgments, States

\* A group is never empty, and its chain is a chain.
LEMMA GroupsAreChains ==
  ASSUME taken \in Taken, NEW s \in Snapshots, NEW g \in Groups(s)
  PROVE  <<s, g>> \in Chains /\ Representative(<<s, g>>) \in Units
<1>1. PICK u \in Units : g = GroupOf(s, u)
  BY DEF Groups
<1>2. g \subseteq Units /\ u \in g
  <2>1. taken[s].unit[u] \in Axes
    BY Facts
  <2>2. SameSignal(taken[s].unit[u], taken[s].unit[u])
    BY <2>1 DEF SameSignal, Axes
  <2> QED
    BY <1>1, <2>2 DEF GroupOf
<1> QED
  BY <1>2 DEF Chains, Representative

\* Where nothing keeps a snapshot from being accepted there is no failure.
LEMMA AcceptableHasNoGroups ==
  ASSUME taken \in Taken, NEW s \in Snapshots, Acceptable(s)
  PROVE  Groups(s) = {}
  BY Facts, FailuresAreNoticed DEF Acceptable, Groups

-----------------------------------------------------------------------------
(* Rows.  They are typed first, and a chain is a chain of judgments of one    *)
(* group of the snapshot, which has a failure in it.                         *)

\* The reviewers that have added to a chain.
DoneOn(c) == {r \in Reviewers : reviewer[r].at = "DONE" /\ reviewer[r].chain = c}

JudgedGroups == \A c \in Chains : judgment[c] # <<>> => c[2] \in Groups(c[1])

ReviewersFound == \A r \in Reviewers : reviewer[r].at # Idle => judgment[reviewer[r].chain] # <<>>

ChainsCounted == \A c \in Chains : judgment[c] # <<>> => Len(judgment[c]) = 1 + Cardinality(DoneOn(c))

LocksHeld ==
  \A r \in Reviewers : reviewer[r].at = "LOCKED" =>
    /\ reviewer[r].latest = Len(judgment[reviewer[r].chain])
    /\ \A q \in Reviewers :
         reviewer[q].at = "LOCKED" /\ reviewer[q].chain = reviewer[r].chain => q = r

RowsTyped ==
  /\ taken \in Taken
  /\ judgment \in [Chains -> Seq(Judgments)]
  /\ evaluator \in [Evaluators -> EvaluatorRecords]
  /\ reviewer \in [Reviewers -> ReviewerRecords]
  /\ decision \in Seq(Decisions)

ReviewInv ==
  /\ RowsTyped /\ JudgedGroups /\ ReviewersFound /\ ChainsCounted /\ LocksHeld
  /\ \A r \in Reviewers : reviewer[r].at # "RAISED"

\* Each reviewer adds to one chain, once: no chain grows beyond the bound.
LEMMA ChainsBounded ==
  ASSUME RowsTyped, ChainsCounted, NEW c \in Chains
  PROVE  /\ IsFiniteSet(DoneOn(c)) /\ Cardinality(DoneOn(c)) \in Nat
         /\ MaxChain \in Nat \ {0} /\ Len(judgment[c]) \in 0..MaxChain
<1>1. /\ IsFiniteSet(DoneOn(c)) /\ Cardinality(DoneOn(c)) \in Nat
      /\ Cardinality(Reviewers) \in Nat /\ Cardinality(DoneOn(c)) <= Cardinality(Reviewers)
  BY GateAssumption, FS_Subset, FS_CardinalityType DEF DoneOn
<1>2. Len(judgment[c]) \in Nat /\ (judgment[c] = <<>> => Len(judgment[c]) = 0)
  BY DEF RowsTyped
<1>3. Len(judgment[c]) <= 1 + Cardinality(Reviewers)
  BY <1>1, <1>2 DEF ChainsCounted
<1> QED
  BY <1>1, <1>2, <1>3 DEF MaxChain

\* Before the first request there is nothing judged, looked at or decided.
LEMMA InitReview == Init => ReviewInv
<1> SUFFICES ASSUME Init PROVE ReviewInv
  OBVIOUS
<1>1. (CHOOSE s \in Snapshots : TRUE) \in Snapshots
  BY GateAssumption
<1>2. NoChain \in Chains
  <2>1. PICK s : s \in Snapshots
    BY GateAssumption
  <2>2. <<s, {}>> \in Chains /\ <<s, {}>>[2] = {}
    BY <2>1 DEF Chains
  <2> QED
    BY <2>2 DEF NoChain
<1>3. MaxChain \in Nat
  BY GateAssumption, FS_CardinalityType DEF MaxChain
<1>4. RowsTyped
  BY <1>1, <1>2, <1>3 DEF Init, RowsTyped, EvaluatorRecords, ReviewerRecords, Idle
<1>5. \A c \in Chains : judgment[c] = <<>>
  BY DEF Init
<1>6. \A r \in Reviewers : reviewer[r].at = "IDLE"
  BY DEF Init, Idle
<1> QED
  BY <1>4, <1>5, <1>6 DEF ReviewInv, JudgedGroups, ReviewersFound, ChainsCounted, LocksHeld, Idle

\* What a step does to the requests to decide, if it does not touch the others.
LEMMA EvaluatorsTyped ==
  ASSUME RowsTyped, NEW e \in Evaluators,
         \/ \E s \in Snapshots : Request(e, s)
         \/ Repeat(e) \/ Classify(e) \/ Begin(e)
         \/ \E c \in Chains : LockChain(e, c)
         \/ Decide(e)
         \/ \E r \in Reviewers : AbortDeadlock(e, r)
  PROVE  evaluator' \in [Evaluators -> EvaluatorRecords]
<1> USE DEF RowsTyped, EvaluatorRecords
<1>1. ASSUME NEW s \in Snapshots, Request(e, s) PROVE evaluator' \in [Evaluators -> EvaluatorRecords]
  BY <1>1 DEF Request
<1>2. CASE Repeat(e) \/ Classify(e)
  <2>1. PICK at \in {"CLASSIFY", "GATE"} : evaluator' = [evaluator EXCEPT ![e].at = at]
    BY <1>2 DEF Repeat, Classify
  <2> QED
    BY <2>1
<1>3. CASE Begin(e)
  <2>1. ChainsOf(evaluator[e].snapshot) \subseteq Chains
    BY DEF ChainsOf
  <2>2. Len(decision) \in Nat
    OBVIOUS
  <2> DEFINE row == [evaluator[e] EXCEPT !.at = "LOCKING", !.previous = Len(decision),
                                         !.wants = ChainsOf(evaluator[e].snapshot)]
  <2>3. row \in EvaluatorRecords
    BY <2>1, <2>2
  <2> DEFINE done == [evaluator[e] EXCEPT !.at = "DONE"]
  <2>4. done \in EvaluatorRecords
    OBVIOUS
  <2>5. evaluator' = [evaluator EXCEPT ![e] = done] \/ evaluator' = [evaluator EXCEPT ![e] = row]
    BY <1>3 DEF Begin
  <2> HIDE DEF row, done
  <2> QED
    BY <2>3, <2>4, <2>5
<1>4. ASSUME NEW c \in Chains, LockChain(e, c) PROVE evaluator' \in [Evaluators -> EvaluatorRecords]
  BY <1>4 DEF LockChain
<1>5. CASE Decide(e)
  <2>1. PICK at \in {"DONE", "UNANSWERED", "RAISED"} :
          evaluator' = [evaluator EXCEPT ![e].at = at, ![e].held = {}]
    BY <1>5 DEF Decide
  <2> QED
    BY <2>1
<1>6. ASSUME NEW r \in Reviewers, AbortDeadlock(e, r)
      PROVE  evaluator' \in [Evaluators -> EvaluatorRecords]
  <2>1. \/ evaluator' = [evaluator EXCEPT ![e].at = "ABORTED", ![e].held = {}, ![e].wants = {}]
        \/ evaluator' = evaluator
    BY <1>6 DEF AbortDeadlock
  <2> DEFINE row == [evaluator[e] EXCEPT !.at = "ABORTED", !.held = {}, !.wants = {}]
  <2>2. {} \in SUBSET Chains
    OBVIOUS
  <2>3. row \in EvaluatorRecords
    BY <2>2
  <2>4. evaluator' = [evaluator EXCEPT ![e] = row] \/ evaluator' = evaluator
    BY <2>1
  <2> HIDE DEF row
  <2> QED
    BY <2>3, <2>4
<1> QED
  BY <1>1, <1>2, <1>3, <1>4, <1>5, <1>6

\* Snapshots never change, so neither do their groups.
LEMMA GroupsStay ==
  ASSUME taken' = taken, NEW s
  PROVE  Groups(s)' = Groups(s)
  BY DEF Groups, GroupOf

\* Steps of decisions do not touch reviews.
LEMMA ReviewsUntouched ==
  ASSUME ReviewInv, UNCHANGED <<taken, judgment, reviewer>>, RowsTyped'
  PROVE  ReviewInv'
<1>1. \A c \in Chains : DoneOn(c)' = DoneOn(c)
  BY DEF DoneOn
<1> QED
  BY <1>1, GroupsStay DEF ReviewInv, JudgedGroups, ReviewersFound, ChainsCounted, LocksHeld

\* A reviewer that moves on without writing counts for no chain.
LEMMA ReviewerMoves ==
  ASSUME ReviewInv, NEW r \in Reviewers, NEW row \in ReviewerRecords,
         reviewer[r].at # "DONE", row.at \notin {"DONE", "IDLE", "RAISED"},
         judgment[row.chain] # <<>>,
         row.at = "LOCKED" =>
           /\ row.latest = Len(judgment[row.chain])
           /\ \A q \in Reviewers \ {r} : reviewer[q].at = "LOCKED" => reviewer[q].chain # row.chain,
         reviewer' = [reviewer EXCEPT ![r] = row],
         UNCHANGED <<taken, judgment, decision>>,
         evaluator' \in [Evaluators -> EvaluatorRecords]
  PROVE  ReviewInv'
<1>1. /\ reviewer'[r] = row /\ \A q \in Reviewers \ {r} : reviewer'[q] = reviewer[q]
      /\ reviewer' \in [Reviewers -> ReviewerRecords]
  BY DEF ReviewInv, RowsTyped
<1>2. RowsTyped'
  BY <1>1 DEF ReviewInv, RowsTyped
<1>3. \A c \in Chains : DoneOn(c)' = DoneOn(c)
  BY <1>1 DEF DoneOn
<1>4. JudgedGroups' /\ ChainsCounted'
  BY <1>3, GroupsStay DEF ReviewInv, JudgedGroups, ChainsCounted
<1>5. ReviewersFound' /\ \A q \in Reviewers : reviewer'[q].at # "RAISED"
  BY <1>1 DEF ReviewInv, ReviewersFound, Idle
<1>6. LocksHeld'
  BY <1>1 DEF ReviewInv, LocksHeld
<1> QED
  BY <1>2, <1>4, <1>5, <1>6 DEF ReviewInv

\* Classification judges what has no judgment yet, once for each group.
LEMMA ClassifyReviews ==
  ASSUME ReviewInv, NEW e \in Evaluators, Classify(e)
  PROVE  /\ ReviewInv'
         /\ \A c \in Chains : judgment[c] # <<>> => judgment'[c] = judgment[c]
         /\ \A g \in Groups(evaluator[e].snapshot) : judgment'[<<evaluator[e].snapshot, g>>] # <<>>
<1> DEFINE s == evaluator[e].snapshot
           unjudged == {<<s, g>> : g \in Groups(s)} \ ChainsOf(s)
           first(c) == RuleJudgment(taken[s].unit[Representative(c)])
<1>1. /\ judgment' = [c \in Chains |-> IF c \in unjudged THEN <<first(c)>> ELSE judgment[c]]
      /\ UNCHANGED <<taken, decision, reviewer>>
  BY DEF Classify
<1>2. s \in Snapshots /\ taken \in Taken
  BY DEF ReviewInv, RowsTyped, EvaluatorRecords
<1>3. evaluator' \in [Evaluators -> EvaluatorRecords]
  BY EvaluatorsTyped DEF ReviewInv
<1>4. ASSUME NEW c \in unjudged
      PROVE  c \in Chains /\ judgment[c] = <<>> /\ c[1] = s /\ c[2] \in Groups(s) /\ first(c) \in Judgments
  <2>1. PICK g \in Groups(s) : c = <<s, g>>
    OBVIOUS
  <2>2. c \in Chains /\ Representative(c) \in Units
    BY <1>2, <2>1, GroupsAreChains
  <2>3. judgment[c] = <<>>
    BY <2>1, <2>2 DEF ChainsOf
  <2>4. first(c) \in Judgments
    BY <1>2, <2>2, Facts, RuleIsJudgment
  <2> QED
    BY <2>1, <2>2, <2>3, <2>4
<1>5. \A g \in Groups(s) : <<s, g>> \in Chains /\ (<<s, g>> \notin unjudged => judgment[<<s, g>>] # <<>>)
  BY <1>2, GroupsAreChains DEF ChainsOf
<1> HIDE DEF s, unjudged, first
<1>6. /\ judgment' \in [Chains -> Seq(Judgments)]
      /\ \A c \in Chains : judgment[c] # <<>> => judgment'[c] = judgment[c]
      /\ \A c \in Chains : judgment'[c] # <<>> => judgment[c] # <<>> \/ c \in unjudged
      /\ \A c \in unjudged : judgment'[c] = <<first(c)>> /\ judgment'[c] # <<>> /\ Len(judgment'[c]) = 1
  BY <1>1, <1>4 DEF ReviewInv, RowsTyped
<1>7. RowsTyped'
  BY <1>1, <1>3, <1>6 DEF ReviewInv, RowsTyped
<1>8. JudgedGroups'
  BY <1>1, <1>4, <1>6, GroupsStay DEF ReviewInv, JudgedGroups
<1>9. ReviewersFound'
  BY <1>1, <1>6 DEF ReviewInv, RowsTyped, ReviewersFound, ReviewerRecords
<1>10. ChainsCounted'
  <2> SUFFICES ASSUME NEW c \in Chains, judgment'[c] # <<>>
               PROVE  Len(judgment'[c]) = 1 + Cardinality(DoneOn(c))
    BY <1>1 DEF ChainsCounted, DoneOn
  <2>1. CASE judgment[c] # <<>>
    BY <1>6, <2>1 DEF ReviewInv, ChainsCounted
  <2>2. CASE judgment[c] = <<>>
    <3>1. DoneOn(c) = {}
      BY <2>2 DEF DoneOn, ReviewInv, ReviewersFound, Idle
    <3>2. Len(judgment'[c]) = 1
      BY <1>6, <2>2
    <3> QED
      BY <3>1, <3>2, FS_EmptySet
  <2> QED
    BY <2>1, <2>2
<1>11. LocksHeld'
  BY <1>1, <1>6 DEF ReviewInv, RowsTyped, ReviewersFound, LocksHeld, ReviewerRecords, Idle
<1>12. \A g \in Groups(s) : judgment'[<<s, g>>] # <<>>
  BY <1>5, <1>6
<1> QED
  BY <1>1, <1>6, <1>7, <1>8, <1>9, <1>10, <1>11, <1>12 DEF ReviewInv, s

\* A review adds one judgment to the chain its reviewer has locked, and is never
\* refused: nobody else can have added to it since.
LEMMA ReviewReviews ==
  ASSUME ReviewInv, NEW r \in Reviewers, NEW j \in Reviews, Review(r, j)
  PROVE  /\ ReviewInv' /\ UNCHANGED <<taken, decision, evaluator>>
         /\ \A c \in Chains : judgment[c] # <<>> => judgment'[c] # <<>>
<1> DEFINE c == reviewer[r].chain
<1>1. /\ reviewer[r].at = "LOCKED" /\ c \in Chains /\ judgment[c] # <<>>
      /\ reviewer[r].latest = Len(judgment[c]) /\ j \in Judgments
      /\ judgment[c] \in Seq(Judgments)
  BY ReviewsAssumption
  DEF Review, ReviewInv, RowsTyped, LocksHeld, ReviewersFound, ReviewerRecords, Idle
<1>2. /\ judgment' = [judgment EXCEPT ![c] = Append(@, j)]
      /\ reviewer' = [reviewer EXCEPT ![r].at = "DONE"]
      /\ UNCHANGED <<taken, decision, evaluator>>
  BY <1>1 DEF Review
<1> HIDE DEF c
<1>3. /\ judgment'[c] = Append(judgment[c], j) /\ \A d \in Chains \ {c} : judgment'[d] = judgment[d]
      /\ judgment' \in [Chains -> Seq(Judgments)]
      /\ judgment'[c] # <<>> /\ Len(judgment'[c]) = Len(judgment[c]) + 1
  <2> DEFINE longer == Append(judgment[c], j)
  <2>1. longer \in Seq(Judgments) /\ longer # <<>> /\ Len(longer) = Len(judgment[c]) + 1
    BY <1>1
  <2>2. judgment' = [judgment EXCEPT ![c] = longer]
    BY <1>2
  <2> HIDE DEF longer
  <2>3. /\ judgment'[c] = longer /\ \A d \in Chains \ {c} : judgment'[d] = judgment[d]
        /\ judgment' \in [Chains -> Seq(Judgments)]
    BY <1>1, <2>1, <2>2 DEF ReviewInv, RowsTyped
  <2> QED
    BY <2>1, <2>3 DEF longer
<1>4. /\ reviewer'[r].at = "DONE" /\ reviewer'[r].chain = c
      /\ \A q \in Reviewers \ {r} : reviewer'[q] = reviewer[q]
      /\ reviewer' \in [Reviewers -> ReviewerRecords]
  BY <1>2 DEF ReviewInv, RowsTyped, ReviewerRecords, c
<1>5. RowsTyped'
  BY <1>2, <1>3, <1>4 DEF ReviewInv, RowsTyped
<1>6. JudgedGroups'
  <2> SUFFICES ASSUME NEW d \in Chains, judgment'[d] # <<>>
               PROVE  d[2] \in Groups(d[1])'
    BY DEF JudgedGroups
  <2>1. judgment[d] # <<>>
    BY <1>1, <1>3
  <2> QED
    BY <2>1, <1>2, GroupsStay DEF ReviewInv, JudgedGroups
<1>7. ReviewersFound'
  <2> SUFFICES ASSUME NEW q \in Reviewers, reviewer'[q].at # Idle
               PROVE  judgment'[reviewer'[q].chain] # <<>>
    BY DEF ReviewersFound, Idle
  <2>1. CASE q = r
    BY <2>1, <1>3, <1>4
  <2>2. CASE q # r
    BY <2>2, <1>1, <1>3, <1>4 DEF ReviewInv, RowsTyped, ReviewersFound, ReviewerRecords
  <2> QED
    BY <2>1, <2>2
<1>8. ChainsCounted'
  <2> SUFFICES ASSUME NEW d \in Chains, judgment'[d] # <<>>
               PROVE  Len(judgment'[d]) = 1 + Cardinality(DoneOn(d)')
    BY DEF ChainsCounted
  <2>1. CASE d = c
    <3>1. DoneOn(d)' = DoneOn(d) \cup {r} /\ r \notin DoneOn(d)
      BY <2>1, <1>1, <1>4 DEF DoneOn
    <3>2. IsFiniteSet(DoneOn(d)) /\ Cardinality(DoneOn(d)) \in Nat
      BY ChainsBounded DEF ReviewInv
    <3>3. Cardinality(DoneOn(d)') = Cardinality(DoneOn(d)) + 1
      BY <3>1, <3>2, FS_AddElement
    <3>4. Len(judgment[d]) = 1 + Cardinality(DoneOn(d))
      BY <1>1, <2>1 DEF ReviewInv, ChainsCounted
    <3> QED
      BY <3>2, <3>3, <3>4, <2>1, <1>3
  <2>2. CASE d # c
    <3>1. DoneOn(d)' = DoneOn(d)
      BY <2>2, <1>1, <1>4 DEF DoneOn
    <3> QED
      BY <3>1, <2>2, <1>3 DEF ReviewInv, ChainsCounted
  <2> QED
    BY <2>1, <2>2
<1>9. LocksHeld'
  <2> SUFFICES ASSUME NEW q \in Reviewers, reviewer'[q].at = "LOCKED"
               PROVE  /\ reviewer'[q].latest = Len(judgment'[reviewer'[q].chain])
                      /\ \A p \in Reviewers :
                           reviewer'[p].at = "LOCKED" /\ reviewer'[p].chain = reviewer'[q].chain
                             => p = q
    BY DEF LocksHeld
  <2>1. q # r /\ reviewer'[q] = reviewer[q] /\ reviewer[q].chain \in Chains
    BY <1>4 DEF ReviewInv, RowsTyped, ReviewerRecords
  <2>2. reviewer[q].chain # c
    BY <2>1, <1>1 DEF ReviewInv, LocksHeld, c
  <2> QED
    BY <2>1, <2>2, <1>3, <1>4 DEF ReviewInv, LocksHeld
<1>10. \A q \in Reviewers : reviewer'[q].at # "RAISED"
  BY <1>4 DEF ReviewInv
<1>11. \A d \in Chains : judgment[d] # <<>> => judgment'[d] # <<>>
  BY <1>3
<1> QED
  BY <1>2, <1>5, <1>6, <1>7, <1>8, <1>9, <1>10, <1>11 DEF ReviewInv

\* What a decision binds exists: judgments of its snapshot by their revisions.
LEMMA DecisionTyped ==
  ASSUME ReviewInv, NEW e \in Evaluators, NEW s \in Snapshots
  PROVE  [snapshot |-> s, inputs |-> Inputs(s), by |-> e, verdict |-> Verdict(s, LatestOf(s))]
           \in Decisions
<1>1. Inputs(s) \subseteq Chains \X (1..MaxChain)
  <2> SUFFICES ASSUME NEW c \in ChainsOf(s) PROVE <<c, Len(judgment[c])>> \in Chains \X (1..MaxChain)
    BY DEF Inputs
  <2>1. c \in Chains /\ judgment[c] # <<>> /\ judgment[c] \in Seq(Judgments)
    BY DEF ChainsOf, ReviewInv, RowsTyped
  <2>2. MaxChain \in Nat /\ Len(judgment[c]) \in 0..MaxChain
    BY <2>1, ChainsBounded DEF ReviewInv
  <2>3. Len(judgment[c]) \in 1..MaxChain
    BY <2>1, <2>2
  <2> QED
    BY <2>1, <2>3
<1>2. Verdict(s, LatestOf(s)) \in {"ACCEPTED", "REJECTED", "INCONCLUSIVE"}
  BY VerdictAccepts
<1> QED
  BY <1>1, <1>2 DEF Decisions

\* A decision names judgments of the latest revisions only, and leaves the chains as they are.
LEMMA DecideTyped ==
  ASSUME ReviewInv, NEW e \in Evaluators, Decide(e)
  PROVE  ReviewInv'
<1> DEFINE s == evaluator[e].snapshot
           d == [snapshot |-> s, inputs |-> Inputs(s), by |-> e, verdict |-> Verdict(s, LatestOf(s))]
<1>1. d \in Decisions
  BY DecisionTyped DEF ReviewInv, RowsTyped, EvaluatorRecords
<1>2. decision' = Append(decision, d) \/ decision' = decision
  BY DEF Decide
<1>3. UNCHANGED <<taken, judgment, reviewer>>
  BY DEF Decide
<1>4. evaluator' \in [Evaluators -> EvaluatorRecords]
  BY EvaluatorsTyped DEF ReviewInv
<1> HIDE DEF d
<1>5. decision' \in Seq(Decisions)
  <2>1. decision \in Seq(Decisions)
    BY DEF ReviewInv, RowsTyped
  <2> QED
    BY <1>1, <1>2, <2>1
<1>6. RowsTyped'
  BY <1>3, <1>4, <1>5 DEF ReviewInv, RowsTyped
<1> QED
  BY <1>3, <1>6, ReviewsUntouched

\* The steps of one reviewer.
LEMMA ReviewerSteps ==
  ASSUME ReviewInv, NEW r \in Reviewers,
         \/ \E c \in Chains : Look(r, c)
         \/ LockReviewed(r) \/ Conflict(r) \/ LookAgain(r)
  PROVE  ReviewInv'
<1>1. /\ reviewer[r] \in ReviewerRecords /\ evaluator \in [Evaluators -> EvaluatorRecords]
      /\ \A c \in Chains : Len(judgment[c]) \in 0..MaxChain /\ judgment[c] \in Seq(Judgments)
  BY ChainsBounded DEF ReviewInv, RowsTyped
<1>2. ASSUME NEW c \in Chains, Look(r, c) PROVE ReviewInv'
  <2> DEFINE row == [reviewer[r] EXCEPT !.at = "LOOKED", !.chain = c, !.seen = Len(judgment[c])]
  <2>1. row \in ReviewerRecords /\ row.at = "LOOKED" /\ row.chain = c
    BY <1>1 DEF ReviewerRecords
  <2>2. /\ reviewer' = [reviewer EXCEPT ![r] = row] /\ reviewer[r].at = "IDLE" /\ judgment[c] # <<>>
        /\ UNCHANGED <<taken, judgment, decision, evaluator>>
    BY <1>2 DEF Look, Idle
  <2> HIDE DEF row
  <2> QED
    BY <2>1, <2>2, <1>1, ReviewerMoves
<1>3. CASE LockReviewed(r)
  <2> DEFINE c == reviewer[r].chain
             row == [reviewer[r] EXCEPT !.at = "LOCKED", !.latest = Len(judgment[c])]
  <2>1. reviewer[r].at = "LOOKED" /\ c \in Chains /\ judgment[c] # <<>>
    BY <1>1, <1>3 DEF LockReviewed, ReviewerRecords, ReviewInv, ReviewersFound, Idle
  <2>2. /\ row \in ReviewerRecords /\ row.at = "LOCKED" /\ row.chain = c
        /\ row.latest = Len(judgment[c])
    BY <1>1, <2>1 DEF ReviewerRecords
  <2>3. /\ reviewer' = [reviewer EXCEPT ![r] = row]
        /\ UNCHANGED <<taken, judgment, decision, evaluator>>
    BY <1>3 DEF LockReviewed
  <2>4. \A q \in Reviewers : reviewer[q].at = "LOCKED" => reviewer[q].chain # c
    BY <1>3 DEF LockReviewed, ChainIsFree, HoldersOf
  <2> HIDE DEF row, c
  <2> QED
    BY <2>1, <2>2, <2>3, <2>4, <1>1, ReviewerMoves
<1>4. CASE Conflict(r)
  <2> DEFINE row == [reviewer[r] EXCEPT !.at = "CONFLICT"]
  <2>1. row \in ReviewerRecords /\ row.at = "CONFLICT" /\ row.chain = reviewer[r].chain
    BY <1>1 DEF ReviewerRecords
  <2>2. /\ reviewer' = [reviewer EXCEPT ![r] = row] /\ reviewer[r].at = "LOCKED"
        /\ UNCHANGED <<taken, judgment, decision, evaluator>>
    BY <1>4 DEF Conflict
  <2>3. judgment[row.chain] # <<>>
    BY <2>1, <2>2 DEF ReviewInv, ReviewersFound, Idle
  <2> HIDE DEF row
  <2> QED
    BY <2>1, <2>2, <2>3, <1>1, ReviewerMoves
<1>5. CASE LookAgain(r)
  <2> DEFINE row == [reviewer[r] EXCEPT !.at = "LOOKED", !.seen = Len(judgment[reviewer[r].chain])]
  <2>1. row \in ReviewerRecords /\ row.at = "LOOKED" /\ row.chain = reviewer[r].chain
    BY <1>1 DEF ReviewerRecords
  <2>2. /\ reviewer' = [reviewer EXCEPT ![r] = row] /\ reviewer[r].at \in {"CONFLICT", "ABORTED"}
        /\ UNCHANGED <<taken, judgment, decision, evaluator>>
    BY <1>5 DEF LookAgain
  <2>3. judgment[row.chain] # <<>>
    BY <2>1, <2>2 DEF ReviewInv, ReviewersFound, Idle
  <2> HIDE DEF row
  <2> QED
    BY <2>1, <2>2, <2>3, <1>1, ReviewerMoves
<1> QED
  BY <1>2, <1>3, <1>4, <1>5

\* An aborted request gives its locks back and has changed nothing.
LEMMA DeadlockReviews ==
  ASSUME ReviewInv, NEW e \in Evaluators, NEW r \in Reviewers, AbortDeadlock(e, r)
  PROVE  ReviewInv'
<1>1. evaluator' \in [Evaluators -> EvaluatorRecords] /\ UNCHANGED <<taken, judgment, decision>>
  BY EvaluatorsTyped DEF ReviewInv, AbortDeadlock
<1>2. CASE reviewer' = reviewer
  <2>1. RowsTyped'
    BY <1>1, <1>2 DEF ReviewInv, RowsTyped
  <2> QED
    BY <1>1, <1>2, <2>1, ReviewsUntouched
<1>3. CASE reviewer' = [reviewer EXCEPT ![r].at = "ABORTED"]
  <2> DEFINE row == [reviewer[r] EXCEPT !.at = "ABORTED"]
  <2>1. row \in ReviewerRecords /\ row.at = "ABORTED" /\ row.chain = reviewer[r].chain
    BY DEF ReviewInv, RowsTyped, ReviewerRecords
  <2>2. reviewer' = [reviewer EXCEPT ![r] = row] /\ reviewer[r].at = "LOCKED"
    BY <1>3 DEF AbortDeadlock, Deadlocked
  <2>3. judgment[row.chain] # <<>>
    BY <2>1, <2>2 DEF ReviewInv, ReviewersFound, Idle
  <2> HIDE DEF row
  <2> QED
    BY <2>1, <2>2, <2>3, <1>1, ReviewerMoves
<1> QED
  BY <1>2, <1>3 DEF AbortDeadlock

\* Every step of Next keeps the rows and the reviews in order.
LEMMA ReviewStep ==
  ASSUME ReviewInv, [Next]_vars
  PROVE  ReviewInv'
<1>1. CASE RequestActs
  <2>1. ASSUME NEW e \in Evaluators,
               \/ \E s \in Snapshots : Request(e, s)
               \/ Repeat(e) \/ BeginGate(e)
               \/ \E c \in Chains : LockChain(e, c)
        PROVE  ReviewInv'
    <3>1. UNCHANGED <<taken, judgment, decision, reviewer>>
      BY <2>1 DEF Request, Repeat, BeginGate, LockChain
    <3>2. evaluator' \in [Evaluators -> EvaluatorRecords]
      BY <2>1, EvaluatorsTyped DEF ReviewInv, BeginGate
    <3>3. RowsTyped'
      BY <3>1, <3>2 DEF ReviewInv, RowsTyped
    <3> QED
      BY <3>1, <3>3, ReviewsUntouched
  <2> QED
    BY <1>1, <2>1, ClassifyReviews, ReviewReviews, ReviewerSteps, DeadlockReviews DEF RequestActs
<1>2. ASSUME NEW e \in Evaluators, Decide(e) PROVE ReviewInv'
  BY <1>2, DecideTyped
<1>3. CASE UNCHANGED requests
  <2>1. RowsTyped'
    BY <1>3 DEF requests, ReviewInv, RowsTyped
  <2> QED
    BY <1>3, <2>1, ReviewsUntouched DEF requests
<1> QED
  BY <1>1, <1>2, <1>3 DEF Next, vars

-----------------------------------------------------------------------------
(* Decisions.  Whoever has classified a snapshot finds its groups judged, and  *)
(* the run is locked from the reading of the latest decision to the commit.   *)

AllJudged(s) == \A g \in Groups(s) : judgment[<<s, g>>] # <<>>

Classified ==
  \A e \in Evaluators : evaluator[e].at \in {"GATE", "LOCKING"} => AllJudged(evaluator[e].snapshot)

OneDecides ==
  \A e \in Evaluators : evaluator[e].at = "LOCKING" =>
    /\ evaluator[e].previous = Len(decision) /\ ~ IsDecided(e)
    /\ \A f \in Evaluators : evaluator[f].at = "LOCKING" => f = e

EndedOnes ==
  \A e \in Evaluators :
    /\ evaluator[e].at # "RAISED"
    /\ evaluator[e].at = "DONE" => IsDecided(e)

DecidedOnce == \A i, k \in DOMAIN decision : decision[i].by = decision[k].by => i = k

VerdictsFixed ==
  \A i \in DOMAIN decision : decision[i].verdict = "ACCEPTED" <=> Acceptable(decision[i].snapshot)

DecideInv == Classified /\ OneDecides /\ EndedOnes /\ DecidedOnce /\ VerdictsFixed

\* The same after a step.
WillBeJudged(s) == \A g \in Groups(s) : judgment'[<<s, g>>] # <<>>

\* Judgments are only added.
JudgedStay == \A c \in Chains : judgment[c] # <<>> => judgment'[c] # <<>>

\* A snapshot whose groups are judged stays so, as judgments are only added.
LEMMA AllJudgedStays ==
  ASSUME taken \in Taken, JudgedStay, NEW s \in Snapshots, AllJudged(s)
  PROVE  WillBeJudged(s)
<1>1. \A g \in Groups(s) : <<s, g>> \in Chains
  BY GroupsAreChains
<1> QED
  BY <1>1 DEF AllJudged, WillBeJudged, JudgedStay

\* What Classified says of the next state.
LEMMA ClassifiedNext ==
  ASSUME taken' = taken,
         \A e \in Evaluators : evaluator'[e].at \in {"GATE", "LOCKING"} =>
            WillBeJudged(evaluator'[e].snapshot)
  PROVE  Classified'
<1>1. \A s : AllJudged(s)' <=> WillBeJudged(s)
  BY GroupsStay DEF AllJudged, WillBeJudged
<1> QED
  BY <1>1, GroupsStay DEF Classified, AllJudged, WillBeJudged

\* Nobody decides at first.
LEMMA InitDecide == Init => DecideInv
  BY DEF Init, DecideInv, Classified, OneDecides, EndedOnes, DecidedOnce, VerdictsFixed, Idle

\* A request to decide moves on, and no decision is taken by that.
LEMMA EvaluatorMoves ==
  ASSUME ReviewInv, ReviewInv', DecideInv, JudgedStay, UNCHANGED <<taken, decision>>,
         NEW e \in Evaluators, NEW row, evaluator' = [evaluator EXCEPT ![e] = row],
         row.at # "RAISED",
         row.at = "DONE" => IsDecided(e),
         row.at \in {"GATE", "LOCKING"} => WillBeJudged(row.snapshot),
         row.at = "LOCKING" =>
           /\ row.previous = Len(decision) /\ ~ IsDecided(e)
           /\ \A f \in Evaluators \ {e} : evaluator[f].at # "LOCKING"
  PROVE  DecideInv'
<1>1. /\ evaluator'[e] = row /\ \A f \in Evaluators \ {e} : evaluator'[f] = evaluator[f]
      /\ \A f \in Evaluators : evaluator[f].snapshot \in Snapshots
      /\ taken \in Taken
  BY DEF ReviewInv, RowsTyped, EvaluatorRecords
<1>2. Classified'
  <2> SUFFICES ASSUME NEW f \in Evaluators, evaluator'[f].at \in {"GATE", "LOCKING"}
               PROVE  WillBeJudged(evaluator'[f].snapshot)
    BY ClassifiedNext
  <2>1. CASE f = e
    BY <1>1, <2>1
  <2>2. CASE f # e
    BY <1>1, <2>2, AllJudgedStays DEF DecideInv, Classified
  <2> QED
    BY <2>1, <2>2
<1>3. \A f \in Evaluators : IsDecided(f)' <=> IsDecided(f)
  BY DEF IsDecided
<1>4. OneDecides' /\ EndedOnes'
  BY <1>1, <1>3 DEF DecideInv, OneDecides, EndedOnes
<1>5. DecidedOnce' /\ VerdictsFixed'
  BY DEF DecideInv, DecidedOnce, VerdictsFixed, Acceptable, UnitsThat
<1> QED
  BY <1>2, <1>4, <1>5 DEF DecideInv

\* Requests to decide stay where they are.
LEMMA EvaluatorsUntouched ==
  ASSUME ReviewInv, DecideInv, JudgedStay, UNCHANGED <<taken, decision, evaluator>>
  PROVE  DecideInv'
<1>1. taken \in Taken /\ \A f \in Evaluators : evaluator[f].snapshot \in Snapshots
  BY DEF ReviewInv, RowsTyped, EvaluatorRecords
<1>2. Classified'
  <2> SUFFICES ASSUME NEW f \in Evaluators, evaluator[f].at \in {"GATE", "LOCKING"}
               PROVE  WillBeJudged(evaluator[f].snapshot)
    BY ClassifiedNext
  <2> QED
    BY <1>1, AllJudgedStays DEF DecideInv, Classified
<1>3. \A f \in Evaluators : IsDecided(f)' <=> IsDecided(f)
  BY DEF IsDecided
<1> QED
  BY <1>2, <1>3
     DEF DecideInv, OneDecides, EndedOnes, DecidedOnce, VerdictsFixed, Acceptable

\* The chains of a classified snapshot are its groups.
LEMMA ChainsAreGroups ==
  ASSUME ReviewInv, NEW s \in Snapshots, AllJudged(s)
  PROVE  {c[2] : c \in ChainsOf(s)} = Groups(s)
<1>1. \A c \in ChainsOf(s) : c[2] \in Groups(s)
  BY DEF ChainsOf, ReviewInv, JudgedGroups
<1>2. ASSUME NEW g \in Groups(s) PROVE \E c \in ChainsOf(s) : c[2] = g
  <2>1. <<s, g>> \in Chains /\ judgment[<<s, g>>] # <<>>
    BY GroupsAreChains DEF ReviewInv, RowsTyped, AllJudged
  <2>2. <<s, g>> \in ChainsOf(s) /\ <<s, g>>[2] = g
    BY <2>1 DEF ChainsOf
  <2> QED
    BY <2>2
<1> QED
  BY <1>1, <1>2

\* Whatever is judged, acceptance is up to the snapshot.
LEMMA AcceptsByFacts ==
  ASSUME ReviewInv, NEW s \in Snapshots
  PROVE  Verdict(s, LatestOf(s)) = "ACCEPTED" <=> Acceptable(s)
<1>1. ASSUME Acceptable(s) PROVE LatestOf(s) = {}
  <2>1. Groups(s) = {}
    BY <1>1, AcceptableHasNoGroups DEF ReviewInv, RowsTyped
  <2>2. ChainsOf(s) = {}
    BY <2>1 DEF ChainsOf, ReviewInv, JudgedGroups
  <2> QED
    BY <2>2 DEF LatestOf
<1> QED
  BY <1>1, VerdictAccepts

\* What is decided when all chains are locked.
Drafted(e) ==
  LET s == evaluator[e].snapshot IN
  [snapshot |-> s, inputs |-> Inputs(s), by |-> e, verdict |-> Verdict(s, LatestOf(s))]

\* The triggers find what the services have prepared, so that every decision that
\* has its locks is stored, and its callback with it.
LEMMA DecideStores ==
  ASSUME ReviewInv, DecideInv, NEW e \in Evaluators, Decide(e)
  PROVE  /\ evaluator[e].at = "LOCKING" /\ Drafted(e) \in Decisions
         /\ decision' = Append(decision, Drafted(e)) /\ intent' = Append(intent, NewIntent)
         /\ \E at \in {"DONE", "UNANSWERED"} :
              evaluator' = [evaluator EXCEPT ![e].at = at, ![e].held = {}]
         /\ UNCHANGED <<taken, judgment, reviewer, faults>>
<1> DEFINE s == evaluator[e].snapshot
<1>1. evaluator[e].at = "LOCKING" /\ s \in Snapshots
  BY DEF Decide, ReviewInv, RowsTyped, EvaluatorRecords
<1>2. /\ Drafted(e).snapshot = s /\ Drafted(e).inputs = Inputs(s)
      /\ Drafted(e).verdict = Verdict(s, LatestOf(s))
  BY DEF Drafted
<1>3. {c[2] : c \in ChainsOf(s)} = Groups(s)
  BY <1>1, ChainsAreGroups DEF DecideInv, Classified
<1>4. evaluator[e].previous = Len(decision) /\ ~ IsDecided(e)
  BY <1>1 DEF DecideInv, OneDecides
<1>5. GuardAdmits(e, Drafted(e))
  BY <1>2, <1>3, <1>4 DEF GuardAdmits
<1>6. Drafted(e) \in Decisions
  BY <1>1, DecisionTyped DEF Drafted
<1>7. /\ IF GuardAdmits(e, Drafted(e))
         THEN /\ decision' = Append(decision, Drafted(e))
              /\ intent' = Append(intent, NewIntent)
              /\ \/ evaluator' = [evaluator EXCEPT ![e].at = "DONE", ![e].held = {}]
                 \/ evaluator' = [evaluator EXCEPT ![e].at = "UNANSWERED", ![e].held = {}]
         ELSE TRUE
      /\ UNCHANGED <<taken, judgment, reviewer, faults>>
  BY DEF Decide, Drafted
<1> QED
  BY <1>1, <1>5, <1>6, <1>7

\* The decision is the first of its request, of the latest revision, and has the verdict that its
\* snapshot allows.
LEMMA DecideDecides ==
  ASSUME ReviewInv, ReviewInv', DecideInv, NEW e \in Evaluators, Decide(e)
  PROVE  DecideInv'
<1> DEFINE d == Drafted(e)
           n == Len(decision) + 1
<1>1. /\ evaluator[e].at = "LOCKING" /\ evaluator[e] \in EvaluatorRecords
      /\ decision \in Seq(Decisions)
      /\ decision' = Append(decision, d) /\ d \in Decisions
      /\ UNCHANGED <<taken, judgment, reviewer, faults>>
  BY DecideStores DEF ReviewInv, RowsTyped
<1>2. d.by = e /\ (d.verdict = "ACCEPTED" <=> Acceptable(d.snapshot))
  BY <1>1, AcceptsByFacts DEF Drafted, EvaluatorRecords
<1>3. PICK at \in {"DONE", "UNANSWERED"} : evaluator' = [evaluator EXCEPT ![e].at = at, ![e].held = {}]
  BY DecideStores
<1>4. evaluator'[e].at = at /\ \A f \in Evaluators \ {e} : evaluator'[f] = evaluator[f]
  BY <1>1, <1>3 DEF ReviewInv, RowsTyped, EvaluatorRecords
<1> HIDE DEF d
<1>5. /\ DOMAIN decision' = DOMAIN decision \cup {n} /\ n \notin DOMAIN decision
      /\ decision'[n] = d /\ \A i \in DOMAIN decision : decision'[i] = decision[i]
  BY <1>1
<1> HIDE DEF n
<1>6. IsDecided(e)' /\ \A f \in Evaluators : IsDecided(f) => IsDecided(f)'
  BY <1>2, <1>5 DEF IsDecided
<1>7. ~ IsDecided(e) /\ \A f \in Evaluators \ {e} : evaluator[f].at # "LOCKING"
  BY <1>1 DEF DecideInv, OneDecides
<1>8. Classified'
  <2> SUFFICES ASSUME NEW f \in Evaluators, evaluator'[f].at \in {"GATE", "LOCKING"}
               PROVE  WillBeJudged(evaluator'[f].snapshot)
    BY <1>1, ClassifiedNext
  <2>1. f # e /\ evaluator'[f] = evaluator[f]
    BY <1>4
  <2> QED
    BY <1>1, <2>1, AllJudgedStays
       DEF JudgedStay, DecideInv, Classified, ReviewInv, RowsTyped, EvaluatorRecords
<1>9. OneDecides' /\ EndedOnes'
  BY <1>4, <1>6, <1>7 DEF DecideInv, OneDecides, EndedOnes
<1>10. DecidedOnce'
  BY <1>2, <1>5, <1>7 DEF DecideInv, DecidedOnce, IsDecided
<1>11. VerdictsFixed'
  <2>1. \A s : Acceptable(s)' <=> Acceptable(s)
    BY <1>1 DEF Acceptable
  <2> QED
    BY <1>2, <1>5, <2>1 DEF DecideInv, VerdictsFixed
<1> QED
  BY <1>8, <1>9, <1>10, <1>11 DEF DecideInv

\* The steps of one request to decide.
LEMMA EvaluatorSteps ==
  ASSUME ReviewInv, ReviewInv', DecideInv, NEW e \in Evaluators,
         \/ \E s \in Snapshots : Request(e, s)
         \/ Repeat(e) \/ Classify(e) \/ BeginGate(e)
         \/ \E c \in Chains : LockChain(e, c)
  PROVE  DecideInv'
<1>1. evaluator[e] \in EvaluatorRecords /\ taken \in Taken
  BY DEF ReviewInv, RowsTyped
<1>2. CASE (\E s \in Snapshots : Request(e, s)) \/ Repeat(e)
  <2>1. PICK s : evaluator' = [evaluator EXCEPT ![e] = [evaluator[e] EXCEPT !.at = "CLASSIFY", !.snapshot = s]]
    <3>1. ASSUME NEW s \in Snapshots, Request(e, s)
          PROVE  evaluator' = [evaluator EXCEPT ![e] = [evaluator[e] EXCEPT !.at = "CLASSIFY", !.snapshot = s]]
      BY <1>1, <3>1 DEF Request
    <3>2. ASSUME Repeat(e)
          PROVE  evaluator' = [evaluator EXCEPT ![e] = [evaluator[e] EXCEPT !.at = "CLASSIFY",
                                                             !.snapshot = evaluator[e].snapshot]]
      BY <1>1, <3>2 DEF Repeat, EvaluatorRecords
    <3> QED
      BY <1>2, <3>1, <3>2
  <2> DEFINE row == [evaluator[e] EXCEPT !.at = "CLASSIFY", !.snapshot = s]
  <2>2. row.at = "CLASSIFY"
    BY <1>1 DEF EvaluatorRecords
  <2>3. UNCHANGED <<taken, decision, judgment>>
    BY <1>2 DEF Request, Repeat
  <2> HIDE DEF row
  <2> QED
    BY <2>1, <2>2, <2>3, EvaluatorMoves DEF JudgedStay, row
<1>3. CASE Classify(e)
  <2> DEFINE row == [evaluator[e] EXCEPT !.at = "GATE"]
  <2>1. row.at = "GATE" /\ row.snapshot = evaluator[e].snapshot /\ row.snapshot \in Snapshots
    BY <1>1 DEF EvaluatorRecords
  <2>2. evaluator' = [evaluator EXCEPT ![e] = row] /\ UNCHANGED <<taken, decision>>
    BY <1>3 DEF Classify
  <2>3. JudgedStay /\ WillBeJudged(row.snapshot)
    BY <1>3, <2>1, <2>2, ClassifyReviews DEF JudgedStay, WillBeJudged
  <2> HIDE DEF row
  <2> QED
    BY <2>1, <2>2, <2>3, EvaluatorMoves
<1>4. CASE BeginGate(e)
  <2>1. evaluator[e].at = "GATE" /\ UNCHANGED <<taken, judgment, decision>>
    BY <1>4 DEF BeginGate, Begin
  <2>2. CASE IsDecided(e) /\ evaluator' = [evaluator EXCEPT ![e].at = "DONE"]
    <3> DEFINE row == [evaluator[e] EXCEPT !.at = "DONE"]
    <3>1. row.at = "DONE" /\ evaluator' = [evaluator EXCEPT ![e] = row]
      BY <1>1, <2>2 DEF EvaluatorRecords
    <3> HIDE DEF row
    <3> QED
      BY <2>1, <2>2, <3>1, EvaluatorMoves DEF JudgedStay
  <2>3. CASE /\ ~ IsDecided(e) /\ RunIsFree
             /\ evaluator' = [evaluator EXCEPT ![e].at = "LOCKING", ![e].previous = Len(decision),
                                               ![e].wants = ChainsOf(evaluator[e].snapshot)]
    <3> DEFINE row == [evaluator[e] EXCEPT !.at = "LOCKING", !.previous = Len(decision),
                                           !.wants = ChainsOf(evaluator[e].snapshot)]
    <3>1. /\ row.at = "LOCKING" /\ row.previous = Len(decision)
          /\ row.snapshot = evaluator[e].snapshot /\ row.snapshot \in Snapshots
          /\ evaluator' = [evaluator EXCEPT ![e] = row]
      BY <1>1, <2>3 DEF EvaluatorRecords
    <3>2. JudgedStay
      BY <2>1 DEF JudgedStay
    <3>3. WillBeJudged(row.snapshot)
      BY <1>1, <2>1, <3>1, <3>2, AllJudgedStays DEF DecideInv, Classified
    <3>4. \A f \in Evaluators \ {e} : evaluator[f].at # "LOCKING"
      BY <2>3 DEF RunIsFree
    <3> HIDE DEF row
    <3> QED
      BY <2>1, <2>3, <3>1, <3>2, <3>3, <3>4, EvaluatorMoves
  <2> QED
    BY <1>4, <2>2, <2>3 DEF BeginGate, Begin
<1>5. ASSUME NEW c \in Chains, LockChain(e, c) PROVE DecideInv'
  <2> DEFINE row == [evaluator[e] EXCEPT !.wants = @ \ {c}, !.held = @ \cup {c}]
  <2>1. /\ evaluator[e].at = "LOCKING" /\ row.at = "LOCKING"
        /\ row.previous = evaluator[e].previous
        /\ row.snapshot = evaluator[e].snapshot /\ row.snapshot \in Snapshots
    BY <1>1, <1>5 DEF LockChain, EvaluatorRecords
  <2>2. evaluator' = [evaluator EXCEPT ![e] = row] /\ UNCHANGED <<taken, judgment, decision>>
    BY <1>5 DEF LockChain
  <2>3. JudgedStay
    BY <2>2 DEF JudgedStay
  <2>4. WillBeJudged(row.snapshot)
    BY <1>1, <2>1, <2>2, <2>3, AllJudgedStays DEF DecideInv, Classified
  <2>5. /\ row.previous = Len(decision) /\ ~ IsDecided(e)
        /\ \A f \in Evaluators \ {e} : evaluator[f].at # "LOCKING"
    BY <2>1 DEF DecideInv, OneDecides
  <2> HIDE DEF row
  <2> QED
    BY <2>1, <2>2, <2>3, <2>4, <2>5, EvaluatorMoves
<1> QED
  BY <1>2, <1>3, <1>4, <1>5

\* Every step of Next keeps the decisions in order.
LEMMA DecideStep ==
  ASSUME ReviewInv, ReviewInv', DecideInv, [Next]_vars
  PROVE  DecideInv'
<1>1. CASE RequestActs
  <2>1. ASSUME NEW r \in Reviewers,
               \/ \E c \in Chains : Look(r, c)
               \/ LockReviewed(r) \/ Conflict(r) \/ LookAgain(r)
        PROVE  DecideInv'
    <3>1. UNCHANGED <<taken, judgment, decision, evaluator>>
      BY <2>1 DEF Look, LockReviewed, Conflict, LookAgain
    <3> QED
      BY <3>1, EvaluatorsUntouched DEF JudgedStay
  <2>2. ASSUME NEW r \in Reviewers, NEW j \in Reviews, Review(r, j) PROVE DecideInv'
    BY <2>2, ReviewReviews, EvaluatorsUntouched DEF JudgedStay
  <2>3. ASSUME NEW e \in Evaluators, NEW r \in Reviewers, AbortDeadlock(e, r) PROVE DecideInv'
    <3>1. UNCHANGED <<taken, judgment, decision>> /\ JudgedStay
      BY <2>3 DEF AbortDeadlock, JudgedStay
    <3> DEFINE row == [evaluator[e] EXCEPT !.at = "ABORTED", !.held = {}, !.wants = {}]
    <3>2. row.at = "ABORTED"
      BY DEF ReviewInv, RowsTyped, EvaluatorRecords
    <3>3. evaluator' = [evaluator EXCEPT ![e] = row] \/ evaluator' = evaluator
      BY <2>3 DEF AbortDeadlock
    <3> HIDE DEF row
    <3> QED
      BY <3>1, <3>2, <3>3, EvaluatorsUntouched, EvaluatorMoves
  <2> QED
    BY <1>1, <2>1, <2>2, <2>3, EvaluatorSteps DEF RequestActs
<1>2. ASSUME NEW e \in Evaluators, Decide(e) PROVE DecideInv'
  BY <1>2, DecideDecides
<1>3. CASE UNCHANGED requests
  BY <1>3, EvaluatorsUntouched DEF requests, JudgedStay
<1> QED
  BY <1>1, <1>2, <1>3 DEF Next, vars

\* Requests to decide and to review keep their order in every reachable state.
LEMMA RequestsInOrder == Spec => [](ReviewInv /\ DecideInv)
<1>1. Init => ReviewInv /\ DecideInv
  BY InitReview, InitDecide
<1>2. ReviewInv /\ DecideInv /\ [Next]_vars => ReviewInv' /\ DecideInv'
  BY ReviewStep, DecideStep
<1> QED
  BY <1>1, <1>2, PTL DEF Spec

\* A snapshot is accepted by all of its decisions or by none, whatever reviewers
\* write and in whatever order evaluate and revise_classification commit.
THEOREM GateAccepts == Spec => []AcceptanceIsFixed
<1>1. DecideInv => AcceptanceIsFixed
  <2> SUFFICES ASSUME DecideInv, NEW i \in DOMAIN decision, NEW k \in DOMAIN decision,
                      decision[i].snapshot = decision[k].snapshot
               PROVE  (decision[i].verdict = "ACCEPTED") = (decision[k].verdict = "ACCEPTED")
    BY DEF AcceptanceIsFixed
  <2> QED
    BY DEF DecideInv, VerdictsFixed
<1> QED
  BY <1>1, RequestsInOrder, PTL

-----------------------------------------------------------------------------
(* Callbacks.  A claim raises the number of its intent, so that every claim    *)
(* that somebody is at work on has a number of its own.                      *)

SendersKnown ==
  \A w \in sender :
    /\ w.of \in DOMAIN intent /\ w.dispatch <= intent[w.of].dispatch
    /\ w.at = "DELIVERED" => w.of \in received
    /\ \A v \in sender : v.of = w.of /\ v.dispatch = w.dispatch => v = w

LapsedClaims == \A i \in DOMAIN intent : intent[i].lapsed => intent[i].status = "CLAIMED"

DeliveredReached == \A i \in DOMAIN intent : intent[i].status = "DELIVERED" => i \in received

CallInv ==
  /\ intent \in Seq(Intents) /\ decision \in Seq(Decisions) /\ Len(intent) = Len(decision)
  /\ sender \subseteq Senders /\ received \subseteq DOMAIN decision
  /\ SendersKnown /\ LapsedClaims /\ DeliveredReached

\* Rows of intents are typed.
LEMMA IntentRows ==
  ASSUME NEW q \in Seq(Intents), NEW i \in DOMAIN q
  PROVE  q[i] \in Intents /\ q[i].dispatch \in Nat /\ q[i].attempts \in Nat /\ i \in Nat
<1>1. q[i] \in Intents /\ i \in Nat
  OBVIOUS
<1> QED
  BY <1>1 DEF Intents

\* At first there are no callbacks.
LEMMA InitCall == Init => CallInv
  BY DEF Init, CallInv, SendersKnown, LapsedClaims, DeliveredReached

\* What is left of the claims when one is dropped.
LEMMA SenderGoes ==
  ASSUME CallInv, NEW w \in sender, sender' = sender \ {w}, UNCHANGED <<received, decision>>,
         intent' \in Seq(Intents), DOMAIN intent' = DOMAIN intent, Len(intent') = Len(intent),
         \A i \in DOMAIN intent : intent'[i].dispatch >= intent[i].dispatch,
         \A i \in DOMAIN intent' : intent'[i].lapsed => intent'[i].status = "CLAIMED",
         \A i \in DOMAIN intent' : intent'[i].status = "DELIVERED" => i \in received
  PROVE  CallInv'
<1>1. \A v \in sender : v.of \in DOMAIN intent /\ v.dispatch \in Nat
  BY DEF CallInv, SendersKnown, Senders
<1>2. \A i \in DOMAIN intent : intent[i].dispatch \in Nat /\ intent'[i].dispatch \in Nat
  BY IntentRows DEF CallInv
<1>3. SendersKnown'
  BY <1>1, <1>2 DEF CallInv, SendersKnown
<1> QED
  BY <1>3 DEF CallInv, LapsedClaims, DeliveredReached

\* A post is made, with or without success.
LEMMA SenderPosts ==
  ASSUME CallInv, NEW w \in sender, NEW at \in {"DELIVERED", "RETRYABLE", "PERMANENT"}, Goes(w, at),
         received' \in {received, received \cup {w.of}}, at = "DELIVERED" => w.of \in received',
         UNCHANGED <<intent, decision>>
  PROVE  CallInv'
<1> DEFINE n == [w EXCEPT !.at = at]
<1>1. w \in Senders /\ w.of \in DOMAIN intent
  BY DEF CallInv, SendersKnown
<1>2. /\ n \in Senders /\ n.of = w.of /\ n.dispatch = w.dispatch /\ n.at = at
      /\ sender' = (sender \ {w}) \cup {n}
  BY <1>1 DEF Senders, Goes
<1> HIDE DEF n
<1>3. DOMAIN intent = DOMAIN decision
  BY DEF CallInv
<1>4. SendersKnown'
  BY <1>1, <1>2 DEF CallInv, SendersKnown
<1> QED
  BY <1>1, <1>2, <1>3, <1>4 DEF CallInv, LapsedClaims, DeliveredReached

\* How a row of an intent changes.
LEMMA IntentMoves ==
  ASSUME CallInv, NEW i \in DOMAIN intent, NEW row \in Intents,
         intent' = [intent EXCEPT ![i] = row]
  PROVE  /\ intent' \in Seq(Intents) /\ DOMAIN intent' = DOMAIN intent /\ Len(intent') = Len(intent)
         /\ intent'[i] = row /\ \A k \in DOMAIN intent \ {i} : intent'[k] = intent[k]
  BY DEF CallInv

\* A claim has a number above all that were given for its callback.
LEMMA ClaimCalls ==
  ASSUME CallInv, NEW i \in DOMAIN intent, Claim(i), decision' = decision
  PROVE  CallInv'
<1> DEFINE row == [status |-> "CLAIMED", attempts |-> intent[i].attempts + 1,
                   dispatch |-> intent[i].dispatch + 1, lapsed |-> FALSE]
           n == [of |-> i, dispatch |-> intent[i].dispatch + 1,
                 attempts |-> intent[i].attempts + 1, at |-> "POST"]
<1>1. /\ intent[i] \in Intents /\ intent[i].dispatch \in Nat /\ intent[i].attempts \in Nat /\ i \in Nat
      /\ \A k \in DOMAIN intent : intent[k].dispatch \in Nat
      /\ \A v \in sender : v.dispatch \in Nat
  BY IntentRows DEF CallInv, Senders
<1>2. row \in Intents /\ row.status = "CLAIMED" /\ row.dispatch = intent[i].dispatch + 1
  BY <1>1 DEF Intents
<1>3. n \in Senders /\ n.of = i /\ n.dispatch = intent[i].dispatch + 1 /\ n.at = "POST"
  BY <1>1 DEF Senders
<1>4. intent' = [intent EXCEPT ![i] = row] /\ sender' = sender \cup {n} /\ received' = received
  BY DEF Claim
<1> HIDE DEF row, n
<1>5. /\ intent' \in Seq(Intents) /\ DOMAIN intent' = DOMAIN intent /\ Len(intent') = Len(intent)
      /\ intent'[i] = row /\ \A k \in DOMAIN intent \ {i} : intent'[k] = intent[k]
  BY <1>2, <1>4, IntentMoves
<1>6. SendersKnown'
  <2>1. \A w \in sender : w.of \in DOMAIN intent /\ w.dispatch <= intent[w.of].dispatch
    BY DEF CallInv, SendersKnown
  <2>2. \A w \in sender : w.dispatch <= intent'[w.of].dispatch
    BY <1>1, <1>2, <1>5, <2>1
  <2>3. \A w \in sender : w.of = i => w.dispatch # n.dispatch
    BY <1>1, <1>3, <2>1
  <2>4. n.of \in DOMAIN intent' /\ n.dispatch <= intent'[n.of].dispatch /\ n.at # "DELIVERED"
    BY <1>1, <1>2, <1>3, <1>5
  <2> QED
    BY <1>3, <1>4, <1>5, <2>1, <2>2, <2>3, <2>4 DEF CallInv, SendersKnown
<1>7. LapsedClaims' /\ DeliveredReached'
  BY <1>2, <1>4, <1>5 DEF CallInv, LapsedClaims, DeliveredReached
<1> QED
  BY <1>3, <1>4, <1>5, <1>6, <1>7 DEF CallInv

\* A claim may lapse only while it is one, and its sender may be at work all the same.
LEMMA LapseCalls ==
  ASSUME CallInv, NEW i \in DOMAIN intent, Lapse(i), decision' = decision
  PROVE  CallInv'
<1> DEFINE row == [intent[i] EXCEPT !.lapsed = TRUE]
<1>1. intent[i] \in Intents /\ intent[i].status = "CLAIMED"
  BY DEF CallInv, Lapse
<1>2. row \in Intents /\ row.status = "CLAIMED" /\ row.dispatch = intent[i].dispatch
  BY <1>1 DEF Intents
<1>3. intent' = [intent EXCEPT ![i] = row] /\ UNCHANGED <<sender, received>>
  BY DEF Lapse
<1> HIDE DEF row
<1>4. /\ intent' \in Seq(Intents) /\ DOMAIN intent' = DOMAIN intent /\ Len(intent') = Len(intent)
      /\ intent'[i] = row /\ \A k \in DOMAIN intent \ {i} : intent'[k] = intent[k]
  BY <1>2, <1>3, IntentMoves
<1>5. \A k \in DOMAIN intent : intent'[k].dispatch = intent[k].dispatch
  BY <1>2, <1>4
<1>6. SendersKnown'
  BY <1>3, <1>4, <1>5 DEF CallInv, SendersKnown
<1>7. LapsedClaims' /\ DeliveredReached'
  BY <1>2, <1>3, <1>4 DEF CallInv, LapsedClaims, DeliveredReached
<1> QED
  BY <1>3, <1>4, <1>6, <1>7 DEF CallInv

\* What a report writes, if its claim still holds.
LEMMA ReportWrites ==
  ASSUME CallInv, NEW w \in sender, Report(w), OwnsClaim(w)
  PROVE  \E row \in Intents :
           /\ intent' = [intent EXCEPT ![w.of] = row]
           /\ row.status = Reported(w) /\ row.dispatch = intent[w.of].dispatch + 1 /\ ~ row.lapsed
           /\ row.status \in {"DELIVERED", "RETRY_WAIT", "FAILED"}
           /\ row.status = "DELIVERED" => w.of \in received
<1> DEFINE i == w.of
           row == [intent[i] EXCEPT !.status = Reported(w), !.dispatch = intent[i].dispatch + 1]
<1>1. i \in DOMAIN intent /\ intent[i] \in Intents /\ ~ intent[i].lapsed /\ w \in Senders
  BY DEF CallInv, SendersKnown, OwnsClaim
<1>2. /\ Reported(w) \in {"DELIVERED", "RETRY_WAIT", "FAILED"}
      /\ Reported(w) = "DELIVERED" => w.at = "DELIVERED"
  <2>1. w.at \in {"POST", "DELIVERED", "RETRYABLE", "PERMANENT"}
    BY <1>1 DEF Senders
  <2>2. CASE w.at = "DELIVERED"
    BY <2>2 DEF Reported
  <2>3. CASE w.at # "DELIVERED" /\ w.at = "RETRYABLE" /\ w.attempts < MaxAttempts
    BY <2>3 DEF Reported
  <2>4. CASE w.at # "DELIVERED" /\ ~ (w.at = "RETRYABLE" /\ w.attempts < MaxAttempts)
    BY <2>4 DEF Reported
  <2> QED
    BY <2>2, <2>3, <2>4
<1>3. /\ row \in Intents /\ row.status = Reported(w) /\ row.dispatch = intent[i].dispatch + 1
      /\ row.lapsed = intent[i].lapsed
  <2>1. intent[i].dispatch + 1 \in Nat
    BY <1>1 DEF Intents
  <2> QED
    BY <1>1, <1>2, <2>1 DEF Intents
<1>4. intent' = [intent EXCEPT ![i] = row]
  BY <1>1 DEF Report
<1>5. w.at = "DELIVERED" => i \in received
  BY DEF CallInv, SendersKnown
<1> HIDE DEF row
<1> QED
  BY <1>1, <1>2, <1>3, <1>4, <1>5

\* An outcome ends the claim it is reported under, and tells of a delivery only if there was one.
LEMMA ReportCalls ==
  ASSUME CallInv, NEW w \in sender, Report(w), decision' = decision
  PROVE  CallInv'
<1>1. sender' = sender \ {w} /\ received' = received
  BY DEF Report
<1>2. /\ intent \in Seq(Intents) /\ w.of \in DOMAIN intent
      /\ \A i \in DOMAIN intent : intent[i].dispatch \in Nat
  BY IntentRows DEF CallInv, SendersKnown
<1>3. CASE OwnsClaim(w)
  <2>1. PICK row \in Intents :
           /\ intent' = [intent EXCEPT ![w.of] = row]
           /\ row.dispatch = intent[w.of].dispatch + 1 /\ ~ row.lapsed
           /\ row.status = "DELIVERED" => w.of \in received
    BY <1>3, ReportWrites
  <2>2. /\ intent' \in Seq(Intents) /\ DOMAIN intent' = DOMAIN intent /\ Len(intent') = Len(intent)
        /\ intent'[w.of] = row /\ \A k \in DOMAIN intent \ {w.of} : intent'[k] = intent[k]
    BY <1>2, <2>1, IntentMoves
  <2>3. \A i \in DOMAIN intent : intent'[i].dispatch >= intent[i].dispatch
    BY <1>2, <2>1, <2>2
  <2>4. \A i \in DOMAIN intent' : /\ intent'[i].lapsed => intent'[i].status = "CLAIMED"
                                  /\ intent'[i].status = "DELIVERED" => i \in received
    BY <2>1, <2>2 DEF CallInv, LapsedClaims, DeliveredReached
  <2> QED
    BY <1>1, <2>2, <2>3, <2>4, SenderGoes
<1>4. CASE ~ OwnsClaim(w)
  <2>1. intent' = intent
    BY <1>4 DEF Report
  <2> QED
    BY <1>1, <1>2, <2>1, SenderGoes DEF CallInv, LapsedClaims, DeliveredReached
<1> QED
  BY <1>3, <1>4

\* A sender that dies takes its claim along and leaves the row.
LEMMA CrashCalls ==
  ASSUME CallInv, NEW w \in sender, Crash(w), decision' = decision
  PROVE  CallInv'
<1>1. sender' = sender \ {w} /\ UNCHANGED <<intent, received>>
  BY DEF Crash
<1>2. intent \in Seq(Intents) /\ \A i \in DOMAIN intent : intent[i].dispatch \in Nat
  BY IntentRows DEF CallInv
<1> QED
  BY <1>1, <1>2, SenderGoes DEF CallInv, LapsedClaims, DeliveredReached

\* A decision comes with its callback.
LEMMA DecideCalls ==
  ASSUME ReviewInv, DecideInv, CallInv, NEW e \in Evaluators, Decide(e), UNCHANGED <<sender, received>>
  PROVE  CallInv'
<1> DEFINE n == Len(intent) + 1
<1>1. /\ decision' = Append(decision, Drafted(e)) /\ Drafted(e) \in Decisions
      /\ intent' = Append(intent, NewIntent)
  BY DecideStores
<1>2. NewIntent \in Intents /\ NewIntent.status = "PENDING" /\ ~ NewIntent.lapsed
  BY DEF NewIntent, Intents
<1>3. intent \in Seq(Intents) /\ decision \in Seq(Decisions) /\ Len(intent) = Len(decision)
  BY DEF CallInv
<1>4. /\ intent' \in Seq(Intents) /\ Len(intent') = Len(intent) + 1
      /\ DOMAIN intent' = DOMAIN intent \cup {n} /\ n \notin DOMAIN intent
      /\ intent'[n] = NewIntent /\ \A i \in DOMAIN intent : intent'[i] = intent[i]
  BY <1>1, <1>2, <1>3
<1>5. /\ decision' \in Seq(Decisions) /\ Len(decision') = Len(decision) + 1
      /\ DOMAIN decision \subseteq DOMAIN decision'
  BY <1>1, <1>3
<1> HIDE DEF n
<1>6. SendersKnown'
  BY <1>4 DEF CallInv, SendersKnown
<1>7. LapsedClaims' /\ DeliveredReached'
  BY <1>2, <1>4 DEF CallInv, LapsedClaims, DeliveredReached
<1> QED
  BY <1>3, <1>4, <1>5, <1>6, <1>7 DEF CallInv

\* Requests and callbacks move apart, but for Decide.
LEMMA RequestsLeaveDecisions ==
  ASSUME RequestActs
  PROVE  decision' = decision /\ (faults' = faults \/ Fault)
  BY DEF RequestActs, Request, Repeat, Classify, BeginGate, LockChain, Look, LockReviewed, Conflict,
         LookAgain, Review, AbortDeadlock

\* What the steps of callbacks are.
CallbackActs ==
  \/ \E i \in DOMAIN intent : Claim(i) \/ Lapse(i)
  \/ \E w \in sender : Post(w) \/ PostFails(w) \/ Report(w) \/ Crash(w)

\* A step is one of requests, a decision or one of callbacks.
LEMMA NextIsOneOf ==
  ASSUME [Next]_vars
  PROVE  \/ RequestActs /\ UNCHANGED callbacks
         \/ (\E e \in Evaluators : Decide(e)) /\ UNCHANGED <<sender, received>>
         \/ CallbackActs /\ UNCHANGED requests
         \/ UNCHANGED vars
  BY DEF Next, SenderActs, CallbackActs

\* Every step keeps the claims of callbacks in order.
LEMMA CallStep ==
  ASSUME ReviewInv, DecideInv, CallInv, [Next]_vars
  PROVE  CallInv'
<1>1. CASE CallbackActs /\ UNCHANGED requests
  <2>1. ASSUME NEW w \in sender, Post(w) \/ PostFails(w) PROVE CallInv'
    <3>1. /\ \E at \in {"DELIVERED", "RETRYABLE", "PERMANENT"} :
               Goes(w, at) /\ (at = "DELIVERED" => w.of \in received')
          /\ received' \in {received, received \cup {w.of}} /\ intent' = intent
      BY <2>1 DEF Post, PostFails
    <3> QED
      BY <1>1, <3>1, SenderPosts DEF requests
  <2> QED
    BY <1>1, <2>1, ClaimCalls, LapseCalls, ReportCalls, CrashCalls DEF CallbackActs, requests
<1>2. CASE UNCHANGED callbacks /\ decision' = decision
  BY <1>2 DEF callbacks, CallInv, SendersKnown, LapsedClaims, DeliveredReached
<1>3. ASSUME NEW e \in Evaluators, Decide(e), UNCHANGED <<sender, received>> PROVE CallInv'
  BY <1>3, DecideCalls
<1>4. RequestActs => decision' = decision
  BY RequestsLeaveDecisions
<1> QED
  BY <1>1, <1>2, <1>3, <1>4, NextIsOneOf DEF vars, requests

\* Faults are spent one at a time and not above their bound.
LEMMA FaultsBounded ==
  ASSUME faults \in 0..MaxFaults, [Next]_vars
  PROVE  faults' \in 0..MaxFaults
<1>1. faults' = faults \/ Fault
  <2>1. CallbackActs => faults' = faults \/ Fault
    BY DEF CallbackActs, Claim, Lapse, Post, PostFails, Report, Crash
  <2>2. \A e \in Evaluators : Decide(e) => faults' = faults
    BY DEF Decide
  <2> QED
    BY <2>1, <2>2, NextIsOneOf, RequestsLeaveDecisions DEF vars
<1> QED
  BY <1>1, GateAssumption DEF Fault

GateInv == ReviewInv /\ DecideInv /\ CallInv /\ faults \in 0..MaxFaults

\* The invariant holds in every reachable state.
LEMMA GateInvHolds == Spec => []GateInv
<1>1. Init => GateInv
  <2>1. Init => faults \in 0..MaxFaults
    BY GateAssumption DEF Init
  <2> QED
    BY <2>1, InitReview, InitDecide, InitCall DEF GateInv
<1>2. GateInv /\ [Next]_vars => GateInv'
  BY ReviewStep, DecideStep, CallStep, FaultsBounded DEF GateInv
<1> QED
  BY <1>1, <1>2, PTL DEF Spec

\* The triggers never refuse a decision or a review that its service has prepared,
\* no chain outgrows its reviewers, every decision has its callback, and one that
\* counts as delivered has reached the receiver.
THEOREM GateInOrder == Spec => []TgInv
<1>1. ASSUME GateInv PROVE TgInv
  <2>1. \A c \in Chains : Len(judgment[c]) <= MaxChain
    BY <1>1, ChainsBounded DEF GateInv, ReviewInv
  <2>2. TypeOK
    BY <1>1, <2>1 DEF GateInv, ReviewInv, RowsTyped, CallInv, TypeOK
  <2>3. DOMAIN intent = DOMAIN decision
    BY <1>1 DEF GateInv, CallInv
  <2>4. NothingRaised /\ CallbacksTellOfDecisions
    BY <1>1, <2>3
       DEF GateInv, ReviewInv, DecideInv, EndedOnes, CallInv, DeliveredReached, NothingRaised,
           CallbacksTellOfDecisions
  <2> QED
    BY <2>2, <2>4 DEF TgInv
<1> QED
  BY <1>1, GateInvHolds, PTL

-----------------------------------------------------------------------------
(* The queue of callbacks keeps its promise. *)

stages == [i \in Callbacks |-> Stage(i)]
dispatches == [i \in Callbacks |-> Dispatch(i)]
claims == {<<w.of, w.dispatch>> : w \in sender}

\* Every request decides once, so that there are no more decisions than requests.
LEMMA IntentsAreCallbacks ==
  ASSUME GateInv
  PROVE  DOMAIN intent \subseteq Callbacks
<1> DEFINE n == Len(decision)
           by == [i \in 1..n |-> decision[i].by]
<1>1. decision \in Seq(Decisions) /\ n \in Nat /\ DOMAIN decision = 1..n /\ DOMAIN intent = 1..n
  BY DEF GateInv, CallInv
<1>2. by \in Injection(1..n, Evaluators)
  <2>1. \A i \in 1..n : decision[i].by \in Evaluators
    <3>1. \A i \in 1..n : decision[i] \in Decisions
      BY <1>1
    <3> QED
      BY <3>1 DEF Decisions
  <2>2. \A i, k \in 1..n : decision[i].by = decision[k].by => i = k
    BY <1>1 DEF GateInv, DecideInv, DecidedOnce
  <2> QED
    BY <2>1, <2>2 DEF Injection, IsInjective
<1> HIDE DEF n, by
<1>3. Cardinality(1..n) <= Cardinality(Evaluators)
  BY <1>2, GateAssumption, FS_Injection
<1>4. Cardinality(1..n) = n
  BY <1>1, FS_Interval
<1>5. Cardinality(Evaluators) \in Nat
  BY GateAssumption, FS_CardinalityType
<1> QED
  BY <1>1, <1>3, <1>4, <1>5 DEF Callbacks

\* How a row of an intent shows.
LEMMA Mapped ==
  ASSUME GateInv, NEW i \in DOMAIN intent
  PROVE  /\ i \in Callbacks /\ intent[i] \in Intents
         /\ stages[i] = IF intent[i].status \in {"PENDING", "RETRY_WAIT"} THEN "OPEN"
                        ELSE intent[i].status
         /\ dispatches[i] = intent[i].dispatch /\ dispatches[i] \in Nat
<1>1. i \in Callbacks /\ intent[i] \in Intents /\ intent[i].dispatch \in Nat
  BY IntentsAreCallbacks, IntentRows DEF GateInv, CallInv
<1> QED
  BY <1>1 DEF stages, dispatches, Stage, Dispatch

\* A row that changes is an item that advances.
LEMMA RowAdvances ==
  ASSUME GateInv, NEW i \in DOMAIN intent, NEW row \in Intents, NEW next,
         intent' = [intent EXCEPT ![i] = row],
         row.dispatch = intent[i].dispatch + 1,
         next = IF row.status \in {"PENDING", "RETRY_WAIT"} THEN "OPEN" ELSE row.status
  PROVE  Queue!Advance(i, next)
<1>1. /\ DOMAIN intent' = DOMAIN intent
      /\ intent'[i] = row /\ \A k \in DOMAIN intent \ {i} : intent'[k] = intent[k]
  BY IntentMoves DEF GateInv
<1>2. i \in Callbacks /\ dispatches[i] = intent[i].dispatch
  BY Mapped
<1>3. Stage(i)' = next /\ Dispatch(i)' = intent[i].dispatch + 1
  BY <1>1 DEF Stage, Dispatch
<1>4. \A k \in Callbacks \ {i} : Stage(k)' = Stage(k) /\ Dispatch(k)' = Dispatch(k)
  BY <1>1 DEF Stage, Dispatch
<1>5. stages' = [stages EXCEPT ![i] = next]
  BY <1>2, <1>3, <1>4 DEF stages, Callbacks
<1>6. dispatches' = [dispatches EXCEPT ![i] = dispatches[i] + 1]
  BY <1>2, <1>3, <1>4 DEF dispatches, Callbacks
<1> QED
  BY <1>5, <1>6 DEF Queue!Advance, stages, dispatches

\* Rows that only lapse, or that stay, show the same.
LEMMA RowsStay ==
  ASSUME DOMAIN intent' = DOMAIN intent,
         \A i \in DOMAIN intent : /\ intent'[i].status = intent[i].status
                                  /\ intent'[i].dispatch = intent[i].dispatch
  PROVE  UNCHANGED <<stages, dispatches>>
<1>1. \A i \in Callbacks : Stage(i)' = Stage(i) /\ Dispatch(i)' = Dispatch(i)
  BY DEF Stage, Dispatch
<1> QED
  BY <1>1 DEF stages, dispatches, Callbacks

\* A sender that goes takes its own claim along and nobody else's.
LEMMA ClaimDropped ==
  ASSUME GateInv, NEW w \in sender, sender' = sender \ {w}
  PROVE  claims' = claims \ {<<w.of, w.dispatch>>} /\ <<w.of, w.dispatch>> \in claims
  BY DEF claims, GateInv, CallInv, SendersKnown

\* Every step of a callback is a step of the queue, or none.
LEMMA CallbacksQueue ==
  ASSUME GateInv, CallbackActs
  PROVE  Queue!CNext \/ UNCHANGED Queue!vars
<1>0. \A w \in sender : w.of \in DOMAIN intent
  BY DEF GateInv, CallInv, SendersKnown
<1>1. ASSUME NEW i \in DOMAIN intent, Claim(i) PROVE Queue!CNext
  <2> DEFINE row == [status |-> "CLAIMED", attempts |-> intent[i].attempts + 1,
                     dispatch |-> intent[i].dispatch + 1, lapsed |-> FALSE]
             n == [of |-> i, dispatch |-> intent[i].dispatch + 1,
                   attempts |-> intent[i].attempts + 1, at |-> "POST"]
  <2>1. row \in Intents /\ row.status = "CLAIMED" /\ row.dispatch = intent[i].dispatch + 1
    <3>1. intent[i].attempts + 1 \in Nat /\ intent[i].dispatch + 1 \in Nat
      BY IntentRows DEF GateInv, CallInv
    <3> QED
      BY <3>1 DEF Intents
  <2>2. intent' = [intent EXCEPT ![i] = row] /\ sender' = sender \cup {n}
    BY <1>1 DEF Claim
  <2>3. n.of = i /\ n.dispatch = intent[i].dispatch + 1
    OBVIOUS
  <2> HIDE DEF row, n
  <2>4. Queue!Advance(i, "CLAIMED")
    BY <2>1, <2>2, RowAdvances
  <2>5. claims' = claims \cup {<<i, dispatches[i] + 1>>}
    BY <2>2, <2>3, Mapped DEF claims
  <2>6. i \in Callbacks /\ stages[i] \in {"OPEN", "CLAIMED"}
    <3>1. intent[i].status \in {"PENDING", "RETRY_WAIT", "CLAIMED"}
      BY <1>1 DEF Claim, Claimable, GateInv, CallInv, LapsedClaims
    <3> QED
      BY <3>1, Mapped
  <2>7. Queue!Claim(i)
    BY <2>4, <2>5, <2>6 DEF Queue!Claim, stages, dispatches, claims
  <2> QED
    BY <2>6, <2>7 DEF Queue!CNext
<1>2. ASSUME NEW i \in DOMAIN intent, Lapse(i) PROVE UNCHANGED Queue!vars
  <2> DEFINE row == [intent[i] EXCEPT !.lapsed = TRUE]
  <2>1. row \in Intents /\ row.status = intent[i].status /\ row.dispatch = intent[i].dispatch
    BY Mapped DEF Intents
  <2>2. intent' = [intent EXCEPT ![i] = row] /\ sender' = sender
    BY <1>2 DEF Lapse
  <2> HIDE DEF row
  <2>3. UNCHANGED <<stages, dispatches>>
    BY <2>1, <2>2, IntentMoves, RowsStay DEF GateInv
  <2> QED
    BY <2>2, <2>3 DEF Queue!vars, stages, dispatches
<1>3. ASSUME NEW w \in sender, Post(w) \/ PostFails(w) PROVE UNCHANGED Queue!vars
  <2>1. PICK at : Goes(w, at) /\ intent' = intent
    BY <1>3 DEF Post, PostFails
  <2> DEFINE n == [w EXCEPT !.at = at]
  <2>2. n.of = w.of /\ n.dispatch = w.dispatch /\ sender' = (sender \ {w}) \cup {n}
    BY <2>1 DEF Goes, GateInv, CallInv, Senders
  <2> HIDE DEF n
  <2>3. claims' = claims
    BY <2>2 DEF claims
  <2>4. UNCHANGED <<stages, dispatches>>
    BY <2>1, RowsStay
  <2> QED
    BY <2>3, <2>4 DEF Queue!vars, stages, dispatches, claims
<1>4. ASSUME NEW w \in sender, sender' = sender \ {w}, intent' = intent PROVE Queue!CNext
  <2>1. UNCHANGED <<stages, dispatches>>
    BY <1>4, RowsStay
  <2>2. Queue!Abandon(<<w.of, w.dispatch>>)
    BY <1>4, <2>1, ClaimDropped DEF Queue!Abandon, stages, dispatches, claims
  <2> QED
    BY <1>4, <2>2, ClaimDropped DEF Queue!CNext, claims
<1>5. ASSUME NEW w \in sender, Report(w), OwnsClaim(w) PROVE Queue!CNext
  <2> DEFINE i == w.of
  <2>1. PICK row \in Intents :
          /\ intent' = [intent EXCEPT ![i] = row]
          /\ row.dispatch = intent[i].dispatch + 1
          /\ row.status \in {"DELIVERED", "RETRY_WAIT", "FAILED"}
    BY <1>5, ReportWrites DEF GateInv
  <2>2. /\ i \in DOMAIN intent /\ intent[i].status = "CLAIMED" /\ intent[i].dispatch = w.dispatch
        /\ sender' = sender \ {w}
    BY <1>0, <1>5 DEF OwnsClaim, Report
  <2> HIDE DEF i
  <2>3. PICK next \in {"OPEN", "DELIVERED", "FAILED"} :
          next = IF row.status \in {"PENDING", "RETRY_WAIT"} THEN "OPEN" ELSE row.status
    BY <2>1
  <2>4. Queue!Advance(i, next)
    BY <2>1, <2>2, <2>3, RowAdvances
  <2>5. i \in Callbacks /\ stages[i] = "CLAIMED" /\ dispatches[i] = w.dispatch
    BY <2>2, Mapped
  <2>6. claims' = claims \ {<<i, dispatches[i]>>} /\ <<i, dispatches[i]>> \in claims
    BY <2>2, <2>5, ClaimDropped DEF i
  <2>7. Queue!Decide(i)
    BY <2>3, <2>4, <2>5, <2>6 DEF Queue!Decide, stages, dispatches, claims
  <2> QED
    BY <2>5, <2>7 DEF Queue!CNext
<1>6. ASSUME NEW w \in sender, Crash(w) PROVE Queue!CNext
  BY <1>4, <1>6 DEF Crash
<1>7. ASSUME NEW w \in sender, Report(w), ~ OwnsClaim(w) PROVE Queue!CNext
  BY <1>4, <1>7 DEF Report
<1> QED
  BY <1>1, <1>2, <1>3, <1>5, <1>6, <1>7 DEF CallbackActs

\* A decision only makes known what was open before.
LEMMA DecideQueues ==
  ASSUME GateInv, NEW e \in Evaluators, Decide(e), UNCHANGED <<sender, received>>
  PROVE  UNCHANGED Queue!vars
<1> DEFINE n == Len(intent) + 1
<1>1. intent \in Seq(Intents) /\ intent' = Append(intent, NewIntent)
  BY DecideStores DEF GateInv, CallInv
<1>2. /\ DOMAIN intent' = DOMAIN intent \cup {n} /\ n \notin DOMAIN intent
      /\ intent'[n] = NewIntent /\ \A i \in DOMAIN intent : intent'[i] = intent[i]
  BY <1>1
<1> HIDE DEF n
<1>3. \A i \in Callbacks : Stage(i)' = Stage(i) /\ Dispatch(i)' = Dispatch(i)
  BY <1>2 DEF Stage, Dispatch, NewIntent
<1> QED
  BY <1>3 DEF Queue!vars, Callbacks

\* Dispatchers that lost their claims post as they like: only the newest claim of
\* a callback decides it, once.
THEOREM GateCallbacksRefine == Spec => RefinesClaimedDelivery
<1>1. Init => Queue!CInit
  BY DEF Init, Queue!CInit, Stage, Dispatch
<1>2. GateInv /\ [Next]_vars => [Queue!CNext]_Queue!vars
  <2> SUFFICES ASSUME GateInv, [Next]_vars PROVE Queue!CNext \/ UNCHANGED Queue!vars
    OBVIOUS
  <2>1. CASE CallbackActs
    BY <2>1, CallbacksQueue
  <2>2. CASE UNCHANGED callbacks
    BY <2>2 DEF callbacks, Queue!vars, Stage, Dispatch, Callbacks
  <2>3. ASSUME NEW e \in Evaluators, Decide(e), UNCHANGED <<sender, received>>
        PROVE  UNCHANGED Queue!vars
    BY <2>3, DecideQueues
  <2> QED
    BY <2>1, <2>2, <2>3, NextIsOneOf DEF vars
<1> QED
  BY <1>1, <1>2, GateInvHolds, PTL DEF Spec, RefinesClaimedDelivery, Queue!CSpec

=============================================================================
