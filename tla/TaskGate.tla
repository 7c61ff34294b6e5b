------------------------------ MODULE TaskGate ------------------------------
(***************************************************************************)
(* The gate of a closed task run: the failures of its snapshots, what is     *)
(* judged of them, the decisions taken on both, and the callbacks that tell  *)
(* of the decisions.                                                        *)
(*                                                                         *)
(* A snapshot never changes.  Its failing units are grouped by their signal, *)
(* and each group has a chain of judgments: the first one by rule, the later *)
(* ones by reviewers.  A decision binds one snapshot and the latest judgment *)
(* of each of its groups; a later decision supersedes it.  Every decision    *)
(* leaves an intent, and dispatchers post it to a receiver that nothing is   *)
(* known of but what it answers.                                            *)
(*                                                                         *)
(* Whoever decides takes the run first and the chains next, whoever reviews  *)
(* takes a chain first and the run next, so that the database may have to    *)
(* abort one of them.  TaskResult has the snapshots.                         *)
(***************************************************************************)
EXTENDS Naturals, FiniteSets, Sequences

CONSTANTS
  Snapshots,   \* snapshots of the run
  Units,       \* units of the run
  Taken,       \* what the snapshots may say: functions of snapshots
  Reviews,     \* judgments a reviewer may ask for
  Evaluators,  \* requests to decide, each with a mutation id of its own
  Reviewers,   \* requests to review
  MaxAttempts, \* claims of a callback before a failure is final
  MaxFaults    \* bound on requests made again, lost claims, crashes and failed posts

ASSUME GateAssumption ==
  /\ Snapshots # {}
  /\ IsFiniteSet(Evaluators) /\ IsFiniteSet(Reviewers) /\ Evaluators \cap Reviewers = {}
  /\ MaxAttempts \in Nat \ {0}
  /\ MaxFaults \in Nat

VARIABLES
  taken,     \* task_result_snapshot: finality and the axes of its units
  judgment,  \* failure_classification_revision of each group of each snapshot
  decision,  \* task_gate_decision, in the order of their revisions
  intent,    \* task_gate_callback_intent of each decision
  evaluator, \* requests to decide under way
  reviewer,  \* requests to review under way
  sender,    \* claims of callbacks that somebody is at work on
  received,  \* decisions the receiver has been told of
  faults

requests == <<taken, judgment, decision, evaluator, reviewer>>
callbacks == <<intent, sender, received>>
vars == <<requests, callbacks, faults>>

-----------------------------------------------------------------------------
(* Failures and judgments *)

Axes == [verdict      : {"PASSED", "FAILED", "INCONCLUSIVE", "NOT_EVALUATED"},
         outcome      : {"BUSINESS", "DEPENDENCY", "PLATFORM", "USER", "AUTOMATION", "POLICY",
                         "UNKNOWN"},
         hygiene      : {"PENDING", "CLEANED", "CLEANUP_FAILED", "LEAKED", "NOT_APPLICABLE"},
         completeness : {"PENDING", "COMPLETE", "PARTIAL", "MISSING", "NOT_APPLICABLE"},
         integrity    : {"UNVERIFIED", "VERIFIED", "INVALID"},
         influence    : {"AUTONOMOUS", "MANUAL_ASSISTED", "MANUAL_ONLY"},
         stability    : {"UNKNOWN", "STABLE", "INFRA_RECOVERED", "FLAKY_SUSPECT",
                         "FLAKY_CONFIRMED"}]

Finalities == {"QUALITY_FINAL", "FULLY_RESOLVED", "REEVALUATED"}

ASSUME TakenAssumption ==
  \A t \in Taken, s \in Snapshots :
    t[s].finality \in Finalities /\ \A u \in Units : t[s].unit[u] \in Axes

\* is_diagnostic_failure
IsDiagnostic(a) ==
  \/ a.verdict # "PASSED" \/ a.stability # "STABLE" \/ a.integrity # "VERIFIED"
  \/ a.hygiene \in {"CLEANUP_FAILED", "LEAKED"}
  \/ a.completeness \in {"MISSING", "PARTIAL"}

\* failure_signal_for: the domain it starts from; cleanup comes before evidence,
\* evidence before the outcome.
Domain(a) ==
  IF a.hygiene \in {"CLEANUP_FAILED", "LEAKED"} THEN "CLEANUP"
  ELSE IF a.integrity # "VERIFIED" \/ a.completeness \in {"MISSING", "PARTIAL"} THEN "EVIDENCE"
  ELSE IF a.outcome = "POLICY" THEN "POLICY_SECURITY"
  ELSE IF a.outcome = "DEPENDENCY" THEN "EXTERNAL_DEPENDENCY"
  ELSE IF a.outcome = "PLATFORM" \/ a.stability = "INFRA_RECOVERED" THEN "INFRASTRUCTURE"
  ELSE "UNKNOWN"

\* rule_classification_for_signal: where the facts name the cause it is certain
\* and complete, where it has to be guessed it has gaps.
Confidence(a) ==
  IF Domain(a) \in {"CLEANUP", "EVIDENCE"} THEN 10000
  ELSE IF Domain(a) = "POLICY_SECURITY" THEN 9500
  ELSE IF Domain(a) \in {"EXTERNAL_DEPENDENCY", "INFRASTRUCTURE"} THEN 9000
  ELSE IF a.stability \in {"FLAKY_SUSPECT", "FLAKY_CONFIRMED"} THEN 7500
  ELSE IF a.outcome = "UNKNOWN" THEN 0 ELSE 2500

RuleJudgment(a) ==
  [domain |-> Domain(a), confidence |-> Confidence(a), state |-> "RULE_PROPOSED",
   gaps |-> Domain(a) \notin {"CLEANUP", "EVIDENCE", "POLICY_SECURITY"}]

States == {"RULE_PROPOSED", "HUMAN_CONFIRMED", "HUMAN_REVISED", "HUMAN_REJECTED"}
Domains == {"PRODUCT", "TEST_SPEC", "TEST_DATA", "IDENTITY", "ENVIRONMENT", "INFRASTRUCTURE",
            "EXTERNAL_DEPENDENCY", "AGENT_AUTOMATION", "POLICY_SECURITY", "EVIDENCE", "CLEANUP",
            "UNKNOWN"}
Judgments == [domain : Domains, confidence : 0..10000, state : States, gaps : BOOLEAN]

\* A rejected judgment leaves the cause unknown.
IsReview(j) ==
  /\ j.state \in States \ {"RULE_PROPOSED"}
  /\ j.state = "HUMAN_REJECTED" => j.domain = "UNKNOWN" /\ j.confidence = 0

ASSUME ReviewsAssumption == \A j \in Reviews : j \in Judgments /\ IsReview(j)

\* The signal of a unit is all its axes but the influence.
SameSignal(a, b) == a = [b EXCEPT !.influence = a.influence]

\* The groups of classify_snapshot, each named by its units.
GroupOf(s, u) ==
  {v \in Units : SameSignal(taken[s].unit[u], taken[s].unit[v])}
Groups(s) == {GroupOf(s, u) : u \in {v \in Units : IsDiagnostic(taken[s].unit[v])}}

Chains == Snapshots \X SUBSET Units
ChainsOf(s) == {c \in Chains : c[1] = s /\ judgment[c] # <<>>}
Latest(c) == judgment[c][Len(judgment[c])]
Representative(c) == CHOOSE u \in c[2] : TRUE

-----------------------------------------------------------------------------
(* The policy of the gate *)

\* task_gate_classification_is_ready
IsReady(j) ==
  /\ j.domain # "UNKNOWN" /\ ~ j.gaps
  /\ CASE j.state = "RULE_PROPOSED" ->
            j.domain \in {"CLEANUP", "EVIDENCE", "POLICY_SECURITY"} /\ j.confidence >= 9500
       [] OTHER ->
            j.state \in {"HUMAN_CONFIRMED", "HUMAN_REVISED"} /\ j.confidence >= 7000

\* Reasons to put off a decision that lie in the axes of a unit.
HasOpenFacts(a) ==
  \/ a.verdict \in {"INCONCLUSIVE", "NOT_EVALUATED"}
  \/ a.hygiene \in {"PENDING", "CLEANUP_FAILED"}
  \/ a.completeness \in {"PENDING", "PARTIAL", "MISSING"}
  \/ a.integrity \in {"UNVERIFIED", "INVALID"}
  \/ a.influence # "AUTONOMOUS"

IsUnsettled(a) == HasOpenFacts(a) \/ a.stability # "STABLE"

\* mutant: of the failures only leaks count against a snapshot
IsLeaking(a) == a.hygiene = "LEAKED"

IsRejected(a) == a.verdict = "FAILED" \/ a.hygiene = "LEAKED"

UnitsThat(P(_), s) == {u \in Units : P(taken[s].unit[u])}

\* evaluate_task_gate
Verdict(s, judgments) ==
  IF \/ taken[s].finality = "QUALITY_FINAL"
     \/ UnitsThat(IsUnsettled, s) # {}
     \/ \E j \in judgments : ~ IsReady(j)
  THEN "INCONCLUSIVE"
  ELSE IF UnitsThat(IsRejected, s) # {} THEN "REJECTED" ELSE "ACCEPTED"

\* Every reviewer adds one judgment at most.
MaxChain == 1 + Cardinality(Reviewers)

Decisions == [snapshot : Snapshots, inputs : SUBSET (Chains \X (1..MaxChain)), by : Evaluators,
              verdict : {"ACCEPTED", "REJECTED", "INCONCLUSIVE"}]

Intents == [status : {"PENDING", "CLAIMED", "RETRY_WAIT", "DELIVERED", "FAILED"},
            attempts : Nat, dispatch : Nat, lapsed : BOOLEAN]
Senders == [of : Nat, dispatch : Nat, attempts : Nat,
            at : {"POST", "DELIVERED", "RETRYABLE", "PERMANENT"}]
NewIntent == [status |-> "PENDING", attempts |-> 0, dispatch |-> 0, lapsed |-> FALSE]

\* previous: the decision to be superseded.  wants, held: chains to lock.
Idle == "IDLE"
NoChain == CHOOSE c \in Chains : c[2] = {}
EvaluatorRecords ==
  [at : {"IDLE", "CLASSIFY", "GATE", "LOCKING", "DONE", "UNANSWERED", "ABORTED", "RAISED"},
   snapshot : Snapshots, previous : Nat, wants : SUBSET Chains, held : SUBSET Chains]

\* seen: the revision the reviewer has before them.  latest: the one found.
ReviewerRecords ==
  [at : {"IDLE", "LOOKED", "LOCKED", "DONE", "CONFLICT", "ABORTED", "RAISED"},
   chain : Chains, seen : 0..MaxChain, latest : 0..MaxChain]

Init ==
  /\ taken \in Taken
  /\ judgment = [c \in Chains |-> <<>>]
  /\ decision = <<>> /\ intent = <<>>
  /\ evaluator = [e \in Evaluators |-> [at |-> Idle, snapshot |-> CHOOSE s \in Snapshots : TRUE,
                     previous |-> 0, wants |-> {}, held |-> {}]]
  /\ reviewer = [r \in Reviewers |-> [at |-> Idle, chain |-> NoChain, seen |-> 0, latest |-> 0]]
  /\ sender = {} /\ received = {}
  /\ faults = 0

Fault == faults < MaxFaults /\ faults' = faults + 1

-----------------------------------------------------------------------------
(* Locks *)

\* Only a decision holds the run across steps: everybody else who takes it has
\* all other locks by then.
RunIsFree == \A e \in Evaluators : evaluator[e].at # "LOCKING"

HoldersOf(c) ==
  {e \in Evaluators : evaluator[e].at = "LOCKING" /\ c \in evaluator[e].held} \cup
  {r \in Reviewers : reviewer[r].at = "LOCKED" /\ reviewer[r].chain = c}

\* A decision waits for a chain whose reviewer waits for the run.
Deadlocked(e, r) ==
  /\ evaluator[e].at = "LOCKING" /\ reviewer[r].at = "LOCKED"
  /\ reviewer[r].chain \in evaluator[e].wants

\* The database finds the cycle and aborts either of the two.
AbortDeadlock(e, r) ==
  /\ Deadlocked(e, r)
  /\ \/ /\ evaluator' = [evaluator EXCEPT ![e].at = "ABORTED", ![e].held = {}, ![e].wants = {}]
        /\ UNCHANGED reviewer
     \/ /\ reviewer' = [reviewer EXCEPT ![r].at = "ABORTED"]
        /\ UNCHANGED evaluator
  /\ UNCHANGED <<taken, judgment, decision, faults>>

-----------------------------------------------------------------------------
(* Decisions *)

Request(e, s) ==
  /\ evaluator[e].at = Idle
  /\ evaluator' = [evaluator EXCEPT ![e].at = "CLASSIFY", ![e].snapshot = s]
  /\ UNCHANGED <<taken, judgment, decision, reviewer, faults>>

\* The same request again, after an error or without an answer.
Repeat(e) ==
  /\ evaluator[e].at \in {"ABORTED", "UNANSWERED"} /\ Fault
  /\ evaluator' = [evaluator EXCEPT ![e].at = "CLASSIFY"]
  /\ UNCHANGED <<taken, judgment, decision, reviewer>>

\* classify_snapshot, a transaction of its own: every group of failing units that
\* has no judgment yet is given one by rule.
Classify(e) ==
  LET s == evaluator[e].snapshot
      unjudged == {<<s, g>> : g \in Groups(s)} \ ChainsOf(s)
  IN  /\ evaluator[e].at = "CLASSIFY" /\ RunIsFree
      /\ judgment' = [c \in Chains |->
           IF c \in unjudged THEN <<RuleJudgment(taken[s].unit[Representative(c)])>>
           ELSE judgment[c]]
      /\ evaluator' = [evaluator EXCEPT ![e].at = "GATE"]
      /\ UNCHANGED <<taken, decision, reviewer, faults>>

IsDecided(e) == \E i \in DOMAIN decision : decision[i].by = e

\* Up to the locks of the chains: the idempotency key, the run, the latest
\* decision, the snapshot, and the groups with their latest judgments.
Begin(e) ==
  /\ evaluator[e].at = "GATE"
  /\ \/ /\ IsDecided(e)
        /\ evaluator' = [evaluator EXCEPT ![e].at = "DONE"]
     \/ /\ ~ IsDecided(e) /\ RunIsFree
        /\ evaluator' = [evaluator EXCEPT ![e].at = "LOCKING", ![e].previous = Len(decision),
                                          ![e].wants = ChainsOf(evaluator[e].snapshot)]

BeginGate(e) == Begin(e) /\ UNCHANGED <<taken, judgment, decision, reviewer, faults>>

\* lock_failure_classification_chains: in the order of their random identifiers.
LockChain(e, c) ==
  /\ evaluator[e].at = "LOCKING" /\ c \in evaluator[e].wants
  /\ HoldersOf(c) = {}
  /\ evaluator' = [evaluator EXCEPT ![e].wants = @ \ {c}, ![e].held = @ \cup {c}]
  /\ UNCHANGED <<taken, judgment, decision, reviewer, faults>>

Inputs(s) == {<<c, Len(judgment[c])>> : c \in ChainsOf(s)}
LatestOf(s) == {Latest(c) : c \in ChainsOf(s)}

\* guard_task_gate_decision_insert and the unique constraints: all failing units
\* are covered once, the inputs are the latest judgments, the verdict is what
\* they and the snapshot give, and the revision is the next one of the run.
GuardAdmits(e, d) ==
  /\ {c[2] : c \in ChainsOf(d.snapshot)} = Groups(d.snapshot)
  /\ d.inputs = Inputs(d.snapshot)
  /\ d.verdict = Verdict(d.snapshot, LatestOf(d.snapshot))
  /\ evaluator[e].previous = Len(decision)
  /\ ~ IsDecided(e)

\* The judgments are read again under their locks, and the decision is stored
\* together with its callback.  The answer may be lost.
Decide(e) ==
  LET s == evaluator[e].snapshot
      d == [snapshot |-> s, inputs |-> Inputs(s), by |-> e, verdict |-> Verdict(s, LatestOf(s))]
      Ends(at) == evaluator' = [evaluator EXCEPT ![e].at = at, ![e].held = {}]
  IN  /\ evaluator[e].at = "LOCKING" /\ evaluator[e].wants = {}
      /\ IF GuardAdmits(e, d)
         THEN /\ decision' = Append(decision, d)
              /\ intent' = Append(intent, NewIntent)
              /\ Ends("DONE") \/ Ends("UNANSWERED")
         ELSE Ends("RAISED") /\ UNCHANGED <<decision, intent>>
      /\ UNCHANGED <<taken, judgment, reviewer, faults>>

-----------------------------------------------------------------------------
(* Reviews *)

\* The reviewer reads the latest judgment and decides upon a next one.
Look(r, c) ==
  /\ reviewer[r].at = Idle /\ judgment[c] # <<>>
  /\ reviewer' = [reviewer EXCEPT ![r].at = "LOOKED", ![r].chain = c, ![r].seen = Len(judgment[c])]
  /\ UNCHANGED <<taken, judgment, decision, evaluator, faults>>

\* mutant: the latest judgment is read without the lock of its chain
ChainIsShared(r) == TRUE

ChainIsFree(r) == HoldersOf(reviewer[r].chain) = {}

\* get_latest_failure_classification_for_update
LockReviewed(r) ==
  /\ reviewer[r].at = "LOOKED" /\ ChainIsFree(r)
  /\ reviewer' = [reviewer EXCEPT ![r].at = "LOCKED", ![r].latest = Len(judgment[reviewer[r].chain])]
  /\ UNCHANGED <<taken, judgment, decision, evaluator, faults>>

\* revise_classification from the lock of the run on; a confirmation leaves the
\* judgment as it is.  guard_failure_classification_revision_insert asks for the
\* next revision of the chain.
Review(r, j) ==
  LET me == reviewer[r] IN
  /\ me.at = "LOCKED" /\ RunIsFree
  /\ me.seen = me.latest
  /\ j.state = "HUMAN_CONFIRMED" => j.domain = judgment[me.chain][me.latest].domain
  /\ IF me.latest = Len(judgment[me.chain])
     THEN /\ judgment' = [judgment EXCEPT ![me.chain] = Append(@, j)]
          /\ reviewer' = [reviewer EXCEPT ![r].at = "DONE"]
     ELSE reviewer' = [reviewer EXCEPT ![r].at = "RAISED"] /\ UNCHANGED judgment
  /\ UNCHANGED <<taken, decision, evaluator, faults>>

Conflict(r) ==
  /\ reviewer[r].at = "LOCKED" /\ RunIsFree
  /\ reviewer[r].seen # reviewer[r].latest
  /\ reviewer' = [reviewer EXCEPT ![r].at = "CONFLICT"]
  /\ UNCHANGED <<taken, judgment, decision, evaluator, faults>>

\* The reviewer looks again after a conflict or an abort.
LookAgain(r) ==
  /\ reviewer[r].at \in {"CONFLICT", "ABORTED"} /\ Fault
  /\ reviewer' = [reviewer EXCEPT ![r].at = "LOOKED", ![r].seen = Len(judgment[reviewer[r].chain])]
  /\ UNCHANGED <<taken, judgment, decision, evaluator>>

-----------------------------------------------------------------------------
(* Callbacks *)

ClaimableIfQueued(i) == intent[i].status \in {"PENDING", "RETRY_WAIT"}

\* A claim that has lapsed is claimable however often it was claimed before.
Claimable(i) == intent[i].status \in {"PENDING", "RETRY_WAIT"} \/ intent[i].lapsed

\* claim_task_gate_callback_intents
Claim(i) ==
  /\ Claimable(i)
  /\ intent' = [intent EXCEPT ![i] = [status |-> "CLAIMED", attempts |-> @.attempts + 1,
                                      dispatch |-> @.dispatch + 1, lapsed |-> FALSE]]
  /\ sender' = sender \cup {[of |-> i, dispatch |-> intent[i].dispatch + 1,
                             attempts |-> intent[i].attempts + 1, at |-> "POST"]}
  /\ UNCHANGED <<received, faults>>

Holder(i) == \E w \in sender : w.of = i /\ w.dispatch = intent[i].dispatch

\* claim_expires_at passes: of a dispatcher that is gone, or too slow.
Lapse(i) ==
  /\ intent[i].status = "CLAIMED" /\ ~ intent[i].lapsed
  /\ IF Holder(i) THEN Fault ELSE UNCHANGED faults
  /\ intent' = [intent EXCEPT ![i].lapsed = TRUE]
  /\ UNCHANGED <<sender, received>>

Crash(w) ==
  /\ Fault
  /\ sender' = sender \ {w}
  /\ UNCHANGED <<intent, received>>

Goes(w, at) == sender' = (sender \ {w}) \cup {[w EXCEPT !.at = at]}

\* HttpTaskGateCallbackSender.deliver: the receiver answers 2xx.
Post(w) ==
  /\ w.at = "POST"
  /\ received' = received \cup {w.of}
  /\ Goes(w, "DELIVERED")
  /\ UNCHANGED <<intent, faults>>

\* The receiver answers with an error, or not at all: it may have the callback.
PostFails(w) ==
  /\ w.at = "POST" /\ Fault
  /\ \/ Goes(w, "RETRYABLE") \/ Goes(w, "PERMANENT")
  /\ received' \in {received, received \cup {w.of}}
  /\ UNCHANGED intent

AnyClaim(w) == intent[w.of].status = "CLAIMED" /\ ~ intent[w.of].lapsed

\* where status = 'CLAIMED' and claim_token = ... and claim_expires_at > ...
OwnsClaim(w) ==
  /\ intent[w.of].status = "CLAIMED" /\ ~ intent[w.of].lapsed
  /\ intent[w.of].dispatch = w.dispatch

\* What _deliver reports of each result.
Reported(w) ==
  CASE w.at = "DELIVERED" -> "DELIVERED"
    [] w.at = "RETRYABLE" /\ w.attempts < MaxAttempts -> "RETRY_WAIT"
    [] OTHER -> "FAILED"

\* mark_delivered, retry and fail of task_gate_callback_intent
Report(w) ==
  /\ w.at # "POST"
  /\ sender' = sender \ {w}
  /\ IF OwnsClaim(w)
     THEN intent' = [intent EXCEPT ![w.of].status = Reported(w), ![w.of].dispatch = @ + 1]
     ELSE UNCHANGED intent
  /\ UNCHANGED <<received, faults>>

-----------------------------------------------------------------------------

RequestActs ==
  \/ \E e \in Evaluators, s \in Snapshots : Request(e, s)
  \/ \E e \in Evaluators : Repeat(e) \/ Classify(e) \/ BeginGate(e)
  \/ \E e \in Evaluators, c \in Chains : LockChain(e, c)
  \/ \E r \in Reviewers, c \in Chains : Look(r, c)
  \/ \E r \in Reviewers : LockReviewed(r) \/ Conflict(r) \/ LookAgain(r)
  \/ \E r \in Reviewers, j \in Reviews : Review(r, j)
  \/ \E e \in Evaluators, r \in Reviewers : AbortDeadlock(e, r)

SenderActs ==
  \/ \E i \in DOMAIN intent : Claim(i) \/ (~ Holder(i) /\ Lapse(i))
  \/ \E w \in sender : Post(w) \/ Report(w)

Next ==
  \/ RequestActs /\ UNCHANGED callbacks
  \/ (\E e \in Evaluators : Decide(e)) /\ UNCHANGED <<sender, received>>
  \/ SenderActs /\ UNCHANGED requests
  \/ (\E i \in DOMAIN intent : Lapse(i)) /\ UNCHANGED requests
  \/ (\E w \in sender : Crash(w) \/ PostFails(w)) /\ UNCHANGED requests

Spec == Init /\ [][Next]_vars

\* A request runs on until it ends, the database sees to deadlocks, dispatchers
\* poll for ever, and a post returns or times out.
FairSpec ==
  Spec /\ WF_vars(\/ RequestActs /\ UNCHANGED callbacks
                  \/ (\E e \in Evaluators : Decide(e)) /\ UNCHANGED <<sender, received>>
                  \/ SenderActs /\ UNCHANGED requests)

-----------------------------------------------------------------------------
(* Properties *)

TypeOK ==
  /\ taken \in Taken
  /\ judgment \in [Chains -> Seq(Judgments)]
  /\ \A c \in Chains : Len(judgment[c]) <= MaxChain
  /\ decision \in Seq(Decisions) /\ intent \in Seq(Intents)
  /\ evaluator \in [Evaluators -> EvaluatorRecords]
  /\ reviewer \in [Reviewers -> ReviewerRecords]
  /\ sender \subseteq Senders /\ received \subseteq DOMAIN decision
  /\ faults \in 0..MaxFaults

\* Whoever overtakes whom between two requests, the triggers of the database only
\* confirm what the services have made sure of: no decision and no review is
\* refused at its commit.
NothingRaised ==
  /\ \A e \in Evaluators : evaluator[e].at # "RAISED"
  /\ \A r \in Reviewers : reviewer[r].at # "RAISED"

\* A request decides once, however often it is made, every decision has its
\* callback, and one that counts as delivered has reached the receiver.
CallbacksTellOfDecisions ==
  /\ DOMAIN intent = DOMAIN decision
  /\ \A i \in DOMAIN decision : intent[i].status = "DELIVERED" => i \in received
  /\ \A e \in Evaluators : evaluator[e].at = "DONE" => IsDecided(e)

TgInv == TypeOK /\ NothingRaised /\ CallbacksTellOfDecisions

\* A snapshot is accepted by all of its decisions or by none: reviewers decide
\* whether its failures are rejected or left open, and nothing they write of
\* causes lets a failure pass.  What counts as a failure and what keeps the gate
\* from accepting are listed in two places.
AcceptanceIsFixed ==
  \A i, k \in DOMAIN decision : decision[i].snapshot = decision[k].snapshot =>
    (decision[i].verdict = "ACCEPTED") = (decision[k].verdict = "ACCEPTED")

\* Only the newest claim of a callback decides it, once; dispatchers may post it
\* many times.
Callbacks == 1..Cardinality(Evaluators)
Stage(i) ==
  CASE i \notin DOMAIN intent -> "OPEN"
    [] i \in DOMAIN intent /\ intent[i].status \in {"PENDING", "RETRY_WAIT"} -> "OPEN"
    [] OTHER -> intent[i].status
Dispatch(i) == IF i \in DOMAIN intent THEN intent[i].dispatch ELSE 0

Queue == INSTANCE ClaimedDelivery WITH
  Items    <- Callbacks,
  state    <- [i \in Callbacks |-> Stage(i)],
  revision <- [i \in Callbacks |-> Dispatch(i)],
  work     <- {<<w.of, w.dispatch>> : w \in sender}

RefinesClaimedDelivery == Queue!CSpec

\* Every request comes to an end although a decision and a review take their
\* locks in opposite orders, and every decision is delivered or given up: once no
\* more requests are made, nothing is left under way.
Settled ==
  /\ \A e \in Evaluators : evaluator[e].at \in {Idle, "DONE", "UNANSWERED", "ABORTED"}
  /\ \A r \in Reviewers : reviewer[r].at \in {Idle, "DONE", "CONFLICT", "ABORTED"}
  /\ \A i \in DOMAIN intent : intent[i].status \in {"DELIVERED", "FAILED"}

GateSettles == <>[]Settled
=============================================================================
