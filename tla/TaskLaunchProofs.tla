--------------------------- MODULE TaskLaunchProofs ---------------------------
(***************************************************************************)
(* Proofs about TaskLaunch and the StartIntent in it, for any runs, callers, *)
(* keys, partitions, dispatchers and bounds.  First the delivery of start    *)
(* intents by itself: types, the meaning of STARTED, the single execution,   *)
(* the bound on the attempts, the queue.  Then the launch: a run is launched *)
(* whole and for those who asked for it, its partitions are a queue that     *)
(* keeps its promise, and the delivery keeps what is proved of it alone.     *)
(***************************************************************************)
EXTENDS TaskLaunch, TLAPS

-----------------------------------------------------------------------------
(* The delivery of start intents by itself *)

\* The workflow of a run is its own.
Own(r) == execution[r].state # "NONE" /\ execution[r].memo = "OWN"

-----------------------------------------------------------------------------
(* Kinds of steps *)

\* A delivery goes on: the claim it works under stays the same, and what it
\* has learned is true.
GoesOn(d, e) ==
  /\ e.run = d.run /\ e.revision = d.revision /\ e.attempts = d.attempts
  /\ e.phase = "DESCRIBE" => execution[d.run].state # "NONE"
  /\ e.phase = "VERIFIED" => Own(d.run)
  /\ Becomes(d, e)
  /\ sent' \subseteq Runs
  /\ UNCHANGED <<intent, execution, starts>>

\* An outcome is recorded under the claim of d.
Outcome(d, status) ==
  /\ Records(d, status)
  /\ \/ status = "STARTED" /\ d.phase = "VERIFIED"
     \/ status = "RETRY_WAIT" /\ d.attempts < MaxAttempts
     \/ status = "FAILED"

Dropped(d) ==
  /\ deliveries' = deliveries \ {d}
  /\ UNCHANGED <<intent, sent, execution, starts>>

Kinds ==
  \/ \E r \in Runs : Claim(r)
  \/ \E r \in Runs : ClaimExpires(r)
  \/ \E d \in deliveries : \E e \in Delivery : GoesOn(d, e)
  \/ \E d \in deliveries : \E status \in {"STARTED", "RETRY_WAIT", "FAILED"} : Outcome(d, status)
  \/ \E d \in deliveries : Dropped(d)
  \/ \E r \in Runs : ExecutionStarts(r)
  \/ \E r \in Runs : ExecutionCloses(r)

\* What a delivery has learned of Temporal stays true.
Informed ==
  \A d \in deliveries :
    /\ d.phase = "DESCRIBE" => execution[d.run].state # "NONE"
    /\ d.phase = "VERIFIED" => Own(d.run)

\* Every step of the delivery is of one of the kinds.
LEMMA StepKinds == STypeOK /\ Informed /\ SNext => Kinds
<1> SUFFICES ASSUME STypeOK, Informed, SNext PROVE Kinds
  OBVIOUS
<1> USE IntentAssumption
<1>1. ASSUME NEW d \in deliveries, Deliver(d) PROVE Kinds
  <2>0. d \in Delivery /\ d.run \in Runs /\ sent \subseteq Runs
    BY DEF STypeOK, Delivery
  <2>1. CASE Submit(d)
    <3> DEFINE e == [d EXCEPT !.phase = "AWAIT"]
    <3>1. e \in Delivery /\ GoesOn(d, e)
      BY <2>0, <2>1 DEF Submit, GoesOn, Delivery
    <3> QED
      BY <3>1 DEF Kinds
  <2>2. CASE Answered(d)
    <3> DEFINE e == [d EXCEPT !.phase = "DESCRIBE"]
    <3>1. e \in Delivery /\ GoesOn(d, e)
      BY <2>0, <2>2 DEF Answered, GoesOn, Delivery
    <3> QED
      BY <3>1 DEF Kinds
  <2>3. CASE Described(d)
    <3> DEFINE e == [d EXCEPT !.phase = Verdict(d.run)]
    <3>1. execution[d.run].state # "NONE"
      BY <2>3 DEF Described, Informed
    <3>2. e \in Delivery /\ GoesOn(d, e)
      BY <2>0, <2>3, <3>1 DEF Described, GoesOn, Delivery, Verdict, Own
    <3> QED
      BY <3>2 DEF Kinds
  <2>4. CASE CallRetried(d)
    <3> DEFINE e == [d EXCEPT !.phase = "SUBMIT", !.calls = @ + 1]
    <3>1. d.calls + 1 \in 1..RpcAttempts
      BY <2>0, <2>4 DEF CallRetried, CallsLeft, Delivery
    <3>2. e \in Delivery /\ GoesOn(d, e)
      BY <2>0, <2>4, <3>1 DEF CallRetried, GoesOn, Delivery
    <3> QED
      BY <3>2 DEF Kinds
  <2>5. CASE CallFails(d)
    <3>1. PICK phase \in {"TRANSIENT", "INVARIANT"} : Becomes(d, [d EXCEPT !.phase = phase])
      BY <2>5 DEF CallFails
    <3> DEFINE e == [d EXCEPT !.phase = phase]
    <3>2. e \in Delivery /\ GoesOn(d, e)
      BY <2>0, <2>5, <3>1 DEF CallFails, GoesOn, Delivery
    <3> QED
      BY <3>2 DEF Kinds
  <2>6. CASE MarkStarted(d)
    BY <2>6 DEF MarkStarted, Outcome, Kinds
  <2>7. CASE RetryLater(d)
    BY <2>0, <2>7 DEF RetryLater, Exhausted, Outcome, Kinds, Delivery
  <2>8. CASE GiveUp(d)
    BY <2>8 DEF GiveUp, Outcome, Kinds
  <2>9. CASE LeaseLost(d)
    BY <2>9 DEF LeaseLost, Dropped, Kinds
  <2> QED
    BY <1>1, <2>1, <2>2, <2>3, <2>4, <2>5, <2>6, <2>7, <2>8, <2>9 DEF Deliver
<1>2. ASSUME NEW d \in deliveries, Vanish(d) PROVE Kinds
  BY <1>2 DEF Vanish, Dropped, Kinds
<1> QED
  BY <1>1, <1>2 DEF SNext, Dispatch, Kinds

-----------------------------------------------------------------------------
(* Types, and what deliveries know *)

\* Before anything is claimed the rows have their types, and no dispatcher knows anything.
LEMMA InitTypes == SInit => STypeOK /\ Informed
  BY IntentAssumption DEF SInit, STypeOK, Informed, IntentRow, Execution

\* A claim, an expiry or an outcome writes a row that is a row.
LEMMA RowsWritten ==
  ASSUME STypeOK, NEW r \in Runs, NEW row \in IntentRow
  PROVE  [intent EXCEPT ![r] = row] \in [Runs -> IntentRow]
  BY DEF STypeOK

\* Every step keeps the types, and what a dispatcher has learned of Temporal stays true.
LEMMA NextTypes == STypeOK /\ Informed /\ [SNext]_intentVars => STypeOK' /\ Informed'
<1> SUFFICES ASSUME STypeOK, Informed, [SNext]_intentVars PROVE STypeOK' /\ Informed'
  OBVIOUS
<1> USE IntentAssumption
<1>1. CASE SNext
  <2>1. ASSUME NEW r \in Runs, Claim(r) PROVE STypeOK' /\ Informed'
    <3> DEFINE row == [intent[r] EXCEPT !.status = "CLAIMED", !.expired = FALSE,
                                        !.attempts = @ + 1, !.revision = @ + 1]
               d == [run |-> r, revision |-> row.revision, attempts |-> row.attempts,
                     calls |-> 1, phase |-> "SUBMIT"]
    <3>1. /\ intent[r] \in IntentRow
          /\ intent[r].revision + 1 \in Nat
          /\ intent[r].attempts + 1 \in Nat
      BY DEF STypeOK, IntentRow
    <3>2. row \in IntentRow /\ row.revision \in Nat /\ row.attempts \in Nat
      BY <3>1 DEF IntentRow
    <3>3. intent' = [intent EXCEPT ![r] = row] /\ intent'[r] = row
      BY <2>1, <3>1 DEF Claim, STypeOK, IntentRow
    <3>4. d \in Delivery
      BY <3>2 DEF Delivery
    <3>5. deliveries' = deliveries \cup {d}
      BY <2>1, <3>3 DEF Claim
    <3> HIDE DEF row
    <3> QED
      BY <2>1, <3>2, <3>3, <3>4, <3>5, RowsWritten DEF Claim, STypeOK, Informed, Own
  <2>2. ASSUME NEW r \in Runs, ClaimExpires(r) PROVE STypeOK' /\ Informed'
    <3> DEFINE row == [intent[r] EXCEPT !.expired = TRUE, !.expiries = @ + 1]
    <3>1. intent[r] \in IntentRow /\ intent[r].expiries + 1 \in 0..MaxExpiries
      BY <2>2 DEF STypeOK, ClaimExpires, IntentRow
    <3>2. row \in IntentRow
      BY <3>1 DEF IntentRow
    <3>3. intent' = [intent EXCEPT ![r] = row]
      BY <2>2, <3>1 DEF ClaimExpires, STypeOK, IntentRow
    <3> HIDE DEF row
    <3> QED
      BY <2>2, <3>2, <3>3, RowsWritten DEF ClaimExpires, STypeOK, Informed, Own
  <2>3. ASSUME NEW d \in deliveries, NEW e \in Delivery, GoesOn(d, e)
        PROVE STypeOK' /\ Informed'
    <3> QED
      BY <2>3 DEF GoesOn, Becomes, STypeOK, Informed, Own
  <2>4. ASSUME NEW d \in deliveries, NEW status \in {"STARTED", "RETRY_WAIT", "FAILED"},
               Outcome(d, status)
        PROVE STypeOK' /\ Informed'
    <3> DEFINE row == [intent[d.run] EXCEPT !.status = status, !.expired = FALSE,
                                            !.revision = @ + 1]
    <3>1. /\ d.run \in Runs
          /\ intent[d.run] \in IntentRow
          /\ intent[d.run].revision + 1 \in Nat
      BY DEF STypeOK, Delivery, IntentRow
    <3>2. row \in IntentRow
      BY <3>1 DEF IntentRow
    <3>3. intent' = [intent EXCEPT ![d.run] = row]
      BY <2>4, <3>1 DEF Outcome, Records, STypeOK, IntentRow
    <3> HIDE DEF row
    <3> QED
      BY <2>4, <3>1, <3>2, <3>3, RowsWritten DEF Outcome, Records, STypeOK, Informed, Own
  <2>5. ASSUME NEW d \in deliveries, Dropped(d) PROVE STypeOK' /\ Informed'
    BY <2>5 DEF Dropped, STypeOK, Informed, Own
  <2>6. ASSUME NEW r \in Runs, ExecutionStarts(r) PROVE STypeOK' /\ Informed'
    BY <2>6 DEF ExecutionStarts, Admits, STypeOK, Execution, Informed, Own, Delivery
  <2>7. ASSUME NEW r \in Runs, ExecutionCloses(r) PROVE STypeOK' /\ Informed'
    BY <2>7 DEF ExecutionCloses, STypeOK, Execution, Informed, Own, Delivery
  <2> QED
    BY <1>1, <2>1, <2>2, <2>3, <2>4, <2>5, <2>6, <2>7, StepKinds DEF Kinds
<1>2. CASE UNCHANGED intentVars
  BY <1>2 DEF intentVars, STypeOK, Informed, Own
<1> QED
  BY <1>1, <1>2

\* The state keeps its types.
THEOREM STypeCorrect == SSpec => []STypeOK
<1> QED
  BY InitTypes, NextTypes, PTL DEF SSpec

-----------------------------------------------------------------------------
(* STARTED *)

SafeStart == STypeOK /\ Informed /\ StartedMeansOwnExecution

\* STARTED stays recorded for the run's own execution only.
LEMMA NextStarted == SafeStart /\ [SNext]_intentVars => StartedMeansOwnExecution'
<1> SUFFICES ASSUME SafeStart, [SNext]_intentVars, NEW r \in Runs,
                    intent'[r].status = "STARTED"
             PROVE  Own(r)'
  BY DEF StartedMeansOwnExecution, Own
<1> USE DEF SafeStart
<1>1. intent[r].status = "STARTED" => Own(r)
  BY DEF StartedMeansOwnExecution, Own
<1>2. CASE SNext
  <2>1. ASSUME NEW q \in Runs, Claim(q) \/ ClaimExpires(q) PROVE Own(r)'
    BY <1>1, <2>1 DEF Claim, ClaimExpires, Own, STypeOK, IntentRow
  <2>2. ASSUME NEW d \in deliveries, NEW e \in Delivery, GoesOn(d, e) PROVE Own(r)'
    BY <1>1, <2>2 DEF GoesOn, Own
  <2>3. ASSUME NEW d \in deliveries, NEW status \in {"STARTED", "RETRY_WAIT", "FAILED"},
               Outcome(d, status)
        PROVE Own(r)'
    <3>1. CASE d.run = r
      <4>1. intent'[r].status = status
        BY <2>3, <3>1 DEF Outcome, Records, STypeOK, IntentRow
      <4>2. Own(r)
        BY <2>3, <3>1, <4>1 DEF Outcome, Informed
      <4> QED
        BY <2>3, <4>2 DEF Outcome, Records, Own
    <3>2. CASE d.run # r
      <4>1. intent'[r] = intent[r]
        BY <2>3, <3>2 DEF Outcome, Records, STypeOK
      <4> QED
        BY <1>1, <2>3, <4>1 DEF Outcome, Records, Own
    <3> QED
      BY <3>1, <3>2
  <2>4. ASSUME NEW d \in deliveries, Dropped(d) PROVE Own(r)'
    BY <1>1, <2>4 DEF Dropped, Own
  <2>5. ASSUME NEW q \in Runs, ExecutionStarts(q) PROVE Own(r)'
    BY <1>1, <2>5 DEF ExecutionStarts, Admits, Own, STypeOK, Execution
  <2>6. ASSUME NEW q \in Runs, ExecutionCloses(q) PROVE Own(r)'
    BY <1>1, <2>6 DEF ExecutionCloses, Own, STypeOK, Execution
  <2> QED
    BY <1>2, <2>1, <2>2, <2>3, <2>4, <2>5, <2>6, StepKinds DEF Kinds
<1>3. CASE UNCHANGED intentVars
  BY <1>1, <1>3 DEF intentVars, Own
<1> QED
  BY <1>2, <1>3

\* STARTED is recorded only for the run's own execution: a delivery asks for
\* the description of whatever it got, and what it learned stays true.
THEOREM StartedOwn == SSpec => []StartedMeansOwnExecution
<1>1. SInit => SafeStart
  BY InitTypes DEF SInit, SafeStart, StartedMeansOwnExecution
<1>2. SafeStart /\ [SNext]_intentVars => SafeStart'
  BY NextTypes, NextStarted DEF SafeStart
<1>3. SafeStart => StartedMeansOwnExecution
  BY DEF SafeStart
<1> QED
  BY <1>1, <1>2, <1>3, PTL DEF SSpec

-----------------------------------------------------------------------------
(* One execution *)

\* Nothing was started where nothing is.
StartsCounted ==
  \A r \in Runs : starts[r] <= 1 /\ (execution[r].state = "NONE" => starts[r] = 0)

SafeExecution == STypeOK /\ Informed /\ StartsCounted

\* Temporal starts a workflow only where there is none, so the count stays at one.
LEMMA NextCounted == SafeExecution /\ [SNext]_intentVars => StartsCounted'
<1> SUFFICES ASSUME SafeExecution, [SNext]_intentVars PROVE StartsCounted'
  OBVIOUS
<1>1. CASE UNCHANGED <<execution, starts>>
  BY <1>1 DEF SafeExecution, StartsCounted
<1>2. ASSUME NEW r \in Runs, ExecutionStarts(r) PROVE StartsCounted'
  BY <1>2 DEF ExecutionStarts, Admits, SafeExecution, StartsCounted, STypeOK
<1>3. ASSUME NEW r \in Runs, ExecutionCloses(r) PROVE StartsCounted'
  BY <1>3 DEF ExecutionCloses, SafeExecution, StartsCounted, STypeOK, Execution
<1>4. CASE Kinds
  BY <1>1, <1>2, <1>3, <1>4
     DEF Kinds, Claim, ClaimExpires, GoesOn, Outcome, Records, Dropped
<1> QED
  BY <1>1, <1>4, StepKinds DEF SafeExecution, intentVars

\* A run is executed at most once, whatever requests arrive late.
THEOREM AtMostOnce == SSpec => []ExecutedAtMostOnce
<1>1. SInit => SafeExecution
  BY InitTypes DEF SInit, SafeExecution, StartsCounted
<1>2. SafeExecution /\ [SNext]_intentVars => SafeExecution'
  BY NextTypes, NextCounted DEF SafeExecution
<1>3. SafeExecution => ExecutedAtMostOnce
  BY DEF SafeExecution, StartsCounted, ExecutedAtMostOnce
<1> QED
  BY <1>1, <1>2, <1>3, PTL DEF SSpec

-----------------------------------------------------------------------------
(* Claims *)

\* A claim is worked on once, is never ahead of its row, and while it is the
\* latest, the row has its attempts.
Claims ==
  \A d \in deliveries :
    /\ \A e \in deliveries : d.run = e.run /\ d.revision = e.revision => d = e
    /\ d.revision <= intent[d.run].revision
    /\ OwnsClaim(d) => d.attempts = intent[d.run].attempts

SafeClaims == STypeOK /\ Informed /\ Claims

\* A claim raises the revision, an outcome ends the claim: no two deliveries share one.
LEMMA NextClaims == SafeClaims /\ [SNext]_intentVars => Claims'
<1> SUFFICES ASSUME SafeClaims, [SNext]_intentVars PROVE Claims'
  OBVIOUS
<1> USE DEF SafeClaims
<1>1. ASSUME NEW r \in Runs, Claim(r) PROVE Claims'
  <2> DEFINE n == [run |-> r, revision |-> intent[r].revision + 1,
                   attempts |-> intent[r].attempts + 1, calls |-> 1, phase |-> "SUBMIT"]
  <2>1. /\ intent[r].revision \in Nat
        /\ intent'[r].revision = intent[r].revision + 1
        /\ intent'[r].attempts = intent[r].attempts + 1
        /\ \A q \in Runs \ {r} : intent'[q] = intent[q]
    BY <1>1 DEF Claim, STypeOK, IntentRow
  <2>2. deliveries' = deliveries \cup {n}
    BY <1>1, <2>1 DEF Claim
  <2>3. \A d \in deliveries : d.run \in Runs /\ d.revision \in Nat
    BY DEF STypeOK, Delivery
  <2>4. \A d \in deliveries : d.run = r => d.revision < intent'[r].revision
    BY <2>1, <2>3 DEF Claims
  <2> QED
    BY <2>1, <2>2, <2>3, <2>4 DEF Claims, OwnsClaim
<1>2. ASSUME NEW r \in Runs, ClaimExpires(r) PROVE Claims'
  <2>1. \A q \in Runs : /\ intent'[q].revision = intent[q].revision
                        /\ intent'[q].attempts = intent[q].attempts
                        /\ intent'[q].status = intent[q].status
    BY <1>2 DEF ClaimExpires, STypeOK, IntentRow
  <2>2. \A d \in deliveries : d.run \in Runs
    BY DEF STypeOK, Delivery
  <2> QED
    BY <1>2, <2>1, <2>2 DEF ClaimExpires, Claims, OwnsClaim
<1>3. ASSUME NEW d \in deliveries, NEW e \in Delivery, GoesOn(d, e) PROVE Claims'
  BY <1>3 DEF GoesOn, Becomes, Claims, OwnsClaim
<1>4. ASSUME NEW d \in deliveries, NEW status \in {"STARTED", "RETRY_WAIT", "FAILED"},
             Outcome(d, status)
      PROVE Claims'
  <2>1. /\ intent[d.run].revision \in Nat
        /\ intent'[d.run].revision = intent[d.run].revision + 1
        /\ intent'[d.run].status # "CLAIMED"
        /\ \A q \in Runs \ {d.run} : intent'[q] = intent[q]
    BY <1>4 DEF Outcome, Records, STypeOK, IntentRow, Delivery
  <2>2. \A f \in deliveries : f.run \in Runs /\ f.revision \in Nat
    BY DEF STypeOK, Delivery
  <2>3. /\ deliveries' = deliveries \ {d}
        /\ d \in deliveries
        /\ d.revision = intent[d.run].revision
    BY <1>4 DEF Outcome, Records, OwnsClaim
  <2>4. \A f \in deliveries : f.revision <= intent'[f.run].revision
    <3> TAKE f \in deliveries
    <3>1. f.revision <= intent[f.run].revision
      BY DEF Claims
    <3> QED
      BY <2>1, <2>2, <3>1
  <2>5. \A f \in deliveries : OwnsClaim(f)' => f.attempts = intent'[f.run].attempts
    <3> TAKE f \in deliveries
    <3>1. CASE f.run = d.run
      BY <2>1, <3>1 DEF OwnsClaim
    <3>2. CASE f.run # d.run
      BY <2>1, <2>2, <3>2 DEF OwnsClaim, Claims
    <3> QED
      BY <3>1, <3>2
  <2> QED
    BY <2>3, <2>4, <2>5 DEF Claims
<1>5. ASSUME NEW d \in deliveries, Dropped(d) PROVE Claims'
  BY <1>5 DEF Dropped, Claims, OwnsClaim
<1>6. CASE UNCHANGED <<intent, deliveries>>
  BY <1>6 DEF Claims, OwnsClaim
<1>7. CASE Kinds
  BY <1>1, <1>2, <1>3, <1>4, <1>5, <1>6, <1>7
     DEF Kinds, ExecutionStarts, ExecutionCloses
<1> QED
  BY <1>6, <1>7, StepKinds DEF intentVars

\* The types, what deliveries know and their claims hold in every reachable state.
LEMMA ClaimsHold == SSpec => []SafeClaims
<1>1. SInit => SafeClaims
  BY InitTypes DEF SInit, SafeClaims, Claims
<1>2. SafeClaims /\ [SNext]_intentVars => SafeClaims'
  BY NextTypes, NextClaims DEF SafeClaims
<1> QED
  BY <1>1, <1>2, PTL DEF SSpec

-----------------------------------------------------------------------------
(* Attempts *)

\* An intent that may be claimed again has an attempt left.
AttemptsLeft ==
  \A r \in Runs :
    /\ intent[r].attempts <= MaxAttempts + intent[r].expiries
    /\ Claimable(r) => intent[r].attempts < MaxAttempts + intent[r].expiries

\* An intent that may be claimed again keeps an attempt to spend.
LEMMA NextAttempts == SafeClaims /\ AttemptsLeft /\ [SNext]_intentVars => AttemptsLeft'
<1> SUFFICES ASSUME SafeClaims, AttemptsLeft, [SNext]_intentVars, NEW r \in Runs
             PROVE  /\ intent'[r].attempts <= MaxAttempts + intent'[r].expiries
                    /\ Claimable(r)' => intent'[r].attempts < MaxAttempts + intent'[r].expiries
  BY DEF AttemptsLeft
<1> USE IntentAssumption DEF SafeClaims
<1>1. /\ intent[r] \in IntentRow
      /\ intent[r].attempts \in Nat
      /\ intent[r].expiries \in Nat
      /\ intent[r].attempts <= MaxAttempts + intent[r].expiries
      /\ Claimable(r) => intent[r].attempts < MaxAttempts + intent[r].expiries
  BY DEF STypeOK, IntentRow, AttemptsLeft
<1>2. ASSUME intent'[r] = intent[r]
      PROVE  /\ intent'[r].attempts <= MaxAttempts + intent'[r].expiries
             /\ Claimable(r)' => intent'[r].attempts < MaxAttempts + intent'[r].expiries
  BY <1>1, <1>2 DEF Claimable
<1>3. ASSUME NEW q \in Runs, Claim(q)
      PROVE  /\ intent'[r].attempts <= MaxAttempts + intent'[r].expiries
             /\ Claimable(r)' => intent'[r].attempts < MaxAttempts + intent'[r].expiries
  <2>1. CASE q = r
    <3>1. /\ intent'[r].attempts = intent[r].attempts + 1
          /\ intent'[r].expiries = intent[r].expiries
          /\ ~ Claimable(r)'
      BY <1>3, <2>1 DEF Claim, Claimable, STypeOK, IntentRow
    <3>2. Claimable(r)
      BY <1>3, <2>1 DEF Claim
    <3> HIDE DEF SafeClaims
    <3> QED
      BY <1>1, <3>1, <3>2
  <2>2. CASE q # r
    BY <1>2, <1>3, <2>2 DEF Claim, STypeOK
  <2> QED
    BY <2>1, <2>2
<1>4. ASSUME NEW q \in Runs, ClaimExpires(q)
      PROVE  /\ intent'[r].attempts <= MaxAttempts + intent'[r].expiries
             /\ Claimable(r)' => intent'[r].attempts < MaxAttempts + intent'[r].expiries
  <2>1. CASE q = r
    <3>1. /\ intent'[r].attempts = intent[r].attempts
          /\ intent'[r].expiries = intent[r].expiries + 1
      BY <1>4, <2>1 DEF ClaimExpires, STypeOK, IntentRow
    <3> QED
      BY <1>1, <3>1
  <2>2. CASE q # r
    BY <1>2, <1>4, <2>2 DEF ClaimExpires, STypeOK
  <2> QED
    BY <2>1, <2>2
<1>5. ASSUME NEW d \in deliveries, NEW status \in {"STARTED", "RETRY_WAIT", "FAILED"},
             Outcome(d, status)
      PROVE  /\ intent'[r].attempts <= MaxAttempts + intent'[r].expiries
             /\ Claimable(r)' => intent'[r].attempts < MaxAttempts + intent'[r].expiries
  <2>1. CASE d.run = r
    <3>1. /\ intent'[r].attempts = intent[r].attempts
          /\ intent'[r].expiries = intent[r].expiries
          /\ intent'[r].status = status
      BY <1>5, <2>1 DEF Outcome, Records, STypeOK, IntentRow
    <3>2. d.attempts = intent[r].attempts
      BY <1>5, <2>1 DEF Outcome, Records, Claims
    <3>3. CASE status = "RETRY_WAIT"
      BY <1>1, <1>5, <3>1, <3>2, <3>3 DEF Outcome
    <3>4. CASE status # "RETRY_WAIT"
      BY <1>1, <3>1, <3>4 DEF Claimable
    <3> QED
      BY <3>3, <3>4
  <2>2. CASE d.run # r
    BY <1>2, <1>5, <2>2 DEF Outcome, Records, STypeOK
  <2> QED
    BY <2>1, <2>2
<1>6. CASE Kinds
  BY <1>2, <1>3, <1>4, <1>5, <1>6
     DEF Kinds, GoesOn, Dropped, ExecutionStarts, ExecutionCloses
<1> QED
  BY <1>2, <1>6, StepKinds DEF intentVars

\* A dispatcher counts the attempts of its claim, not those of the row: they
\* are the same as long as its claim is the latest, so an intent is given up
\* after MaxAttempts claims that did not run out.
THEOREM AttemptsAreBounded == SSpec => []AttemptsBounded
<1>1. SInit => AttemptsLeft
  BY IntentAssumption DEF SInit, AttemptsLeft
<1>2. AttemptsLeft => AttemptsBounded
  BY DEF AttemptsLeft, AttemptsBounded
<1> QED
  BY <1>1, <1>2, ClaimsHold, NextAttempts, PTL DEF SSpec

-----------------------------------------------------------------------------
(* The queue keeps the promise of ClaimedDelivery *)

\* The stages of the rows, their revisions and the claims at work.
stages == [r \in Runs |-> Stage(intent[r])]
revisions == [r \in Runs |-> intent[r].revision]
claims == {<<d.run, d.revision>> : d \in deliveries}

\* What each status of a row is to the abstract queue.
LEMMA Stages ==
  ASSUME NEW row
  PROVE  /\ row.status \in {"PENDING", "RETRY_WAIT"} => Stage(row) = "OPEN"
         /\ row.status = "CLAIMED" => Stage(row) = "CLAIMED"
         /\ row.status = "STARTED" => Stage(row) = "DELIVERED"
         /\ row.status = "FAILED" => Stage(row) = "FAILED"
  BY DEF Stage

\* A row that moves to a stage with one more revision is an advance.
LEMMA RowAdvances ==
  ASSUME STypeOK, NEW r \in Runs, NEW stage,
         Stage(intent'[r]) = stage,
         intent'[r].revision = intent[r].revision + 1,
         \A q \in Runs \ {r} : intent'[q] = intent[q]
  PROVE  Abstract!Advance(r, stage)
<1>1. [q \in Runs |-> Stage(intent'[q])]
        = [[q \in Runs |-> Stage(intent[q])] EXCEPT ![r] = stage]
  OBVIOUS
<1>2. [q \in Runs |-> intent'[q].revision]
        = [[q \in Runs |-> intent[q].revision] EXCEPT ![r] = @ + 1]
  OBVIOUS
<1> QED
  BY <1>1, <1>2 DEF Abstract!Advance

\* A delivery that ends takes its claim, and nobody else's, along.
LEMMA ClaimLeaves ==
  ASSUME SafeClaims, NEW d \in deliveries, deliveries' = deliveries \ {d}
  PROVE  claims' = claims \ {<<d.run, d.revision>>}
BY DEF SafeClaims, Claims, claims

\* Every step is a claim, a decision or an abandoned claim of the abstract queue, or none of its
\* business.
LEMMA StepRefines ==
  SafeClaims /\ [SNext]_intentVars => [Abstract!CNext]_Abstract!vars
<1> SUFFICES ASSUME SafeClaims, [SNext]_intentVars PROVE [Abstract!CNext]_Abstract!vars
  OBVIOUS
<1>1. ASSUME stages' = stages, revisions' = revisions, claims' = claims
      PROVE  UNCHANGED Abstract!vars
  BY <1>1 DEF Abstract!vars, stages, revisions, claims
<1>2. ASSUME NEW r \in Runs, Claim(r) PROVE Abstract!CNext
  <2>1. /\ intent'[r].status = "CLAIMED"
        /\ intent'[r].revision = intent[r].revision + 1
        /\ \A q \in Runs \ {r} : intent'[q] = intent[q]
    BY <1>2 DEF Claim, SafeClaims, STypeOK, IntentRow
  <2>2. Abstract!Advance(r, "CLAIMED")
    BY <2>1, Stages, RowAdvances DEF SafeClaims
  <2>3. Stage(intent[r]) \in {"OPEN", "CLAIMED"}
    BY <1>2, Stages DEF Claim, Claimable
  <2>4. claims' = claims \cup {<<r, intent[r].revision + 1>>}
    <3> DEFINE n == [run |-> r, revision |-> intent'[r].revision,
                     attempts |-> intent'[r].attempts, calls |-> 1, phase |-> "SUBMIT"]
    <3>1. /\ deliveries' = deliveries \cup {n}
          /\ n.run = r
          /\ n.revision = intent[r].revision + 1
      BY <1>2, <2>1 DEF Claim
    <3> HIDE DEF n
    <3> QED
      BY <3>1 DEF claims
  <2>5. Abstract!Claim(r)
    BY <2>2, <2>3, <2>4 DEF Abstract!Claim, claims
  <2> QED
    BY <2>5 DEF Abstract!CNext
<1>3. ASSUME NEW d \in deliveries, NEW status \in {"STARTED", "RETRY_WAIT", "FAILED"},
             Outcome(d, status)
      PROVE  Abstract!CNext
  <2> DEFINE r == d.run
  <2>1. /\ r \in Runs
        /\ intent[r].status = "CLAIMED"
        /\ intent[r].revision = d.revision
        /\ intent'[r].status = status
        /\ intent'[r].revision = intent[r].revision + 1
        /\ \A q \in Runs \ {r} : intent'[q] = intent[q]
    BY <1>3 DEF Outcome, Records, OwnsClaim, SafeClaims, STypeOK, IntentRow, Delivery
  <2>2. PICK stage \in {"OPEN", "DELIVERED", "FAILED"} : Stage(intent'[r]) = stage
    BY <2>1, Stages
  <2> HIDE DEF r
  <2>3. Abstract!Advance(r, stage)
    BY <2>1, <2>2, RowAdvances DEF SafeClaims
  <2>4. Stage(intent[r]) = "CLAIMED" /\ <<r, intent[r].revision>> \in claims
    BY <2>1, Stages DEF claims, r
  <2>5. claims' = claims \ {<<r, intent[r].revision>>}
    BY <1>3, <2>1, ClaimLeaves DEF Outcome, Records, r
  <2>6. \E next \in {"OPEN", "DELIVERED", "FAILED", "SETTLED"} : Abstract!Advance(r, next)
    BY <2>2, <2>3
  <2>7. r \in Runs
    BY <2>1
  <2>8. Abstract!Decide(r)
    BY <2>4, <2>5, <2>6, <2>7 DEF Abstract!Decide, claims
  <2> QED
    BY <2>7, <2>8 DEF Abstract!CNext
<1>4. ASSUME NEW d \in deliveries, Dropped(d) PROVE Abstract!CNext
  <2>1. claims' = claims \ {<<d.run, d.revision>>} /\ <<d.run, d.revision>> \in claims
    BY <1>4, ClaimLeaves DEF Dropped, claims
  <2>2. Abstract!Abandon(<<d.run, d.revision>>)
    BY <1>4, <2>1 DEF Dropped, Abstract!Abandon, claims
  <2> QED
    BY <2>1, <2>2 DEF Abstract!CNext, claims
<1>5. ASSUME NEW d \in deliveries, NEW e \in Delivery, GoesOn(d, e)
      PROVE  UNCHANGED Abstract!vars
  <2>1. claims' = claims
    BY <1>5 DEF GoesOn, Becomes, claims
  <2> QED
    BY <1>1, <1>5, <2>1 DEF GoesOn, stages, revisions
<1>6. ASSUME NEW r \in Runs, ClaimExpires(r) PROVE UNCHANGED Abstract!vars
  <2>1. \A q \in Runs : intent'[q].status = intent[q].status
                         /\ intent'[q].revision = intent[q].revision
    BY <1>6 DEF ClaimExpires, SafeClaims, STypeOK, IntentRow
  <2>2. \A q \in Runs : Stage(intent'[q]) = Stage(intent[q])
    BY <2>1 DEF Stage
  <2> QED
    BY <1>1, <1>6, <2>1, <2>2 DEF ClaimExpires, stages, revisions, claims
<1>7. CASE UNCHANGED <<intent, deliveries>>
  BY <1>1, <1>7 DEF stages, revisions, claims
<1>8. CASE Kinds
  BY <1>2, <1>3, <1>4, <1>5, <1>6, <1>7, <1>8
     DEF Kinds, ExecutionStarts, ExecutionCloses
<1> QED
  BY <1>7, <1>8, StepKinds DEF SafeClaims, intentVars

\* Whatever dispatchers do with claims they have lost, only the newest claim
\* decides, once, and a decided intent is never claimed again.
THEOREM QueueRefines == SSpec => RefinesClaimedDelivery
<1>1. SInit => Abstract!CInit
  BY Stages DEF SInit, Abstract!CInit
<1> QED
  BY <1>1, ClaimsHold, StepRefines, PTL DEF SSpec, RefinesClaimedDelivery, Abstract!CSpec

-----------------------------------------------------------------------------
(* The start intent, composed with the launch *)

\* Nothing of a launch touches the intent but the seal that writes it.
LEMMA LaunchIsDelivery == LSpec => SSpec
<1>1. LInit => SInit
  BY DEF LInit
<1>2. [LNext]_vars => [SNext]_intentVars
  BY DEF LNext, vars
<1> QED
  BY <1>1, <1>2, PTL DEF LSpec, SSpec

\* Composed with the launch, a start is still recorded for an execution of the
\* run's own, there is still one at most, and an outcome still belongs to the
\* newest claim (TaskIntentDispatcher, TemporalTaskIntentStarter).
THEOREM LaunchDelivers ==
  LSpec => []StartedMeansOwnExecution /\ []ExecutedAtMostOnce /\ RefinesClaimedDelivery
  BY LaunchIsDelivery, StartedOwn, AtMostOnce, QueueRefines

-----------------------------------------------------------------------------
(* The invariant.  What LaunchInv says is not inductive: that nothing of a    *)
(* run exists before it does, and that a record tells of it, come from the    *)
(* trigger, and the claims of a partition from the revisions of its row.      *)

Untouched == run = NoRun => \A p \in Partitions : units[p] = 0 /\ part[p] = NoPartition

RecordsOfRun ==
  \A k \in Keys : record[k] # NoRecord => run # NoRun /\ record[k].input = run.input

ClaimsNumbered ==
  \A d \in fills :
    /\ d.revision <= part[d.part].revision
    /\ \A e \in fills : e.part = d.part /\ e.revision = d.revision => e = d

RowsTyped ==
  /\ record \in [Keys -> Record]
  /\ run \in Run
  /\ units \in [Partitions -> 0..1]
  /\ seals \in 0..1
  /\ part \in [Partitions -> Partition]
  /\ fills \subseteq Fill
  /\ told \subseteq Callers /\ partFaults \in 0..MaxPartFaults

RunInv ==
  /\ RowsTyped /\ SealedIsWhole /\ CompletedHasUnits /\ AnswersAreOwn
  /\ Untouched /\ RecordsOfRun

\* With the types of the intent it is all that LaunchInv says.
LEMMA RunInvIsLaunchInv == STypeOK /\ RunInv => LaunchInv
  BY DEF RunInv, RowsTyped, LaunchInv, LaunchTypeOK

\* Before the first request there is no run, no record and no claim.
LEMMA InitRun == LInit => RunInv /\ ClaimsNumbered
<1> SUFFICES ASSUME LInit PROVE RunInv /\ ClaimsNumbered
  OBVIOUS
<1>1. RowsTyped
  BY LaunchAssumption DEF LInit, RowsTyped, Record, NoRecord, Run, NoRun, Partition, NoPartition
<1>2. \A r \in Runs : starts[r] = 0
  BY DEF LInit, SInit
<1>3. SealedIsWhole /\ CompletedHasUnits /\ AnswersAreOwn /\ Untouched /\ RecordsOfRun
  BY <1>2 DEF LInit, SealedIsWhole, Sealed, NoRun, NoPartition, CompletedHasUnits, AnswersAreOwn,
              Untouched, RecordsOfRun
<1> QED
  BY <1>1, <1>3 DEF LInit, RunInv, ClaimsNumbered

\* A fault is counted within its bound.
LEMMA FaultsCounted ==
  ASSUME partFaults \in 0..MaxPartFaults, Faulty
  PROVE  partFaults' \in 0..MaxPartFaults
  BY LaunchAssumption DEF Faulty

\* A claim that lapses is a claim still.
LEMMA LapsedRows ==
  ASSUME part \in [Partitions -> Partition], NEW p \in Partitions,
         part' = [part EXCEPT ![p].lapsed = TRUE]
  PROVE  /\ part' \in [Partitions -> Partition]
         /\ \A q \in Partitions : /\ part'[q].status = part[q].status
                                  /\ part'[q].revision = part[q].revision
                                  /\ q # p => part'[q] = part[q]
<1>1. [part[p] EXCEPT !.lapsed = TRUE] \in Partition
  BY DEF Partition
<1> QED
  BY <1>1 DEF Partition

\* A claim that lapses, with or without its consumer, leaves the run alone.
LEMMA LapseKeeps ==
  ASSUME RunInv, NEW p \in Partitions, part[p].status = "CLAIMED",
         part' = [part EXCEPT ![p].lapsed = TRUE],
         fills' \subseteq fills, Faulty, UNCHANGED <<record, run, units, seals, told, starts>>
  PROVE  RunInv'
<1>1. /\ part' \in [Partitions -> Partition]
      /\ \A q \in Partitions : /\ part'[q].status = part[q].status
                               /\ q # p => part'[q] = part[q]
  BY LapsedRows DEF RunInv, RowsTyped
<1>2. RowsTyped'
  BY <1>1, FaultsCounted DEF RunInv, RowsTyped
<1>3. run # NoRun
  <2>1. part[p] # NoPartition
    BY DEF NoPartition
  <2> QED
    BY <2>1 DEF RunInv, Untouched
<1>4. SealedIsWhole' /\ AnswersAreOwn' /\ Untouched' /\ RecordsOfRun'
  BY <1>3 DEF RunInv, SealedIsWhole, Sealed, AnswersAreOwn, Untouched, RecordsOfRun
<1>5. CompletedHasUnits'
  BY <1>1 DEF RunInv, CompletedHasUnits
<1> QED
  BY <1>2, <1>4, <1>5 DEF RunInv

\* An outcome moves the status and the revision of one partition.
LEMMA MovedRows ==
  ASSUME part \in [Partitions -> Partition], NEW d \in Fill,
         NEW status \in {"RETRY_WAIT", "COMPLETED", "FAILED"}, Moves(d, status)
  PROVE  /\ part' \in [Partitions -> Partition]
         /\ part'[d.part].status = status
         /\ part'[d.part].revision = part[d.part].revision + 1
         /\ \A q \in Partitions \ {d.part} : part'[q] = part[q]
<1> DEFINE row == part[d.part]
           new == [row EXCEPT !.status = status, !.lapsed = FALSE, !.revision = @ + 1]
<1>1. row \in Partition /\ d.part \in Partitions
  BY DEF Fill
<1>2. new \in Partition /\ new.status = status /\ new.revision = row.revision + 1
  <2>1. row.revision + 1 \in Nat
    BY <1>1 DEF Partition
  <2> QED
    BY <1>1, <2>1 DEF Partition
<1>3. part' = [part EXCEPT ![d.part] = new]
  BY <1>1 DEF Moves
<1> HIDE DEF new
<1> QED
  BY <1>1, <1>2, <1>3

\* The last partition finds the others with their units, and seals the run.
LEMMA FillsKeep ==
  ASSUME RunInv, NEW d \in fills, Fills(d), UNCHANGED <<record, told, starts>>
  PROVE  /\ units' \in [Partitions -> 0..1] /\ part' \in [Partitions -> Partition]
         /\ run' \in Run /\ seals' \in 0..1
         /\ SealedIsWhole' /\ CompletedHasUnits' /\ AnswersAreOwn' /\ Untouched' /\ RecordsOfRun'
<1>1. /\ d \in Fill /\ d.part \in Partitions /\ run.state = "MATERIALIZING" /\ units[d.part] = 0
      /\ part[d.part].status = "CLAIMED" /\ Moves(d, "COMPLETED") /\ Seal(d)
      /\ units' = [units EXCEPT ![d.part] = @ + 1]
  BY DEF RunInv, RowsTyped, Fills, Eligible, HoldsClaim, Fill
<1>2. /\ part' \in [Partitions -> Partition] /\ part'[d.part].status = "COMPLETED"
      /\ \A q \in Partitions \ {d.part} : part'[q] = part[q]
  BY <1>1, MovedRows DEF RunInv, RowsTyped
<1>3. /\ units' \in [Partitions -> 0..1] /\ units'[d.part] = 1
      /\ \A q \in Partitions \ {d.part} : units'[q] = units[q]
  BY <1>1 DEF RunInv, RowsTyped
<1>4. run # NoRun /\ run' # NoRun /\ run'.input = run.input /\ run' \in Run
  BY <1>1 DEF NoRun, Run, Seal, RunInv, RowsTyped
<1>5. seals = 0 /\ seals' \in 0..1 /\ (seals' = 1 <=> run'.state = "SEALED")
  BY <1>1 DEF RunInv, RowsTyped, SealedIsWhole, Sealed, Seal, Run
<1>6. \A r \in Runs : ~ (starts[r] > 0)
  BY <1>1 DEF RunInv, SealedIsWhole, Sealed
<1>7. CompletedHasUnits'
  BY <1>2, <1>3 DEF RunInv, CompletedHasUnits
<1>8. run'.state = "SEALED" => \A p \in Partitions : units'[p] = 1
  <2> SUFFICES ASSUME run'.state = "SEALED", NEW p \in Partitions \ {d.part} PROVE units[p] = 1
    BY <1>3
  <2>1. IsLast(d)
    BY <1>1 DEF Seal
  <2> QED
    BY <2>1 DEF IsLast, RunInv, CompletedHasUnits
<1> QED
  BY <1>2, <1>3, <1>4, <1>5, <1>6, <1>7, <1>8
     DEF RunInv, SealedIsWhole, Sealed, AnswersAreOwn, Untouched, RecordsOfRun

\* Whatever moves a partition that has a claim leaves the run as it is, unless
\* it is the last one that is completed.
LEMMA RunStep ==
  ASSUME RunInv, LaunchNext, UNCHANGED intentVars
  PROVE  RunInv'
<1> USE DEF RunInv, RowsTyped, SealedIsWhole, Sealed, CompletedHasUnits, AnswersAreOwn, Untouched,
            RecordsOfRun, intentVars
<1>1. ASSUME NEW k \in Keys, RecordLapses(k) PROVE RunInv'
  BY <1>1 DEF RecordLapses, Record, NoRecord
<1>2. ASSUME NEW c \in Callers, Replay(c) PROVE RunInv'
  BY <1>2 DEF Replay, Remembered, SameRequest, Answered200, Keys
<1>3. ASSUME NEW c \in Callers, CreateSmall(c) PROVE RunInv'
  BY <1>3 DEF CreateSmall, Remember, Answered200, Keys, Inputs, Run, NoRun, Record, NoPartition
<1>4. ASSUME NEW c \in Callers, CreateLarge(c) PROVE RunInv'
  <2>1. part' \in [Partitions -> Partition] /\ \A p \in Partitions : part'[p].status = "PENDING"
    BY <1>4 DEF CreateLarge, NoPartition, Partition
  <2>2. \A p \in Partitions : units[p] = 0
    BY <1>4 DEF CreateLarge
  <2> QED
    BY <1>4, <2>1, <2>2
       DEF CreateLarge, Remember, Answered200, Keys, Inputs, Run, NoRun, Record
<1>5. ASSUME NEW c \in Callers, FindRun(c) PROVE RunInv'
  BY <1>5 DEF FindRun, SameRun, Remember, Answered200, Keys, Inputs, Record, NoRun
<1>6. ASSUME NEW p \in Partitions, ClaimPartition(p) PROVE RunInv'
  BY <1>6 DEF ClaimPartition, PartClaimable, Partition, NoPartition, Fill
<1>7. ASSUME NEW p \in Partitions, ClaimLapses(p) PROVE RunInv'
  <2> HIDE DEF RunInv
  <2> QED
    BY <1>7, LapseKeeps DEF ClaimLapses
<1>8. ASSUME NEW d \in fills, CompletePartition(d) PROVE RunInv'
  BY <1>8, FillsKeep DEF CompletePartition
<1>9. ASSUME NEW d \in fills, CommitUnheard(d) PROVE RunInv'
  <2>1. InPhase(d, "TRANSIENT") \subseteq Fill
    BY DEF InPhase, Fill
  <2> QED
    BY <1>9, <2>1, FillsKeep, FaultsCounted DEF CommitUnheard
<1>10. ASSUME NEW d \in fills, SealRefuses(d) \/ FillFails(d) PROVE RunInv'
  BY <1>10 DEF SealRefuses, FillFails, InPhase, Fill
<1>11. ASSUME NEW d \in fills, RetryPartition(d) \/ FailPartition(d) PROVE RunInv'
  BY <1>11 DEF RetryPartition, FailPartition, HoldsClaim, Moves, Fill, Partition, NoPartition
<1>12. ASSUME NEW d \in fills, ClaimLost(d) PROVE RunInv'
  BY <1>12 DEF ClaimLost
<1>13. ASSUME NEW d \in fills, ConsumerDies(d) PROVE RunInv'
  <2>1. d.part \in Partitions
    BY DEF Fill
  <2> QED
    BY <1>13, <2>1, LapseKeeps DEF ConsumerDies, HoldsClaim
<1> QED
  BY <1>1, <1>2, <1>3, <1>4, <1>5, <1>6, <1>7, <1>8, <1>9, <1>10, <1>11, <1>12, <1>13
     DEF LaunchNext, Launch, Consume

\* The delivery goes on in a sealed run, and touches none of it.
LEMMA DeliveryStep ==
  ASSUME RunInv, [LNext]_vars
  PROVE  RunInv'
<1>1. CASE LaunchNext /\ UNCHANGED intentVars
  BY <1>1, RunStep
<1>2. CASE Sealed /\ UNCHANGED launchVars
  BY <1>2 DEF launchVars, RunInv, RowsTyped, SealedIsWhole, Sealed, CompletedHasUnits, AnswersAreOwn,
              Untouched, RecordsOfRun
<1>3. CASE UNCHANGED vars
  BY <1>3 DEF vars, intentVars, launchVars, RunInv, RowsTyped, SealedIsWhole, Sealed,
              CompletedHasUnits, AnswersAreOwn, Untouched, RecordsOfRun
<1> QED
  BY <1>1, <1>2, <1>3 DEF LNext

\* The run, its parts and its records agree in every reachable state.
LEMMA RunInvHolds == LSpec => []RunInv
  BY InitRun, DeliveryStep, PTL DEF LSpec

\* A run is sealed once, when each of its units exists and none twice, and every
\* caller that is answered is answered with the run of what he asked for
\* (create_run, create_partitioned_run, complete_task_run_materialization_partition,
\* IdempotencyRepository.reserve).
THEOREM LaunchedWhole == LSpec => []LaunchInv
  BY LaunchIsDelivery, STypeCorrect, RunInvHolds, RunInvIsLaunchInv, PTL

-----------------------------------------------------------------------------
(* The partitions.  Every step that touches them is a claim, an outcome, or  *)
(* leaves their rows where they are.                                         *)

RowsStay ==
  \A p \in Partitions : /\ PartStage(part'[p]) = PartStage(part[p])
                        /\ part'[p].revision = part[p].revision
                        /\ part'[p].status = "COMPLETED" <=> part[p].status = "COMPLETED"

\* The consumer forgets its claim, or remembers that it committed nothing.
OutcomeHeard(d) == fills' = fills \ {d}
OutcomeLost(d, status) == status = "COMPLETED" /\ fills' = InPhase(d, "TRANSIENT")

PartOutcome(d, status) ==
  /\ HoldsClaim(d) /\ Moves(d, status)
  /\ OutcomeHeard(d) \/ OutcomeLost(d, status)

GoesOnWith(d) == RowsStay /\ \E phase \in {"TRANSIENT", "INVARIANT"} : fills' = InPhase(d, phase)
GoesAway(d) == RowsStay /\ fills' = fills \ {d}

PartKinds ==
  \/ \E p \in Partitions : ClaimPartition(p)
  \/ \E d \in fills, status \in {"RETRY_WAIT", "COMPLETED", "FAILED"} : PartOutcome(d, status)
  \/ \E d \in fills : GoesOnWith(d) \/ GoesAway(d)
  \/ RowsStay /\ UNCHANGED fills

\* What each status of a partition is to the abstract queue.
LEMMA PartStages ==
  ASSUME NEW row
  PROVE  /\ row.status \in {"NONE", "PENDING", "RETRY_WAIT"} => PartStage(row) = "OPEN"
         /\ row.status = "CLAIMED" => PartStage(row) = "CLAIMED"
         /\ row.status = "COMPLETED" => PartStage(row) = "DELIVERED"
         /\ row.status = "FAILED" => PartStage(row) = "FAILED"
  BY DEF PartStage

\* Every step of a launch is of one of these kinds.
LEMMA PartSteps == RunInv /\ LaunchNext => PartKinds
<1> SUFFICES ASSUME RunInv, LaunchNext PROVE PartKinds
  OBVIOUS
<1>0. part \in [Partitions -> Partition] /\ fills \subseteq Fill
  BY DEF RunInv, RowsTyped
<1>1. ASSUME UNCHANGED part PROVE RowsStay
  BY <1>1 DEF RowsStay
<1>2. ASSUME NEW p \in Partitions, part' = [part EXCEPT ![p].lapsed = TRUE] PROVE RowsStay
  BY <1>0, <1>2, LapsedRows DEF RowsStay, PartStage
<1>3. ASSUME NEW c \in Callers, CreateLarge(c) PROVE PartKinds
  <2>1. \A p \in Partitions : part[p] = NoPartition
    BY <1>3 DEF CreateLarge, RunInv, Untouched
  <2>2. \A p \in Partitions : part'[p].status = "PENDING" /\ part'[p].revision = 0
    BY <1>3 DEF CreateLarge, NoPartition
  <2> QED
    BY <1>3, <2>1, <2>2, PartStages DEF CreateLarge, RowsStay, NoPartition, PartKinds
<1>4. ASSUME NEW d \in fills, ConsumerDies(d) \/ ClaimLost(d) \/ SealRefuses(d) \/ FillFails(d)
      PROVE  PartKinds
  <2>1. d.part \in Partitions
    BY <1>0 DEF Fill
  <2> QED
    BY <1>1, <1>2, <1>4, <2>1
       DEF ConsumerDies, ClaimLost, SealRefuses, FillFails, GoesOnWith, GoesAway, PartKinds
<1>5. ASSUME NEW d \in fills, \/ CompletePartition(d) \/ CommitUnheard(d)
                              \/ RetryPartition(d) \/ FailPartition(d)
      PROVE  PartKinds
  BY <1>5 DEF CompletePartition, CommitUnheard, Fills, RetryPartition, FailPartition, PartOutcome,
              OutcomeHeard, OutcomeLost, PartKinds
<1>6. ASSUME UNCHANGED <<part, fills>> PROVE PartKinds
  BY <1>1, <1>6 DEF PartKinds
<1>7. ASSUME NEW p \in Partitions, ClaimLapses(p) PROVE PartKinds
  BY <1>2, <1>7 DEF ClaimLapses, PartKinds
<1>8. ASSUME NEW p \in Partitions, ClaimPartition(p) PROVE PartKinds
  BY <1>8 DEF PartKinds
<1> QED
  BY <1>3, <1>4, <1>5, <1>6, <1>7, <1>8
     DEF LaunchNext, Consume, Launch, RecordLapses, Replay, CreateSmall, FindRun

\* The claim of a partition has a revision of its own.
LEMMA ClaimWritten ==
  ASSUME RunInv, NEW p \in Partitions, ClaimPartition(p)
  PROVE  \E n \in Fill :
           /\ fills' = fills \cup {n} /\ n.part = p
           /\ n.revision = part[p].revision + 1 /\ n.revision \in Nat /\ part[p].revision \in Nat
           /\ part'[p].status = "CLAIMED" /\ part'[p].revision = n.revision
           /\ \A q \in Partitions \ {p} : part'[q] = part[q]
<1> DEFINE n == [part |-> p, revision |-> part[p].revision + 1,
                 attempts |-> part[p].attempts + 1, phase |-> "COMPLETE"]
<1>1. part[p] \in Partition /\ part[p].revision \in Nat /\ part[p].attempts \in Nat
  BY DEF RunInv, RowsTyped, Partition
<1>2. part' = [part EXCEPT ![p] = [status |-> "CLAIMED", revision |-> part[p].revision + 1,
                                   attempts |-> part[p].attempts + 1, lapsed |-> FALSE]]
  BY DEF ClaimPartition
<1>3. /\ part'[p].status = "CLAIMED" /\ part'[p].revision = part[p].revision + 1
      /\ part'[p].attempts = part[p].attempts + 1
      /\ \A q \in Partitions \ {p} : part'[q] = part[q]
  BY <1>1, <1>2 DEF RunInv, RowsTyped
<1>4. fills' = fills \cup {n}
  BY <1>3 DEF ClaimPartition
<1>5. n \in Fill
  BY <1>1 DEF Fill
<1> QED
  BY <1>1, <1>3, <1>4, <1>5

\* A consumer that goes on goes on with the claim it has.
LEMMA PhaseChanges ==
  ASSUME NEW d \in Fill, NEW phase
  PROVE  [d EXCEPT !.phase = phase].part = d.part
         /\ [d EXCEPT !.phase = phase].revision = d.revision
  BY DEF Fill

\* A claim raises the revision of its row, so claims keep numbers of their own.
LEMMA ClaimsStep == RunInv /\ ClaimsNumbered /\ PartKinds => ClaimsNumbered'
<1> SUFFICES ASSUME RunInv, ClaimsNumbered, PartKinds PROVE ClaimsNumbered'
  OBVIOUS
<1>0. /\ part \in [Partitions -> Partition] /\ fills \subseteq Fill
      /\ \A d \in fills : d.part \in Partitions /\ d.revision \in Nat
      /\ \A p \in Partitions : part[p].revision \in Nat
  BY DEF RunInv, RowsTyped, Fill, Partition
<1>1. ASSUME NEW p \in Partitions, ClaimPartition(p) PROVE ClaimsNumbered'
  <2>1. PICK n \in Fill :
          /\ fills' = fills \cup {n} /\ n.part = p
          /\ n.revision = part[p].revision + 1
          /\ part'[p].revision = n.revision
          /\ \A q \in Partitions \ {p} : part'[q] = part[q]
    BY <1>1, ClaimWritten
  <2>2. \A d \in fills : d.part = p => d.revision < n.revision
    BY <1>0, <2>1 DEF ClaimsNumbered
  <2> QED
    BY <1>0, <2>1, <2>2 DEF ClaimsNumbered
<1>2. ASSUME NEW d \in fills, NEW phase,
             \A p \in Partitions : part'[p].revision \in Nat /\ part[p].revision <= part'[p].revision,
             fills' = InPhase(d, phase) \/ fills' = fills \ {d} \/ fills' = fills
      PROVE  ClaimsNumbered'
  <2> DEFINE e == [d EXCEPT !.phase = phase]
  <2>1. e.part = d.part /\ e.revision = d.revision
    BY <1>0, PhaseChanges
  <2>2. InPhase(d, phase) = (fills \ {d}) \cup {e}
    BY DEF InPhase
  <2> HIDE DEF e
  <2> QED
    BY <1>0, <1>2, <2>1, <2>2 DEF ClaimsNumbered
<1>3. ASSUME NEW d \in fills, NEW status \in {"RETRY_WAIT", "COMPLETED", "FAILED"},
             PartOutcome(d, status)
      PROVE  ClaimsNumbered'
  <2>1. /\ part' \in [Partitions -> Partition]
        /\ part'[d.part].revision = part[d.part].revision + 1
        /\ \A q \in Partitions \ {d.part} : part'[q] = part[q]
    BY <1>0, <1>3, MovedRows DEF PartOutcome
  <2>2. \A p \in Partitions : part'[p].revision \in Nat /\ part[p].revision <= part'[p].revision
    BY <1>0, <2>1
  <2> QED
    BY <1>2, <1>3, <2>2 DEF PartOutcome, OutcomeHeard, OutcomeLost
<1>4. ASSUME RowsStay
      PROVE  \A p \in Partitions : part'[p].revision \in Nat /\ part[p].revision <= part'[p].revision
  BY <1>0, <1>4 DEF RowsStay
<1>5. ASSUME RowsStay, UNCHANGED fills PROVE ClaimsNumbered'
  BY <1>0, <1>5 DEF RowsStay, ClaimsNumbered
<1> QED
  BY <1>1, <1>2, <1>3, <1>4, <1>5 DEF PartKinds, GoesOnWith, GoesAway

PartInv == RunInv /\ ClaimsNumbered

\* The run and the numbers of the claims are kept by every step, deliveries included.
LEMMA PartInvStep == PartInv /\ [LNext]_vars => PartInv'
<1> SUFFICES ASSUME PartInv, [LNext]_vars PROVE PartInv'
  OBVIOUS
<1>1. CASE LaunchNext
  BY <1>1, DeliveryStep, PartSteps, ClaimsStep DEF PartInv
<1>2. CASE UNCHANGED launchVars
  BY <1>2, DeliveryStep DEF PartInv, launchVars, ClaimsNumbered
<1> QED
  BY <1>1, <1>2 DEF LNext, vars

\* They hold in every reachable state.
LEMMA PartInvHolds == LSpec => []PartInv
<1>1. LInit => PartInv
  BY InitRun DEF PartInv
<1> QED
  BY <1>1, PartInvStep, PTL DEF LSpec

-----------------------------------------------------------------------------
(* The partitions keep the promise of ClaimedDelivery *)

partStages == [p \in Partitions |-> PartStage(part[p])]
partRevisions == [p \in Partitions |-> part[p].revision]
partClaims == {<<d.part, d.revision>> : d \in {e \in fills : ~ Unheard(e)}}

\* A row that moves to a stage with one more revision is an advance.
LEMMA PartAdvances ==
  ASSUME NEW p \in Partitions, NEW stage,
         PartStage(part'[p]) = stage, part'[p].revision = part[p].revision + 1,
         \A q \in Partitions \ {p} : part'[q] = part[q]
  PROVE  PartitionQueue!Advance(p, stage)
<1>1. [q \in Partitions |-> PartStage(part'[q])]
        = [[q \in Partitions |-> PartStage(part[q])] EXCEPT ![p] = stage]
  OBVIOUS
<1>2. [q \in Partitions |-> part'[q].revision]
        = [[q \in Partitions |-> part[q].revision] EXCEPT ![p] = @ + 1]
  OBVIOUS
<1> QED
  BY <1>1, <1>2 DEF PartitionQueue!Advance

\* Rows that stay where they are look the same to the abstract queue.
LEMMA RowsStayMapped == RowsStay => partStages' = partStages /\ partRevisions' = partRevisions
  BY DEF RowsStay, partStages, partRevisions

\* What a consumer has committed without knowing stays so while rows stay.
LEMMA UnheardStays ==
  ASSUME RunInv, RowsStay, NEW d \in Fill
  PROVE  Unheard(d)' <=> Unheard(d)
  BY DEF RowsStay, Unheard, Fill

\* Every kind of step is one of the abstract queue, or changes nothing it sees.
LEMMA PartStepRefines ==
  PartInv /\ PartKinds => PartitionQueue!CNext \/ UNCHANGED PartitionQueue!vars
<1> SUFFICES ASSUME PartInv, PartKinds
             PROVE  PartitionQueue!CNext \/ UNCHANGED PartitionQueue!vars
  OBVIOUS
<1>0. /\ part \in [Partitions -> Partition] /\ fills \subseteq Fill
      /\ \A d \in fills : d.part \in Partitions /\ d.revision \in Nat
      /\ \A p \in Partitions : part[p].revision \in Nat
  BY DEF PartInv, RunInv, RowsTyped, Fill, Partition
<1>a. ASSUME RowsStay, partClaims' = partClaims PROVE UNCHANGED PartitionQueue!vars
  BY <1>a, RowsStayMapped DEF PartitionQueue!vars, partStages, partRevisions, partClaims
<1>1. ASSUME NEW p \in Partitions, ClaimPartition(p) PROVE PartitionQueue!CNext
  <2>1. PICK n \in Fill :
          /\ fills' = fills \cup {n} /\ n.part = p
          /\ n.revision = part[p].revision + 1
          /\ part'[p].status = "CLAIMED" /\ part'[p].revision = n.revision
          /\ \A q \in Partitions \ {p} : part'[q] = part[q]
    BY <1>1, ClaimWritten DEF PartInv
  <2>2. PartStage(part[p]) \in {"OPEN", "CLAIMED"} /\ part[p].status # "COMPLETED"
    BY <1>1, PartStages DEF ClaimPartition, PartClaimable
  <2>3. PartitionQueue!Advance(p, "CLAIMED")
    BY <2>1, PartStages, PartAdvances
  <2>4. \A d \in fills : Unheard(d)' <=> Unheard(d)
    BY <1>0, <2>1, <2>2 DEF Unheard
  <2>5. ~ Unheard(n)'
    BY <2>1 DEF Unheard
  <2>6. partClaims' = partClaims \cup {<<p, part[p].revision + 1>>}
    BY <2>1, <2>4, <2>5 DEF partClaims
  <2>7. PartitionQueue!Claim(p)
    BY <2>2, <2>3, <2>6 DEF PartitionQueue!Claim, partClaims
  <2> QED
    BY <2>7 DEF PartitionQueue!CNext
<1>2. ASSUME NEW d \in fills, NEW status \in {"RETRY_WAIT", "COMPLETED", "FAILED"},
             PartOutcome(d, status)
      PROVE  PartitionQueue!CNext
  <2> DEFINE p == d.part
  <2>1. /\ p \in Partitions /\ part[p].status = "CLAIMED" /\ part[p].revision = d.revision
        /\ part'[p].status = status /\ part'[p].revision = part[p].revision + 1
        /\ \A q \in Partitions \ {p} : part'[q] = part[q]
    BY <1>0, <1>2, MovedRows DEF PartOutcome, HoldsClaim
  <2> HIDE DEF p
  <2>2. PICK stage \in {"OPEN", "DELIVERED", "FAILED"} : PartStage(part'[p]) = stage
    BY <2>1, PartStages
  <2>3. PartitionQueue!Advance(p, stage)
    BY <2>1, <2>2, PartAdvances
  <2>4. \A e \in fills \ {d} : Unheard(e)' <=> Unheard(e)
    <3> SUFFICES ASSUME NEW e \in fills \ {d}, e.part = p PROVE ~ Unheard(e) /\ ~ Unheard(e)'
      BY <1>0, <2>1 DEF Unheard
    <3>1. e.revision # d.revision
      BY DEF PartInv, ClaimsNumbered, p
    <3> QED
      BY <1>0, <2>1, <3>1 DEF Unheard
  <2>5. ~ Unheard(d)
    BY <2>1 DEF Unheard, p
  <2>6. partClaims' = {<<e.part, e.revision>> : e \in {f \in fills \ {d} : ~ Unheard(f)}}
    <3>1. CASE fills' = fills \ {d}
      BY <2>4, <3>1 DEF partClaims
    <3>2. CASE OutcomeLost(d, status)
      <4> DEFINE n == [d EXCEPT !.phase = "TRANSIENT"]
      <4>1. n.part = d.part /\ n.revision = d.revision
        BY <1>0, PhaseChanges
      <4>2. fills' = (fills \ {d}) \cup {n}
        BY <3>2 DEF OutcomeLost, InPhase
      <4> HIDE DEF n
      <4>3. Unheard(n)'
        BY <2>1, <3>2, <4>1 DEF OutcomeLost, Unheard, p
      <4>4. {f \in fills' : ~ Unheard(f)'} = {f \in fills \ {d} : ~ Unheard(f)}
        BY <2>4, <4>2, <4>3
      <4> QED
        BY <4>4 DEF partClaims
    <3> QED
      BY <1>2, <3>1, <3>2 DEF PartOutcome, OutcomeHeard
  <2>7. partClaims' = partClaims \ {<<p, part[p].revision>>} /\ <<p, part[p].revision>> \in partClaims
    BY <2>1, <2>5, <2>6 DEF partClaims, p, PartInv, ClaimsNumbered
  <2>8. \E next \in {"OPEN", "DELIVERED", "FAILED", "SETTLED"} : PartitionQueue!Advance(p, next)
    BY <2>2, <2>3
  <2>9. PartStage(part[p]) = "CLAIMED" /\ p \in Partitions
    BY <2>1, PartStages
  <2>10. PartitionQueue!Decide(p)
    BY <2>7, <2>8, <2>9 DEF PartitionQueue!Decide, partClaims
  <2> QED
    BY <2>9, <2>10 DEF PartitionQueue!CNext
<1>3. ASSUME NEW d \in fills, GoesOnWith(d) PROVE UNCHANGED PartitionQueue!vars
  <2>1. PICK phase : RowsStay /\ fills' = InPhase(d, phase)
    BY <1>3 DEF GoesOnWith
  <2> DEFINE n == [d EXCEPT !.phase = phase]
  <2>2. n.part = d.part /\ n.revision = d.revision
    BY <1>0, PhaseChanges
  <2>3. fills' = (fills \ {d}) \cup {n}
    BY <2>1 DEF InPhase
  <2> HIDE DEF n
  <2>4. \A e \in fills : Unheard(e)' <=> Unheard(e)
    BY <1>0, <2>1, UnheardStays DEF PartInv
  <2>5. Unheard(n)' <=> Unheard(d)
    BY <2>2, <2>4 DEF Unheard
  <2>6. partClaims' = partClaims
    BY <2>2, <2>3, <2>4, <2>5 DEF partClaims
  <2> QED
    BY <1>a, <2>1, <2>6
<1>4. ASSUME NEW d \in fills, GoesAway(d)
      PROVE  PartitionQueue!CNext \/ UNCHANGED PartitionQueue!vars
  <2>1. RowsStay /\ fills' = fills \ {d}
    BY <1>4 DEF GoesAway
  <2>2. \A e \in fills : Unheard(e)' <=> Unheard(e)
    BY <1>0, <2>1, UnheardStays DEF PartInv
  <2>3. CASE Unheard(d)
    <3>1. partClaims' = partClaims
      BY <2>1, <2>2, <2>3 DEF partClaims
    <3> QED
      BY <1>a, <2>1, <3>1
  <2>4. CASE ~ Unheard(d)
    <3>1. /\ partClaims' = partClaims \ {<<d.part, d.revision>>}
          /\ <<d.part, d.revision>> \in partClaims
      BY <2>1, <2>2, <2>4 DEF partClaims, PartInv, ClaimsNumbered
    <3>2. PartitionQueue!Abandon(<<d.part, d.revision>>)
      BY <2>1, <3>1, RowsStayMapped
         DEF PartitionQueue!Abandon, partStages, partRevisions, partClaims
    <3> QED
      BY <3>1, <3>2 DEF PartitionQueue!CNext, partClaims
  <2> QED
    BY <2>3, <2>4
<1>5. ASSUME RowsStay, UNCHANGED fills PROVE UNCHANGED PartitionQueue!vars
  <2>1. \A e \in fills : Unheard(e)' <=> Unheard(e)
    BY <1>0, <1>5, UnheardStays DEF PartInv
  <2>2. partClaims' = partClaims
    BY <1>5, <2>1 DEF partClaims
  <2> QED
    BY <1>a, <1>5, <2>2
<1> QED
  BY <1>1, <1>2, <1>3, <1>4, <1>5 DEF PartKinds

\* A consumer that lost its claim, was late, or never heard that it had committed
\* decides nothing: the newest claim of a partition decides it, once.
THEOREM PartitionsRefine == LSpec => PartitionsRefineClaimedDelivery
<1>1. LInit => PartitionQueue!CInit
  BY PartStages DEF LInit, PartitionQueue!CInit, NoPartition
<1>2. PartInv /\ [LNext]_vars => [PartitionQueue!CNext]_PartitionQueue!vars
  <2> SUFFICES ASSUME PartInv, [LNext]_vars
               PROVE  PartitionQueue!CNext \/ UNCHANGED PartitionQueue!vars
    OBVIOUS
  <2>1. CASE LaunchNext
    BY <2>1, PartSteps, PartStepRefines DEF PartInv
  <2>2. CASE UNCHANGED launchVars
    BY <2>2 DEF launchVars, PartitionQueue!vars, Unheard
  <2> QED
    BY <2>1, <2>2 DEF LNext, vars
<1> QED
  BY <1>1, <1>2, PartInvHolds, PTL
     DEF LSpec, PartitionsRefineClaimedDelivery, PartitionQueue!CSpec

=============================================================================
