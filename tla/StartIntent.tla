----------------------------- MODULE StartIntent -----------------------------
(***************************************************************************)
(* Delivery of the intents that start the Temporal workflows of task runs. *)
(*                                                                         *)
(* A dispatcher claims an intent in one transaction, talks to Temporal     *)
(* with no transaction open, and records the outcome in another one, as a  *)
(* compare-and-set on the claim.  The claim expires on the clock of the    *)
(* database, so a slow dispatcher and the one that took over may work on   *)
(* the same intent, and a request whose answer was lost may still take     *)
(* effect.  A dispatcher may die at any point.                             *)
(*                                                                         *)
(* Deliveries of one batch are independent of each other: a batch is a     *)
(* number of claims.                                                       *)
(***************************************************************************)
EXTENDS Naturals, FiniteSets

CONSTANTS
  Runs,          \* task runs, each with one intent and one workflow id
  MaxAttempts,   \* claims after which a transient error is final
  RpcAttempts,   \* calls of one delivery before it reports a transient error
  MaxExpiries    \* bound on the claims of an intent that may run out

ASSUME IntentAssumption ==
  /\ MaxAttempts \in Nat \ {0}
  /\ RpcAttempts \in Nat \ {0}
  /\ MaxExpiries \in Nat

VARIABLES
  intent,      \* run -> row of task_workflow_start_intent
  deliveries,  \* deliveries in the memory of some dispatcher
  sent,        \* runs with a start request on its way, or answered, at Temporal
  execution,   \* run -> the execution Temporal has under its workflow id
  starts       \* history: run -> executions started for it

intentVars == <<intent, deliveries, sent, execution, starts>>

IntentRow == [status   : {"PENDING", "CLAIMED", "RETRY_WAIT", "STARTED", "FAILED"},
              revision : Nat,
              attempts : Nat,
              expired  : BOOLEAN,        \* the claim, if any, has run out
              expiries : 0..MaxExpiries] \* claims that have run out so far

Delivery == [run      : Runs,
             revision : Nat,    \* of the row when it was claimed: the claim itself
             attempts : Nat,
             calls    : 1..RpcAttempts,
             phase    : {"SUBMIT", "AWAIT", "DESCRIBE", "VERIFIED", "TRANSIENT", "INVARIANT"}]

\* A workflow under the id of a run need not be the run's: its memo tells.
Execution == [state : {"NONE", "RUNNING", "CLOSED"}, memo : {"OWN", "OTHER"}]

STypeOK ==
  /\ intent \in [Runs -> IntentRow]
  /\ deliveries \subseteq Delivery
  /\ sent \subseteq Runs
  /\ execution \in [Runs -> Execution]
  /\ starts \in [Runs -> Nat]

SInit ==
  /\ intent = [r \in Runs |-> [status |-> "PENDING", revision |-> 0, attempts |-> 0,
                               expired |-> FALSE, expiries |-> 0]]
  /\ deliveries = {}
  /\ sent = {}
  /\ execution \in [Runs -> {[state |-> "NONE", memo |-> "OWN"],
                             [state |-> "RUNNING", memo |-> "OTHER"]}]
  /\ starts = [r \in Runs |-> 0]

-----------------------------------------------------------------------------
(* Claims *)

Claimable(r) ==
  \/ intent[r].status \in {"PENDING", "RETRY_WAIT"}    \* due: a retry comes due in time
  \/ intent[r].status = "CLAIMED" /\ intent[r].expired

Claim(r) ==
  /\ Claimable(r)
  /\ intent' = [intent EXCEPT ![r].status = "CLAIMED", ![r].expired = FALSE,
                              ![r].attempts = @ + 1, ![r].revision = @ + 1]
  /\ deliveries' = deliveries \cup
       {[run |-> r, revision |-> intent'[r].revision, attempts |-> intent'[r].attempts,
         calls |-> 1, phase |-> "SUBMIT"]}
  /\ UNCHANGED <<sent, execution, starts>>

ClaimExpires(r) ==
  /\ intent[r].status = "CLAIMED"
  /\ ~ intent[r].expired
  /\ intent[r].expiries < MaxExpiries
  /\ intent' = [intent EXCEPT ![r].expired = TRUE, ![r].expiries = @ + 1]
  /\ UNCHANGED <<deliveries, sent, execution, starts>>

-----------------------------------------------------------------------------
(* Temporal *)

\* mutant: the id may be used again once its workflow has closed
AdmitsUnlessRunning(r) == execution[r].state # "RUNNING"

\* REJECT_DUPLICATE with USE_EXISTING
Admits(r) == execution[r].state = "NONE"

\* A request is sent again by its client library until it is answered.
ExecutionStarts(r) ==
  /\ r \in sent
  /\ Admits(r)
  /\ execution' = [execution EXCEPT ![r] = [state |-> "RUNNING", memo |-> "OWN"]]
  /\ starts' = [starts EXCEPT ![r] = @ + 1]
  /\ UNCHANGED <<intent, deliveries, sent>>

ExecutionCloses(r) ==
  /\ execution[r].state = "RUNNING"
  /\ execution' = [execution EXCEPT ![r].state = "CLOSED"]
  /\ UNCHANGED <<intent, deliveries, sent, starts>>

-----------------------------------------------------------------------------
(* A delivery at work *)

Becomes(d, e) == deliveries' = (deliveries \ {d}) \cup {e}

Submit(d) ==
  /\ d.phase = "SUBMIT"
  /\ sent' = sent \cup {d.run}
  /\ Becomes(d, [d EXCEPT !.phase = "AWAIT"])
  /\ UNCHANGED <<intent, execution, starts>>

\* Started, or already started under this id.
Answered(d) ==
  /\ d.phase = "AWAIT"
  /\ execution[d.run].state # "NONE"
  /\ Becomes(d, [d EXCEPT !.phase = "DESCRIBE"])
  /\ UNCHANGED <<intent, sent, execution, starts>>

\* mutant: whatever runs under the id will do
AnyExecution(r) == "VERIFIED"

\* _verify_description
Verdict(r) == IF execution[r].memo = "OWN" THEN "VERIFIED" ELSE "INVARIANT"

Described(d) ==
  /\ d.phase = "DESCRIBE"
  /\ Becomes(d, [d EXCEPT !.phase = Verdict(d.run)])
  /\ UNCHANGED <<intent, sent, execution, starts>>

Calling(d) == d.phase \in {"SUBMIT", "AWAIT", "DESCRIBE"}

CallsLeft(d) == d.calls < RpcAttempts

\* No usable answer, whether or not the call had its effect: the same two
\* calls are made again.
CallRetried(d) ==
  /\ d.phase \in {"AWAIT", "DESCRIBE"}
  /\ CallsLeft(d)
  /\ Becomes(d, [d EXCEPT !.phase = "SUBMIT", !.calls = @ + 1])
  /\ UNCHANGED <<intent, sent, execution, starts>>

\* The last call had no usable answer, or something unexpected happened; or
\* the contract or the service rejects the request for good.
CallFails(d) ==
  /\ Calling(d)
  /\ \E phase \in {"TRANSIENT", "INVARIANT"} : Becomes(d, [d EXCEPT !.phase = phase])
  /\ UNCHANGED <<intent, sent, execution, starts>>

-----------------------------------------------------------------------------
(* Outcomes *)

\* mutant: the status alone is compared
ClaimedByAnyone(d) == intent[d.run].status = "CLAIMED"

\* The compare-and-set on status, claim token and revision.  Its time is
\* sampled before it waits for the row, so it may succeed on a claim that has
\* just run out and that nobody has taken over.
OwnsClaim(d) ==
  /\ intent[d.run].status = "CLAIMED"
  /\ intent[d.run].revision = d.revision

Records(d, status) ==
  /\ OwnsClaim(d)
  /\ intent' = [intent EXCEPT ![d.run].status = status, ![d.run].expired = FALSE,
                              ![d.run].revision = @ + 1]
  /\ deliveries' = deliveries \ {d}
  /\ UNCHANGED <<sent, execution, starts>>

Exhausted(d) == d.attempts >= MaxAttempts

MarkStarted(d) == d.phase = "VERIFIED" /\ Records(d, "STARTED")

RetryLater(d) == d.phase = "TRANSIENT" /\ ~ Exhausted(d) /\ Records(d, "RETRY_WAIT")

GiveUp(d) ==
  /\ d.phase = "INVARIANT" \/ (d.phase = "TRANSIENT" /\ Exhausted(d))
  /\ Records(d, "FAILED")

LeaseLost(d) ==
  /\ ~ Calling(d)
  /\ ~ OwnsClaim(d) \/ intent[d.run].expired
  /\ deliveries' = deliveries \ {d}
  /\ UNCHANGED <<intent, sent, execution, starts>>

\* The dispatcher dies, or another delivery of its batch takes it down.
Vanish(d) ==
  /\ OwnsClaim(d) => intent[d.run].expired \/ intent[d.run].expiries < MaxExpiries
  /\ deliveries' = deliveries \ {d}
  /\ UNCHANGED <<intent, sent, execution, starts>>

-----------------------------------------------------------------------------

Deliver(d) ==
  \/ Submit(d)
  \/ Answered(d)
  \/ Described(d)
  \/ CallRetried(d)
  \/ CallFails(d)
  \/ MarkStarted(d)
  \/ RetryLater(d)
  \/ GiveUp(d)
  \/ LeaseLost(d)

Dispatch ==
  \/ \E r \in Runs : Claim(r)
  \/ \E r \in Runs : ClaimExpires(r)
  \/ \E d \in deliveries : Deliver(d)

SNext ==
  \/ Dispatch
  \/ \E d \in deliveries : Vanish(d)
  \/ \E r \in Runs : ExecutionStarts(r)
  \/ \E r \in Runs : ExecutionCloses(r)

SSpec == SInit /\ [][SNext]_intentVars

-----------------------------------------------------------------------------
(* Properties *)

\* STARTED is recorded only for an execution that is the run's own, whoever
\* was asked and however often (TemporalTaskIntentStarter.start verifies every
\* answer).
StartedMeansOwnExecution ==
  \A r \in Runs : intent[r].status = "STARTED" =>
    execution[r].state # "NONE" /\ execution[r].memo = "OWN"

\* A run is executed at most once: not again when a late or repeated request
\* reaches Temporal after the workflow has closed (REJECT_DUPLICATE).
ExecutedAtMostOnce == \A r \in Runs : starts[r] <= 1

\* The queue keeps the promise of ClaimedDelivery: a dispatcher that lost its
\* claim cannot overwrite what its successor does or did.
Stage(row) ==
  CASE row.status \in {"PENDING", "RETRY_WAIT"} -> "OPEN"
    [] row.status = "CLAIMED" -> "CLAIMED"
    [] row.status = "STARTED" -> "DELIVERED"
    [] row.status = "FAILED"  -> "FAILED"

Abstract == INSTANCE ClaimedDelivery WITH
  Items    <- Runs,
  state    <- [r \in Runs |-> Stage(intent[r])],
  revision <- [r \in Runs |-> intent[r].revision],
  work     <- {<<d.run, d.revision>> : d \in deliveries}

RefinesClaimedDelivery == Abstract!CSpec

\* A dispatcher gives up on transient errors only after MaxAttempts claims,
\* and only the claims that ran out can make it more.
AttemptsBounded ==
  \A r \in Runs : intent[r].attempts <= MaxAttempts + intent[r].expiries

=============================================================================
