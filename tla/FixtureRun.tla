----------------------------- MODULE FixtureRun -----------------------------
(***************************************************************************)
(* A fixture run: a frozen plan of nodes, each creating one resource at a  *)
(* provider, and the ledger by which the resources are removed again.      *)
(*                                                                         *)
(* A node is claimed in one transaction, the provider is called outside    *)
(* of any, and the outcome is recorded in another one.  The run's workflow *)
(* prepares the levels of the plan, holds the run, and cleans up; a sweep  *)
(* of the tenant does the work the workflow, or a dead worker, left over.  *)
(*                                                                         *)
(* The key of a creation is stable, so a node has at most one resource.    *)
(* The activity of a node is never retried: when it times out or its       *)
(* worker dies the workflow fails, and a live worker goes on regardless.   *)
(* A resource reaches its time to live never, at any time, or late: after  *)
(* the preparation of the run, which its author then has allowed for.      *)
(***************************************************************************)
EXTENDS Naturals, FiniteSets

CONSTANTS
  Nodes,          \* nodes of the compiled plan
  Level,          \* execution level of a node
  Parents,        \* nodes whose resources a node's resource hangs on
  MaxAttempts,    \* creations the node's retry policy allows
  MaxReconciles,  \* reconcile_max_attempts
  MaxCleanups,    \* cleanup_max_attempts
  MaxRetries,     \* bound on the retries of a cleanup
  MaxFaults,      \* bound on lost answers, timeouts, dead and slow workers
  Expiries,       \* when resources reach their time to live: "NEVER", "LATE" or "ANY"
  Cancels,        \* whether users cancel the run
  LeaseLosses,    \* whether the bound lease, or its connector, may be lost
  Overruns        \* the claims, to "RECONCILE" or to "CLEANUP", that workers may outlive

ASSUME FixtureAssumption ==
  /\ IsFiniteSet(Nodes)
  /\ Level \in [Nodes -> Nat]
  /\ Parents \in [Nodes -> SUBSET Nodes]
  /\ \A c \in Nodes : \A p \in Parents[c] : Level[p] < Level[c]
  /\ {MaxAttempts, MaxReconciles, MaxCleanups} \subseteq Nat \ {0}
  /\ {MaxRetries, MaxFaults} \subseteq Nat
  /\ Expiries \in {"NEVER", "LATE", "ANY"}
  /\ {Cancels, LeaseLosses} \subseteq BOOLEAN
  /\ Overruns \subseteq {"RECONCILE", "CLEANUP"}

VARIABLES
  fixtureRun, \* fixture_run
  node,       \* data_node_run
  resource,   \* resource_record of the node, if any
  real,       \* what exists at the provider
  exec,       \* worker executing the node
  recon,      \* workers reconciling nodes
  cleaning,   \* workers deleting resources
  flow,       \* FixtureRunWorkflow
  lease,      \* the bound account lease and its connector
  faults, retries

fixtureVars == <<fixtureRun, node, resource, real, exec, recon, cleaning, flow, lease,
                 faults, retries>>
ledger == <<fixtureRun, node, resource>>
workers == <<exec, recon, cleaning>>
budget == <<faults, retries>>

RunStates == {"REQUESTED", "RUNNING", "READY", "CLEANING", "RELEASED", "CLEANUP_FAILED",
              "FAILED", "CANCELED"}
Intents == {"RELEASED", "FAILED", "CANCELED"}
CleanupStates == {"NOT_REQUIRED", "PENDING", "RUNNING", "CLEANED", "LEAKED"}
RunRow == [status : RunStates, intent : Intents \cup {"NONE"}, cleanup : CleanupStates,
           cancel : BOOLEAN, evidence : BOOLEAN]

NodeStates == {"PENDING", "READY", "RUNNING", "VERIFYING", "SUCCEEDED", "FAILED",
               "OUTCOME_UNCERTAIN"}
ReconcileStates == {"NOT_REQUIRED", "PENDING", "RUNNING", "FOUND", "ABSENT",
                    "INCONCLUSIVE", "EXHAUSTED"}
\* claimExpired: the failure code says so, and not that the budget is exhausted
NodeRow == [status : NodeStates, reconcile : ReconcileStates, attempts : 0..MaxAttempts,
            reconciles : 0..MaxReconciles, claimExpired : BOOLEAN]

ResourceStates == {"ACTIVE", "CLEANUP_PENDING", "CLEANING", "BLOCKED_BY_CHILD",
                   "ORPHAN_SUSPECTED", "LEAKED", "CLEANED"}
ResourceRow == [status : ResourceStates \cup {"NONE"}, gen : 0..(MaxCleanups + MaxRetries)]

Attempt == {"IDLE", "CALL", "OK", "LOST", "REFUSED", "VERIFY"}
ReconcileAttempt == [node : Nodes, number : 1..MaxReconciles, by : {"FLOW", "SWEEP"},
                     answer : {"ASKED", "FOUND", "ABSENT", "UNKNOWN", "FAILED", "VERIFY"}]
CleanupAttempt == [node : Nodes, gen : 1..(MaxCleanups + MaxRetries),
                   by : {"FLOW", "SWEEP"}, answer : {"CALL", "DONE", "RETRY", "FAILED"}]
Binding == {"ACTIVE", "LOST", "RELEASED"}

FTypeOK ==
  /\ fixtureRun \in RunRow
  /\ node \in [Nodes -> NodeRow]
  /\ resource \in [Nodes -> ResourceRow]
  /\ real \in [Nodes -> {"ABSENT", "EXISTS", "DELETED"}]
  /\ exec \in [Nodes -> Attempt]
  /\ recon \subseteq ReconcileAttempt
  /\ cleaning \subseteq CleanupAttempt
  /\ flow \in [at : {"PREPARE", "HOLD", "CLEAN", "END"}, cancel : BOOLEAN,
               cleaned : SUBSET Nodes]
  /\ lease \in Binding
  /\ faults \in 0..MaxFaults
  /\ retries \in 0..MaxRetries

FInit ==
  /\ fixtureRun = [status |-> "REQUESTED", intent |-> "NONE", cleanup |-> "PENDING",
            cancel |-> FALSE, evidence |-> FALSE]
  /\ node = [n \in Nodes |-> [status |-> "PENDING", reconcile |-> "NOT_REQUIRED",
                              attempts |-> 0, reconciles |-> 0, claimExpired |-> FALSE]]
  /\ resource = [n \in Nodes |-> [status |-> "NONE", gen |-> 0]]
  /\ real = [n \in Nodes |-> "ABSENT"]
  /\ exec = [n \in Nodes |-> "IDLE"]
  /\ recon = {}
  /\ cleaning = {}
  /\ flow = [at |-> "PREPARE", cancel |-> FALSE, cleaned |-> {}]
  /\ lease = "ACTIVE"
  /\ faults = 0
  /\ retries = 0

Fault == faults < MaxFaults /\ faults' = faults + 1 /\ UNCHANGED retries

\* A call that may be lost costs a fault when it is.
Loss(lost) == IF lost THEN Fault ELSE UNCHANGED budget

\* A claim runs out once its worker is gone, or before a slow one is done.
Overrun(claim, working) == IF working THEN claim \in Overruns /\ Fault ELSE UNCHANGED budget

Preparing == fixtureRun.status \in {"REQUESTED", "RUNNING"}
Recorded(n) == resource[n].status # "NONE"
Uncleaned(n) == Recorded(n) /\ resource[n].status # "CLEANED"
Children(n) == {c \in Nodes : n \in Parents[c]}

-----------------------------------------------------------------------------
(* Executing a node *)

\* _claim_node: the workflow has come to the level of n, or tries n again.
ClaimNode(n) ==
  /\ flow.at = "PREPARE" /\ ~flow.cancel
  /\ \A m \in Nodes : Level[m] < Level[n] => node[m].status = "SUCCEEDED"
  /\ exec[n] = "IDLE"
  /\ node[n].status \in {"PENDING", "READY"}
  /\ IF lease = "ACTIVE"
     THEN /\ node' = [node EXCEPT ![n].status = "RUNNING", ![n].attempts = @ + 1]
          /\ fixtureRun' = [fixtureRun EXCEPT !.status = IF @ = "REQUESTED" THEN "RUNNING" ELSE @]
          /\ exec' = [exec EXCEPT ![n] = "CALL"]
     ELSE /\ node' = [node EXCEPT ![n].status = "FAILED"]
          /\ UNCHANGED <<fixtureRun, exec>>
  /\ UNCHANGED <<resource, real, recon, cleaning, flow, lease, budget>>

\* The provider creates the resource, or definitely does not.
Create(n) ==
  /\ exec[n] = "CALL"
  /\ \E effect, lost \in BOOLEAN :
       /\ real' = [real EXCEPT ![n] = IF effect THEN "EXISTS" ELSE @]
       /\ exec' = [exec EXCEPT ![n] = IF lost THEN "LOST" ELSE IF effect THEN "OK" ELSE "REFUSED"]
       /\ Loss(lost)
  /\ UNCHANGED <<ledger, recon, cleaning, flow, lease>>

\* The resource enters the ledger before its postconditions are verified.
RecordProviderOutcome(n) ==
  /\ exec[n] = "OK"
  /\ node[n].status = "RUNNING"
  /\ node' = [node EXCEPT ![n].status = "VERIFYING"]
  /\ resource' = [resource EXCEPT ![n].status = "ACTIVE"]
  /\ exec' = [exec EXCEPT ![n] = "VERIFY"]
  /\ UNCHANGED <<fixtureRun, real, recon, cleaning, flow, lease, budget>>

\* mutant: an answer that is lost counts as a refusal
BlindlyFailed(row) == [row EXCEPT !.status = "FAILED"]

Uncertain(row) == [row EXCEPT !.status = "OUTCOME_UNCERTAIN", !.reconcile = "PENDING",
                              !.claimExpired = FALSE]

\* _fail_claim: no answer, or one that could not be made durable.
OutcomeIsUncertain(n) ==
  /\ \/ exec[n] = "LOST" /\ UNCHANGED budget
     \/ exec[n] = "OK" /\ Fault
  /\ node' = [node EXCEPT ![n] = Uncertain(@)]
  /\ exec' = [exec EXCEPT ![n] = "IDLE"]
  /\ UNCHANGED <<fixtureRun, resource, real, recon, cleaning, flow, lease>>

\* The provider refused, or a postcondition does not hold.
NodeFails(n) ==
  /\ exec[n] \in {"REFUSED", "VERIFY"}
  /\ node' = [node EXCEPT ![n].status = "FAILED"]
  /\ exec' = [exec EXCEPT ![n] = "IDLE"]
  /\ UNCHANGED <<fixtureRun, resource, real, recon, cleaning, flow, lease, budget>>

NodeSucceeds(n) ==
  /\ exec[n] = "VERIFY"
  /\ node' = [node EXCEPT ![n].status = "SUCCEEDED"]
  /\ exec' = [exec EXCEPT ![n] = "IDLE"]
  /\ UNCHANGED <<fixtureRun, resource, real, recon, cleaning, flow, lease, budget>>

-----------------------------------------------------------------------------
(* Reconciling an uncertain node, for the workflow or for the sweep *)

ClaimReconcile(n, by) ==
  /\ by = "FLOW" => flow.at = "PREPARE" /\ ~flow.cancel
  /\ node[n].status = "OUTCOME_UNCERTAIN"
  /\ node[n].reconcile \in {"PENDING", "INCONCLUSIVE"}
  /\ node[n].reconciles < MaxReconciles
  /\ lease = "ACTIVE"
  /\ node' = [node EXCEPT ![n].reconcile = "RUNNING", ![n].reconciles = @ + 1]
  /\ recon' = recon \cup {[node |-> n, number |-> node[n].reconciles + 1, by |-> by,
                           answer |-> "ASKED"]}
  /\ UNCHANGED <<fixtureRun, resource, real, exec, cleaning, flow, lease, budget>>

Answered(w, answer) == (recon \ {w}) \cup {[w EXCEPT !.answer = answer]}

\* The provider says what it has, or that it cannot tell.
Reconcile(w) ==
  /\ w.answer = "ASKED"
  /\ \/ real[w.node] = "EXISTS" /\ recon' = Answered(w, "FOUND") /\ UNCHANGED budget
     \/ real[w.node] = "ABSENT" /\ recon' = Answered(w, "ABSENT") /\ UNCHANGED budget
     \/ \E answer \in {"UNKNOWN", "FAILED"} : recon' = Answered(w, answer) /\ Fault
  /\ UNCHANGED <<ledger, real, exec, cleaning, flow, lease>>

Claimed(n) == node[n].status = "OUTCOME_UNCERTAIN" /\ node[n].reconcile = "RUNNING"

MayCreateAgain(n) == Preparing /\ ~fixtureRun.cancel /\ node[n].attempts < MaxAttempts

AfterAbsent(n) ==
  IF ~Claimed(n) THEN node[n]
  ELSE IF MayCreateAgain(n) THEN [node[n] EXCEPT !.status = "READY", !.reconcile = "ABSENT"]
  ELSE [node[n] EXCEPT !.status = "FAILED", !.reconcile = "EXHAUSTED"]

\* Whoever holds the claim now, an answer finds it running and settles it.
FinishReconcileAbsent(w) ==
  /\ w.answer = "ABSENT"
  /\ node' = [node EXCEPT ![w.node] = AfterAbsent(w.node)]
  /\ recon' = recon \ {w}
  /\ UNCHANGED <<fixtureRun, resource, real, exec, cleaning, flow, lease, budget>>

AfterInconclusive(w) ==
  IF ~Claimed(w.node) THEN node[w.node]
  ELSE [node[w.node] EXCEPT !.claimExpired = FALSE, !.reconcile =
          IF w.answer = "UNKNOWN" /\ w.number < MaxReconciles THEN "INCONCLUSIVE" ELSE "EXHAUSTED"]

FinishReconcileInconclusive(w) ==
  /\ w.answer \in {"UNKNOWN", "FAILED"}
  /\ node' = [node EXCEPT ![w.node] = AfterInconclusive(w)]
  /\ recon' = recon \ {w}
  /\ UNCHANGED <<fixtureRun, resource, real, exec, cleaning, flow, lease, budget>>

\* A resource found after the run has been given up is an orphan.
FoundAs == IF fixtureRun.cancel \/ ~Preparing THEN "ORPHAN_SUSPECTED" ELSE "ACTIVE"

RecordReconcileFound(w) ==
  /\ w.answer = "FOUND"
  /\ IF Claimed(w.node)
     THEN /\ node' = [node EXCEPT ![w.node].status = "VERIFYING", ![w.node].reconcile = "FOUND"]
          /\ resource' = [resource EXCEPT ![w.node].status = FoundAs]
          /\ recon' = Answered(w, "VERIFY")
     ELSE UNCHANGED <<node, resource>> /\ recon' = recon \ {w}
  /\ UNCHANGED <<fixtureRun, real, exec, cleaning, flow, lease, budget>>

FinishReconciled(w) ==
  /\ w.answer = "VERIFY"
  /\ \E outcome \in {"SUCCEEDED", "FAILED"} : node' = [node EXCEPT ![w.node].status = outcome]
  /\ recon' = recon \ {w}
  /\ UNCHANGED <<fixtureRun, resource, real, exec, cleaning, flow, lease, budget>>

\* The claim of a dead worker, or of a slow one, runs out.
RecoverReconcileClaim(n) ==
  /\ Claimed(n)
  /\ Overrun("RECONCILE", \E w \in recon : w.node = n)
  /\ node' = [node EXCEPT ![n].reconcile =
                IF node[n].reconciles >= MaxReconciles THEN "EXHAUSTED" ELSE "INCONCLUSIVE",
              ![n].claimExpired = TRUE]
  /\ UNCHANGED <<fixtureRun, resource, real, workers, flow, lease>>

-----------------------------------------------------------------------------
(* Removing a resource *)

\* mutant: a resource is removed whatever still hangs on it
NoChildCounts(n) == FALSE

HasUncleanedChild(n) == \E c \in Children(n) : Uncleaned(c)

Due(n) == resource[n].status \in {"CLEANUP_PENDING", "BLOCKED_BY_CHILD", "ORPHAN_SUSPECTED"}

\* The workflow removes the resources of one node after the other, children first.
Turn(n) ==
  /\ flow.at = "CLEAN"
  /\ n \notin flow.cleaned /\ Children(n) \subseteq flow.cleaned
  /\ ~\E w \in cleaning : w.by = "FLOW"

Passed(n) == flow' = [flow EXCEPT !.cleaned = @ \cup {n}]
Failed == flow' = [flow EXCEPT !.at = "END"]

Asks(n, by) == IF by = "FLOW" THEN Turn(n) ELSE TRUE

\* claim_resource_cleanup: a child is in the way.
BlockCleanup(n, by) ==
  /\ Asks(n, by) /\ Due(n) /\ HasUncleanedChild(n)
  /\ resource[n].status # "ORPHAN_SUSPECTED"
  /\ resource' = [resource EXCEPT ![n].status = "BLOCKED_BY_CHILD"]
  /\ IF by = "FLOW" THEN Passed(n) ELSE UNCHANGED flow
  /\ UNCHANGED <<fixtureRun, node, real, workers, lease, budget>>

\* The trigger refuses to block an orphan, and the activity fails with it.
OrphanCannotBlock(n) ==
  /\ Turn(n) /\ HasUncleanedChild(n)
  /\ resource[n].status = "ORPHAN_SUSPECTED"
  /\ Failed
  /\ UNCHANGED <<ledger, real, workers, lease, budget>>

Claimable(n) == resource[n].status \in {"CLEANUP_PENDING", "ORPHAN_SUSPECTED"} /\ ~HasUncleanedChild(n)

\* Without the fence of the lease the provider is not asked.
ClaimCleanup(n, by) ==
  /\ Asks(n, by) /\ Claimable(n)
  /\ IF lease = "ACTIVE"
     THEN /\ resource' = [resource EXCEPT ![n].status = "CLEANING", ![n].gen = @ + 1]
          /\ cleaning' = cleaning \cup {[node |-> n, gen |-> resource[n].gen + 1, by |-> by,
                                         answer |-> "CALL"]}
          /\ UNCHANGED flow
     ELSE /\ resource' = [resource EXCEPT ![n].status = "LEAKED", ![n].gen = @ + 1]
          /\ IF by = "FLOW" THEN Passed(n) ELSE UNCHANGED flow
          /\ UNCHANGED cleaning
  /\ UNCHANGED <<fixtureRun, node, real, exec, recon, lease, budget>>

\* Nothing of the node is listed, or what is listed cannot be claimed.
NothingToClean(n) ==
  /\ Turn(n)
  /\ ~Claimable(n)
  /\ ~(Due(n) /\ HasUncleanedChild(n))
  /\ Passed(n)
  /\ UNCHANGED <<ledger, real, workers, lease, budget>>

\* The provider deletes the resource, or does not; a lost answer may be either.
Delete(w) ==
  /\ w.answer = "CALL"
  /\ \E effect \in BOOLEAN, answer \in {"DONE", "RETRY", "FAILED"} :
       /\ answer = "DONE" => effect
       /\ answer = "FAILED" => ~effect
       /\ real' = [real EXCEPT ![w.node] = IF effect THEN "DELETED" ELSE @]
       /\ cleaning' = (cleaning \ {w}) \cup {[w EXCEPT !.answer = answer]}
       /\ Loss(answer # "DONE")
  /\ UNCHANGED <<ledger, exec, recon, flow, lease>>

\* mutant: any worker may report on a row that is being cleaned, or was
AnyClaim(w) == resource[w.node].status \in {"CLEANING", "CLEANUP_PENDING"}

\* The revision of the claim is still the one of the row.
HoldsClaim(w) == resource[w.node].status = "CLEANING" /\ resource[w.node].gen = w.gen

AfterDelete(w) ==
  IF w.answer = "DONE" THEN "CLEANED"
  ELSE IF w.answer = "RETRY" /\ w.gen < MaxCleanups THEN "CLEANUP_PENDING" ELSE "LEAKED"

FinishCleanup(w) ==
  /\ w.answer # "CALL"
  /\ resource' = [resource EXCEPT ![w.node].status = IF HoldsClaim(w) THEN AfterDelete(w) ELSE @]
  /\ cleaning' = cleaning \ {w}
  /\ IF w.by = "SWEEP" \/ flow.at # "CLEAN" THEN UNCHANGED flow
     ELSE IF HoldsClaim(w) THEN Passed(w.node) ELSE Failed
  /\ UNCHANGED <<fixtureRun, node, real, exec, recon, lease, budget>>

Recovered(n) == IF resource[n].gen >= MaxCleanups THEN "LEAKED" ELSE "CLEANUP_PENDING"

RecoverCleanupClaim(n) ==
  /\ resource[n].status = "CLEANING"
  /\ Overrun("CLEANUP", \E w \in cleaning : w.node = n)
  /\ resource' = [resource EXCEPT ![n].status = Recovered(n)]
  /\ UNCHANGED <<fixtureRun, node, real, workers, flow, lease>>

QueueExpired(n) ==
  /\ Expiries = "ANY" \/ (Expiries = "LATE" /\ ~Preparing)
  /\ resource[n].status = "ACTIVE"
  /\ resource' = [resource EXCEPT ![n].status = "ORPHAN_SUSPECTED"]
  /\ UNCHANGED <<fixtureRun, node, real, workers, flow, lease, budget>>

-----------------------------------------------------------------------------
(* The run *)

Queued == [n \in Nodes |-> IF resource[n].status = "ACTIVE"
                           THEN [resource[n] EXCEPT !.status = "CLEANUP_PENDING"]
                           ELSE resource[n]]

\* The run turns to its cleanup, if it still may, and its resources with it.
BeginCleanup(intent, from) ==
  IF fixtureRun.status \in from
  THEN /\ fixtureRun' = [fixtureRun EXCEPT !.status = "CLEANING", !.intent = intent, !.cleanup = "RUNNING"]
       /\ resource' = Queued
  ELSE UNCHANGED <<fixtureRun, resource>>

Cancelable == {"REQUESTED", "RUNNING", "READY"}

\* The request is durable; its signal may be lost, or find no workflow.
Cancel ==
  /\ Cancels
  /\ fixtureRun.status \in Cancelable
  /\ fixtureRun' = [fixtureRun EXCEPT !.cancel = TRUE]
  /\ \E told \in BOOLEAN : flow' = [flow EXCEPT !.cancel = @ \/ told]
  /\ UNCHANGED <<node, resource, real, workers, lease, budget>>

SweepCanceled ==
  /\ fixtureRun.cancel
  /\ fixtureRun.status \in Cancelable
  /\ BeginCleanup("CANCELED", Cancelable)
  /\ UNCHANGED <<node, real, workers, flow, lease, budget>>

RetryCleanup ==
  /\ fixtureRun.status = "CLEANING"
  /\ retries < MaxRetries
  /\ resource' = [n \in Nodes |->
       IF resource[n].status \in {"LEAKED", "BLOCKED_BY_CHILD", "ORPHAN_SUSPECTED"}
       THEN [resource[n] EXCEPT !.status = "CLEANUP_PENDING"] ELSE resource[n]]
  /\ fixtureRun' = [fixtureRun EXCEPT !.cleanup = "RUNNING"]
  /\ retries' = retries + 1
  /\ UNCHANGED <<node, real, workers, flow, lease, faults>>

Pending(n) == \/ resource[n].status \in ResourceStates \ {"LEAKED", "CLEANED"}
              \/ /\ node[n].status = "OUTCOME_UNCERTAIN"
                 /\ node[n].reconcile \in {"PENDING", "RUNNING", "INCONCLUSIVE"}

Leaked(n) == \/ resource[n].status = "LEAKED"
             \/ node[n].status = "OUTCOME_UNCERTAIN" /\ node[n].reconcile = "EXHAUSTED"

\* finalize_release: the run ends when nothing is left to do, and says what leaked.
Finalize ==
  /\ fixtureRun.status = "CLEANING"
  /\ LET leaked == \E n \in Nodes : Leaked(n) IN
     IF \E n \in Nodes : Pending(n)
     THEN fixtureRun' = [fixtureRun EXCEPT !.cleanup = "PENDING"] /\ UNCHANGED lease
     ELSE /\ fixtureRun' = [fixtureRun EXCEPT
               !.status = IF leaked /\ fixtureRun.intent = "RELEASED" THEN "CLEANUP_FAILED" ELSE fixtureRun.intent,
               !.cleanup = IF leaked THEN "LEAKED" ELSE "CLEANED",
               !.evidence = ~leaked /\ fixtureRun.intent = "RELEASED"]
          /\ lease' = IF lease = "ACTIVE" THEN "RELEASED" ELSE lease

SweepFinalizes ==
  /\ Finalize
  /\ UNCHANGED <<node, resource, real, workers, flow, budget>>

LoseLease ==
  /\ LeaseLosses
  /\ lease = "ACTIVE"
  /\ lease' = "LOST"
  /\ UNCHANGED <<ledger, real, workers, flow, budget>>

-----------------------------------------------------------------------------
(* FixtureRunWorkflow *)

Idle(n) == exec[n] = "IDLE" /\ ~\E w \in recon : w.node = n /\ w.by = "FLOW"

\* What the workflow takes for the end of a node's preparation.
Final(n) == \/ node[n].status \in {"SUCCEEDED", "FAILED", "VERIFYING"}
            \/ node[n].reconcile = "EXHAUSTED" /\ ~node[n].claimExpired

Reached(l) == \A m \in Nodes : Level[m] < l => node[m].status = "SUCCEEDED"

FlowGivesUp ==
  /\ flow.at = "PREPARE" /\ ~flow.cancel
  /\ \E n \in Nodes :
       /\ node[n].status # "SUCCEEDED"
       /\ Reached(Level[n])
       /\ \A m \in Nodes : Level[m] = Level[n] => Idle(m) /\ Final(m)
  /\ BeginCleanup("FAILED", {"REQUESTED", "RUNNING"})
  /\ flow' = [flow EXCEPT !.at = "CLEAN"]
  /\ UNCHANGED <<node, real, workers, lease, budget>>

\* The workflow has taken the cancellation in, and its activities have ended.
FlowCancels ==
  /\ flow.at \in {"PREPARE", "HOLD"} /\ flow.cancel
  /\ \A n \in Nodes : Idle(n)
  /\ BeginCleanup("CANCELED", Cancelable)
  /\ flow' = [flow EXCEPT !.at = "CLEAN"]
  /\ UNCHANGED <<node, real, workers, lease, budget>>

FlowReady ==
  /\ flow.at = "PREPARE" /\ ~flow.cancel
  /\ \A n \in Nodes : Idle(n) /\ node[n].status = "SUCCEEDED"
  /\ IF fixtureRun.status = "RUNNING"
     THEN fixtureRun' = [fixtureRun EXCEPT !.status = "READY"] /\ flow' = [flow EXCEPT !.at = "HOLD"]
     ELSE UNCHANGED fixtureRun /\ Failed
  /\ UNCHANGED <<node, resource, real, workers, lease, budget>>

\* A release is asked for, or the deadline of the run has come.
FlowReleases ==
  /\ flow.at = "HOLD" /\ ~flow.cancel
  /\ BeginCleanup("RELEASED", {"READY"})
  /\ flow' = [flow EXCEPT !.at = IF fixtureRun.status \in {"CANCELED", "FAILED"} THEN "END" ELSE "CLEAN"]
  /\ UNCHANGED <<node, real, workers, lease, budget>>

FlowFinalizes ==
  /\ flow.at = "CLEAN" /\ flow.cleaned = Nodes
  /\ IF fixtureRun.status = "CLEANING" THEN Finalize ELSE UNCHANGED <<fixtureRun, lease>>
  /\ Failed
  /\ UNCHANGED <<node, resource, real, workers, budget>>

\* A node's activity times out.  Its worker goes on.
ActivityTimesOut ==
  /\ \/ flow.at = "PREPARE" /\ \E n \in Nodes : ~Idle(n)
     \/ flow.at = "CLEAN" /\ \E w \in cleaning : w.by = "FLOW"
  /\ Failed
  /\ Fault
  /\ UNCHANGED <<ledger, real, workers, lease>>

\* A worker dies.  A workflow that waits for it fails.
WorkerDies ==
  /\ \/ \E n \in Nodes :
          /\ exec[n] # "IDLE"
          /\ exec' = [exec EXCEPT ![n] = "IDLE"]
          /\ Failed
          /\ UNCHANGED <<recon, cleaning>>
     \/ \E w \in recon :
          /\ recon' = recon \ {w}
          /\ IF w.by = "FLOW" THEN Failed ELSE UNCHANGED flow
          /\ UNCHANGED <<exec, cleaning>>
     \/ \E w \in cleaning :
          /\ cleaning' = cleaning \ {w}
          /\ IF w.by = "FLOW" THEN Failed ELSE UNCHANGED flow
          /\ UNCHANGED <<exec, recon>>
  /\ Fault
  /\ UNCHANGED <<ledger, real, lease>>

-----------------------------------------------------------------------------
Execution(n) == ClaimNode(n) \/ Create(n) \/ RecordProviderOutcome(n) \/ OutcomeIsUncertain(n)
                \/ NodeFails(n) \/ NodeSucceeds(n)

Reconciliation(w) == Reconcile(w) \/ FinishReconcileAbsent(w) \/ FinishReconcileInconclusive(w)
                     \/ RecordReconcileFound(w) \/ FinishReconciled(w)

Deletion(w) == Delete(w) \/ FinishCleanup(w)

Cleanup(n, by) == BlockCleanup(n, by) \/ ClaimCleanup(n, by)

Recovery(n) == RecoverReconcileClaim(n) \/ RecoverCleanupClaim(n)

Workflow == FlowGivesUp \/ FlowCancels \/ FlowReady \/ FlowReleases \/ FlowFinalizes
            \/ \E n \in Nodes : OrphanCannotBlock(n) \/ NothingToClean(n)

FNext ==
  \/ \E n \in Nodes : Execution(n) \/ QueueExpired(n) \/ Recovery(n)
                      \/ \E by \in {"FLOW", "SWEEP"} : ClaimReconcile(n, by) \/ Cleanup(n, by)
  \/ \E w \in recon : Reconciliation(w)
  \/ \E w \in cleaning : Deletion(w)
  \/ Workflow
  \/ Cancel \/ SweepCanceled \/ RetryCleanup \/ SweepFinalizes \/ LoseLease
  \/ ActivityTimesOut \/ WorkerDies

FSpec == FInit /\ [][FNext]_fixtureVars

-----------------------------------------------------------------------------
(* Properties *)

\* A blueprint is certified to clean up after itself only by a run that left
\* nothing at the provider: FinalizeRelease counts the whole ledger, however many
\* claims, retries, expiries and late answers the cleanup went through.
CleanupEvidenceIsTrue == fixtureRun.evidence => \A n \in Nodes : real[n] # "EXISTS"

\* In a run released without a cancellation a resource outlives what hangs on it, whoever
\* removes which first: the workflow, a sweep, an expiry or a recovered claim's worker.
ReleaseKeepsOrder ==
  fixtureRun.intent = "RELEASED" /\ ~fixtureRun.cancel =>
    \A c \in Nodes : \A p \in Parents[c] : real[c] = "EXISTS" => real[p] = "EXISTS"

\* While no worker outlives its claim, what exists at the provider is in the ledger,
\* or its node is still open: it is never forgotten by a lost or late answer.
NothingForgotten ==
  \A n \in Nodes : real[n] = "EXISTS" =>
    Uncleaned(n) \/ node[n].status \in {"RUNNING", "OUTCOME_UNCERTAIN"}

\* The ledger is the provider's: its rows have the form the constraints ask
\* for, what exists is in them, and what they say of the cleanup is so.
FInv == FTypeOK /\ NothingForgotten /\ CleanupEvidenceIsTrue

Moved(old, new, moves) == old = new \/ <<old, new>> \in moves

RunMoves ==
  {"REQUESTED"} \X {"RUNNING", "CLEANING", "FAILED", "CANCELED"}
  \cup {"RUNNING"} \X {"READY", "CLEANING", "FAILED", "CANCELED"}
  \cup {"READY"} \X {"CLEANING"}
  \cup {"CLEANING"} \X {"RELEASED", "FAILED", "CANCELED", "CLEANUP_FAILED"}
  \cup {"CLEANUP_FAILED"} \X {"CLEANING", "RELEASED"}
  \cup {"FAILED", "CANCELED"} \X {"CLEANING"}

NodeMoves ==
  {"PENDING"} \X {"READY", "RUNNING", "FAILED"}
  \cup {"READY"} \X {"RUNNING", "FAILED"}
  \cup {"RUNNING"} \X {"VERIFYING", "FAILED", "OUTCOME_UNCERTAIN"}
  \cup {"VERIFYING"} \X {"SUCCEEDED", "FAILED", "OUTCOME_UNCERTAIN"}
  \cup {"OUTCOME_UNCERTAIN"} \X {"READY", "VERIFYING", "FAILED"}

ReconcileMoves ==
  {"NOT_REQUIRED"} \X {"PENDING"}
  \cup {"PENDING", "INCONCLUSIVE", "ABSENT"}
       \X {"PENDING", "RUNNING", "INCONCLUSIVE", "ABSENT", "EXHAUSTED"}
  \cup {"RUNNING"} \X {"FOUND", "ABSENT", "INCONCLUSIVE", "EXHAUSTED"}

ResourceMoves ==
  {"NONE"} \X {"ACTIVE", "ORPHAN_SUSPECTED"}
  \cup {"ACTIVE"} \X {"CLEANUP_PENDING", "ORPHAN_SUSPECTED"}
  \cup {"CLEANUP_PENDING"} \X {"CLEANING", "BLOCKED_BY_CHILD", "LEAKED"}
  \cup {"CLEANING"} \X {"CLEANUP_PENDING", "CLEANED", "LEAKED"}
  \cup {"BLOCKED_BY_CHILD"} \X {"CLEANUP_PENDING", "LEAKED"}
  \cup {"LEAKED"} \X {"CLEANUP_PENDING", "CLEANING"}
  \cup {"ORPHAN_SUSPECTED"} \X {"CLEANUP_PENDING", "CLEANING", "LEAKED"}

\* No transaction of the service is refused by the triggers of the tables, in any
\* interleaving of workers, sweeps and recoveries.
GuardsAdmit ==
  [][/\ Moved(fixtureRun.status, fixtureRun'.status, RunMoves)
     /\ fixtureRun.intent # "NONE" => fixtureRun'.intent = fixtureRun.intent
     /\ \A n \in Nodes :
          /\ Moved(node[n].status, node'[n].status, NodeMoves)
          /\ Moved(node[n].reconcile, node'[n].reconcile, ReconcileMoves)
          /\ node'[n].attempts \in {node[n].attempts, node[n].attempts + 1}
          /\ Moved(resource[n].status, resource'[n].status, ResourceMoves)
          /\ resource'[n].gen \in {resource[n].gen, resource[n].gen + 1}]_ledger

=============================================================================
