--------------------------- MODULE AccountHealth ---------------------------
(***************************************************************************)
(* Health verification of test accounts, beside the leases of              *)
(* AccountLease.  A verification runs in three stages: a transaction locks *)
(* a snapshot and marks the account VERIFYING, the login probe runs with   *)
(* no transaction open, and a second transaction applies the outcome only  *)
(* if every dependency of the snapshot is unchanged.  The process may die  *)
(* during the probe: its check then stays RUNNING until its window closes  *)
(* and a later verification takes over.                                    *)
(***************************************************************************)
EXTENDS AccountLease

CONSTANTS
  CheckIds,         \* identities of health checks
  AttemptTtl,       \* execution window of a check
  Threshold,        \* account failures after which a pool quarantines
  RetryCooldowns    \* cooldown times a pool may be configured with after a failure

ASSUME HealthAssumption ==
  /\ AttemptTtl \in Nat \ {0}
  /\ Threshold \in Nat \ {0}
  /\ RetryCooldowns \subseteq Nat

VARIABLES
  check,      \* check id -> row of account_health_check with its snapshot
  verified    \* history: account -> connector and config the last good login used

healthVars == <<check, verified>>
accountVars == <<clock, account, lease, scope, connector, check, verified>>

CheckStates == {"NONE", "RUNNING", "SUCCEEDED", "FAILED", "STALE"}

\* Failure codes, by what the failure policy tells apart: faults that isolate
\* the account at once, faults that count towards the threshold, and faults
\* of the provider, the network or the secret store.
FailureCodes == {"IMMEDIATE", "ACCOUNT", "INFRASTRUCTURE"}

CheckRow == [status            : CheckStates,
             account           : Accounts,
             revision          : 1..MaxRevision,
             connector         : Connectors,
             connectorRevision : 1..MaxConnectorRevision,
             config            : Nat,
             expires           : Nat]

HTypeOK ==
  /\ LTypeOK
  /\ check \in [CheckIds -> CheckRow \cup {[status |-> "NONE"]}]
  /\ verified \in [Accounts -> [connector : Connectors, config : Nat]]

HInit ==
  /\ LInit
  /\ check = [i \in CheckIds |-> [status |-> "NONE"]]
  /\ verified = [a \in Accounts |-> [connector |-> account[a].connector, config |-> 0]]

-----------------------------------------------------------------------------
(* The failure policy *)

\* mutant: a fault of the provider leaves the health verdict as it is
AfterFailureKeepingHealth(row, code, retryCooldown, now) ==
  [row EXCEPT !.health = IF code = "INFRASTRUCTURE" THEN @ ELSE "DEGRADED",
              !.op = IF retryCooldown > 0 THEN "COOLDOWN" ELSE "VERIFYING",
              !.cooldownUntil = IF retryCooldown > 0 THEN now + retryCooldown ELSE NoTime,
              !.revision = @ + 1]

\* decide_health_failure
AfterFailure(row, code, retryCooldown, now) ==
  LET failures == row.failures + (IF code = "INFRASTRUCTURE" THEN 0 ELSE 1)
      isolate  == code = "IMMEDIATE" \/ failures >= Threshold
  IN [row EXCEPT
        !.health = IF isolate THEN "QUARANTINED" ELSE "DEGRADED",
        !.op = IF ~ isolate /\ retryCooldown > 0 THEN "COOLDOWN" ELSE "VERIFYING",
        !.cooldownUntil = IF ~ isolate /\ retryCooldown > 0 THEN now + retryCooldown
                                                            ELSE NoTime,
        !.failures = failures,
        !.revision = @ + 1]

AfterSuccess(row) ==
  [row EXCEPT !.health = "HEALTHY", !.op = "READY", !.cooldownUntil = NoTime,
              !.failures = 0, !.revision = @ + 1]

-----------------------------------------------------------------------------
(* Checks *)

Running(i) == check[i].status = "RUNNING"
RunningOn(a) == {i \in CheckIds : Running(i) /\ check[i].account = a}

\* expire_running_checks: attempts whose window has closed make way.
ClosedWindows(a, now) == {i \in RunningOn(a) : check[i].expires <= now}
WithStale(ids) ==
  [i \in CheckIds |-> IF i \in ids THEN [check[i] EXCEPT !.status = "STALE"] ELSE check[i]]

\* mutant: a check whose window is open is no obstacle
SideBySide(a, now) == TRUE

NoOpenCheck(a, now) == RunningOn(a) \subseteq ClosedWindows(a, now)

\* mutant: the holder is not asked for
VerifiableWhileHeld(a) ==
  /\ scope[Environment] = "ACTIVE"
  /\ connector[account[a].connector].status = "ACTIVE"
  /\ account[a].lifecycle \notin {"RETIRING", "RETIRED"}

\* _require_preflight
Verifiable(a) ==
  /\ scope[Environment] = "ACTIVE"
  /\ connector[account[a].connector].status = "ACTIVE"
  /\ account[a].lifecycle \notin {"RETIRING", "RETIRED"}
  /\ ~ Held(a)

WindowEnd(now) == now + AttemptTtl

StartVerify(a, id) ==
  \E now \in Now :
    LET c == account[a].connector
        row == [account[a] EXCEPT !.op = "VERIFYING", !.cooldownUntil = NoTime,
                                  !.revision = @ + 1]
    IN /\ check[id].status = "NONE"
       /\ Verifiable(a)
       /\ NoOpenCheck(a, now)
       /\ account' = [account EXCEPT ![a] = row]
       /\ check' = [WithStale(ClosedWindows(a, now)) EXCEPT ![id] =
            [status |-> "RUNNING", account |-> a, revision |-> row.revision,
             connector |-> c, connectorRevision |-> connector[c].revision,
             config |-> connector[c].config, expires |-> WindowEnd(now)]]
       /\ UNCHANGED <<clock, lease, scope, connector, verified>>
       /\ WithinBounds'

\* _snapshot_is_stale, for a check that is still RUNNING
SnapshotStale(id, now) ==
  LET a == check[id].account
      c == check[id].connector
  IN \/ check[id].expires <= now
     \/ account[a].revision # check[id].revision
     \/ account[a].connector # c
     \/ connector[c].revision # check[id].connectorRevision
     \/ connector[c].status # "ACTIVE"
     \/ Held(a)

FinalizeStale(id) ==
  \E now \in Now :
    /\ Running(id)
    /\ SnapshotStale(id, now)
    /\ check' = WithStale({id})
    /\ UNCHANGED <<clock, account, lease, scope, connector, verified>>

FinalizeSuccess(id) ==
  \E now \in Now :
    LET a == check[id].account
    IN /\ Running(id)
       /\ ~ SnapshotStale(id, now)
       /\ account' = [account EXCEPT ![a] = AfterSuccess(@)]
       /\ check' = [check EXCEPT ![id].status = "SUCCEEDED"]
       /\ verified' = [verified EXCEPT ![a] =
            [connector |-> check[id].connector, config |-> check[id].config]]
       /\ UNCHANGED <<clock, lease, scope, connector>>
       /\ WithinBounds'

FinalizeFailure(id) ==
  \E now \in Now, code \in FailureCodes, retryCooldown \in RetryCooldowns :
    LET a == check[id].account
    IN /\ Running(id)
       /\ ~ SnapshotStale(id, now)
       /\ account' = [account EXCEPT ![a] = AfterFailure(@, code, retryCooldown, now)]
       /\ check' = [check EXCEPT ![id].status = "FAILED"]
       /\ UNCHANGED <<clock, lease, scope, connector, verified>>
       /\ WithinBounds'

-----------------------------------------------------------------------------

VerifyNext ==
  \/ \E a \in Accounts, id \in CheckIds : StartVerify(a, id)
  \/ \E id \in CheckIds : FinalizeStale(id)
  \/ \E id \in CheckIds : FinalizeSuccess(id)
  \/ \E id \in CheckIds : FinalizeFailure(id)

HNext ==
  \/ LNext /\ UNCHANGED healthVars
  \/ VerifyNext

HSpec == HInit /\ [][HNext]_accountVars

-----------------------------------------------------------------------------
(* Properties *)

\* Two verifications of one account never run side by side, also when the
\* first one hangs past its window (account_health.py, has_running_check).
OneRunningCheck ==
  \A a \in Accounts : Cardinality(RunningOn(a)) <= 1

\* HEALTHY is a statement about the connector configuration the account is
\* bound to now: no interleaving of a probe with a reconfiguration or a
\* rebinding leaves an account HEALTHY on the strength of a login that used
\* another configuration (_snapshot_is_stale, invalidate_connector_accounts).
HealthyUnderCurrentConfig ==
  \A a \in Accounts : account[a].health = "HEALTHY" =>
    /\ verified[a].connector = account[a].connector
    /\ verified[a].config = connector[account[a].connector].config

\* An account under verification whose result can still be applied is not
\* held and cannot be acquired.
FreshCheckExcludesHolder ==
  \A i \in CheckIds :
    Running(i) /\ account[check[i].account].revision = check[i].revision =>
      /\ ~ Held(check[i].account)
      /\ account[check[i].account].op = "VERIFYING"

\* Verifications have the account for themselves, nobody else's check and no
\* holder's lease is on it, and their verdict is about its configuration
\* (has_running_check, account_is_verifiable).
HInv ==
  HTypeOK /\ OneRunningCheck /\ FreshCheckExcludesHolder /\ HealthyUnderCurrentConfig

\* An account becomes schedulable again only in the step that applies a
\* successful check of that account.
RecoveryNeedsCheck ==
  [][\A a \in Accounts :
       ~ Schedulable(account[a]) /\ Schedulable(account'[a]) =>
         \E i \in RunningOn(a) : check'[i].status = "SUCCEEDED"]_accountVars

=============================================================================
