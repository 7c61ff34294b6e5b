---------------------------- MODULE AccountLease ----------------------------
(***************************************************************************)
(* Exclusive, fenced leases on the test accounts of one environment, and   *)
(* the management commands that take an account away from its holder.      *)
(*                                                                         *)
(* One action is one PostgreSQL transaction.  Commands that check a        *)
(* revision read before they write end in a compare-and-set on the row, so *)
(* a command that lost a race has no effect and is no step.  Each service  *)
(* process samples its clock BEFORE its transaction starts: `now' may lag  *)
(* behind the real time `clock' by up to MaxLag when the transaction       *)
(* commits, and transactions may commit in any order of their samples.     *)
(*                                                                         *)
(* An account has one slot.  Its row carries three orthogonal states and   *)
(* the lease epoch; a lease is identified by its account and by the token  *)
(* it was granted under.                                                   *)
(***************************************************************************)
EXTENDS Integers, FiniteSets

CONSTANTS
  Accounts,      \* test accounts of the environment
  Connectors,    \* provider connector installations of the environment
  Scopes,        \* the environment, its pools and roles: what can be disabled
  Environment,   \* the member of Scopes that is the environment itself
  ScopesOf,      \* account -> the scopes it is schedulable under
  Ttls,          \* times to live a lease or a heartbeat may ask for
  Horizons,      \* distances of an execution deadline from the acquire
  Cooldowns,     \* cooldown times a pool may be configured with
  ReapLimit,     \* most leases one reaping pass ends
  MaxLag,        \* bound on the age of a clock sample when it is used
  MaxClock,      \* bound on the modelled time
  MaxToken,      \* bound on the lease epoch
  MaxRevision,   \* bound on the revision of an account row
  MaxConnectorRevision  \* bound on the revision of a connector row

ASSUME ScopeAssumption ==
  /\ Environment \in Scopes
  /\ ScopesOf \in [Accounts -> SUBSET Scopes]
  /\ \A a \in Accounts : Environment \in ScopesOf[a]

ASSUME TimeAssumption ==
  /\ Ttls \subseteq Nat \ {0}
  /\ Horizons \subseteq Nat \ {0}
  /\ Cooldowns \subseteq Nat
  /\ MaxLag \in Nat /\ MaxClock \in Nat

ASSUME BoundAssumption ==
  /\ MaxToken \in Nat
  /\ MaxRevision \in Nat \ {0}
  /\ MaxConnectorRevision \in Nat \ {0}
  /\ ReapLimit \in Nat

VARIABLES
  clock,      \* real time
  account,    \* account -> row of test_account
  lease,      \* account -> token -> row of account_lease
  scope,      \* scope -> "ACTIVE" or "DISABLED"
  connector   \* connector -> row of connector_installation

leaseVars == <<clock, account, lease, scope, connector>>

-----------------------------------------------------------------------------
(* Rows *)

Tokens == 1..MaxToken
NoTime == -1     \* a null timestamp

Lifecycles == {"DRAFT", "PROVISIONING", "ACTIVE", "SUSPENDED", "RETIRING", "RETIRED"}
HealthStates == {"UNKNOWN", "HEALTHY", "DEGRADED", "QUARANTINED"}
OperationalStates == {"VERIFYING", "READY", "COOLDOWN", "CLEANUP_FAILED"}
LeaseStates == {"NONE", "ACTIVE", "RELEASED", "EXPIRED", "REVOKED"}
ConnectorStates == {"DRAFT", "ACTIVE", "DEGRADED", "DISABLED"}

AccountRow == [lifecycle     : Lifecycles,
               health        : HealthStates,
               op            : OperationalStates,
               cooldownUntil : Int,
               epoch         : 0..MaxToken,
               connector     : Connectors,
               failures      : Nat,
               revision      : 1..MaxRevision]

LeaseRow == [status : LeaseStates, acquired : Nat, expires : Nat, maxExpires : Nat]

ConnectorRow == [status : ConnectorStates, config : Nat, revision : 1..MaxConnectorRevision]

NoLease == [status |-> "NONE", acquired |-> 0, expires |-> 0, maxExpires |-> 0]

\* The bounds on the counters, a conjunct of every action that moves one.
WithinBounds ==
  /\ \A a \in Accounts : account[a].epoch <= MaxToken /\ account[a].revision <= MaxRevision
  /\ \A c \in Connectors : connector[c].revision <= MaxConnectorRevision

LTypeOK ==
  /\ clock \in 0..MaxClock
  /\ account \in [Accounts -> AccountRow]
  /\ lease \in [Accounts -> [Tokens -> LeaseRow]]
  /\ scope \in [Scopes -> {"ACTIVE", "DISABLED"}]
  /\ connector \in [Connectors -> ConnectorRow]

\* A freshly imported account, and one an operator activated and a health
\* check has passed.
Imported(c) ==
  [lifecycle |-> "DRAFT", health |-> "UNKNOWN", op |-> "VERIFYING",
   cooldownUntil |-> NoTime, epoch |-> 0, connector |-> c, failures |-> 0,
   revision |-> 1]
Verified(c) ==
  [Imported(c) EXCEPT !.lifecycle = "ACTIVE", !.health = "HEALTHY", !.op = "READY"]

LInit ==
  /\ clock = 0
  /\ account \in [Accounts -> {Imported(c) : c \in Connectors} \cup {Verified(c) : c \in Connectors}]
  /\ lease = [a \in Accounts |-> [k \in Tokens |-> NoLease]]
  /\ scope = [s \in Scopes |-> "ACTIVE"]
  /\ connector = [c \in Connectors |-> [status |-> "ACTIVE", config |-> 0, revision |-> 1]]

-----------------------------------------------------------------------------
(* Reading the rows *)

Now == {t \in 0..clock : clock <= t + MaxLag}

Active(a, k) == lease[a][k].status = "ACTIVE"
Held(a) == \E k \in Tokens : Active(a, k)

\* lease_is_expired
Expired(a, k, now) ==
  /\ Active(a, k)
  /\ lease[a][k].expires <= now \/ lease[a][k].maxExpires <= now

\* lease_fence_matches, for a caller that presents the token of its lease
FenceMatches(a, k) == account[a].epoch = k

Earlier(s, t) == IF s < t THEN s ELSE t

-----------------------------------------------------------------------------
(* Writing the rows *)

\* mutant: the account goes straight back to its pool
KeptInService(row) == [row EXCEPT !.revision = @ + 1]

Reverified(row) ==
  [row EXCEPT !.health = "DEGRADED", !.op = "VERIFYING", !.cooldownUntil = NoTime,
              !.revision = @ + 1]

FencedOff(row) ==
  [row EXCEPT !.epoch = @ + 1, !.op = "VERIFYING", !.cooldownUntil = NoTime,
              !.revision = @ + 1]

\* mutant: the fence moves but the leases stay
LeasesKept(accs) == lease

\* Leases of the accounts in `accs' that are active become REVOKED ...
RevokedLeases(accs) ==
  [a \in Accounts |-> [k \in Tokens |->
     IF a \in accs /\ Active(a, k) THEN [lease[a][k] EXCEPT !.status = "REVOKED"]
                                   ELSE lease[a][k]]]

\* ... and the fence of each of their accounts moves past the revoked token.
FenceRevoked(accs) ==
  [a \in Accounts |->
     IF a \in accs /\ \E k \in Tokens : Active(a, k) /\ FenceMatches(a, k)
       THEN FencedOff(account[a]) ELSE account[a]]

-----------------------------------------------------------------------------
(* Time *)

Tick ==
  /\ clock < MaxClock
  /\ clock' = clock + 1
  /\ UNCHANGED <<account, lease, scope, connector>>

-----------------------------------------------------------------------------
(* Acquire, with the housekeeping that runs first in the same transaction *)

CooledDown(a, now) ==
  /\ account[a].op = "COOLDOWN"
  /\ account[a].cooldownUntil <= now
  /\ account[a].lifecycle = "ACTIVE"
  /\ account[a].health = "HEALTHY"

Restored(a, now) ==
  IF CooledDown(a, now)
    THEN [account[a] EXCEPT !.op = "READY", !.cooldownUntil = NoTime, !.revision = @ + 1]
    ELSE account[a]

\* SKIP LOCKED and the limit make a pass end any of the expired leases.
ReapBatches(now) ==
  {batch \in SUBSET {p \in Accounts \X Tokens : Expired(p[1], p[2], now)} :
     Cardinality(batch) <= ReapLimit}

Reaped(batch) ==
  [a \in Accounts |-> [k \in Tokens |->
     IF <<a, k>> \in batch THEN [lease[a][k] EXCEPT !.status = "EXPIRED"]
                           ELSE lease[a][k]]]

Cleaned(now, batch) ==
  [a \in Accounts |->
     IF <<a, account[a].epoch>> \in batch THEN Reverified(Restored(a, now))
                                          ELSE Restored(a, now)]

\* mutant: the slot is not looked at again under the lock
LeasableWhileHeld(row, leases, scopes, now) ==
  /\ \A s \in scopes : scope[s] = "ACTIVE"
  /\ connector[row.connector].status = "ACTIVE"
  /\ row.lifecycle = "ACTIVE" /\ row.health = "HEALTHY" /\ row.op = "READY"
  /\ row.cooldownUntil <= now

\* The candidate query: scopes, connector, three account states, cooldown, slot.
Leasable(row, leases, scopes, now) ==
  /\ \A s \in scopes : scope[s] = "ACTIVE"
  /\ connector[row.connector].status = "ACTIVE"
  /\ row.lifecycle = "ACTIVE"
  /\ row.health = "HEALTHY"
  /\ row.op = "READY"
  /\ row.cooldownUntil <= now
  /\ \A k \in Tokens : leases[k].status # "ACTIVE"

Acquire(a) ==
  \E now \in Now, ttl \in Ttls, horizon \in Horizons :
  \E batch \in ReapBatches(now) :
    LET rows   == Cleaned(now, batch)
        leases == Reaped(batch)
        token  == rows[a].epoch + 1
        deadline == now + horizon
    IN /\ Leasable(rows[a], leases[a], ScopesOf[a], now)
       /\ token \in Tokens
       /\ lease' = [leases EXCEPT ![a][token] =
                      [status |-> "ACTIVE", acquired |-> now,
                       expires |-> Earlier(now + ttl, deadline), maxExpires |-> deadline]]
       /\ account' = [rows EXCEPT ![a].epoch = token, ![a].revision = @ + 1]
       /\ UNCHANGED <<clock, scope, connector>>
       /\ WithinBounds'

\* The reaper; also an acquire that finds no candidate, which commits its
\* housekeeping before it reports POOL_EXHAUSTED.
ReapExpiredAt(now) ==
  \E batch \in ReapBatches(now) :
    /\ account' = Cleaned(now, batch)
    /\ lease' = Reaped(batch)
    /\ UNCHANGED <<clock, scope, connector>>
    /\ WithinBounds'

ReapExpired == \E now \in Now : ReapExpiredAt(now)

-----------------------------------------------------------------------------
(* The holder's calls: heartbeat, release, and any use that must be
   authorized.  Each finds a lease that has run out and ends it instead. *)

ExpireLocked(a, k, now) ==
  /\ Expired(a, k, now)
  /\ lease' = [lease EXCEPT ![a][k].status = "EXPIRED"]
  /\ account' = IF FenceMatches(a, k)
                  THEN [account EXCEPT ![a] = Reverified(@)] ELSE account
  /\ UNCHANGED <<clock, scope, connector>>
  /\ WithinBounds'

\* What is left when the lease is not expired: the lease is the latest one.
Authorized(a, k, now) ==
  /\ Active(a, k)
  /\ ~ Expired(a, k, now)
  /\ FenceMatches(a, k)

Heartbeat(a, k) ==
  \E now \in Now :
    \/ ExpireLocked(a, k, now)
    \/ \E ttl \in Ttls :
         /\ Authorized(a, k, now)
         /\ lease[a][k].acquired <= now     \* the table's time order check
         /\ lease' = [lease EXCEPT ![a][k].expires =
                        Earlier(now + ttl, lease[a][k].maxExpires)]
         /\ UNCHANGED <<clock, account, scope, connector>>

AfterRelease(row, cleanupFailed, cooldown, now) ==
  IF cleanupFailed
    THEN [row EXCEPT !.health = "QUARANTINED", !.op = "CLEANUP_FAILED",
                     !.cooldownUntil = NoTime, !.revision = @ + 1]
    ELSE IF cooldown > 0
      THEN [row EXCEPT !.op = "COOLDOWN", !.cooldownUntil = now + cooldown,
                       !.revision = @ + 1]
      ELSE [row EXCEPT !.op = "READY", !.cooldownUntil = NoTime, !.revision = @ + 1]

Release(a, k) ==
  \E now \in Now :
    \/ ExpireLocked(a, k, now)
    \/ \E cleanupFailed \in BOOLEAN, cooldown \in Cooldowns :
         /\ Authorized(a, k, now)
         /\ lease' = [lease EXCEPT ![a][k].status = "RELEASED"]
         /\ account' = [account EXCEPT ![a] = AfterRelease(@, cleanupFailed, cooldown, now)]
         /\ UNCHANGED <<clock, scope, connector>>
         /\ WithinBounds'

-----------------------------------------------------------------------------
(* Management of accounts *)

LifecycleMoves ==
  [DRAFT        |-> Lifecycles \ {"DRAFT"},
   PROVISIONING |-> {"ACTIVE", "SUSPENDED", "RETIRING"},
   ACTIVE       |-> {"SUSPENDED", "RETIRING"},
   SUSPENDED    |-> {"ACTIVE", "RETIRING", "RETIRED"},
   RETIRING     |-> {"RETIRED"},
   RETIRED      |-> {}]

LifecycleAfter(row, asked) == IF asked = "KEEP" THEN row.lifecycle ELSE asked

EndsUse(asked) == asked \in {"SUSPENDED", "RETIRING", "RETIRED"}

Rebound(row, c) ==
  [row EXCEPT !.connector = c,
              !.health = IF @ = "QUARANTINED" THEN @ ELSE "UNKNOWN",
              !.op = "VERIFYING",
              !.cooldownUntil = NoTime,
              !.failures = IF row.health = "QUARANTINED" THEN @ ELSE 0]

\* A command may name a new lifecycle (or the current one) and a connector.
UpdateAccount(a) ==
  \E asked \in LifecycleMoves[account[a].lifecycle] \cup {account[a].lifecycle, "KEEP"},
     c \in Connectors :
    LET rebound == c # account[a].connector
        evicted == IF EndsUse(asked) \/ rebound THEN {a} ELSE {}
        moved == [FenceRevoked(evicted)[a] EXCEPT
                    !.lifecycle = LifecycleAfter(account[a], asked),
                    !.revision = @ + 1]
    IN /\ rebound => connector[c].status = "ACTIVE"
       /\ lease' = RevokedLeases(evicted)
       /\ account' = [account EXCEPT ![a] = IF rebound THEN Rebound(moved, c) ELSE moved]
       /\ UNCHANGED <<clock, scope, connector>>
       /\ WithinBounds'

QuarantineAccount(a) ==
  /\ lease' = RevokedLeases({a})
  /\ LET row == FenceRevoked({a})[a]
     IN account' = [account EXCEPT ![a] =
          IF account[a].health = "QUARANTINED" THEN row
          ELSE [row EXCEPT !.health = "QUARANTINED", !.op = "VERIFYING",
                           !.cooldownUntil = NoTime, !.revision = @ + 1]]
  /\ UNCHANGED <<clock, scope, connector>>
  /\ WithinBounds'

Unquarantined(row) ==
  [row EXCEPT !.health = "UNKNOWN", !.op = "VERIFYING", !.cooldownUntil = NoTime,
              !.revision = @ + 1]

RestoreAccount(a) ==
  /\ account[a].health = "QUARANTINED"
  /\ account' = [account EXCEPT ![a] = Unquarantined(@)]
  /\ UNCHANGED <<clock, lease, scope, connector>>
  /\ WithinBounds'

-----------------------------------------------------------------------------
(* Management of the environment, its pools and roles *)

UpdateScope(s) ==
  \E status \in {"ACTIVE", "DISABLED"} :
    LET members == IF status = "DISABLED" THEN {a \in Accounts : s \in ScopesOf[a]} ELSE {}
    IN /\ scope' = [scope EXCEPT ![s] = status]
       /\ lease' = RevokedLeases(members)
       /\ account' = FenceRevoked(members)
       /\ UNCHANGED <<clock, connector>>
       /\ WithinBounds'

-----------------------------------------------------------------------------
(* Management of connectors *)

Invalidated(row) ==
  IF \/ row.health \notin {"UNKNOWN", "QUARANTINED"}
     \/ row.op # "VERIFYING"
     \/ row.cooldownUntil # NoTime
     \/ row.health # "QUARANTINED" /\ row.failures # 0
    THEN [row EXCEPT !.health = IF @ = "QUARANTINED" THEN @ ELSE "UNKNOWN",
                     !.op = "VERIFYING",
                     !.cooldownUntil = NoTime,
                     !.failures = IF row.health = "QUARANTINED" THEN @ ELSE 0,
                     !.revision = @ + 1]
    ELSE row

RequiresRevocation(before, after) ==
  \/ before.config # after.config
  \/ before.status = "ACTIVE" /\ after.status # "ACTIVE"

\* Install a connector row and fence off everything that relied on the old one.
InstallConnector(c, status, config) ==
  LET row == [status |-> status, config |-> config, revision |-> connector[c].revision + 1]
      dependents == IF RequiresRevocation(connector[c], row)
                      THEN {a \in Accounts : account[a].connector = c} ELSE {}
      fenced == FenceRevoked(dependents)
  IN /\ connector' = [connector EXCEPT ![c] = row]
     /\ lease' = RevokedLeases(dependents)
     /\ account' = [a \in Accounts |->
                      IF a \in dependents THEN Invalidated(fenced[a]) ELSE account[a]]
     /\ UNCHANGED <<clock, scope>>
     /\ WithinBounds'

\* A command that names a configuration field sends the connector back to
\* DRAFT even when the value it names is the current one.
UpdateConnector(c) ==
  \E named \in BOOLEAN, changed \in BOOLEAN, asked \in {"KEEP", "DRAFT", "DISABLED"} :
    /\ changed => named
    /\ InstallConnector(c,
         IF named THEN (IF asked = "DISABLED" THEN "DISABLED" ELSE "DRAFT")
         ELSE IF asked = "KEEP" THEN connector[c].status ELSE asked,
         connector[c].config + (IF changed THEN 1 ELSE 0))

\* The probe ran outside any transaction; the revision compare-and-set makes
\* its result count only for the row it read.
ValidateConnector(c) ==
  /\ scope[Environment] = "ACTIVE"
  /\ connector[c].status # "DISABLED"
  /\ \E status \in {"ACTIVE", "DEGRADED", "DRAFT"} :
       InstallConnector(c, status, connector[c].config)

-----------------------------------------------------------------------------

LNext ==
  \/ Tick
  \/ \E a \in Accounts : Acquire(a)
  \/ ReapExpired
  \/ \E a \in Accounts, k \in Tokens : Heartbeat(a, k)
  \/ \E a \in Accounts, k \in Tokens : Release(a, k)
  \/ \E a \in Accounts : UpdateAccount(a)
  \/ \E a \in Accounts : QuarantineAccount(a)
  \/ \E a \in Accounts : RestoreAccount(a)
  \/ \E s \in Scopes : UpdateScope(s)
  \/ \E c \in Connectors : UpdateConnector(c)
  \/ \E c \in Connectors : ValidateConnector(c)

LSpec == LInit /\ [][LNext]_leaseVars

-----------------------------------------------------------------------------
(* Properties *)

\* An active lease carries the latest epoch of its account (leases.py,
\* lease_fence_matches); with one epoch per account this also makes the
\* lease exclusive, whatever order acquires, reaps and revocations commit in.
ActiveLeaseHoldsFence ==
  \A a \in Accounts, k \in Tokens : Active(a, k) => FenceMatches(a, k)

\* Whoever holds a lease holds an account that is still fit for use: no
\* disable, suspension, retirement, quarantine, rebinding or connector change
\* commits without ending the leases it invalidates (identity.py, platform.py,
\* connectors.py: revoke_active in the same transaction).
Usable(a) ==
  /\ account[a].lifecycle = "ACTIVE"
  /\ account[a].health = "HEALTHY"
  /\ account[a].op = "READY"
  /\ connector[account[a].connector].status = "ACTIVE"
  /\ \A s \in ScopesOf[a] : scope[s] = "ACTIVE"

LeasedAccountUsable == \A a \in Accounts : Held(a) => Usable(a)

\* An account that an acquire could be given now or after its cooldown.
Schedulable(row) == row.health = "HEALTHY" /\ row.op \in {"READY", "COOLDOWN"}

\* A lease that is not released in good order (its time ran out, it was
\* revoked, or its cleanup failed) leaves the account unschedulable, and the
\* step that ends it is the step that says so.
UncleanEndDisablesAccount ==
  [][\A a \in Accounts, k \in Tokens :
       /\ Active(a, k)
       /\ lease'[a][k].status \in {"EXPIRED", "REVOKED"}
       => ~ Schedulable(account'[a])]_leaseVars

\* A lease that has run out is never extended: however old the sample of the
\* heartbeat's clock, it is accepted at most MaxLag after the expiry.
NoLateRenewal ==
  [][\A a \in Accounts, k \in Tokens :
       /\ Active(a, k)
       /\ lease'[a][k].status = "ACTIVE"
       /\ lease'[a][k] # lease[a][k]
       => clock < lease[a][k].expires + MaxLag]_leaseVars

\* What has ended stays ended: a lease that has run out is not renewed, and an
\* account whose lease ended in disorder is not handed out again unchecked.
EndsAreFinal == UncleanEndDisablesAccount /\ NoLateRenewal

\* The leases refine the abstract fenced holder.
Fenced == INSTANCE FencedLease WITH
  holder <- [a \in Accounts |->
               IF account[a].epoch \in Tokens /\ Active(a, account[a].epoch)
                 THEN account[a].epoch ELSE 0],
  fence <- [a \in Accounts |-> account[a].epoch]

\* Every lease transaction is a grant, an end or a fenced revocation of the
\* abstract specification, account by account.
RefinesFencedLease == Fenced!FSpec

=============================================================================
