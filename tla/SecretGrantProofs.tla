-------------------------- MODULE SecretGrantProofs --------------------------
(***************************************************************************)
(* Proofs about AccountLease and SecretGrant, for any accounts, connectors, *)
(* scopes, checks, grants, times and bounds.                               *)
(*                                                                         *)
(* First the leases alone: type correctness, the fence of every active     *)
(* lease, the fitness of every leased account, the finality of what has    *)
(* ended, and the refinement of FencedLease.  Then leases, health          *)
(* verification and one-time secrets together: the lease transactions keep *)
(* what was shown of them, and the steps that are added write an account   *)
(* row and no lease (verifications and late reports), or revoke the leases *)
(* of the account (LoginFails).                                            *)
(***************************************************************************)
EXTENDS SecretGrant, FiniteSetTheorems, TLAPS

-----------------------------------------------------------------------------
(* Rows before the bounds on their counters are known *)

AccountShape == [lifecycle     : Lifecycles,
                 health        : HealthStates,
                 op            : OperationalStates,
                 cooldownUntil : Int,
                 epoch         : Nat,
                 connector     : Connectors,
                 failures      : Nat,
                 revision      : Nat \ {0}]

ConnectorShape == [status : ConnectorStates, config : Nat, revision : Nat \ {0}]

LeaseTables == [Accounts -> [Tokens -> LeaseRow]]

\* A row of the table has the shape.
LEMMA RowHasShape == AccountRow \subseteq AccountShape
  BY BoundAssumption DEF AccountRow, AccountShape

\* So does a row of the connectors' table.
LEMMA ConnectorRowHasShape == ConnectorRow \subseteq ConnectorShape
  BY BoundAssumption DEF ConnectorRow, ConnectorShape

\* A shape within the bounds is a row (WithinBounds is a conjunct of every
\* action that moves a counter).
LEMMA ShapeWithinBounds ==
  ASSUME account' \in [Accounts -> AccountShape],
         connector' \in [Connectors -> ConnectorShape],
         WithinBounds'
  PROVE  /\ account' \in [Accounts -> AccountRow]
         /\ connector' \in [Connectors -> ConnectorRow]
<1>1. ASSUME NEW a \in Accounts PROVE account'[a] \in AccountRow
  <2>1. account'[a] \in AccountShape
    OBVIOUS
  <2>2. account'[a].epoch <= MaxToken /\ account'[a].revision <= MaxRevision
    BY DEF WithinBounds
  <2> QED
    BY <2>1, <2>2, BoundAssumption DEF AccountShape, AccountRow
<1>2. ASSUME NEW c \in Connectors PROVE connector'[c] \in ConnectorRow
  <2>1. connector'[c] \in ConnectorShape
    OBVIOUS
  <2>2. connector'[c].revision <= MaxConnectorRevision
    BY DEF WithinBounds
  <2> QED
    BY <2>1, <2>2, BoundAssumption DEF ConnectorShape, ConnectorRow
<1> QED
  BY <1>1, <1>2

-----------------------------------------------------------------------------
(* What the helpers write *)

\* Reverified and FencedOff keep the shape of a row, and what they leave alone.
LEMMA HelpersKeepShape ==
  ASSUME NEW row \in AccountShape
  PROVE  /\ Reverified(row) \in AccountShape
         /\ FencedOff(row) \in AccountShape
         /\ Reverified(row).epoch = row.epoch
         /\ FencedOff(row).epoch = row.epoch + 1
<1>1. row.revision + 1 \in Nat \ {0} /\ row.epoch + 1 \in Nat /\ NoTime \in Int
  BY DEF AccountShape, NoTime
<1>2. Reverified(row) \in AccountShape /\ Reverified(row).epoch = row.epoch
  BY <1>1 DEF AccountShape, Reverified, HealthStates, OperationalStates
<1>3. FencedOff(row) \in AccountShape /\ FencedOff(row).epoch = row.epoch + 1
  BY <1>1 DEF AccountShape, FencedOff, OperationalStates
<1> QED
  BY <1>2, <1>3

\* The revision of a row can always be moved on, and a null time is a time.
LEMMA Bumped ==
  ASSUME NEW row \in AccountShape
  PROVE  row.revision + 1 \in Nat \ {0} /\ NoTime \in Int
  BY DEF AccountShape, NoTime

\* Rows of the lease table are written one at a time, or their status only.
LEMMA LeaseWritten ==
  ASSUME NEW table \in LeaseTables, NEW a \in Accounts, NEW k \in Tokens,
         NEW row \in LeaseRow
  PROVE  [table EXCEPT ![a][k] = row] \in LeaseTables
  BY DEF LeaseTables

\* A lease row may be given any status.
LEMMA StatusWritten ==
  ASSUME NEW row \in LeaseRow, NEW status \in LeaseStates
  PROVE  [row EXCEPT !.status = status] \in LeaseRow
  BY DEF LeaseRow

\* Revoking leases keeps the table well formed ...
LEMMA RevokedLeasesType ==
  ASSUME lease \in LeaseTables, NEW accs
  PROVE  RevokedLeases(accs) \in LeaseTables
  BY DEF RevokedLeases, LeaseTables, LeaseRow, LeaseStates

\* ... leaves no active lease on the accounts it is asked to clear ...
LEMMA RevokedLeasesStatus ==
  ASSUME lease \in LeaseTables, NEW accs,
         NEW a \in Accounts, NEW k \in Tokens
  PROVE  /\ RevokedLeases(accs)[a][k].status = "ACTIVE" <=>
              (Active(a, k) /\ a \notin accs)
         /\ a \notin accs => RevokedLeases(accs)[a][k] = lease[a][k]
  BY DEF RevokedLeases, LeaseTables, LeaseRow, LeaseStates, Active

\* ... and moves the fence only of those accounts.
LEMMA FenceRevokedRows ==
  ASSUME account \in [Accounts -> AccountShape], NEW accs, NEW a \in Accounts
  PROVE  /\ FenceRevoked(accs)[a] \in AccountShape
         /\ FenceRevoked(accs)[a] \in {account[a], FencedOff(account[a])}
         /\ a \notin accs => FenceRevoked(accs)[a] = account[a]
  BY HelpersKeepShape DEF FenceRevoked

\* Housekeeping touches neither the epoch nor the shape of a row.
LEMMA RestoredRows ==
  ASSUME account \in [Accounts -> AccountShape], NEW a \in Accounts, NEW now \in Nat
  PROVE  /\ Restored(a, now) \in AccountShape
         /\ Restored(a, now).epoch = account[a].epoch
         /\ account[a].op # "COOLDOWN" => Restored(a, now) = account[a]
<1>1. account[a].revision + 1 \in Nat \ {0} /\ NoTime \in Int
  BY DEF AccountShape, NoTime
<1>2. account[a] \in AccountShape
  OBVIOUS
<1>3. CASE CooledDown(a, now)
  BY <1>1, <1>2, <1>3 DEF Restored, CooledDown, AccountShape, OperationalStates
<1>4. CASE ~ CooledDown(a, now)
  BY <1>2, <1>4 DEF Restored
<1> QED
  BY <1>3, <1>4

\* The reaper's own write touches neither, and only accounts of the batch.
LEMMA CleanedRows ==
  ASSUME account \in [Accounts -> AccountShape], NEW a \in Accounts, NEW now \in Nat,
         NEW batch
  PROVE  /\ Cleaned(now, batch)[a] \in AccountShape
         /\ Cleaned(now, batch)[a].epoch = account[a].epoch
         /\ Cleaned(now, batch)[a] \in {Restored(a, now), Reverified(Restored(a, now))}
         /\ <<a, account[a].epoch>> \notin batch =>
              Cleaned(now, batch)[a] = Restored(a, now)
  BY RestoredRows, HelpersKeepShape DEF Cleaned

\* Reaping keeps the lease table well formed ...
LEMMA ReapedType ==
  ASSUME lease \in LeaseTables, NEW batch
  PROVE  Reaped(batch) \in LeaseTables
  BY DEF Reaped, LeaseTables, LeaseRow, LeaseStates

\* ... and ends the leases of the batch, no others.
LEMMA ReapedStatus ==
  ASSUME lease \in LeaseTables, NEW batch, NEW a \in Accounts, NEW k \in Tokens
  PROVE  Reaped(batch)[a][k].status = "ACTIVE" <=> (Active(a, k) /\ <<a, k>> \notin batch)
  BY DEF Reaped, LeaseTables, LeaseRow, LeaseStates, Active

-----------------------------------------------------------------------------
(* Type correctness *)

\* The rows of the initial state are rows.
LEMMA InitType == LInit => LTypeOK
<1> SUFFICES ASSUME LInit PROVE LTypeOK
  OBVIOUS
<1> USE BoundAssumption, TimeAssumption
<1>1. clock \in 0..MaxClock /\ scope \in [Scopes -> {"ACTIVE", "DISABLED"}]
  BY DEF LInit
<1>2. connector \in [Connectors -> ConnectorRow]
  BY DEF LInit, ConnectorRow, ConnectorStates
<1>3. lease \in LeaseTables
  BY DEF LInit, LeaseTables, LeaseRow, LeaseStates, NoLease
<1>4. account \in [Accounts -> AccountRow]
  <2>1. NoTime \in Int /\ 0 \in 0..MaxToken /\ 1 \in 1..MaxRevision
    BY DEF NoTime
  <2>2. ASSUME NEW c \in Connectors
        PROVE  Imported(c) \in AccountRow /\ Verified(c) \in AccountRow
    BY <2>1 DEF Imported, Verified, AccountRow, Lifecycles, HealthStates, OperationalStates
  <2> QED
    BY <2>2 DEF LInit
<1> QED
  BY <1>1, <1>2, <1>3, <1>4 DEF LTypeOK, LeaseTables

\* What every step of the type proof starts from.
Shapes ==
  /\ account \in [Accounts -> AccountShape]
  /\ lease \in LeaseTables
  /\ connector \in [Connectors -> ConnectorShape]

\* They follow from the types.
LEMMA TypeGivesShapes == LTypeOK => Shapes
  BY RowHasShape, ConnectorRowHasShape DEF LTypeOK, Shapes, LeaseTables

\* A step that leaves shapes and respects the bounds leaves the types.
LEMMA TypeFromShapes ==
  ASSUME Shapes', WithinBounds', clock' \in 0..MaxClock,
         scope' \in [Scopes -> {"ACTIVE", "DISABLED"}]
  PROVE  LTypeOK'
  BY ShapeWithinBounds DEF Shapes, LTypeOK, LeaseTables

\* Every transaction keeps the tables well formed.
LEMMA TypeStep == LTypeOK /\ [LNext]_leaseVars => LTypeOK'
<1> SUFFICES ASSUME LTypeOK, [LNext]_leaseVars PROVE LTypeOK'
  OBVIOUS
<1>0. Shapes /\ clock \in Nat /\ clock \in 0..MaxClock /\ scope \in [Scopes -> {"ACTIVE", "DISABLED"}]
  BY TypeGivesShapes, TimeAssumption DEF LTypeOK
<1> USE <1>0 DEF Shapes
<1>1. CASE Tick
  BY <1>1, TimeAssumption DEF Tick, LTypeOK
<1>2. ASSUME NEW a \in Accounts, Acquire(a) PROVE LTypeOK'
  <2>1. PICK now \in Now, ttl \in Ttls, horizon \in Horizons : \E batch \in ReapBatches(now) :
          /\ Cleaned(now, batch)[a].epoch + 1 \in Tokens
          /\ lease' = [Reaped(batch) EXCEPT ![a][Cleaned(now, batch)[a].epoch + 1] =
                         [status |-> "ACTIVE", acquired |-> now,
                          expires |-> Earlier(now + ttl, now + horizon),
                          maxExpires |-> now + horizon]]
          /\ account' = [Cleaned(now, batch) EXCEPT
                           ![a].epoch = Cleaned(now, batch)[a].epoch + 1, ![a].revision = @ + 1]
          /\ UNCHANGED <<clock, scope, connector>>
          /\ WithinBounds'
    BY <1>2, Zenon DEF Acquire
  <2>a. PICK batch \in ReapBatches(now) :
          /\ Cleaned(now, batch)[a].epoch + 1 \in Tokens
          /\ lease' = [Reaped(batch) EXCEPT ![a][Cleaned(now, batch)[a].epoch + 1] =
                         [status |-> "ACTIVE", acquired |-> now,
                          expires |-> Earlier(now + ttl, now + horizon),
                          maxExpires |-> now + horizon]]
          /\ account' = [Cleaned(now, batch) EXCEPT
                           ![a].epoch = Cleaned(now, batch)[a].epoch + 1, ![a].revision = @ + 1]
          /\ UNCHANGED <<clock, scope, connector>>
          /\ WithinBounds'
    BY <2>1, Zenon
  <2>2. now \in Nat /\ ttl \in Nat /\ horizon \in Nat /\ Earlier(now + ttl, now + horizon) \in Nat
    BY TimeAssumption DEF Now, Earlier
  <2>3. Cleaned(now, batch) \in [Accounts -> AccountShape]
    BY <2>2, CleanedRows DEF Cleaned
  <2>4. account' \in [Accounts -> AccountShape]
    BY <2>a, <2>3 DEF AccountShape
  <2>5. lease' \in LeaseTables
    <3>1. [status |-> "ACTIVE", acquired |-> now,
           expires |-> Earlier(now + ttl, now + horizon),
           maxExpires |-> now + horizon] \in LeaseRow
      BY <2>2 DEF LeaseRow, LeaseStates
    <3> QED
      BY <2>a, <3>1, ReapedType, LeaseWritten
  <2> QED
    BY <2>a, <2>4, <2>5, TypeFromShapes
<1>3. CASE ReapExpired
  <2>0. PICK now \in Now : ReapExpiredAt(now)
    BY <1>3 DEF ReapExpired
  <2>1. PICK batch \in ReapBatches(now) :
          /\ account' = Cleaned(now, batch)
          /\ lease' = Reaped(batch)
          /\ UNCHANGED <<clock, scope, connector>>
          /\ WithinBounds'
    BY <2>0 DEF ReapExpiredAt
  <2>2. Cleaned(now, batch) \in [Accounts -> AccountShape]
    BY CleanedRows DEF Cleaned, Now
  <2> QED
    BY <2>1, <2>2, ReapedType, TypeFromShapes
<1>4. ASSUME NEW a \in Accounts, NEW k \in Tokens, NEW now \in Now, ExpireLocked(a, k, now)
      PROVE  LTypeOK'
  <2>1. lease' \in LeaseTables
    <3>1. [lease[a][k] EXCEPT !.status = "EXPIRED"] \in LeaseRow
      BY StatusWritten DEF LeaseTables, LeaseStates
    <3> QED
      BY <1>4, <3>1, LeaseWritten DEF ExpireLocked
  <2>2. account' \in [Accounts -> AccountShape]
    BY <1>4, HelpersKeepShape DEF ExpireLocked
  <2> QED
    BY <1>4, <2>1, <2>2, TypeFromShapes DEF ExpireLocked
<1>5. ASSUME NEW a \in Accounts, NEW k \in Tokens, Heartbeat(a, k) PROVE LTypeOK'
  <2>1. ASSUME NEW now \in Now, NEW ttl \in Ttls,
               lease' = [lease EXCEPT ![a][k].expires = Earlier(now + ttl, lease[a][k].maxExpires)],
               UNCHANGED <<clock, account, scope, connector>>
        PROVE  LTypeOK'
    <3>1. now + ttl \in Nat
      BY TimeAssumption DEF Now
    <3>2. lease[a][k] \in LeaseRow
      BY DEF LeaseTables
    <3>3. Earlier(now + ttl, lease[a][k].maxExpires) \in Nat
      BY <3>1, <3>2 DEF Earlier, LeaseRow
    <3>4. [lease[a][k] EXCEPT !.expires = Earlier(now + ttl, lease[a][k].maxExpires)] \in LeaseRow
      BY <3>2, <3>3 DEF LeaseRow
    <3>5. lease' \in LeaseTables
      BY <2>1, <3>4, LeaseWritten
    <3> QED
      BY <2>1, <3>5 DEF LTypeOK, LeaseTables
  <2> QED
    BY <1>4, <1>5, <2>1 DEF Heartbeat
<1>6. ASSUME NEW a \in Accounts, NEW k \in Tokens, Release(a, k) PROVE LTypeOK'
  <2>1. ASSUME NEW now \in Now, NEW cleanupFailed \in BOOLEAN, NEW cooldown \in Cooldowns,
               lease' = [lease EXCEPT ![a][k].status = "RELEASED"],
               account' = [account EXCEPT ![a] = AfterRelease(@, cleanupFailed, cooldown, now)],
               UNCHANGED <<clock, scope, connector>>,
               WithinBounds'
        PROVE  LTypeOK'
    <3>0. lease[a][k] \in LeaseRow /\ "RELEASED" \in LeaseStates
      BY DEF LeaseTables, LeaseStates
    <3>1. lease' \in LeaseTables
      BY <2>1, <3>0, LeaseWritten, StatusWritten
    <3>2. now + cooldown \in Int
      BY TimeAssumption DEF Now
    <3>3. AfterRelease(account[a], cleanupFailed, cooldown, now) \in AccountShape
      BY <3>2, Bumped DEF AfterRelease, AccountShape, HealthStates, OperationalStates
    <3> QED
      BY <2>1, <3>1, <3>3, TypeFromShapes
  <2> QED
    BY <1>4, <1>6, <2>1 DEF Release
<1>7. ASSUME NEW a \in Accounts, UpdateAccount(a) PROVE LTypeOK'
  <2>1. PICK asked \in LifecycleMoves[account[a].lifecycle] \cup {account[a].lifecycle, "KEEP"},
             c \in Connectors, evicted \in SUBSET Accounts :
          LET moved == [FenceRevoked(evicted)[a] EXCEPT
                          !.lifecycle = LifecycleAfter(account[a], asked), !.revision = @ + 1]
          IN /\ lease' = RevokedLeases(evicted)
             /\ account' \in {[account EXCEPT ![a] = Rebound(moved, c)],
                              [account EXCEPT ![a] = moved]}
             /\ UNCHANGED <<clock, scope, connector>>
             /\ WithinBounds'
    <3>1. PICK asked \in LifecycleMoves[account[a].lifecycle] \cup {account[a].lifecycle, "KEEP"},
               c \in Connectors :
            LET rebound == c # account[a].connector
                evicted == IF EndsUse(asked) \/ rebound THEN {a} ELSE {}
                moved == [FenceRevoked(evicted)[a] EXCEPT
                            !.lifecycle = LifecycleAfter(account[a], asked), !.revision = @ + 1]
            IN /\ lease' = RevokedLeases(evicted)
               /\ account' = [account EXCEPT ![a] = IF rebound THEN Rebound(moved, c) ELSE moved]
               /\ UNCHANGED <<clock, scope, connector>>
               /\ WithinBounds'
      BY <1>7 DEF UpdateAccount
    <3> DEFINE evicted == IF EndsUse(asked) \/ c # account[a].connector THEN {a} ELSE {}
    <3>2. evicted \in SUBSET Accounts
      OBVIOUS
    <3> QED
      BY <3>1, <3>2
  <2> DEFINE fenced == FenceRevoked(evicted)[a]
             moved == [fenced EXCEPT !.lifecycle = LifecycleAfter(account[a], asked),
                                     !.revision = @ + 1]
  <2>2. account[a] \in AccountShape /\ fenced \in AccountShape
    BY FenceRevokedRows
  <2>3. LifecycleAfter(account[a], asked) \in Lifecycles
    BY <2>2 DEF LifecycleAfter, LifecycleMoves, AccountShape, Lifecycles
  <2> HIDE DEF fenced
  <2>4. moved \in AccountShape
    BY <2>2, <2>3, Bumped DEF AccountShape
  <2> HIDE DEF moved
  <2>5. Rebound(moved, c) \in AccountShape
    <3>1. NoTime \in Int
      BY DEF NoTime
    <3> QED
      BY <2>4, <3>1 DEF Rebound, AccountShape, HealthStates, OperationalStates
  <2>6. account' \in [Accounts -> AccountShape]
    BY <2>1, <2>4, <2>5 DEF moved, fenced
  <2> QED
    BY <2>1, <2>6, RevokedLeasesType, TypeFromShapes
<1>8. ASSUME NEW a \in Accounts, QuarantineAccount(a) PROVE LTypeOK'
  <2>1. FenceRevoked({a})[a] \in AccountShape
    BY FenceRevokedRows
  <2>2. [FenceRevoked({a})[a] EXCEPT !.health = "QUARANTINED", !.op = "VERIFYING",
           !.cooldownUntil = NoTime, !.revision = @ + 1] \in AccountShape
    BY <2>1, Bumped DEF AccountShape, HealthStates, OperationalStates
  <2>3. account' \in [Accounts -> AccountShape]
    BY <1>8, <2>1, <2>2 DEF QuarantineAccount
  <2> QED
    BY <1>8, <2>3, RevokedLeasesType, TypeFromShapes DEF QuarantineAccount
<1>9. ASSUME NEW a \in Accounts, RestoreAccount(a) PROVE LTypeOK'
  <2>1. Unquarantined(account[a]) \in AccountShape
    BY Bumped DEF Unquarantined, AccountShape, HealthStates, OperationalStates
  <2>2. account' \in [Accounts -> AccountShape]
    BY <1>9, <2>1 DEF RestoreAccount
  <2> QED
    BY <1>9, <2>2, TypeFromShapes DEF RestoreAccount
<1>10. ASSUME NEW s \in Scopes, UpdateScope(s) PROVE LTypeOK'
  <2>1. PICK members \in SUBSET Accounts, status \in {"ACTIVE", "DISABLED"} :
          /\ scope' = [scope EXCEPT ![s] = status]
          /\ lease' = RevokedLeases(members)
          /\ account' = FenceRevoked(members)
          /\ UNCHANGED <<clock, connector>>
          /\ WithinBounds'
    BY <1>10 DEF UpdateScope
  <2>2. account' \in [Accounts -> AccountShape]
    BY <2>1, FenceRevokedRows DEF FenceRevoked
  <2> QED
    BY <2>1, <2>2, RevokedLeasesType, TypeFromShapes
<1>11. ASSUME NEW c \in Connectors, NEW status \in ConnectorStates, NEW config \in Nat,
              InstallConnector(c, status, config)
       PROVE  LTypeOK'
  <2>1. PICK dependents \in SUBSET Accounts :
          /\ connector' = [connector EXCEPT ![c] =
               [status |-> status, config |-> config, revision |-> connector[c].revision + 1]]
          /\ lease' = RevokedLeases(dependents)
          /\ account' = [a \in Accounts |-> IF a \in dependents
                           THEN Invalidated(FenceRevoked(dependents)[a]) ELSE account[a]]
          /\ UNCHANGED <<clock, scope>>
          /\ WithinBounds'
    BY <1>11 DEF InstallConnector
  <2>2. connector' \in [Connectors -> ConnectorShape]
    BY <2>1 DEF ConnectorShape
  <2>3. ASSUME NEW row \in AccountShape PROVE Invalidated(row) \in AccountShape
    <3>1. row.revision + 1 \in Nat \ {0} /\ NoTime \in Int
      BY Bumped
    <3> QED
      BY <3>1 DEF Invalidated, AccountShape, HealthStates, OperationalStates
  <2>4. account' \in [Accounts -> AccountShape]
    BY <2>1, <2>3, FenceRevokedRows
  <2> QED
    BY <2>1, <2>2, <2>4, RevokedLeasesType, TypeFromShapes
<1>12. ASSUME NEW c \in Connectors, UpdateConnector(c) PROVE LTypeOK'
  <2>1. connector[c].status \in ConnectorStates /\ connector[c].config \in Nat
    BY DEF ConnectorShape
  <2>2. {"DRAFT", "DISABLED"} \subseteq ConnectorStates
    BY DEF ConnectorStates
  <2> QED
    BY <1>11, <1>12, <2>1, <2>2 DEF UpdateConnector
<1>13. ASSUME NEW c \in Connectors, ValidateConnector(c) PROVE LTypeOK'
  <2>1. connector[c].config \in Nat
    BY DEF ConnectorShape
  <2>2. {"ACTIVE", "DEGRADED", "DRAFT"} \subseteq ConnectorStates
    BY DEF ConnectorStates
  <2> QED
    BY <1>11, <1>13, <2>1, <2>2 DEF ValidateConnector
<1>14. CASE UNCHANGED leaseVars
  BY <1>14 DEF leaseVars, LTypeOK
<1> QED
  BY <1>1, <1>2, <1>3, <1>5, <1>6, <1>7, <1>8, <1>9, <1>10, <1>12, <1>13, <1>14 DEF LNext

\* Whatever commands commit, in whatever order, every row stays one the
\* tables can hold (the check constraints of migrations 0004, 0005 and 0007).
THEOREM TypeCorrect == LSpec => []LTypeOK
  BY InitType, TypeStep, PTL DEF LSpec

-----------------------------------------------------------------------------
(* The fence.  Every transaction does one of four things to an account, and  *)
(* both the invariant and the refinement follow from that.                   *)

ActiveTokens(a) == {k \in Tokens : Active(a, k)}

KeptStep(a) ==
  /\ ActiveTokens(a)' = ActiveTokens(a)
  /\ account'[a].epoch = account[a].epoch
EndedStep(a) ==
  /\ ActiveTokens(a)' = {}
  /\ account'[a].epoch = account[a].epoch
RevokedStep(a) ==
  /\ ActiveTokens(a) # {}
  /\ ActiveTokens(a)' = {}
  /\ account'[a].epoch = account[a].epoch + 1
GrantedStep(a) ==
  /\ ActiveTokens(a) = {}
  /\ account'[a].epoch = account[a].epoch + 1
  /\ ActiveTokens(a)' = {account'[a].epoch}

StepOf(a) == KeptStep(a) \/ EndedStep(a) \/ RevokedStep(a) \/ GrantedStep(a)

\* revoke_active, over any set of accounts: their leases are revoked and their
\* fences moved together, and the other accounts are left alone.
LEMMA RevocationSteps ==
  ASSUME Shapes, ActiveLeaseHoldsFence, NEW accs, NEW a \in Accounts,
         lease' = RevokedLeases(accs),
         account'[a].epoch = FenceRevoked(accs)[a].epoch
  PROVE  StepOf(a)
<1>1. \A k \in Tokens : Active(a, k)' <=> (Active(a, k) /\ a \notin accs)
  BY RevokedLeasesStatus DEF Active, Shapes
<1>2. CASE a \notin accs
  <2>1. account'[a].epoch = account[a].epoch
    BY <1>2, FenceRevokedRows DEF Shapes
  <2> QED
    BY <1>1, <1>2, <2>1 DEF StepOf, KeptStep, ActiveTokens
<1>3. CASE a \in accs /\ ActiveTokens(a) = {}
  <2>1. account'[a].epoch = account[a].epoch
    BY <1>3 DEF FenceRevoked, ActiveTokens
  <2> QED
    BY <1>1, <1>3, <2>1 DEF StepOf, EndedStep, ActiveTokens
<1>4. CASE a \in accs /\ ActiveTokens(a) # {}
  <2>1. \E k \in Tokens : Active(a, k) /\ FenceMatches(a, k)
    BY <1>4 DEF ActiveTokens, ActiveLeaseHoldsFence
  <2>2. FenceRevoked(accs)[a] = FencedOff(account[a])
    BY <1>4, <2>1 DEF FenceRevoked
  <2>3. account'[a].epoch = account[a].epoch + 1
    BY <2>2, HelpersKeepShape DEF Shapes
  <2> QED
    BY <1>1, <1>4, <2>3 DEF StepOf, RevokedStep, ActiveTokens
<1> QED
  BY <1>2, <1>3, <1>4

\* Writing one lease row of an account to a state other than ACTIVE, with the
\* account's epoch unchanged, ends its lease.
LEMMA EndingSteps ==
  ASSUME Shapes, ActiveLeaseHoldsFence, NEW a \in Accounts, NEW k \in Tokens,
         NEW b \in Accounts, Active(a, k), NEW status \in LeaseStates \ {"ACTIVE"},
         lease' = [lease EXCEPT ![a][k].status = status],
         account'[b].epoch = account[b].epoch
  PROVE  StepOf(b)
<1>1. CASE a = b
  <2>1. \A l \in Tokens : Active(a, l) => l = k
    BY DEF ActiveLeaseHoldsFence, FenceMatches
  <2>2. \A l \in Tokens : ~ Active(a, l)'
    BY <2>1 DEF Shapes, LeaseTables, LeaseRow, Active
  <2> QED
    BY <1>1, <2>2 DEF StepOf, EndedStep, ActiveTokens
<1>2. CASE a # b
  <2>1. lease'[b] = lease[b]
    BY <1>2 DEF Shapes, LeaseTables
  <2> QED
    BY <2>1 DEF StepOf, KeptStep, ActiveTokens, Active
<1> QED
  BY <1>1, <1>2

\* Reaping any batch of expired leases ends leases and moves no fence.
LEMMA ReapingSteps ==
  ASSUME Shapes, ActiveLeaseHoldsFence, NEW now \in Nat, NEW batch, NEW b \in Accounts,
         lease'[b] = Reaped(batch)[b],
         account'[b].epoch = Cleaned(now, batch)[b].epoch
  PROVE  KeptStep(b) \/ EndedStep(b)
<1>1. \A k \in Tokens : Active(b, k)' <=> (Active(b, k) /\ <<b, k>> \notin batch)
  BY ReapedStatus DEF Active, Shapes
<1>2. account'[b].epoch = account[b].epoch
  BY CleanedRows DEF Shapes
<1>3. CASE \E k \in Tokens : Active(b, k) /\ <<b, k>> \in batch
  <2>1. \A l \in Tokens : ~ Active(b, l)'
    BY <1>1, <1>3 DEF ActiveLeaseHoldsFence, FenceMatches
  <2> QED
    BY <1>2, <2>1 DEF EndedStep, ActiveTokens
<1>4. CASE ~ \E k \in Tokens : Active(b, k) /\ <<b, k>> \in batch
  BY <1>1, <1>2, <1>4 DEF KeptStep, ActiveTokens
<1> QED
  BY <1>3, <1>4

\* Every transaction takes every account through one of the four steps.
LEMMA StepKinds ==
  ASSUME LTypeOK, ActiveLeaseHoldsFence, LNext, NEW b \in Accounts
  PROVE  StepOf(b)
<1>0. Shapes
  BY TypeGivesShapes
<1>a. ASSUME lease'[b] = lease[b], account'[b].epoch = account[b].epoch PROVE StepOf(b)
  BY <1>a DEF StepOf, KeptStep, ActiveTokens, Active
<1>1. CASE Tick
  BY <1>1, <1>a DEF Tick
<1>2. ASSUME NEW a \in Accounts, Acquire(a) PROVE StepOf(b)
  <2>1. PICK now \in Now : \E batch \in ReapBatches(now), row \in LeaseRow :
          /\ Leasable(Cleaned(now, batch)[a], Reaped(batch)[a], ScopesOf[a], now)
          /\ Cleaned(now, batch)[a].epoch + 1 \in Tokens
          /\ row.status = "ACTIVE"
          /\ lease' = [Reaped(batch) EXCEPT ![a][Cleaned(now, batch)[a].epoch + 1] = row]
          /\ account' = [Cleaned(now, batch) EXCEPT
                           ![a].epoch = Cleaned(now, batch)[a].epoch + 1, ![a].revision = @ + 1]
    <3>1. PICK now \in Now, ttl \in Ttls, horizon \in Horizons : \E batch \in ReapBatches(now) :
            /\ Leasable(Cleaned(now, batch)[a], Reaped(batch)[a], ScopesOf[a], now)
            /\ Cleaned(now, batch)[a].epoch + 1 \in Tokens
            /\ lease' = [Reaped(batch) EXCEPT ![a][Cleaned(now, batch)[a].epoch + 1] =
                           [status |-> "ACTIVE", acquired |-> now,
                            expires |-> Earlier(now + ttl, now + horizon),
                            maxExpires |-> now + horizon]]
            /\ account' = [Cleaned(now, batch) EXCEPT
                             ![a].epoch = Cleaned(now, batch)[a].epoch + 1, ![a].revision = @ + 1]
            /\ UNCHANGED <<clock, scope, connector>>
            /\ WithinBounds'
      BY <1>2, Zenon DEF Acquire
    <3> DEFINE row == [status |-> "ACTIVE", acquired |-> now,
                       expires |-> Earlier(now + ttl, now + horizon),
                       maxExpires |-> now + horizon]
    <3>2. now \in Nat /\ ttl \in Nat /\ horizon \in Nat
      BY TimeAssumption DEF Now
    <3>3. row \in LeaseRow /\ row.status = "ACTIVE"
      BY <3>2 DEF LeaseRow, LeaseStates, Earlier
    <3> HIDE DEF row
    <3> QED
      BY <3>1, <3>3, Zenon DEF row
  <2>2. PICK batch \in ReapBatches(now), row \in LeaseRow :
          /\ Leasable(Cleaned(now, batch)[a], Reaped(batch)[a], ScopesOf[a], now)
          /\ Cleaned(now, batch)[a].epoch + 1 \in Tokens
          /\ row.status = "ACTIVE"
          /\ lease' = [Reaped(batch) EXCEPT ![a][Cleaned(now, batch)[a].epoch + 1] = row]
          /\ account' = [Cleaned(now, batch) EXCEPT
                           ![a].epoch = Cleaned(now, batch)[a].epoch + 1, ![a].revision = @ + 1]
    BY <2>1, Zenon
  <2>3. now \in Nat
    BY DEF Now
  <2>4. Cleaned(now, batch) \in [Accounts -> AccountShape] /\ Reaped(batch) \in LeaseTables
    BY <1>0, <2>3, CleanedRows, ReapedType DEF Shapes, Cleaned
  <2>5. CASE a # b
    <3>1. lease'[b] = Reaped(batch)[b] /\ account'[b] = Cleaned(now, batch)[b]
      BY <2>2, <2>4, <2>5 DEF LeaseTables
    <3> QED
      BY <1>0, <2>3, <3>1, ReapingSteps DEF StepOf
  <2>6. CASE a = b
    <3> DEFINE token == Cleaned(now, batch)[a].epoch + 1
    <3>1. Cleaned(now, batch)[a].epoch = account[a].epoch
      BY <1>0, <2>3, CleanedRows DEF Shapes
    <3>2. \A k \in Tokens : Reaped(batch)[a][k].status # "ACTIVE"
      BY <2>2 DEF Leasable
    <3>3. ActiveTokens(a) = {}
      <4>1. ASSUME NEW k \in Tokens, Active(a, k) PROVE FALSE
        <5>1. k = account[a].epoch
          BY <4>1 DEF ActiveLeaseHoldsFence, FenceMatches
        <5>2. <<a, account[a].epoch>> \in batch
          BY <1>0, <3>2, <4>1, <5>1, ReapedStatus DEF Shapes
        <5>3. Cleaned(now, batch)[a] = Reverified(Restored(a, now))
          BY <5>2 DEF Cleaned
        <5>4. Reverified(Restored(a, now)).op # "READY"
          BY <1>0, <2>3, RestoredRows DEF Reverified, Shapes, AccountShape
        <5> QED
          BY <2>2, <5>3, <5>4 DEF Leasable
      <4> QED
        BY <4>1 DEF ActiveTokens
    <3>4. account'[a].epoch = token
      BY <2>2, <2>4 DEF AccountShape
    <3>5. \A k \in Tokens : lease'[a][k] = IF k = token THEN row ELSE Reaped(batch)[a][k]
      BY <2>2, <2>4 DEF LeaseTables
    <3>6. ActiveTokens(a)' = {token}
      BY <2>2, <3>2, <3>5 DEF ActiveTokens, Active
    <3> QED
      BY <2>6, <3>1, <3>3, <3>4, <3>6 DEF StepOf, GrantedStep
  <2> QED
    BY <2>5, <2>6
<1>3. CASE ReapExpired
  <2>1. PICK now \in Now : \E batch \in ReapBatches(now) :
          account' = Cleaned(now, batch) /\ lease' = Reaped(batch)
    BY <1>3 DEF ReapExpired, ReapExpiredAt
  <2> QED
    BY <1>0, <2>1, ReapingSteps DEF Now, StepOf
<1>4. ASSUME NEW a \in Accounts, NEW k \in Tokens, NEW now \in Now, ExpireLocked(a, k, now)
      PROVE  StepOf(b)
  <2>1. account'[b].epoch = account[b].epoch
    BY <1>0, <1>4, HelpersKeepShape DEF ExpireLocked, Shapes
  <2>2. Active(a, k) /\ lease' = [lease EXCEPT ![a][k].status = "EXPIRED"]
    BY <1>4 DEF ExpireLocked, Expired
  <2>3. "EXPIRED" \in LeaseStates \ {"ACTIVE"}
    BY DEF LeaseStates
  <2> QED
    BY <1>0, <2>1, <2>2, <2>3, EndingSteps
<1>5. ASSUME NEW a \in Accounts, NEW k \in Tokens, Heartbeat(a, k) PROVE StepOf(b)
  <2>1. ASSUME NEW e, lease' = [lease EXCEPT ![a][k].expires = e], UNCHANGED account
        PROVE  StepOf(b)
    <3>1. \A l \in Tokens : lease'[b][l].status = lease[b][l].status
      BY <1>0, <2>1 DEF Shapes, LeaseTables, LeaseRow
    <3> QED
      BY <2>1, <3>1 DEF StepOf, KeptStep, ActiveTokens, Active
  <2> QED
    BY <1>4, <1>5, <2>1 DEF Heartbeat
<1>6. ASSUME NEW a \in Accounts, NEW k \in Tokens, Release(a, k) PROVE StepOf(b)
  <2>1. ASSUME NEW now \in Now, NEW cleanupFailed \in BOOLEAN, NEW cooldown \in Cooldowns,
               Authorized(a, k, now),
               lease' = [lease EXCEPT ![a][k].status = "RELEASED"],
               account' = [account EXCEPT ![a] = AfterRelease(@, cleanupFailed, cooldown, now)]
        PROVE  StepOf(b)
    <3>1. AfterRelease(account[a], cleanupFailed, cooldown, now).epoch = account[a].epoch
      BY <1>0 DEF AfterRelease, Shapes, AccountShape
    <3>2. account'[b].epoch = account[b].epoch
      BY <1>0, <2>1, <3>1 DEF Shapes
    <3>3. "RELEASED" \in LeaseStates \ {"ACTIVE"}
      BY DEF LeaseStates
    <3> QED
      BY <1>0, <2>1, <3>2, <3>3, EndingSteps DEF Authorized
  <2> QED
    BY <1>4, <1>6, <2>1 DEF Release
<1>7. ASSUME NEW a \in Accounts, UpdateAccount(a) PROVE StepOf(b)
  <2>1. PICK asked \in LifecycleMoves[account[a].lifecycle] \cup {account[a].lifecycle, "KEEP"},
             c \in Connectors :
          LET rebound == c # account[a].connector
              evicted == IF EndsUse(asked) \/ rebound THEN {a} ELSE {}
              moved == [FenceRevoked(evicted)[a] EXCEPT
                          !.lifecycle = LifecycleAfter(account[a], asked), !.revision = @ + 1]
          IN /\ lease' = RevokedLeases(evicted)
             /\ account' = [account EXCEPT ![a] = IF rebound THEN Rebound(moved, c) ELSE moved]
    BY <1>7 DEF UpdateAccount
  <2> DEFINE evicted == IF EndsUse(asked) \/ c # account[a].connector THEN {a} ELSE {}
             moved == [FenceRevoked(evicted)[a] EXCEPT
                         !.lifecycle = LifecycleAfter(account[a], asked), !.revision = @ + 1]
  <2>2. FenceRevoked(evicted)[a] \in AccountShape
    BY <1>0, FenceRevokedRows DEF Shapes
  <2>3. moved.epoch = FenceRevoked(evicted)[a].epoch
    BY <2>2 DEF AccountShape
  <2>4. Rebound(moved, c).epoch = moved.epoch
    BY <2>2 DEF Rebound, AccountShape
  <2> HIDE DEF moved
  <2>5. account'[b].epoch = FenceRevoked(evicted)[b].epoch
    <3>1. CASE a = b
      BY <1>0, <2>1, <2>3, <2>4, <3>1 DEF moved, Shapes
    <3>2. CASE a # b
      BY <1>0, <2>1, <3>2, FenceRevokedRows DEF Shapes
    <3> QED
      BY <3>1, <3>2
  <2>6. lease' = RevokedLeases(evicted)
    BY <2>1
  <2> HIDE DEF evicted
  <2> QED
    BY <1>0, <2>5, <2>6, RevocationSteps
<1>8. ASSUME NEW a \in Accounts, QuarantineAccount(a) PROVE StepOf(b)
  <2>1. FenceRevoked({a})[a] \in AccountShape
    BY <1>0, FenceRevokedRows DEF Shapes
  <2>2. account'[b].epoch = FenceRevoked({a})[b].epoch
    <3>1. CASE a = b
      BY <1>0, <1>8, <2>1, <3>1 DEF QuarantineAccount, Shapes, AccountShape
    <3>2. CASE a # b
      BY <1>0, <1>8, <3>2, FenceRevokedRows DEF QuarantineAccount, Shapes
    <3> QED
      BY <3>1, <3>2
  <2> QED
    BY <1>0, <1>8, <2>2, RevocationSteps DEF QuarantineAccount
<1>9. ASSUME NEW a \in Accounts, RestoreAccount(a) PROVE StepOf(b)
  <2>1. Unquarantined(account[a]).epoch = account[a].epoch
    BY <1>0 DEF Unquarantined, Shapes, AccountShape
  <2> QED
    BY <1>0, <1>9, <1>a, <2>1 DEF RestoreAccount, Shapes
<1>10. ASSUME NEW s \in Scopes, UpdateScope(s) PROVE StepOf(b)
  <2>1. PICK members : lease' = RevokedLeases(members) /\ account' = FenceRevoked(members)
    BY <1>10 DEF UpdateScope
  <2> QED
    BY <1>0, <2>1, RevocationSteps
<1>11. ASSUME NEW c \in Connectors, NEW status, NEW config, InstallConnector(c, status, config)
       PROVE  StepOf(b)
  <2>1. PICK dependents \in SUBSET Accounts :
          /\ lease' = RevokedLeases(dependents)
          /\ account' = [a \in Accounts |-> IF a \in dependents
                           THEN Invalidated(FenceRevoked(dependents)[a]) ELSE account[a]]
    BY <1>11 DEF InstallConnector
  <2>2. FenceRevoked(dependents)[b] \in AccountShape
    BY <1>0, FenceRevokedRows DEF Shapes
  <2>3. Invalidated(FenceRevoked(dependents)[b]).epoch = FenceRevoked(dependents)[b].epoch
    BY <2>2 DEF Invalidated, AccountShape
  <2>4. account'[b].epoch = FenceRevoked(dependents)[b].epoch
    BY <1>0, <2>1, <2>3, FenceRevokedRows DEF Shapes
  <2> QED
    BY <1>0, <2>1, <2>4, RevocationSteps
<1>12. ASSUME NEW c \in Connectors, UpdateConnector(c) PROVE StepOf(b)
  BY <1>11, <1>12 DEF UpdateConnector
<1>13. ASSUME NEW c \in Connectors, ValidateConnector(c) PROVE StepOf(b)
  BY <1>11, <1>13 DEF ValidateConnector
<1> QED
  BY <1>1, <1>2, <1>3, <1>5, <1>6, <1>7, <1>8, <1>9, <1>10, <1>12, <1>13 DEF LNext

\* The invariant that makes the fence inductive.
FenceInv == LTypeOK /\ ActiveLeaseHoldsFence

\* At first there are no leases.
LEMMA FenceInvInit == LInit => FenceInv
<1> SUFFICES ASSUME LInit PROVE ActiveLeaseHoldsFence
  BY InitType DEF FenceInv
<1> QED
  BY DEF LInit, ActiveLeaseHoldsFence, Active, NoLease

\* The four steps keep every active lease on the latest fence.
LEMMA FenceKept ==
  ASSUME ActiveLeaseHoldsFence, \A a \in Accounts : StepOf(a)
  PROVE  ActiveLeaseHoldsFence'
<1> SUFFICES ASSUME NEW b \in Accounts, NEW k \in Tokens, Active(b, k)'
             PROVE  account'[b].epoch = k
  BY DEF ActiveLeaseHoldsFence, FenceMatches
<1>1. StepOf(b) /\ k \in ActiveTokens(b)'
  BY DEF ActiveTokens
<1>2. Active(b, k) => account[b].epoch = k
  BY DEF ActiveLeaseHoldsFence, FenceMatches
<1> QED
  BY <1>1, <1>2
     DEF StepOf, KeptStep, EndedStep, RevokedStep, GrantedStep, ActiveTokens

\* A transaction of another table, or none, is a kept step of every account.
LEMMA StutterKept ==
  ASSUME UNCHANGED <<account, lease>>, NEW b \in Accounts
  PROVE  StepOf(b)
  BY DEF StepOf, KeptStep, ActiveTokens, Active

\* No lease transaction leaves an active lease behind the fence.
LEMMA FenceInvStep == FenceInv /\ [LNext]_leaseVars => FenceInv'
<1> SUFFICES ASSUME FenceInv, [LNext]_leaseVars PROVE ActiveLeaseHoldsFence'
  BY TypeStep DEF FenceInv
<1>1. \A b \in Accounts : StepOf(b)
  BY StepKinds, StutterKept DEF FenceInv, leaseVars
<1> QED
  BY <1>1, FenceKept DEF FenceInv

\* At every moment an active lease carries the latest epoch of its account, so
\* no account has two holders (lease_fence_matches).
THEOREM FenceHeld == LSpec => []ActiveLeaseHoldsFence
<1>1. FenceInv => ActiveLeaseHoldsFence
  BY DEF FenceInv
<1> QED
  BY <1>1, FenceInvInit, FenceInvStep, PTL DEF LSpec

-----------------------------------------------------------------------------
(* Refinement of the abstract fenced holder *)

\* Under the invariant, the abstract holder is 0 exactly for a free account.
LEMMA HolderOf ==
  ASSUME FenceInv, NEW a \in Accounts
  PROVE  LET h == IF account[a].epoch \in Tokens /\ Active(a, account[a].epoch)
                    THEN account[a].epoch ELSE 0
         IN /\ h \in Nat /\ account[a].epoch \in Nat
            /\ ActiveTokens(a) = {} => h = 0
            /\ ActiveTokens(a) # {} => h = account[a].epoch /\ h # 0
<1>1. account[a].epoch \in Nat
  BY BoundAssumption DEF FenceInv, LTypeOK, AccountRow
<1>2. \A k \in Tokens : k # 0
  BY BoundAssumption DEF Tokens
<1>3. \A k \in ActiveTokens(a) : k = account[a].epoch
  BY DEF FenceInv, ActiveLeaseHoldsFence, FenceMatches, ActiveTokens
<1> QED
  BY <1>1, <1>2, <1>3 DEF ActiveTokens

\* The same of the next state.
LEMMA HolderOfNext ==
  ASSUME FenceInv', NEW a \in Accounts
  PROVE  LET h == IF account'[a].epoch \in Tokens /\ Active(a, account[a].epoch)'
                    THEN account'[a].epoch ELSE 0
         IN /\ h \in Nat /\ account'[a].epoch \in Nat
            /\ ActiveTokens(a)' = {} => h = 0
            /\ ActiveTokens(a)' # {} => h = account'[a].epoch /\ h # 0
<1>1. account'[a].epoch \in Nat
  BY BoundAssumption DEF FenceInv, LTypeOK, AccountRow
<1>2. \A k \in Tokens : k # 0
  BY BoundAssumption DEF Tokens
<1>3. \A k \in ActiveTokens(a)' : k = account'[a].epoch
  BY DEF FenceInv, ActiveLeaseHoldsFence, FenceMatches, ActiveTokens
<1> QED
  BY <1>1, <1>2, <1>3 DEF ActiveTokens, Active

\* The initial state maps to the abstract one: nobody holds anything.
LEMMA RefinedInit == LInit => Fenced!FInit
<1> SUFFICES ASSUME LInit PROVE Fenced!FInit
  OBVIOUS
<1>1. \A a \in Accounts : account[a].epoch = 0
  <2>1. \A c \in Connectors : Imported(c).epoch = 0 /\ Verified(c).epoch = 0
    BY DEF Imported, Verified
  <2> QED
    BY <2>1 DEF LInit
<1>2. 0 \notin Tokens
  BY BoundAssumption DEF Tokens
<1> QED
  BY <1>1, <1>2 DEF Fenced!FInit

\* Read through the mapping, the four steps are the steps of FencedLease.
LEMMA StepsRefine ==
  ASSUME FenceInv, FenceInv', \A a \in Accounts : StepOf(a)
  PROVE  Fenced!FNext
<1> DEFINE h(a) == IF account[a].epoch \in Tokens /\ Active(a, account[a].epoch)
                     THEN account[a].epoch ELSE 0
           hn(a) == IF account'[a].epoch \in Tokens /\ Active(a, account[a].epoch)'
                      THEN account'[a].epoch ELSE 0
<1>1. ASSUME NEW a \in Accounts
      PROVE  \/ h(a) = 0 /\ account'[a].epoch = account[a].epoch + 1 /\ hn(a) = account'[a].epoch
             \/ h(a) # 0 /\ hn(a) = 0 /\ account'[a].epoch = account[a].epoch
             \/ h(a) # 0 /\ hn(a) = 0 /\ account'[a].epoch = account[a].epoch + 1
             \/ hn(a) = h(a) /\ account'[a].epoch = account[a].epoch
  <2>1. StepOf(a)
    OBVIOUS
  <2>2. /\ ActiveTokens(a) = {} => h(a) = 0
        /\ ActiveTokens(a) # {} => h(a) = account[a].epoch /\ h(a) # 0
    BY HolderOf
  <2>3. /\ ActiveTokens(a)' = {} => hn(a) = 0
        /\ ActiveTokens(a)' # {} => hn(a) = account'[a].epoch /\ hn(a) # 0
    BY HolderOfNext
  <2> HIDE DEF h, hn
  <2> QED
    BY <2>1, <2>2, <2>3 DEF StepOf, KeptStep, EndedStep, RevokedStep, GrantedStep
<1>2. \A a \in Accounts : hn(a) \in Nat /\ account'[a].epoch \in Nat
  BY HolderOfNext
<1> QED
  BY <1>1, <1>2
     DEF Fenced!FNext, Fenced!Granted, Fenced!Ended, Fenced!Revoked, Fenced!Kept

\* So does every lease transaction, and what leaves the leases alone stutters.
LEMMA RefinedStep ==
  FenceInv /\ FenceInv' /\ [LNext]_leaseVars => [Fenced!FNext]_(Fenced!fencedVars)
<1>1. FenceInv /\ FenceInv' /\ LNext => Fenced!FNext
  BY StepKinds, StepsRefine DEF FenceInv
<1>2. UNCHANGED leaseVars => UNCHANGED Fenced!fencedVars
  BY DEF leaseVars, Fenced!fencedVars, Active
<1> QED
  BY <1>1, <1>2

\* The lease transactions implement the abstract holder: a grant of a free
\* account under the next fence, an end, or a revocation that moves the fence.
THEOREM Refinement == LSpec => RefinesFencedLease
  BY FenceInvInit, FenceInvStep, RefinedInit, RefinedStep, PTL
     DEF LSpec, RefinesFencedLease, Fenced!FSpec

-----------------------------------------------------------------------------
(* A leased account stays fit for use *)

UsableInv == FenceInv /\ LeasedAccountUsable

\* Revoking the leases of a set leaves none of its accounts held.
LEMMA RevokedNotHeld ==
  ASSUME Shapes, NEW accs, NEW a \in Accounts, lease' = RevokedLeases(accs), Held(a)'
  PROVE  Held(a) /\ a \notin accs
  BY RevokedLeasesStatus DEF Held, Active, Shapes

\* Ending the one lease of an account leaves it free.
LEMMA EndedNotHeld ==
  ASSUME Shapes, ActiveLeaseHoldsFence, NEW a \in Accounts, NEW k \in Tokens,
         NEW b \in Accounts, Active(a, k), NEW status \in LeaseStates \ {"ACTIVE"},
         lease' = [lease EXCEPT ![a][k].status = status], Held(b)'
  PROVE  Held(b) /\ a # b
<1>1. a # b
  <2> SUFFICES ASSUME a = b PROVE FALSE
    OBVIOUS
  <2>1. \A l \in Tokens : Active(a, l) => l = k
    BY DEF ActiveLeaseHoldsFence, FenceMatches
  <2>2. \A l \in Tokens : ~ Active(a, l)'
    BY <2>1 DEF Shapes, LeaseTables, LeaseRow, Active
  <2> QED
    BY <2>2 DEF Held
<1>2. lease'[b] = lease[b]
  BY <1>1 DEF Shapes, LeaseTables
<1> QED
  BY <1>1, <1>2 DEF Held, Active

\* A reaped batch and the housekeeping before it do not touch a held account.
LEMMA ReapedKeepsHeld ==
  ASSUME Shapes, ActiveLeaseHoldsFence, NEW now \in Nat, NEW batch,
         NEW b \in Accounts, Held(b) => Usable(b),
         lease'[b] = Reaped(batch)[b], Held(b)'
  PROVE  Held(b) /\ Cleaned(now, batch)[b] = account[b]
<1>1. PICK k \in Tokens : Active(b, k)'
  BY DEF Held
<1>2. Active(b, k) /\ <<b, k>> \notin batch
  BY <1>1, ReapedStatus DEF Active, Shapes
<1>3. Held(b) /\ k = account[b].epoch /\ account[b].op = "READY"
  BY <1>2 DEF Held, ActiveLeaseHoldsFence, FenceMatches, Usable
<1>4. Restored(b, now) = account[b]
  BY <1>3, RestoredRows DEF Shapes
<1> QED
  BY <1>2, <1>3, <1>4 DEF Cleaned

\* At first no account is leased.
LEMMA UsableInvInit == LInit => UsableInv
<1> SUFFICES ASSUME LInit PROVE LeasedAccountUsable
  BY FenceInvInit DEF UsableInv
<1> QED
  BY DEF LInit, LeasedAccountUsable, Held, Active, NoLease

\* No lease transaction leaves a lease on an account that it takes out of use,
\* or grants one on an account that is not fit.
LEMMA UsableStep ==
  ASSUME FenceInv, [LNext]_leaseVars, NEW b \in Accounts,
         Held(b) => Usable(b), Held(b)'
  PROVE  Usable(b)'
<1>0. /\ Shapes /\ ActiveLeaseHoldsFence /\ LTypeOK
      /\ scope \in [Scopes -> {"ACTIVE", "DISABLED"}]
  BY TypeGivesShapes DEF FenceInv, LTypeOK
<1>a. ASSUME Held(b) PROVE Usable(b)
  BY <1>a
<1>b. ASSUME Held(b), account'[b] = account[b], UNCHANGED <<scope, connector>>
      PROVE  Usable(b)'
  BY <1>a, <1>b DEF Usable
<1>1. CASE Tick
  BY <1>1, <1>b DEF Tick, Held, Active
<1>2. ASSUME NEW a \in Accounts, Acquire(a) PROVE Usable(b)'
  <2>1. PICK now \in Now : \E batch \in ReapBatches(now) : \E row :
          /\ Leasable(Cleaned(now, batch)[a], Reaped(batch)[a], ScopesOf[a], now)
          /\ Cleaned(now, batch)[a].epoch + 1 \in Tokens
          /\ lease' = [Reaped(batch) EXCEPT ![a][Cleaned(now, batch)[a].epoch + 1] = row]
          /\ account' = [Cleaned(now, batch) EXCEPT
                           ![a].epoch = Cleaned(now, batch)[a].epoch + 1, ![a].revision = @ + 1]
          /\ UNCHANGED <<clock, scope, connector>>
          /\ WithinBounds'
    BY <1>2, Zenon DEF Acquire
  <2>2. PICK batch, row :
          /\ batch \in ReapBatches(now)
          /\ Leasable(Cleaned(now, batch)[a], Reaped(batch)[a], ScopesOf[a], now)
          /\ lease' = [Reaped(batch) EXCEPT ![a][Cleaned(now, batch)[a].epoch + 1] = row]
          /\ account' = [Cleaned(now, batch) EXCEPT
                           ![a].epoch = Cleaned(now, batch)[a].epoch + 1, ![a].revision = @ + 1]
          /\ UNCHANGED <<scope, connector>>
    BY <2>1, Zenon
  <2>3. /\ now \in Nat
        /\ Cleaned(now, batch) \in [Accounts -> AccountShape]
        /\ Reaped(batch) \in LeaseTables
    BY <1>0, CleanedRows, ReapedType DEF Now, Shapes, Cleaned
  <2>4. CASE a # b
    <3>1. lease'[b] = Reaped(batch)[b] /\ account'[b] = Cleaned(now, batch)[b]
      BY <2>2, <2>3, <2>4 DEF LeaseTables
    <3>2. Held(b) /\ account'[b] = account[b]
      BY <1>0, <2>3, <3>1, ReapedKeepsHeld
    <3> QED
      BY <1>b, <2>2, <3>2
  <2>5. CASE a = b
    <3> DEFINE old == Cleaned(now, batch)[a]
    <3>1. /\ account'[a].lifecycle = old.lifecycle
          /\ account'[a].health = old.health
          /\ account'[a].op = old.op
          /\ account'[a].connector = old.connector
      BY <2>2, <2>3 DEF AccountShape
    <3>2. /\ \A s \in ScopesOf[a] : scope[s] = "ACTIVE"
          /\ connector[old.connector].status = "ACTIVE"
          /\ old.lifecycle = "ACTIVE" /\ old.health = "HEALTHY" /\ old.op = "READY"
      BY <2>2 DEF Leasable
    <3> HIDE DEF old
    <3> QED
      BY <2>2, <2>5, <3>1, <3>2 DEF Usable
  <2> QED
    BY <2>4, <2>5
<1>3. CASE ReapExpired
  <2>1. PICK now \in Now : \E batch \in ReapBatches(now) :
          /\ account' = Cleaned(now, batch)
          /\ lease' = Reaped(batch)
          /\ UNCHANGED <<scope, connector>>
    BY <1>3 DEF ReapExpired, ReapExpiredAt
  <2>2. Held(b) /\ account'[b] = account[b]
    BY <1>0, <2>1, ReapedKeepsHeld DEF Now
  <2> QED
    BY <1>b, <2>1, <2>2
<1>4. ASSUME NEW a \in Accounts, NEW k \in Tokens, NEW now \in Now, ExpireLocked(a, k, now)
      PROVE  Usable(b)'
  <2>1. Active(a, k) /\ lease' = [lease EXCEPT ![a][k].status = "EXPIRED"]
    BY <1>4 DEF ExpireLocked, Expired
  <2>2. "EXPIRED" \in LeaseStates \ {"ACTIVE"}
    BY DEF LeaseStates
  <2>3. Held(b) /\ a # b
    BY <1>0, <2>1, <2>2, EndedNotHeld
  <2> QED
    BY <1>0, <1>4, <1>b, <2>3 DEF ExpireLocked, Shapes
<1>5. ASSUME NEW a \in Accounts, NEW k \in Tokens, Heartbeat(a, k) PROVE Usable(b)'
  <2>1. ASSUME NEW e, lease' = [lease EXCEPT ![a][k].expires = e],
               UNCHANGED <<account, scope, connector>>
        PROVE  Usable(b)'
    <3>1. \A l \in Tokens : lease'[b][l].status = lease[b][l].status
      BY <1>0, <2>1 DEF Shapes, LeaseTables, LeaseRow
    <3> QED
      BY <1>b, <2>1, <3>1 DEF Held, Active
  <2> QED
    BY <1>4, <1>5, <2>1 DEF Heartbeat
<1>6. ASSUME NEW a \in Accounts, NEW k \in Tokens, Release(a, k) PROVE Usable(b)'
  <2>1. ASSUME NEW now \in Now, NEW cleanupFailed \in BOOLEAN, NEW cooldown \in Cooldowns,
               Authorized(a, k, now),
               lease' = [lease EXCEPT ![a][k].status = "RELEASED"],
               account' = [account EXCEPT ![a] = AfterRelease(@, cleanupFailed, cooldown, now)],
               UNCHANGED <<clock, scope, connector>>
        PROVE  Usable(b)'
    <3>1. "RELEASED" \in LeaseStates \ {"ACTIVE"}
      BY DEF LeaseStates
    <3>2. Held(b) /\ a # b
      BY <1>0, <2>1, <3>1, EndedNotHeld DEF Authorized
    <3> QED
      BY <1>0, <1>b, <2>1, <3>2 DEF Shapes
  <2> QED
    BY <1>4, <1>6, <2>1 DEF Release
<1>7. ASSUME NEW a \in Accounts, UpdateAccount(a) PROVE Usable(b)'
  <2>1. PICK asked \in LifecycleMoves[account[a].lifecycle] \cup {account[a].lifecycle, "KEEP"},
             c \in Connectors :
          LET rebound == c # account[a].connector
              evicted == IF EndsUse(asked) \/ rebound THEN {a} ELSE {}
              moved == [FenceRevoked(evicted)[a] EXCEPT
                          !.lifecycle = LifecycleAfter(account[a], asked), !.revision = @ + 1]
          IN /\ lease' = RevokedLeases(evicted)
             /\ account' = [account EXCEPT ![a] = IF rebound THEN Rebound(moved, c) ELSE moved]
             /\ UNCHANGED <<clock, scope, connector>>
    BY <1>7 DEF UpdateAccount
  <2>2. Held(b)
    BY <1>0, <2>1, RevokedNotHeld
  <2>3. CASE a # b
    BY <1>0, <1>b, <2>1, <2>2, <2>3 DEF Shapes
  <2>4. CASE a = b /\ (EndsUse(asked) \/ c # account[a].connector)
    <3>1. lease' = RevokedLeases({a})
      BY <2>1, <2>4
    <3> QED
      BY <1>0, <2>4, <3>1, RevokedNotHeld
  <2>5. CASE a = b /\ ~ EndsUse(asked) /\ c = account[a].connector
    <3>1. FenceRevoked({})[a] = account[a]
      BY <1>0, FenceRevokedRows DEF Shapes
    <3>2. account'[a] = [account[a] EXCEPT !.lifecycle = LifecycleAfter(account[a], asked),
                                           !.revision = @ + 1]
      BY <1>0, <2>1, <2>5, <3>1 DEF Shapes
    <3>3. Usable(a) /\ account[a] \in AccountShape
      BY <1>0, <1>a, <2>2, <2>5 DEF Shapes
    <3>4. LifecycleAfter(account[a], asked) = "ACTIVE"
      BY <2>5, <3>3 DEF LifecycleAfter, LifecycleMoves, EndsUse, Usable
    <3>5. /\ account'[a].lifecycle = LifecycleAfter(account[a], asked)
          /\ account'[a].health = account[a].health
          /\ account'[a].op = account[a].op
          /\ account'[a].connector = account[a].connector
      BY <3>2, <3>3 DEF AccountShape
    <3>6. UNCHANGED <<scope, connector>>
      BY <2>1
    <3> QED
      BY <2>5, <3>3, <3>4, <3>5, <3>6 DEF Usable
  <2> QED
    BY <2>3, <2>4, <2>5
<1>8. ASSUME NEW a \in Accounts, QuarantineAccount(a) PROVE Usable(b)'
  <2>1. Held(b) /\ b # a
    BY <1>0, <1>8, RevokedNotHeld DEF QuarantineAccount
  <2> QED
    BY <1>0, <1>8, <1>b, <2>1 DEF QuarantineAccount, Shapes
<1>9. ASSUME NEW a \in Accounts, RestoreAccount(a) PROVE Usable(b)'
  <2>1. Held(b)
    BY <1>9 DEF RestoreAccount, Held, Active
  <2>2. a # b
    BY <1>9, <1>a, <2>1 DEF RestoreAccount, Usable
  <2> QED
    BY <1>0, <1>9, <1>b, <2>1, <2>2 DEF RestoreAccount, Shapes
<1>10. ASSUME NEW s \in Scopes, UpdateScope(s) PROVE Usable(b)'
  <2>1. PICK status \in {"ACTIVE", "DISABLED"}, members \in SUBSET Accounts :
          /\ status = "DISABLED" => members = {a \in Accounts : s \in ScopesOf[a]}
          /\ scope' = [scope EXCEPT ![s] = status]
          /\ lease' = RevokedLeases(members)
          /\ account' = FenceRevoked(members)
          /\ UNCHANGED connector
    <3>1. PICK status \in {"ACTIVE", "DISABLED"} :
            LET members == IF status = "DISABLED"
                             THEN {a \in Accounts : s \in ScopesOf[a]} ELSE {}
            IN /\ scope' = [scope EXCEPT ![s] = status]
               /\ lease' = RevokedLeases(members)
               /\ account' = FenceRevoked(members)
               /\ UNCHANGED connector
      BY <1>10 DEF UpdateScope
    <3> DEFINE members == IF status = "DISABLED"
                            THEN {a \in Accounts : s \in ScopesOf[a]} ELSE {}
    <3>2. members \in SUBSET Accounts
      OBVIOUS
    <3> QED
      BY <3>1, <3>2
  <2>2. Held(b) /\ b \notin members
    BY <1>0, <2>1, RevokedNotHeld
  <2>3. account'[b] = account[b]
    BY <1>0, <2>1, <2>2, FenceRevokedRows DEF Shapes
  <2>4. \A t \in ScopesOf[b] : scope'[t] = "ACTIVE"
    <3>1. \A t \in ScopesOf[b] : t \in Scopes /\ scope[t] = "ACTIVE"
      BY <1>a, <2>2, ScopeAssumption DEF Usable
    <3>2. s \in ScopesOf[b] => status = "ACTIVE"
      BY <2>1, <2>2
    <3> QED
      BY <1>0, <2>1, <3>1, <3>2
  <2> QED
    BY <1>a, <2>1, <2>2, <2>3, <2>4 DEF Usable
<1>11. ASSUME NEW c \in Connectors, NEW status, NEW config, InstallConnector(c, status, config)
       PROVE  Usable(b)'
  <2> DEFINE row == [status |-> status, config |-> config, revision |-> connector[c].revision + 1]
             dependents == IF RequiresRevocation(connector[c], row)
                             THEN {a \in Accounts : account[a].connector = c} ELSE {}
  <2>1. /\ connector' = [connector EXCEPT ![c] = row]
        /\ lease' = RevokedLeases(dependents)
        /\ account' = [a \in Accounts |-> IF a \in dependents
                         THEN Invalidated(FenceRevoked(dependents)[a]) ELSE account[a]]
        /\ UNCHANGED scope
    BY <1>11 DEF InstallConnector
  <2>2. Held(b) /\ b \notin dependents
    BY <1>0, <2>1, RevokedNotHeld
  <2>3. Usable(b) /\ account'[b] = account[b] /\ account[b].connector \in Connectors
    BY <1>0, <1>a, <2>1, <2>2 DEF Shapes, AccountShape
  <2>4. connector'[account[b].connector].status = "ACTIVE"
    <3>1. CASE account[b].connector # c
      BY <1>0, <2>1, <2>3, <3>1 DEF Usable, Shapes
    <3>2. CASE account[b].connector = c
      <4>1. ~ RequiresRevocation(connector[c], row)
        BY <2>2, <3>2
      <4>2. status = "ACTIVE"
        BY <2>3, <3>2, <4>1 DEF RequiresRevocation, Usable
      <4> QED
        BY <1>0, <2>1, <3>2, <4>2 DEF Shapes
    <3> QED
      BY <3>1, <3>2
  <2> QED
    BY <2>1, <2>3, <2>4 DEF Usable
<1>12. ASSUME NEW c \in Connectors, UpdateConnector(c) PROVE Usable(b)'
  BY <1>11, <1>12 DEF UpdateConnector
<1>13. ASSUME NEW c \in Connectors, ValidateConnector(c) PROVE Usable(b)'
  BY <1>11, <1>13 DEF ValidateConnector
<1>14. CASE UNCHANGED leaseVars
  BY <1>14, <1>b DEF leaseVars, Held, Active
<1> QED
  BY <1>1, <1>2, <1>3, <1>5, <1>6, <1>7, <1>8, <1>9, <1>10, <1>12, <1>13, <1>14 DEF LNext

\* So all leased accounts stay fit, as long as nothing but leases happens.
LEMMA UsableInvStep == UsableInv /\ [LNext]_leaseVars => UsableInv'
<1> SUFFICES ASSUME UsableInv, [LNext]_leaseVars, NEW b \in Accounts, Held(b)'
             PROVE  Usable(b)'
  BY FenceInvStep DEF UsableInv, LeasedAccountUsable, Usable
<1> QED
  BY UsableStep DEF UsableInv, LeasedAccountUsable

\* Whoever holds a lease holds an account that is active, healthy, ready, and
\* under an active connector, environment, pool and role: revoke_active runs
\* in the transaction of every command that takes one of those away.
THEOREM LeasedUsable == LSpec => []LeasedAccountUsable
<1>1. UsableInv => LeasedAccountUsable
  BY DEF UsableInv
<1> QED
  BY <1>1, UsableInvInit, UsableInvStep, PTL DEF LSpec

-----------------------------------------------------------------------------
(* What has ended stays ended *)

\* What one step may do to one lease.
Final(a, k) ==
  Active(a, k) =>
    /\ lease'[a][k].status \in {"EXPIRED", "REVOKED"} => ~ Schedulable(account'[a])
    /\ lease'[a][k].status = "ACTIVE" /\ lease'[a][k] # lease[a][k]
         => clock < lease[a][k].expires + MaxLag

\* A row that is under verification is not handed out.
LEMMA VerifyingNotSchedulable ==
  ASSUME NEW row, row.op = "VERIFYING"
  PROVE  ~ Schedulable(row)
  BY DEF Schedulable

\* An active lease that is revoked takes its account out of the pool with it, if
\* the command does not hand out an account that it finds under verification.
LEMMA RevocationIsFinal ==
  ASSUME Shapes, ActiveLeaseHoldsFence, NEW accs, NEW b \in Accounts, NEW k \in Tokens,
         lease' = RevokedLeases(accs),
         b \in accs /\ FenceRevoked(accs)[b].op = "VERIFYING" => ~ Schedulable(account'[b])
  PROVE  Final(b, k)
<1> SUFFICES ASSUME Active(b, k) PROVE Final(b, k)
  BY DEF Final
<1>1. CASE b \notin accs
  <2>1. lease'[b][k] = lease[b][k] /\ lease[b][k].status = "ACTIVE"
    BY <1>1, RevokedLeasesStatus DEF Shapes, Active
  <2> QED
    BY <2>1 DEF Final
<1>2. CASE b \in accs
  <2>1. FenceRevoked(accs)[b] = FencedOff(account[b])
    BY <1>2 DEF FenceRevoked, ActiveLeaseHoldsFence
  <2>2. FencedOff(account[b]).op = "VERIFYING"
    BY DEF Shapes, AccountShape, FencedOff
  <2>3. lease'[b][k].status # "ACTIVE"
    BY <1>2, RevokedLeasesStatus DEF Shapes
  <2> QED
    BY <1>2, <2>1, <2>2, <2>3 DEF Final
<1> QED
  BY <1>1, <1>2

\* A lease that is reaped leaves its account under verification.
LEMMA ReapingIsFinal ==
  ASSUME Shapes, ActiveLeaseHoldsFence, NEW now \in Nat, NEW batch,
         NEW b \in Accounts, NEW k \in Tokens,
         lease'[b] = Reaped(batch)[b], account'[b] = Cleaned(now, batch)[b]
  PROVE  Final(b, k)
<1> SUFFICES ASSUME Active(b, k) PROVE Final(b, k)
  BY DEF Final
<1>1. CASE <<b, k>> \in batch
  <2>1. k = account[b].epoch
    BY DEF ActiveLeaseHoldsFence, FenceMatches
  <2>2. account'[b] = Reverified(Restored(b, now))
    BY <1>1, <2>1 DEF Cleaned
  <2>3. account'[b].op = "VERIFYING"
    BY <2>2, RestoredRows DEF Reverified, Shapes, AccountShape
  <2>4. lease'[b][k].status # "ACTIVE"
    BY <1>1, ReapedStatus DEF Shapes
  <2> QED
    BY <2>3, <2>4, VerifyingNotSchedulable DEF Final
<1>2. CASE <<b, k>> \notin batch
  <2>1. lease'[b][k] = lease[b][k] /\ lease[b][k].status = "ACTIVE"
    BY <1>2 DEF Reaped, Active
  <2> QED
    BY <2>1 DEF Final
<1> QED
  BY <1>1, <1>2

\* No transaction renews what has run out, and each that ends a lease in
\* disorder says so of its account.
LEMMA FinalStep ==
  ASSUME LTypeOK, ActiveLeaseHoldsFence, LNext, NEW b \in Accounts, NEW k \in Tokens
  PROVE  Final(b, k)
<1>0. Shapes
  BY TypeGivesShapes
<1>a. ASSUME lease'[b][k] = lease[b][k] PROVE Final(b, k)
  BY <1>a DEF Final, Active
<1>1. CASE Tick
  BY <1>1, <1>a DEF Tick
<1>2. ASSUME NEW a \in Accounts, Acquire(a) PROVE Final(b, k)
  <2>1. PICK now \in Now : \E batch \in ReapBatches(now) : \E row :
          /\ Leasable(Cleaned(now, batch)[a], Reaped(batch)[a], ScopesOf[a], now)
          /\ lease' = [Reaped(batch) EXCEPT ![a][Cleaned(now, batch)[a].epoch + 1] = row]
          /\ account' = [Cleaned(now, batch) EXCEPT
                           ![a].epoch = Cleaned(now, batch)[a].epoch + 1, ![a].revision = @ + 1]
    BY <1>2, Zenon DEF Acquire
  <2>2. PICK batch, row :
          /\ batch \in ReapBatches(now)
          /\ Leasable(Cleaned(now, batch)[a], Reaped(batch)[a], ScopesOf[a], now)
          /\ lease' = [Reaped(batch) EXCEPT ![a][Cleaned(now, batch)[a].epoch + 1] = row]
          /\ account' = [Cleaned(now, batch) EXCEPT
                           ![a].epoch = Cleaned(now, batch)[a].epoch + 1, ![a].revision = @ + 1]
    BY <2>1, Zenon
  <2>3. now \in Nat
    BY DEF Now
  <2>4. Cleaned(now, batch) \in [Accounts -> AccountShape] /\ Reaped(batch) \in LeaseTables
    BY <1>0, <2>3, CleanedRows, ReapedType DEF Shapes, Cleaned
  <2>5. CASE a # b
    <3>1. lease'[b] = Reaped(batch)[b] /\ account'[b] = Cleaned(now, batch)[b]
      BY <2>2, <2>4, <2>5 DEF LeaseTables
    <3> QED
      BY <1>0, <2>3, <3>1, ReapingIsFinal
  <2>6. CASE a = b
    <3>1. ASSUME Active(a, k) PROVE FALSE
      <4>1. k = account[a].epoch
        BY <3>1 DEF ActiveLeaseHoldsFence, FenceMatches
      <4>2. Reaped(batch)[a][k].status # "ACTIVE"
        BY <2>2 DEF Leasable
      <4>3. <<a, account[a].epoch>> \in batch
        BY <1>0, <3>1, <4>1, <4>2, ReapedStatus DEF Shapes
      <4>4. Cleaned(now, batch)[a] = Reverified(Restored(a, now))
        BY <4>3 DEF Cleaned
      <4>5. Reverified(Restored(a, now)).op # "READY"
        BY <1>0, <2>3, RestoredRows DEF Reverified, Shapes, AccountShape
      <4> QED
        BY <2>2, <4>4, <4>5 DEF Leasable
    <3> QED
      BY <2>6, <3>1 DEF Final
  <2> QED
    BY <2>5, <2>6
<1>3. CASE ReapExpired
  <2>1. PICK now \in Now : \E batch \in ReapBatches(now) :
          account' = Cleaned(now, batch) /\ lease' = Reaped(batch)
    BY <1>3 DEF ReapExpired, ReapExpiredAt
  <2> QED
    BY <1>0, <2>1, ReapingIsFinal DEF Now
<1>4. ASSUME NEW a \in Accounts, NEW l \in Tokens, NEW now \in Now, ExpireLocked(a, l, now)
      PROVE  Final(b, k)
  <2>1. CASE <<a, l>> # <<b, k>>
    <3>1. lease'[b][k] = lease[b][k]
      BY <1>0, <1>4, <2>1 DEF ExpireLocked, Shapes, LeaseTables
    <3> QED
      BY <1>a, <3>1
  <2>2. CASE a = b /\ l = k
    <3>1. FenceMatches(b, k)
      BY <1>4, <2>2 DEF ExpireLocked, Expired, ActiveLeaseHoldsFence
    <3>2. account'[b] = Reverified(account[b])
      BY <1>0, <1>4, <2>2, <3>1 DEF ExpireLocked, Shapes
    <3>3. account'[b].op = "VERIFYING"
      BY <1>0, <3>2 DEF Reverified, Shapes, AccountShape
    <3>4. lease'[b][k].status = "EXPIRED"
      BY <1>0, <1>4, <2>2 DEF ExpireLocked, Shapes, LeaseTables, LeaseRow
    <3> QED
      BY <3>3, <3>4, VerifyingNotSchedulable DEF Final
  <2> QED
    BY <2>1, <2>2
<1>5. ASSUME NEW a \in Accounts, NEW l \in Tokens, Heartbeat(a, l) PROVE Final(b, k)
  <2>1. ASSUME NEW now \in Now, NEW e, Authorized(a, l, now),
               lease' = [lease EXCEPT ![a][l].expires = e]
        PROVE  Final(b, k)
    <3>1. CASE <<a, l>> # <<b, k>>
      <4>1. lease'[b][k] = lease[b][k]
        BY <1>0, <2>1, <3>1 DEF Shapes, LeaseTables
      <4> QED
        BY <1>a, <4>1
    <3>2. CASE a = b /\ l = k
      <4>1. lease[b][k].status = "ACTIVE" /\ now < lease[b][k].expires
        <5>1. lease[b][k].expires \in Nat /\ now \in Nat
          BY <1>0 DEF Shapes, LeaseTables, LeaseRow, Now
        <5> QED
          BY <2>1, <3>2, <5>1 DEF Authorized, Expired, Active
      <4>2. lease[b][k].expires \in Nat /\ clock \in Nat /\ now \in Nat /\ clock <= now + MaxLag
        BY <1>0, TimeAssumption DEF Shapes, LeaseTables, LeaseRow, Now, LTypeOK
      <4>3. clock < lease[b][k].expires + MaxLag
        BY <4>1, <4>2, TimeAssumption
      <4>4. lease'[b][k].status = "ACTIVE"
        BY <1>0, <2>1, <3>2, <4>1 DEF Shapes, LeaseTables, LeaseRow
      <4> QED
        BY <4>3, <4>4 DEF Final
    <3> QED
      BY <3>1, <3>2
  <2> QED
    BY <1>4, <1>5, <2>1 DEF Heartbeat
<1>6. ASSUME NEW a \in Accounts, NEW l \in Tokens, Release(a, l) PROVE Final(b, k)
  <2>1. ASSUME lease' = [lease EXCEPT ![a][l].status = "RELEASED"] PROVE Final(b, k)
    <3>1. CASE <<a, l>> # <<b, k>>
      <4>1. lease'[b][k] = lease[b][k]
        BY <1>0, <2>1, <3>1 DEF Shapes, LeaseTables
      <4> QED
        BY <1>a, <4>1
    <3>2. CASE a = b /\ l = k
      <4>1. lease'[b][k].status = "RELEASED"
        BY <1>0, <2>1, <3>2 DEF Shapes, LeaseTables, LeaseRow
      <4> QED
        BY <4>1 DEF Final
    <3> QED
      BY <3>1, <3>2
  <2> QED
    BY <1>4, <1>6, <2>1 DEF Release
<1>7. ASSUME NEW a \in Accounts, UpdateAccount(a) PROVE Final(b, k)
  <2>1. PICK asked \in LifecycleMoves[account[a].lifecycle] \cup {account[a].lifecycle, "KEEP"},
             c \in Connectors :
          LET rebound == c # account[a].connector
              evicted == IF EndsUse(asked) \/ rebound THEN {a} ELSE {}
              moved == [FenceRevoked(evicted)[a] EXCEPT
                          !.lifecycle = LifecycleAfter(account[a], asked), !.revision = @ + 1]
          IN /\ lease' = RevokedLeases(evicted)
             /\ account' = [account EXCEPT ![a] = IF rebound THEN Rebound(moved, c) ELSE moved]
    BY <1>7 DEF UpdateAccount
  <2> DEFINE evicted == IF EndsUse(asked) \/ c # account[a].connector THEN {a} ELSE {}
             moved == [FenceRevoked(evicted)[a] EXCEPT
                         !.lifecycle = LifecycleAfter(account[a], asked), !.revision = @ + 1]
  <2>2. FenceRevoked(evicted)[a] \in AccountShape
    BY <1>0, FenceRevokedRows DEF Shapes
  <2>3. moved.op = FenceRevoked(evicted)[a].op
    BY <2>2 DEF AccountShape
  <2>4. Rebound(moved, c).op = "VERIFYING"
    BY <2>2 DEF Rebound, AccountShape
  <2>5. lease' = RevokedLeases(evicted) /\ (b \in evicted => b = a)
    BY <2>1
  <2>6. b = a /\ FenceRevoked(evicted)[b].op = "VERIFYING" => account'[b].op = "VERIFYING"
    BY <1>0, <2>1, <2>3, <2>4 DEF Shapes
  <2> HIDE DEF evicted, moved
  <2> QED
    BY <1>0, <2>5, <2>6, RevocationIsFinal, VerifyingNotSchedulable
<1>8. ASSUME NEW a \in Accounts, QuarantineAccount(a) PROVE Final(b, k)
  <2>1. FenceRevoked({a})[a] \in AccountShape
    BY <1>0, FenceRevokedRows DEF Shapes
  <2>2. b \in {a} /\ FenceRevoked({a})[b].op = "VERIFYING" => account'[b].op = "VERIFYING"
    BY <1>0, <1>8, <2>1 DEF QuarantineAccount, Shapes, AccountShape
  <2> QED
    BY <1>0, <1>8, <2>2, RevocationIsFinal, VerifyingNotSchedulable DEF QuarantineAccount
<1>9. ASSUME NEW a \in Accounts, RestoreAccount(a) PROVE Final(b, k)
  BY <1>9, <1>a DEF RestoreAccount
<1>10. ASSUME NEW s \in Scopes, UpdateScope(s) PROVE Final(b, k)
  <2>1. PICK members : lease' = RevokedLeases(members) /\ account' = FenceRevoked(members)
    BY <1>10 DEF UpdateScope
  <2> QED
    BY <1>0, <2>1, RevocationIsFinal, VerifyingNotSchedulable
<1>11. ASSUME NEW c \in Connectors, NEW status, NEW config, InstallConnector(c, status, config)
       PROVE  Final(b, k)
  <2>1. PICK dependents \in SUBSET Accounts :
          /\ lease' = RevokedLeases(dependents)
          /\ account' = [a \in Accounts |-> IF a \in dependents
                           THEN Invalidated(FenceRevoked(dependents)[a]) ELSE account[a]]
    BY <1>11 DEF InstallConnector
  <2>2. FenceRevoked(dependents)[b] \in AccountShape
    BY <1>0, FenceRevokedRows DEF Shapes
  <2>3. FenceRevoked(dependents)[b].op = "VERIFYING" =>
          Invalidated(FenceRevoked(dependents)[b]).op = "VERIFYING"
    BY <2>2 DEF Invalidated, AccountShape
  <2> QED
    BY <1>0, <2>1, <2>3, RevocationIsFinal, VerifyingNotSchedulable
<1>12. ASSUME NEW c \in Connectors, UpdateConnector(c) PROVE Final(b, k)
  BY <1>11, <1>12 DEF UpdateConnector
<1>13. ASSUME NEW c \in Connectors, ValidateConnector(c) PROVE Final(b, k)
  BY <1>11, <1>13 DEF ValidateConnector
<1> QED
  BY <1>1, <1>2, <1>3, <1>5, <1>6, <1>7, <1>8, <1>9, <1>10, <1>12, <1>13 DEF LNext

\* A lease that ran out or was revoked leaves its account unschedulable, in the
\* step that ends it, and no heartbeat revives it later than a clock sample is old.
THEOREM FinalEnds == LSpec => EndsAreFinal
<1>1. FenceInv /\ [LNext]_leaseVars =>
        [\A a \in Accounts, k \in Tokens : Final(a, k)]_leaseVars
  BY FinalStep DEF FenceInv
<1>2. [\A a \in Accounts, k \in Tokens : Final(a, k)]_leaseVars =>
        /\ [\A a \in Accounts, k \in Tokens :
              /\ Active(a, k)
              /\ lease'[a][k].status \in {"EXPIRED", "REVOKED"}
              => ~ Schedulable(account'[a])]_leaseVars
        /\ [\A a \in Accounts, k \in Tokens :
              /\ Active(a, k)
              /\ lease'[a][k].status = "ACTIVE"
              /\ lease'[a][k] # lease[a][k]
              => clock < lease[a][k].expires + MaxLag]_leaseVars
  BY DEF Final
<1> QED
  BY <1>1, <1>2, FenceInvInit, FenceInvStep, PTL
     DEF LSpec, EndsAreFinal, UncleanEndDisablesAccount, NoLateRenewal

-----------------------------------------------------------------------------
(* What a step does to an account row, seen by those who remember the row *)

\* The row keeps its revision only if it is left alone, and a free account is
\* not handed out under the same revision.
Revised(b) ==
  /\ account'[b] = account[b] \/ account'[b].revision > account[b].revision
  /\ Held(b)' /\ ~ Held(b) => account'[b].revision > account[b].revision

\* Health is never improved, a healthy row keeps the configuration it was
\* verified under, and what was not to be handed out is still not.
Unimproved(b) ==
  /\ account'[b].health = "HEALTHY" =>
       /\ account[b].health = "HEALTHY"
       /\ account'[b].connector = account[b].connector
       /\ connector'[account[b].connector].config = connector[account[b].connector].config
  /\ Schedulable(account'[b]) => Schedulable(account[b])

\* A holder keeps the connector it was given, and a healthy one its state.
HolderKept(b) ==
  Held(b) /\ Held(b)' =>
    /\ account'[b].connector = account[b].connector
    /\ account'[b].health = "HEALTHY" => account'[b].op = account[b].op

\* A healthy account that is held is READY: it cools down only when released.
HeldReady ==
  \A a \in Accounts : Held(a) /\ account[a].health = "HEALTHY" => account[a].op = "READY"

\* One row and what a step makes of it.
Quiet(old, new) ==
  /\ new = old \/ new.revision > old.revision
  /\ new.health = "HEALTHY" => old.health = "HEALTHY" /\ new.connector = old.connector
  /\ Schedulable(new) => Schedulable(old)

\* Two quiet writes are one, if the row that is written is a row.
LEMMA QuietTwice ==
  ASSUME NEW old \in AccountShape, NEW mid \in AccountShape, NEW new \in AccountShape,
         Quiet(old, mid), Quiet(mid, new)
  PROVE  Quiet(old, new)
<1>1. old.revision \in Nat /\ mid.revision \in Nat /\ new.revision \in Nat
  BY DEF AccountShape
<1> QED
  BY <1>1 DEF Quiet

\* The helpers that fence off, verify again and clean up are quiet.
LEMMA QuietHelpers ==
  ASSUME NEW row \in AccountShape
  PROVE  /\ Quiet(row, row)
         /\ Quiet(row, Reverified(row)) /\ Quiet(row, FencedOff(row))
         /\ Invalidated(row) \in AccountShape /\ Quiet(row, Invalidated(row))
         /\ Invalidated(row).health # "HEALTHY"
         /\ Reverified(row).connector = row.connector
         /\ FencedOff(row).connector = row.connector
<1>1. row.revision \in Nat /\ row.revision + 1 > row.revision
  BY DEF AccountShape
<1>2. Quiet(row, row)
  BY DEF Quiet
<1>3. Quiet(row, Reverified(row)) /\ Reverified(row).connector = row.connector
  BY <1>1 DEF Quiet, Reverified, AccountShape, Schedulable
<1>4. Quiet(row, FencedOff(row)) /\ FencedOff(row).connector = row.connector
  BY <1>1 DEF Quiet, FencedOff, AccountShape, Schedulable
<1>5. Invalidated(row) \in AccountShape
  BY Bumped DEF Invalidated, AccountShape, HealthStates, OperationalStates
<1>6. Quiet(row, Invalidated(row)) /\ Invalidated(row).health # "HEALTHY"
  <2>1. CASE Invalidated(row) = row
    <3>1. row.health \in {"UNKNOWN", "QUARANTINED"}
      BY <1>1, <2>1 DEF Invalidated, AccountShape
    <3> QED
      BY <1>2, <2>1, <3>1
  <2>2. CASE Invalidated(row) # row
    <3>1. Invalidated(row).revision = row.revision + 1
      BY <2>2 DEF Invalidated, AccountShape
    <3>2. Invalidated(row).health # "HEALTHY"
      BY <2>2 DEF Invalidated, AccountShape
    <3> QED
      BY <1>1, <3>1, <3>2 DEF Quiet, Schedulable
  <2> QED
    BY <2>1, <2>2
<1> QED
  BY <1>2, <1>3, <1>4, <1>5, <1>6

\* revoke_active is quiet on every account.
LEMMA QuietFence ==
  ASSUME Shapes, NEW accs, NEW b \in Accounts
  PROVE  /\ Quiet(account[b], FenceRevoked(accs)[b])
         /\ FenceRevoked(accs)[b].connector = account[b].connector
  BY FenceRevokedRows, QuietHelpers DEF Shapes

\* So is the reaper, and it does not touch who is still held after it.
LEMMA QuietReaper ==
  ASSUME Shapes, ActiveLeaseHoldsFence, HeldReady, NEW now \in Nat, NEW batch,
         NEW b \in Accounts
  PROVE  /\ Quiet(account[b], Cleaned(now, batch)[b])
         /\ Cleaned(now, batch)[b].connector = account[b].connector
         /\ lease'[b] = Reaped(batch)[b] /\ Held(b)' =>
              Held(b) /\ Cleaned(now, batch)[b] = account[b]
<1>0. account[b] \in AccountShape /\ account[b].revision \in Nat
  BY DEF Shapes, AccountShape
<1>1. Quiet(account[b], Restored(b, now)) /\ Restored(b, now).connector = account[b].connector
  <2>1. CASE CooledDown(b, now)
    <3>1. Schedulable(account[b])
      BY <2>1 DEF CooledDown, Schedulable
    <3>2. /\ Restored(b, now).revision = account[b].revision + 1
          /\ Restored(b, now).health = account[b].health
          /\ Restored(b, now).connector = account[b].connector
      BY <1>0, <2>1 DEF Restored, AccountShape
    <3> QED
      BY <1>0, <3>1, <3>2 DEF Quiet
  <2>2. CASE ~ CooledDown(b, now)
    BY <1>0, <2>2, QuietHelpers DEF Restored
  <2> QED
    BY <2>1, <2>2
<1>2. Restored(b, now) \in AccountShape /\ Cleaned(now, batch)[b] \in AccountShape
  BY RestoredRows, CleanedRows DEF Shapes
<1>3. /\ Quiet(account[b], Cleaned(now, batch)[b])
      /\ Cleaned(now, batch)[b].connector = account[b].connector
  <2>1. CASE Cleaned(now, batch)[b] = Restored(b, now)
    BY <1>1, <2>1
  <2>2. CASE Cleaned(now, batch)[b] = Reverified(Restored(b, now))
    BY <1>0, <1>1, <1>2, <2>2, QuietHelpers, QuietTwice
  <2> QED
    BY <2>1, <2>2, CleanedRows DEF Shapes
<1>4. ASSUME lease'[b] = Reaped(batch)[b], Held(b)'
      PROVE  Held(b) /\ Cleaned(now, batch)[b] = account[b]
  <2>1. PICK k \in Tokens : Active(b, k)'
    BY <1>4 DEF Held
  <2>2. Active(b, k) /\ <<b, k>> \notin batch
    BY <1>4, <2>1, ReapedStatus DEF Active, Shapes
  <2>3. Held(b) /\ k = account[b].epoch
    BY <2>2 DEF Held, ActiveLeaseHoldsFence, FenceMatches
  <2>4. Restored(b, now) = account[b]
    BY <2>3 DEF Restored, CooledDown, HeldReady
  <2> QED
    BY <2>2, <2>3, <2>4 DEF Cleaned
<1> QED
  BY <1>3, <1>4

\* What the three memories of a row need of a step.
Calm(b) == Revised(b) /\ Unimproved(b) /\ HolderKept(b)

\* A quiet write that hands out nothing is calm.
LEMMA QuietIsCalm ==
  ASSUME NEW b \in Accounts, Quiet(account[b], account'[b]),
         account[b].health = "HEALTHY" =>
           connector'[account[b].connector].config = connector[account[b].connector].config,
         Held(b)' => Held(b) /\ account'[b] = account[b]
  PROVE  Calm(b)
  BY DEF Calm, Revised, Unimproved, HolderKept, Quiet

\* A step that writes neither the account nor its lease is calm.
LEMMA StutterCalm ==
  ASSUME NEW b \in Accounts, account'[b] = account[b], Held(b)' => Held(b),
         UNCHANGED connector
  PROVE  Calm(b)
  BY DEF Calm, Revised, Unimproved, HolderKept

\* Every lease transaction is calm on every account.
LEMMA LeaseStepsCalm ==
  ASSUME FenceInv, HeldReady, LNext, NEW b \in Accounts
  PROVE  Calm(b)
<1>0. /\ Shapes /\ ActiveLeaseHoldsFence /\ LTypeOK
      /\ account[b] \in AccountShape /\ account[b].revision \in Nat
  BY TypeGivesShapes DEF FenceInv, Shapes, AccountShape
<1>1. CASE Tick
  BY <1>1, StutterCalm DEF Tick, Held, Active
<1>2. ASSUME NEW a \in Accounts, Acquire(a) PROVE Calm(b)
  <2>1. PICK now \in Now : \E batch \in ReapBatches(now) : \E row :
          /\ Leasable(Cleaned(now, batch)[a], Reaped(batch)[a], ScopesOf[a], now)
          /\ Cleaned(now, batch)[a].epoch + 1 \in Tokens
          /\ lease' = [Reaped(batch) EXCEPT ![a][Cleaned(now, batch)[a].epoch + 1] = row]
          /\ account' = [Cleaned(now, batch) EXCEPT
                           ![a].epoch = Cleaned(now, batch)[a].epoch + 1, ![a].revision = @ + 1]
          /\ UNCHANGED <<clock, scope, connector>>
          /\ WithinBounds'
    BY <1>2, Zenon DEF Acquire
  <2>2. PICK batch, row :
          /\ lease' = [Reaped(batch) EXCEPT ![a][Cleaned(now, batch)[a].epoch + 1] = row]
          /\ account' = [Cleaned(now, batch) EXCEPT
                           ![a].epoch = Cleaned(now, batch)[a].epoch + 1, ![a].revision = @ + 1]
          /\ UNCHANGED connector
    BY <2>1, Zenon
  <2>3. /\ now \in Nat
        /\ Cleaned(now, batch) \in [Accounts -> AccountShape]
        /\ Reaped(batch) \in LeaseTables
    BY <1>0, CleanedRows, ReapedType DEF Now, Shapes, Cleaned
  <2>4. CASE a # b
    <3>1. lease'[b] = Reaped(batch)[b] /\ account'[b] = Cleaned(now, batch)[b]
      BY <2>2, <2>3, <2>4 DEF LeaseTables
    <3> QED
      BY <1>0, <2>2, <2>3, <3>1, QuietReaper, QuietIsCalm
  <2>5. CASE a = b
    <3> DEFINE old == Cleaned(now, batch)[b]
    <3>1. Quiet(account[b], old) /\ old \in AccountShape /\ old.epoch = account[b].epoch
      BY <1>0, <2>3, QuietReaper, CleanedRows DEF Shapes
    <3> HIDE DEF old
    <3>2. /\ account'[b].revision = old.revision + 1
          /\ account'[b].health = old.health /\ account'[b].op = old.op
          /\ account'[b].connector = old.connector
          /\ account'[b].epoch = old.epoch + 1
      BY <2>2, <2>3, <2>5, <3>1 DEF AccountShape, old
    <3>3. account'[b].revision > account[b].revision
      <4>1. old.revision \in Nat
        BY <3>1 DEF AccountShape
      <4> QED
        BY <1>0, <3>1, <3>2, <4>1 DEF Quiet
    <3>4. ~ (Held(b) /\ Held(b)')
      <4>1. StepOf(b) /\ account[b].epoch \in Nat
        BY <1>0, StepKinds DEF AccountShape
      <4> QED
        BY <3>1, <3>2, <4>1
           DEF StepOf, KeptStep, EndedStep, RevokedStep, GrantedStep, ActiveTokens, Held
    <3> QED
      BY <2>2, <3>1, <3>2, <3>3, <3>4
         DEF Calm, Revised, Unimproved, HolderKept, Quiet, Schedulable
  <2> QED
    BY <2>4, <2>5
<1>3. CASE ReapExpired
  <2>1. PICK now \in Now : \E batch \in ReapBatches(now) :
          /\ account' = Cleaned(now, batch)
          /\ lease' = Reaped(batch)
          /\ UNCHANGED connector
    BY <1>3 DEF ReapExpired, ReapExpiredAt
  <2> QED
    BY <1>0, <2>1, QuietReaper, QuietIsCalm DEF Now
<1>4. ASSUME NEW a \in Accounts, NEW k \in Tokens, NEW now \in Now, ExpireLocked(a, k, now)
      PROVE  Calm(b)
  <2>1. Active(a, k) /\ lease' = [lease EXCEPT ![a][k].status = "EXPIRED"]
    BY <1>4 DEF ExpireLocked, Expired
  <2>2. "EXPIRED" \in LeaseStates \ {"ACTIVE"}
    BY DEF LeaseStates
  <2>3. Held(b)' => Held(b) /\ a # b
    BY <1>0, <2>1, <2>2, EndedNotHeld
  <2>4. a # b => account'[b] = account[b]
    BY <1>0, <1>4 DEF ExpireLocked, Shapes
  <2>5. Quiet(account[b], account'[b])
    BY <1>0, <1>4, QuietHelpers DEF ExpireLocked, Shapes
  <2>6. UNCHANGED connector
    BY <1>4 DEF ExpireLocked
  <2> QED
    BY <2>3, <2>4, <2>5, <2>6, QuietIsCalm
<1>5. ASSUME NEW a \in Accounts, NEW k \in Tokens, Heartbeat(a, k) PROVE Calm(b)
  <2>1. ASSUME NEW e, lease' = [lease EXCEPT ![a][k].expires = e],
               UNCHANGED <<account, scope, connector>>
        PROVE  Calm(b)
    <3>1. \A l \in Tokens : lease'[b][l].status = lease[b][l].status
      BY <1>0, <2>1 DEF Shapes, LeaseTables, LeaseRow
    <3> QED
      BY <2>1, <3>1, StutterCalm DEF Held, Active
  <2> QED
    BY <1>4, <1>5, <2>1 DEF Heartbeat
<1>6. ASSUME NEW a \in Accounts, NEW k \in Tokens, Release(a, k) PROVE Calm(b)
  <2>1. ASSUME NEW now \in Now, NEW cleanupFailed \in BOOLEAN, NEW cooldown \in Cooldowns,
               Authorized(a, k, now),
               lease' = [lease EXCEPT ![a][k].status = "RELEASED"],
               account' = [account EXCEPT ![a] = AfterRelease(@, cleanupFailed, cooldown, now)],
               UNCHANGED <<clock, scope, connector>>
        PROVE  Calm(b)
    <3>1. "RELEASED" \in LeaseStates \ {"ACTIVE"}
      BY DEF LeaseStates
    <3>2. Held(b)' => Held(b) /\ a # b
      BY <1>0, <2>1, <3>1, EndedNotHeld DEF Authorized
    <3>3. a # b => account'[b] = account[b]
      BY <1>0, <2>1 DEF Shapes
    <3>4. Quiet(account[b], account'[b])
      <4>1. CASE a # b
        BY <1>0, <3>3, <4>1, QuietHelpers
      <4>2. CASE a = b
        <5>1. account[b].health = "HEALTHY" => Schedulable(account[b])
          BY <2>1, <4>2 DEF Authorized, Held, HeldReady, Schedulable
        <5>2. account'[b] = AfterRelease(account[b], cleanupFailed, cooldown, now)
          BY <1>0, <2>1, <4>2 DEF Shapes
        <5>3. /\ account'[b].revision = account[b].revision + 1
              /\ account'[b].connector = account[b].connector
              /\ account'[b].health \in {account[b].health, "QUARANTINED"}
          BY <1>0, <5>2 DEF AfterRelease, AccountShape
        <5> QED
          BY <1>0, <5>1, <5>3 DEF Quiet, Schedulable
      <4> QED
        BY <4>1, <4>2
    <3> QED
      BY <2>1, <3>2, <3>3, <3>4, QuietIsCalm
  <2> QED
    BY <1>4, <1>6, <2>1 DEF Release

<1>7. ASSUME NEW a \in Accounts, UpdateAccount(a) PROVE Calm(b)
  <2>1. PICK asked \in LifecycleMoves[account[a].lifecycle] \cup {account[a].lifecycle, "KEEP"},
             c \in Connectors :
          LET rebound == c # account[a].connector
              evicted == IF EndsUse(asked) \/ rebound THEN {a} ELSE {}
              moved == [FenceRevoked(evicted)[a] EXCEPT
                          !.lifecycle = LifecycleAfter(account[a], asked), !.revision = @ + 1]
          IN /\ lease' = RevokedLeases(evicted)
             /\ account' = [account EXCEPT ![a] = IF rebound THEN Rebound(moved, c) ELSE moved]
             /\ UNCHANGED <<clock, scope, connector>>
    BY <1>7 DEF UpdateAccount
  <2> DEFINE evicted == IF EndsUse(asked) \/ c # account[a].connector THEN {a} ELSE {}
             fenced == FenceRevoked(evicted)[a]
             moved == [fenced EXCEPT !.lifecycle = LifecycleAfter(account[a], asked),
                                     !.revision = @ + 1]
  <2>2. Held(b)' => Held(b) /\ b \notin evicted
    BY <1>0, <2>1, RevokedNotHeld
  <2>3. CASE a # b
    <3>1. account'[b] = account[b]
      BY <1>0, <2>1, <2>3 DEF Shapes
    <3> QED
      BY <2>1, <2>2, <3>1, StutterCalm
  <2>4. CASE a = b
    <3>1. Quiet(account[b], fenced) /\ fenced.connector = account[b].connector
      BY <1>0, <2>4, QuietFence
    <3>2. fenced \in AccountShape
      BY <1>0, FenceRevokedRows DEF Shapes
    <3>3. account'[b] = IF c # account[b].connector THEN Rebound(moved, c) ELSE moved
      BY <1>0, <2>1, <2>4 DEF Shapes
    <3>4. b \notin evicted => c = account[b].connector /\ fenced = account[b]
      BY <1>0, <2>4, FenceRevokedRows DEF Shapes
    <3> HIDE DEF fenced, evicted
    <3>5. /\ moved.revision = fenced.revision + 1 /\ moved.health = fenced.health
          /\ moved.op = fenced.op /\ moved.connector = fenced.connector
          /\ Rebound(moved, c).revision = moved.revision
          /\ Rebound(moved, c).health # "HEALTHY"
      BY <3>2 DEF AccountShape, Rebound, HealthStates
    <3> HIDE DEF moved
    <3>6. account'[b].revision = fenced.revision + 1 /\ fenced.revision \in Nat
      BY <3>2, <3>3, <3>5 DEF AccountShape
    <3>7. account'[b].revision > account[b].revision
      BY <1>0, <3>1, <3>6 DEF Quiet
    <3>8. CASE c # account[b].connector
      BY <2>1, <2>2, <3>3, <3>4, <3>5, <3>7, <3>8
         DEF Calm, Revised, Unimproved, HolderKept, Schedulable
    <3>9. CASE c = account[b].connector
      BY <2>1, <2>2, <3>1, <3>3, <3>4, <3>5, <3>7, <3>9
         DEF Calm, Revised, Unimproved, HolderKept, Schedulable, Quiet
    <3> QED
      BY <3>8, <3>9
  <2> QED
    BY <2>3, <2>4
<1>8. ASSUME NEW a \in Accounts, QuarantineAccount(a) PROVE Calm(b)
  <2>1. Held(b)' => Held(b) /\ b # a
    BY <1>0, <1>8, RevokedNotHeld DEF QuarantineAccount
  <2>2. CASE a # b
    <3>1. account'[b] = account[b]
      BY <1>0, <1>8, <2>2 DEF QuarantineAccount, Shapes
    <3> QED
      BY <1>8, <2>1, <3>1, StutterCalm DEF QuarantineAccount
  <2>3. CASE a = b
    <3> DEFINE fenced == FenceRevoked({a})[a]
    <3>1. Quiet(account[b], fenced) /\ fenced \in AccountShape
      BY <1>0, <2>3, QuietFence, FenceRevokedRows DEF Shapes
    <3>2. account'[b] = IF account[b].health = "QUARANTINED" THEN fenced
            ELSE [fenced EXCEPT !.health = "QUARANTINED", !.op = "VERIFYING",
                                !.cooldownUntil = NoTime, !.revision = @ + 1]
      BY <1>0, <1>8, <2>3 DEF QuarantineAccount, Shapes
    <3> HIDE DEF fenced
    <3>3. Quiet(account[b], account'[b])
      <4>1. CASE account[b].health = "QUARANTINED"
        BY <3>1, <3>2, <4>1
      <4>2. CASE account[b].health # "QUARANTINED"
        <5>1. /\ account'[b].revision = fenced.revision + 1 /\ fenced.revision \in Nat
              /\ account'[b].health = "QUARANTINED"
          BY <3>1, <3>2, <4>2 DEF AccountShape
        <5> QED
          BY <1>0, <3>1, <5>1 DEF Quiet, Schedulable
      <4> QED
        BY <4>1, <4>2
    <3> QED
      BY <1>8, <2>1, <2>3, <3>3, QuietIsCalm DEF QuarantineAccount
  <2> QED
    BY <2>2, <2>3
<1>9. ASSUME NEW a \in Accounts, RestoreAccount(a) PROVE Calm(b)
  <2>1. Held(b)' <=> Held(b)
    BY <1>9 DEF RestoreAccount, Held, Active
  <2>2. CASE a # b
    <3>1. account'[b] = account[b]
      BY <1>0, <1>9, <2>2 DEF RestoreAccount, Shapes
    <3> QED
      BY <1>9, <2>1, <3>1, StutterCalm DEF RestoreAccount
  <2>3. CASE a = b
    <3>1. account'[b] = Unquarantined(account[b])
      BY <1>0, <1>9, <2>3 DEF RestoreAccount, Shapes
    <3>2. /\ account'[b].health = "UNKNOWN"
          /\ account'[b].revision = account[b].revision + 1
          /\ account'[b].connector = account[b].connector
      BY <1>0, <3>1 DEF Unquarantined, AccountShape
    <3> QED
      BY <1>0, <2>1, <3>2 DEF Calm, Revised, Unimproved, HolderKept, Schedulable
  <2> QED
    BY <2>2, <2>3
<1>10. ASSUME NEW s \in Scopes, UpdateScope(s) PROVE Calm(b)
  <2>1. PICK members :
          /\ lease' = RevokedLeases(members) /\ account' = FenceRevoked(members)
          /\ UNCHANGED connector
    BY <1>10 DEF UpdateScope
  <2>2. Held(b)' => Held(b) /\ account'[b] = account[b]
    BY <1>0, <2>1, RevokedNotHeld, FenceRevokedRows DEF Shapes
  <2> QED
    BY <1>0, <2>1, <2>2, QuietFence, QuietIsCalm
<1>11. ASSUME NEW c \in Connectors, NEW status, NEW config, InstallConnector(c, status, config)
       PROVE  Calm(b)
  <2> DEFINE row == [status |-> status, config |-> config, revision |-> connector[c].revision + 1]
             dependents == IF RequiresRevocation(connector[c], row)
                             THEN {a \in Accounts : account[a].connector = c} ELSE {}
  <2>1. /\ connector' = [connector EXCEPT ![c] = row]
        /\ lease' = RevokedLeases(dependents)
        /\ account' = [a \in Accounts |-> IF a \in dependents
                         THEN Invalidated(FenceRevoked(dependents)[a]) ELSE account[a]]
    BY <1>11 DEF InstallConnector
  <2>2. Held(b)' => Held(b) /\ b \notin dependents
    BY <1>0, <2>1, RevokedNotHeld
  <2>3. CASE b \in dependents
    <3> DEFINE fenced == FenceRevoked(dependents)[b]
    <3>1. fenced \in AccountShape /\ Quiet(account[b], fenced)
      BY <1>0, FenceRevokedRows, QuietFence DEF Shapes
    <3>2. account'[b] = Invalidated(fenced)
      BY <2>1, <2>3
    <3> HIDE DEF fenced
    <3>3. Quiet(account[b], account'[b]) /\ account'[b].health # "HEALTHY"
      BY <1>0, <3>1, <3>2, QuietHelpers, QuietTwice
    <3> QED
      BY <2>2, <2>3, <3>3 DEF Calm, Revised, Unimproved, HolderKept, Quiet
  <2>4. CASE b \notin dependents
    <3>1. account'[b] = account[b]
      BY <2>1, <2>4
    <3>2. connector'[account[b].connector].config = connector[account[b].connector].config
      <4>1. CASE account[b].connector # c
        BY <1>0, <2>1, <4>1 DEF Shapes, AccountShape
      <4>2. CASE account[b].connector = c
        <5>1. connector[c].config = config
          BY <2>4, <4>2 DEF RequiresRevocation
        <5> QED
          BY <1>0, <2>1, <4>2, <5>1 DEF Shapes
      <4> QED
        BY <4>1, <4>2
    <3> QED
      BY <1>0, <2>2, <3>1, <3>2, QuietHelpers, QuietIsCalm
  <2> QED
    BY <2>3, <2>4
<1>12. ASSUME NEW c \in Connectors, UpdateConnector(c) PROVE Calm(b)
  BY <1>11, <1>12 DEF UpdateConnector
<1>13. ASSUME NEW c \in Connectors, ValidateConnector(c) PROVE Calm(b)
  BY <1>11, <1>13 DEF ValidateConnector
<1> QED
  BY <1>1, <1>2, <1>3, <1>5, <1>6, <1>7, <1>8, <1>9, <1>10, <1>12, <1>13 DEF LNext

-----------------------------------------------------------------------------
(* The other steps, as they write accounts and leases *)

\* A connector row changes only under a new revision.
ConnectorRevised(c) ==
  connector'[c] = connector[c] \/ connector'[c].revision > connector[c].revision

\* No lease transaction changes a connector under its old revision.
LEMMA ConnectorSteps ==
  ASSUME LTypeOK, [LNext]_leaseVars, NEW c \in Connectors
  PROVE  ConnectorRevised(c)
<1>0. /\ connector \in [Connectors -> ConnectorShape]
      /\ connector[c].revision \in Nat
  BY TypeGivesShapes DEF Shapes, ConnectorShape
<1>1. CASE UNCHANGED connector
  BY <1>1 DEF ConnectorRevised
<1>2. ASSUME NEW d \in Connectors, NEW status, NEW config, InstallConnector(d, status, config)
      PROVE  ConnectorRevised(c)
  <2>1. connector' = [connector EXCEPT ![d] =
          [status |-> status, config |-> config, revision |-> connector[d].revision + 1]]
    BY <1>2 DEF InstallConnector
  <2> QED
    BY <1>0, <2>1 DEF ConnectorRevised
<1>3. ASSUME NEW d \in Connectors, UpdateConnector(d) \/ ValidateConnector(d)
      PROVE  ConnectorRevised(c)
  BY <1>2, <1>3 DEF UpdateConnector, ValidateConnector
<1>4. ASSUME ~ UNCHANGED connector
      PROVE  \E d \in Connectors : UpdateConnector(d) \/ ValidateConnector(d)
  <2>1. Tick \/ ReapExpired => UNCHANGED connector
    BY DEF Tick, ReapExpired, ReapExpiredAt
  <2>2. ASSUME NEW a \in Accounts, Acquire(a) PROVE UNCHANGED connector
    <3>1. \E now \in Now : \E batch \in ReapBatches(now) : UNCHANGED <<clock, scope, connector>>
      BY <2>2, Zenon DEF Acquire
    <3> QED
      BY <3>1
  <2>3. \A a \in Accounts, k \in Tokens : Heartbeat(a, k) \/ Release(a, k) => UNCHANGED connector
    BY Zenon DEF Heartbeat, Release, ExpireLocked
  <2>4. \A a \in Accounts : UpdateAccount(a) => UNCHANGED connector
    BY DEF UpdateAccount
  <2>5. \A a \in Accounts : QuarantineAccount(a) \/ RestoreAccount(a) => UNCHANGED connector
    BY DEF QuarantineAccount, RestoreAccount
  <2>6. \A s \in Scopes : UpdateScope(s) => UNCHANGED connector
    BY DEF UpdateScope
  <2> QED
    BY <1>4, <2>1, <2>2, <2>3, <2>4, <2>5, <2>6 DEF leaseVars, LNext
<1> QED
  BY <1>1, <1>3, <1>4

\* One account row is written and no lease: a stage of a verification, or the
\* report of a failed login.
RowWritten(a, row) ==
  /\ row \in AccountShape
  /\ row.epoch = account[a].epoch
  /\ row.revision > account[a].revision
  /\ row.connector = account[a].connector
  /\ account' = [account EXCEPT ![a] = row]
  /\ UNCHANGED <<clock, lease, scope, connector>>
  /\ WithinBounds'

\* A failed login that finds a lease: the account is fenced, and its row may
\* be written again.
Evicted(a) ==
  /\ lease' = RevokedLeases({a})
  /\ \/ account' = FenceRevoked({a})
     \/ \E row \in AccountShape :
          /\ row.epoch = FenceRevoked({a})[a].epoch
          /\ row.revision > FenceRevoked({a})[a].revision
          /\ row.health # "HEALTHY"
          /\ account' = [FenceRevoked({a}) EXCEPT ![a] = row]
  /\ UNCHANGED <<clock, scope, connector>>
  /\ WithinBounds'

\* Writing the row of an account keeps types, fence, and the leases as they are.
LEMMA RowWrittenKeeps ==
  ASSUME FenceInv, NEW a \in Accounts, NEW row, RowWritten(a, row)
  PROVE  /\ LTypeOK' /\ \A b \in Accounts : StepOf(b)
         /\ \A b \in Accounts : Held(b)' <=> Held(b)
         /\ \A b \in Accounts, k \in Tokens : Active(b, k)' <=> Active(b, k)
<1>1. Shapes /\ LTypeOK
  BY TypeGivesShapes DEF FenceInv
<1>2. LTypeOK'
  <2>1. Shapes'
    BY <1>1 DEF RowWritten, Shapes, LeaseTables
  <2> QED
    BY <1>1, <2>1, TypeFromShapes DEF RowWritten, LTypeOK
<1>3. \A b \in Accounts : account'[b].epoch = account[b].epoch
  BY <1>1 DEF RowWritten, Shapes
<1>4. \A b \in Accounts, k \in Tokens : Active(b, k)' <=> Active(b, k)
  BY DEF RowWritten, Active
<1> QED
  BY <1>2, <1>3, <1>4 DEF StepOf, KeptStep, ActiveTokens, Held

\* Evicting the holder of an account keeps types and fence, and is calm.
LEMMA EvictedKeeps ==
  ASSUME FenceInv, NEW a \in Accounts, Evicted(a)
  PROVE  /\ LTypeOK' /\ \A b \in Accounts : StepOf(b) /\ Calm(b)
         /\ \A b \in Accounts : Held(b)' => Held(b) /\ b # a /\ account'[b] = account[b]
<1>1. Shapes /\ LTypeOK /\ ActiveLeaseHoldsFence
  BY TypeGivesShapes DEF FenceInv
<1>2. \A b \in Accounts : /\ FenceRevoked({a})[b] \in AccountShape
                          /\ b # a => FenceRevoked({a})[b] = account[b]
                          /\ Quiet(account[b], FenceRevoked({a})[b])
                          /\ account[b].revision \in Nat
                          /\ FenceRevoked({a})[b].revision \in Nat
  BY <1>1, FenceRevokedRows, QuietFence DEF Shapes, AccountShape
<1>3. FenceRevoked({a}) \in [Accounts -> AccountShape]
  BY <1>2 DEF FenceRevoked
<1>4. ASSUME NEW b \in Accounts
      PROVE  /\ account'[b] \in AccountShape
             /\ account'[b].epoch = FenceRevoked({a})[b].epoch
             /\ Quiet(account[b], account'[b])
             /\ b # a => account'[b] = account[b]
  <2>1. CASE account' = FenceRevoked({a})
    BY <1>2, <2>1
  <2>2. ASSUME NEW row \in AccountShape,
               row.epoch = FenceRevoked({a})[a].epoch,
               row.revision > FenceRevoked({a})[a].revision,
               row.health # "HEALTHY",
               account' = [FenceRevoked({a}) EXCEPT ![a] = row]
        PROVE  /\ account'[b] \in AccountShape
               /\ account'[b].epoch = FenceRevoked({a})[b].epoch
               /\ Quiet(account[b], account'[b])
               /\ b # a => account'[b] = account[b]
    <3>1. CASE b # a
      BY <1>2, <1>3, <2>2, <3>1
    <3>2. CASE b = a
      <4>1. account'[b] = row
        BY <1>3, <2>2, <3>2
      <4>2. row.revision > account[a].revision
        <5>1. row.revision \in Nat
          BY DEF AccountShape
        <5> QED
          BY <1>2, <2>2, <5>1 DEF Quiet
      <4> QED
        BY <2>2, <3>2, <4>1, <4>2 DEF Quiet, Schedulable
    <3> QED
      BY <3>1, <3>2
  <2> QED
    BY <2>1, <2>2 DEF Evicted
<1>5. \A b \in Accounts : Held(b)' => Held(b) /\ b # a
  BY <1>1, RevokedNotHeld DEF Evicted
<1>6. LTypeOK'
  <2>1. account' \in [Accounts -> AccountShape]
    BY <1>3, <1>4 DEF Evicted
  <2>2. Shapes'
    BY <1>1, <2>1, RevokedLeasesType DEF Evicted, Shapes
  <2> QED
    BY <1>1, <2>2, TypeFromShapes DEF Evicted, LTypeOK
<1>7. \A b \in Accounts : StepOf(b)
  BY <1>1, <1>4, RevocationSteps DEF Evicted
<1>8. \A b \in Accounts : Calm(b)
  BY <1>4, <1>5, QuietIsCalm DEF Evicted
<1> QED
  BY <1>4, <1>5, <1>6, <1>7, <1>8

-----------------------------------------------------------------------------
(* The kinds of steps *)

\* Checks that are RUNNING after the step were so before, and no login succeeds.
ChecksKept ==
  /\ \A i \in CheckIds : Running(i)' => Running(i) /\ check'[i] = check[i]
  /\ UNCHANGED verified

LeasesStep == [LNext]_leaseVars /\ ChecksKept

\* The two stages of a verification that the checks themselves notice ...
Started(a, id) ==
  /\ StartVerify(a, id)
  /\ RowWritten(a, [account[a] EXCEPT !.op = "VERIFYING", !.cooldownUntil = NoTime,
                                      !.revision = @ + 1])
Passed(id) ==
  /\ FinalizeSuccess(id)
  /\ RowWritten(check[id].account, AfterSuccess(account[check[id].account]))

\* ... and a failure, of a verification or of a login that found no lease.
Failed(a) ==
  /\ ~ Held(a) \/ ReportsLate(a)
  /\ \E row : RowWritten(a, row) /\ row.health # "HEALTHY"
  /\ ChecksKept

Kinds ==
  \/ LeasesStep
  \/ \E a \in Accounts, id \in CheckIds : Started(a, id)
  \/ \E id \in CheckIds : Passed(id)
  \/ \E a \in Accounts : Failed(a)
  \/ \E a \in Accounts : Held(a) /\ Evicted(a) /\ ChecksKept

\* A check that runs, and a grant that was issued, have all their fields.
LEMMA RunningRow ==
  ASSUME HTypeOK, NEW i \in CheckIds, Running(i)
  PROVE  check[i] \in CheckRow
  BY DEF HTypeOK, Running

\* A grant that was issued once has a row of its own type.
LEMMA GrantedRow ==
  ASSUME GTypeOK, NEW g \in GrantIds, grant[g].status # "NONE"
  PROVE  grant[g] \in GrantRow
  BY DEF GTypeOK

\* Checks that are set aside run no more, the others are kept.
LEMMA StaleKept ==
  ASSUME HTypeOK, NEW ids, \A i \in ids \cap CheckIds : Running(i),
         check' = WithStale(ids), UNCHANGED verified
  PROVE  ChecksKept
<1>1. ASSUME NEW i \in CheckIds, Running(i)' PROVE Running(i) /\ check'[i] = check[i]
  <2>1. CASE i \in ids
    <3>1. check'[i] = [check[i] EXCEPT !.status = "STALE"] /\ check[i] \in CheckRow
      BY <2>1, RunningRow DEF WithStale
    <3>2. check'[i].status = "STALE"
      BY <3>1 DEF CheckRow
    <3> QED
      BY <1>1, <3>2 DEF Running
  <2>2. CASE i \notin ids
    BY <1>1, <2>2 DEF WithStale, Running
  <2> QED
    BY <2>1, <2>2
<1> QED
  BY <1>1 DEF ChecksKept

\* Checks whose window has closed are marked stale, all others are kept.
LEMMA StaleWindowsKept ==
  ASSUME HTypeOK, NEW a, NEW now, check' = WithStale(ClosedWindows(a, now)), UNCHANGED verified
  PROVE  ChecksKept
  BY StaleKept DEF ClosedWindows, RunningOn

\* decide_health_failure degrades or quarantines, under a new revision.
LEMMA FailureRow ==
  ASSUME NEW row \in AccountShape, NEW code \in FailureCodes,
         NEW retryCooldown \in RetryCooldowns, NEW now \in Nat
  PROVE  LET new == AfterFailure(row, code, retryCooldown, now)
         IN /\ new \in AccountShape
            /\ new.epoch = row.epoch /\ new.connector = row.connector
            /\ new.revision > row.revision
            /\ new.health # "HEALTHY"
<1> DEFINE failures == row.failures + (IF code = "INFRASTRUCTURE" THEN 0 ELSE 1)
           isolate  == code = "IMMEDIATE" \/ failures >= Threshold
           until == IF ~ isolate /\ retryCooldown > 0 THEN now + retryCooldown ELSE NoTime
           new == AfterFailure(row, code, retryCooldown, now)
<1>1. failures \in Nat /\ until \in Int /\ row.revision + 1 \in Nat \ {0}
  BY HealthAssumption DEF AccountShape, NoTime
<1>2. new = [row EXCEPT
        !.health = IF isolate THEN "QUARANTINED" ELSE "DEGRADED",
        !.op = IF ~ isolate /\ retryCooldown > 0 THEN "COOLDOWN" ELSE "VERIFYING",
        !.cooldownUntil = until, !.failures = failures, !.revision = @ + 1]
  BY DEF AfterFailure
<1> HIDE DEF failures, isolate, until, new
<1>3. /\ new \in AccountShape
      /\ new.epoch = row.epoch /\ new.connector = row.connector
      /\ new.revision = row.revision + 1
      /\ new.health # "HEALTHY"
  BY <1>1, <1>2 DEF AccountShape, HealthStates, OperationalStates
<1>4. row.revision \in Nat
  BY DEF AccountShape
<1> QED
  BY <1>3, <1>4 DEF new

\* A verification puts the row under verification, and a success makes it ready.
LEMMA StageRows ==
  ASSUME NEW row \in AccountShape
  PROVE  LET started == [row EXCEPT !.op = "VERIFYING", !.cooldownUntil = NoTime,
                                    !.revision = @ + 1]
             passed == AfterSuccess(row)
         IN /\ started \in AccountShape /\ passed \in AccountShape
            /\ started.epoch = row.epoch /\ passed.epoch = row.epoch
            /\ started.connector = row.connector /\ passed.connector = row.connector
            /\ started.revision = row.revision + 1 /\ passed.revision = row.revision + 1
            /\ started.health = row.health /\ started.op = "VERIFYING"
            /\ passed.health = "HEALTHY" /\ passed.op = "READY"
<1>1. row.revision + 1 \in Nat \ {0} /\ NoTime \in Int /\ 0 \in Nat
  BY Bumped
<1>2. "VERIFYING" \in OperationalStates /\ "READY" \in OperationalStates
      /\ "HEALTHY" \in HealthStates
  BY DEF OperationalStates, HealthStates
<1> QED
  BY <1>1, <1>2 DEF AccountShape, AfterSuccess

\* The start of a verification writes the row of its account.
LEMMA StartedWhenStarting ==
  ASSUME GTypeOK, NEW a \in Accounts, NEW id \in CheckIds, StartVerify(a, id)
  PROVE  Started(a, id)
<1>0. \A b \in Accounts : account[b] \in AccountShape /\ account[b].revision \in Nat
  BY TypeGivesShapes DEF GTypeOK, HTypeOK, Shapes, AccountShape
<1> DEFINE row == [account[a] EXCEPT !.op = "VERIFYING", !.cooldownUntil = NoTime,
                                     !.revision = @ + 1]
<1>1. /\ row \in AccountShape /\ row.epoch = account[a].epoch
      /\ row.revision > account[a].revision /\ row.connector = account[a].connector
  <2>1. account[a] \in AccountShape /\ account[a].revision \in Nat
    BY <1>0
  <2>2. /\ row \in AccountShape /\ row.epoch = account[a].epoch
        /\ row.revision = account[a].revision + 1 /\ row.connector = account[a].connector
    BY <2>1, StageRows, Zenon
  <2> HIDE DEF row
  <2> QED
    BY <2>1, <2>2
<1>2. /\ account' = [account EXCEPT ![a] = row]
      /\ UNCHANGED <<clock, lease, scope, connector>> /\ WithinBounds'
  BY DEF StartVerify
<1> HIDE DEF row
<1>3. RowWritten(a, row)
  BY <1>1, <1>2 DEF RowWritten
<1> QED
  BY <1>3 DEF row, Started

\* Every step is of one of the kinds.
LEMMA KindOfStep ==
  ASSUME GTypeOK, [GNext]_grantVars
  PROVE  Kinds
<1>0. /\ HTypeOK /\ LTypeOK /\ Shapes
      /\ account \in [Accounts -> AccountShape]
      /\ \A a \in Accounts : account[a] \in AccountShape /\ account[a].revision \in Nat
  BY TypeGivesShapes DEF GTypeOK, HTypeOK, Shapes, AccountShape
<1>a. ASSUME [LNext]_leaseVars, UNCHANGED healthVars PROVE Kinds
  BY <1>a DEF Kinds, LeasesStep, ChecksKept, healthVars, Running
<1>b. ASSUME NEW a \in Accounts, NEW k \in Tokens, NEW now \in Now, ExpireLocked(a, k, now),
             UNCHANGED healthVars
      PROVE  Kinds
  BY <1>a, <1>b DEF LNext, Heartbeat
<1>1. CASE UNCHANGED grantVars
  BY <1>1, <1>a DEF grantVars, leaseVars, healthVars
<1>2. CASE LNext /\ UNCHANGED healthVars
  BY <1>2, <1>a
<1>3. ASSUME NEW a \in Accounts, NEW id \in CheckIds, StartVerify(a, id) PROVE Kinds
  BY <1>3, StartedWhenStarting DEF Kinds
<1>4. ASSUME NEW id \in CheckIds, FinalizeStale(id) PROVE Kinds
  <2>1. Running(id) /\ check' = WithStale({id}) /\ UNCHANGED verified /\ UNCHANGED leaseVars
    BY <1>4 DEF FinalizeStale, leaseVars
  <2>2. ChecksKept
    BY <1>0, <2>1, StaleKept
  <2> QED
    BY <2>1, <2>2 DEF Kinds, LeasesStep
<1>5. ASSUME NEW id \in CheckIds, FinalizeSuccess(id) PROVE Kinds
  <2> DEFINE a == check[id].account
             row == AfterSuccess(account[a])
  <2>1. a \in Accounts
    BY <1>0, <1>5, RunningRow DEF FinalizeSuccess, CheckRow
  <2>2. /\ row \in AccountShape /\ row.epoch = account[a].epoch
        /\ row.revision > account[a].revision /\ row.connector = account[a].connector
    <3>1. account[a] \in AccountShape /\ account[a].revision \in Nat
      BY <1>0, <2>1
    <3>2. /\ row \in AccountShape /\ row.epoch = account[a].epoch
          /\ row.revision = account[a].revision + 1 /\ row.connector = account[a].connector
      BY <3>1, StageRows, Zenon
    <3> HIDE DEF row
    <3> QED
      BY <3>1, <3>2
  <2>3. /\ account' = [account EXCEPT ![a] = row]
        /\ UNCHANGED <<clock, lease, scope, connector>> /\ WithinBounds'
    BY <1>5 DEF FinalizeSuccess
  <2> HIDE DEF row
  <2>4. RowWritten(a, row)
    BY <2>2, <2>3 DEF RowWritten
  <2> QED
    BY <1>5, <2>4 DEF row, Kinds, Passed
<1>6. ASSUME NEW id \in CheckIds, FinalizeFailure(id) PROVE Kinds
  <2> DEFINE a == check[id].account
  <2>1. check[id] \in CheckRow /\ a \in Accounts /\ ~ Held(a)
    BY <1>0, <1>6, RunningRow DEF FinalizeFailure, CheckRow, SnapshotStale
  <2>2. PICK now \in Now, code \in FailureCodes, retryCooldown \in RetryCooldowns :
          /\ account' = [account EXCEPT ![a] = AfterFailure(@, code, retryCooldown, now)]
          /\ check' = [check EXCEPT ![id].status = "FAILED"]
          /\ UNCHANGED <<clock, lease, scope, connector, verified>>
          /\ WithinBounds'
    BY <1>6 DEF FinalizeFailure
  <2> DEFINE row == AfterFailure(account[a], code, retryCooldown, now)
  <2>3. /\ row \in AccountShape /\ row.epoch = account[a].epoch
        /\ row.revision > account[a].revision /\ row.connector = account[a].connector
        /\ row.health # "HEALTHY"
    BY <1>0, <2>1, FailureRow DEF Now
  <2>4. account' = [account EXCEPT ![a] = row]
    BY <2>2
  <2> HIDE DEF row
  <2>5. RowWritten(a, row)
    BY <2>2, <2>3, <2>4 DEF RowWritten
  <2>6. ChecksKept
    BY <1>0, <2>1, <2>2 DEF ChecksKept, Running, CheckRow, HTypeOK
  <2> QED
    BY <2>1, <2>3, <2>5, <2>6 DEF Kinds, Failed
<1>7. ASSUME NEW g \in GrantIds, NEW a \in Accounts, NEW k \in Tokens, Issue(g, a, k)
      PROVE  Kinds
  <2>1. UNCHANGED healthVars
    BY <1>7 DEF Issue
  <2>2. CASE UNCHANGED leaseVars
    BY <1>a, <2>1, <2>2
  <2>3. CASE \E now \in Now : ExpireLocked(a, k, now)
    BY <1>b, <2>1, <2>3
  <2> QED
    BY <1>7, <2>2, <2>3 DEF Issue, leaseVars
<1>8. ASSUME NEW g \in GrantIds, Redeem(g) PROVE Kinds
  <2>1. UNCHANGED healthVars /\ grant[g] \in GrantRow
    BY <1>8, GrantedRow DEF Redeem
  <2>2. CASE UNCHANGED leaseVars
    BY <1>a, <2>1, <2>2
  <2>3. CASE \E now \in Now : ExpireLocked(grant[g].account, grant[g].token, now)
    BY <1>b, <2>1, <2>3 DEF GrantRow
  <2> QED
    BY <1>8, <2>2, <2>3 DEF Redeem, leaseVars
<1>9. CASE ReapGrants
  BY <1>9, <1>a DEF ReapGrants, ReapExpired, LNext
<1>10. ASSUME NEW g \in GrantIds, LoginSucceeds(g) \/ LoginFailsUnleased(g) PROVE Kinds
  BY <1>10, <1>a DEF LoginSucceeds, LoginFailsUnleased, accountVars, leaseVars, healthVars
<1>11. ASSUME NEW g \in GrantIds, LoginFails(g) PROVE Kinds
  <2> DEFINE a == grant[g].account
             rows == FenceRevoked({a})
  <2>1. a \in Accounts
    BY <1>11, GrantedRow DEF LoginFails, Login, GrantRow
  <2>2. PICK now \in Now, code \in FailureCodes, retryCooldown \in RetryCooldowns :
          /\ check' \in {check, WithStale(ClosedWindows(a, now))}
          /\ account' \in {rows, [rows EXCEPT ![a] = AfterFailure(@, code, retryCooldown, now)]}
          /\ UNCHANGED <<clock, scope, connector, verified>>
          /\ WithinBounds'
    BY <1>11 DEF LoginFails, ApplyFailure
  <2>3. Held(a) /\ lease' = RevokedLeases({a})
    BY <1>11 DEF LoginFails
  <2>4. ChecksKept
    BY <1>0, <2>2, StaleWindowsKept DEF ChecksKept, Running
  <2>5. rows[a] \in AccountShape
    BY <1>0, <2>1, FenceRevokedRows
  <2> DEFINE row == AfterFailure(rows[a], code, retryCooldown, now)
  <2>6. /\ row \in AccountShape /\ row.epoch = rows[a].epoch
        /\ row.revision > rows[a].revision /\ row.health # "HEALTHY"
    BY <2>5, FailureRow DEF Now
  <2>7. account' = rows \/ account' = [rows EXCEPT ![a] = row]
    BY <2>2
  <2> HIDE DEF row, rows
  <2>8. \/ account' = rows
        \/ \E new \in AccountShape :
             /\ new.epoch = rows[a].epoch /\ new.revision > rows[a].revision
             /\ new.health # "HEALTHY"
             /\ account' = [rows EXCEPT ![a] = new]
    BY <2>6, <2>7
  <2>9. Evicted(a)
    BY <2>2, <2>3, <2>8 DEF Evicted, rows
  <2> QED
    BY <2>1, <2>3, <2>4, <2>9 DEF Kinds
<1>12. ASSUME NEW g \in GrantIds, ReportFailure(g) PROVE Kinds
  <2> DEFINE a == grant[g].account
  <2>1. grant[g] \in GrantRow /\ a \in Accounts
    BY <1>12, GrantedRow DEF ReportFailure, Login, GrantRow
  <2>2. PICK now \in Now, code \in FailureCodes, retryCooldown \in RetryCooldowns :
          /\ check' \in {check, WithStale(ClosedWindows(a, now))}
          /\ account' \in {account,
                           [account EXCEPT ![a] = AfterFailure(@, code, retryCooldown, now)]}
          /\ UNCHANGED <<clock, scope, connector, verified>>
          /\ WithinBounds'
    BY <1>12 DEF ReportFailure, ApplyFailure
  <2>3. UNCHANGED lease /\ Login(g, "FAILING") /\ grant' = [grant EXCEPT ![g].login = "DONE"]
    BY <1>12 DEF ReportFailure
  <2>4. ChecksKept
    BY <1>0, <2>2, StaleWindowsKept DEF ChecksKept, Running
  <2>5. CASE account' = account
    BY <2>2, <2>3, <2>4, <2>5 DEF Kinds, LeasesStep, leaseVars
  <2>6. CASE account' # account
    <3> DEFINE row == AfterFailure(account[a], code, retryCooldown, now)
    <3>1. /\ row \in AccountShape /\ row.epoch = account[a].epoch
          /\ row.revision > account[a].revision /\ row.connector = account[a].connector
          /\ row.health # "HEALTHY"
      BY <1>0, <2>1, FailureRow DEF Now
    <3>2. account' = [account EXCEPT ![a] = row]
      BY <2>2, <2>6
    <3> HIDE DEF row
    <3>3. RowWritten(a, row)
      BY <2>2, <2>3, <3>1, <3>2 DEF RowWritten
    <3>4. grant'[g].login = "DONE"
      BY <2>1, <2>3 DEF GTypeOK, GrantRow
    <3>5. ReportsLate(a)
      BY <2>3, <3>4 DEF ReportsLate
    <3> QED
      BY <2>1, <2>4, <3>1, <3>3, <3>5 DEF Kinds, Failed
  <2> QED
    BY <2>5, <2>6
<1> QED
  BY <1>1, <1>2, <1>3, <1>4, <1>5, <1>6, <1>7, <1>8, <1>9, <1>10, <1>11, <1>12
     DEF GNext, HNext, VerifyNext

-----------------------------------------------------------------------------
(* What a step does to a grant *)

\* The grant stays, and so do the lease and the connector it relies on if it
\* can still be redeemed.
GrantStays(g) ==
  /\ grant'[g] = grant[g]
  /\ Issued(g) => ~ LeaseTerminated(g) /\ ~ ConnectorLost(g)

GrantEnds(g) ==
  Issued(g) /\ \E status \in {"REVOKED", "EXPIRED"} :
                 grant'[g] = [grant[g] EXCEPT !.status = status]

\* The body of TimelyRedemption.
Timely(g) ==
  /\ Active(grant[g].account, grant[g].token)
  /\ scope[Environment] = "ACTIVE"
  /\ clock < grant[g].expires + MaxLag
  /\ clock < lease[grant[g].account][grant[g].token].expires + MaxLag

GrantPays(g) ==
  /\ Issued(g) /\ Timely(g)
  /\ grant'[g] = [grant[g] EXCEPT !.status = "REDEEMED", !.login = "RUNNING"]

LoginMoves(g) ==
  /\ grant[g].status = "REDEEMED"
  /\ \E state \in {"FAILING", "DONE"} : grant'[g] = [grant[g] EXCEPT !.login = state]

\* The grant is issued for a lease, and replaces what was issued for it before.
GrantIssued(g) ==
  \E a \in Accounts, k \in Tokens, expires \in Nat :
    /\ Active(a, k) /\ FenceMatches(a, k)
    /\ connector[account[a].connector].status = "ACTIVE"
    /\ grant'[g] = [status |-> "ISSUED", account |-> a, token |-> k,
                    connector |-> account[a].connector, expires |-> expires, login |-> "NONE"]
    /\ UNCHANGED leaseVars
    /\ \A h \in GrantIds \ {g} : Issued(h)' =>
         GrantStays(h) /\ ~ (grant[h].account = a /\ grant[h].token = k)

GrantStep(g) ==
  GrantStays(g) \/ GrantEnds(g) \/ GrantPays(g) \/ LoginMoves(g) \/ GrantIssued(g)

\* The triggers end a grant or leave it, whatever the transaction was.
LEMMA TriggersEnd ==
  ASSUME NEW g \in GrantIds, AfterTriggers
  PROVE  GrantStays(g) \/ GrantEnds(g)
  BY DEF AfterTriggers, GrantStays, GrantEnds

\* With the leases and connectors as they were, no trigger fires.
LEMMA NothingLost ==
  ASSUME NEW g \in GrantIds, UNCHANGED <<lease, connector>>, grant'[g] = grant[g]
  PROVE  GrantStays(g)
  BY DEF GrantStays, LeaseTerminated, ConnectorLost, Active

\* A grant is redeemed by the holder, in time.
LEMMA ClaimIsTimely ==
  ASSUME GTypeOK, NEW g \in GrantIds, NEW now \in Now, Issued(g), Reachable(grant[g].connector),
         Authorized(grant[g].account, grant[g].token, now), now < grant[g].expires
  PROVE  Timely(g)
<1> DEFINE row == lease[grant[g].account][grant[g].token]
<1>1. grant[g] \in GrantRow /\ lease \in LeaseTables /\ clock \in Nat /\ MaxLag \in Nat
  BY GrantedRow, TimeAssumption DEF Issued, GTypeOK, HTypeOK, LTypeOK, LeaseTables
<1>2. row \in LeaseRow /\ grant[g].expires \in Nat
  BY <1>1 DEF GrantRow, LeaseTables
<1>3. now \in Nat /\ clock <= now + MaxLag
  BY DEF Now
<1>4. row.expires \in Nat /\ now < row.expires
  BY <1>2, <1>3 DEF LeaseRow, Authorized, Expired
<1> HIDE DEF row
<1>5. clock < grant[g].expires + MaxLag /\ clock < row.expires + MaxLag
  BY <1>1, <1>2, <1>3, <1>4
<1> QED
  BY <1>5 DEF row, Timely, Authorized, Reachable

\* Every step takes every grant through one of these.
LEMMA GrantSteps ==
  ASSUME GTypeOK, [GNext]_grantVars, NEW g \in GrantIds
  PROVE  GrantStep(g)
<1>1. CASE UNCHANGED grantVars
  BY <1>1, NothingLost DEF grantVars, GrantStep
<1>2. CASE AfterTriggers
  BY <1>2, TriggersEnd DEF GrantStep
<1>3. ASSUME NEW f \in GrantIds, NEW a \in Accounts, NEW k \in Tokens, Issue(f, a, k)
      PROVE  GrantStep(g)
  <2>1. PICK now \in Now :
          /\ Reachable(account[a].connector)
          /\ grant[f].status = "NONE"
          /\ \/ AfterTriggers
             \/ /\ Authorized(a, k, now)
                /\ grant' = [Replaced(a, k) EXCEPT ![f] =
                               [status |-> "ISSUED", account |-> a, token |-> k,
                                connector |-> account[a].connector,
                                expires |-> GrantExpiry(a, k, now), login |-> "NONE"]]
                /\ UNCHANGED <<clock, account, lease, scope, connector>>
    BY <1>3 DEF Issue
  <2>2. CASE AfterTriggers
    BY <1>2, <2>2
  <2>3. CASE ~ AfterTriggers
    <3> DEFINE new == [status |-> "ISSUED", account |-> a, token |-> k,
                       connector |-> account[a].connector,
                       expires |-> GrantExpiry(a, k, now), login |-> "NONE"]
    <3>1. ASSUME NEW h \in GrantIds \ {f}
          PROVE  \/ GrantStays(h) /\ (Issued(h) => ~ (grant[h].account = a /\ grant[h].token = k))
                 \/ /\ Issued(h) /\ grant'[h] = [grant[h] EXCEPT !.status = "REVOKED"]
                    /\ grant'[h].status = "REVOKED"
      <4>1. grant'[h] = Replaced(a, k)[h]
        BY <2>1, <2>3 DEF Replaced
      <4>2. Issued(h) => grant[h] \in GrantRow
        BY GrantedRow DEF Issued
      <4>3. CASE Issued(h) /\ grant[h].account = a /\ grant[h].token = k
        BY <4>1, <4>2, <4>3 DEF Replaced, GrantRow
      <4>4. CASE ~ (Issued(h) /\ grant[h].account = a /\ grant[h].token = k)
        <5>1. grant'[h] = grant[h]
          BY <4>1, <4>4 DEF Replaced
        <5>2. GrantStays(h)
          BY <2>1, <2>3, <5>1, NothingLost
        <5> QED
          BY <4>4, <5>2
      <4> QED
        BY <4>3, <4>4
    <3>2. CASE g = f
      <4>1. Active(a, k) /\ FenceMatches(a, k) /\ connector[account[a].connector].status = "ACTIVE"
        BY <2>1, <2>3 DEF Authorized, Reachable
      <4>2. GrantExpiry(a, k, now) \in Nat
        <5>1. lease[a][k].expires \in Nat
          BY DEF GTypeOK, HTypeOK, LTypeOK, LeaseRow
        <5> QED
          BY <5>1, GrantAssumption DEF GrantExpiry, Earlier, Now
      <4>3. grant'[g] = new
        BY <2>1, <2>3, <3>2 DEF Replaced
      <4>4. \A h \in GrantIds \ {g} : Issued(h)' =>
              GrantStays(h) /\ ~ (grant[h].account = a /\ grant[h].token = k)
        BY <3>1, <3>2 DEF Issued, GrantStays
      <4>5. UNCHANGED leaseVars
        BY <2>1, <2>3 DEF leaseVars
      <4> QED
        BY <4>1, <4>2, <4>3, <4>4, <4>5 DEF GrantStep, GrantIssued
    <3>3. CASE g # f
      BY <3>1, <3>3 DEF GrantStep, GrantEnds
    <3> QED
      BY <3>2, <3>3
  <2> QED
    BY <2>2, <2>3
<1>4. ASSUME NEW f \in GrantIds, Redeem(f) PROVE GrantStep(g)
  <2>1. PICK now \in Now, credentialUsable \in BOOLEAN :
          /\ grant[f].status # "NONE"
          /\ Reachable(grant[f].connector)
          /\ \/ AfterTriggers
             \/ /\ Authorized(grant[f].account, grant[f].token, now)
                /\ Issued(f)
                /\ grant' = [grant EXCEPT ![f] = Claimed(f, credentialUsable, now)]
                /\ UNCHANGED <<clock, account, lease, scope, connector>>
    BY <1>4 DEF Redeem
  <2>2. CASE AfterTriggers
    BY <1>2, <2>2
  <2>3. CASE ~ AfterTriggers /\ g # f
    <3>1. grant'[g] = grant[g]
      BY <2>1, <2>3 DEF GTypeOK
    <3> QED
      BY <2>1, <2>3, <3>1, NothingLost DEF GrantStep
  <2>4. CASE ~ AfterTriggers /\ g = f
    <3>1. grant'[g] = Claimed(g, credentialUsable, now)
      BY <2>1, <2>4 DEF GTypeOK
    <3>2. CASE now >= grant[g].expires
      BY <2>1, <2>4, <3>1, <3>2 DEF Claimed, GrantStep, GrantEnds
    <3>3. CASE ~ (now >= grant[g].expires)
      <4>1. now < grant[g].expires
        BY <2>1, <2>4, <3>3, GrantedRow DEF GrantRow, Now
      <4>2. Timely(g)
        BY <2>1, <2>4, <4>1, ClaimIsTimely
      <4> QED
        BY <2>1, <2>4, <3>1, <3>3, <4>2 DEF Claimed, GrantStep, GrantEnds, GrantPays
    <3> QED
      BY <3>2, <3>3
  <2> QED
    BY <2>2, <2>3, <2>4
<1>5. CASE ReapGrants
  <2>1. PICK batch \in SUBSET GrantIds :
          /\ \A h \in batch : Issued(h)
          /\ UNCHANGED connector
          /\ grant' = [h \in GrantIds |->
               IF h \in batch THEN [grant[h] EXCEPT !.status = "EXPIRED"]
               ELSE IF Issued(h) /\ LeaseTerminated(h) THEN [grant[h] EXCEPT !.status = "REVOKED"]
               ELSE grant[h]]
    BY <1>5 DEF ReapGrants, ReapExpiredAt
  <2> QED
    BY <2>1 DEF GrantStep, GrantStays, GrantEnds, ConnectorLost
<1>6. ASSUME NEW f \in GrantIds, NEW state \in {"DONE", "FAILING"},
             grant[f].status = "REDEEMED", grant' = [grant EXCEPT ![f].login = state],
             UNCHANGED <<lease, connector>>
      PROVE  GrantStep(g)
  <2>1. CASE g = f
    BY <1>6, <2>1 DEF GTypeOK, GrantStep, LoginMoves
  <2>2. CASE g # f
    <3>1. grant'[g] = grant[g]
      BY <1>6, <2>2 DEF GTypeOK
    <3> QED
      BY <1>6, <3>1, NothingLost DEF GrantStep
  <2> QED
    BY <2>1, <2>2
<1>7. ASSUME NEW f \in GrantIds, LoginSucceeds(f) \/ LoginFailsUnleased(f) \/ ReportFailure(f)
      PROVE  GrantStep(g)
  BY <1>6, <1>7
     DEF LoginSucceeds, LoginFailsUnleased, ReportFailure, ApplyFailure, Login, accountVars
<1>8. ASSUME NEW f \in GrantIds, LoginFails(f) PROVE GrantStep(g)
  <2>1. /\ grant[f].status = "REDEEMED" /\ UNCHANGED connector
        /\ grant' = [h \in GrantIds |->
             IF Issued(h) /\ LeaseTerminated(h) THEN [grant[h] EXCEPT !.status = "REVOKED"]
             ELSE [grant EXCEPT ![f].login = "DONE"][h]]
    BY <1>8 DEF LoginFails, ApplyFailure, Login
  <2>2. CASE Issued(g) /\ LeaseTerminated(g)
    BY <2>1, <2>2 DEF GrantStep, GrantEnds
  <2>3. CASE ~ (Issued(g) /\ LeaseTerminated(g)) /\ g = f
    BY <2>1, <2>3 DEF GrantStep, LoginMoves, GTypeOK
  <2>4. CASE ~ (Issued(g) /\ LeaseTerminated(g)) /\ g # f
    BY <2>1, <2>4 DEF GrantStep, GrantStays, ConnectorLost, GTypeOK
  <2> QED
    BY <2>2, <2>3, <2>4
<1> QED
  BY <1>1, <1>2, <1>3, <1>4, <1>5, <1>7, <1>8 DEF GNext

-----------------------------------------------------------------------------
(* What a step does to the accounts and the connectors *)

\* The body of HoldersStayFit.
Fit(b) == Held(b)' /\ (Held(b) => Usable(b)) => Usable(b)' \/ ReportsLate(b)

\* Only a passed verification improves an account, and a lease is granted on
\* a fit account only.
AccountStep(b) ==
  /\ StepOf(b) /\ Revised(b) /\ HolderKept(b)
  /\ Unimproved(b) \/ \E id \in CheckIds : Passed(id) /\ check[id].account = b
  /\ Held(b)' /\ ~ Held(b) => Usable(b)'
  /\ Fit(b)

\* Lease transactions ...
LEMMA LeasesAccountStep ==
  ASSUME FenceInv, HeldReady, [LNext]_leaseVars, NEW b \in Accounts
  PROVE  AccountStep(b)
<1>1. StepOf(b) /\ Calm(b)
  <2>1. CASE LNext
    BY <2>1, StepKinds, LeaseStepsCalm DEF FenceInv
  <2>2. CASE UNCHANGED leaseVars
    BY <2>2, StutterKept, StutterCalm DEF leaseVars, Held, Active
  <2> QED
    BY <2>1, <2>2
<1>2. Held(b)' /\ (Held(b) => Usable(b)) => Usable(b)'
  BY UsableStep
<1> QED
  BY <1>1, <1>2 DEF AccountStep, Calm, Fit

\* ... writes of an account row ...
LEMMA RowAccountStep ==
  ASSUME FenceInv, NEW a \in Accounts, NEW row, RowWritten(a, row), NEW b \in Accounts,
         Held(a) => row.health # "HEALTHY",
         \/ row.health = account[a].health /\ row.op = "VERIFYING"
         \/ row.health # "HEALTHY"
         \/ \E id \in CheckIds : Passed(id) /\ check[id].account = a,
         ~ Held(a) \/ ReportsLate(a)
  PROVE  AccountStep(b)
<1>0. account \in [Accounts -> AccountShape]
  BY TypeGivesShapes DEF FenceInv, Shapes
<1>1. StepOf(b) /\ (Held(b)' <=> Held(b))
  BY RowWrittenKeeps
<1>2. CASE b # a
  <2>1. account'[b] = account[b] /\ UNCHANGED <<scope, connector>>
    BY <1>0, <1>2 DEF RowWritten
  <2>2. Calm(b)
    BY <1>1, <2>1, StutterCalm
  <2>3. Usable(b) => Usable(b)'
    BY <2>1 DEF Usable
  <2> QED
    BY <1>1, <2>2, <2>3 DEF AccountStep, Calm, Fit
<1>3. CASE b = a
  <2>1. /\ account'[b] = row /\ row.revision > account[b].revision
        /\ row.connector = account[b].connector /\ UNCHANGED connector
    BY <1>0, <1>3 DEF RowWritten
  <2>2. Revised(b) /\ HolderKept(b) /\ Fit(b)
    BY <1>1, <1>3, <2>1 DEF Revised, HolderKept, Fit
  <2>3. Unimproved(b) \/ \E id \in CheckIds : Passed(id) /\ check[id].account = b
    BY <1>3, <2>1 DEF Unimproved, Schedulable
  <2> QED
    BY <1>1, <2>2, <2>3 DEF AccountStep
<1> QED
  BY <1>2, <1>3

\* ... and the eviction of a holder.
LEMMA EvictedAccountStep ==
  ASSUME FenceInv, NEW a \in Accounts, Evicted(a), NEW b \in Accounts
  PROVE  AccountStep(b)
<1>1. StepOf(b) /\ Calm(b) /\ (Held(b)' => Held(b) /\ account'[b] = account[b])
  BY EvictedKeeps
<1>2. Held(b)' /\ Usable(b) => Usable(b)'
  BY <1>1 DEF Evicted, Usable
<1> QED
  BY <1>1, <1>2 DEF AccountStep, Calm, Fit

\* A verification starts only on a free account, and passes only on one.
LEMMA StagesFree ==
  /\ \A a \in Accounts, id \in CheckIds : Started(a, id) => ~ Held(a)
  /\ \A id \in CheckIds : Passed(id) => ~ Held(check[id].account)
  BY DEF Started, Passed, StartVerify, FinalizeSuccess, Verifiable, SnapshotStale

\* So every step of the system is one of these for every account, keeps the
\* types, and changes connectors under new revisions only.
LEMMA AccountSteps ==
  ASSUME GTypeOK, ActiveLeaseHoldsFence, HeldReady, [GNext]_grantVars
  PROVE  /\ LTypeOK'
         /\ \A b \in Accounts : AccountStep(b)
         /\ \A c \in Connectors : ConnectorRevised(c)
<1>0. /\ FenceInv /\ LTypeOK /\ HTypeOK
      /\ \A a \in Accounts : account[a] \in AccountShape
  BY TypeGivesShapes DEF FenceInv, GTypeOK, HTypeOK, Shapes
<1>1. CASE LeasesStep
  BY <1>0, <1>1, TypeStep, LeasesAccountStep, ConnectorSteps DEF LeasesStep
<1>a. ASSUME UNCHANGED connector, NEW c \in Connectors PROVE ConnectorRevised(c)
  BY <1>a DEF ConnectorRevised
<1>2. ASSUME NEW a \in Accounts, NEW id \in CheckIds, Started(a, id)
      PROVE  /\ LTypeOK' /\ \A b \in Accounts : AccountStep(b)
             /\ \A c \in Connectors : ConnectorRevised(c)
  <2> DEFINE row == [account[a] EXCEPT !.op = "VERIFYING", !.cooldownUntil = NoTime,
                                       !.revision = @ + 1]
  <2>1. RowWritten(a, row) /\ ~ Held(a)
    BY <1>2, StagesFree DEF Started
  <2>2. row.health = account[a].health /\ row.op = "VERIFYING"
    BY <1>0, StageRows, Zenon
  <2> HIDE DEF row
  <2>3. LTypeOK' /\ \A b \in Accounts : AccountStep(b)
    BY <1>0, <2>1, <2>2, RowWrittenKeeps, RowAccountStep
  <2> QED
    BY <1>a, <2>1, <2>3 DEF RowWritten
<1>3. ASSUME NEW id \in CheckIds, Passed(id)
      PROVE  /\ LTypeOK' /\ \A b \in Accounts : AccountStep(b)
             /\ \A c \in Connectors : ConnectorRevised(c)
  <2> DEFINE a == check[id].account
             row == AfterSuccess(account[a])
  <2>1. RowWritten(a, row) /\ ~ Held(a)
    BY <1>3, StagesFree DEF Passed
  <2>2. a \in Accounts
    BY <1>0, <1>3, RunningRow DEF Passed, FinalizeSuccess, CheckRow
  <2> HIDE DEF row
  <2>3. LTypeOK' /\ \A b \in Accounts : AccountStep(b)
    BY <1>0, <1>3, <2>1, <2>2, RowWrittenKeeps, RowAccountStep
  <2> QED
    BY <1>a, <2>1, <2>3 DEF RowWritten
<1>4. ASSUME NEW a \in Accounts, Failed(a)
      PROVE  /\ LTypeOK' /\ \A b \in Accounts : AccountStep(b)
             /\ \A c \in Connectors : ConnectorRevised(c)
  <2>1. PICK row : RowWritten(a, row) /\ row.health # "HEALTHY"
    BY <1>4 DEF Failed
  <2>2. LTypeOK' /\ \A b \in Accounts : AccountStep(b)
    BY <1>0, <1>4, <2>1, RowWrittenKeeps, RowAccountStep DEF Failed
  <2> QED
    BY <1>a, <2>1, <2>2 DEF RowWritten
<1>5. ASSUME NEW a \in Accounts, Evicted(a)
      PROVE  /\ LTypeOK' /\ \A b \in Accounts : AccountStep(b)
             /\ \A c \in Connectors : ConnectorRevised(c)
  BY <1>0, <1>5, <1>a, EvictedKeeps, EvictedAccountStep DEF Evicted
<1> QED
  BY <1>1, <1>2, <1>3, <1>4, <1>5, KindOfStep DEF Kinds

-----------------------------------------------------------------------------
(* The inductive invariant *)

\* A snapshot is never ahead of the rows it was taken of, and one that is not
\* behind its connector has its configuration.
SnapshotsAge ==
  \A i \in CheckIds : Running(i) =>
    /\ check[i].revision <= account[check[i].account].revision
    /\ check[i].connectorRevision <= connector[check[i].connector].revision
    /\ check[i].connectorRevision = connector[check[i].connector].revision
         => check[i].config = connector[check[i].connector].config

\* OneRunningCheck, said of the checks.
OneCheckEach ==
  \A i, j \in CheckIds :
    Running(i) /\ Running(j) /\ check[i].account = check[j].account => i = j

ChecksInv ==
  /\ SnapshotsAge
  /\ OneCheckEach
  /\ FreshCheckExcludesHolder
  /\ HealthyUnderCurrentConfig

GrantsInv ==
  /\ GTypeOK
  /\ ActiveLeaseHoldsFence
  /\ HeldReady
  /\ ChecksInv
  /\ IssuedGrantIsBacked
  /\ OneIssuedGrant

\* A check that runs after a step ran before it, or was started by it.
CheckStep(i) ==
  Running(i)' =>
    \/ Running(i) /\ check'[i] = check[i]
    \/ \E a \in Accounts : Started(a, i)

\* What a starting check is, and that it has the account to itself.
LEMMA StartedRow ==
  ASSUME GTypeOK, NEW a \in Accounts, NEW id \in CheckIds, Started(a, id)
  PROVE  /\ \E now \in Now :
              check'[id] = [status |-> "RUNNING", account |-> a,
                            revision |-> account[a].revision + 1,
                            connector |-> account[a].connector,
                            connectorRevision |-> connector[account[a].connector].revision,
                            config |-> connector[account[a].connector].config,
                            expires |-> WindowEnd(now)]
         /\ account'[a].revision = account[a].revision + 1
         /\ account'[a].op = "VERIFYING" /\ account'[a].health = account[a].health
         /\ UNCHANGED <<connector, lease, verified>>
         /\ ~ Held(a)
         /\ \A i \in CheckIds \ {id} : Running(i)' =>
              Running(i) /\ check'[i] = check[i] /\ check[i].account # a
         /\ \A i \in CheckIds \ {id} :
              \/ check'[i] = check[i]
              \/ Running(i) /\ check'[i] = [check[i] EXCEPT !.status = "STALE"]
<1> DEFINE row == [account[a] EXCEPT !.op = "VERIFYING", !.cooldownUntil = NoTime,
                                     !.revision = @ + 1]
<1>0. HTypeOK /\ account \in [Accounts -> AccountShape]
  BY TypeGivesShapes DEF GTypeOK, HTypeOK, Shapes
<1>1. /\ row.revision = account[a].revision + 1 /\ row.op = "VERIFYING"
      /\ row.health = account[a].health
  BY <1>0 DEF AccountShape
<1>2. PICK now \in Now :
        /\ check[id].status = "NONE"
        /\ Verifiable(a)
        /\ NoOpenCheck(a, now)
        /\ account' = [account EXCEPT ![a] = row]
        /\ check' = [WithStale(ClosedWindows(a, now)) EXCEPT ![id] =
             [status |-> "RUNNING", account |-> a, revision |-> row.revision,
              connector |-> account[a].connector,
              connectorRevision |-> connector[account[a].connector].revision,
              config |-> connector[account[a].connector].config, expires |-> WindowEnd(now)]]
        /\ UNCHANGED <<clock, lease, scope, connector, verified>>
  BY Zenon DEF Started, StartVerify
<1> HIDE DEF row
<1>3. account'[a] = row
  BY <1>0, <1>2
<1>4. check'[id] = [status |-> "RUNNING", account |-> a, revision |-> row.revision,
              connector |-> account[a].connector,
              connectorRevision |-> connector[account[a].connector].revision,
              config |-> connector[account[a].connector].config, expires |-> WindowEnd(now)]
  BY <1>2 DEF WithStale
<1>5. ASSUME NEW i \in CheckIds \ {id}
      PROVE  /\ \/ check'[i] = check[i]
                \/ Running(i) /\ check'[i] = [check[i] EXCEPT !.status = "STALE"]
             /\ Running(i)' => Running(i) /\ check'[i] = check[i] /\ check[i].account # a
  <2>1. check'[i] = WithStale(ClosedWindows(a, now))[i]
    BY <1>2 DEF WithStale
  <2>2. CASE i \in ClosedWindows(a, now)
    <3>1. Running(i) /\ check[i] \in CheckRow /\ check'[i] = [check[i] EXCEPT !.status = "STALE"]
      BY <1>0, <2>1, <2>2, RunningRow DEF WithStale, ClosedWindows, RunningOn
    <3>2. check'[i].status = "STALE"
      BY <3>1 DEF CheckRow
    <3> QED
      BY <3>1, <3>2 DEF Running
  <2>3. CASE i \notin ClosedWindows(a, now)
    <3>1. check'[i] = check[i]
      BY <2>1, <2>3 DEF WithStale
    <3>2. Running(i) => check[i].account # a
      BY <1>2, <2>3 DEF NoOpenCheck, RunningOn
    <3>3. Running(i)' <=> Running(i)
      BY <3>1 DEF Running
    <3> QED
      BY <3>1, <3>2, <3>3
  <2> QED
    BY <2>2, <2>3
<1> QED
  BY <1>1, <1>2, <1>3, <1>4, <1>5 DEF Verifiable

\* The same, field by field.
LEMMA StartedFields ==
  ASSUME GTypeOK, NEW a \in Accounts, NEW id \in CheckIds, Started(a, id)
  PROVE  /\ check'[id].account = a
         /\ check'[id].revision = account'[a].revision
         /\ check'[id].connector = account[a].connector
         /\ check'[id].connectorRevision = connector'[account[a].connector].revision
         /\ check'[id].config = connector'[account[a].connector].config
<1>1. PICK now \in Now :
        check'[id] = [status |-> "RUNNING", account |-> a,
                      revision |-> account[a].revision + 1,
                      connector |-> account[a].connector,
                      connectorRevision |-> connector[account[a].connector].revision,
                      config |-> connector[account[a].connector].config,
                      expires |-> WindowEnd(now)]
  BY StartedRow, Zenon
<1>2. account'[a].revision = account[a].revision + 1 /\ UNCHANGED connector
  BY StartedRow, Zenon
<1> QED
  BY <1>1, <1>2

\* Every step takes every check through one of its two steps.
LEMMA CheckSteps ==
  ASSUME GTypeOK, [GNext]_grantVars, NEW i \in CheckIds
  PROVE  CheckStep(i)
<1>1. CASE ChecksKept
  BY <1>1 DEF ChecksKept, CheckStep
<1>2. ASSUME NEW a \in Accounts, NEW id \in CheckIds, Started(a, id) PROVE CheckStep(i)
  <2>1. CASE i = id
    BY <1>2, <2>1 DEF CheckStep
  <2>2. CASE i # id
    BY <1>2, <2>2, StartedRow DEF CheckStep
  <2> QED
    BY <2>1, <2>2
<1>3. ASSUME NEW id \in CheckIds, Passed(id) PROVE CheckStep(i)
  <2>1. check' = [check EXCEPT ![id].status = "SUCCEEDED"] /\ Running(id)
    BY <1>3 DEF Passed, FinalizeSuccess
  <2>2. check[id] \in CheckRow /\ check \in [CheckIds -> CheckRow \cup {[status |-> "NONE"]}]
    BY <2>1, RunningRow DEF GTypeOK, HTypeOK
  <2>3. CASE i = id
    <3>1. check'[i].status = "SUCCEEDED"
      BY <2>1, <2>2, <2>3 DEF CheckRow
    <3> QED
      BY <3>1 DEF CheckStep, Running
  <2>4. CASE i # id
    <3>1. check'[i] = check[i]
      BY <2>1, <2>2, <2>4
    <3> QED
      BY <3>1 DEF CheckStep, Running
  <2> QED
    BY <2>3, <2>4
<1> QED
  BY <1>1, <1>2, <1>3, KindOfStep DEF Kinds, LeasesStep, Failed

\* Checks and grants keep their form.
LEMMA ChecksTyped ==
  ASSUME GTypeOK, LTypeOK', [GNext]_grantVars
  PROVE  HTypeOK'
<1> DEFINE NoCheck == [status |-> "NONE"]
           Rows == [CheckIds -> CheckRow \cup {NoCheck}]
           Verdicts == [Accounts -> [connector : Connectors, config : Nat]]
<1>0. check \in Rows /\ verified \in Verdicts /\ HTypeOK /\ LTypeOK
  BY DEF GTypeOK, HTypeOK
<1>1. ASSUME NEW a, NEW now PROVE WithStale(ClosedWindows(a, now)) \in Rows
  <2>1. ASSUME NEW i \in CheckIds
        PROVE  WithStale(ClosedWindows(a, now))[i] \in CheckRow \cup {NoCheck}
    <3>1. CASE i \in ClosedWindows(a, now)
      <4>1. check[i] \in CheckRow
        BY <1>0, <3>1, RunningRow DEF ClosedWindows, RunningOn
      <4> QED
        BY <3>1, <4>1 DEF WithStale, CheckRow, CheckStates
    <3>2. CASE i \notin ClosedWindows(a, now)
      BY <1>0, <3>2 DEF WithStale
    <3> QED
      BY <3>1, <3>2
  <2> QED
    BY <2>1 DEF WithStale
<1>2. ASSUME check' \in Rows, verified' \in Verdicts PROVE HTypeOK'
  BY <1>2 DEF HTypeOK
<1>3. CASE UNCHANGED healthVars
  BY <1>0, <1>2, <1>3 DEF healthVars
<1>4. ASSUME NEW a \in Accounts, NEW id \in CheckIds, Started(a, id) PROVE HTypeOK'
  <2>1. PICK now \in Now :
          check'[id] = [status |-> "RUNNING", account |-> a,
                        revision |-> account[a].revision + 1,
                        connector |-> account[a].connector,
                        connectorRevision |-> connector[account[a].connector].revision,
                        config |-> connector[account[a].connector].config,
                        expires |-> WindowEnd(now)]
    BY <1>4, StartedRow
  <2>2. account'[a].revision = account[a].revision + 1
    BY <1>4, StartedRow
  <2>3. account[a].revision + 1 \in 1..MaxRevision
    BY <2>2 DEF LTypeOK, AccountRow
  <2>4. account[a].connector \in Connectors /\ connector[account[a].connector] \in ConnectorRow
    BY <1>0 DEF LTypeOK, AccountRow
  <2>5. WindowEnd(now) \in Nat
    BY HealthAssumption DEF WindowEnd, Now
  <2>6. check'[id] \in CheckRow
    BY <2>1, <2>3, <2>4, <2>5 DEF CheckRow, CheckStates, ConnectorRow
  <2>7. ASSUME NEW i \in CheckIds \ {id} PROVE check'[i] \in CheckRow \cup {NoCheck}
    <3>1. \/ check'[i] = check[i]
          \/ check[i] \in CheckRow /\ check'[i] = [check[i] EXCEPT !.status = "STALE"]
      BY <1>0, <1>4, StartedRow, RunningRow
    <3> QED
      BY <1>0, <3>1 DEF CheckRow, CheckStates
  <2>8. check' = [i \in CheckIds |-> check'[i]] /\ UNCHANGED verified
    <3>1. \E now2 \in Now : \E r :
            check' = [WithStale(ClosedWindows(a, now2)) EXCEPT ![id] = r]
      BY <1>4 DEF Started, StartVerify
    <3> QED
      BY <1>4, <3>1, StartedRow DEF WithStale
  <2> QED
    BY <1>0, <1>2, <2>6, <2>7, <2>8
<1>5. ASSUME NEW id \in CheckIds, FinalizeStale(id) PROVE HTypeOK'
  <2>1. Running(id) /\ check' = WithStale({id}) /\ UNCHANGED verified
    BY <1>5 DEF FinalizeStale
  <2>2. check[id] \in CheckRow
    BY <1>0, <2>1, RunningRow
  <2>3. WithStale({id}) \in Rows
    BY <1>0, <2>2 DEF WithStale, CheckRow, CheckStates
  <2> QED
    BY <1>0, <1>2, <2>1, <2>3
<1>6. ASSUME NEW id \in CheckIds, FinalizeSuccess(id) PROVE HTypeOK'
  <2>1. /\ Running(id) /\ check' = [check EXCEPT ![id].status = "SUCCEEDED"]
        /\ verified' = [verified EXCEPT ![check[id].account] =
             [connector |-> check[id].connector, config |-> check[id].config]]
    BY <1>6 DEF FinalizeSuccess
  <2>2. check[id] \in CheckRow
    BY <1>0, <2>1, RunningRow
  <2>3. check' \in Rows
    BY <1>0, <2>1, <2>2 DEF CheckRow, CheckStates
  <2>4. verified' \in Verdicts
    BY <1>0, <2>1, <2>2 DEF CheckRow
  <2> QED
    BY <1>2, <2>3, <2>4
<1>7. ASSUME NEW id \in CheckIds, FinalizeFailure(id) PROVE HTypeOK'
  <2>1. /\ Running(id) /\ check' = [check EXCEPT ![id].status = "FAILED"] /\ UNCHANGED verified
    BY <1>7 DEF FinalizeFailure
  <2>2. check[id] \in CheckRow
    BY <1>0, <2>1, RunningRow
  <2>3. check' \in Rows
    BY <1>0, <2>1, <2>2 DEF CheckRow, CheckStates
  <2> QED
    BY <1>0, <1>2, <2>1, <2>3
<1>8. ASSUME NEW g \in GrantIds, LoginFails(g) \/ ReportFailure(g) PROVE HTypeOK'
  <2>1. \E now \in Now : \E a : check' \in {check, WithStale(ClosedWindows(a, now))}
    BY <1>8 DEF LoginFails, ReportFailure, ApplyFailure
  <2>2. UNCHANGED verified
    BY <1>8 DEF LoginFails, ReportFailure, ApplyFailure
  <2> QED
    BY <1>0, <1>1, <1>2, <2>1, <2>2
<1>9. ASSUME NEW a \in Accounts, NEW id \in CheckIds, StartVerify(a, id) PROVE HTypeOK'
  BY <1>4, <1>9, StartedWhenStarting
<1> QED
  BY <1>3, <1>5, <1>6, <1>7, <1>8, <1>9
     DEF GNext, HNext, VerifyNext, Issue, Redeem, ReapGrants, LoginSucceeds,
         LoginFailsUnleased, accountVars, healthVars, grantVars

\* The grants keep theirs.
LEMMA GrantsTyped ==
  ASSUME GTypeOK, HTypeOK', [GNext]_grantVars
  PROVE  GTypeOK'
<1> DEFINE NoGrant == [status |-> "NONE"]
<1>1. ASSUME NEW g \in GrantIds PROVE grant'[g] \in GrantRow \cup {NoGrant}
  <2>1. GrantStep(g)
    BY GrantSteps
  <2>2. CASE GrantStays(g)
    BY <2>2 DEF GrantStays, GTypeOK
  <2>3. CASE grant[g].status # "NONE" /\ ~ GrantStays(g) /\ ~ GrantIssued(g)
    <3>1. grant[g] \in GrantRow
      BY <2>3, GrantedRow
    <3> QED
      BY <2>1, <2>3, <3>1 DEF GrantStep, GrantEnds, GrantPays, LoginMoves, GrantRow
  <2>4. CASE GrantIssued(g)
    <3>1. \A a \in Accounts : account[a].connector \in Connectors
      BY DEF GTypeOK, HTypeOK, LTypeOK, AccountRow
    <3> QED
      BY <2>4, <3>1 DEF GrantIssued, GrantRow
  <2>5. GrantEnds(g) \/ GrantPays(g) \/ LoginMoves(g) => grant[g].status # "NONE"
    BY DEF GrantEnds, GrantPays, LoginMoves, Issued
  <2> QED
    BY <2>1, <2>2, <2>3, <2>4, <2>5 DEF GrantStep
<1>2. grant' = [g \in GrantIds |-> grant'[g]]
  <2>0. grant = [g \in GrantIds |-> grant[g]]
    BY DEF GTypeOK
  <2>1. CASE AfterTriggers \/ ReapGrants \/ UNCHANGED grant
    BY <2>0, <2>1 DEF AfterTriggers, ReapGrants
  <2>2. ASSUME NEW g \in GrantIds, NEW a \in Accounts, NEW k \in Tokens, Issue(g, a, k)
        PROVE  grant' = [f \in GrantIds |-> grant'[f]]
    BY <2>1, <2>2 DEF Issue, Replaced
  <2>3. ASSUME NEW g \in GrantIds,
               \/ Redeem(g) \/ LoginSucceeds(g) \/ LoginFails(g)
               \/ LoginFailsUnleased(g) \/ ReportFailure(g)
        PROVE  grant' = [f \in GrantIds |-> grant'[f]]
    BY <2>0, <2>1, <2>3
       DEF Redeem, LoginSucceeds, LoginFails, LoginFailsUnleased, ReportFailure
  <2> QED
    BY <2>1, <2>2, <2>3 DEF GNext, grantVars
<1> QED
  BY <1>1, <1>2 DEF GTypeOK

\* Checks remain behind what they looked at.
LEMMA ChecksAge ==
  ASSUME GTypeOK, GTypeOK', SnapshotsAge, [GNext]_grantVars,
         \A b \in Accounts : Revised(b), \A c \in Connectors : ConnectorRevised(c)
  PROVE  SnapshotsAge'
<1> SUFFICES ASSUME NEW i \in CheckIds, Running(i)'
             PROVE  LET row == check'[i]
                    IN /\ row.revision <= account'[row.account].revision
                       /\ row.connectorRevision <= connector'[row.connector].revision
                       /\ row.connectorRevision = connector'[row.connector].revision
                            => row.config = connector'[row.connector].config
  BY DEF SnapshotsAge
<1>1. CASE Running(i) /\ check'[i] = check[i]
  <2> DEFINE a == check[i].account
             c == check[i].connector
  <2>1. /\ check[i] \in CheckRow /\ a \in Accounts /\ c \in Connectors
        /\ check[i].revision \in Nat /\ check[i].connectorRevision \in Nat
    BY <1>1, RunningRow, BoundAssumption DEF CheckRow, GTypeOK
  <2>2. /\ account[a].revision \in Nat /\ account'[a].revision \in Nat
        /\ connector[c].revision \in Nat /\ connector'[c].revision \in Nat
    BY <2>1 DEF GTypeOK, HTypeOK, LTypeOK, AccountRow, ConnectorRow
  <2>3. /\ check[i].revision <= account[a].revision
        /\ check[i].connectorRevision <= connector[c].revision
        /\ check[i].connectorRevision = connector[c].revision
             => check[i].config = connector[c].config
    BY <1>1 DEF SnapshotsAge
  <2>4. /\ account'[a] = account[a] \/ account'[a].revision > account[a].revision
        /\ connector'[c] = connector[c] \/ connector'[c].revision > connector[c].revision
    BY <2>1 DEF Revised, ConnectorRevised
  <2>5. check[i].revision <= account'[a].revision
    BY <2>1, <2>2, <2>3, <2>4
  <2>6. /\ check[i].connectorRevision <= connector'[c].revision
        /\ check[i].connectorRevision = connector'[c].revision
             => check[i].config = connector'[c].config
    BY <2>1, <2>2, <2>3, <2>4
  <2> QED
    BY <1>1, <2>5, <2>6
<1>2. ASSUME NEW a \in Accounts, Started(a, i)
      PROVE  LET row == check'[i]
             IN /\ row.revision <= account'[row.account].revision
                /\ row.connectorRevision <= connector'[row.connector].revision
                /\ row.connectorRevision = connector'[row.connector].revision
                     => row.config = connector'[row.connector].config
  <2>1. /\ check'[i].account = a /\ check'[i].revision = account'[a].revision
        /\ check'[i].connector = account[a].connector
        /\ check'[i].connectorRevision = connector'[account[a].connector].revision
        /\ check'[i].config = connector'[account[a].connector].config
    BY <1>2, StartedFields
  <2>2. account'[a].revision \in Nat /\ connector'[account[a].connector].revision \in Nat
    BY DEF GTypeOK, HTypeOK, LTypeOK, AccountRow, ConnectorRow
  <2> QED
    BY <2>1, <2>2
<1> QED
  BY <1>1, <1>2, CheckSteps DEF CheckStep

\* No account gets a second check, and none that is held or handed out has one
\* whose result can be applied.
LEMMA ChecksExclude ==
  ASSUME GTypeOK, GTypeOK', [GNext]_grantVars, SnapshotsAge, OneCheckEach,
         FreshCheckExcludesHolder, \A b \in Accounts : Revised(b)
  PROVE  OneCheckEach' /\ FreshCheckExcludesHolder'
<1>1. OneCheckEach'
  <2> SUFFICES ASSUME NEW i \in CheckIds, NEW j \in CheckIds, i # j, Running(i)', Running(j)',
                      check'[i].account = check'[j].account
               PROVE  FALSE
    BY DEF OneCheckEach
  <2>1. ~ (Running(i) /\ check'[i] = check[i] /\ Running(j) /\ check'[j] = check[j])
    BY DEF OneCheckEach
  <2>2. ASSUME NEW a \in Accounts, NEW id \in CheckIds, Started(a, id), NEW h \in CheckIds,
               h # id, Running(h)'
        PROVE  check'[h].account # check'[id].account
    <3>1. check'[id].account = a
      BY <2>2, StartedFields
    <3>2. \A f \in CheckIds \ {id} : Running(f)' => check'[f] = check[f] /\ check[f].account # a
      BY <2>2, StartedRow
    <3>3. check'[h] = check[h] /\ check[h].account # a
      BY <2>2, <3>2
    <3> QED
      BY <3>1, <3>3
  <2>3. ~ \E a \in Accounts : Started(a, i) \/ Started(a, j)
    BY <2>2
  <2> QED
    BY <2>1, <2>3, CheckSteps DEF CheckStep
<1>2. FreshCheckExcludesHolder'
  <2> SUFFICES ASSUME NEW i \in CheckIds, Running(i)',
                      account'[check'[i].account].revision = check'[i].revision
               PROVE  /\ ~ Held(check[i].account)'
                      /\ account'[check'[i].account].op = "VERIFYING"
    BY DEF FreshCheckExcludesHolder, Held, Active
  <2>1. CASE Running(i) /\ check'[i] = check[i]
    <3>0. check[i] \in CheckRow
      BY <2>1, RunningRow DEF GTypeOK
    <3>1. PICK a \in Accounts : a = check[i].account /\ check[i].revision \in Nat
      BY <3>0, BoundAssumption DEF CheckRow
    <3>2. account[a].revision \in Nat /\ check[i].revision <= account[a].revision
      BY <2>1, <3>1 DEF GTypeOK, HTypeOK, LTypeOK, AccountRow, SnapshotsAge
    <3>3. /\ account'[a] = account[a] \/ account'[a].revision > account[a].revision
          /\ Held(a)' /\ ~ Held(a) => account'[a].revision > account[a].revision
      BY <3>1 DEF Revised
    <3>4. account'[a].revision = check[i].revision
      BY <2>1, <3>1
    <3>5. account'[a] = account[a] /\ ~ (Held(a)' /\ ~ Held(a))
      BY <3>1, <3>2, <3>3, <3>4
    <3>6. ~ Held(a) /\ account[a].op = "VERIFYING"
      BY <2>1, <3>1, <3>4, <3>5 DEF FreshCheckExcludesHolder
    <3>7. ~ Held(a)'
      BY <3>5, <3>6
    <3> QED
      BY <2>1, <3>1, <3>5, <3>6, <3>7 DEF Held, Active
  <2>2. ASSUME NEW a \in Accounts, Started(a, i)
        PROVE  /\ ~ Held(check[i].account)'
               /\ account'[check'[i].account].op = "VERIFYING"
    <3>1. check'[i].account = a
      BY <2>2, StartedFields
    <3>2. UNCHANGED lease /\ ~ Held(a) /\ account'[a].op = "VERIFYING"
      BY <2>2, StartedRow, Zenon
    <3> QED
      BY <3>1, <3>2 DEF Held, Active
  <2> QED
    BY <2>1, <2>2, CheckSteps DEF CheckStep
<1> QED
  BY <1>1, <1>2

\* A verdict stays about the configuration of the account.
LEMMA HealthyStays ==
  ASSUME GTypeOK, [GNext]_grantVars, SnapshotsAge, HealthyUnderCurrentConfig,
         \A b \in Accounts : AccountStep(b)
  PROVE  HealthyUnderCurrentConfig'
<1> SUFFICES ASSUME NEW b \in Accounts, account'[b].health = "HEALTHY"
             PROVE  /\ verified'[b].connector = account'[b].connector
                    /\ verified'[b].config = connector'[account'[b].connector].config
  BY DEF HealthyUnderCurrentConfig
<1>0. verified \in [Accounts -> [connector : Connectors, config : Nat]] /\ HTypeOK
      /\ account \in [Accounts -> AccountShape]
  BY TypeGivesShapes DEF GTypeOK, HTypeOK, Shapes
<1>1. ASSUME NEW id \in CheckIds, Passed(id), check[id].account = b
      PROVE  /\ verified'[b].connector = account'[b].connector
             /\ verified'[b].config = connector'[account'[b].connector].config
  <2>1. Running(id) /\ check[id] \in CheckRow
    BY <1>0, <1>1, RunningRow DEF Passed, FinalizeSuccess
  <2>2. PICK now \in Now :
          /\ ~ SnapshotStale(id, now)
          /\ account' = [account EXCEPT ![b] = AfterSuccess(@)]
          /\ verified' = [verified EXCEPT ![b] =
               [connector |-> check[id].connector, config |-> check[id].config]]
          /\ UNCHANGED connector
    BY <1>1 DEF Passed, FinalizeSuccess
  <2>3. account'[b].connector = account[b].connector
    BY <1>0, <2>2, StageRows
  <2>4. /\ account[b].connector = check[id].connector
        /\ check[id].config = connector[check[id].connector].config
    BY <1>1, <2>1, <2>2 DEF SnapshotStale, SnapshotsAge
  <2> QED
    BY <1>0, <2>2, <2>3, <2>4
<1>2. CASE ~ \E id \in CheckIds : Passed(id) /\ check[id].account = b
  <2>1. /\ account[b].health = "HEALTHY"
        /\ account'[b].connector = account[b].connector
        /\ connector'[account[b].connector].config = connector[account[b].connector].config
    BY <1>2 DEF AccountStep, Unimproved
  <2>2. verified'[b] = verified[b]
    <3>1. CASE UNCHANGED verified
      BY <3>1
    <3>2. ASSUME NEW id \in CheckIds, Passed(id) PROVE verified'[b] = verified[b]
      BY <1>0, <1>2, <3>2 DEF Passed, FinalizeSuccess
    <3>3. ASSUME NEW a \in Accounts, NEW id \in CheckIds, Started(a, id) PROVE UNCHANGED verified
      BY <3>3 DEF Started, StartVerify
    <3> QED
      BY <3>1, <3>2, <3>3, KindOfStep DEF Kinds, LeasesStep, Failed, ChecksKept
  <2> QED
    BY <2>1, <2>2 DEF HealthyUnderCurrentConfig
<1> QED
  BY <1>1, <1>2

\* Holders stay ready: they were ready when they got the lease.
LEMMA HeldReadyStays ==
  ASSUME HeldReady, \A b \in Accounts : AccountStep(b)
  PROVE  HeldReady'
<1> SUFFICES ASSUME NEW b \in Accounts, Held(b)', account'[b].health = "HEALTHY"
             PROVE  account'[b].op = "READY"
  BY DEF HeldReady, Held, Active
<1>1. CASE ~ Held(b)
  BY <1>1 DEF AccountStep, Usable
<1>2. CASE Held(b)
  <2>1. account'[b].op = account[b].op
    BY <1>2 DEF AccountStep, HolderKept
  <2>2. ~ \E id \in CheckIds : Passed(id) /\ check[id].account = b
    BY <1>2, StagesFree
  <2>3. account[b].health = "HEALTHY"
    BY <2>2 DEF AccountStep, Unimproved
  <2> QED
    BY <1>2, <2>1, <2>3 DEF HeldReady
<1> QED
  BY <1>1, <1>2

\* Grants to redeem stay backed, one to a lease.
LEMMA GrantsStayBacked ==
  ASSUME GTypeOK, ActiveLeaseHoldsFence, ActiveLeaseHoldsFence', LTypeOK',
         IssuedGrantIsBacked, OneIssuedGrant, [GNext]_grantVars,
         \A b \in Accounts : AccountStep(b)
  PROVE  IssuedGrantIsBacked' /\ OneIssuedGrant'
<1>1. ASSUME NEW g \in GrantIds, Issued(g)' PROVE GrantStays(g) \/ GrantIssued(g)
  <2>1. GrantStep(g)
    BY GrantSteps
  <2>2. grant[g] \in GrantRow => ~ GrantEnds(g) /\ ~ GrantPays(g) /\ ~ LoginMoves(g)
    BY <1>1 DEF GrantEnds, GrantPays, LoginMoves, GrantRow, Issued
  <2>3. GrantEnds(g) \/ GrantPays(g) \/ LoginMoves(g) => grant[g] \in GrantRow
    BY GrantedRow DEF GrantEnds, GrantPays, LoginMoves, Issued
  <2> QED
    BY <2>1, <2>2, <2>3 DEF GrantStep
<1>2. ASSUME NEW g \in GrantIds, Issued(g)', GrantStays(g)
      PROVE  /\ Issued(g)
             /\ Active(grant[g].account, grant[g].token)'
             /\ FenceMatches(grant[g].account, grant[g].token)'
             /\ account'[grant'[g].account].connector = grant'[g].connector
             /\ connector'[grant'[g].connector].status = "ACTIVE"
  <2>1. grant'[g] = grant[g] /\ Issued(g) /\ ~ LeaseTerminated(g) /\ ~ ConnectorLost(g)
    BY <1>2 DEF GrantStays, Issued
  <2>2. PICK a \in Accounts, k \in Tokens, c \in Connectors :
          a = grant[g].account /\ k = grant[g].token /\ c = grant[g].connector
    BY <2>1, GrantedRow DEF Issued, GrantRow
  <2>3. Active(a, k) /\ account[a].connector = c /\ connector[c].status = "ACTIVE"
    BY <2>1, <2>2 DEF IssuedGrantIsBacked
  <2>4. Active(a, k)' /\ connector'[c].status = "ACTIVE"
    BY <2>1, <2>2, <2>3 DEF LeaseTerminated, ConnectorLost, Active
  <2>5. account'[a].connector = c
    BY <2>3, <2>4 DEF AccountStep, HolderKept, Held
  <2>6. FenceMatches(a, k)'
    BY <2>4 DEF ActiveLeaseHoldsFence
  <2> QED
    BY <2>1, <2>2, <2>4, <2>5, <2>6 DEF Active, FenceMatches
<1>3. ASSUME NEW g \in GrantIds, GrantIssued(g)
      PROVE  /\ Active(grant[g].account, grant[g].token)'
             /\ FenceMatches(grant[g].account, grant[g].token)'
             /\ account'[grant'[g].account].connector = grant'[g].connector
             /\ connector'[grant'[g].connector].status = "ACTIVE"
  BY <1>3 DEF GrantIssued, leaseVars, Active, FenceMatches
<1>4. IssuedGrantIsBacked'
  BY <1>1, <1>2, <1>3 DEF IssuedGrantIsBacked
<1>5. ASSUME NEW g \in GrantIds, NEW h \in GrantIds, g # h, Issued(g)', Issued(h)',
             grant'[g].account = grant'[h].account, GrantIssued(g)
      PROVE  FALSE
  <2>1. PICK a \in Accounts, k \in Tokens :
          /\ FenceMatches(a, k) /\ grant'[g].account = a
          /\ GrantStays(h) /\ ~ (grant[h].account = a /\ grant[h].token = k)
    BY <1>5 DEF GrantIssued
  <2>2. Issued(h) /\ grant[h].account = a
    BY <1>5, <2>1 DEF GrantStays, Issued
  <2>3. grant[h].token = account[a].epoch
    BY <2>2 DEF IssuedGrantIsBacked, FenceMatches
  <2> QED
    BY <2>1, <2>2, <2>3 DEF FenceMatches
<1>6. ASSUME NEW g \in GrantIds, NEW h \in GrantIds, g # h, Issued(g)', Issued(h)',
             grant'[g].account = grant'[h].account
      PROVE  FALSE
  <2>1. CASE GrantStays(g) /\ GrantStays(h)
    <3>1. Issued(g) /\ Issued(h) /\ grant[g].account = grant[h].account
      BY <1>6, <2>1 DEF GrantStays, Issued
    <3> QED
      BY <1>6, <3>1 DEF OneIssuedGrant
  <2> QED
    BY <1>1, <1>5, <1>6, <2>1
<1>7. OneIssuedGrant'
  BY <1>6 DEF OneIssuedGrant, Issued
<1> QED
  BY <1>4, <1>7

\* It holds at first: nothing is leased, checked or granted.
LEMMA GrantsInvInit == GInit => GrantsInv
<1> SUFFICES ASSUME GInit PROVE GrantsInv
  OBVIOUS
<1>1. LInit /\ FenceInv /\ LTypeOK
  BY FenceInvInit DEF GInit, HInit, FenceInv
<1>2. \A i \in CheckIds : ~ Running(i)
  BY DEF GInit, HInit, Running
<1>3. \A a \in Accounts : ~ Held(a)
  BY <1>1 DEF LInit, Held, Active, NoLease
<1>4. \A g \in GrantIds : ~ Issued(g)
  BY DEF GInit, Issued
<1>5. \A a \in Accounts : /\ verified[a].connector = account[a].connector
                          /\ verified[a].config = 0 /\ account[a].connector \in Connectors
  BY <1>1 DEF GInit, HInit, LTypeOK, AccountRow
<1>6. \A c \in Connectors : connector[c].config = 0
  BY <1>1 DEF LInit
<1>7. GTypeOK
  BY <1>1, <1>5 DEF GInit, HInit, GTypeOK, HTypeOK
<1>8. ChecksInv
  BY <1>2, <1>5, <1>6
     DEF ChecksInv, SnapshotsAge, OneCheckEach, FreshCheckExcludesHolder, HealthyUnderCurrentConfig
<1> QED
  BY <1>1, <1>3, <1>4, <1>7, <1>8
     DEF GrantsInv, FenceInv, HeldReady, IssuedGrantIsBacked, OneIssuedGrant

\* Every step keeps it, and is a step of every account.
LEMMA GrantsInvStep ==
  ASSUME GrantsInv, [GNext]_grantVars
  PROVE  GrantsInv' /\ \A b \in Accounts : AccountStep(b)
<1>1. /\ LTypeOK'
      /\ \A b \in Accounts : AccountStep(b)
      /\ \A c \in Connectors : ConnectorRevised(c)
  BY AccountSteps DEF GrantsInv
<1>2. \A b \in Accounts : StepOf(b) /\ Revised(b)
  BY <1>1 DEF AccountStep
<1>3. ActiveLeaseHoldsFence'
  BY <1>2, FenceKept DEF GrantsInv
<1>4. GTypeOK'
  BY <1>1, ChecksTyped, GrantsTyped DEF GrantsInv
<1>5. ChecksInv'
  <2>1. SnapshotsAge'
    BY <1>1, <1>2, <1>4, ChecksAge DEF GrantsInv, ChecksInv
  <2>2. OneCheckEach' /\ FreshCheckExcludesHolder'
    BY <1>2, <1>4, ChecksExclude DEF GrantsInv, ChecksInv
  <2>3. HealthyUnderCurrentConfig'
    BY <1>1, HealthyStays DEF GrantsInv, ChecksInv
  <2> QED
    BY <2>1, <2>2, <2>3 DEF ChecksInv
<1>6. HeldReady'
  BY <1>1, HeldReadyStays DEF GrantsInv
<1>7. IssuedGrantIsBacked' /\ OneIssuedGrant'
  BY <1>1, <1>3, GrantsStayBacked DEF GrantsInv
<1> QED
  BY <1>1, <1>3, <1>4, <1>5, <1>6, <1>7 DEF GrantsInv

\* So it always holds.
LEMMA GrantsInvHolds == GSpec => []GrantsInv
<1>1. GrantsInv /\ [GNext]_grantVars => GrantsInv'
  BY GrantsInvStep
<1> QED
  BY <1>1, GrantsInvInit, PTL DEF GSpec

-----------------------------------------------------------------------------
(* The theorems *)

\* Two checks of an account that are one check are at most one.
LEMMA OneCheckCounts == OneCheckEach => OneRunningCheck
<1> SUFFICES ASSUME OneCheckEach, NEW a \in Accounts PROVE Cardinality(RunningOn(a)) <= 1
  BY DEF OneRunningCheck
<1>1. CASE RunningOn(a) = {}
  BY <1>1, FS_EmptySet
<1>2. ASSUME NEW i \in RunningOn(a) PROVE Cardinality(RunningOn(a)) <= 1
  <2>1. RunningOn(a) = {i}
    BY <1>2 DEF RunningOn, OneCheckEach
  <2>2. Cardinality({i}) = 1
    BY FS_Singleton, Zenon
  <2> QED
    BY <2>1, <2>2
<1> QED
  BY <1>1, <1>2

\* Also with verifications and failed logins beside the leases, an active lease
\* carries the latest epoch of its account (lease_fence_matches).
THEOREM FenceHeldWithLogins == GSpec => []ActiveLeaseHoldsFence
<1>1. GrantsInv => ActiveLeaseHoldsFence
  BY DEF GrantsInv
<1> QED
  BY <1>1, GrantsInvHolds, PTL

\* Checks and grants keep their form; verifications have an account to themselves
\* and a verdict is about its configuration; a lease has one grant to redeem
\* (has_running_check, _snapshot_is_stale, issue: REPLACED).
THEOREM GrantsCorrect == GSpec => []GInv
<1>1. GrantsInv => GInv
  BY OneCheckCounts DEF GrantsInv, GInv, ChecksInv, HInv, GTypeOK
<1> QED
  BY <1>1, GrantsInvHolds, PTL

\* A grant that can be redeemed is backed by the running lease, its fence and
\* its connector (revoke_secret_grants_for_lease and _for_connector).
THEOREM GrantsBacked == GSpec => []IssuedGrantIsBacked
<1>1. GrantsInv => IssuedGrantIsBacked
  BY DEF GrantsInv
<1> QED
  BY <1>1, GrantsInvHolds, PTL

\* A secret is handed out only to the holder, at most MaxLag after grant and
\* lease ran out (_redeem_password: authorize_sensitive_use before claim).
THEOREM RedeemedInTime == GSpec => TimelyRedemption
<1>1. ASSUME GrantsInv, [GNext]_grantVars
      PROVE  [\A g \in GrantIds : Issued(g) /\ grant'[g].status = "REDEEMED" => Timely(g)]_grantVars
  <2> SUFFICES ASSUME NEW g \in GrantIds, Issued(g), grant'[g].status = "REDEEMED"
               PROVE  Timely(g)
    OBVIOUS
  <2>1. GrantStep(g) /\ grant[g] \in GrantRow
    BY <1>1, GrantSteps, GrantedRow DEF GrantsInv, Issued
  <2>2. grant'[g] # grant[g]
    BY DEF Issued
  <2>3. ~ GrantEnds(g)
    BY <2>1 DEF GrantEnds, GrantRow
  <2>4. ~ LoginMoves(g)
    BY DEF LoginMoves, Issued
  <2>5. ~ GrantIssued(g)
    <3>1. GrantIssued(g) => grant'[g].status = "ISSUED"
      BY DEF GrantIssued
    <3> QED
      BY <3>1
  <2> QED
    BY <2>1, <2>2, <2>3, <2>4, <2>5 DEF GrantStep, GrantStays, GrantPays
<1>2. GrantsInv /\ [GNext]_grantVars
        => [\A g \in GrantIds : Issued(g) /\ grant'[g].status = "REDEEMED" => Timely(g)]_grantVars
  BY <1>1
<1> QED
  BY <1>2, GrantsInvHolds, PTL DEF GSpec, TimelyRedemption, Timely

\* A held account loses its fitness only to the late report of a login that
\* found no lease, and none is handed out unfit (revoke_active, account_is_verifiable).
THEOREM FitnessKept == GSpec => HoldersStayFit
<1>1. GrantsInv /\ [GNext]_grantVars => [\A a \in Accounts : Fit(a)]_grantVars
  BY GrantsInvStep DEF AccountStep
<1> QED
  BY <1>1, GrantsInvHolds, PTL DEF GSpec, HoldersStayFit, Fit

\* An account that was not to be handed out is so again only in the step that
\* applies a successful check of it (FinalizeSuccess).
THEOREM RecoveryChecked == GSpec => RecoveryNeedsCheck
<1>1. ASSUME GrantsInv, [GNext]_grantVars, NEW a \in Accounts,
             ~ Schedulable(account[a]), Schedulable(account'[a])
      PROVE  \E i \in RunningOn(a) : check'[i].status = "SUCCEEDED"
  <2>1. PICK id \in CheckIds : Passed(id) /\ check[id].account = a
    BY <1>1, GrantsInvStep DEF AccountStep, Unimproved
  <2>2. Running(id) /\ check' = [check EXCEPT ![id].status = "SUCCEEDED"]
    BY <2>1 DEF Passed, FinalizeSuccess
  <2>3. check'[id].status = "SUCCEEDED" /\ id \in RunningOn(a)
    BY <1>1, <2>1, <2>2, RunningRow DEF GrantsInv, GTypeOK, HTypeOK, RunningOn, CheckRow
  <2> QED
    BY <2>3
<1>2. GrantsInv /\ [GNext]_grantVars =>
        [\A a \in Accounts : ~ Schedulable(account[a]) /\ Schedulable(account'[a]) =>
           \E i \in RunningOn(a) : check'[i].status = "SUCCEEDED"]_accountVars
  BY <1>1
<1> QED
  BY <1>2, GrantsInvHolds, PTL DEF GSpec, RecoveryNeedsCheck

\* Whatever else writes the accounts, the leases implement FencedLease.
THEOREM LeasesRefine == GSpec => RefinesFencedLease
<1>1. GrantsInv /\ GrantsInv' /\ [GNext]_grantVars => [Fenced!FNext]_(Fenced!fencedVars)
  BY GrantsInvStep, StepsRefine DEF AccountStep, GrantsInv, FenceInv, GTypeOK, HTypeOK
<1>2. GInit => Fenced!FInit
  BY RefinedInit DEF GInit, HInit
<1> QED
  BY <1>1, <1>2, GrantsInvHolds, PTL DEF GSpec, RefinesFencedLease, Fenced!FSpec

\* What ended in disorder stays ended, also when the end is the failure of a
\* login (record_runtime_health_failure), and no heartbeat comes late.
THEOREM EndsStayFinal == GSpec => EndsAreFinal
<1>1. ASSUME GrantsInv, [GNext]_grantVars, NEW b \in Accounts, NEW k \in Tokens
      PROVE  Final(b, k)
  <2>0. LTypeOK /\ ActiveLeaseHoldsFence /\ Shapes
    BY <1>1, TypeGivesShapes DEF GrantsInv, GTypeOK, HTypeOK
  <2>1. CASE UNCHANGED lease
    BY <2>1 DEF Final, Active
  <2>2. CASE LNext
    BY <2>0, <2>2, FinalStep
  <2>3. ASSUME NEW a \in Accounts, Evicted(a) PROVE Final(b, k)
    <3>1. b = a /\ FenceRevoked({a})[b].op = "VERIFYING" => ~ Schedulable(account'[b])
      <4>1. FenceRevoked({a}) \in [Accounts -> AccountShape]
        BY <2>0, FenceRevokedRows DEF Shapes, FenceRevoked
      <4> QED
        BY <2>3, <4>1 DEF Evicted, Schedulable
    <3> QED
      BY <2>0, <2>3, <3>1, RevocationIsFinal DEF Evicted
  <2>4. LNext \/ UNCHANGED lease \/ \E a \in Accounts : Evicted(a)
    BY <1>1, KindOfStep
       DEF GrantsInv, Kinds, LeasesStep, Started, Passed, Failed, RowWritten, leaseVars
  <2> QED
    BY <2>1, <2>2, <2>3, <2>4
<1>2. GrantsInv /\ [GNext]_grantVars =>
        /\ [\A a \in Accounts, k \in Tokens :
              /\ Active(a, k)
              /\ lease'[a][k].status \in {"EXPIRED", "REVOKED"}
              => ~ Schedulable(account'[a])]_leaseVars
        /\ [\A a \in Accounts, k \in Tokens :
              /\ Active(a, k)
              /\ lease'[a][k].status = "ACTIVE"
              /\ lease'[a][k] # lease[a][k]
              => clock < lease[a][k].expires + MaxLag]_leaseVars
  BY <1>1 DEF Final
<1> QED
  BY <1>2, GrantsInvHolds, PTL
     DEF GSpec, EndsAreFinal, UncleanEndDisablesAccount, NoLateRenewal

=============================================================================
