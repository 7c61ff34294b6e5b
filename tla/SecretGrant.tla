---------------------------- MODULE SecretGrant ----------------------------
(***************************************************************************)
(* One-time secret grants and the logins they pay for.                     *)
(*                                                                         *)
(* The holder of a lease is issued a grant, redeems it once, and the login *)
(* then runs with no transaction open.  A failed login comes back in a     *)
(* transaction of its own that revokes what lease it finds and applies the *)
(* health failure policy.  Triggers of the database revoke the grants of a *)
(* lease or a connector that leaves ACTIVE in the transaction that takes   *)
(* it there, so every step of AccountHealth is taken with AfterTriggers.   *)
(*                                                                         *)
(* Every account has one PASSWORD credential for LOGIN; whether it is      *)
(* usable when a transaction reads it is an input.                         *)
(***************************************************************************)
EXTENDS AccountHealth

CONSTANTS
  GrantIds,    \* identities of grants
  GrantTtl     \* longest time to live of a grant

ASSUME GrantAssumption == GrantTtl \in Nat \ {0}

VARIABLE grant   \* grant id -> row of secret_grant, with the login it paid for

grantVars == <<clock, account, lease, scope, connector, check, verified, grant>>

GrantRow == [status    : {"ISSUED", "REDEEMED", "REVOKED", "EXPIRED"},
             account   : Accounts,
             token     : Tokens,
             connector : Connectors,
             expires   : Nat,
             login     : {"NONE", "RUNNING", "FAILING", "DONE"}]

GTypeOK ==
  /\ HTypeOK
  /\ grant \in [GrantIds -> GrantRow \cup {[status |-> "NONE"]}]

GInit ==
  /\ HInit
  /\ grant = [g \in GrantIds |-> [status |-> "NONE"]]

Issued(g) == grant[g].status = "ISSUED"
Login(g, state) == grant[g].status = "REDEEMED" /\ grant[g].login = state

-----------------------------------------------------------------------------
(* Triggers *)

\* revoke_secret_grants_for_lease, revoke_secret_grants_for_connector
LeaseTerminated(g) ==
  /\ Active(grant[g].account, grant[g].token)
  /\ lease'[grant[g].account][grant[g].token].status # "ACTIVE"
ConnectorLost(g) ==
  /\ connector[grant[g].connector].status = "ACTIVE"
  /\ connector'[grant[g].connector].status # "ACTIVE"

\* mutant: only the connector's trigger is installed
AfterConnectorTrigger ==
  grant' = [g \in GrantIds |->
              IF Issued(g) /\ ConnectorLost(g)
                THEN [grant[g] EXCEPT !.status = "REVOKED"] ELSE grant[g]]

AfterTriggers ==
  grant' = [g \in GrantIds |->
              IF Issued(g) /\ (LeaseTerminated(g) \/ ConnectorLost(g))
                THEN [grant[g] EXCEPT !.status = "REVOKED"] ELSE grant[g]]

\* A failure report that is waiting for the account row has the row of its
\* connector locked for share.
ConnectorsLocked ==
  \A g \in GrantIds : Login(g, "FAILING") =>
    connector'[grant[g].connector] = connector[grant[g].connector]

-----------------------------------------------------------------------------
(* Issue and redeem *)

Reachable(c) == scope[Environment] = "ACTIVE" /\ connector[c].status = "ACTIVE"

Replaced(a, k) ==
  [h \in GrantIds |->
     IF Issued(h) /\ grant[h].account = a /\ grant[h].token = k
       THEN [grant[h] EXCEPT !.status = "REVOKED"] ELSE grant[h]]

GrantExpiry(a, k, now) == Earlier(now + GrantTtl, lease[a][k].expires)

Issue(g, a, k) ==
  \E now \in Now :
    /\ Reachable(account[a].connector)
    /\ grant[g].status = "NONE"
    /\ \/ /\ ExpireLocked(a, k, now)
          /\ AfterTriggers
       \/ /\ Authorized(a, k, now)
          /\ grant' = [Replaced(a, k) EXCEPT ![g] =
                         [status |-> "ISSUED", account |-> a, token |-> k,
                          connector |-> account[a].connector,
                          expires |-> GrantExpiry(a, k, now),
                          login |-> "NONE"]]
          /\ UNCHANGED <<clock, account, lease, scope, connector>>
    /\ UNCHANGED healthVars

\* mutant: the time to live of the grant is not looked at
ClaimedAnyTime(g, credentialUsable, now) ==
  IF credentialUsable THEN [grant[g] EXCEPT !.status = "REDEEMED", !.login = "RUNNING"]
                      ELSE [grant[g] EXCEPT !.status = "REVOKED"]

\* claim, for an issued grant whose lease has been authorized
Claimed(g, credentialUsable, now) ==
  IF now >= grant[g].expires
    THEN [grant[g] EXCEPT !.status = "EXPIRED"]
  ELSE IF account[grant[g].account].connector # grant[g].connector \/ ~ credentialUsable
    THEN [grant[g] EXCEPT !.status = "REVOKED"]
  ELSE [grant[g] EXCEPT !.status = "REDEEMED", !.login = "RUNNING"]

Redeem(g) ==
  \E now \in Now, credentialUsable \in BOOLEAN :
    /\ grant[g].status # "NONE"
    /\ Reachable(grant[g].connector)
    /\ \/ /\ ExpireLocked(grant[g].account, grant[g].token, now)
          /\ AfterTriggers
       \/ /\ Authorized(grant[g].account, grant[g].token, now)
          /\ Issued(g)
          /\ grant' = [grant EXCEPT ![g] = Claimed(g, credentialUsable, now)]
          /\ UNCHANGED <<clock, account, lease, scope, connector>>
    /\ UNCHANGED healthVars

\* The reaper ends grants and leases in one transaction.  A grant cannot
\* expire after its lease does, but their batches are limited separately.
ReapGrants ==
  \E now \in Now :
  \E batch \in {b \in SUBSET {g \in GrantIds : Issued(g) /\ grant[g].expires <= now} :
                  Cardinality(b) <= ReapLimit} :
    /\ ReapExpiredAt(now)
    /\ grant' = [g \in GrantIds |->
         IF g \in batch THEN [grant[g] EXCEPT !.status = "EXPIRED"]
         ELSE IF Issued(g) /\ LeaseTerminated(g) THEN [grant[g] EXCEPT !.status = "REVOKED"]
         ELSE grant[g]]
    /\ UNCHANGED healthVars

-----------------------------------------------------------------------------
(* The login *)

LoginSucceeds(g) ==
  /\ Login(g, "RUNNING")
  /\ grant' = [grant EXCEPT ![g].login = "DONE"]
  /\ UNCHANGED accountVars

\* The second half of record_runtime_health_failure: what it writes over the
\* account rows `rows' it has locked.  Its check row starts and ends in this
\* transaction, so no other transaction ever sees it RUNNING.
ApplyFailure(g, rows) ==
  \E now \in Now, code \in FailureCodes, retryCooldown \in RetryCooldowns :
    LET a == grant[g].account
        superseded == rows[a].connector # grant[g].connector
        busy == RunningOn(a) \ ClosedWindows(a, now) # {}
    IN /\ check' = IF superseded THEN check ELSE WithStale(ClosedWindows(a, now))
       /\ account' = IF superseded \/ busy THEN rows
                     ELSE [rows EXCEPT ![a] = AfterFailure(@, code, retryCooldown, now)]
       /\ UNCHANGED <<clock, scope, connector, verified>>
       /\ WithinBounds'

\* A lease was found: its row and the account's stay locked to the end.
LoginFails(g) ==
  LET a == grant[g].account
      reported == [grant EXCEPT ![g].login = "DONE"]
  IN /\ Login(g, "RUNNING")
     /\ Held(a)
     /\ lease' = RevokedLeases({a})
     /\ ApplyFailure(g, FenceRevoked({a}))
     /\ grant' = [h \in GrantIds |->
          IF Issued(h) /\ LeaseTerminated(h) THEN [grant[h] EXCEPT !.status = "REVOKED"]
                                             ELSE reported[h]]

\* No lease was found, so the account is not locked until the next statement.
LoginFailsUnleased(g) ==
  /\ Login(g, "RUNNING")
  /\ ~ Held(grant[g].account)
  /\ grant' = [grant EXCEPT ![g].login = "FAILING"]
  /\ UNCHANGED accountVars

ReportFailure(g) ==
  /\ Login(g, "FAILING")
  /\ ApplyFailure(g, account)
  /\ grant' = [grant EXCEPT ![g].login = "DONE"]
  /\ UNCHANGED lease

-----------------------------------------------------------------------------

GNext ==
  \/ HNext /\ AfterTriggers /\ ConnectorsLocked
  \/ \E g \in GrantIds, a \in Accounts, k \in Tokens : Issue(g, a, k)
  \/ \E g \in GrantIds : Redeem(g)
  \/ ReapGrants
  \/ \E g \in GrantIds : LoginSucceeds(g)
  \/ \E g \in GrantIds : LoginFails(g)
  \/ \E g \in GrantIds : LoginFailsUnleased(g)
  \/ \E g \in GrantIds : ReportFailure(g)

GSpec == GInit /\ [][GNext]_grantVars

-----------------------------------------------------------------------------
(* Properties *)

\* A grant that can still be redeemed is backed by the running lease of the
\* account, under its latest fence and on the connector the account is bound
\* to: whatever ends the lease or the connector ends the grant with it
\* (revoke_secret_grants_for_lease, revoke_secret_grants_for_connector).
IssuedGrantIsBacked ==
  \A g \in GrantIds : Issued(g) =>
    /\ Active(grant[g].account, grant[g].token)
    /\ FenceMatches(grant[g].account, grant[g].token)
    /\ account[grant[g].account].connector = grant[g].connector
    /\ connector[grant[g].connector].status = "ACTIVE"

\* A secret is handed out only to the holder of the account and in time: at
\* most MaxLag after the grant, and after the lease behind it, ran out
\* (_redeem_password: authorize_sensitive_use before claim).
TimelyRedemption ==
  [][\A g \in GrantIds : Issued(g) /\ grant'[g].status = "REDEEMED" =>
       /\ Active(grant[g].account, grant[g].token)
       /\ scope[Environment] = "ACTIVE"
       /\ clock < grant[g].expires + MaxLag
       /\ clock < lease[grant[g].account][grant[g].token].expires + MaxLag]_grantVars

\* A failed login that finds no lease leaves the account to others for one
\* statement, so that its report may meet a new holder.
ReportsLate(a) ==
  \E g \in GrantIds : Login(g, "FAILING") /\ grant[g].account = a /\ grant'[g].login = "DONE"

\* Nothing else takes its fitness from an account that is held, and none is handed
\* out without: neither commands nor verifications nor other logins
\* (revoke_active in the transaction of each command, account_is_verifiable).
HoldersStayFit ==
  [][\A a \in Accounts :
       Held(a)' /\ (Held(a) => Usable(a)) => Usable(a)' \/ ReportsLate(a)]_grantVars

\* Of the grants of one lease only the newest can be redeemed, also when
\* issues and redemptions interleave (issue: REPLACED).
OneIssuedGrant ==
  \A g, h \in GrantIds :
    Issued(g) /\ Issued(h) /\ grant[g].account = grant[h].account => g = h

\* Grants have the form the table asks for, each lease has one to redeem, and
\* the verifications among them keep their accounts to themselves.
GInv == GTypeOK /\ OneIssuedGrant /\ HInv

=============================================================================
