---------------------------- MODULE AuthSession ----------------------------
(***************************************************************************)
(* Login sessions of the holders of one account, and the janitor that      *)
(* destroys what is left of them.                                          *)
(*                                                                         *)
(* A session is reserved in one transaction, its login runs outside of any *)
(* and puts the sealed state into the vault, and another transaction makes *)
(* it READY if nothing it depends on has changed.  Triggers end the live   *)
(* sessions of a lease or credential in the transaction that ends it.  The *)
(* janitor claims what has ended, deletes the object outside of any        *)
(* transaction, and marks the row as destroyed.                            *)
(*                                                                         *)
(* Whatever takes the account or its connector out of service ends the     *)
(* lease in the same transaction, as AccountLease shows; here it is the    *)
(* end of a lease.  The secret grant of a login is SecretGrant's.          *)
(***************************************************************************)
EXTENDS Naturals, FiniteSets

CONSTANTS
  MaxLeases,    \* leases of the account, one after the other
  MaxSessions,  \* bound on the sessions reserved
  Janitors,     \* worker identities of the janitor
  MaxFaults     \* bound on crashes, failed deletions and slow workers

NoOne == "NOBODY"

ASSUME SessionAssumption ==
  /\ NoOne \notin Janitors
  /\ {MaxLeases, MaxSessions} \subseteq Nat \ {0}
  /\ MaxFaults \in Nat

VARIABLES
  lease,     \* the last account_lease: its fencing token, and what has become of it
  usable,    \* whether the account has an ACTIVE password credential
  session,   \* browser_session_artifact
  ticket,    \* auth_action_ticket of the active lease
  vault,     \* sessions whose object exists
  creator,   \* the worker that logs in for a session
  uploads,   \* uploads that run on although their worker gave up
  cleaning,  \* deletions under way
  late,      \* sessions whose object came after their row was claimed for cleanup
  faults

sessionVars == <<lease, usable, session, ticket, vault, creator, uploads, cleaning, late, faults>>
rows == <<lease, session, ticket>>
objects == <<vault, uploads, late>>

Leases == 1..MaxLeases
Sessions == 1..MaxSessions

Live == {"CREATING", "READY"}
Ended == {"REVOKED", "EXPIRED", "FAILED"}

Artifact == [status   : Live \cup Ended \cup {"DESTROYING", "DESTROYED"},
             lease    : Leases,
             \* While it is live: what it depends on has changed since it was reserved, and
             \* then it has reached attempt_expires_at, or expires_at once it is ready.
             standing : {"GOOD", "CHANGED", "LATE"},
             by       : Janitors \cup {NoOne},   \* cleanup_worker_identity
             lapsed   : BOOLEAN]                 \* its cleanup claim has run out
Absent == [status |-> "NONE"]

Steps == {"NONE", "LOGIN", "SEALED", "STALE"}
Cleanup == [session : Sessions, by : Janitors, at : {"DELETE", "MARK"}]

SeTypeOK ==
  /\ lease \in [token : Leases, state : {"ACTIVE", "OVER", "ENDED"}]
  /\ usable \in BOOLEAN
  /\ session \in [Sessions -> Artifact \cup {Absent}]
  /\ ticket \in {"NONE", "OPEN"}
  /\ {vault, uploads, late} \subseteq SUBSET Sessions
  /\ creator \in [Sessions -> Steps]
  /\ cleaning \subseteq Cleanup
  /\ faults \in 0..MaxFaults

SeInit ==
  /\ lease = [token |-> 1, state |-> "ACTIVE"]
  /\ usable = TRUE
  /\ session = [s \in Sessions |-> Absent]
  /\ ticket = "NONE"
  /\ vault = {} /\ uploads = {} /\ late = {}
  /\ creator = [s \in Sessions |-> "NONE"]
  /\ cleaning = {}
  /\ faults = 0

Fault == faults < MaxFaults /\ faults' = faults + 1

IsLive(s) == session[s].status \in Live
IsCreating(s) == session[s].status = "CREATING"

\* An active lease may be past its expires_at.
Held == lease.state \in {"ACTIVE", "OVER"}

\* authorize_sensitive_use: lease_is_expired, lease_fence_matches
Authorized == lease.state = "ACTIVE"

-----------------------------------------------------------------------------
(* Leases, time and dependencies, with the triggers they fire *)

Terminated(row, status) == [row EXCEPT !.status = status, !.standing = "GOOD"]

\* Sessions of a set, and the ticket, come to an end.
Ends(set, status) ==
  /\ session' = [s \in Sessions |-> IF s \in set THEN Terminated(session[s], status)
                                    ELSE session[s]]
  /\ ticket' = "NONE"

\* mutant: the trigger takes only the sessions that are ready
ReadyOfLease == {s \in Sessions : session[s].status = "READY" /\ session[s].lease = lease.token}

LiveOfLease == {s \in Sessions : IsLive(s) /\ session[s].lease = lease.token}

Acquire ==
  /\ lease.state = "ENDED" /\ lease.token < MaxLeases
  /\ lease' = [token |-> lease.token + 1, state |-> "ACTIVE"]
  /\ UNCHANGED <<usable, session, ticket, creator, cleaning, objects, faults>>

\* revoke_sessions_for_lease: the lease is released or revoked, or found to have
\* run out.
EndLease ==
  /\ Held
  /\ lease' = [lease EXCEPT !.state = "ENDED"]
  /\ \/ Ends(LiveOfLease, "REVOKED")
     \/ lease.state = "OVER" /\ Ends(LiveOfLease, "EXPIRED")
  /\ UNCHANGED <<usable, creator, cleaning, objects, faults>>

\* attempt_expires_at <= expires_at <= expires_at of the lease
SessionAges(s) ==
  /\ IsLive(s) /\ session[s].standing # "LATE"
  /\ session' = [session EXCEPT ![s].standing = "LATE"]
  /\ UNCHANGED <<lease, usable, ticket, creator, cleaning, objects, faults>>
LeaseAges ==
  /\ Authorized
  /\ \A s \in LiveOfLease : session[s].standing = "LATE"
  /\ lease' = [lease EXCEPT !.state = "OVER"]
  /\ UNCHANGED <<usable, session, ticket, creator, cleaning, objects, faults>>

\* revoke_sessions_for_credential, _for_connector, _for_account: the credential's
\* secret is replaced or leaves ACTIVE, the connector is reconfigured, or the
\* account is no longer fit.
CredentialChanges ==
  /\ usable' \in BOOLEAN
  /\ Ends({s \in Sessions : IsLive(s)}, "REVOKED")
  /\ UNCHANGED <<lease, creator, cleaning, objects, faults>>

\* What revokes nothing: other columns of the account, connector or credential.
DependencyEdited ==
  /\ \E s \in Sessions : IsCreating(s) /\ session[s].standing = "GOOD"
  /\ session' = [s \in Sessions |->
                   IF IsCreating(s) /\ session[s].standing = "GOOD"
                   THEN [session[s] EXCEPT !.standing = "CHANGED"] ELSE session[s]]
  /\ UNCHANGED <<lease, usable, ticket, creator, cleaning, objects, faults>>

-----------------------------------------------------------------------------
(* A worker ensures a session *)

\* expire_stale_for_lease, expire_due
StaleOf(s) ==
  CASE IsCreating(s) /\ session[s].standing = "LATE" ->
         Terminated(session[s], "FAILED")
    [] session[s].status = "READY" /\ session[s].standing = "LATE" ->
         Terminated(session[s], "EXPIRED")
    [] OTHER -> session[s]
AfterExpiry(set) == [s \in Sessions |-> IF s \in set THEN StaleOf(s) ELSE session[s]]

Reserved == [status |-> "CREATING", lease |-> lease.token, standing |-> "GOOD",
             by |-> NoOne, lapsed |-> FALSE]

\* _prepare, unless a live session is answered or waited for, or one that is
\* being created for other origins is a conflict: a ready one for other origins
\* is superseded.
EnsurePassword(s) ==
  LET fresh == AfterExpiry(LiveOfLease)
      live  == {t \in LiveOfLease : fresh[t].status \in Live}
  IN  /\ Authorized /\ usable
      /\ session[s] = Absent /\ \A t \in Sessions : t < s => session[t] # Absent
      /\ \A t \in live : fresh[t].status = "READY"
      /\ session' = [t \in Sessions |->
                       IF t = s THEN Reserved
                       ELSE IF t \in live THEN Terminated(fresh[t], "REVOKED")
                       ELSE fresh[t]]
      /\ creator' = [creator EXCEPT ![s] = "LOGIN"]
      /\ UNCHANGED <<lease, usable, ticket, cleaning, objects, faults>>

\* _create_manual_ticket_locked: an open ticket is answered, or replaced by one
\* for other origins or another method; one that has run out is replaced.
EnsureManual ==
  /\ Authorized
  /\ session' = AfterExpiry(LiveOfLease)
  /\ ticket' = "OPEN"
  /\ UNCHANGED <<lease, usable, creator, cleaning, objects, faults>>

Goes(s, step) == creator' = [creator EXCEPT ![s] = step]

\* seal: the object comes into being whatever has become of the row.
Stored(s) ==
  /\ vault' = vault \cup {s}
  /\ late' = IF session[s].status \in {"DESTROYING", "DESTROYED"} THEN late \cup {s} ELSE late

Seal(s) ==
  /\ creator[s] = "LOGIN"
  /\ Stored(s) /\ Goes(s, "SEALED")
  /\ UNCHANGED <<rows, usable, uploads, cleaning, faults>>

FailedRow(s) == Terminated(session[s], "FAILED")

\* mutant: whatever the row has come to
FailsAnyRow(s) == [session EXCEPT ![s] = FailedRow(s)]

\* fail_creation
FailsCreation(s) == IF IsCreating(s) THEN [session EXCEPT ![s] = FailedRow(s)] ELSE session

\* _record_failure.  A failure that tells of the account ends its active lease,
\* whoever holds it: EndLease.  A person is asked for as in EnsureManual.
LoginFails(s) ==
  /\ creator[s] \in {"LOGIN", "STALE"}
  /\ session' = FailsCreation(s)
  /\ Goes(s, "NONE")
  /\ UNCHANGED <<lease, usable, ticket, objects, cleaning, faults>>

\* creation_timeout ends the wait for the upload, and not the upload.
UploadTimesOut(s) ==
  /\ creator[s] = "LOGIN"
  /\ uploads' = uploads \cup {s}
  /\ session' = FailsCreation(s)
  /\ Goes(s, "NONE")
  /\ Fault
  /\ UNCHANGED <<lease, usable, ticket, vault, late, cleaning>>
UploadLands(s) ==
  /\ s \in uploads
  /\ uploads' = uploads \ {s}
  /\ Stored(s)
  /\ UNCHANGED <<rows, usable, creator, cleaning, faults>>

\* finalize_ready
Publishable(s) ==
  /\ IsCreating(s) /\ session[s].standing = "GOOD"
  /\ Authorized /\ lease.token = session[s].lease
  /\ usable

Finalize(s) ==
  /\ creator[s] = "SEALED"
  /\ \/ /\ Publishable(s)
        /\ session' = [session EXCEPT ![s].status = "READY"]
        /\ Goes(s, "NONE")
     \/ /\ ~ Publishable(s)
        /\ Goes(s, IF IsCreating(s) THEN "STALE" ELSE "NONE")
        /\ UNCHANGED session
  /\ UNCHANGED <<lease, usable, ticket, objects, cleaning, faults>>

WorkerDies(s) ==
  /\ creator[s] # "NONE"
  /\ Fault /\ Goes(s, "NONE")
  /\ UNCHANGED <<rows, usable, objects, cleaning>>

-----------------------------------------------------------------------------
(* The janitor *)

\* mutant: what was claimed once is left to its claimant
ClaimableOnce(row) == row.status \in Ended

\* claim_cleanup
Claimable(row) == row.status \in Ended \/ (row.status = "DESTROYING" /\ row.lapsed)

\* run_once, its first transaction: what is due expires, a ticket that has run
\* out among it, and what has ended is claimed.
Sweep(j) ==
  LET fresh == AfterExpiry(Sessions)
      claimed == {s \in Sessions : Claimable(fresh[s])}
  IN  /\ ticket' \in {ticket, "NONE"}
      /\ claimed # {} \/ ticket' # ticket
      /\ session' = [s \in Sessions |->
                       IF s \in claimed
                       THEN [fresh[s] EXCEPT !.status = "DESTROYING", !.by = j, !.lapsed = FALSE]
                       ELSE fresh[s]]
      /\ cleaning' = cleaning \cup
           [session : claimed, by : {j}, at : {"DELETE"}]
      /\ UNCHANGED <<lease, usable, creator, objects, faults>>

Dropped(c) == cleaning \ {c}

Delete(c) ==
  /\ c.at = "DELETE"
  /\ vault' = vault \ {c.session}
  /\ late' = late \ {c.session}
  /\ cleaning' = (cleaning \ {c}) \cup {[c EXCEPT !.at = "MARK"]}
  /\ UNCHANGED <<rows, usable, creator, uploads, faults>>

\* The deletion fails, or the janitor dies before or after it.
CleanupFails(c) ==
  /\ Fault
  /\ cleaning' = Dropped(c)
  /\ UNCHANGED <<rows, usable, creator, objects>>

\* mark_destroyed
MarkDestroyed(c) ==
  LET s == c.session
  IN  /\ c.at = "MARK"
      /\ session' = IF session[s].status = "DESTROYING" /\ session[s].by = c.by
                    THEN [session EXCEPT ![s].status = "DESTROYED", ![s].lapsed = FALSE]
                    ELSE session
      /\ cleaning' = cleaning \ {c}
      /\ UNCHANGED <<lease, usable, ticket, creator, objects, faults>>

\* A claim runs out once its claimant is gone, or slow.
ClaimLapses(s) ==
  /\ session[s].status = "DESTROYING" /\ ~ session[s].lapsed
  /\ session' = [session EXCEPT ![s].lapsed = TRUE]
  /\ IF \E c \in cleaning : c.session = s THEN Fault ELSE UNCHANGED faults
  /\ UNCHANGED <<lease, usable, ticket, creator, objects, cleaning>>

-----------------------------------------------------------------------------
SeNext ==
  \/ Acquire \/ EndLease \/ LeaseAges
  \/ CredentialChanges \/ DependencyEdited
  \/ EnsureManual
  \/ \E s \in Sessions :
       \/ SessionAges(s)
       \/ EnsurePassword(s)
       \/ Seal(s) \/ LoginFails(s) \/ UploadTimesOut(s) \/ UploadLands(s)
       \/ Finalize(s) \/ WorkerDies(s)
       \/ ClaimLapses(s)
  \/ \E j \in Janitors : Sweep(j)
  \/ \E c \in cleaning : Delete(c) \/ CleanupFails(c) \/ MarkDestroyed(c)

SeSpec == SeInit /\ [][SeNext]_sessionVars

\* Time passes, the janitor runs again and again, its runs come to an end, and
\* so do the claims of those that do not.  Nothing is asked of the workers.
SeFairSpec ==
  /\ SeSpec
  /\ WF_sessionVars(\E s \in Sessions : SessionAges(s))
  /\ WF_sessionVars(\E s \in Sessions : ClaimLapses(s))
  /\ WF_sessionVars(\E j \in Janitors : Sweep(j))
  /\ WF_sessionVars(\E c \in cleaning : Delete(c) \/ MarkDestroyed(c))

-----------------------------------------------------------------------------
(* Properties *)

\* A lease has one live session however its workers, their retries and the
\* expiry of slow attempts overlap (browser_session_artifact_one_live).
OneLiveSession ==
  \A s, t \in Sessions :
    IsLive(s) /\ IsLive(t) /\ session[s].lease = session[t].lease => s = t

\* What a caller is given can be used: the lease of a ready session is held
\* and its object is there, the lease of an open ticket is held.
SessionsAreBacked ==
  /\ \A s \in Sessions : session[s].status = "READY" =>
       Held /\ lease.token = session[s].lease /\ usable /\ s \in vault
  /\ ticket = "OPEN" => Held

\* A row is DESTROYED only when its object is deleted: no lost deletion and no
\* lost claim is reported as done.  What stays are objects that were put into
\* the vault after their row had been claimed.
OnlyLateUploadsStay ==
  \A s \in vault : session[s].status = "DESTROYED" => s \in late

\* Sessions and tickets are fit for use, whatever happened between the
\* reservation and the finalization, and the vault holds no more than they need.
SeInv == SeTypeOK /\ OneLiveSession /\ SessionsAreBacked /\ OnlyLateUploadsStay

\* browser_session_artifact_state_metadata
StateMetadata(row) == (row.by # NoOne) = (row.status \in {"DESTROYING", "DESTROYED"})

\* guard_browser_session_artifact_update
ArtifactMoves ==
  {"CREATING"} \X {"READY", "FAILED", "REVOKED", "EXPIRED"}
  \cup {"READY"} \X {"REVOKED", "EXPIRED"}
  \cup Ended \X {"DESTROYING"}
  \cup {"DESTROYING"} \X {"DESTROYING", "DESTROYED"}
ArtifactMove(old, new) ==
  \/ [old EXCEPT !.standing = new.standing, !.lapsed = new.lapsed] = new
  \/ /\ <<old.status, new.status>> \in ArtifactMoves
     /\ new.lease = old.lease
     /\ StateMetadata(new)

\* No transaction of the services and the triggers is refused by the guards
\* and constraints of the tables; the sweep may update a row twice.
SessionGuardsAdmit ==
  [][\A s \in Sessions :
       \/ session[s] = Absent
       \/ \E row \in {session[s], StaleOf(s)} :
            ArtifactMove(session[s], row) /\ ArtifactMove(row, session'[s])]_sessionVars

\* Every session is destroyed in the end, its worker dead or alive, whichever
\* runs of the janitor die.
SessionsEnd ==
  \A s \in Sessions : []<>(session[s] = Absent \/ session[s].status = "DESTROYED")

=============================================================================
