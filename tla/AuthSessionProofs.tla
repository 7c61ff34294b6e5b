--------------------------- MODULE AuthSessionProofs ---------------------------
(***************************************************************************)
(* Proofs about AuthSession, for any leases, sessions, janitors and bounds:  *)
(* a lease has one live session, what a caller is given can be used, what    *)
(* counts as destroyed is, and the tables refuse no step of the services.    *)
(***************************************************************************)
EXTENDS AuthSession, TLAPS

-----------------------------------------------------------------------------
(* The invariant.  A session lives no longer than the lease it was made for,   *)
(* so that there is never more than one, of any lease; and what a worker has   *)
(* sealed or a janitor deleted stays so until it says so in a row.            *)

Gone == {"DESTROYING", "DESTROYED"}

LiveInv ==
  /\ \A s \in Sessions : IsLive(s) => Held /\ session[s].lease = lease.token
  /\ \A s, t \in Sessions : IsLive(s) /\ IsLive(t) => s = t
  /\ \A s \in Sessions : session[s].status = "READY" => usable /\ s \in vault
  /\ ticket = "OPEN" => Held

VaultInv ==
  /\ \A s \in Sessions : creator[s] = "SEALED" /\ IsCreating(s) => s \in vault
  /\ \A c \in cleaning :
       /\ session[c.session].status \in Gone
       /\ c.at = "MARK" /\ c.session \in vault => c.session \in late
  /\ OnlyLateUploadsStay

Metadata == \A s \in Sessions : session[s] # Absent => StateMetadata(session[s])

SessionInv == SeTypeOK /\ LiveInv /\ VaultInv /\ Metadata

\* It is all that SeInv says.
LEMMA SessionInvIsSeInv == SessionInv => SeInv
  BY DEF SessionInv, SeInv, LiveInv, VaultInv, OneLiveSession, SessionsAreBacked, IsLive, Live

-----------------------------------------------------------------------------
(* What a step makes of a row *)

Rows == Artifact \cup {Absent}

\* Everything that may happen to one row in one step.
Turn(s, new) ==
  \/ new = session[s]
  \/ /\ IsLive(s)
     /\ \E standing \in {"CHANGED", "LATE"} : new = [session[s] EXCEPT !.standing = standing]
  \/ /\ IsLive(s)
     /\ \E status \in Ended :
          /\ session[s].status = "READY" => status # "FAILED"
          /\ new = Terminated(session[s], status)
  \/ EnsurePassword(s) /\ new = Reserved
  \/ Publishable(s) /\ creator[s] = "SEALED" /\ new = [session[s] EXCEPT !.status = "READY"]
  \/ \E row \in {session[s], StaleOf(s)}, j \in Janitors :
       /\ Claimable(row)
       /\ new = [row EXCEPT !.status = "DESTROYING", !.by = j, !.lapsed = FALSE]
  \/ /\ session[s].status = "DESTROYING"
     /\ \E c \in cleaning : MarkDestroyed(c) /\ c.session = s
     /\ new = [session[s] EXCEPT !.status = "DESTROYED", !.lapsed = FALSE]
  \/ /\ session[s].status = "DESTROYING"
     /\ new = [session[s] EXCEPT !.lapsed = TRUE]

\* A row that has begun is a record of the table.
LEMMA RowsOfStatus ==
  ASSUME NEW row \in Rows, row.status # "NONE"
  PROVE  row \in Artifact
  BY DEF Rows, Absent

\* A row that is stale is live, and ends as it should; any other stays.
LEMMA StaleEnds ==
  ASSUME NEW s \in Sessions
  PROVE  \/ StaleOf(s) = session[s]
         \/ /\ IsLive(s)
            /\ \E status \in Ended :
                 /\ session[s].status = "READY" => status # "FAILED"
                 /\ StaleOf(s) = Terminated(session[s], status)
  BY DEF StaleOf, IsCreating, IsLive, Live, Ended

\* Every step turns every row, and session stays a function.
LEMMA StepsTurnRows ==
  ASSUME SeTypeOK, SeNext
  PROVE  /\ session' = [s \in Sessions |-> session'[s]]
         /\ \A s \in Sessions : Turn(s, session'[s])
<1> DEFINE Goal == /\ session' = [s \in Sessions |-> session'[s]]
                   /\ \A s \in Sessions : Turn(s, session'[s])
<1> SUFFICES Goal
  OBVIOUS
<1>0. session = [s \in Sessions |-> session[s]]
  BY DEF SeTypeOK
<1>1. CASE UNCHANGED session
  BY <1>0, <1>1 DEF Turn
<1>2. ASSUME NEW set \in SUBSET {s \in Sessions : IsLive(s)}, NEW status \in {"REVOKED", "EXPIRED"},
             Ends(set, status)
      PROVE  Goal
  BY <1>2 DEF Ends, Turn, Ended
<1>3. CASE EndLease
  BY <1>2, <1>3 DEF EndLease, LiveOfLease
<1>4. CASE CredentialChanges
  BY <1>2, <1>4 DEF CredentialChanges
<1>5. CASE DependencyEdited
  BY <1>5 DEF DependencyEdited, Turn, IsCreating, IsLive, Live
<1>6. CASE EnsureManual
  <2>1. session' = [t \in Sessions |-> IF t \in LiveOfLease THEN StaleOf(t) ELSE session[t]]
    BY <1>6 DEF EnsureManual, AfterExpiry
  <2>2. ASSUME NEW s \in Sessions PROVE Turn(s, session'[s])
    <3>1. session'[s] = session[s] \/ session'[s] = StaleOf(s)
      BY <2>1
    <3> QED BY <3>1, StaleEnds DEF Turn
  <2> QED BY <2>1, <2>2
<1>7. ASSUME NEW s \in Sessions, SessionAges(s) PROVE Goal
  BY <1>0, <1>7 DEF SessionAges, Turn
<1>8. ASSUME NEW s \in Sessions, EnsurePassword(s) PROVE Goal
  <2> DEFINE fresh == AfterExpiry(LiveOfLease)
             live == {t \in LiveOfLease : fresh[t].status \in Live}
  <2>1. /\ Authorized /\ session[s] = Absent
        /\ \A t \in live : fresh[t].status = "READY"
        /\ session' = [t \in Sessions |->
                         IF t = s THEN Reserved
                         ELSE IF t \in live THEN Terminated(fresh[t], "REVOKED")
                         ELSE fresh[t]]
    BY <1>8 DEF EnsurePassword
  <2>2. ASSUME NEW t \in Sessions PROVE Turn(t, session'[t])
    <3>1. fresh[t] = session[t] \/ fresh[t] = StaleOf(t)
      BY DEF AfterExpiry
    <3>2. CASE t = s
      BY <1>8, <2>1, <3>2 DEF Turn
    <3>3. CASE t # s /\ t \in live
      <4>1. fresh[t].status = "READY" /\ IsLive(t)
        BY <2>1, <3>3 DEF LiveOfLease
      <4>2. fresh[t] = session[t]
        <5>1. CASE fresh[t] = Terminated(session[t], "FAILED")
          <6>1. session[t] \in Artifact
            BY <4>1, RowsOfStatus DEF SeTypeOK, IsLive, Live, Rows
          <6> QED BY <4>1, <5>1, <6>1 DEF Terminated, Artifact
        <5>2. CASE fresh[t] = Terminated(session[t], "EXPIRED")
          <6>1. session[t] \in Artifact
            BY <4>1, RowsOfStatus DEF SeTypeOK, IsLive, Live, Rows
          <6> QED BY <4>1, <5>2, <6>1 DEF Terminated, Artifact
        <5> QED BY <3>1, <5>1, <5>2 DEF StaleOf
      <4>3. session'[t] = Terminated(session[t], "REVOKED")
        BY <2>1, <3>3, <4>2
      <4> QED BY <4>1, <4>3 DEF Turn, Ended
    <3>4. CASE t # s /\ t \notin live
      <4>1. session'[t] = fresh[t]
        BY <2>1, <3>4
      <4> QED BY <3>1, <4>1, StaleEnds DEF Turn
    <3> QED BY <3>2, <3>3, <3>4
  <2>3. session' = [t \in Sessions |-> session'[t]]
    BY <2>1
  <2> QED BY <2>2, <2>3
<1>9. ASSUME NEW s \in Sessions, session' = FailsCreation(s) PROVE Goal
  BY <1>0, <1>9 DEF FailsCreation, FailedRow, Turn, IsCreating, IsLive, Live, Ended
<1>10. ASSUME NEW s \in Sessions, Finalize(s) PROVE Goal
  BY <1>0, <1>1, <1>10 DEF Finalize, Turn
<1>11. ASSUME NEW s \in Sessions, ClaimLapses(s) PROVE Goal
  BY <1>0, <1>11 DEF ClaimLapses, Turn
<1>12. ASSUME NEW j \in Janitors, Sweep(j) PROVE Goal
  <2> DEFINE fresh == AfterExpiry(Sessions)
             claimed == {s \in Sessions : Claimable(fresh[s])}
  <2>1. session' = [s \in Sessions |->
                      IF s \in claimed
                      THEN [fresh[s] EXCEPT !.status = "DESTROYING", !.by = j, !.lapsed = FALSE]
                      ELSE fresh[s]]
    BY <1>12 DEF Sweep
  <2>2. ASSUME NEW t \in Sessions PROVE Turn(t, session'[t])
    <3>1. fresh[t] = StaleOf(t)
      BY DEF AfterExpiry
    <3>2. CASE t \in claimed
      BY <2>1, <3>1, <3>2 DEF Turn
    <3>3. CASE t \notin claimed
      <4>1. session'[t] = StaleOf(t)
        BY <2>1, <3>1, <3>3
      <4> QED BY <4>1, StaleEnds DEF Turn
    <3> QED BY <3>2, <3>3
  <2>3. session' = [t \in Sessions |-> session'[t]]
    BY <2>1
  <2> QED BY <2>2, <2>3
<1>13. ASSUME NEW c \in cleaning, MarkDestroyed(c) PROVE Goal
  <2>1. c.session \in Sessions
    BY DEF SeTypeOK, Cleanup
  <2>2. CASE /\ session[c.session].status = "DESTROYING"
             /\ session' = [session EXCEPT ![c.session].status = "DESTROYED",
                                           ![c.session].lapsed = FALSE]
    <3>1. session'[c.session] =
            [session[c.session] EXCEPT !.status = "DESTROYED", !.lapsed = FALSE]
      BY <1>0, <2>1, <2>2
    <3>2. \A s \in Sessions \ {c.session} : session'[s] = session[s]
      BY <1>0, <2>2
    <3>3. session' = [s \in Sessions |-> session'[s]]
      BY <1>0, <2>2
    <3> QED BY <1>13, <2>2, <3>1, <3>2, <3>3 DEF Turn
  <2> QED BY <1>1, <1>13, <2>2 DEF MarkDestroyed
<1>14. CASE Acquire \/ LeaseAges
  BY <1>1, <1>14 DEF Acquire, LeaseAges
<1>15. ASSUME NEW s \in Sessions, Seal(s) \/ UploadLands(s) \/ WorkerDies(s) PROVE Goal
  BY <1>1, <1>15 DEF Seal, UploadLands, WorkerDies, rows
<1>16. ASSUME NEW s \in Sessions, LoginFails(s) \/ UploadTimesOut(s) PROVE Goal
  BY <1>9, <1>16 DEF LoginFails, UploadTimesOut
<1>17. ASSUME NEW c \in cleaning, Delete(c) \/ CleanupFails(c) PROVE Goal
  BY <1>1, <1>17 DEF Delete, CleanupFails, rows
<1> HIDE DEF Goal
<1>18. ASSUME NEW s \in Sessions,
              \/ SessionAges(s)
              \/ EnsurePassword(s)
              \/ Seal(s) \/ LoginFails(s) \/ UploadTimesOut(s) \/ UploadLands(s)
              \/ Finalize(s) \/ WorkerDies(s)
              \/ ClaimLapses(s)
       PROVE  Goal
  BY <1>7, <1>8, <1>10, <1>11, <1>15, <1>16, <1>18
<1>19. ASSUME NEW c \in cleaning, Delete(c) \/ CleanupFails(c) \/ MarkDestroyed(c)
       PROVE  Goal
  BY <1>13, <1>17, <1>19
<1> QED BY <1>3, <1>4, <1>5, <1>6, <1>12, <1>14, <1>18, <1>19 DEF SeNext

-----------------------------------------------------------------------------
(* What follows from it for one row *)

\* A turn keeps the row of its table, its lease and what the constraint asks;
\* only a reservation and a publication make anything live or ready, and only
\* what is being destroyed becomes destroyed.
TurnFits(s, new) ==
  /\ new \in Rows
  /\ new # Absent => StateMetadata(new)
  /\ session[s].status \in Gone => new.status \in Gone
  /\ new.status = "DESTROYED" =>
       \/ session[s].status = "DESTROYED"
       \/ \E c \in cleaning : MarkDestroyed(c) /\ c.session = s
  /\ new.status = "CREATING" =>
       \/ IsCreating(s) /\ new.lease = session[s].lease
       \/ EnsurePassword(s)
  /\ new.status = "READY" =>
       \/ session[s].status = "READY" /\ new.lease = session[s].lease
       \/ Publishable(s) /\ creator[s] = "SEALED" /\ new.lease = session[s].lease

\* Every turn of a row fits.
LEMMA TurnsFit ==
  ASSUME SeTypeOK, Metadata, NEW s \in Sessions, NEW new, Turn(s, new)
  PROVE  TurnFits(s, new)
<1>1. /\ session[s] \in Rows
      /\ session[s] # Absent => StateMetadata(session[s])
      /\ lease.token \in Leases
  BY DEF SeTypeOK, Rows, Metadata
<1>2. CASE new = session[s]
  BY <1>1, <1>2 DEF TurnFits, IsCreating, Gone
<1>3. CASE IsLive(s)
  <2>1. session[s] \in Artifact /\ session[s].status \in Live /\ StateMetadata(session[s])
    BY <1>1, <1>3, RowsOfStatus DEF IsLive, Live, Absent
  <2>2. ASSUME NEW standing \in {"CHANGED", "LATE"},
               new = [session[s] EXCEPT !.standing = standing]
        PROVE  TurnFits(s, new)
    BY <2>1, <2>2 DEF TurnFits, Rows, Artifact, StateMetadata, IsCreating, Live, Gone
  <2>3. ASSUME NEW status \in Ended, new = Terminated(session[s], status)
        PROVE  TurnFits(s, new)
    <3>1. new \in Artifact /\ new.status = status /\ new.by = session[s].by
      BY <2>1, <2>3 DEF Terminated, Artifact
    <3> QED BY <2>1, <3>1 DEF TurnFits, Rows, StateMetadata, Live, Gone, Ended
  <2>4. ASSUME Publishable(s), creator[s] = "SEALED",
               new = [session[s] EXCEPT !.status = "READY"]
        PROVE  TurnFits(s, new)
    BY <2>1, <2>4 DEF TurnFits, Rows, Artifact, StateMetadata, Live, Gone
  <2>5. /\ ~ EnsurePassword(s) /\ session[s].status # "DESTROYING"
        /\ ~ Claimable(session[s])
    BY <2>1 DEF EnsurePassword, Absent, Live, Claimable, Ended
  <2>6. ASSUME NEW j \in Janitors, Claimable(StaleOf(s)),
               new = [StaleOf(s) EXCEPT !.status = "DESTROYING", !.by = j, !.lapsed = FALSE]
        PROVE  TurnFits(s, new)
    <3>1. PICK status \in Ended : StaleOf(s) = Terminated(session[s], status)
      BY <2>5, <2>6, StaleEnds
    <3>2. StaleOf(s) \in Artifact
      BY <2>1, <3>1 DEF Terminated, Artifact
    <3> QED BY <2>1, <2>6, <3>2, SessionAssumption
            DEF TurnFits, Rows, Artifact, StateMetadata, Live, Gone
  <2> QED BY <1>2, <2>2, <2>3, <2>4, <2>5, <2>6 DEF Turn
<1>4. CASE EnsurePassword(s) /\ new = Reserved
  <2>1. session[s] = Absent
    BY <1>4 DEF EnsurePassword
  <2> QED BY <1>1, <1>4, <2>1
          DEF TurnFits, Reserved, Absent, Rows, Artifact, Live, StateMetadata, Gone
<1>5. ASSUME ~ IsLive(s), NEW j \in Janitors, Claimable(session[s]),
             new = [session[s] EXCEPT !.status = "DESTROYING", !.by = j, !.lapsed = FALSE]
      PROVE  TurnFits(s, new)
  <2>1. session[s] \in Artifact
    BY <1>1, <1>5, RowsOfStatus DEF Claimable, Ended
  <2> QED BY <1>5, <2>1, SessionAssumption DEF TurnFits, Rows, Artifact, StateMetadata, Gone
<1>6. CASE session[s].status = "DESTROYING"
  <2>1. session[s] \in Artifact /\ StateMetadata(session[s])
    BY <1>1, <1>6, RowsOfStatus DEF Absent
  <2>2. CASE /\ \E c \in cleaning : MarkDestroyed(c) /\ c.session = s
             /\ new = [session[s] EXCEPT !.status = "DESTROYED", !.lapsed = FALSE]
    BY <1>6, <2>1, <2>2 DEF TurnFits, Rows, Artifact, StateMetadata, Gone
  <2>3. CASE new = [session[s] EXCEPT !.lapsed = TRUE]
    BY <1>6, <2>1, <2>3 DEF TurnFits, Rows, Artifact, StateMetadata, Gone
  <2>4. ~ IsLive(s) /\ ~ EnsurePassword(s) /\ ~ Publishable(s)
    BY <1>6 DEF IsLive, Live, EnsurePassword, Absent, Publishable, IsCreating
  <2>5. StaleOf(s) = session[s]
    BY <2>4, StaleEnds
  <2>6. ASSUME NEW row \in {session[s], StaleOf(s)}, NEW j \in Janitors, Claimable(row),
               new = [row EXCEPT !.status = "DESTROYING", !.by = j, !.lapsed = FALSE]
        PROVE  TurnFits(s, new)
    BY <1>5, <2>4, <2>5, <2>6
  <2> HIDE DEF TurnFits
  <2> QED BY <1>2, <2>2, <2>3, <2>4, <2>6 DEF Turn
<1>7. CASE ~ IsLive(s) /\ session[s].status # "DESTROYING"
  <2>1. ~ Publishable(s) /\ StaleOf(s) = session[s]
    BY <1>7, StaleEnds DEF IsLive, Live, Publishable, IsCreating
  <2> QED BY <1>2, <1>4, <1>5, <1>7, <2>1 DEF Turn
<1> QED BY <1>3, <1>6, <1>7

\* And so in every step, for every row; the tables' own guards let each pass.
LEMMA StepsFitRows ==
  ASSUME SeTypeOK, Metadata, SeNext
  PROVE  /\ session' \in [Sessions -> Rows]
         /\ \A s \in Sessions : TurnFits(s, session'[s])
         /\ Metadata'
<1>1. session' = [s \in Sessions |-> session'[s]] /\ \A s \in Sessions : Turn(s, session'[s])
  BY StepsTurnRows
<1>2. \A s \in Sessions : TurnFits(s, session'[s])
  BY <1>1, TurnsFit
<1>3. \A s \in Sessions : session'[s] \in Rows
  BY <1>2 DEF TurnFits
<1>4. \A s \in Sessions : session'[s] # Absent => StateMetadata(session'[s])
  BY <1>2 DEF TurnFits
<1>5. Metadata'
  BY <1>4 DEF Metadata
<1>6. session' \in [Sessions -> Rows]
  BY <1>1, <1>3
<1> QED BY <1>2, <1>5, <1>6

-----------------------------------------------------------------------------
(* The other variables keep their types *)

\* Every step keeps the types, given those of the rows.
LEMMA StepsKeepTypes ==
  ASSUME SeTypeOK, SeNext, session' \in [Sessions -> Rows]
  PROVE  SeTypeOK'
<1> USE SessionAssumption DEF SeTypeOK, Rows
<1>1. CASE Acquire
  BY <1>1 DEF Acquire, objects, Leases
<1>2. CASE EndLease
  BY <1>2 DEF EndLease, Ends, objects
<1>3. CASE LeaseAges
  BY <1>3 DEF LeaseAges, objects
<1>4. CASE CredentialChanges
  BY <1>4 DEF CredentialChanges, Ends, objects
<1>5. CASE DependencyEdited
  BY <1>5 DEF DependencyEdited, objects
<1>6. CASE EnsureManual
  BY <1>6 DEF EnsureManual, objects
<1>7. ASSUME NEW s \in Sessions, SessionAges(s) PROVE SeTypeOK'
  BY <1>7 DEF SessionAges, objects
<1>8. ASSUME NEW s \in Sessions, EnsurePassword(s) PROVE SeTypeOK'
  BY <1>8 DEF EnsurePassword, objects, Steps
<1>9. ASSUME NEW s \in Sessions, Seal(s) PROVE SeTypeOK'
  BY <1>9 DEF Seal, Stored, Goes, rows, Steps
<1>10. ASSUME NEW s \in Sessions, LoginFails(s) PROVE SeTypeOK'
  BY <1>10 DEF LoginFails, Goes, objects, Steps
<1>11. ASSUME NEW s \in Sessions, UploadTimesOut(s) PROVE SeTypeOK'
  BY <1>11 DEF UploadTimesOut, Goes, Fault, Steps
<1>12. ASSUME NEW s \in Sessions, UploadLands(s) PROVE SeTypeOK'
  BY <1>12 DEF UploadLands, Stored, rows
<1>13. ASSUME NEW s \in Sessions, Finalize(s) PROVE SeTypeOK'
  BY <1>13 DEF Finalize, Goes, objects, Steps
<1>14. ASSUME NEW s \in Sessions, WorkerDies(s) PROVE SeTypeOK'
  BY <1>14 DEF WorkerDies, Goes, Fault, rows, objects, Steps
<1>15. ASSUME NEW s \in Sessions, ClaimLapses(s) PROVE SeTypeOK'
  BY <1>15 DEF ClaimLapses, Fault, objects
<1>16. ASSUME NEW j \in Janitors, Sweep(j) PROVE SeTypeOK'
  BY <1>16 DEF Sweep, Cleanup, objects
<1>17. ASSUME NEW c \in cleaning, Delete(c) PROVE SeTypeOK'
  <2>1. [c EXCEPT !.at = "MARK"] \in Cleanup
    BY DEF Cleanup
  <2> QED BY <1>17, <2>1 DEF Delete, rows
<1>18. ASSUME NEW c \in cleaning, CleanupFails(c) PROVE SeTypeOK'
  BY <1>18 DEF CleanupFails, Fault, Dropped, rows, objects
<1>19. ASSUME NEW c \in cleaning, MarkDestroyed(c) PROVE SeTypeOK'
  BY <1>19 DEF MarkDestroyed, objects
<1> HIDE DEF SeTypeOK
<1>20. ASSUME NEW s \in Sessions,
              \/ SessionAges(s) \/ EnsurePassword(s)
              \/ Seal(s) \/ LoginFails(s) \/ UploadTimesOut(s) \/ UploadLands(s)
              \/ Finalize(s) \/ WorkerDies(s) \/ ClaimLapses(s)
       PROVE  SeTypeOK'
  BY <1>7, <1>8, <1>9, <1>10, <1>11, <1>12, <1>13, <1>14, <1>15, <1>20
<1>21. ASSUME NEW c \in cleaning, Delete(c) \/ CleanupFails(c) \/ MarkDestroyed(c)
       PROVE  SeTypeOK'
  BY <1>17, <1>18, <1>19, <1>21
<1> QED BY <1>1, <1>2, <1>3, <1>4, <1>5, <1>6, <1>16, <1>20, <1>21 DEF SeNext

-----------------------------------------------------------------------------
(* Live sessions *)

Fitting == \A s \in Sessions : TurnFits(s, session'[s])

\* No session is left alive: the lease may end or begin, the credential change.
LEMMA NoneLiveFits ==
  ASSUME \A s \in Sessions : ~ IsLive(s)', ticket' = "NONE"
  PROVE  LiveInv'
  BY DEF LiveInv, IsLive, Live

\* Where neither the lease nor the credential changes, what lives has lived
\* before, or is reserved where nothing lives any more.
LEMMA CalmStepsFit ==
  ASSUME SeTypeOK, LiveInv, VaultInv, Fitting,
         UNCHANGED <<lease, usable>>,
         \A s \in Sessions : ~ EnsurePassword(s),
         \A s \in vault : s \in vault' \/ session[s].status \in Gone,
         ticket' = "OPEN" => Held
  PROVE  LiveInv'
<1>1. ASSUME NEW s \in Sessions, IsLive(s)'
      PROVE  IsLive(s) /\ session'[s].lease = session[s].lease
  BY <1>1 DEF Fitting, TurnFits, IsLive, Live, IsCreating, Publishable
<1>2. ASSUME NEW s \in Sessions, session'[s].status = "READY"
      PROVE  usable' /\ s \in vault'
  <2>1. \/ session[s].status = "READY"
        \/ Publishable(s) /\ creator[s] = "SEALED"
    BY <1>2 DEF Fitting, TurnFits
  <2>2. usable /\ s \in vault
    BY <2>1 DEF LiveInv, VaultInv, Publishable
  <2>3. session[s].status \notin Gone
    BY <2>1 DEF Gone, Publishable, IsCreating
  <2> QED BY <2>2, <2>3
<1>3. Held' = Held
  BY DEF Held
<1> QED BY <1>1, <1>2, <1>3 DEF LiveInv

\* Every step keeps what is live fit for use.
LEMMA StepsKeepLive ==
  ASSUME SeTypeOK, LiveInv, VaultInv, SeNext, Fitting
  PROVE  LiveInv'
<1>1. LiveOfLease = {s \in Sessions : IsLive(s)}
  BY DEF LiveInv, LiveOfLease
<1>2. CASE Acquire
  <2>1. ~ Held
    BY <1>2 DEF Acquire, Held
  <2>2. ticket = "NONE"
    BY <2>1 DEF LiveInv, SeTypeOK
  <2>3. \A s \in Sessions : ~ IsLive(s)
    BY <2>1 DEF LiveInv
  <2>4. \A s \in Sessions : ~ IsLive(s)'
    BY <1>2, <2>3 DEF Acquire, IsLive
  <2> QED BY <1>2, <2>2, <2>4, NoneLiveFits DEF Acquire
<1>3. ASSUME NEW status \in Ended, Ends({s \in Sessions : IsLive(s)}, status)
      PROVE  LiveInv'
  <2>1. ASSUME NEW s \in Sessions PROVE ~ IsLive(s)'
    <3>1. CASE IsLive(s)
      <4>1. session'[s] = Terminated(session[s], status) /\ session[s] \in Artifact
        BY <1>3, <3>1, RowsOfStatus DEF Ends, IsLive, Live, SeTypeOK, Rows
      <4>2. session'[s].status = status
        BY <4>1 DEF Terminated, Artifact
      <4> QED BY <4>2 DEF IsLive, Live, Ended
    <3>2. CASE ~ IsLive(s)
      <4>1. session'[s] = session[s]
        BY <1>3, <3>2 DEF Ends
      <4> QED BY <3>2, <4>1 DEF IsLive
    <3> QED BY <3>1, <3>2
  <2> QED BY <1>3, <2>1, NoneLiveFits DEF Ends
<1>4. CASE EndLease
  BY <1>1, <1>3, <1>4 DEF EndLease, Ended
<1>5. CASE CredentialChanges
  BY <1>3, <1>5 DEF CredentialChanges, Ended
<1>6. CASE LeaseAges
  <2>1. Held' /\ lease'.token = lease.token
    BY <1>6 DEF LeaseAges, Held, SeTypeOK
  <2>2. Held
    BY <1>6 DEF LeaseAges, Authorized, Held
  <2> QED BY <1>6, <2>1, <2>2 DEF LeaseAges, LiveInv, IsLive, objects
<1>7. ASSUME NEW s \in Sessions, EnsurePassword(s) PROVE LiveInv'
  <2> DEFINE fresh == AfterExpiry(LiveOfLease)
             live == {t \in LiveOfLease : fresh[t].status \in Live}
  <2>1. /\ Authorized
        /\ session' = [t \in Sessions |->
                         IF t = s THEN Reserved
                         ELSE IF t \in live THEN Terminated(fresh[t], "REVOKED")
                         ELSE fresh[t]]
        /\ UNCHANGED <<lease, usable, vault, ticket>>
    BY <1>7 DEF EnsurePassword, objects
  <2>2. ASSUME NEW t \in Sessions, t # s PROVE ~ IsLive(t)'
    <3>1. CASE t \in live
      <4>1. IsLive(t) /\ fresh[t].status \in Live
        BY <3>1 DEF LiveOfLease
      <4>2. session[t] \in Artifact
        BY <4>1, RowsOfStatus DEF IsLive, Live, SeTypeOK, Rows
      <4>3. fresh[t] \in Artifact
        <5>1. fresh[t] = session[t] \/ fresh[t] = StaleOf(t)
          BY DEF AfterExpiry
        <5>2. ASSUME NEW status \in Ended, fresh[t] = Terminated(session[t], status)
              PROVE  fresh[t] \in Artifact
          BY <4>2, <5>2 DEF Terminated, Artifact
        <5> QED BY <4>2, <5>1, <5>2, StaleEnds
      <4>4. session'[t] = Terminated(fresh[t], "REVOKED")
        BY <2>1, <2>2, <3>1
      <4>5. session'[t].status = "REVOKED"
        BY <4>3, <4>4 DEF Terminated, Artifact
      <4> QED BY <4>5 DEF IsLive, Live
    <3>2. CASE t \notin live
      <4>1. session'[t] = fresh[t]
        BY <2>1, <2>2, <3>2
      <4>2. CASE t \in LiveOfLease
        BY <3>2, <4>1, <4>2 DEF IsLive
      <4>3. CASE t \notin LiveOfLease
        <5>1. fresh[t] = session[t] /\ ~ IsLive(t)
          BY <1>1, <4>3 DEF AfterExpiry
        <5> QED BY <4>1, <5>1 DEF IsLive
      <4> QED BY <4>2, <4>3
    <3> QED BY <3>1, <3>2
  <2>3. session'[s] = Reserved
    BY <2>1
  <2>4. session'[s].status = "CREATING" /\ session'[s].lease = lease.token
    BY <2>3 DEF Reserved
  <2>5. Held /\ Held' = Held
    BY <2>1 DEF Authorized, Held
  <2>6. \A t \in Sessions : session'[t].status = "READY" => IsLive(t)'
    BY DEF IsLive, Live
  <2> QED BY <2>1, <2>2, <2>4, <2>5, <2>6 DEF LiveInv
<1>8. CASE \A s \in Sessions : ~ EnsurePassword(s)
  <2>1. ASSUME UNCHANGED <<lease, usable, vault>>, ticket' \in {ticket, "NONE"}
        PROVE  LiveInv'
    BY <1>8, <2>1, CalmStepsFit DEF LiveInv
  <2>2. CASE DependencyEdited
    BY <2>1, <2>2 DEF DependencyEdited, objects
  <2>3. CASE EnsureManual
    BY <1>8, <2>3, CalmStepsFit DEF EnsureManual, objects, Authorized, Held
  <2>4. ASSUME NEW s \in Sessions,
               \/ SessionAges(s) \/ LoginFails(s) \/ UploadTimesOut(s)
               \/ Finalize(s) \/ WorkerDies(s) \/ ClaimLapses(s)
        PROVE  LiveInv'
    BY <2>1, <2>4 DEF SessionAges, LoginFails, UploadTimesOut, Finalize, WorkerDies, ClaimLapses,
                      rows, objects
  <2>5. ASSUME NEW s \in Sessions, Seal(s) \/ UploadLands(s) PROVE LiveInv'
    <3>1. vault \subseteq vault' /\ UNCHANGED <<lease, usable, ticket>>
      BY <2>5 DEF Seal, UploadLands, Stored, rows
    <3> QED BY <1>8, <3>1, CalmStepsFit DEF LiveInv
  <2>6. ASSUME NEW j \in Janitors, Sweep(j) PROVE LiveInv'
    BY <2>1, <2>6 DEF Sweep, objects
  <2>7. ASSUME NEW c \in cleaning, Delete(c) PROVE LiveInv'
    <3>1. vault' = vault \ {c.session} /\ UNCHANGED <<lease, usable, ticket>>
      BY <2>7 DEF Delete, rows
    <3>2. session[c.session].status \in Gone
      BY DEF VaultInv
    <3> QED BY <1>8, <3>1, <3>2, CalmStepsFit DEF LiveInv
  <2>8. ASSUME NEW c \in cleaning, CleanupFails(c) \/ MarkDestroyed(c) PROVE LiveInv'
    BY <2>1, <2>8 DEF CleanupFails, MarkDestroyed, rows, objects
  <2>9. ASSUME NEW s \in Sessions,
               \/ SessionAges(s) \/ EnsurePassword(s)
               \/ Seal(s) \/ LoginFails(s) \/ UploadTimesOut(s) \/ UploadLands(s)
               \/ Finalize(s) \/ WorkerDies(s) \/ ClaimLapses(s)
        PROVE  LiveInv'
    BY <1>8, <2>4, <2>5, <2>9
  <2>10. ASSUME NEW c \in cleaning, Delete(c) \/ CleanupFails(c) \/ MarkDestroyed(c)
         PROVE  LiveInv'
    BY <2>7, <2>8, <2>10
  <2> QED BY <1>2, <1>4, <1>5, <1>6, <2>2, <2>3, <2>6, <2>9, <2>10 DEF SeNext
<1> QED BY <1>7, <1>8

-----------------------------------------------------------------------------
(* The vault *)

\* Where no object comes or goes, what has been sealed or deleted stays so.
LEMMA CalmVaultFits ==
  ASSUME SeTypeOK, VaultInv, Fitting,
         UNCHANGED <<vault, late>>,
         \A s \in Sessions : ~ EnsurePassword(s) \/ creator'[s] # "SEALED",
         \A s \in Sessions : creator'[s] = "SEALED" => creator[s] = "SEALED",
         \A c \in cleaning' :
           c \in cleaning \/ (c.at = "DELETE" /\ session'[c.session].status \in Gone),
         \A c \in cleaning : ~ MarkDestroyed(c)
  PROVE  VaultInv'
<1>1. ASSUME NEW s \in Sessions, creator'[s] = "SEALED", IsCreating(s)' PROVE s \in vault'
  <2>1. creator[s] = "SEALED" /\ IsCreating(s)
    BY <1>1 DEF Fitting, TurnFits, IsCreating
  <2> QED BY <2>1 DEF VaultInv
<1>2. ASSUME NEW c \in cleaning'
      PROVE  /\ session'[c.session].status \in Gone
             /\ c.at = "MARK" /\ c.session \in vault' => c.session \in late'
  <2>1. CASE c \in cleaning
    <3>1. c.session \in Sessions
      BY <2>1 DEF SeTypeOK, Cleanup
    <3> QED BY <2>1, <3>1 DEF VaultInv, Fitting, TurnFits
  <2> QED BY <1>2, <2>1
<1>3. OnlyLateUploadsStay'
  BY DEF VaultInv, Fitting, TurnFits, OnlyLateUploadsStay, SeTypeOK
<1> QED BY <1>1, <1>2, <1>3 DEF VaultInv

\* Where no row turns, an object that comes late is known as late, and one that
\* is deleted is gone.
LEMMA StoredFits ==
  ASSUME SeTypeOK, VaultInv, NEW s \in Sessions, Stored(s),
         UNCHANGED <<session, cleaning>>,
         \A t \in Sessions : creator'[t] = "SEALED" => creator[t] = "SEALED" \/ t = s
  PROVE  VaultInv'
<1>1. \A t \in Sessions : creator'[t] = "SEALED" /\ IsCreating(t)' => t \in vault'
  BY DEF VaultInv, Stored, IsCreating
<1>2. \A c \in cleaning' :
        /\ session'[c.session].status \in Gone
        /\ c.at = "MARK" /\ c.session \in vault' => c.session \in late'
  BY DEF VaultInv, Stored, Gone
<1>3. OnlyLateUploadsStay'
  BY DEF VaultInv, Stored, OnlyLateUploadsStay
<1> QED BY <1>1, <1>2, <1>3 DEF VaultInv

\* What is deleted belongs to a row that has been claimed, and is not missed.
LEMMA DeleteFits ==
  ASSUME SeTypeOK, VaultInv, NEW c \in cleaning, Delete(c)
  PROVE  VaultInv'
<1>1. /\ vault' = vault \ {c.session} /\ late' = late \ {c.session}
      /\ cleaning' = (cleaning \ {c}) \cup {[c EXCEPT !.at = "MARK"]}
      /\ UNCHANGED <<session, creator>>
  BY DEF Delete, rows
<1>2. session[c.session].status \in Gone /\ [c EXCEPT !.at = "MARK"].session = c.session
  BY DEF VaultInv, SeTypeOK, Cleanup
<1>3. \A s \in Sessions : creator'[s] = "SEALED" /\ IsCreating(s)' => s \in vault'
  <2>1. ~ IsCreating(c.session)
    BY <1>2 DEF IsCreating, Gone
  <2> QED BY <1>1, <2>1 DEF VaultInv, IsCreating
<1>4. \A d \in cleaning' :
        /\ session'[d.session].status \in Gone
        /\ d.at = "MARK" /\ d.session \in vault' => d.session \in late'
  BY <1>1, <1>2 DEF VaultInv
<1>5. OnlyLateUploadsStay'
  BY <1>1 DEF VaultInv, OnlyLateUploadsStay
<1> QED BY <1>3, <1>4, <1>5 DEF VaultInv

\* A row is marked after its object has been deleted, by that claim.
LEMMA MarkDestroyedFits ==
  ASSUME SeTypeOK, VaultInv, Fitting, NEW c \in cleaning, MarkDestroyed(c)
  PROVE  VaultInv'
<1>1. /\ c.at = "MARK" /\ cleaning' = cleaning \ {c}
      /\ UNCHANGED <<vault, late, creator>>
      /\ c.session \in Sessions
  BY DEF MarkDestroyed, objects, SeTypeOK, Cleanup
<1>2. \A s \in Sessions \ {c.session} : session'[s] = session[s]
  BY DEF MarkDestroyed, SeTypeOK
<1>3. session[c.session].status \in Gone /\ session'[c.session].status \in Gone
  BY <1>1 DEF VaultInv, Fitting, TurnFits
<1>4. \A s \in Sessions : creator'[s] = "SEALED" /\ IsCreating(s)' => s \in vault'
  BY <1>1, <1>2, <1>3 DEF VaultInv, IsCreating, Gone
<1>5. \A d \in cleaning' :
        /\ session'[d.session].status \in Gone
        /\ d.at = "MARK" /\ d.session \in vault' => d.session \in late'
  <2>1. \A d \in cleaning : d.session \in Sessions
    BY DEF SeTypeOK, Cleanup
  <2> QED BY <1>1, <2>1 DEF VaultInv, Fitting, TurnFits
<1>6. OnlyLateUploadsStay'
  <2>1. c.session \in vault => c.session \in late
    BY <1>1 DEF VaultInv
  <2>2. vault \subseteq Sessions
    BY DEF SeTypeOK
  <2> QED BY <1>1, <1>2, <2>1, <2>2 DEF VaultInv, OnlyLateUploadsStay
<1> QED BY <1>4, <1>5, <1>6 DEF VaultInv

\* Every step keeps what is known of the vault.
LEMMA StepsKeepVault ==
  ASSUME SeTypeOK, VaultInv, SeNext, Fitting
  PROVE  VaultInv'
<1>1. ASSUME NEW c \in cleaning, MarkDestroyed(c) PROVE VaultInv'
  BY <1>1, MarkDestroyedFits
<1>2. CASE \A c \in cleaning : ~ MarkDestroyed(c)
  <2> DEFINE Sealed == \A s \in Sessions : creator'[s] = "SEALED" => creator[s] = "SEALED"
  <2>1. ASSUME UNCHANGED <<vault, late>>, cleaning' \subseteq cleaning, Sealed,
               \A s \in Sessions : ~ EnsurePassword(s) \/ creator'[s] # "SEALED"
        PROVE  VaultInv'
    <3>1. \A c \in cleaning' :
            c \in cleaning \/ (c.at = "DELETE" /\ session'[c.session].status \in Gone)
      BY <2>1
    <3> QED BY <1>2, <2>1, <3>1, CalmVaultFits
  <2>2. ASSUME NEW s \in Sessions, EnsurePassword(s) PROVE VaultInv'
    <3>1. creator' = [creator EXCEPT ![s] = "LOGIN"] /\ session[s] = Absent
          /\ UNCHANGED <<vault, late, cleaning>>
      BY <2>2 DEF EnsurePassword, objects
    <3>2. Sealed /\ creator'[s] # "SEALED"
      BY <3>1 DEF SeTypeOK
    <3>3. ASSUME NEW t \in Sessions, EnsurePassword(t) PROVE creator'[t] # "SEALED"
      <4>1. creator' = [creator EXCEPT ![t] = "LOGIN"]
        BY <3>3 DEF EnsurePassword
      <4> QED BY <4>1 DEF SeTypeOK
    <3> QED BY <2>1, <3>1, <3>2, <3>3
  <2>3. CASE \A s \in Sessions : ~ EnsurePassword(s)
    <3>1. CASE \/ Acquire \/ EndLease \/ LeaseAges
               \/ CredentialChanges \/ DependencyEdited \/ EnsureManual
      BY <2>1, <2>3, <3>1 DEF Acquire, EndLease, LeaseAges, CredentialChanges, DependencyEdited,
                              EnsureManual, objects
    <3>2. ASSUME NEW s \in Sessions, SessionAges(s) \/ ClaimLapses(s) PROVE VaultInv'
      BY <2>1, <2>3, <3>2 DEF SessionAges, ClaimLapses, objects
    <3>3. ASSUME NEW s \in Sessions, NEW step \in {"NONE", "STALE"},
                 creator' = creator \/ Goes(s, step), UNCHANGED <<vault, late, cleaning>>
          PROVE  VaultInv'
      <4>1. Sealed
        BY <3>3 DEF Goes, SeTypeOK
      <4> QED BY <2>1, <2>3, <3>3, <4>1
    <3>4. ASSUME NEW s \in Sessions,
                 LoginFails(s) \/ UploadTimesOut(s) \/ Finalize(s) \/ WorkerDies(s)
          PROVE  VaultInv'
      <4>1. UNCHANGED <<vault, late, cleaning>> /\ (Goes(s, "NONE") \/ Goes(s, "STALE"))
        BY <3>4 DEF LoginFails, UploadTimesOut, Finalize, WorkerDies, objects
      <4> QED BY <3>3, <4>1
    <3>5. ASSUME NEW s \in Sessions, Seal(s) \/ UploadLands(s) PROVE VaultInv'
      <4>1. Stored(s) /\ UNCHANGED <<session, cleaning>> /\ (creator' = creator \/ Goes(s, "SEALED"))
        BY <3>5 DEF Seal, UploadLands, rows
      <4>2. \A t \in Sessions : creator'[t] = "SEALED" => creator[t] = "SEALED" \/ t = s
        BY <4>1 DEF Goes, SeTypeOK
      <4> QED BY <4>1, <4>2, StoredFits
    <3>6. ASSUME NEW j \in Janitors, Sweep(j) PROVE VaultInv'
      <4> DEFINE fresh == AfterExpiry(Sessions)
                 claimed == {s \in Sessions : Claimable(fresh[s])}
                 claims == [session : claimed, by : {j}, at : {"DELETE"}]
      <4>1. /\ session' = [s \in Sessions |->
                 IF s \in claimed
                 THEN [fresh[s] EXCEPT !.status = "DESTROYING", !.by = j, !.lapsed = FALSE]
                 ELSE fresh[s]]
            /\ cleaning' = cleaning \cup claims
            /\ UNCHANGED <<vault, late, creator>>
        BY <3>6 DEF Sweep, objects
      <4>2. ASSUME NEW s \in claimed PROVE session'[s].status = "DESTROYING"
        <5>1. fresh[s] \in Rows /\ fresh[s].status # "NONE"
          <6>1. fresh[s] = StaleOf(s) /\ session[s] \in Rows
            BY DEF AfterExpiry, SeTypeOK, Rows
          <6>2. CASE StaleOf(s) = session[s]
            BY <6>1, <6>2 DEF Claimable, Ended
          <6>3. ASSUME NEW status \in Ended, IsLive(s), StaleOf(s) = Terminated(session[s], status)
                PROVE  fresh[s] \in Rows
            <7>1. session[s] \in Artifact
              BY <6>1, <6>3, RowsOfStatus DEF IsLive, Live
            <7> QED BY <6>1, <6>3, <7>1 DEF Terminated, Artifact, Rows
          <6>4. fresh[s].status # "NONE"
            BY DEF Claimable, Ended
          <6> QED BY <6>1, <6>2, <6>3, <6>4, StaleEnds
        <5>2. fresh[s] \in Artifact
          BY <5>1, RowsOfStatus
        <5>3. session'[s] = [fresh[s] EXCEPT !.status = "DESTROYING", !.by = j, !.lapsed = FALSE]
          BY <4>1
        <5> QED BY <5>2, <5>3 DEF Artifact
      <4>3. \A c \in claims :
              c.at = "DELETE" /\ session'[c.session].status \in Gone
        BY <4>2 DEF Gone
      <4> HIDE DEF claims
      <4>4. \A c \in cleaning' : c \in cleaning \/ (c.at = "DELETE" /\ session'[c.session].status \in Gone)
        BY <4>1, <4>3
      <4>5. Sealed
        BY <4>1
      <4> QED BY <1>2, <2>3, <4>1, <4>4, <4>5, CalmVaultFits
    <3>7. ASSUME NEW c \in cleaning, Delete(c) \/ CleanupFails(c) PROVE VaultInv'
      <4>1. CASE CleanupFails(c)
        BY <2>1, <2>3, <4>1 DEF CleanupFails, Dropped, objects
      <4> QED BY <3>7, <4>1, DeleteFits
    <3>8. ASSUME NEW s \in Sessions,
                 \/ SessionAges(s) \/ EnsurePassword(s)
                 \/ Seal(s) \/ LoginFails(s) \/ UploadTimesOut(s) \/ UploadLands(s)
                 \/ Finalize(s) \/ WorkerDies(s) \/ ClaimLapses(s)
          PROVE  VaultInv'
      BY <2>3, <3>2, <3>4, <3>5, <3>8
    <3>9. ASSUME NEW c \in cleaning, Delete(c) \/ CleanupFails(c) \/ MarkDestroyed(c)
          PROVE  VaultInv'
      BY <1>2, <3>7, <3>9
    <3> QED BY <3>1, <3>6, <3>8, <3>9 DEF SeNext
  <2> QED BY <2>2, <2>3
<1> QED BY <1>1, <1>2

-----------------------------------------------------------------------------
(* The theorems *)

\* Nothing has been reserved at first.
LEMMA SeInitFits == SeInit => SessionInv
<1> SUFFICES ASSUME SeInit PROVE SessionInv
  OBVIOUS
<1>1. SeTypeOK
  BY SessionAssumption DEF SeInit, SeTypeOK, Leases, Steps, Absent
<1>2. \A s \in Sessions : session[s] = Absent /\ session[s].status = "NONE" /\ creator[s] = "NONE"
  BY DEF SeInit, Absent
<1>3. ticket = "NONE" /\ vault = {} /\ cleaning = {}
  BY DEF SeInit
<1> QED BY <1>1, <1>2, <1>3 DEF SessionInv, LiveInv, VaultInv, Metadata, OnlyLateUploadsStay,
                                IsLive, IsCreating, Live

\* The invariant is inductive.
LEMMA SeStepsFit == SessionInv /\ [SeNext]_sessionVars => SessionInv'
<1> SUFFICES ASSUME SessionInv, [SeNext]_sessionVars PROVE SessionInv'
  OBVIOUS
<1> USE DEF SessionInv
<1>1. CASE SeNext
  <2>1. /\ session' \in [Sessions -> Rows]
        /\ Fitting
        /\ Metadata'
    BY <1>1, StepsFitRows DEF Fitting
  <2> QED BY <1>1, <2>1, StepsKeepTypes, StepsKeepLive, StepsKeepVault
<1>2. CASE UNCHANGED sessionVars
  BY <1>2 DEF sessionVars, SeTypeOK, LiveInv, VaultInv, Metadata, OnlyLateUploadsStay,
              IsLive, IsCreating, Held
<1> QED BY <1>1, <1>2

\* It holds in every state that the services reach.
LEMMA AlwaysSessionInv == SeSpec => []SessionInv
  BY SeInitFits, SeStepsFit, PTL DEF SeSpec

\* One live session of a lease, what is given out usable, and nothing reported as
\* destroyed that is not (_prepare, finalize_ready, the triggers, run_once).
THEOREM SessionsFit == SeSpec => []SeInv
  BY AlwaysSessionInv, SessionInvIsSeInv, PTL

\* A turn of a row is one that the table's guard admits, or two.
LEMMA TurnsAreAdmitted ==
  ASSUME SeTypeOK, Metadata, NEW s \in Sessions, NEW new, session[s] # Absent,
         Turn(s, new), TurnFits(s, new)
  PROVE  \E row \in {session[s], StaleOf(s)} :
           ArtifactMove(session[s], row) /\ ArtifactMove(row, new)
<1> DEFINE old == session[s]
<1>1. old \in Artifact /\ StateMetadata(old) /\ ~ EnsurePassword(s)
  BY DEF SeTypeOK, Metadata, EnsurePassword
<1>2. \A row \in Artifact : ArtifactMove(row, row)
  BY DEF ArtifactMove, Artifact
<1>3. SUFFICES ASSUME new # old
               PROVE  \E row \in {old, StaleOf(s)} : ArtifactMove(old, row) /\ ArtifactMove(row, new)
  BY <1>1, <1>2
<1>4. ASSUME NEW row \in Artifact, StateMetadata(row), NEW j \in Janitors, Claimable(row),
             new = [row EXCEPT !.status = "DESTROYING", !.by = j, !.lapsed = FALSE]
      PROVE  ArtifactMove(row, new)
  <2>1. /\ new.status = "DESTROYING" /\ new.by = j /\ new.lease = row.lease
        /\ j # NoOne
    BY <1>4, SessionAssumption DEF Artifact
  <2>2. <<row.status, "DESTROYING">> \in ArtifactMoves
    BY <1>4 DEF Claimable, ArtifactMoves
  <2> QED BY <2>1, <2>2 DEF ArtifactMove, StateMetadata
<1>5. ASSUME IsLive(s), NEW status \in Ended, old.status = "READY" => status # "FAILED",
             NEW row, row = Terminated(old, status)
      PROVE  row \in Artifact /\ StateMetadata(row) /\ ArtifactMove(old, row)
  <2>1. row \in Artifact /\ row.status = status /\ row.by = old.by /\ row.lease = old.lease
    BY <1>1, <1>5 DEF Terminated, Artifact
  <2>2. <<old.status, status>> \in ArtifactMoves
    BY <1>5 DEF IsLive, Live, Ended, ArtifactMoves
  <2>3. StateMetadata(row)
    BY <1>1, <1>5, <2>1 DEF StateMetadata, IsLive, Live, Ended
  <2> QED BY <2>1, <2>2, <2>3 DEF ArtifactMove
<1>6. ASSUME NEW standing \in {"CHANGED", "LATE"}, new = [old EXCEPT !.standing = standing]
      PROVE  ArtifactMove(old, new)
  BY <1>1, <1>6 DEF ArtifactMove, Artifact
<1>7. ASSUME Publishable(s), new = [old EXCEPT !.status = "READY"]
      PROVE  ArtifactMove(old, new)
  BY <1>1, <1>7 DEF Publishable, IsCreating, ArtifactMove, ArtifactMoves, Artifact, StateMetadata
<1>8. ASSUME old.status = "DESTROYING",
             new = [old EXCEPT !.status = "DESTROYED", !.lapsed = FALSE]
      PROVE  ArtifactMove(old, new)
  BY <1>1, <1>8 DEF ArtifactMove, ArtifactMoves, Artifact, StateMetadata
<1>9. ASSUME new = [old EXCEPT !.lapsed = TRUE]
      PROVE  ArtifactMove(old, new)
  BY <1>1, <1>9 DEF ArtifactMove, Artifact
<1>10. ASSUME NEW row \in {old, StaleOf(s)}, NEW j \in Janitors, Claimable(row),
              new = [row EXCEPT !.status = "DESTROYING", !.by = j, !.lapsed = FALSE]
       PROVE  ArtifactMove(old, row) /\ ArtifactMove(row, new)
  <2>1. CASE row = old
    BY <1>1, <1>2, <1>4, <1>10, <2>1
  <2>2. CASE row # old
    <3>1. PICK status \in Ended :
            IsLive(s) /\ (old.status = "READY" => status # "FAILED") /\ row = Terminated(old, status)
      BY <1>10, <2>2, StaleEnds
    <3>2. row \in Artifact /\ StateMetadata(row) /\ ArtifactMove(old, row)
      BY <1>5, <3>1
    <3> QED BY <1>4, <1>10, <3>2
  <2> QED BY <2>1, <2>2
<1>11. ArtifactMove(old, old)
  BY <1>1, <1>2
<1> HIDE DEF old
<1>12. CASE ArtifactMove(old, new)
  BY <1>11, <1>12
<1>13. ASSUME NEW row \in {old, StaleOf(s)}, NEW j \in Janitors, Claimable(row),
              new = [row EXCEPT !.status = "DESTROYING", !.by = j, !.lapsed = FALSE]
       PROVE  \E r \in {old, StaleOf(s)} : ArtifactMove(old, r) /\ ArtifactMove(r, new)
  BY <1>10, <1>13
<1> QED BY <1>1, <1>3, <1>5, <1>6, <1>7, <1>8, <1>9, <1>12, <1>13 DEF Turn, old

\* No step of the services is refused by the guards of the table
\* (guard_browser_session_artifact_update, browser_session_artifact_state_metadata).
THEOREM SessionRowsAreAdmitted == SeSpec => SessionGuardsAdmit
<1> DEFINE Admitted ==
      \A s \in Sessions :
        \/ session[s] = Absent
        \/ \E row \in {session[s], StaleOf(s)} :
             ArtifactMove(session[s], row) /\ ArtifactMove(row, session'[s])
<1>1. SessionInv /\ [SeNext]_sessionVars => [Admitted]_sessionVars
  BY StepsTurnRows, StepsFitRows, TurnsAreAdmitted DEF SessionInv
<1> QED BY <1>1, AlwaysSessionInv, PTL DEF SeSpec, SessionGuardsAdmit

=============================================================================
