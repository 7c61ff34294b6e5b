-------------------------- MODULE TaskScheduleProofs --------------------------
(***************************************************************************)
(* Proofs about TaskSchedule, for any fires, dispatchers, revisions and       *)
(* bounds: the row, its intents and the fires agree, a settled pause keeps    *)
(* fires from making runs, and each intent is decided by its newest claim.    *)
(***************************************************************************)
EXTENDS TaskSchedule, TLAPS

-----------------------------------------------------------------------------
(* The invariant.  A settled pause holds because its row is left alone as long *)
(* as it is: a settled row has no claim on its newest intent, so nothing can    *)
(* be reported that would make a fire look older than it is.                 *)

\* What the row tells of its newest intent.
NewestOf(sync) ==
  CASE sync = "PENDING" -> {"PENDING", "CLAIMED"}
    [] sync = "RETRY_WAIT" -> {"RETRY_WAIT", "CLAIMED"}
    [] sync = "SYNCED" -> {"APPLIED"}
    [] sync = "FAILED" -> {"FAILED"}

BlankIntents == \A r \in Revisions : intent[r].status = "NONE" => intent[r] = NoIntent
LapsedClaims == \A r \in Revisions : intent[r].lapsed => intent[r].status = "CLAIMED"

RowInv ==
  /\ schedule \in Rows /\ production \in BOOLEAN /\ intent \in [Revisions -> Intents]
  /\ RowTellsOfIntent /\ BlankIntents /\ LapsedClaims
  /\ production => schedule.status = "PAUSED"

\* A fire under a settled pause is newer than the row, and is going to be passed
\* over.
HeldFires ==
  \A f \in Fires : fire[f].held =>
    /\ schedule.status = "PAUSED" /\ Settled
    /\ fire[f].fresh /\ ~ fire[f].run /\ fire[f].at \in {"STARTED", "ENDED"}

FireInv == fire \in [Fires -> FireRecords] /\ HeldFires

\* Nobody works under a claim of somebody else, or calls more often than allowed.
WorkInv ==
  /\ dispatchers \subseteq Works
  /\ temporal \in Statuses \cup {"NONE"} /\ patches \subseteq Statuses
  /\ \A d \in dispatchers :
       /\ d.at \in {"CREATE", "DESCRIBE", "SET"} => d.rpcs < RpcAttempts
       /\ d.dispatch <= intent[d.revision].dispatch
       /\ \A e \in dispatchers : e.revision = d.revision /\ e.dispatch = d.dispatch => e = d

ScheduleInv == RowInv /\ FireInv /\ WorkInv

\* It is all that ScInv says.
LEMMA ScheduleInvIsScInv == ScheduleInv => ScInv
  BY DEF ScheduleInv, RowInv, FireInv, HeldFires, WorkInv, ScInv, TypeOK, SettledPauseHolds

\* The parts of what the row tells.
LEMMA RowTells ==
  RowTellsOfIntent <=>
    /\ schedule.status = Desired(schedule.revision)
    /\ intent[schedule.revision].status \in NewestOf(schedule.sync)
    /\ \A r \in Revisions : (intent[r].status = "NONE") = (r > schedule.revision)
    /\ \A r \in Revisions : intent[r].status = "APPLIED" => r <= schedule.synced
    /\ schedule.synced > 0 => intent[schedule.synced].status = "APPLIED"
  BY DEF RowTellsOfIntent, NewestOf

\* Statuses alternate with the revisions.
LEMMA DesiredAlternates ==
  ASSUME NEW r \in Nat
  PROVE  /\ Desired(r) \in Statuses
         /\ \A status \in Statuses : status # Desired(r) => Desired(r + 1) = status
  BY DEF Desired, Statuses

\* The fields of a row.
LEMMA RowFields ==
  ASSUME RowInv
  PROVE  /\ schedule.status \in Statuses /\ schedule.revision \in Revisions
         /\ schedule.sync \in {"PENDING", "RETRY_WAIT", "SYNCED", "FAILED"}
         /\ schedule.synced \in 0..MaxRevision
         /\ MaxRevision \in Nat /\ schedule.revision \in Nat /\ schedule.synced \in Nat
         /\ schedule.synced <= schedule.revision
<1>1. /\ schedule.status \in Statuses /\ schedule.revision \in Revisions
      /\ schedule.sync \in {"PENDING", "RETRY_WAIT", "SYNCED", "FAILED"}
      /\ schedule.synced \in 0..MaxRevision
  BY DEF RowInv, Rows
<1>2. MaxRevision \in Nat
  BY ScheduleAssumption
<1>3. schedule.revision \in Nat /\ schedule.synced \in Nat
  BY <1>1, <1>2 DEF Revisions
<1>4. schedule.synced <= schedule.revision
  BY <1>1, <1>2, <1>3, RowTells DEF RowInv, Revisions
<1> QED
  BY <1>1, <1>2, <1>3, <1>4

-----------------------------------------------------------------------------
(* The row and its intents *)

\* A transition asks for the other status and leaves a new intent.
LEMMA TransitionKeeps ==
  ASSUME RowInv, NEW status \in Statuses, status # schedule.status,
         schedule.revision < MaxRevision, Transitioned(status),
         production' \in BOOLEAN, production' => status = "PAUSED"
  PROVE  RowInv'
<1> DEFINE next == schedule.revision + 1
<1>0. RowTellsOfIntent /\ schedule \in Rows /\ intent \in [Revisions -> Intents]
  BY DEF RowInv
<1>1. next \in Revisions /\ next \in Nat
  BY RowFields DEF Revisions
<1>2. /\ schedule' \in Rows
      /\ schedule'.status = status /\ schedule'.revision = next
      /\ schedule'.sync = "PENDING" /\ schedule'.synced = schedule.synced
  <2>1. schedule' = [schedule EXCEPT !.status = status, !.revision = next, !.sync = "PENDING"]
    BY DEF Transitioned
  <2> HIDE DEF next
  <2> QED
    BY <1>0, <1>1, <2>1 DEF Rows
<1>3. NewIntent \in Intents /\ NewIntent.status = "PENDING" /\ ~ NewIntent.lapsed
  BY DEF NewIntent, NoIntent, Intents
<1>4. /\ intent' \in [Revisions -> Intents] /\ intent'[next] = NewIntent
      /\ \A r \in Revisions \ {next} : intent'[r] = intent[r]
  BY <1>0, <1>1, <1>3 DEF Transitioned
<1>5. Desired(next) = status
  BY <1>0, RowFields, RowTells, DesiredAlternates
<1>6. schedule.synced # next
  BY RowFields
<1>7. RowTellsOfIntent'
  <2>1. intent'[next].status \in NewestOf("PENDING")
    BY <1>3, <1>4 DEF NewestOf
  <2>2. \A r \in Revisions : (intent'[r].status = "NONE") = (r > next)
    BY <1>0, <1>1, <1>3, <1>4, RowTells, RowFields DEF Revisions
  <2>3. \A r \in Revisions : intent'[r].status = "APPLIED" => r <= schedule.synced
    BY <1>0, <1>3, <1>4, RowTells
  <2>4. schedule.synced > 0 => intent'[schedule.synced].status = "APPLIED"
    BY <1>0, <1>4, <1>6, RowTells, RowFields DEF Revisions
  <2> HIDE DEF next
  <2> QED
    BY <1>2, <1>5, <2>1, <2>2, <2>3, <2>4, RowTells DEF RowTellsOfIntent, NewestOf
<1>8. BlankIntents' /\ LapsedClaims'
  BY <1>3, <1>4 DEF BlankIntents, LapsedClaims, RowInv
<1> HIDE DEF next
<1> QED
  BY <1>2, <1>4, <1>7, <1>8 DEF RowInv

\* Intents that go on among the states that are open keep the row true.
LEMMA OpenIntentsMove ==
  ASSUME RowInv, UNCHANGED <<schedule, production>>, intent' \in [Revisions -> Intents],
         \A r \in Revisions :
           \/ intent'[r].status = intent[r].status /\ (intent'[r].lapsed => intent'[r].status = "CLAIMED")
              /\ (intent[r].status = "NONE" => intent'[r] = intent[r])
           \/ /\ intent[r].status \in Open /\ ~ intent'[r].lapsed
              /\ \/ r = schedule.revision /\ intent'[r].status = "CLAIMED"
                 \/ r < schedule.revision /\ intent'[r].status \notin {"NONE", "APPLIED"}
  PROVE  RowInv'
<1>1. /\ schedule.revision \in Revisions /\ schedule.synced \in Nat /\ MaxRevision \in Nat
      /\ schedule.synced <= schedule.revision /\ schedule.revision \in Nat
      /\ schedule.sync \in {"PENDING", "RETRY_WAIT", "SYNCED", "FAILED"}
  BY RowFields
<1>2. intent'[schedule.revision].status \in NewestOf(schedule.sync)
  BY <1>1, RowTells DEF RowInv, NewestOf, Open
<1>3. \A r \in Revisions : (intent'[r].status = "NONE") = (r > schedule.revision)
  BY <1>1, RowTells DEF RowInv, Open, Revisions
<1>4. \A r \in Revisions : intent'[r].status = "APPLIED" => r <= schedule.synced
  BY RowTells DEF RowInv
<1>5. schedule.synced > 0 => intent'[schedule.synced].status = "APPLIED"
  BY <1>1, RowTells DEF RowInv, Open, Revisions
<1>6. RowTellsOfIntent'
  BY <1>2, <1>3, <1>4, <1>5, RowTells DEF RowInv, RowTellsOfIntent, NewestOf
<1>7. BlankIntents' /\ LapsedClaims'
  BY DEF BlankIntents, LapsedClaims, RowInv, Open
<1> QED
  BY <1>6, <1>7 DEF RowInv

\* The report of a dispatcher is dropped, or decides its intent in one of these
\* ways, of which the row is told.
NewestDecided(d) ==
  /\ OwnsClaim(d) /\ d.revision = schedule.revision
  /\ \/ Decides(d, "APPLIED", "SYNCED")
     \/ Decides(d, "RETRY_WAIT", "RETRY_WAIT")
     \/ Decides(d, "FAILED", "FAILED")

\* ... or an intent that was overtaken.
OlderDecided(d) ==
  /\ OwnsClaim(d) /\ d.revision # schedule.revision
  /\ \/ Decides(d, "SUPERSEDED", "NONE")
     \/ Decides(d, "RETRY_WAIT", "RETRY_WAIT")
     \/ Decides(d, "FAILED", "FAILED")

\* What the report of a dispatcher does.
LEMMA OutcomeSplits ==
  ASSUME NEW d \in dispatchers, Outcome(d)
  PROVE  /\ dispatchers' = dispatchers \ {d}
         /\ UNCHANGED <<production, temporal, patches>>
         /\ \/ ~ OwnsClaim(d) /\ UNCHANGED <<schedule, intent, fire>>
            \/ NewestDecided(d)
            \/ OlderDecided(d)
<1>1. d.at \in {"DONE", "TRANSIENT", "INVALID"}
  BY DEF Outcome
<1>2. dispatchers' = dispatchers \ {d} /\ UNCHANGED <<production, temporal, patches>>
  BY DEF Outcome
<1>3. CASE ~ OwnsClaim(d)
  BY <1>2, <1>3 DEF Outcome
<1>4. CASE OwnsClaim(d) /\ d.at = "DONE"
  BY <1>2, <1>4 DEF Outcome, NewestDecided, OlderDecided
<1>5. CASE OwnsClaim(d) /\ d.at # "DONE"
  <2>1. Decides(d, "RETRY_WAIT", "RETRY_WAIT") \/ Decides(d, "FAILED", "FAILED")
    BY <1>1, <1>5 DEF Outcome
  <2> QED
    BY <1>2, <1>5, <2>1 DEF NewestDecided, OlderDecided
<1> QED
  BY <1>3, <1>4, <1>5

\* What a decision makes of the row of an intent.
LEMMA DecidedRow ==
  ASSUME NEW row \in Intents, NEW status \in {"APPLIED", "RETRY_WAIT", "FAILED", "SUPERSEDED"},
         NEW new, new = Decided(row, status)
  PROVE  /\ new \in Intents /\ new.status = status /\ ~ new.lapsed
         /\ new.dispatch = row.dispatch + 1
<1>1. row.dispatch + 1 \in Nat
  BY DEF Intents
<1> QED
  BY <1>1 DEF Intents, Decided

\* A claim that decides the newest intent tells the row of what it decided.
LEMMA NewestDecidedKeeps ==
  ASSUME RowInv, UNCHANGED production,
         NEW d, d.revision \in Revisions, NewestDecided(d)
  PROVE  RowInv'
<1> DEFINE r == schedule.revision
<1>0. /\ RowTellsOfIntent /\ schedule \in Rows /\ intent \in [Revisions -> Intents]
      /\ r \in Revisions /\ r \in Nat /\ d.revision = r /\ intent[r].status = "CLAIMED"
  BY RowFields DEF RowInv, NewestDecided, OwnsClaim
<1>1. PICK status, sync :
        /\ \/ status = "APPLIED" /\ sync = "SYNCED"
           \/ status = "RETRY_WAIT" /\ sync = "RETRY_WAIT"
           \/ status = "FAILED" /\ sync = "FAILED"
        /\ Decides(d, status, sync)
  BY DEF NewestDecided
<1>2. schedule' = [schedule EXCEPT !.sync = sync,
                     !.synced = IF sync = "SYNCED" THEN r ELSE @]
  BY <1>0, <1>1 DEF Decides
<1>3. /\ schedule' \in Rows /\ schedule'.status = schedule.status /\ schedule'.revision = r
      /\ schedule'.sync = sync
      /\ schedule'.synced = IF sync = "SYNCED" THEN r ELSE schedule.synced
  <2> DEFINE mark == IF sync = "SYNCED" THEN r ELSE schedule.synced
  <2>1. mark \in 0..MaxRevision /\ sync \in {"PENDING", "RETRY_WAIT", "SYNCED", "FAILED"}
    BY <1>0, <1>1, RowFields DEF Revisions
  <2>2. schedule' = [schedule EXCEPT !.sync = sync, !.synced = mark]
    BY <1>2
  <2> HIDE DEF mark
  <2>3. /\ schedule' \in Rows /\ schedule'.status = schedule.status
        /\ schedule'.revision = schedule.revision
        /\ schedule'.sync = sync /\ schedule'.synced = mark
    BY <1>0, <2>1, <2>2 DEF Rows
  <2> QED
    BY <2>3 DEF mark
<1> DEFINE new == Decided(intent[r], status)
<1>4. new \in Intents /\ new.status = status /\ ~ new.lapsed
  <2>1. intent[r] \in Intents /\ status \in {"APPLIED", "RETRY_WAIT", "FAILED", "SUPERSEDED"}
    BY <1>0, <1>1
  <2> QED
    BY <2>1, DecidedRow
<1>5. /\ intent' \in [Revisions -> Intents] /\ intent'[r] = new
      /\ \A s \in Revisions \ {r} : intent'[s] = intent[s]
  BY <1>0, <1>1, <1>4 DEF Decides
<1> HIDE DEF new
<1>6. intent'[r].status \in NewestOf(sync)
  BY <1>1, <1>4, <1>5 DEF NewestOf
<1>7. \A s \in Revisions : (intent'[s].status = "NONE") = (s > r)
  BY <1>0, <1>1, <1>4, <1>5, RowTells DEF Revisions
<1>8. \A s \in Revisions : intent'[s].status = "APPLIED" => s <= schedule'.synced
  BY <1>0, <1>1, <1>3, <1>4, <1>5, RowTells, RowFields DEF Revisions
<1>9. schedule'.synced > 0 => intent'[schedule'.synced].status = "APPLIED"
  BY <1>0, <1>1, <1>3, <1>4, <1>5, RowTells, RowFields DEF Revisions
<1>10. RowTellsOfIntent'
  <2>1. schedule'.status = Desired(schedule'.revision)
    BY <1>0, <1>3, RowTells
  <2> HIDE DEF r
  <2> QED
    BY <1>3, <1>6, <1>7, <1>8, <1>9, <2>1 DEF RowTellsOfIntent, NewestOf
<1>11. BlankIntents' /\ LapsedClaims'
  BY <1>0, <1>1, <1>4, <1>5 DEF BlankIntents, LapsedClaims, RowInv
<1> QED
  BY <1>3, <1>5, <1>10, <1>11 DEF RowInv

\* A claim on an older intent leaves the row alone.
LEMMA OlderDecidedKeeps ==
  ASSUME RowInv, UNCHANGED production,
         NEW d, d.revision \in Revisions, OlderDecided(d)
  PROVE  RowInv' /\ UNCHANGED <<schedule, fire>>
<1>0. /\ RowTellsOfIntent /\ intent \in [Revisions -> Intents]
      /\ d.revision # schedule.revision /\ intent[d.revision].status = "CLAIMED"
  BY DEF RowInv, OlderDecided, OwnsClaim
<1>1. \E status \in {"SUPERSEDED", "RETRY_WAIT", "FAILED"} : \E sync : Decides(d, status, sync)
  BY DEF OlderDecided
<1>a. PICK status \in {"SUPERSEDED", "RETRY_WAIT", "FAILED"} : \E sync : Decides(d, status, sync)
  BY <1>1
<1>b. PICK sync : Decides(d, status, sync)
  BY <1>a
<1>2. d.revision < schedule.revision
  BY <1>0, RowTells, RowFields DEF Revisions
<1> DEFINE new == Decided(intent[d.revision], status)
<1>3. new \in Intents /\ new.status = status /\ ~ new.lapsed
  <2>1. intent[d.revision] \in Intents
    BY <1>0
  <2> QED
    BY <2>1, DecidedRow
<1>4. /\ intent' \in [Revisions -> Intents] /\ intent'[d.revision] = new
      /\ \A s \in Revisions \ {d.revision} : intent'[s] = intent[s]
  BY <1>0, <1>b, <1>3 DEF Decides
<1>5. UNCHANGED <<schedule, fire>>
  BY <1>0, <1>b DEF Decides
<1> HIDE DEF new
<1>6. RowInv'
  BY <1>0, <1>2, <1>3, <1>4, <1>5, OpenIntentsMove DEF Open, RowInv, LapsedClaims
<1> QED
  BY <1>5, <1>6

\* Claims take what is due and supersede what is outdated.
LEMMA ClaimKeeps ==
  ASSUME RowInv, Claim
  PROVE  RowInv'
<1>0. /\ intent \in [Revisions -> Intents] /\ BlankIntents /\ LapsedClaims
      /\ UNCHANGED <<schedule, production>> /\ schedule.revision \in Nat
  BY RowFields DEF RowInv, Claim
<1>1. \A r \in Revisions :
        /\ Superseded(intent[r]) \in Intents /\ Superseded(intent[r]).status = "SUPERSEDED"
        /\ ~ Superseded(intent[r]).lapsed
        /\ ClaimedAgain(intent[r]) \in Intents /\ ClaimedAgain(intent[r]).status = "CLAIMED"
        /\ ~ ClaimedAgain(intent[r]).lapsed
  <2> TAKE r \in Revisions
  <2>1. intent[r] \in Intents /\ intent[r].dispatch + 1 \in Nat /\ intent[r].attempts + 1 \in Nat
    BY <1>0 DEF Intents
  <2> QED
    BY <2>1 DEF Superseded, ClaimedAgain, Intents
<1>2. intent' = [r \in Revisions |->
        IF Outdated(r) THEN Superseded(intent[r])
        ELSE IF Claimable(r) THEN ClaimedAgain(intent[r])
        ELSE intent[r]]
  BY DEF Claim
<1>3. intent' \in [Revisions -> Intents]
  BY <1>0, <1>1, <1>2
<1>4. \A r \in Revisions : Outdated(r) => r < schedule.revision /\ intent[r].status \in Open
  BY DEF Outdated
<1>5. \A r \in Revisions : Claimable(r) => r = schedule.revision /\ intent[r].status \in Open
  BY <1>0 DEF Claimable, LapsedClaims, Open
<1>6. \A r \in Revisions :
        \/ intent'[r] = intent[r]
        \/ /\ intent[r].status \in Open /\ ~ intent'[r].lapsed
           /\ \/ r = schedule.revision /\ intent'[r].status = "CLAIMED"
              \/ r < schedule.revision /\ intent'[r].status = "SUPERSEDED"
  BY <1>1, <1>2, <1>4, <1>5
<1> QED
  BY <1>0, <1>3, <1>6, OpenIntentsMove DEF LapsedClaims

\* A claim that lapses stays a claim.
LEMMA LapseKeeps ==
  ASSUME RowInv, NEW r \in Revisions, Lapse(r)
  PROVE  RowInv' /\ intent'[r].dispatch = intent[r].dispatch
         /\ \A s \in Revisions \ {r} : intent'[s] = intent[s]
<1>0. /\ intent \in [Revisions -> Intents] /\ BlankIntents /\ LapsedClaims
      /\ UNCHANGED <<schedule, production>> /\ intent[r].status = "CLAIMED"
  BY DEF RowInv, Lapse
<1> DEFINE new == [intent[r] EXCEPT !.lapsed = TRUE]
<1>1. /\ new \in Intents /\ new.status = intent[r].status /\ new.dispatch = intent[r].dispatch
  BY <1>0 DEF Intents
<1>2. intent' = [intent EXCEPT ![r] = new]
  BY DEF Lapse
<1> HIDE DEF new
<1>3. intent' \in [Revisions -> Intents] /\ intent'[r] = new
      /\ \A s \in Revisions \ {r} : intent'[s] = intent[s]
  BY <1>0, <1>1, <1>2
<1>4. RowInv'
  BY <1>0, <1>1, <1>3, OpenIntentsMove DEF LapsedClaims
<1> QED
  BY <1>1, <1>3, <1>4

-----------------------------------------------------------------------------
(* Steps, by what they may change *)

\* A command, or the trigger of a production environment, asks for another status.
Commands ==
  /\ schedule.revision < MaxRevision
  /\ \E status \in Statuses :
       /\ status # schedule.status /\ Transitioned(status)
       /\ production' \in BOOLEAN /\ (production' => status = "PAUSED")
  /\ UNCHANGED <<dispatchers, temporal, patches>>

\* An environment changes and the schedule stays as it is.
Reclassifies ==
  /\ production' \in BOOLEAN /\ (production' => schedule.status = "PAUSED")
  /\ UNCHANGED <<schedule, intent, dispatchers, temporal, patches, fire>>

\* A dispatcher goes on or vanishes, or a call comes late.
Calls ==
  /\ \/ \E d \in dispatchers : \/ Crash(d) \/ Create(d) \/ Describe(d) \/ Set(d)
                               \/ RpcFails(d) \/ RpcRefused(d)
     \/ \E status \in patches : Late(status)
     \/ UNCHANGED vars
  /\ UNCHANGED <<schedule, production, intent, fire>>

\* A fire goes on.
FireActs ==
  /\ \E f \in Fires : Start(f) \/ ReadRow(f) \/ Launch(f) \/ ActivityLost(f) \/ FireFails(f)
  /\ UNCHANGED <<schedule, production, intent, dispatchers, patches>>

\* These are all the steps there are.
LEMMA StepKinds ==
  ASSUME RowInv, [Next]_vars
  PROVE  \/ Commands \/ Reclassifies \/ Claim \/ Calls \/ FireActs
         \/ \E r \in Revisions : Lapse(r)
         \/ \E d \in dispatchers : Outcome(d)
<1>1. CASE Pause
  BY <1>1, RowFields DEF Pause, Commands, Statuses, RowInv
<1>2. CASE Resume
  BY <1>2, RowFields DEF Resume, Commands, Statuses, RowInv
<1>3. CASE Reclassify
  <2>1. CASE schedule.status = "ACTIVE"
    BY <1>3, <2>1, RowFields DEF Reclassify, Commands, Statuses
  <2>2. CASE schedule.status # "ACTIVE"
    BY <1>3, <2>2, RowFields DEF Reclassify, Reclassifies, Statuses
  <2> QED
    BY <2>1, <2>2
<1>4. CASE Declassify
  BY <1>4 DEF Declassify, Reclassifies
<1>5. CASE DispatcherActs
  BY <1>5 DEF DispatcherActs, Calls, Create, Describe, Set
<1>6. CASE \E r \in Revisions : Lapse(r)
  BY <1>6
<1>7. CASE \E d \in dispatchers : Crash(d) \/ RpcFails(d) \/ RpcRefused(d)
  BY <1>7 DEF Calls, Crash, RpcFails, RpcRefused
<1>8. CASE \E status \in patches : Late(status)
  BY <1>8 DEF Calls, Late
<1>9. CASE \E f \in Fires : Start(f) \/ ReadRow(f) \/ Launch(f) \/ ActivityLost(f) \/ FireFails(f)
  BY <1>9 DEF FireActs, Start, ReadRow, Launch, ActivityLost, FireFails
<1>10. CASE UNCHANGED vars
  BY <1>10 DEF Calls, vars
<1> QED
  BY <1>1, <1>2, <1>3, <1>4, <1>5, <1>6, <1>7, <1>8, <1>9, <1>10 DEF Next

\* Every step keeps the row and its intents in agreement.
LEMMA RowStep ==
  ASSUME RowInv, dispatchers \subseteq Works, [Next]_vars
  PROVE  RowInv'
<1>1. CASE Commands
  BY <1>1, TransitionKeeps DEF Commands
<1>2. CASE Reclassifies
  BY <1>2 DEF Reclassifies, RowInv, RowTellsOfIntent, BlankIntents, LapsedClaims
<1>3. CASE Claim
  BY <1>3, ClaimKeeps
<1>4. CASE Calls \/ FireActs
  <2>1. UNCHANGED <<schedule, production, intent>>
    BY <1>4 DEF Calls, FireActs
  <2> QED
    BY <2>1 DEF RowInv, RowTellsOfIntent, BlankIntents, LapsedClaims
<1>5. CASE \E r \in Revisions : Lapse(r)
  BY <1>5, LapseKeeps
<1>6. ASSUME NEW d \in dispatchers, Outcome(d) PROVE RowInv'
  <2>1. d.revision \in Revisions
    BY DEF Works
  <2>2. UNCHANGED production
    BY <1>6, OutcomeSplits
  <2>3. CASE UNCHANGED <<schedule, intent, fire>>
    BY <2>2, <2>3 DEF RowInv, RowTellsOfIntent, BlankIntents, LapsedClaims
  <2>4. CASE NewestDecided(d)
    BY <2>1, <2>2, <2>4, NewestDecidedKeeps
  <2>5. CASE OlderDecided(d)
    BY <2>1, <2>2, <2>5, OlderDecidedKeeps
  <2> QED
    BY <1>6, <2>3, <2>4, <2>5, OutcomeSplits
<1> QED
  BY <1>1, <1>2, <1>3, <1>4, <1>5, <1>6, StepKinds

-----------------------------------------------------------------------------
(* The fires *)

\* No fire is held under a pause that is lifted or not settled, so a command or a
\* report cannot touch one that is.
LEMMA NoneHeld ==
  ASSUME RowInv, FireInv,
         \/ schedule.status = "ACTIVE"
         \/ \E d \in dispatchers : d.revision \in Revisions /\ NewestDecided(d)
  PROVE  \A f \in Fires : ~ fire[f].held
<1>1. CASE schedule.status = "ACTIVE"
  BY <1>1 DEF FireInv, HeldFires
<1>2. ASSUME NEW d \in dispatchers, NewestDecided(d) PROVE ~ Settled
  <2>1. intent[schedule.revision].status = "CLAIMED"
    BY <1>2 DEF NewestDecided, OwnsClaim
  <2> QED
    BY <2>1, RowTells DEF RowInv, NewestOf, Settled
<1> QED
  BY <1>1, <1>2 DEF FireInv, HeldFires

\* The fields of a fire that the row has moved past.
LEMMA TouchedFires ==
  ASSUME fire \in [Fires -> FireRecords]
  PROVE  /\ Touched(fire) \in [Fires -> FireRecords]
         /\ \A f \in Fires : Touched(fire)[f].held = fire[f].held
  BY DEF Touched, FireRecords

\* Every step keeps the held fires from going on.
LEMMA FireStep ==
  ASSUME RowInv, FireInv, dispatchers \subseteq Works, [Next]_vars
  PROVE  FireInv'
<1>0. fire \in [Fires -> FireRecords] /\ HeldFires
  BY DEF FireInv
<1>1. CASE Commands
  <2>1. PICK status \in Statuses : status # schedule.status /\ Transitioned(status)
    BY <1>1 DEF Commands
  <2> DEFINE after(f) == [Touched(fire)[f] EXCEPT
                           !.held = @ /\ status = "PAUSED", !.paused = @ /\ status = "PAUSED"]
  <2>2. fire' = [f \in Fires |-> after(f)]
    BY <2>1 DEF Transitioned
  <2>3. \A f \in Fires : after(f) \in FireRecords /\ (after(f).held => fire[f].held /\ status = "PAUSED")
    <3> TAKE f \in Fires
    <3> DEFINE t == Touched(fire)[f]
    <3>1. t \in FireRecords /\ t.held = fire[f].held
      BY <1>0, TouchedFires
    <3> DEFINE h == t.held /\ status = "PAUSED"
               p == t.paused /\ status = "PAUSED"
    <3>2. after(f) = [t EXCEPT !.held = h, !.paused = p]
      OBVIOUS
    <3>3. h \in BOOLEAN /\ p \in BOOLEAN /\ (h => fire[f].held /\ status = "PAUSED")
      BY <3>1
    <3> HIDE DEF t, h, p
    <3>4. [t EXCEPT !.held = h, !.paused = p] \in FireRecords
          /\ [t EXCEPT !.held = h, !.paused = p].held = h
      BY <3>1, <3>3 DEF FireRecords
    <3> QED
      BY <3>2, <3>3, <3>4
  <2> HIDE DEF after
  <2>4. status = "PAUSED" => schedule.status = "ACTIVE"
    BY <2>1, RowFields DEF Statuses
  <2>5. fire' \in [Fires -> FireRecords] /\ \A f \in Fires : ~ fire'[f].held
    BY <2>2, <2>3, <2>4, NoneHeld
  <2> QED
    BY <2>5 DEF FireInv, HeldFires
<1>2. CASE UNCHANGED <<schedule, fire>>
  BY <1>0, <1>2 DEF FireInv, HeldFires, Settled
<1>3. CASE FireActs
  <2>1. UNCHANGED schedule
    BY <1>3 DEF FireActs
  <2>2. PICK f \in Fires : Start(f) \/ ReadRow(f) \/ Launch(f) \/ ActivityLost(f) \/ FireFails(f)
    BY <1>3 DEF FireActs
  <2>3. fire[f] \in FireRecords
    BY <1>0
  <2>4. PICK new : fire' = [fire EXCEPT ![f] = new] /\ new \in FireRecords
                   /\ (new.held => /\ schedule.status = "PAUSED" /\ Settled
                                   /\ new.fresh /\ ~ new.run /\ new.at \in {"STARTED", "ENDED"})
    <3>1. CASE Start(f)
      <4> DEFINE n == [at |-> "STARTED", fresh |-> TRUE, run |-> FALSE,
                       paused |-> schedule.status = "PAUSED",
                       held |-> schedule.status = "PAUSED" /\ Settled]
      <4>1. n \in FireRecords /\ n.fresh /\ ~ n.run /\ n.at = "STARTED"
            /\ (n.held => schedule.status = "PAUSED" /\ Settled)
        BY DEF FireRecords
      <4>2. fire' = [fire EXCEPT ![f] = n]
        BY <3>1 DEF Start
      <4> HIDE DEF n
      <4> QED
        BY <4>1, <4>2
    <3>2. CASE ReadRow(f)
      <4> DEFINE n == [fire[f] EXCEPT !.at = IF Skips(f) THEN "ENDED" ELSE "LAUNCH"]
      <4>1. n \in FireRecords /\ n.held = fire[f].held /\ n.fresh = fire[f].fresh
            /\ n.run = fire[f].run /\ n.at = IF Skips(f) THEN "ENDED" ELSE "LAUNCH"
        BY <2>3 DEF FireRecords
      <4>2. fire' = [fire EXCEPT ![f] = n]
        BY <3>2 DEF ReadRow
      <4> HIDE DEF n
      <4> QED
        BY <1>0, <4>1, <4>2 DEF HeldFires, Skips
    <3>3. CASE Launch(f)
      <4> DEFINE n == [fire[f] EXCEPT !.at = "ENDED", !.run = TRUE]
      <4>1. n \in FireRecords /\ n.held = fire[f].held
        BY <2>3 DEF FireRecords
      <4>2. fire' = [fire EXCEPT ![f] = n]
        BY <3>3 DEF Launch
      <4>3. ~ fire[f].held
        BY <1>0, <3>3 DEF HeldFires, Launch
      <4> HIDE DEF n
      <4> QED
        BY <4>1, <4>2, <4>3
    <3>4. CASE ActivityLost(f)
      <4>1. CASE fire' = [fire EXCEPT ![f].at = "STARTED"]
        <5> DEFINE n == [fire[f] EXCEPT !.at = "STARTED"]
        <5>1. n \in FireRecords /\ n.held = fire[f].held /\ n.fresh = fire[f].fresh
              /\ n.run = fire[f].run /\ n.at = "STARTED"
          BY <2>3 DEF FireRecords
        <5>2. fire' = [fire EXCEPT ![f] = n]
          BY <4>1
        <5> HIDE DEF n
        <5> QED
          BY <1>0, <5>1, <5>2 DEF HeldFires
      <4>2. CASE fire[f].at = "LAUNCH" /\ fire' = [fire EXCEPT ![f].at = "STARTED", ![f].run = TRUE]
        <5> DEFINE n == [fire[f] EXCEPT !.at = "STARTED", !.run = TRUE]
        <5>1. n \in FireRecords /\ n.held = fire[f].held
          BY <2>3 DEF FireRecords
        <5>2. fire' = [fire EXCEPT ![f] = n]
          BY <4>2
        <5>3. ~ fire[f].held
          BY <1>0, <4>2 DEF HeldFires
        <5> HIDE DEF n
        <5> QED
          BY <5>1, <5>2, <5>3
      <4> QED
        BY <3>4, <4>1, <4>2 DEF ActivityLost
    <3>5. CASE FireFails(f)
      <4> DEFINE n == [fire[f] EXCEPT !.at = "ENDED"]
      <4>1. n \in FireRecords /\ n.held = fire[f].held /\ n.fresh = fire[f].fresh
            /\ n.run = fire[f].run /\ n.at = "ENDED"
        BY <2>3 DEF FireRecords
      <4>2. fire' = [fire EXCEPT ![f] = n]
        BY <3>5 DEF FireFails
      <4> HIDE DEF n
      <4> QED
        BY <1>0, <4>1, <4>2 DEF HeldFires
    <3> QED
      BY <2>2, <3>1, <3>2, <3>3, <3>4, <3>5
  <2> QED
    BY <1>0, <2>1, <2>4 DEF FireInv, HeldFires, Settled
<1>4. ASSUME NEW d \in dispatchers, Outcome(d) PROVE FireInv'
  <2>1. d.revision \in Revisions /\ UNCHANGED production
    BY <1>4, OutcomeSplits DEF Works
  <2>2. CASE NewestDecided(d)
    <3>1. fire' = Touched(fire)
      BY <2>2 DEF NewestDecided, Decides
    <3>2. fire' \in [Fires -> FireRecords] /\ \A f \in Fires : ~ fire'[f].held
      BY <1>0, <2>1, <2>2, <3>1, NoneHeld, TouchedFires
    <3> QED
      BY <3>2 DEF FireInv, HeldFires
  <2>3. CASE OlderDecided(d)
    BY <1>2, <2>1, <2>3, OlderDecidedKeeps
  <2> QED
    BY <1>2, <1>4, <2>2, <2>3, OutcomeSplits
<1> QED
  BY <1>1, <1>2, <1>3, <1>4, StepKinds DEF Reclassifies, Claim, Calls, Lapse

-----------------------------------------------------------------------------
(* The claims that somebody is at work on *)

\* What becomes of the dispatch revision, by the kind of step: it grows with each
\* claim and each decision.
LEMMA ClaimDispatch ==
  ASSUME RowInv, Claim, NEW r \in Revisions
  PROVE  /\ intent[r].dispatch \in Nat /\ intent[r].attempts \in Nat
         /\ Claimable(r) => ~ Outdated(r) /\ intent'[r].dispatch = intent[r].dispatch + 1
                            /\ intent'[r].status = "CLAIMED"
         /\ Outdated(r) => intent'[r].dispatch = intent[r].dispatch + 1
                           /\ intent'[r].status = "SUPERSEDED"
         /\ ~ Claimable(r) /\ ~ Outdated(r) => intent'[r] = intent[r]
<1>1. intent[r] \in Intents
  BY DEF RowInv
<1>2. intent'[r] = IF Outdated(r) THEN Superseded(intent[r])
                   ELSE IF Claimable(r) THEN ClaimedAgain(intent[r])
                   ELSE intent[r]
  BY DEF Claim
<1>3. Claimable(r) => ~ Outdated(r)
  BY RowFields DEF Claimable, Outdated
<1>4. /\ Superseded(intent[r]).dispatch = intent[r].dispatch + 1
      /\ Superseded(intent[r]).status = "SUPERSEDED"
      /\ ClaimedAgain(intent[r]).dispatch = intent[r].dispatch + 1
      /\ ClaimedAgain(intent[r]).status = "CLAIMED"
  BY <1>1 DEF Superseded, ClaimedAgain, Intents
<1>5. intent[r].dispatch \in Nat /\ intent[r].attempts \in Nat
  BY <1>1 DEF Intents
<1> QED
  BY <1>2, <1>3, <1>4, <1>5

\* What a decision makes of the intents.
LEMMA DecisionDispatch ==
  ASSUME RowInv, NEW d, d.revision \in Revisions, NewestDecided(d) \/ OlderDecided(d)
  PROVE  /\ intent[d.revision].status = "CLAIMED" /\ intent[d.revision].dispatch = d.dispatch
         /\ intent'[d.revision].status \in {"APPLIED", "RETRY_WAIT", "FAILED", "SUPERSEDED"}
         /\ intent'[d.revision].dispatch = intent[d.revision].dispatch + 1
         /\ \A r \in Revisions \ {d.revision} : intent'[r] = intent[r]
<1>1. /\ intent \in [Revisions -> Intents] /\ intent[d.revision] \in Intents
      /\ intent[d.revision].status = "CLAIMED" /\ intent[d.revision].dispatch = d.dispatch
  BY DEF RowInv, NewestDecided, OlderDecided, OwnsClaim
<1>2. \E status \in {"APPLIED", "RETRY_WAIT", "FAILED", "SUPERSEDED"} :
        intent' = [intent EXCEPT ![d.revision] = Decided(intent[d.revision], status)]
  BY DEF NewestDecided, OlderDecided, Decides
<1>3. PICK status \in {"APPLIED", "RETRY_WAIT", "FAILED", "SUPERSEDED"} :
        intent' = [intent EXCEPT ![d.revision] = Decided(intent[d.revision], status)]
  BY <1>2
<1> DEFINE new == Decided(intent[d.revision], status)
<1>4. new.status = status /\ new.dispatch = intent[d.revision].dispatch + 1
  BY <1>1, DecidedRow
<1> HIDE DEF new
<1>5. intent' = [intent EXCEPT ![d.revision] = new]
  BY <1>3 DEF new
<1> QED
  BY <1>1, <1>4, <1>5

\* A command leaves a new intent where there was none.
LEMMA CommandDispatch ==
  ASSUME RowInv, Commands
  PROVE  /\ schedule.revision + 1 \in Revisions
         /\ intent[schedule.revision + 1] = NoIntent
         /\ intent'[schedule.revision + 1] = NewIntent
         /\ \A r \in Revisions \ {schedule.revision + 1} : intent'[r] = intent[r]
<1>1. schedule.revision + 1 \in Revisions
  BY RowFields DEF Commands, Revisions
<1>2. intent' = [intent EXCEPT ![schedule.revision + 1] = NewIntent]
  BY DEF Commands, Transitioned
<1>3. intent[schedule.revision + 1].status = "NONE"
  BY <1>1, RowTells, RowFields DEF RowInv
<1> QED
  BY <1>1, <1>2, <1>3 DEF RowInv, BlankIntents

\* Dispatch revisions do not go back.
LEMMA DispatchGrows ==
  ASSUME RowInv, dispatchers \subseteq Works, [Next]_vars, NEW r \in Revisions
  PROVE  /\ intent[r].dispatch \in Nat /\ intent'[r].dispatch \in Nat
         /\ intent[r].dispatch <= intent'[r].dispatch
<1>1. intent[r].dispatch \in Nat /\ intent'[r].dispatch \in Nat
  BY RowStep DEF RowInv, Intents
<1>2. CASE Commands
  BY <1>1, <1>2, CommandDispatch DEF NoIntent, NewIntent
<1>3. CASE Claim
  BY <1>1, <1>3, ClaimDispatch
<1>4. CASE \E s \in Revisions : Lapse(s)
  BY <1>1, <1>4, LapseKeeps
<1>5. ASSUME NEW d \in dispatchers, Outcome(d) PROVE intent[r].dispatch <= intent'[r].dispatch
  BY <1>1, <1>5, OutcomeSplits, DecisionDispatch DEF Works
<1>6. CASE Reclassifies \/ Calls \/ FireActs
  BY <1>1, <1>6 DEF Reclassifies, Calls, FireActs
<1> QED
  BY <1>1, <1>2, <1>3, <1>4, <1>5, <1>6, StepKinds

\* The claims kept or gone on with stay claims of their own.
WorksFit(works) ==
  /\ works \subseteq Works
  /\ \A d \in works :
       /\ d.at \in {"CREATE", "DESCRIBE", "SET"} => d.rpcs < RpcAttempts
       /\ d.dispatch <= intent[d.revision].dispatch
       /\ \A e \in works : e.revision = d.revision /\ e.dispatch = d.dispatch => e = d

\* A dispatcher that goes on keeps its claim.
LEMMA GoingOnFits ==
  ASSUME WorksFit(dispatchers), NEW d \in dispatchers, NEW e \in Works,
         e.revision = d.revision, e.dispatch = d.dispatch,
         e.at \in {"CREATE", "DESCRIBE", "SET"} => e.rpcs < RpcAttempts
  PROVE  WorksFit((dispatchers \ {d}) \cup {e})
  BY DEF WorksFit

\* A call moves at most one dispatcher, and Temporal to what it asks for.
LEMMA CallsFit ==
  ASSUME WorksFit(dispatchers), Calls,
         temporal \in Statuses \cup {"NONE"}, patches \subseteq Statuses
  PROVE  WorksFit(dispatchers') /\ temporal' \in Statuses \cup {"NONE"} /\ patches' \subseteq Statuses
<1>1. \A d \in dispatchers : Desired(d.revision) \in Statuses /\ d \in Works
  BY DEF Desired, Statuses, WorksFit
<1>2. \A d \in dispatchers : Created(d) \in Statuses \cup {"NONE"}
  BY <1>1 DEF Created
<1>3. ASSUME NEW d \in dispatchers,
             NEW at \in {"CREATE", "DESCRIBE", "SET", "DONE", "TRANSIENT", "INVALID"},
             Goes(d, at), d.at \in {"CREATE", "DESCRIBE", "SET"}
      PROVE  WorksFit(dispatchers')
  <2> DEFINE e == [d EXCEPT !.at = at]
  <2>1. e \in Works /\ e.revision = d.revision /\ e.dispatch = d.dispatch /\ e.rpcs = d.rpcs
    BY <1>1 DEF Works
  <2>2. d.rpcs < RpcAttempts
    BY <1>3 DEF WorksFit
  <2>3. dispatchers' = (dispatchers \ {d}) \cup {e}
    BY <1>3 DEF Goes
  <2> HIDE DEF e
  <2> QED
    BY <2>1, <2>2, <2>3, GoingOnFits
<1>4. ASSUME NEW d \in dispatchers, RpcFails(d) PROVE WorksFit(dispatchers')
  <2> DEFINE at == IF d.rpcs + 1 < RpcAttempts THEN "CREATE" ELSE "TRANSIENT"
             e == [d EXCEPT !.rpcs = d.rpcs + 1, !.at = at]
  <2>1. d.rpcs < RpcAttempts /\ d \in Works /\ RpcAttempts \in Nat
    BY <1>1, <1>4, ScheduleAssumption DEF RpcFails, WorksFit
  <2>2. d.rpcs + 1 \in 0..RpcAttempts
    BY <2>1 DEF Works
  <2>3. e \in Works /\ e.revision = d.revision /\ e.dispatch = d.dispatch
        /\ e.rpcs = d.rpcs + 1 /\ e.at = at
    BY <2>1, <2>2 DEF Works
  <2>4. dispatchers' = (dispatchers \ {d}) \cup {e}
    BY <1>4 DEF RpcFails
  <2> HIDE DEF e
  <2> QED
    BY <2>3, <2>4, GoingOnFits
<1>5. ASSUME NEW d \in dispatchers, Crash(d) PROVE WorksFit(dispatchers')
  BY <1>5 DEF Crash, WorksFit
<1>6. ASSUME NEW d \in dispatchers,
             Crash(d) \/ Create(d) \/ Describe(d) \/ Set(d) \/ RpcFails(d) \/ RpcRefused(d)
      PROVE  WorksFit(dispatchers')
  BY <1>3, <1>4, <1>5, <1>6 DEF Create, Describe, Set, RpcRefused
<1>7. ASSUME NEW d \in dispatchers,
             Crash(d) \/ Create(d) \/ Describe(d) \/ Set(d) \/ RpcFails(d) \/ RpcRefused(d)
      PROVE  temporal' \in Statuses \cup {"NONE"} /\ patches' \subseteq Statuses
  <2>1. CASE RpcFails(d)
    <3>1. temporal' \in {temporal, Created(d)} /\ patches' \in {patches, patches \cup {Desired(d.revision)}}
      BY <2>1 DEF RpcFails
    <3> QED
      BY <3>1, <1>1, <1>2
  <2> QED
    BY <1>1, <1>2, <1>7, <2>1 DEF Crash, Create, Describe, Set, RpcRefused
<1>8. CASE \E status \in patches : Late(status)
  BY <1>8 DEF Late
<1>9. CASE UNCHANGED vars
  BY <1>9 DEF vars
<1> QED
  BY <1>6, <1>7, <1>8, <1>9 DEF Calls

\* A new claim has a dispatch revision that nobody has.
LEMMA ClaimFits ==
  ASSUME RowInv, WorksFit(dispatchers), Claim
  PROVE  /\ dispatchers' \subseteq Works
         /\ \A d \in dispatchers' :
              /\ d.at \in {"CREATE", "DESCRIBE", "SET"} => d.rpcs < RpcAttempts
              /\ d.dispatch <= intent'[d.revision].dispatch
              /\ \A e \in dispatchers' : e.revision = d.revision /\ e.dispatch = d.dispatch => e = d
<1> DEFINE new(r) == [revision |-> r, dispatch |-> intent[r].dispatch + 1,
                      attempts |-> intent[r].attempts + 1, rpcs |-> 0, at |-> "CREATE"]
           due == {r \in Revisions : Claimable(r)}
<1>1. dispatchers' = dispatchers \cup {new(r) : r \in due}
  BY DEF Claim
<1>2. RpcAttempts \in Nat /\ 0 < RpcAttempts
  BY ScheduleAssumption
<1>3. ASSUME NEW r \in due
      PROVE  /\ new(r) \in Works /\ new(r).rpcs < RpcAttempts /\ new(r).revision = r
             /\ new(r).dispatch = intent[r].dispatch + 1 /\ intent[r].dispatch \in Nat
             /\ intent'[r].dispatch = intent[r].dispatch + 1
  <2>1. /\ intent[r].dispatch \in Nat /\ intent[r].attempts \in Nat
        /\ intent'[r].dispatch = intent[r].dispatch + 1
    BY <1>3, ClaimDispatch
  <2> QED
    BY <1>2, <2>1 DEF Works
<1>4. ASSUME NEW d \in dispatchers
      PROVE  /\ d \in Works /\ d.revision \in Revisions /\ d.dispatch \in Nat
             /\ intent[d.revision].dispatch \in Nat
             /\ d.dispatch <= intent[d.revision].dispatch
             /\ intent[d.revision].dispatch <= intent'[d.revision].dispatch
             /\ intent'[d.revision].dispatch \in Nat
  <2>1. d \in Works /\ d.dispatch <= intent[d.revision].dispatch
    BY DEF WorksFit
  <2>2. d.revision \in Revisions /\ d.dispatch \in Nat
    BY <2>1 DEF Works
  <2>3. \/ intent'[d.revision].dispatch = intent[d.revision].dispatch + 1
        \/ intent'[d.revision].dispatch = intent[d.revision].dispatch
    BY <2>2, ClaimDispatch
  <2>4. intent[d.revision].dispatch \in Nat
    BY <2>2, ClaimDispatch
  <2> QED
    BY <2>1, <2>2, <2>3, <2>4
<1> HIDE DEF new
<1>5. dispatchers' \subseteq Works
  BY <1>1, <1>3, <1>4
<1>6. ASSUME NEW d \in dispatchers', NEW e \in dispatchers',
             e.revision = d.revision, e.dispatch = d.dispatch
      PROVE  e = d
  <2>1. CASE d \in dispatchers /\ e \in dispatchers
    BY <1>6, <2>1 DEF WorksFit
  <2>2. ASSUME NEW r \in due, d = new(r), e \in dispatchers PROVE FALSE
    BY <1>3, <1>4, <1>6, <2>2
  <2>3. ASSUME NEW r \in due, e = new(r), d \in dispatchers PROVE FALSE
    BY <1>3, <1>4, <1>6, <2>3
  <2>4. ASSUME NEW r \in due, NEW s \in due, d = new(r), e = new(s) PROVE e = d
    BY <1>3, <1>6, <2>4
  <2> QED
    BY <1>1, <2>1, <2>2, <2>3, <2>4
<1>7. ASSUME NEW d \in dispatchers'
      PROVE  /\ d.at \in {"CREATE", "DESCRIBE", "SET"} => d.rpcs < RpcAttempts
             /\ d.dispatch <= intent'[d.revision].dispatch
  <2>1. CASE d \in dispatchers
    BY <1>4, <2>1 DEF WorksFit
  <2>2. ASSUME NEW r \in due, d = new(r)
        PROVE  d.rpcs < RpcAttempts /\ d.dispatch <= intent'[d.revision].dispatch
    BY <1>3, <2>2
  <2> QED
    BY <1>1, <2>1, <2>2
<1> QED
  BY <1>5, <1>6, <1>7

\* Every step keeps the claims apart.
LEMMA WorkStep ==
  ASSUME RowInv, WorkInv, [Next]_vars
  PROVE  WorkInv'
<1>0. /\ WorksFit(dispatchers) /\ dispatchers \subseteq Works
      /\ temporal \in Statuses \cup {"NONE"} /\ patches \subseteq Statuses
  BY DEF WorkInv, WorksFit
<1>1. ASSUME WorksFit(dispatchers'), temporal' \in Statuses \cup {"NONE"}, patches' \subseteq Statuses
      PROVE  WorkInv'
  <2>1. ASSUME NEW d \in dispatchers' PROVE d.dispatch <= intent'[d.revision].dispatch
    <3>1. /\ d.revision \in Revisions /\ d.dispatch \in Nat
          /\ d.dispatch <= intent[d.revision].dispatch
      BY <1>1 DEF WorksFit, Works
    <3> QED
      BY <1>0, <3>1, DispatchGrows
  <2> QED
    BY <1>1, <2>1 DEF WorkInv, WorksFit
<1>2. CASE UNCHANGED <<dispatchers, temporal, patches>>
  BY <1>0, <1>1, <1>2
<1>3. CASE Calls
  BY <1>0, <1>1, <1>3, CallsFit
<1>4. CASE FireActs
  <2>1. UNCHANGED <<dispatchers, patches>> /\ temporal' \in {temporal, "PAUSED"}
    BY <1>4 DEF FireActs, Start, ReadRow, Launch, ActivityLost, FireFails
  <2> QED
    BY <1>0, <1>1, <2>1 DEF Statuses
<1>5. CASE Claim
  <2>1. UNCHANGED <<temporal, patches>>
    BY <1>5 DEF Claim
  <2> QED
    BY <1>0, <1>5, <2>1, ClaimFits DEF WorkInv
<1>6. ASSUME NEW d \in dispatchers, Outcome(d) PROVE WorkInv'
  <2>1. dispatchers' = dispatchers \ {d} /\ UNCHANGED <<temporal, patches>>
    BY <1>6, OutcomeSplits
  <2>2. WorksFit(dispatchers')
    BY <1>0, <2>1 DEF WorksFit
  <2> QED
    BY <1>0, <1>1, <2>1, <2>2
<1> QED
  BY <1>2, <1>3, <1>4, <1>5, <1>6, StepKinds DEF Commands, Reclassifies, Lapse

-----------------------------------------------------------------------------
(* The queue of each intent *)

\* The claims of an intent that somebody is at work on.
claims(r) == {<<d.revision, d.dispatch>> : d \in {e \in dispatchers : e.revision = r}}

\* What the abstract queue sees of an intent: nothing, or its next revision.
IntentStays(r) ==
  Stage(intent'[r]) = Stage(intent[r]) /\ intent'[r].dispatch = intent[r].dispatch

IntentMoves(r, stage) ==
  Stage(intent'[r]) = stage /\ intent'[r].dispatch = intent[r].dispatch + 1

\* What each status of an intent is to the abstract queue.
LEMMA Stages ==
  ASSUME NEW row
  PROVE  /\ row.status \in {"NONE", "PENDING", "RETRY_WAIT"} => Stage(row) = "OPEN"
         /\ row.status = "CLAIMED" => Stage(row) = "CLAIMED"
         /\ row.status = "APPLIED" => Stage(row) = "DELIVERED"
         /\ row.status = "FAILED" => Stage(row) = "FAILED"
         /\ row.status = "SUPERSEDED" => Stage(row) = "SETTLED"
  BY DEF Stage

\* An intent that moves advances in its queue.
LEMMA MoveAdvances ==
  ASSUME NEW r \in Revisions, NEW stage, IntentMoves(r, stage)
  PROVE  Queue(r)!Advance(r, stage)
<1>1. [i \in {r} |-> Stage(intent'[r])] = [[i \in {r} |-> Stage(intent[r])] EXCEPT ![r] = stage]
  BY DEF IntentMoves
<1>2. [i \in {r} |-> intent'[r].dispatch] = [[i \in {r} |-> intent[r].dispatch] EXCEPT ![r] = @ + 1]
  BY DEF IntentMoves
<1> QED
  BY <1>1, <1>2 DEF Queue!Advance

\* An intent that stays, and its claims, change nothing in its queue.
LEMMA StayStutters ==
  ASSUME NEW r \in Revisions, IntentStays(r), claims(r)' = claims(r)
  PROVE  UNCHANGED Queue(r)!vars
  BY DEF IntentStays, claims, Queue!vars

\* A dispatcher that goes on leaves the claims as they are.
LEMMA GoingOnStays ==
  ASSUME NEW r \in Revisions, NEW d \in dispatchers, NEW e,
         e.revision = d.revision, e.dispatch = d.dispatch,
         dispatchers' = (dispatchers \ {d}) \cup {e}
  PROVE  claims(r)' = claims(r)
  BY DEF claims

\* A dispatcher that ends takes its own claim along, and no other.
LEMMA ClaimLeaves ==
  ASSUME WorkInv, NEW r \in Revisions, NEW d \in dispatchers, dispatchers' = dispatchers \ {d}
  PROVE  /\ d.revision # r => claims(r)' = claims(r)
         /\ d.revision = r => /\ claims(r)' = claims(r) \ {<<r, d.dispatch>>}
                              /\ <<r, d.dispatch>> \in claims(r)
  BY DEF claims, WorkInv

\* A dispatcher that vanishes abandons its claim.
LEMMA LeavingAbandons ==
  ASSUME WorkInv, NEW r \in Revisions, IntentStays(r),
         NEW d \in dispatchers, dispatchers' = dispatchers \ {d}
  PROVE  Queue(r)!CNext \/ UNCHANGED Queue(r)!vars
<1>1. CASE d.revision # r
  BY <1>1, ClaimLeaves, StayStutters
<1>2. CASE d.revision = r
  <2>1. claims(r)' = claims(r) \ {<<r, d.dispatch>>} /\ <<r, d.dispatch>> \in claims(r)
    BY <1>2, ClaimLeaves
  <2>2. Queue(r)!Abandon(<<r, d.dispatch>>)
    BY <2>1 DEF Queue!Abandon, claims, IntentStays
  <2> QED
    BY <2>1, <2>2 DEF Queue!CNext, claims
<1> QED
  BY <1>1, <1>2

\* The calls that go on, for good or for another try.
LEMMA CallStutters ==
  ASSUME WorkInv, NEW r \in Revisions, Calls
  PROVE  Queue(r)!CNext \/ UNCHANGED Queue(r)!vars
<1>0. IntentStays(r)
  BY DEF Calls, IntentStays
<1>1. ASSUME NEW d \in dispatchers, Crash(d) PROVE Queue(r)!CNext \/ UNCHANGED Queue(r)!vars
  BY <1>0, <1>1, LeavingAbandons DEF Crash
<1>2. ASSUME NEW d \in dispatchers, NEW at, Goes(d, at) PROVE claims(r)' = claims(r)
  <2> DEFINE e == [d EXCEPT !.at = at]
  <2>1. e.revision = d.revision /\ e.dispatch = d.dispatch
    BY DEF WorkInv, Works
  <2>2. dispatchers' = (dispatchers \ {d}) \cup {e}
    BY <1>2 DEF Goes
  <2> HIDE DEF e
  <2> QED
    BY <2>1, <2>2, GoingOnStays
<1>3. ASSUME NEW d \in dispatchers, RpcFails(d) PROVE claims(r)' = claims(r)
  <2> DEFINE e == [d EXCEPT !.rpcs = d.rpcs + 1,
                            !.at = IF d.rpcs + 1 < RpcAttempts THEN "CREATE" ELSE "TRANSIENT"]
  <2>1. e.revision = d.revision /\ e.dispatch = d.dispatch
    BY DEF WorkInv, Works
  <2>2. dispatchers' = (dispatchers \ {d}) \cup {e}
    BY <1>3 DEF RpcFails
  <2> HIDE DEF e
  <2> QED
    BY <2>1, <2>2, GoingOnStays
<1>4. ASSUME NEW d \in dispatchers, Create(d) \/ Describe(d) \/ Set(d) \/ RpcRefused(d)
      PROVE  claims(r)' = claims(r)
  BY <1>2, <1>4 DEF Create, Describe, Set, RpcRefused
<1>5. ASSUME UNCHANGED dispatchers PROVE claims(r)' = claims(r)
  BY <1>5 DEF claims
<1> QED
  BY <1>0, <1>1, <1>3, <1>4, <1>5, StayStutters DEF Calls, Late, vars

\* A round of claims claims the newest intent, or settles one that is outdated.
LEMMA ClaimClaims ==
  ASSUME RowInv, NEW r \in Revisions, Claim
  PROVE  Queue(r)!CNext \/ UNCHANGED Queue(r)!vars
<1> DEFINE new(s) == [revision |-> s, dispatch |-> intent[s].dispatch + 1,
                      attempts |-> intent[s].attempts + 1, rpcs |-> 0, at |-> "CREATE"]
           due == {s \in Revisions : Claimable(s)}
<1>1. dispatchers' = dispatchers \cup {new(s) : s \in due}
  BY DEF Claim
<1>2. \A s \in due : new(s).revision = s /\ new(s).dispatch = intent[s].dispatch + 1
  OBVIOUS
<1> HIDE DEF new
<1>3. CASE Outdated(r)
  <2>1. IntentMoves(r, "SETTLED") /\ r \notin due
    BY <1>3, ClaimDispatch, Stages DEF IntentMoves
  <2>2. claims(r)' = claims(r)
    BY <1>1, <1>2, <2>1 DEF claims
  <2>3. Stage(intent[r]) \in {"OPEN", "CLAIMED", "DELIVERED"}
    BY <1>3, Stages DEF Outdated, Open
  <2>4. Queue(r)!Settle(r)
    BY <2>1, <2>2, <2>3, MoveAdvances DEF Queue!Settle, claims
  <2> QED
    BY <2>4 DEF Queue!CNext
<1>4. CASE Claimable(r)
  <2>1. IntentMoves(r, "CLAIMED") /\ r \in due
    BY <1>4, ClaimDispatch, Stages DEF IntentMoves
  <2>2. claims(r)' = claims(r) \cup {<<r, intent[r].dispatch + 1>>}
    BY <1>1, <1>2, <2>1 DEF claims
  <2>3. intent[r].status \in {"PENDING", "RETRY_WAIT", "CLAIMED"}
    BY <1>4 DEF Claimable, RowInv, LapsedClaims
  <2>4. Stage(intent[r]) \in {"OPEN", "CLAIMED"}
    BY <2>3, Stages
  <2>5. Queue(r)!Claim(r)
    BY <2>1, <2>2, <2>4, MoveAdvances DEF Queue!Claim, claims
  <2> QED
    BY <2>5 DEF Queue!CNext
<1>5. CASE ~ Outdated(r) /\ ~ Claimable(r)
  <2>1. IntentStays(r) /\ r \notin due
    BY <1>5, ClaimDispatch DEF IntentStays
  <2>2. claims(r)' = claims(r)
    BY <1>1, <1>2, <2>1 DEF claims
  <2> QED
    BY <2>1, <2>2, StayStutters
<1> QED
  BY <1>3, <1>4, <1>5

\* A report decides the intent of its claim, or is dropped.
LEMMA OutcomeDecides ==
  ASSUME RowInv, WorkInv, NEW r \in Revisions, NEW d \in dispatchers, Outcome(d)
  PROVE  Queue(r)!CNext \/ UNCHANGED Queue(r)!vars
<1>0. dispatchers' = dispatchers \ {d} /\ d.revision \in Revisions
  BY OutcomeSplits DEF WorkInv, Works
<1>1. CASE UNCHANGED intent
  BY <1>0, <1>1, LeavingAbandons DEF IntentStays
<1>2. CASE NewestDecided(d) \/ OlderDecided(d)
  <2>1. CASE d.revision # r
    BY <1>0, <1>2, <2>1, DecisionDispatch, LeavingAbandons DEF IntentStays
  <2>2. CASE d.revision = r
    <3>1. /\ intent[r].status = "CLAIMED" /\ intent[r].dispatch = d.dispatch
          /\ intent'[r].status \in {"APPLIED", "RETRY_WAIT", "FAILED", "SUPERSEDED"}
          /\ intent'[r].dispatch = intent[r].dispatch + 1
      BY <1>0, <1>2, <2>2, DecisionDispatch
    <3>2. PICK next \in {"OPEN", "DELIVERED", "FAILED", "SETTLED"} : IntentMoves(r, next)
      BY <3>1, Stages DEF IntentMoves
    <3>3. Queue(r)!Advance(r, next)
      BY <3>2, MoveAdvances
    <3>4. Stage(intent[r]) = "CLAIMED"
      BY <3>1, Stages
    <3>5. claims(r)' = claims(r) \ {<<r, intent[r].dispatch>>} /\ <<r, intent[r].dispatch>> \in claims(r)
      BY <1>0, <2>2, <3>1, ClaimLeaves
    <3>6. Queue(r)!Decide(r)
      BY <3>3, <3>4, <3>5 DEF Queue!Decide, claims
    <3> QED
      BY <3>6 DEF Queue!CNext
  <2> QED
    BY <2>1, <2>2
<1> QED
  BY <1>1, <1>2, OutcomeSplits

\* Every step is one of the queue of each intent, or nothing to it.
LEMMA QueueStep ==
  ASSUME RowInv, WorkInv, [Next]_vars, NEW r \in Revisions
  PROVE  Queue(r)!CNext \/ UNCHANGED Queue(r)!vars
<1>1. CASE Commands
  <2>1. claims(r)' = claims(r)
    BY <1>1 DEF Commands, claims
  <2>2. IntentStays(r)
    BY <1>1, CommandDispatch, Stages DEF IntentStays, NoIntent, NewIntent
  <2> QED
    BY <2>1, <2>2, StayStutters
<1>2. CASE Reclassifies \/ FireActs
  <2>1. claims(r)' = claims(r) /\ IntentStays(r)
    BY <1>2 DEF Reclassifies, FireActs, claims, IntentStays
  <2> QED
    BY <2>1, StayStutters
<1>3. ASSUME NEW s \in Revisions, Lapse(s) PROVE UNCHANGED Queue(r)!vars
  <2>1. claims(r)' = claims(r)
    BY <1>3 DEF Lapse, claims
  <2>2. intent'[r].status = intent[r].status /\ intent'[r].dispatch = intent[r].dispatch
    BY <1>3 DEF Lapse, RowInv, Intents
  <2>3. IntentStays(r)
    BY <2>2 DEF IntentStays, Stage
  <2> QED
    BY <2>1, <2>3, StayStutters
<1> QED
  BY <1>1, <1>2, <1>3, CallStutters, ClaimClaims, OutcomeDecides, StepKinds

-----------------------------------------------------------------------------
(* Theorems *)

\* A schedule that was just created.
LEMMA InitSchedule == Init => ScheduleInv
<1> SUFFICES ASSUME Init PROVE ScheduleInv
  OBVIOUS
<1>1. MaxRevision \in Nat /\ 1 \in Revisions
  BY ScheduleAssumption DEF Revisions
<1>2. NoIntent \in Intents /\ NewIntent \in Intents /\ NoFire \in FireRecords
  BY DEF NoIntent, NewIntent, NoFire, Intents, FireRecords
<1>3. /\ schedule \in Rows /\ schedule.status = "ACTIVE" /\ schedule.revision = 1
      /\ schedule.sync = "PENDING" /\ schedule.synced = 0
  BY <1>1 DEF Init, Rows, Statuses
<1>4. /\ intent \in [Revisions -> Intents]
      /\ \A r \in Revisions : intent[r] = IF r = 1 THEN NewIntent ELSE NoIntent
  BY <1>2 DEF Init
<1>5. NoIntent.status = "NONE" /\ NewIntent.status = "PENDING" /\ ~ NoIntent.lapsed /\ ~ NewIntent.lapsed
  BY DEF NoIntent, NewIntent
<1>6. RowTellsOfIntent
  <2>1. Desired(1) = "ACTIVE"
    BY DEF Desired
  <2>2. \A r \in Revisions : (intent[r].status = "NONE") = (r > 1)
    BY <1>1, <1>4, <1>5 DEF Revisions
  <2> QED
    BY <1>1, <1>3, <1>4, <1>5, <2>1, <2>2, RowTells DEF NewestOf
<1>7. BlankIntents /\ LapsedClaims
  BY <1>4, <1>5 DEF BlankIntents, LapsedClaims
<1>8. RowInv
  BY <1>3, <1>4, <1>6, <1>7 DEF RowInv, Init
<1>9. FireInv
  BY <1>2 DEF Init, FireInv, HeldFires, NoFire
<1>10. WorkInv
  BY DEF Init, WorkInv
<1> QED
  BY <1>8, <1>9, <1>10 DEF ScheduleInv

\* The inductive invariant.
LEMMA ScheduleInvHolds == Spec => []ScheduleInv
<1>1. ScheduleInv /\ [Next]_vars => ScheduleInv'
  BY RowStep, FireStep, WorkStep DEF ScheduleInv, WorkInv
<1> QED
  BY InitSchedule, <1>1, PTL DEF Spec

\* Whatever claims are superseded, lapse or are reported late, the row is true of
\* its newest intent, and no fire that started under a settled pause makes a run
\* (TaskScheduleService, claim_task_schedule_sync_intents, TaskScheduleTrigger).
THEOREM RowAndFiresAgree == Spec => []ScInv
<1> QED
  BY ScheduleInvHolds, ScheduleInvIsScInv, PTL

\* The queue of each intent: only its newest claim decides it, once, and what is
\* decided is never claimed again (task_schedule_sync_intent).
THEOREM IntentQueuesRefine == Spec => RefinesClaimedDelivery
<1>1. Init => \A r \in Revisions : Queue(r)!CInit
  <2> SUFFICES ASSUME Init, NEW r \in Revisions PROVE Queue(r)!CInit
    OBVIOUS
  <2>1. dispatchers = {} /\ intent[r] \in {NoIntent, NewIntent}
    BY DEF Init
  <2>2. intent[r].dispatch = 0 /\ Stage(intent[r]) = "OPEN"
    BY <2>1, Stages DEF NoIntent, NewIntent
  <2> QED
    BY <2>1, <2>2 DEF Queue!CInit
<1>2. ScheduleInv /\ [Next]_vars => \A r \in Revisions : Queue(r)!CNext \/ UNCHANGED Queue(r)!vars
  BY QueueStep DEF ScheduleInv
<1>3. ScheduleInv /\ [Next]_vars => [\A r \in Revisions : Queue(r)!CNext \/ UNCHANGED Queue(r)!vars]_vars
  BY <1>2
<1> QED
  BY <1>1, <1>3, ScheduleInvHolds, PTL DEF Spec, RefinesClaimedDelivery

=============================================================================
