---------------------------- MODULE TaskSchedule ----------------------------
(***************************************************************************)
(* A periodic task schedule: the row that says what is desired, the queue of *)
(* intents by which dispatchers bring Temporal's schedule into line, and the *)
(* fires that Temporal's schedule starts.                                    *)
(*                                                                         *)
(* A command to pause or to resume raises the revision of the row and leaves *)
(* an intent for that revision.  A dispatcher claims the newest intent, and   *)
(* outside of any transaction creates Temporal's schedule or describes it,   *)
(* and pauses or unpauses it if it has to.  What it reports counts only as   *)
(* long as its claim does.  A fire reads the row again before it launches a  *)
(* run.  The calendar, overlap and catch-up of Temporal decide only when the *)
(* next fire starts, and are left out; a fire here starts when no other one  *)
(* is under way.                                                             *)
(***************************************************************************)
EXTENDS Naturals, FiniteSets

CONSTANTS
  Fires,        \* nominal times at which the schedule may fire
  Consumers,    \* number of dispatchers; each works on one claim at a time
  MaxRevision,  \* bound on the commands
  MaxAttempts,  \* claims of an intent before a failure is final
  RpcAttempts,  \* calls of Temporal within one claim
  MaxFaults     \* bound on crashes, lapsed claims, failed calls and lost answers

ASSUME ScheduleAssumption ==
  /\ {Consumers, MaxRevision, MaxAttempts, RpcAttempts} \subseteq Nat \ {0}
  /\ MaxFaults \in Nat

VARIABLES
  schedule,    \* task_schedule
  production,  \* whether one of its environments is a production environment
  intent,      \* task_schedule_sync_intent of each revision
  dispatchers, \* claims that somebody is at work on
  temporal,    \* the schedule at Temporal
  patches,     \* calls of pause and unpause nobody waits for any more
  fire,        \* AtlasTaskScheduleTriggerWorkflow of each nominal time
  faults       \* faults so far

vars == <<schedule, production, intent, dispatchers, temporal, patches, fire, faults>>

Revisions == 1..MaxRevision
Statuses == {"ACTIVE", "PAUSED"}

\* The schedule is created active and every command changes its status, so the
\* revision tells what its intent asks for (action, desired_status).
Desired(r) == IF r % 2 = 1 THEN "ACTIVE" ELSE "PAUSED"

Rows == [status : Statuses, revision : Revisions,
         sync : {"PENDING", "RETRY_WAIT", "SYNCED", "FAILED"}, synced : 0..MaxRevision]

Intents == [status : {"NONE", "PENDING", "CLAIMED", "RETRY_WAIT", "APPLIED", "FAILED", "SUPERSEDED"},
            attempts : Nat, dispatch : Nat, lapsed : BOOLEAN]
NoIntent == [status |-> "NONE", attempts |-> 0, dispatch |-> 0, lapsed |-> FALSE]
NewIntent == [NoIntent EXCEPT !.status = "PENDING"]

\* A claim in the hands of a dispatcher; dispatch is its token and its revision.
Works == [revision : Revisions, dispatch : Nat, attempts : Nat, rpcs : 0..RpcAttempts,
          at : {"CREATE", "DESCRIBE", "SET", "DONE", "TRANSIENT", "INVALID"}]

\* fresh: the workflow has started after the row was last updated.  held: it has
\* started under a pause that was settled and that nobody has lifted since.
FireRecords == [at : {"NONE", "STARTED", "LAUNCH", "ENDED"}, fresh : BOOLEAN, held : BOOLEAN,
                paused : BOOLEAN, run : BOOLEAN]
NoFire == [at |-> "NONE", fresh |-> FALSE, held |-> FALSE, paused |-> FALSE, run |-> FALSE]

Fault == faults < MaxFaults /\ faults' = faults + 1

\* TaskScheduleService.create
Init ==
  /\ schedule = [status |-> "ACTIVE", revision |-> 1, sync |-> "PENDING", synced |-> 0]
  /\ production = FALSE
  /\ intent = [r \in Revisions |-> IF r = 1 THEN NewIntent ELSE NoIntent]
  /\ dispatchers = {}
  /\ temporal = "NONE"
  /\ patches = {}
  /\ fire = [f \in Fires |-> NoFire]
  /\ faults = 0

-----------------------------------------------------------------------------
(* Commands *)

\* Every update of the row moves updated_at past the fires that have started.
Touched(fires) == [f \in Fires |-> [fires[f] EXCEPT !.fresh = FALSE]]

\* transition_status and insert_sync_intent: the next revision, and its intent.
Transitioned(status) ==
  /\ schedule' = [schedule EXCEPT !.status = status, !.revision = @ + 1, !.sync = "PENDING"]
  /\ intent' = [intent EXCEPT ![schedule.revision + 1] = NewIntent]
  /\ fire' = [f \in Fires |-> [Touched(fire)[f] EXCEPT
                !.held = @ /\ status = "PAUSED", !.paused = @ /\ status = "PAUSED"]]

Pause ==
  /\ schedule.status = "ACTIVE" /\ schedule.revision < MaxRevision
  /\ Transitioned("PAUSED")
  /\ UNCHANGED <<production, dispatchers, temporal, patches, faults>>

Resume ==
  /\ schedule.status = "PAUSED" /\ schedule.revision < MaxRevision
  /\ ~ production
  /\ Transitioned("ACTIVE")
  /\ UNCHANGED <<production, dispatchers, temporal, patches, faults>>

\* An environment of the plan becomes a production environment: the trigger
\* pauses the schedule in the same transaction.
Reclassify ==
  /\ ~ production
  /\ schedule.status = "ACTIVE" => schedule.revision < MaxRevision
  /\ production' = TRUE
  /\ IF schedule.status = "ACTIVE" THEN Transitioned("PAUSED")
     ELSE UNCHANGED <<schedule, intent, fire>>
  /\ UNCHANGED <<dispatchers, temporal, patches, faults>>

\* ... and ceases to be one.
Declassify ==
  /\ production
  /\ production' = FALSE
  /\ UNCHANGED <<schedule, intent, dispatchers, temporal, patches, fire, faults>>

-----------------------------------------------------------------------------
(* The queue of intents *)

Open == {"PENDING", "CLAIMED", "RETRY_WAIT"}

Outdated(r) == r < schedule.revision /\ intent[r].status \in Open

Superseded(row) == [row EXCEPT !.status = "SUPERSEDED", !.dispatch = @ + 1, !.lapsed = FALSE]

ClaimableIfQueued(r) ==
  r = schedule.revision /\ intent[r].status \in {"PENDING", "RETRY_WAIT"}

Claimable(r) ==
  /\ r = schedule.revision
  /\ intent[r].status \in {"PENDING", "RETRY_WAIT"} \/ intent[r].lapsed

ClaimedAgain(row) ==
  [row EXCEPT !.status = "CLAIMED", !.attempts = @ + 1, !.dispatch = @ + 1, !.lapsed = FALSE]

\* What is outdated is superseded, whoever is at it, before a claim.
Claim ==
  LET due == {r \in Revisions : Claimable(r)} IN
  /\ Cardinality(dispatchers) < Consumers
  /\ due # {} \/ \E r \in Revisions : Outdated(r)
  /\ intent' = [r \in Revisions |->
       IF Outdated(r) THEN Superseded(intent[r])
       ELSE IF r \in due THEN ClaimedAgain(intent[r])
       ELSE intent[r]]
  /\ dispatchers' = dispatchers \cup
       {[revision |-> r, dispatch |-> intent[r].dispatch + 1, attempts |-> intent[r].attempts + 1,
         rpcs |-> 0, at |-> "CREATE"] : r \in due}
  /\ UNCHANGED <<schedule, production, temporal, patches, fire, faults>>

Holder(r) == \E d \in dispatchers : d.revision = r /\ d.dispatch = intent[r].dispatch

\* claim_expires_at passes: of a dispatcher that is gone, or too slow.
Lapse(r) ==
  /\ intent[r].status = "CLAIMED" /\ ~ intent[r].lapsed
  /\ IF Holder(r) THEN Fault ELSE UNCHANGED faults
  /\ intent' = [intent EXCEPT ![r].lapsed = TRUE]
  /\ UNCHANGED <<schedule, production, dispatchers, temporal, patches, fire>>

Crash(d) ==
  /\ Fault
  /\ dispatchers' = dispatchers \ {d}
  /\ UNCHANGED <<schedule, production, intent, temporal, patches, fire>>

AnyClaim(d) == intent[d.revision].status = "CLAIMED" /\ ~ intent[d.revision].lapsed

OwnsClaim(d) ==
  LET row == intent[d.revision] IN
  row.status = "CLAIMED" /\ row.dispatch = d.dispatch /\ ~ row.lapsed

Decided(row, status) == [row EXCEPT !.status = status, !.dispatch = @ + 1, !.lapsed = FALSE]

\* The outcome of a claim that still holds; the row follows its newest intent.
Decides(d, status, sync) ==
  /\ intent' = [intent EXCEPT ![d.revision] = Decided(@, status)]
  /\ IF d.revision = schedule.revision /\ sync # "NONE"
     THEN /\ schedule' = [schedule EXCEPT !.sync = sync,
                            !.synced = IF sync = "SYNCED" THEN schedule.revision ELSE @]
          /\ fire' = Touched(fire)
     ELSE UNCHANGED <<schedule, fire>>

\* mark_applied, retry and fail of task_schedule_sync_intent
Outcome(d) ==
  /\ d.at \in {"DONE", "TRANSIENT", "INVALID"}
  /\ dispatchers' = dispatchers \ {d}
  /\ CASE ~ OwnsClaim(d) -> UNCHANGED <<schedule, intent, fire>>
       [] OwnsClaim(d) /\ d.at = "DONE" /\ d.revision = schedule.revision ->
            Decides(d, "APPLIED", "SYNCED")
       [] OwnsClaim(d) /\ d.at = "DONE" /\ d.revision # schedule.revision ->
            Decides(d, "SUPERSEDED", "NONE")
       [] OwnsClaim(d) /\ d.at = "TRANSIENT" /\ d.attempts < MaxAttempts ->
            Decides(d, "RETRY_WAIT", "RETRY_WAIT")
       [] OTHER -> Decides(d, "FAILED", "FAILED")
  /\ UNCHANGED <<production, temporal, patches, faults>>

-----------------------------------------------------------------------------
(* Calls of Temporal (TemporalTaskScheduleSynchronizer.apply) *)

Goes(d, at) == dispatchers' = (dispatchers \ {d}) \cup {[d EXCEPT !.at = at]}

\* create_schedule; a schedule that exists already is left as it is.
Created(d) == IF temporal = "NONE" THEN Desired(d.revision) ELSE temporal

Create(d) ==
  /\ d.at = "CREATE" /\ temporal = "NONE"
  /\ temporal' = Created(d)
  /\ Goes(d, "DESCRIBE")
  /\ UNCHANGED <<schedule, production, intent, patches, fire, faults>>

\* describe: nothing is to be done if the schedule is as desired at this moment.
Describe(d) ==
  /\ d.at \in {"CREATE", "DESCRIBE"} /\ temporal # "NONE"
  /\ Goes(d, IF temporal = Desired(d.revision) THEN "DONE" ELSE "SET")
  /\ UNCHANGED <<schedule, production, intent, temporal, patches, fire, faults>>

\* pause or unpause, with nothing that tells Temporal of the revision.
Set(d) ==
  /\ d.at = "SET"
  /\ temporal' = Desired(d.revision)
  /\ Goes(d, "DONE")
  /\ UNCHANGED <<schedule, production, intent, patches, fire, faults>>

\* A call that fails for the time being is made again from the start.  It may
\* have been carried out, or, if it is given up by timeout, still be on its way.
RpcFails(d) ==
  /\ d.at \in {"CREATE", "DESCRIBE", "SET"}
  /\ Fault
  /\ dispatchers' = (dispatchers \ {d}) \cup
       {[d EXCEPT !.rpcs = @ + 1,
                  !.at = IF d.rpcs + 1 < RpcAttempts THEN "CREATE" ELSE "TRANSIENT"]}
  /\ temporal' \in {temporal} \cup (IF d.at = "CREATE" THEN {Created(d)} ELSE {})
  /\ patches' \in {patches} \cup
       (IF d.at = "SET" THEN {patches \cup {Desired(d.revision)}} ELSE {})
  /\ UNCHANGED <<schedule, production, intent, fire>>

\* A description that does not match, or a permanent error
\* (TaskIntentInvariantError).
RpcRefused(d) ==
  /\ d.at \in {"CREATE", "DESCRIBE", "SET"}
  /\ Fault
  /\ Goes(d, "INVALID")
  /\ UNCHANGED <<schedule, production, intent, temporal, patches, fire>>

Late(status) ==
  /\ patches' = patches \ {status}
  /\ temporal' = status
  /\ UNCHANGED <<schedule, production, intent, dispatchers, fire, faults>>

-----------------------------------------------------------------------------
(* Fires *)

Settled == schedule.sync \in {"SYNCED", "FAILED"}

\* Temporal starts the workflow of a nominal time.
Start(f) ==
  /\ temporal = "ACTIVE"
  /\ fire[f].at = "NONE"
  /\ \A g \in Fires : fire[g].at \in {"NONE", "ENDED"}
  /\ fire' = [fire EXCEPT ![f] = [at |-> "STARTED", fresh |-> TRUE, run |-> FALSE,
       paused |-> schedule.status = "PAUSED",
       held |-> schedule.status = "PAUSED" /\ Settled]]
  /\ UNCHANGED <<schedule, production, intent, dispatchers, temporal, patches, faults>>

SkipsOncePaused(f) ==
  schedule.status = "PAUSED" /\ schedule.sync = "SYNCED" /\ fire[f].fresh

\* The activity reads the row and passes over a fire that started in the pause.
Skips(f) == schedule.status = "PAUSED" /\ fire[f].fresh

ReadRow(f) ==
  /\ fire[f].at = "STARTED"
  /\ fire' = [fire EXCEPT ![f].at = IF Skips(f) THEN "ENDED" ELSE "LAUNCH"]
  /\ UNCHANGED <<schedule, production, intent, dispatchers, temporal, patches, faults>>

\* The launch is another transaction; a second one of the same nominal time is
\* answered with the run of the first.
Launch(f) ==
  /\ fire[f].at = "LAUNCH"
  /\ fire' = [fire EXCEPT ![f].at = "ENDED", ![f].run = TRUE]
  /\ UNCHANGED <<schedule, production, intent, dispatchers, temporal, patches, faults>>

\* The activity, or its answer, is lost, and it is executed again.
ActivityLost(f) ==
  /\ fire[f].at \in {"STARTED", "LAUNCH"}
  /\ Fault
  /\ \/ fire' = [fire EXCEPT ![f].at = "STARTED"]
     \/ fire[f].at = "LAUNCH" /\ fire' = [fire EXCEPT ![f].at = "STARTED", ![f].run = TRUE]
  /\ UNCHANGED <<schedule, production, intent, dispatchers, temporal, patches>>

\* The launch is refused for good, or the workflow runs out of time or of
\* attempts: pause_on_failure pauses the schedule at Temporal, and there alone.
FireFails(f) ==
  /\ fire[f].at \in {"STARTED", "LAUNCH"}
  /\ Fault
  /\ fire' = [fire EXCEPT ![f].at = "ENDED"]
  /\ temporal' = "PAUSED"
  /\ UNCHANGED <<schedule, production, intent, dispatchers, patches>>

-----------------------------------------------------------------------------

DispatcherActs ==
  \/ Claim
  \/ \E r \in Revisions : ~ Holder(r) /\ Lapse(r)
  \/ \E d \in dispatchers : Create(d) \/ Describe(d) \/ Set(d) \/ Outcome(d)

Next ==
  \/ Pause \/ Resume \/ Reclassify \/ Declassify
  \/ DispatcherActs
  \/ \E r \in Revisions : Lapse(r)
  \/ \E d \in dispatchers : Crash(d) \/ RpcFails(d) \/ RpcRefused(d)
  \/ \E status \in patches : Late(status)
  \/ \E f \in Fires : \/ Start(f) \/ ReadRow(f) \/ Launch(f)
                      \/ ActivityLost(f) \/ FireFails(f)

Spec == Init /\ [][Next]_vars

\* Dispatchers poll for ever, and a call of Temporal returns or times out.
FairSpec == Spec /\ WF_vars(DispatcherActs)

-----------------------------------------------------------------------------
(* Properties *)

TypeOK ==
  /\ schedule \in Rows /\ production \in BOOLEAN
  /\ \A r \in Revisions : intent[r] \in Intents
  /\ dispatchers \subseteq Works
  /\ temporal \in Statuses \cup {"NONE"}
  /\ patches \subseteq Statuses
  /\ \A f \in Fires : fire[f] \in FireRecords

\* The row tells of its newest intent, whichever claims were superseded, lapsed
\* or reported late: what it calls synced is the newest revision, and was applied.
RowTellsOfIntent ==
  LET newest == intent[schedule.revision].status IN
  /\ schedule.status = Desired(schedule.revision)
  /\ newest \in CASE schedule.sync = "PENDING" -> {"PENDING", "CLAIMED"}
                  [] schedule.sync = "RETRY_WAIT" -> {"RETRY_WAIT", "CLAIMED"}
                  [] schedule.sync = "SYNCED" -> {"APPLIED"}
                  [] schedule.sync = "FAILED" -> {"FAILED"}
  /\ \A r \in Revisions : (intent[r].status = "NONE") = (r > schedule.revision)
  /\ \A r \in Revisions : intent[r].status = "APPLIED" => r <= schedule.synced
  /\ schedule.synced > 0 => intent[schedule.synced].status = "APPLIED"

\* While a pause is settled the row alone keeps the schedule quiet: Temporal may
\* never have been paused, or be unpaused again by a dispatcher that was overtaken
\* or by a call that comes late, yet no fire that starts then makes a run.
SettledPauseHolds == \A f \in Fires : fire[f].held => ~ fire[f].run

\* The row, its intents and the fires agree.
ScInv ==
  /\ TypeOK /\ RowTellsOfIntent /\ SettledPauseHolds
  /\ production => schedule.status = "PAUSED"

\* Only the newest claim of an intent decides it, once.
Stage(row) ==
  CASE row.status \in {"NONE", "PENDING", "RETRY_WAIT"} -> "OPEN"
    [] row.status = "CLAIMED" -> "CLAIMED"
    [] row.status = "APPLIED" -> "DELIVERED"
    [] row.status = "FAILED" -> "FAILED"
    [] row.status = "SUPERSEDED" -> "SETTLED"

Queue(r) == INSTANCE ClaimedDelivery WITH
  Items    <- {r},
  state    <- [i \in {r} |-> Stage(intent[r])],
  revision <- [i \in {r} |-> intent[r].dispatch],
  work     <- {<<d.revision, d.dispatch>> : d \in {e \in dispatchers : e.revision = r}}

RefinesClaimedDelivery ==
  /\ \A r \in Revisions : Queue(r)!CInit
  /\ [][\A r \in Revisions : Queue(r)!CNext \/ UNCHANGED Queue(r)!vars]_vars

\* Every command is applied, given up or followed by another one.
CommandsSettle == \A r \in Revisions : []<>(schedule.revision # r \/ Settled)

\* ADR-0011:18: a pause keeps the workflows that start after it from making runs.
PauseHolds == \A f \in Fires : fire[f].paused => ~ fire[f].run
=============================================================================
