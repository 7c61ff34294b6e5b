------------------------------ MODULE TaskLaunch ------------------------------
(***************************************************************************)
(* How a task run comes into being, composed with the delivery of its      *)
(* start intent.                                                           *)
(*                                                                         *)
(* Callers (people, CI systems, schedules) ask for the run of one trigger, *)
(* each under an idempotency key that is remembered for a day.  A run of   *)
(* up to 64 units is written, sealed and given its start intent by the     *)
(* launch itself.  A larger one is written without units; the partitions   *)
(* of its manifest are claimed, filled and completed by consumers, and     *)
(* whoever completes the last one seals the run in the same transaction.   *)
(* The seal looks again at everything the units depend on, which may have  *)
(* been retired since: it may refuse, whatever the launch has looked at.   *)
(*                                                                         *)
(* The row of StartIntent is the one the seal writes: nothing reads it     *)
(* before.                                                                 *)
(***************************************************************************)
EXTENDS StartIntent

CONSTANTS
  Callers,       \* who asks for a run of this trigger
  Key,           \* caller -> its idempotency key
  Input,         \* caller -> what it asks for: plan version, iteration, policies
  Partitions,    \* of the manifest of a large run
  PartAttempts,  \* claims after which a transient error is final
  MaxPartFaults  \* bound on lapsed claims and lost answers

ASSUME LaunchAssumption ==
  /\ \A c \in Callers : Input[c] # "NONE"
  /\ PartAttempts \in Nat \ {0} /\ MaxPartFaults \in Nat

Keys == {Key[c] : c \in Callers}
Inputs == {Input[c] : c \in Callers}

VARIABLES
  record,     \* key -> idempotency record
  run,        \* the run of the trigger
  units,      \* partition -> how often its units were written
  seals,      \* start intents written
  part,       \* partition -> its row
  fills,      \* partitions at work in the memory of some consumer
  told,       \* callers that were answered with the run
  partFaults

launchVars == <<record, run, units, seals, part, fills, told, partFaults>>
vars == <<launchVars, intentVars>>

\* A small run has its units from the start and no partitions.
Run == [state : {"NONE", "MATERIALIZING", "SEALED"}, input : Inputs \cup {"NONE"}]
NoRun == [state |-> "NONE", input |-> "NONE"]

\* A record is committed with its answer or not at all: PROCESSING is never seen.
Record == [input : Inputs \cup {"NONE"}]
NoRecord == [input |-> "NONE"]

Partition == [status : {"NONE", "PENDING", "CLAIMED", "RETRY_WAIT", "COMPLETED", "FAILED"},
              revision : Nat, attempts : Nat, lapsed : BOOLEAN]
NoPartition == [status |-> "NONE", revision |-> 0, attempts |-> 0, lapsed |-> FALSE]

Fill == [part : Partitions, revision : Nat, attempts : Nat,
         phase : {"COMPLETE", "TRANSIENT", "INVARIANT"}]

LInit ==
  /\ SInit
  /\ record = [k \in Keys |-> NoRecord]
  /\ run = NoRun
  /\ units = [p \in Partitions |-> 0]
  /\ seals = 0
  /\ part = [p \in Partitions |-> NoPartition]
  /\ fills = {}
  /\ told = {}
  /\ partFaults = 0

-----------------------------------------------------------------------------
(* Launch *)

RecordLapses(k) ==
  /\ record[k] # NoRecord
  /\ record' = [record EXCEPT ![k] = NoRecord]
  /\ UNCHANGED <<run, units, seals, part, fills, told, partFaults>>

Remembered(c) == record[Key[c]] # NoRecord

Answered200(c) == told' = told \cup {c}

SameRequest(c) == record[Key[c]].input = Input[c]

\* The answer of the first request that was made under the key.
Replay(c) ==
  /\ Remembered(c) /\ SameRequest(c)
  /\ Answered200(c)
  /\ UNCHANGED <<record, run, units, seals, part, fills, partFaults>>

Remember(c) == record' = [record EXCEPT ![Key[c]] = [input |-> Input[c]]]

Sealed == run.state = "SEALED"

\* Rows, units, seal and intent, or nothing at all.  A launch that is refused (its
\* plan is archived, a profile is not published, the seal objects) writes nothing.
CreateSmall(c) ==
  /\ ~ Remembered(c) /\ run = NoRun
  /\ run' = [state |-> "SEALED", input |-> Input[c]]
  /\ units' = [p \in Partitions |-> 1]
  /\ seals' = seals + 1
  /\ Remember(c) /\ Answered200(c)
  /\ UNCHANGED <<part, fills, partFaults>>

\* The run, its manifest and a row for each partition of it.
CreateLarge(c) ==
  /\ ~ Remembered(c) /\ run = NoRun
  /\ run' = [state |-> "MATERIALIZING", input |-> Input[c]]
  /\ part' = [p \in Partitions |-> [NoPartition EXCEPT !.status = "PENDING"]]
  /\ Remember(c) /\ Answered200(c)
  /\ UNCHANGED <<units, seals, fills, partFaults>>

\* Two requests for one trigger meet at task_run_trigger_unique: the later waits
\* for the earlier one and finds its run, be it sealed, materializing or stuck.
\* Another input is a conflict, which writes nothing.
SameRun(c) == run.input = Input[c]

FindRun(c) ==
  /\ ~ Remembered(c) /\ run # NoRun
  /\ SameRun(c)
  /\ Remember(c) /\ Answered200(c)
  /\ UNCHANGED <<run, units, seals, part, fills, partFaults>>

Launch(c) == Replay(c) \/ CreateSmall(c) \/ CreateLarge(c) \/ FindRun(c)

-----------------------------------------------------------------------------
(* Partitions *)

\* mutant: a claim that has lapsed is left to its consumer
PartClaimableOnce(p) == part[p].status \in {"PENDING", "RETRY_WAIT"}

PartClaimable(p) ==
  \/ part[p].status \in {"PENDING", "RETRY_WAIT"}
  \/ part[p].status = "CLAIMED" /\ part[p].lapsed

ClaimPartition(p) ==
  /\ PartClaimable(p)
  /\ part' = [part EXCEPT ![p] = [status |-> "CLAIMED", revision |-> @.revision + 1,
                                  attempts |-> @.attempts + 1, lapsed |-> FALSE]]
  /\ fills' = fills \cup {[part |-> p, revision |-> part'[p].revision,
                           attempts |-> part'[p].attempts, phase |-> "COMPLETE"]}
  /\ UNCHANGED <<record, run, units, seals, told, partFaults>>

\* The database allows 64 claims of a partition; the bound on faults keeps below.
Faulty == partFaults < MaxPartFaults /\ partFaults' = partFaults + 1

ClaimLapses(p) ==
  /\ part[p].status = "CLAIMED" /\ ~ part[p].lapsed
  /\ Faulty
  /\ part' = [part EXCEPT ![p].lapsed = TRUE]
  /\ UNCHANGED <<record, run, units, seals, fills, told>>

\* mutant: the status alone is compared
HoldsAnyClaim(d) == part[d.part].status = "CLAIMED"

\* The compare-and-set of all three outcomes.  Their clock is read before they wait
\* for the row, so a claim that has just lapsed and that nobody took over may do.
HoldsClaim(d) ==
  /\ part[d.part].status = "CLAIMED"
  /\ part[d.part].revision = d.revision

Moves(d, status) ==
  part' = [part EXCEPT ![d.part].status = status, ![d.part].lapsed = FALSE,
                       ![d.part].revision = @ + 1]

\* mutant: the partitions that are at work or still to come are forgotten
NoOtherWaits(d) == \A p \in Partitions \ {d.part} : part[p].status # "RETRY_WAIT"

\* Read under the lock of the run, so that the last two cannot miss each other.
IsLast(d) == \A p \in Partitions \ {d.part} : part[p].status = "COMPLETED"

\* What complete_task_run_materialization_partition insists on of run and units.
Eligible(d) == run.state = "MATERIALIZING" /\ units[d.part] = 0

Seal(d) ==
  IF IsLast(d) THEN run' = [run EXCEPT !.state = "SEALED"] /\ seals' = seals + 1
               ELSE UNCHANGED <<run, seals>>

\* The units, the outcome and, with the last partition, seal and intent.
Fills(d) ==
  /\ d.phase = "COMPLETE" /\ HoldsClaim(d)
  /\ Eligible(d)
  /\ units' = [units EXCEPT ![d.part] = @ + 1]
  /\ Moves(d, "COMPLETED")
  /\ Seal(d)

CompletePartition(d) ==
  /\ Fills(d)
  /\ fills' = fills \ {d}
  /\ UNCHANGED <<record, told, partFaults>>

InPhase(d, phase) == (fills \ {d}) \cup {[d EXCEPT !.phase = phase]}

\* The transaction commits and its consumer never hears of it.
CommitUnheard(d) ==
  /\ Fills(d)
  /\ Faulty
  /\ fills' = InPhase(d, "TRANSIENT")
  /\ UNCHANGED <<record, told>>

\* The seal refuses what has gone stale since the launch (a version that is no
\* longer published, an environment that is disabled, a role that has changed),
\* and takes the units of the partition along.
SealRefuses(d) ==
  /\ d.phase = "COMPLETE" /\ HoldsClaim(d)
  /\ ~ Eligible(d) \/ IsLast(d)
  /\ fills' = InPhase(d, "INVARIANT")
  /\ UNCHANGED <<record, run, units, seals, part, told, partFaults>>

\* A lost connection, a deadlock, a timeout: nothing was committed.
FillFails(d) ==
  /\ d.phase = "COMPLETE"
  /\ fills' = InPhase(d, "TRANSIENT")
  /\ UNCHANGED <<record, run, units, seals, part, told, partFaults>>

PartExhausted(d) == d.attempts >= PartAttempts

RetryPartition(d) ==
  /\ d.phase = "TRANSIENT" /\ ~ PartExhausted(d) /\ HoldsClaim(d)
  /\ Moves(d, "RETRY_WAIT")
  /\ fills' = fills \ {d}
  /\ UNCHANGED <<record, run, units, seals, told, partFaults>>

FailPartition(d) ==
  /\ d.phase = "INVARIANT" \/ (d.phase = "TRANSIENT" /\ PartExhausted(d))
  /\ HoldsClaim(d)
  /\ Moves(d, "FAILED")
  /\ fills' = fills \ {d}
  /\ UNCHANGED <<record, run, units, seals, told, partFaults>>

ClaimLost(d) ==
  /\ ~ HoldsClaim(d) \/ part[d.part].lapsed
  /\ fills' = fills \ {d}
  /\ UNCHANGED <<record, run, units, seals, part, told, partFaults>>

\* The consumer dies, or another of its loops takes it down: its claim lapses.
ConsumerDies(d) ==
  /\ HoldsClaim(d) /\ ~ part[d.part].lapsed
  /\ Faulty
  /\ fills' = fills \ {d}
  /\ part' = [part EXCEPT ![d.part].lapsed = TRUE]
  /\ UNCHANGED <<record, run, units, seals, told>>

-----------------------------------------------------------------------------

Consume ==
  \/ \E p \in Partitions : ClaimPartition(p) \/ ClaimLapses(p)
  \/ \E d \in fills : \/ CompletePartition(d) \/ CommitUnheard(d) \/ SealRefuses(d)
                      \/ FillFails(d) \/ RetryPartition(d) \/ FailPartition(d) \/ ClaimLost(d)

LaunchNext ==
  \/ \E k \in Keys : RecordLapses(k)
  \/ \E c \in Callers : Launch(c)
  \/ Consume
  \/ \E d \in fills : ConsumerDies(d)

LNext ==
  \/ LaunchNext /\ UNCHANGED intentVars
  \/ Sealed /\ SNext /\ UNCHANGED launchVars

LSpec == LInit /\ [][LNext]_vars

\* Consumers poll for ever and are restarted; a transaction has a timeout.
LFairSpec ==
  LSpec /\ WF_vars(\/ Consume /\ UNCHANGED intentVars
                   \/ Sealed /\ Dispatch /\ UNCHANGED launchVars)

-----------------------------------------------------------------------------
(* Properties *)

LaunchTypeOK ==
  /\ STypeOK
  /\ record \in [Keys -> Record]
  /\ run \in Run
  /\ units \in [Partitions -> 0..1]
  /\ seals \in 0..1
  /\ part \in [Partitions -> Partition]
  /\ fills \subseteq Fill
  /\ told \subseteq Callers /\ partFaults \in 0..MaxPartFaults

\* A run has its start intent, and may be executed, when all its units exist and
\* not before, each of them once: whatever consumers lost their claim, came late
\* with what was done already, or never heard that they had done it.
SealedIsWhole ==
  /\ seals = 1 <=> Sealed
  /\ Sealed => \A p \in Partitions : units[p] = 1
  /\ \A r \in Runs : starts[r] > 0 => Sealed

\* A partition has its units from the transaction that completes it.
CompletedHasUnits ==
  \A p \in Partitions : part[p].status # "NONE" => (units[p] = 1 <=> part[p].status = "COMPLETED")

\* Whoever is told that a run is his is told of a run of what he asked for, be it
\* made for him, found, or remembered under a key that he shares or has used again.
AnswersAreOwn == \A c \in told : run # NoRun /\ run.input = Input[c]

\* A run is launched whole and for those who asked for it
\* (create_run, create_partitioned_run, complete_task_run_materialization_partition,
\* IdempotencyRepository.reserve).
LaunchInv == LaunchTypeOK /\ SealedIsWhole /\ CompletedHasUnits /\ AnswersAreOwn

\* Only the newest claim of a partition decides it, once.
PartStage(row) ==
  CASE row.status \in {"NONE", "PENDING", "RETRY_WAIT"} -> "OPEN"
    [] row.status = "CLAIMED" -> "CLAIMED"
    [] row.status = "COMPLETED" -> "DELIVERED"
    [] row.status = "FAILED" -> "FAILED"

\* A consumer that was not told of its own success has nothing left to decide.
Unheard(d) == part[d.part].status = "COMPLETED" /\ part[d.part].revision = d.revision + 1

PartitionQueue == INSTANCE ClaimedDelivery WITH
  Items    <- Partitions,
  state    <- [p \in Partitions |-> PartStage(part[p])],
  revision <- [p \in Partitions |-> part[p].revision],
  work     <- {<<d.part, d.revision>> : d \in {e \in fills : ~ Unheard(e)}}

PartitionsRefineClaimedDelivery == PartitionQueue!CSpec

\* Every run that was launched is sealed and its start decided in the end, or one
\* of its partitions has failed, which leaves it materializing for good.
LaunchEnds ==
  []<>(\/ run = NoRun
       \/ \A r \in Runs : Sealed /\ intent[r].status \in {"STARTED", "FAILED"}
       \/ \E p \in Partitions : part[p].status = "FAILED")

=============================================================================
