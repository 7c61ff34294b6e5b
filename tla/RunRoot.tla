------------------------------ MODULE RunRoot ------------------------------
(***************************************************************************)
(* The root workflow of a task run (AtlasTaskRunWorkflow), the transactions *)
(* of its activities, and their interplay with the commands.               *)
(*                                                                         *)
(* An activity is one transaction whose result comes back later, or never: *)
(* then it is executed again with the same input.  Signals are accepted at *)
(* any time between the two.  An attempt that was given up is over: its    *)
(* statements time out before the activity does.                           *)
(*                                                                         *)
(* A run has pages of batches of units; a run of one page is finished from *)
(* the outcomes in the workflow's memory, a longer one from the database.  *)
(* Of a batch there is whether it is authorized, under way, settled and    *)
(* retried.  An activity that raises an invariant error ends the root.     *)
(***************************************************************************)
EXTENDS RunCommand

CONSTANTS
  Pages,         \* bound on the pages of a run
  Batches,       \* batches of a page
  MaxRetries,    \* bound on the batches that are retried
  MaxLosses,     \* bound on the activity results that are lost
  Rejections     \* whether admission may reject a batch

ASSUME RootAssumption ==
  /\ Pages \in Nat \ {0}
  /\ Batches \in Nat \ {0}
  /\ MaxRetries \in Nat
  /\ MaxLosses \in Nat
  /\ Rejections \in BOOLEAN

VARIABLES
  root,     \* memory of the root's workflow
  batch,    \* what the database has of the batch the root works on
  losses    \* results lost so far

rootVars == <<run, command, deliveries, sent, workflow, faults, root, batch, losses>>

Activities == {"LOAD", "CHECKPOINT", "SETTLE", "PREPARE", "LAST", "DRAIN", "FINISH"}

Replies == {"NONE", "ERROR", "PLAN", "CLOSED", "PAUSED", "DISPATCHABLE", "PAUSE_REQUESTED",
            "CANCELING", "SETTLED", "RETRIED", "AUTHORIZED", "CANCELED", "RESULT"}

FinishInput == [cancel : BOOLEAN, commands : SUBSET Commands]

RootMemory ==
  [at        : Activities \cup {"WAIT", "TIMER", "BATCH", "END"},
   reply     : Replies,           \* result on its way from the activity
   cancel    : BOOLEAN,           \* _cancel_requested
   recorded  : SUBSET Commands,   \* _commands
   woken     : BOOLEAN,           \* _control_generation has moved on
   pages     : 1..Pages,
   page      : 1..Pages,
   left      : 0..Batches,        \* pending
   unsettled : BOOLEAN,
   input     : FinishInput]

RTypeOK ==
  /\ CTypeOK
  /\ root \in RootMemory
  /\ batch \in [settled : {"NONE", "SETTLED", "RETRIED"}, retries : 0..MaxRetries]
  /\ losses \in 0..MaxLosses

Partitioned == root.pages > 1

Fresh(pages) ==
  [at |-> "LOAD", reply |-> "NONE", cancel |-> FALSE, recorded |-> {}, woken |-> FALSE,
   pages |-> pages, page |-> 1, left |-> 0, unsettled |-> FALSE,
   input |-> [cancel |-> FALSE, commands |-> {}]]

RInit ==
  /\ CInit
  /\ root \in {Fresh(pages) : pages \in 1..Pages}
  /\ batch = [settled |-> "NONE", retries |-> 0]
  /\ losses = 0

\* The start intent of the run is delivered.
RootStarts ==
  /\ workflow = "NONE"
  /\ workflow' = "RUNNING"
  /\ UNCHANGED <<run, command, deliveries, sent, faults, root, batch, losses>>

-----------------------------------------------------------------------------
(* Signals *)

\* mutant: the first command is all the root takes
FirstRecorded(c) ==
  IF root.recorded # {} THEN root
  ELSE [root EXCEPT !.recorded = @ \cup {c}, !.woken = TRUE,
                    !.cancel = @ \/ command[c].type = "CANCEL"]

\* apply_command: a redelivered signal changes nothing.
Recorded(c) ==
  IF c \in root.recorded THEN root
  ELSE [root EXCEPT !.recorded = @ \cup {c}, !.woken = TRUE,
                    !.cancel = @ \/ command[c].type = "CANCEL"]

\* Temporal accepts the signal of c; its caller may learn of it.
SignalAccepted(c) ==
  /\ c \in sent
  /\ workflow = "RUNNING"
  /\ sent' = sent \ {c}
  /\ root' = Recorded(c)
  /\ deliveries' = {IF d.cmd = c /\ d.phase = "AWAIT" THEN [d EXCEPT !.phase = "SIGNALED"]
                    ELSE d : d \in deliveries}
  /\ UNCHANGED <<run, command, workflow, faults, batch, losses>>

-----------------------------------------------------------------------------
(* The transactions of the activities *)

Runs(activity) ==
  /\ workflow = "RUNNING"
  /\ root.at = activity
  /\ root.reply = "NONE"

Reply(reply) == root' = [root EXCEPT !.reply = reply]

\* A transaction that changes nothing, or rolls back with an invariant error.
Answer(reply) ==
  /\ Reply(reply)
  /\ UNCHANGED <<run, command, batch>>

Dispatchable == run.lifecycle \in {"QUEUED", "RUNNING"}
Pausing == run.lifecycle \in {"PAUSE_REQUESTED", "PAUSED"}

LoadPlan ==
  /\ Runs("LOAD")
  /\ Answer(IF run.lifecycle = "CLOSED" THEN "ERROR"
            ELSE IF run.lifecycle = "CANCELING" THEN "CANCELING" ELSE "PLAN")

\* The command that explains the state of the run, and nothing else, is open.
ExplainedBy(type) == OpenControl # {} /\ OpenControl \subseteq Open({type})

\* The run moves, and the command that asked for it is applied with it.
Applies(lifecycle) ==
  /\ run' = [run EXCEPT !.lifecycle = lifecycle]
  /\ command' = Resolved(OpenControl, "APPLIED")

CheckpointPauses ==
  /\ run.lifecycle = "PAUSE_REQUESTED"
  /\ ExplainedBy("PAUSE")
  /\ Applies("PAUSED")
  /\ UNCHANGED batch
  /\ Reply("PAUSED")

CheckpointResumes ==
  /\ run.lifecycle = "PAUSED"
  /\ ExplainedBy("RESUME")
  /\ Applies("RUNNING")
  /\ UNCHANGED batch
  /\ Reply("DISPATCHABLE")

CheckpointAnswer ==
  IF run.lifecycle \in {"CANCELING", "CLOSED"} THEN run.lifecycle
  ELSE IF run.lifecycle = "PAUSE_REQUESTED" \/ OpenControl # {} THEN "ERROR"
  ELSE IF run.lifecycle = "PAUSED" THEN "PAUSED" ELSE "DISPATCHABLE"

CheckpointAnswers ==
  /\ ~ (run.lifecycle = "PAUSE_REQUESTED" /\ ExplainedBy("PAUSE"))
  /\ ~ (run.lifecycle = "PAUSED" /\ ExplainedBy("RESUME"))
  /\ Answer(CheckpointAnswer)

\* checkpoint_control, in the loop and after it.
CheckpointControl ==
  /\ Runs("CHECKPOINT") \/ Runs("LAST")
  /\ CheckpointPauses \/ CheckpointResumes \/ CheckpointAnswers

RetriesLeft == batch.retries < MaxRetries

\* A batch is settled once; doing it again repeats the decision.
Settles(mayRetry) ==
  \/ /\ batch.settled # "NONE"
     /\ Answer(batch.settled)
  \/ /\ batch.settled = "NONE"
     /\ batch' = [batch EXCEPT !.settled = "SETTLED"]
     /\ Reply("SETTLED")
     /\ UNCHANGED <<run, command>>
  \/ /\ batch.settled = "NONE"
     /\ mayRetry
     /\ RetriesLeft
     /\ batch' = [settled |-> "RETRIED", retries |-> batch.retries + 1]
     /\ Reply("RETRIED")
     /\ UNCHANGED <<run, command>>

\* What a batch is told by a run that does not dispatch.
Refusal ==
  IF Pausing THEN "PAUSE_REQUESTED"
  ELSE IF run.lifecycle = "CANCELING" THEN "CANCELING" ELSE "ERROR"

SettleBatch ==
  /\ Runs("SETTLE")
  /\ IF Dispatchable THEN Settles(TRUE) ELSE Answer(Refusal)

\* settle_attempt_batch with cancel_requested: whatever is left is closed.
DrainBatch ==
  /\ Runs("DRAIN")
  /\ run.lifecycle # "CLOSED"
  /\ Settles(FALSE)

PrepareBatch ==
  /\ Runs("PREPARE")
  /\ \/ Dispatchable /\ Answer("AUTHORIZED")
     \/ Dispatchable /\ Rejections /\ Answer("ERROR")
     \/ ~ Dispatchable /\ Answer(Refusal)

-----------------------------------------------------------------------------
(* The units of a batch *)

\* start_attempt: the first attempt of a run puts it to work.
AttemptStarts ==
  /\ workflow = "RUNNING"
  /\ root.at = "BATCH"
  /\ run.lifecycle = "QUEUED"
  /\ run' = [run EXCEPT !.lifecycle = "RUNNING"]
  /\ UNCHANGED <<command, deliveries, sent, workflow, faults, root, batch, losses>>

\* Every child of the batch has an outcome, if only that it was not started.
BatchEnds ==
  /\ workflow = "RUNNING"
  /\ root.at = "BATCH"
  /\ root' = [root EXCEPT !.at = "CHECKPOINT", !.woken = FALSE, !.unsettled = TRUE]
  /\ UNCHANGED <<run, command, deliveries, sent, workflow, faults, batch, losses>>

-----------------------------------------------------------------------------
(* The end of the run *)

\* _settle_control_before_finish applies the PAUSE or RESUME that is open.
SettledControl == IF Pausing THEN OpenControl ELSE {}

ControlConflict == run.lifecycle = "PAUSE_REQUESTED" /\ ~ ExplainedBy("PAUSE")

\* mutant: what the root knows decides
CanceledByInput == root.input.cancel

CanceledNow == root.input.cancel \/ run.lifecycle = "CANCELING"

Outcome == IF CanceledNow THEN "CANCELED" ELSE "RESULT"

\* The CANCEL to acknowledge: one the root was told of, or in a run of many
\* pages one that the database still has open.
ToAcknowledge ==
  IF root.input.commands # {} THEN root.input.commands
  ELSE IF Partitioned /\ CanceledNow THEN Open({"CANCEL"}) ELSE {}

\* Else apply_task_run_cancel_command raises, and the activity is tried again.
Acknowledgeable ==
  \A c \in ToAcknowledge : command[c].status \in {"CLAIMED", "DELIVERED", "APPLIED"}

FinishConflict ==
  \/ ControlConflict
  \/ run.lifecycle = "CLOSED" /\ run.quality # Outcome
  \/ root.input.commands # {} /\ ~ CanceledNow

\* finish_run, finish_partitioned_run
FinishRun ==
  /\ Runs("FINISH")
  /\ IF FinishConflict THEN Answer("ERROR")
     ELSE
       /\ Acknowledgeable
       /\ run' = [lifecycle |-> "CLOSED", quality |-> Outcome]
       /\ command' = Resolved(SettledControl \cup
                       {c \in ToAcknowledge : command[c].status # "APPLIED"}, "APPLIED")
       /\ Reply(Outcome)
       /\ UNCHANGED batch

Transaction ==
  /\ \/ LoadPlan
     \/ CheckpointControl
     \/ SettleBatch
     \/ DrainBatch
     \/ PrepareBatch
     \/ FinishRun
  /\ UNCHANGED <<deliveries, sent, workflow, faults, losses>>

\* The worker dies after the commit, or its report is lost.
ResultLost ==
  /\ workflow = "RUNNING"
  /\ root.reply # "NONE"
  /\ losses < MaxLosses
  /\ losses' = losses + 1
  /\ Reply("NONE")
  /\ UNCHANGED <<run, command, deliveries, sent, workflow, faults, batch>>

-----------------------------------------------------------------------------
(* The workflow between its activities *)

Schedules(r, activity) == [r EXCEPT !.at = activity, !.reply = "NONE"]

CancelCommands(r) == {c \in r.recorded : command[c].type = "CANCEL"}

LatestInput(r) == [cancel |-> r.cancel, commands |-> CancelCommands(r)]

\* A continued workflow keeps the request to cancel and no command.
Continued(r) ==
  [Schedules(r, "LOAD") EXCEPT !.page = @ + 1, !.left = 0, !.unsettled = FALSE,
                               !.recorded = {}, !.woken = FALSE]

AfterPage(r) ==
  IF r.page < r.pages THEN Continued(r)
  ELSE [Schedules(r, "FINISH") EXCEPT !.input = LatestInput(r)]

\* Past the loop over the batches.
AfterLoop(r) ==
  IF r.cancel /\ Partitioned /\ r.left > 0 THEN Schedules(r, "DRAIN") ELSE AfterPage(r)

Canceled(r) == AfterLoop([r EXCEPT !.cancel = TRUE])

LoopHead(r) ==
  IF r.left > 0 THEN [Schedules(r, "CHECKPOINT") EXCEPT !.woken = FALSE]
  ELSE IF r.cancel THEN AfterLoop(r) ELSE Schedules(r, "LAST")

Planned ==
  root' = LoopHead([root EXCEPT !.left = Batches, !.cancel = @ \/ root.reply = "CANCELING"])

WokenMeanwhile == root.woken

\* A signal that came in since the checkpoint was scheduled is no reason to
\* wait for another one.
Checked ==
  IF root.cancel \/ root.reply = "CANCELING" THEN root' = Canceled(root)
  ELSE \/ /\ root.reply = "PAUSED"
          /\ root' = IF WokenMeanwhile THEN LoopHead(root)
                     ELSE [Schedules(root, "WAIT") EXCEPT !.woken = FALSE]
       \/ /\ root.reply = "DISPATCHABLE"
          /\ root.unsettled
          /\ root' = Schedules(root, "SETTLE")
       \/ /\ root.reply = "DISPATCHABLE"
          /\ ~ root.unsettled
          /\ root' = Schedules(root, "PREPARE")
       \/ /\ root.reply = "DISPATCHABLE"    \* the batch has a retry that is not due
          /\ ~ root.unsettled
          /\ batch.retries > 0
          /\ root' = [Schedules(root, "TIMER") EXCEPT !.woken = FALSE]

BatchSettled(r) ==
  [r EXCEPT !.unsettled = FALSE, !.left = IF root.reply = "SETTLED" THEN @ - 1 ELSE @]

Settled ==
  \/ root.reply = "CANCELING" /\ root' = Canceled(root)
  \/ root.reply = "PAUSE_REQUESTED" /\ root' = LoopHead(root)
  \/ root.reply \in {"SETTLED", "RETRIED"} /\ root' = LoopHead(BatchSettled(root))

Drained == root' = AfterLoop(BatchSettled(root))

Prepared ==
  IF root.cancel \/ root.reply = "CANCELING" THEN root' = Canceled(root)
  ELSE \/ root.reply = "PAUSE_REQUESTED" /\ root' = LoopHead(root)
       \/ root.reply = "AUTHORIZED" /\ root' = Schedules(root, "BATCH")

LastChecked ==
  root' = AfterLoop([root EXCEPT !.cancel = @ \/ root.reply = "CANCELING"])

\* Results that end the root.
Fatal == IF root.at = "CHECKPOINT" /\ ~ root.cancel THEN {"ERROR", "CLOSED"} ELSE {"ERROR"}

\* The root was told of a CANCEL while it finished.
FinishAgain == LatestInput(root) # root.input

\* The root has not been told that its run is to be canceled, and learns only
\* from the finish that it was.
Surprised == root.at = "FINISH" /\ root.reply = "CANCELED" /\ ~ root.input.cancel

\* The root of a run of many pages does not take that for a result, though
\* none of its units was canceled.
Rejected == Partitioned /\ Surprised

\* The outcome of an activity that another step is scheduled for.  What the
\* database has of the batch is then about the next one.
ResultArrives ==
  /\ workflow = "RUNNING"
  /\ root.reply \notin {"NONE"} \cup Fatal
  /\ \/ root.at = "LOAD" /\ Planned
     \/ root.at = "CHECKPOINT" /\ Checked
     \/ root.at = "SETTLE" /\ Settled
     \/ root.at = "DRAIN" /\ Drained
     \/ root.at = "PREPARE" /\ Prepared
     \/ root.at = "LAST" /\ LastChecked
     \/ /\ root.at = "FINISH"
        /\ FinishAgain
        /\ root' = [Schedules(root, "FINISH") EXCEPT !.input = LatestInput(root)]
  /\ batch' = IF root.reply \in {"SETTLED", "RETRIED"} THEN [batch EXCEPT !.settled = "NONE"]
              ELSE batch
  /\ UNCHANGED <<run, command, deliveries, sent, workflow, faults, losses>>

\* A signal that is still on its way finds no workflow any more.
Ends(state) ==
  /\ workflow' = state
  /\ root' = [Fresh(root.pages) EXCEPT !.at = "END"]
  /\ sent' = {}
  /\ UNCHANGED <<run, command, deliveries, faults, batch, losses>>

RootFails ==
  /\ workflow = "RUNNING"
  /\ root.reply \in Fatal \/ (Rejected /\ ~ FinishAgain)
  /\ Ends("FAILED")

RootCompletes ==
  /\ workflow = "RUNNING"
  /\ root.at = "FINISH"
  /\ root.reply \in {"CANCELED", "RESULT"}
  /\ ~ FinishAgain
  /\ ~ Rejected
  /\ Ends("COMPLETED")

\* A signal ends the wait of a paused root, or of one that waits for a retry.
RootWakes ==
  /\ workflow = "RUNNING"
  /\ root.at \in {"WAIT", "TIMER"}
  /\ root.woken \/ root.cancel
  /\ root' = LoopHead(root)
  /\ UNCHANGED <<run, command, deliveries, sent, workflow, faults, batch, losses>>

TimerFires ==
  /\ workflow = "RUNNING"
  /\ root.at = "TIMER"
  /\ root' = Schedules(root, "PREPARE")
  /\ UNCHANGED <<run, command, deliveries, sent, workflow, faults, batch, losses>>

-----------------------------------------------------------------------------

Root ==
  \/ RootStarts
  \/ \E c \in sent : SignalAccepted(c)
  \/ Transaction
  \/ ResultLost
  \/ AttemptStarts
  \/ BatchEnds
  \/ ResultArrives
  \/ RootFails
  \/ RootCompletes
  \/ RootWakes
  \/ TimerFires

RNext ==
  \/ (Accept \/ Dispatch) /\ UNCHANGED <<root, batch, losses>>
  \/ (\E d \in deliveries : Vanish(d)) /\ UNCHANGED <<root, batch, losses>>
  \/ Root

RSpec == RInit /\ [][RNext]_rootVars

\* The dispatchers poll for ever and are restarted, Temporal drives the root
\* and passes signals on, the children of a batch end by their deadline.
\* Nobody has to send a command.
Fairness == WF_rootVars(Root \/ (Dispatch /\ UNCHANGED <<root, batch, losses>>))

FairSpec == RSpec /\ Fairness

-----------------------------------------------------------------------------
(* Properties *)

CancelAccepted == \E c \in Commands : command[c].type = "CANCEL"

CanceledRun == run.lifecycle = "CLOSED" /\ run.quality = "CANCELED"

\* An unresolved PAUSE or RESUME is the only one and still has something to
\* do: no order of acceptance, supersession, application and closure leaves
\* one behind that a run has left (supersede_task_run_commands,
\* _settle_control_before_finish).
OpenControlFitsRun ==
  /\ Cardinality(OpenControl) <= 1
  /\ Open({"PAUSE"}) # {} => run.lifecycle = "PAUSE_REQUESTED"
  /\ Open({"RESUME"}) # {} => run.lifecycle = "PAUSED"

\* An accepted CANCEL wins: whatever the root knew when it finished, the run
\* is on its way to be closed as canceled, or is.  And only then.
CancelWins ==
  CancelAccepted <=> run.lifecycle = "CANCELING" \/ CanceledRun

\* A CANCEL is acknowledged only once its run is closed as canceled
\* (apply_task_run_cancel_command, fail_task_run_command_intent).
AcknowledgedAfterClosure ==
  \A c \in Commands :
    command[c].type = "CANCEL" /\ command[c].status = "APPLIED" => CanceledRun

\* A run is PAUSED only between batches: no unit is under way, and none that
\* was authorized is refused its start.
PausedBetweenBatches == run.lifecycle = "PAUSED" => root.at # "BATCH"

\* The rows of run, commands and root fit each other, a CANCEL prevails over
\* whatever else was asked for (supersede_task_run_commands), and a PAUSE that was
\* accepted in the middle of a batch waits for its end (checkpoint).
RInv ==
  /\ RTypeOK /\ OpenControlFitsRun
  /\ CancelWins /\ AcknowledgedAfterClosure /\ PausedBetweenBatches

\* The queue of commands keeps the promise of ClaimedDelivery, also where
\* applying and superseding cut in on a delivery.
Stage(row) ==
  CASE row.status \in {"PENDING", "RETRY_WAIT"} -> "OPEN"
    [] row.status = "CLAIMED" -> "CLAIMED"
    [] row.status = "DELIVERED" -> "DELIVERED"
    [] row.status = "FAILED" -> "FAILED"
    [] row.status \in {"APPLIED", "SUPERSEDED"} -> "SETTLED"

Queue == INSTANCE ClaimedDelivery WITH
  Items    <- Commands,
  state    <- [c \in Commands |-> Stage(command[c])],
  revision <- [c \in Commands |-> command[c].revision],
  work     <- {<<d.cmd, d.revision>> : d \in deliveries}

RefinesClaimedDelivery == Queue!CSpec

\* An accepted PAUSE takes effect, is superseded, or finds the run closed.
PauseTakesEffect ==
  []<>(run.lifecycle # "PAUSE_REQUESTED")

\* A RESUME is not lost on a root that has paused, or is just about to.
ResumeTakesEffect == []<>(Open({"RESUME"}) = {})

\* Both controls that leave the run open take effect (_advance_control).
ControlsTakeEffect == PauseTakesEffect /\ ResumeTakesEffect

\* The CANCEL of a run that is closed as canceled is acknowledged, by the
\* finish, by finishing again or by the dispatcher that finds no workflow,
\* unless the root has failed.
CancelAcknowledgedByRoot ==
  []<>(~ CanceledRun \/ Open({"CANCEL"}) = {} \/ workflow = "FAILED")

\* So it is unless the delivery of a command was given up: also when the
\* signal comes before the workflow, is lost, or comes when the root is done.
DeliveredCancelClosesRun ==
  []<>(run.lifecycle # "CANCELING" \/ \E c \in Commands : command[c].status = "FAILED")

\* A CANCEL comes to its end: the run is closed, and the command is acknowledged
\* (finish_run, _advance_control).
CancelEnds == DeliveredCancelClosesRun /\ CancelAcknowledgedByRoot

=============================================================================
