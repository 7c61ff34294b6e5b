------------------------------ MODULE TaskUnit ------------------------------
(***************************************************************************)
(* The units of a task run and their attempts: the root workflow dispatches *)
(* batches of units, one child workflow for each attempt, settles what the  *)
(* children answered, schedules retries of attempts that failed for the     *)
(* infrastructure, and closes the run with all its units.                   *)
(*                                                                         *)
(* A transaction of an activity takes effect at once; its answer may be lost *)
(* and then it is executed again.  The executor of an attempt is an activity *)
(* that is never retried: its child gives it up when it stops beating, and  *)
(* it may go on regardless.  The verdict it seals closes the attempt.       *)
(*                                                                         *)
(* RunRoot has the commands, their delivery and the pages of long runs;     *)
(* here a run has one page and the commands are what they do to it.         *)
(***************************************************************************)
EXTENDS Naturals, FiniteSets, Sequences

CONSTANTS
  UnitCount,      \* units of the run
  BatchSize,      \* TASK_RUN_CHILD_BATCH_SIZE
  InfraRetries,   \* infra_retry_attempts of the manifest
  TotalRetries,   \* max_total_infra_retries of the manifest
  Reports,        \* what an executor may report without a seal
  Verdicts,       \* qualities an executor may seal
  MaxFaults,      \* bound on the faults
  Losses,         \* what faults may take: answers, children, executors
  MaxPauses,      \* bound on the pauses users request
  Cancels,        \* whether a user cancels the run
  Deadlines,      \* whether the execution deadline may pass
  Rejections      \* whether admission may reject a unit

ASSUME TaskUnitAssumption ==
  /\ {UnitCount, BatchSize} \subseteq Nat \ {0}
  /\ {InfraRetries, TotalRetries, MaxFaults, MaxPauses} \subseteq Nat
  /\ Reports \subseteq {"FAILED", "INFRA_ERROR", "INCONCLUSIVE", "CANCELED"}
  /\ Verdicts \subseteq {"PASSED", "FAILED", "INCONCLUSIVE"}
  /\ Losses \subseteq {"ANSWER", "CHILD", "EXECUTOR"}
  /\ {Cancels, Deadlines, Rejections} \subseteq BOOLEAN

VARIABLES
  run,       \* task_run, and whether its resume command is open
  unit,      \* execution_unit
  attempt,   \* unit_attempt, of each unit in the order of their numbers
  child,     \* AtlasUnitAttemptWorkflow of a unit's last attempt
  working,   \* executors at work, by unit and attempt number
  orphan,    \* begin activities a canceled child has left behind
  root,      \* AtlasTaskRunWorkflow
  overdue,   \* the execution deadline has passed
  faults

unitVars == <<run, unit, attempt, child, working, orphan, root, overdue, faults>>
rows == <<run, unit, attempt>>
children == <<child, working, orphan>>

Units == 1..UnitCount
Numbers == 1..InfraRetries + 1
Qualities == {"PENDING", "PASSED", "FAILED", "INFRA_ERROR", "INCONCLUSIVE", "CANCELED"}

\* Of an attempt that is CLOSED there is who has closed it: a seal, its child,
\* or its root.
NoOne == "NONE"
Attempt == [state : {"QUEUED", "RUNNING", "CLOSED"}, quality : Qualities,
            ticket : BOOLEAN, by : {NoOne, "SEAL", "CHILD", "ROOT"}]
NewAttempt == [state |-> "QUEUED", quality |-> "PENDING", ticket |-> FALSE, by |-> NoOne]

\* TaskAttemptWorkflowPayload; the error code tells who says so.
Outcome == [number : Numbers, quality : Qualities \ {"PENDING"}, by : {"SEAL", "CHILD", "ROOT"}]
Nothing == [number |-> 0, quality |-> "PENDING", by |-> NoOne]

Activities == {"CHECKPOINT", "SETTLE", "PREPARE", "LAST", "FINISH"}

TaskRun == [state   : {"QUEUED", "RUNNING", "PAUSE_REQUESTED", "PAUSED", "CANCELING", "CLOSED"},
            quality : Qualities,
            resume  : BOOLEAN,          \* a RESUME is open
            cancel  : BOOLEAN,          \* a CANCEL was accepted
            pauses  : 0..MaxPauses]
ExecutionUnit == [state : {"QUEUED", "RUNNING", "CLOSED"}, quality : Qualities]
Child == [at : {"NONE", "BEGIN", "EXECUTE", "FINISH", "DONE", "FAILED"},
          execution : Qualities \cup {"SEALED"},
          answer    : Outcome \cup {Nothing}]

NoReply == [is |-> "NONE"]
Answers ==
  [is : {"NONE", "ERROR", "CANCELING", "PAUSED", "DISPATCHABLE", "PAUSE_REQUESTED",
         "CANCEL_REQUESTED", "AUTHORIZED", "RESULT"}]
    \cup [is : {"SETTLED"}, retries : Seq(Units)]

Root == [at        : Activities \cup {"WAIT", "BATCH", "END", "FAILED"},
         reply     : Answers,
         cancel    : BOOLEAN,           \* _cancel_requested
         input     : BOOLEAN,           \* cancel_requested of the finish under way
         unsettled : BOOLEAN,           \* the first batch of pending has ended
         pending   : Seq(Units),
         final     : [Units -> Outcome \cup {Nothing}],    \* final_by_ordinal
         latest    : [Units -> Outcome \cup {Nothing}],    \* latest_by_ordinal
         number    : [Units -> Numbers]]   \* the attempt a pending unit waits with

TUTypeOK ==
  /\ run \in TaskRun
  /\ unit \in [Units -> ExecutionUnit]
  /\ attempt \in [Units -> Seq(Attempt)]
  /\ \A u \in Units : Len(attempt[u]) \in Numbers
  /\ child \in [Units -> Child]
  /\ working \subseteq Units \X Numbers
  /\ orphan \subseteq Units
  /\ root \in Root
  /\ overdue \in BOOLEAN
  /\ faults \in 0..MaxFaults

TUInit ==
  /\ run = [state |-> "QUEUED", quality |-> "PENDING", resume |-> FALSE, cancel |-> FALSE,
            pauses |-> 0]
  /\ unit = [u \in Units |-> [state |-> "QUEUED", quality |-> "PENDING"]]
  /\ attempt = [u \in Units |-> <<NewAttempt>>]
  /\ child = [u \in Units |-> [at |-> "NONE", execution |-> "PENDING", answer |-> Nothing]]
  /\ working = {} /\ orphan = {}
  /\ root = [at |-> "CHECKPOINT", reply |-> NoReply, cancel |-> FALSE, input |-> FALSE,
             unsettled |-> FALSE, pending |-> [u \in Units |-> u],
             final |-> [u \in Units |-> Nothing], latest |-> [u \in Units |-> Nothing],
             number |-> [u \in Units |-> 1]]
  /\ overdue = FALSE
  /\ faults = 0

Fault == faults < MaxFaults /\ faults' = faults + 1
Lost(what) == what \in Losses /\ Fault
NoFault == UNCHANGED faults

Latest(u) == Len(attempt[u])
LatestAttempt(u) == attempt[u][Latest(u)]

ClosedBy(who, quality, a) == [a EXCEPT !.state = "CLOSED", !.quality = quality, !.by = who]

-----------------------------------------------------------------------------
(* What users and the clock do *)

RequestPause ==
  /\ run.state = "RUNNING"
  /\ run.pauses < MaxPauses
  /\ run' = [run EXCEPT !.state = "PAUSE_REQUESTED", !.pauses = @ + 1]
  /\ UNCHANGED <<unit, attempt, children, root, overdue, faults>>

RequestResume ==
  /\ run.state = "PAUSED" /\ ~ run.resume
  /\ run' = [run EXCEPT !.resume = TRUE]
  /\ UNCHANGED <<unit, attempt, children, root, overdue, faults>>

RequestCancel ==
  /\ Cancels
  /\ run.state \notin {"CANCELING", "CLOSED"}
  /\ run' = [run EXCEPT !.state = "CANCELING", !.cancel = TRUE, !.resume = FALSE]
  /\ UNCHANGED <<unit, attempt, children, root, overdue, faults>>

DeadlinePasses ==
  /\ Deadlines /\ ~ overdue
  /\ overdue' = TRUE
  /\ UNCHANGED <<rows, children, root, faults>>

-----------------------------------------------------------------------------
(* The child workflow of an attempt *)

\* A pausing run still starts what was authorized before.
Authorized(u) ==
  \/ run.state \in {"QUEUED", "RUNNING"}
  \/ run.state = "PAUSE_REQUESTED" /\ LatestAttempt(u).ticket

\* _require_dispatchable_attempt
DispatchableAttempt(u, n) ==
  IF n = 1 THEN unit[u].state = "QUEUED"
  ELSE /\ unit[u].state = "RUNNING"
       /\ attempt[u][n - 1].state = "CLOSED"
       /\ attempt[u][n - 1].quality = "INFRA_ERROR"
       /\ n = Latest(u)

Startable(u) ==
  /\ LatestAttempt(u).state = "QUEUED"
  /\ Authorized(u)
  /\ DispatchableAttempt(u, Latest(u))
  /\ ~ overdue

\* start_attempt: run, unit and attempt move together.
StartAttempt(u) ==
  /\ run' = [run EXCEPT !.state = IF @ = "QUEUED" THEN "RUNNING" ELSE @]
  /\ unit' = [unit EXCEPT ![u].state = "RUNNING"]
  /\ attempt' = [attempt EXCEPT ![u][Latest(u)].state = "RUNNING"]

BeginStatus(u) ==
  IF LatestAttempt(u).state = "RUNNING" \/ Startable(u) THEN "READY"
  ELSE IF LatestAttempt(u).quality = "CANCELED" THEN "CANCELED"
  ELSE IF LatestAttempt(u).state = "CLOSED" THEN "REJECTED"
  ELSE IF Authorized(u) /\ ~ DispatchableAttempt(u, Latest(u)) THEN "REJECTED"
  ELSE "CANCELED"

Executes(u) ==
  /\ child' = [child EXCEPT ![u].at = "EXECUTE"]
  /\ working' = working \cup {<<u, Latest(u)>>}

Finishes(u, execution) ==
  child' = [child EXCEPT ![u].at = "FINISH", ![u].execution = execution]

\* The prepare activity before it replays the ticket of the batch.
Begin(u) ==
  /\ child[u].at = "BEGIN"
  /\ IF Startable(u) THEN StartAttempt(u) ELSE UNCHANGED rows
  /\ \/ /\ BeginStatus(u) = "READY"
        /\ Executes(u)
        /\ NoFault
     \/ /\ BeginStatus(u) # "READY"
        /\ Finishes(u, IF BeginStatus(u) = "CANCELED" THEN "CANCELED" ELSE "INCONCLUSIVE")
        /\ UNCHANGED working
        /\ NoFault
     \/ Lost("ANSWER") /\ UNCHANGED <<child, working>>
  /\ UNCHANGED <<orphan, root, overdue>>

AdmissionRejects(u) ==
  /\ Rejections /\ Fault
  /\ child[u].at = "BEGIN"
  /\ Startable(u) /\ run.state # "PAUSE_REQUESTED"
  /\ Finishes(u, "INCONCLUSIVE")
  /\ UNCHANGED <<rows, working, orphan, root, overdue>>

\* A begin nobody waits for any more is executed after all.
OrphanBegins(u) ==
  /\ u \in orphan
  /\ Startable(u)
  /\ StartAttempt(u)
  /\ orphan' = orphan \ {u}
  /\ UNCHANGED <<child, working, root, overdue, faults>>

\* mutant: any attempt that is not closed takes a seal
SealableOpen(u, n) == attempt[u][n].by # "SEAL"

\* FinalizeAttemptResultService: one seal, while the attempt is RUNNING.
Sealable(u, n) == attempt[u][n].state = "RUNNING"

AcceptSeal(u, n, verdict) ==
  /\ <<u, n>> \in working
  /\ Sealable(u, n)
  /\ attempt' = [attempt EXCEPT ![u][n] = ClosedBy("SEAL", verdict, @)]
  /\ UNCHANGED <<run, unit, children, root, overdue, faults>>

Awaited(u, n) == child[u].at = "EXECUTE" /\ n = Latest(u)

\* What the executor reports; one whose seal had no answer may say anything.
Report(u, n, execution) ==
  /\ <<u, n>> \in working
  /\ Awaited(u, n)
  /\ execution = "SEALED" => attempt[u][n].by = "SEAL"
  /\ working' = working \ {<<u, n>>}
  /\ Finishes(u, execution)
  /\ UNCHANGED <<rows, orphan, root, overdue, faults>>

\* It stops because the root was canceled, and the child cannot tell how far it got.
ExecutorCanceled(u) ==
  /\ child[u].at = "EXECUTE" /\ root.cancel
  /\ working' = working \ {<<u, Latest(u)>>}
  /\ Finishes(u, "INCONCLUSIVE")
  /\ UNCHANGED <<rows, orphan, root, overdue, faults>>

\* No heartbeat, or out of time: the child goes on, and so may the executor.
GiveUp(u) ==
  /\ Lost("EXECUTOR")
  /\ child[u].at = "EXECUTE"
  /\ Finishes(u, "INCONCLUSIVE")
  /\ UNCHANGED <<rows, working, orphan, root, overdue>>

ZombieEnds(u, n) ==
  /\ <<u, n>> \in working
  /\ ~ Awaited(u, n)
  /\ working' = working \ {<<u, n>>}
  /\ UNCHANGED <<rows, child, orphan, root, overdue, faults>>

ExecutedQuality(u) ==
  IF child[u].execution = "SEALED" THEN "INCONCLUSIVE" ELSE child[u].execution

\* finish_attempt: an accepted seal wins, and a closed attempt stays as it is.
Finished(u) ==
  IF LatestAttempt(u).state = "CLOSED" THEN LatestAttempt(u)
  ELSE ClosedBy("CHILD", ExecutedQuality(u), LatestAttempt(u))

AnswerOf(u, a) == [number |-> Latest(u), quality |-> a.quality, by |-> a.by]

FinishAttempt(u) ==
  /\ child[u].at = "FINISH"
  /\ attempt' = [attempt EXCEPT ![u][Latest(u)] = Finished(u)]
  /\ \/ /\ child' = [child EXCEPT ![u].at = "DONE", ![u].answer = AnswerOf(u, Finished(u))]
        /\ NoFault
     \/ Lost("ANSWER") /\ UNCHANGED child
  /\ UNCHANGED <<run, unit, working, orphan, root, overdue>>

\* The child is terminated, or fails: its root hears no answer.
ChildFails(u) ==
  /\ Lost("CHILD")
  /\ child[u].at \in {"BEGIN", "EXECUTE", "FINISH"}
  /\ child' = [child EXCEPT ![u].at = "FAILED"]
  /\ orphan' = orphan \cup {v \in {u} : child[v].at = "BEGIN"}
  /\ UNCHANGED <<rows, working, root, overdue>>

-----------------------------------------------------------------------------
(* Signals *)

Beginning == {u \in Units : child[u].at = "BEGIN"}

\* A CANCEL reaches the root, which cancels its children: those that have not
\* begun stop without having done a thing, or leave their begin behind.
CancelSignaled ==
  /\ run.cancel /\ ~ root.cancel
  /\ root.at \notin {"END", "FAILED"}
  /\ root' = [root EXCEPT !.cancel = TRUE]
  /\ \E never \in SUBSET Beginning :
       /\ child' = [u \in Units |->
            IF u \in never THEN [child[u] EXCEPT !.at = "FAILED"]
            ELSE IF u \in Beginning
                 THEN [child[u] EXCEPT !.at = "FINISH", !.execution = "INCONCLUSIVE"]
            ELSE child[u]]
       /\ orphan' = orphan \cup (Beginning \ never)
  /\ UNCHANGED <<rows, working, overdue, faults>>

-----------------------------------------------------------------------------
(* The transactions of the root's activities *)

Runs(activity) == root.at = activity /\ root.reply = NoReply

\* The answer of a transaction is on its way, or it is lost.
Replies(reply) ==
  \/ root' = [root EXCEPT !.reply = reply] /\ NoFault
  \/ Lost("ANSWER") /\ UNCHANGED root

Says(what) == Replies([is |-> what])

\* An invariant error rolls back and ends the root.
Refuses == root' = [root EXCEPT !.reply = [is |-> "ERROR"]] /\ NoFault /\ UNCHANGED rows

Pausing == run.state \in {"PAUSE_REQUESTED", "PAUSED"}

\* Pause and resume take effect between two batches.
Checkpoint ==
  /\ Runs("CHECKPOINT") \/ Runs("LAST")
  /\ \/ run.state = "CANCELING" /\ Says("CANCELING") /\ UNCHANGED run
     \/ run.state \in {"QUEUED", "RUNNING"} /\ Says("DISPATCHABLE") /\ UNCHANGED run
     \/ /\ run.state = "PAUSE_REQUESTED" \/ (run.state = "PAUSED" /\ ~ run.resume)
        /\ run' = [run EXCEPT !.state = "PAUSED"]
        /\ Says("PAUSED")
     \/ /\ run.state = "PAUSED" /\ run.resume
        /\ run' = [run EXCEPT !.state = "RUNNING", !.resume = FALSE]
        /\ Says("DISPATCHABLE")
  /\ UNCHANGED <<unit, attempt, children, overdue>>

BatchOf(pending) ==
  {pending[i] : i \in {j \in DOMAIN pending : j <= BatchSize}}
RestOf(pending) ==
  SubSeq(pending, BatchSize + 1, Len(pending))
Ascending(units) ==
  [i \in 1..Cardinality(units) |->
     CHOOSE u \in units : Cardinality({v \in units : v <= u}) = i]

Batch == BatchOf(root.pending)

\* The attempt an outcome is about.
Reported(u) == attempt[u][root.latest[u].number]

\* mutant: the qualities are not compared
AgreesAlways(a, outcome) == TRUE

\* _require_exact_attempt_result_event, _load_exact_sealed_outcome
Agrees(a, outcome) == a.quality = outcome.quality /\ a.by = outcome.by

RetryOf(u) == Latest(u) > root.latest[u].number

Retries == {r \in Units \X Numbers : r[2] > 1 /\ r[2] <= Latest(r[1])}
RetryCount == Cardinality(Retries)

\* _can_retry_attempt
Retryable(u) ==
  /\ root.latest[u].quality = "INFRA_ERROR"
  /\ root.latest[u].number <= InfraRetries
  /\ ~ overdue

NeverHeard == {u \in Batch : Reported(u).state # "CLOSED"}
Unresolved == {u \in Batch \ NeverHeard : unit[u].state # "CLOSED" /\ ~ RetryOf(u)}
Relisted == {u \in Batch \ NeverHeard : unit[u].state # "CLOSED" /\ RetryOf(u)}
Retried ==
  LET able == {u \in Unresolved : Retryable(u)}
  IN  {u \in able : RetryCount + Cardinality({v \in able : v <= u}) <= TotalRetries}

SettleConflict ==
  \E u \in Batch :
    \/ u \in NeverHeard /\ root.latest[u].quality \notin {"INCONCLUSIVE", "CANCELED"}
    \/ u \notin NeverHeard /\ ~ Agrees(Reported(u), root.latest[u])
    \/ unit[u].state = "CLOSED" /\ unit[u].quality # root.latest[u].quality
    \/ u \in Relisted /\ (overdue \/ LatestAttempt(u).state # "QUEUED")

UnitCloses(units, quality) ==
  unit' = [u \in Units |-> IF u \in units /\ unit[u].state # "CLOSED"
                           THEN [state |-> "CLOSED", quality |-> quality[u]] ELSE unit[u]]

Settles == run.state \in {"QUEUED", "RUNNING"}

Settle ==
  /\ Runs("SETTLE")
  /\ \/ Settles /\ SettleConflict /\ Refuses
     \/ /\ Settles /\ ~ SettleConflict
        /\ attempt' = [u \in Units |->
             IF u \in NeverHeard
             THEN [attempt[u] EXCEPT ![Latest(u)] = ClosedBy("ROOT", root.latest[u].quality, @)]
             ELSE IF u \in Retried THEN Append(attempt[u], NewAttempt)
             ELSE attempt[u]]
        /\ UnitCloses(Batch \ (Retried \cup Relisted), [u \in Units |-> root.latest[u].quality])
        /\ Replies([is |-> "SETTLED", retries |-> Ascending(Retried \cup Relisted)])
        /\ UNCHANGED run
     \/ ~ Settles /\ Pausing /\ Says("PAUSE_REQUESTED") /\ UNCHANGED rows
     \/ ~ Settles /\ run.state = "CANCELING" /\ Says("CANCEL_REQUESTED") /\ UNCHANGED rows
  /\ UNCHANGED <<children, overdue>>

\* prepare_batch: all of the batch is authorized, or nothing.
Unprepared == {u \in Batch : ~ LatestAttempt(u).ticket}
Preparable ==
  \A u \in Unprepared : /\ DispatchableAttempt(u, root.number[u])
                        /\ LatestAttempt(u).state = "QUEUED"
                        /\ ~ overdue

PrepareBatch ==
  /\ Runs("PREPARE")
  /\ \/ Pausing /\ Says("PAUSE_REQUESTED") /\ UNCHANGED attempt
     \/ run.state = "CANCELING" /\ Says("CANCEL_REQUESTED") /\ UNCHANGED attempt
     \/ /\ run.state \in {"QUEUED", "RUNNING"} /\ Preparable
        /\ attempt' = [u \in Units |-> IF u \in Unprepared
                         THEN [attempt[u] EXCEPT ![Latest(u)].ticket = TRUE] ELSE attempt[u]]
        /\ Says("AUTHORIZED")
     \/ run.state \in {"QUEUED", "RUNNING"} /\ ~ Preparable /\ Refuses
  /\ UNCHANGED <<run, unit, children, overdue>>

BatchRejected ==
  /\ Rejections /\ Fault
  /\ Runs("PREPARE")
  /\ run.state \in {"QUEUED", "RUNNING"} /\ Unprepared # {}
  /\ root' = [root EXCEPT !.reply = [is |-> "ERROR"]]
  /\ UNCHANGED <<rows, children, overdue>>

-----------------------------------------------------------------------------
(* Finishing the run *)

Canceled == [number |-> 1, quality |-> "CANCELED", by |-> "ROOT"]

\* The outcomes the workflow sends: of a unit that waits for its retry, that
\* the retry was canceled.
Outcomes(u) ==
  IF ~ root.cancel THEN root.final[u]
  ELSE IF /\ \E i \in DOMAIN root.pending : root.pending[i] = u
          /\ root.latest[u] # Nothing
          /\ root.latest[u].number # root.number[u]
       THEN [Canceled EXCEPT !.number = root.number[u]]
  ELSE root.latest[u]

Skipped == {u \in Units : Outcomes(u) = Nothing}

\* mutant: a cancel the workflow has not heard of
CanceledByInput == root.input

FinallyCanceled == root.input \/ run.state = "CANCELING"

\* _reconcile_run_children: a skipped unit must be as it was created.
Untouched(u) ==
  /\ Latest(u) = 1
  /\ \/ unit[u].state = "QUEUED" /\ LatestAttempt(u).state = "QUEUED"
     \/ unit[u].quality = "CANCELED" /\ LatestAttempt(u).quality = "CANCELED"

Reconcilable(u, o) ==
  /\ o.number = Latest(u)
  /\ LatestAttempt(u).state = "CLOSED" => Agrees(LatestAttempt(u), o)
  /\ LatestAttempt(u).state # "CLOSED" => o.quality # "PASSED"
  /\ unit[u].state = "CLOSED" => unit[u].quality = o.quality

FinishConflict ==
  \/ Skipped # {} /\ ~ FinallyCanceled
  \/ \E u \in Skipped : ~ Untouched(u) \/ \E v \in Units \ Skipped : v > u
  \/ \E u \in Units \ Skipped : ~ Reconcilable(u, Outcomes(u))

FinalQuality(u) == IF u \in Skipped THEN "CANCELED" ELSE Outcomes(u).quality

\* _run_result
RunQuality ==
  LET seen == {FinalQuality(u) : u \in Units}
  IN  IF FinallyCanceled \/ "CANCELED" \in seen THEN "CANCELED"
      ELSE IF "FAILED" \in seen THEN "FAILED"
      ELSE IF {"INCONCLUSIVE", "INFRA_ERROR"} \cap seen # {} THEN "INCONCLUSIVE"
      ELSE "PASSED"

\* finish_run: pause and resume are settled first, then every unit, then the run.
FinishRun ==
  /\ Runs("FINISH")
  /\ \/ FinishConflict /\ Refuses
     \/ /\ run.state # "CLOSED" /\ ~ FinishConflict
        /\ attempt' = [u \in Units |->
             IF LatestAttempt(u).state = "CLOSED" THEN attempt[u]
             ELSE [attempt[u] EXCEPT ![Latest(u)] = ClosedBy("ROOT", FinalQuality(u), @)]]
        /\ UnitCloses(Units, [u \in Units |-> FinalQuality(u)])
        /\ run' = [run EXCEPT !.state = "CLOSED", !.quality = RunQuality, !.resume = FALSE]
        /\ Says("RESULT")
     \/ /\ run.state = "CLOSED" /\ ~ FinishConflict
        /\ IF run.quality = RunQuality THEN Says("RESULT") /\ UNCHANGED rows ELSE Refuses
  /\ UNCHANGED <<children, overdue>>

-----------------------------------------------------------------------------
(* The workflow *)

Goes(r, at) == [r EXCEPT !.at = at, !.reply = NoReply]

ToFinish(r) == [Goes(r, "FINISH") EXCEPT !.input = r.cancel]

AfterLoop(r) ==
  IF ~ r.cancel /\ \A u \in Units : r.final[u] # Nothing THEN Goes(r, "LAST")
  ELSE ToFinish(r)

LoopHead(r) ==
  IF r.pending = <<>> THEN AfterLoop(r) ELSE Goes(r, "CHECKPOINT")

CanceledLoop == AfterLoop([root EXCEPT !.cancel = TRUE])

Heard(reply) == root.reply.is = reply

Arrives(activity, reply) == root.at = activity /\ Heard(reply)

Fails == Heard("ERROR") /\ root' = Goes(root, "FAILED") /\ UNCHANGED child

Checked ==
  /\ root.at = "CHECKPOINT" /\ root.reply.is \in {"CANCELING", "PAUSED", "DISPATCHABLE"}
  /\ root' = IF root.cancel \/ Heard("CANCELING") THEN CanceledLoop
             ELSE IF Heard("PAUSED") THEN Goes(root, "WAIT")
             ELSE Goes(root, IF root.unsettled THEN "SETTLE" ELSE "PREPARE")
  /\ UNCHANGED child

Settled ==
  /\ Arrives("SETTLE", "SETTLED")
  /\ root' = LoopHead([root EXCEPT
       !.unsettled = FALSE,
       !.final = [u \in Units |-> IF /\ u \in Batch
                                     /\ \A i \in DOMAIN root.reply.retries :
                                          root.reply.retries[i] # u
                                  THEN root.latest[u] ELSE root.final[u]],
       !.number = [u \in Units |-> IF \E i \in DOMAIN root.reply.retries :
                                        root.reply.retries[i] = u
                                   THEN root.latest[u].number + 1 ELSE root.number[u]],
       !.pending = RestOf(root.pending) \o root.reply.retries])
  /\ UNCHANGED child

Deferred ==
  /\ root.at \in {"SETTLE", "PREPARE"}
  /\ \/ Heard("CANCEL_REQUESTED") /\ root' = CanceledLoop
     \/ /\ Heard("PAUSE_REQUESTED")
        /\ root' = IF root.cancel /\ root.at = "PREPARE" THEN CanceledLoop
                   ELSE Goes(root, "CHECKPOINT")
  /\ UNCHANGED child

\* The children of the batch are started, unless the root was canceled meanwhile.
Dispatched ==
  /\ Arrives("PREPARE", "AUTHORIZED")
  /\ IF root.cancel THEN root' = CanceledLoop /\ UNCHANGED child
     ELSE /\ root' = Goes(root, "BATCH")
          /\ child' = [u \in Units |-> IF u \in Batch
                         THEN [at |-> "BEGIN", execution |-> "PENDING", answer |-> Nothing]
                         ELSE child[u]]

\* _normalize_child_result
Normalized(u) ==
  IF child[u].at = "DONE" THEN child[u].answer
  ELSE [number |-> Latest(u), quality |-> "INCONCLUSIVE", by |-> "ROOT"]

\* mutant: a child that fails is waited for
BatchAnswered == \A u \in Batch : child[u].at = "DONE"

BatchOver == \A u \in Batch : child[u].at \in {"DONE", "FAILED"}

BatchEnds ==
  /\ root.at = "BATCH"
  /\ BatchOver
  /\ root' = [Goes(root, "CHECKPOINT") EXCEPT
       !.unsettled = TRUE,
       !.latest = [u \in Units |-> IF u \in Batch THEN Normalized(u) ELSE root.latest[u]]]
  /\ UNCHANGED child

LastChecked ==
  /\ root.at = "LAST" /\ root.reply.is \in {"CANCELING", "PAUSED", "DISPATCHABLE"}
  /\ root' = ToFinish([root EXCEPT !.cancel = @ \/ Heard("CANCELING")])
  /\ UNCHANGED child

\* A cancel that came meanwhile sends the finish again.
FinishHeard ==
  /\ Arrives("FINISH", "RESULT")
  /\ root' = IF root.cancel # root.input THEN ToFinish(root) ELSE Goes(root, "END")
  /\ UNCHANGED child

Wakes ==
  /\ root.at = "WAIT"
  /\ run.resume \/ root.cancel
  /\ root' = Goes(root, "CHECKPOINT")
  /\ UNCHANGED child

RootMoves ==
  /\ Fails \/ Checked \/ Settled \/ Deferred \/ Dispatched \/ BatchEnds \/ LastChecked
     \/ FinishHeard \/ Wakes
  /\ UNCHANGED <<rows, working, orphan, overdue, faults>>

RootActs == Checkpoint \/ Settle \/ PrepareBatch \/ FinishRun \/ RootMoves

ChildActs(u) == Begin(u) \/ FinishAttempt(u) \/ ExecutorCanceled(u)

ExecutorActs(u, n) ==
  \/ \E execution \in Reports \cup {"SEALED"} : Report(u, n, execution)
  \/ ZombieEnds(u, n)

TUNext ==
  \/ RequestPause \/ RequestResume \/ RequestCancel \/ DeadlinePasses
  \/ RootActs \/ CancelSignaled \/ BatchRejected
  \/ \E u \in Units :
       \/ ChildActs(u) \/ AdmissionRejects(u) \/ OrphanBegins(u) \/ GiveUp(u) \/ ChildFails(u)
       \/ \E n \in Numbers : \/ ExecutorActs(u, n)
                             \/ \E verdict \in Verdicts : AcceptSeal(u, n, verdict)

TUSpec == TUInit /\ [][TUNext]_unitVars

\* Temporal keeps executing what is due, and an executor ends some time.
TUFairness ==
  WF_unitVars(\/ RootActs \/ CancelSignaled
              \/ \E u \in Units : ChildActs(u) \/ \E n \in Numbers : ExecutorActs(u, n))

TUFairSpec == TUSpec /\ TUFairness

-----------------------------------------------------------------------------
(* Properties *)

\* Only the last attempt of a unit is ever executed: an attempt is not tried
\* again while an executor that was given up may still be at it (a slow
\* executor, a child that was terminated, a begin that was left behind).
OneExecution ==
  /\ \A u \in Units : Cardinality({n \in Numbers : <<u, n>> \in working}) <= 1
  /\ \A u \in Units, n \in Numbers : <<u, n>> \in working => n = Latest(u)

\* A unit is what its last attempt came to, and all its attempts before failed
\* for the infrastructure, whoever has closed them, in whatever order the
\* seal, the child's finish, the settling and the closing of the run came.
UnitFollowsAttempts ==
  \A u \in Units :
    /\ \A n \in 1..Latest(u) - 1 : attempt[u][n].quality = "INFRA_ERROR"
    /\ unit[u].state = "CLOSED" => unit[u].quality = LatestAttempt(u).quality

\* The budget of retries is the run's: over all its batches, and however often
\* their settling is executed again.
RetriesInBudget ==
  /\ Cardinality(Retries) <= TotalRetries
  /\ \A u \in Units : Latest(u) > 1 => Cardinality({n \in 1..Latest(u) - 1 :
        attempt[u][n].quality = "INFRA_ERROR"}) <= InfraRetries

\* Units, attempts, executors and the budget of retries tell the same story.
TUInv == TUTypeOK /\ OneExecution /\ UnitFollowsAttempts /\ RetriesInBudget

\* A run that is closed has nothing open, and it has passed only if every unit
\* was sealed as passed.
ClosedRunIsComplete ==
  run.state = "CLOSED" =>
    /\ \A u \in Units : unit[u].state = "CLOSED" /\ LatestAttempt(u).state = "CLOSED"
    /\ run.quality = "PASSED" =>
         \A u \in Units : LatestAttempt(u).quality = "PASSED" /\ LatestAttempt(u).by = "SEAL"
    /\ run.cancel => run.quality = "CANCELED"

\* The root fails, and leaves its run open, only after something went wrong
\* outside of it: an answer, a child or an executor was lost, or the deadline.
RootFailsForAReason == root.at = "FAILED" => faults > 0 \/ overdue

\* How a run ends is justified: by what its units came to, or by what went wrong
\* outside of the root (finish_run, _reconcile).
OutcomeIsJustified == ClosedRunIsComplete /\ RootFailsForAReason

\* Executors, begins and finishes that come after their run, or their attempt,
\* was closed change nothing any more.
ClosedIsFinal ==
  [][/\ run.state = "CLOSED" => UNCHANGED rows
     /\ \A u \in Units : \A n \in DOMAIN attempt[u] :
          attempt[u][n].state = "CLOSED" => attempt'[u][n] = attempt[u][n]]_unitVars

\* task_lifecycle_transition_valid, over the FINALIZING no one sees
LifecycleMoves(old, new) ==
  \/ old = new
  \/ <<old, new>> \in {
       <<"QUEUED", "RUNNING">>, <<"QUEUED", "CANCELING">>, <<"QUEUED", "CLOSED">>,
       <<"RUNNING", "PAUSE_REQUESTED">>, <<"RUNNING", "CANCELING">>, <<"RUNNING", "CLOSED">>,
       <<"PAUSE_REQUESTED", "RUNNING">>, <<"PAUSE_REQUESTED", "PAUSED">>,
       <<"PAUSE_REQUESTED", "CANCELING">>, <<"PAUSE_REQUESTED", "CLOSED">>,
       <<"PAUSED", "RUNNING">>, <<"PAUSED", "CANCELING">>, <<"PAUSED", "CLOSED">>,
       <<"CANCELING", "CLOSED">>}

\* task_execution_state_valid
StateValid(row) == row.quality # "PENDING" <=> row.state = "CLOSED"

\* guard_task_run_v2_update, guard_execution_unit_v2_update, guard_unit_attempt_v2_update
RowMoves(old, new) ==
  /\ LifecycleMoves(old.state, new.state)
  /\ StateValid(new)
  /\ old.quality # "PENDING" => new.quality = old.quality

\* guard_unit_attempt_v2_insert: gapless, and a retry only of a closed attempt
\* of a unit and a run that still move.
AttemptInsertable(u) ==
  /\ Len(attempt'[u]) = Latest(u) + 1
  /\ run.state \in {"QUEUED", "RUNNING"}
  /\ unit[u].state \in {"QUEUED", "RUNNING"}
  /\ LatestAttempt(u).state = "CLOSED"
  /\ LatestAttempt(u).quality \notin {"PENDING", "PASSED"}

\* guard_task_unit_execution_ticket_insert
TicketInsertable(u) ==
  /\ run.state \in {"QUEUED", "RUNNING"}
  /\ DispatchableAttempt(u, Latest(u))
  /\ LatestAttempt(u).state = "QUEUED"
  /\ ~ overdue

\* The triggers of the tables never refuse what the code does: no activity
\* keeps being executed again for a guard it ran into.
TaskGuardsAdmit ==
  [][/\ RowMoves(run, run')
     /\ \A u \in Units :
          /\ RowMoves(unit[u], unit'[u])
          /\ \A n \in DOMAIN attempt[u] : RowMoves(attempt[u][n], attempt'[u][n])
          /\ attempt'[u] # attempt[u] /\ Len(attempt'[u]) # Latest(u) => AttemptInsertable(u)
          /\ (attempt'[u][Latest(u)].ticket /\ ~ LatestAttempt(u).ticket) => TicketInsertable(u)
    ]_unitVars

\* Late writers change nothing, and the others run into no guard.
WritersAreInOrder == ClosedIsFinal /\ TaskGuardsAdmit

\* Unless it is left paused, a run is closed, or its root has failed for a
\* reason: no batch waits for children, and no child for executors, for ever.
RunEnds == <>(run.state = "CLOSED" \/ root.at = "FAILED") \/ <>[](run.state = "PAUSED")

=============================================================================
