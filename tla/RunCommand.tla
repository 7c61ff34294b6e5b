----------------------------- MODULE RunCommand -----------------------------
(***************************************************************************)
(* The row of a task run, the PAUSE, RESUME and CANCEL commands accepted   *)
(* for it, and their delivery as signals to the run's root workflow.       *)
(*                                                                         *)
(* A command is accepted in the transaction that moves the run, delivered  *)
(* by the claimed queue of ClaimedDelivery, and applied by the activities  *)
(* of the root, which read the commands from the database: a signal only   *)
(* wakes the root, except that it carries a CANCEL.  RunRoot has the root. *)
(*                                                                         *)
(* A delivery calls Temporal a few times before it reports an error.  One  *)
(* call stands for them, since calling again differs from delivering again *)
(* only in leaving the row alone.                                          *)
(***************************************************************************)
EXTENDS Naturals, FiniteSets

CONSTANTS
  MaxCommands,   \* bound on the commands accepted
  MaxAttempts,   \* claims after which a transient error is final
  MaxExpiries,   \* bound on the claims that may run out
  MaxFailures,   \* bound on the calls that fail for no fault of the run
  Refusals       \* whether Temporal may refuse a call for good

ASSUME CommandAssumption ==
  /\ MaxCommands \in Nat
  /\ MaxAttempts \in Nat \ {0}
  /\ MaxExpiries \in Nat
  /\ MaxFailures \in Nat
  /\ Refusals \in BOOLEAN

VARIABLES
  run,         \* row of task_run
  command,     \* id -> row of task_run_command_intent
  deliveries,  \* deliveries in the memory of some dispatcher
  sent,        \* commands with a signal on its way to Temporal
  workflow,    \* the root's workflow, as Temporal describes it
  faults       \* claims that ran out and calls that failed so far

commandVars == <<run, command, deliveries, sent, workflow, faults>>

Commands == 1..MaxCommands    \* in the order of their acceptance

Lifecycles == {"QUEUED", "RUNNING", "PAUSE_REQUESTED", "PAUSED", "CANCELING", "CLOSED"}
Qualities == {"PENDING", "RESULT", "CANCELED"}    \* RESULT: that of the units

CommandRow == [type     : {"NONE", "PAUSE", "RESUME", "CANCEL"},
               status   : {"PENDING", "CLAIMED", "RETRY_WAIT", "DELIVERED",
                           "APPLIED", "FAILED", "SUPERSEDED"},
               revision : Nat,
               attempts : Nat,
               expired  : BOOLEAN]

Delivery == [cmd      : Commands,
             revision : Nat,    \* of the row when it was claimed
             attempts : Nat,
             phase    : {"CALL", "AWAIT", "SIGNALED", "TRANSIENT", "INVARIANT"}]

CTypeOK ==
  /\ run \in [lifecycle : Lifecycles, quality : Qualities]
  /\ command \in [Commands -> CommandRow]
  /\ deliveries \subseteq Delivery
  /\ sent \subseteq Commands
  /\ workflow \in {"NONE", "RUNNING", "COMPLETED", "FAILED"}
  /\ faults \in [expiries : 0..MaxExpiries, calls : 0..MaxFailures]

CInit ==
  /\ run = [lifecycle |-> "QUEUED", quality |-> "PENDING"]
  /\ command = [c \in Commands |-> [type |-> "NONE", status |-> "PENDING", revision |-> 0,
                                    attempts |-> 0, expired |-> FALSE]]
  /\ deliveries = {}
  /\ sent = {}
  /\ workflow = "NONE"
  /\ faults = [expiries |-> 0, calls |-> 0]

-----------------------------------------------------------------------------
(* Commands *)

Accepted == {c \in Commands : command[c].type # "NONE"}

\* mutant: a command counts once somebody has taken it up
TakenUp == {"CLAIMED", "DELIVERED"}

Unresolved == {"PENDING", "CLAIMED", "RETRY_WAIT", "DELIVERED"}

\* The unresolved commands of some types.
Open(types) == {c \in Commands : command[c].type \in types /\ command[c].status \in Unresolved}

OpenControl == Open({"PAUSE", "RESUME"})

\* Any end of a command that is not a delivery's.
Resolved(cmds, status) ==
  [c \in Commands |-> IF c \in cmds
     THEN [command[c] EXCEPT !.status = status, !.expired = FALSE, !.revision = @ + 1]
     ELSE command[c]]

Create(c, type) == [command EXCEPT ![c].type = type]

Acceptable(c) ==
  /\ c = Cardinality(Accepted) + 1
  /\ run.quality = "PENDING"

\* mutant: the run pauses at once
PauseAtOnce(c) ==
  /\ Acceptable(c)
  /\ run.lifecycle = "RUNNING"
  /\ OpenControl = {}
  /\ run' = [run EXCEPT !.lifecycle = "PAUSED"]
  /\ command' = Create(c, "PAUSE")
  /\ UNCHANGED <<deliveries, sent, workflow, faults>>

AcceptPause(c) ==
  /\ Acceptable(c)
  /\ run.lifecycle = "RUNNING"
  /\ OpenControl = {}
  /\ run' = [run EXCEPT !.lifecycle = "PAUSE_REQUESTED"]
  /\ command' = Create(c, "PAUSE")
  /\ UNCHANGED <<deliveries, sent, workflow, faults>>

AcceptResume(c) ==
  /\ Acceptable(c)
  /\ run.lifecycle = "PAUSED"
  /\ OpenControl = {}
  /\ command' = Create(c, "RESUME")
  /\ UNCHANGED <<run, deliveries, sent, workflow, faults>>

\* supersede_task_run_commands
Superseded == Resolved(OpenControl, "SUPERSEDED")

AcceptCancel(c) ==
  /\ Acceptable(c)
  /\ run.lifecycle \in {"QUEUED", "RUNNING", "PAUSE_REQUESTED", "PAUSED"}
  /\ run' = [run EXCEPT !.lifecycle = "CANCELING"]
  /\ command' = [Superseded EXCEPT ![c].type = "CANCEL"]
  /\ UNCHANGED <<deliveries, sent, workflow, faults>>

-----------------------------------------------------------------------------
(* Claims *)

Claimable(c) ==
  \/ command[c].status \in {"PENDING", "RETRY_WAIT"}
  \/ command[c].status = "CLAIMED" /\ command[c].expired

Claim(c) ==
  /\ c \in Accepted
  /\ Claimable(c)
  /\ command' = [command EXCEPT ![c].status = "CLAIMED", ![c].expired = FALSE,
                                ![c].attempts = @ + 1, ![c].revision = @ + 1]
  /\ deliveries' = deliveries \cup
       {[cmd |-> c, revision |-> command'[c].revision, attempts |-> command'[c].attempts,
         phase |-> "CALL"]}
  /\ UNCHANGED <<run, sent, workflow, faults>>

ClaimExpires(c) ==
  /\ command[c].status = "CLAIMED"
  /\ ~ command[c].expired
  /\ faults.expiries < MaxExpiries
  /\ command' = [command EXCEPT ![c].expired = TRUE]
  /\ faults' = [faults EXCEPT !.expiries = @ + 1]
  /\ UNCHANGED <<run, deliveries, sent, workflow>>

-----------------------------------------------------------------------------
(* A delivery at work *)

Becomes(d, phase) == deliveries' = (deliveries \ {d}) \cup {[d EXCEPT !.phase = phase]}

Signal(d) ==
  /\ d.phase = "CALL"
  /\ workflow = "RUNNING"
  /\ sent' = sent \cup {d.cmd}
  /\ Becomes(d, "AWAIT")
  /\ UNCHANGED <<run, command, workflow, faults>>

\* No workflow yet, or no running one any more: NOT_FOUND.
NotFound(d) ==
  /\ d.phase \in {"CALL", "AWAIT"}
  /\ workflow # "RUNNING"
  /\ Becomes(d, "TRANSIENT")
  /\ UNCHANGED <<run, command, sent, workflow, faults>>

\* The call is refused for good, or has no answer whether or not its signal
\* is or will be accepted.
CallFails(d) ==
  /\ d.phase \in {"CALL", "AWAIT"}
  /\ faults.calls < MaxFailures
  /\ Becomes(d, "TRANSIENT") \/ (Refusals /\ Becomes(d, "INVARIANT"))
  /\ faults' = [faults EXCEPT !.calls = @ + 1]
  /\ UNCHANGED <<run, command, sent, workflow>>

-----------------------------------------------------------------------------
(* Outcomes *)

OwnsClaim(d) ==
  /\ command[d.cmd].status = "CLAIMED"
  /\ command[d.cmd].revision = d.revision

Records(d, status) ==
  /\ OwnsClaim(d)
  /\ command' = Resolved({d.cmd}, status)
  /\ deliveries' = deliveries \ {d}
  /\ UNCHANGED <<run, sent, workflow, faults>>

MarkDelivered(d) == d.phase = "SIGNALED" /\ Records(d, "DELIVERED")

Exhausted(d) == d.attempts >= MaxAttempts

RetryLater(d) == d.phase = "TRANSIENT" /\ ~ Exhausted(d) /\ Records(d, "RETRY_WAIT")

\* fail_task_run_command_intent reconciles with a run that is already canceled.
Reconciled ==
  IF run.lifecycle = "CLOSED" /\ run.quality = "CANCELED" THEN "APPLIED" ELSE "FAILED"

GiveUp(d) ==
  /\ d.phase = "INVARIANT" \/ (d.phase = "TRANSIENT" /\ Exhausted(d))
  /\ Records(d, Reconciled)

LeaseLost(d) ==
  /\ d.phase \in {"SIGNALED", "TRANSIENT", "INVARIANT"}
  /\ ~ OwnsClaim(d) \/ command[d.cmd].expired
  /\ deliveries' = deliveries \ {d}
  /\ UNCHANGED <<run, command, sent, workflow, faults>>

\* The dispatcher dies.
Vanish(d) ==
  /\ OwnsClaim(d) => command[d.cmd].expired \/ faults.expiries < MaxExpiries
  /\ deliveries' = deliveries \ {d}
  /\ UNCHANGED <<run, command, sent, workflow, faults>>

Accept ==
  \E c \in Commands : AcceptPause(c) \/ AcceptResume(c) \/ AcceptCancel(c)

Deliver(d) ==
  \/ Signal(d)
  \/ NotFound(d)
  \/ CallFails(d)
  \/ MarkDelivered(d)
  \/ RetryLater(d)
  \/ GiveUp(d)
  \/ LeaseLost(d)

Dispatch ==
  \/ \E c \in Commands : Claim(c)
  \/ \E c \in Commands : ClaimExpires(c)
  \/ \E d \in deliveries : Deliver(d)

=============================================================================
