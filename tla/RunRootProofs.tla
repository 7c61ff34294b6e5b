---------------------------- MODULE RunRootProofs ----------------------------
(***************************************************************************)
(* Proofs about RunRoot, for any bounds on commands, pages, batches, retries *)
(* and faults: the run, its commands and its root fit each other, and the    *)
(* queue of commands keeps its promise although the root cuts in on it.      *)
(***************************************************************************)
EXTENDS RunRoot, FiniteSetTheorems, TLAPS

-----------------------------------------------------------------------------
(* The invariant.  RInv is not inductive: that a CANCEL wins needs that what   *)
(* the root remembers of one comes from a CANCEL that was accepted, and that   *)
(* commands are accepted into rows nobody has used; that a run pauses only     *)
(* between batches needs that nothing pauses it from the authorization on.     *)

\* Commands are numbered without gaps, and what was not accepted is blank.
AcceptedInOrder == \E n \in 0..MaxCommands : Accepted = 1..n
BlankRows == \A c \in Commands : command[c].type = "NONE" => command[c].status = "PENDING"

OneControl == \A c, e \in OpenControl : c = e
OneCancel == \A c, e \in Commands : command[c].type = "CANCEL" /\ command[e].type = "CANCEL" => c = e

\* The CANCEL in a memory of the root was accepted.
KnowsCancel(r) ==
  /\ r.cancel \/ r.input.cancel \/ r.reply = "CANCELING" => CancelAccepted
  /\ \A c \in r.input.commands : command[c].type = "CANCEL"

\* Where the root works on a batch there is one.
AtBatch == {"CHECKPOINT", "SETTLE", "PREPARE", "DRAIN", "BATCH", "WAIT", "TIMER"}
HasBatch(r) == r.at \in AtBatch => r.left > 0

\* A batch that is authorized or under way keeps its run from pausing.
UnderWay(r) == r.at = "BATCH" \/ (r.at = "PREPARE" /\ r.reply = "AUTHORIZED")

OpenFits ==
  /\ OneControl
  /\ Open({"PAUSE"}) # {} => run.lifecycle = "PAUSE_REQUESTED"
  /\ Open({"RESUME"}) # {} => run.lifecycle = "PAUSED"

CommandInv ==
  /\ AcceptedInOrder /\ BlankRows /\ OneCancel
  /\ OpenFits /\ CancelWins /\ AcknowledgedAfterClosure

RootInv ==
  /\ RTypeOK /\ CommandInv
  /\ KnowsCancel(root) /\ HasBatch(root)
  /\ UnderWay(root) => run.lifecycle # "PAUSED"

\* One control at most, in the terms of RInv.
LEMMA OneControlCounts == OneControl => Cardinality(OpenControl) <= 1
<1> SUFFICES ASSUME OneControl PROVE Cardinality(OpenControl) <= 1
  OBVIOUS
<1>1. CASE OpenControl = {}
  BY <1>1, FS_EmptySet
<1>2. ASSUME NEW c \in OpenControl PROVE Cardinality(OpenControl) <= 1
  <2>1. OpenControl = {c}
    BY <1>2 DEF OneControl
  <2>2. Cardinality({c}) = 1
    BY FS_Singleton
  <2> QED
    BY <2>1, <2>2
<1> QED
  BY <1>1, <1>2

\* RootInv is all that RInv says.
LEMMA RootInvIsRInv == RootInv => RInv
  BY OneControlCounts
     DEF RootInv, CommandInv, OpenFits, RInv, OpenControlFitsRun, PausedBetweenBatches, UnderWay

\* The next command to be accepted has a blank row.
LEMMA NextIsBlank ==
  ASSUME AcceptedInOrder, NEW c \in Commands, c = Cardinality(Accepted) + 1
  PROVE  /\ command[c].type = "NONE"
         /\ Accepted \cup {c} = 1..c
<1>1. PICK n \in 0..MaxCommands : Accepted = 1..n
  BY DEF AcceptedInOrder
<1>2. Cardinality(1..n) = n
  BY FS_Interval, CommandAssumption
<1>3. c = n + 1
  BY <1>1, <1>2
<1>4. c \notin 1..n /\ 1..n \cup {c} = 1..c
  BY <1>3, CommandAssumption DEF Commands
<1> QED
  BY <1>1, <1>4 DEF Accepted

-----------------------------------------------------------------------------
(* Rows of commands.  The run and its commands are changed by an acceptance,   *)
(* by a delivery, which moves one open row, by a checkpoint, by the first       *)
(* attempt, and by the finish.                                               *)

\* Commands that are resolved keep their types, all others their rows.
LEMMA ResolvedRows ==
  ASSUME command \in [Commands -> CommandRow], NEW cmds,
         NEW status \in {"APPLIED", "SUPERSEDED", "DELIVERED", "RETRY_WAIT", "FAILED"}
  PROVE  /\ Resolved(cmds, status) \in [Commands -> CommandRow]
         /\ \A c \in Commands :
              /\ Resolved(cmds, status)[c].type = command[c].type
              /\ c \in cmds => /\ Resolved(cmds, status)[c].status = status
                               /\ Resolved(cmds, status)[c].revision = command[c].revision + 1
              /\ c \notin cmds => Resolved(cmds, status)[c] = command[c]
<1> DEFINE new(c) == [command[c] EXCEPT !.status = status, !.expired = FALSE, !.revision = @ + 1]
<1>1. ASSUME NEW c \in Commands
      PROVE  /\ new(c) \in CommandRow /\ new(c).type = command[c].type
             /\ new(c).status = status /\ new(c).revision = command[c].revision + 1
  <2>1. command[c] \in CommandRow /\ command[c].revision + 1 \in Nat
    BY DEF CommandRow
  <2>2. new(c) \in CommandRow
    BY <2>1 DEF CommandRow
  <2> QED
    BY <2>1, <2>2 DEF CommandRow
<1>2. Resolved(cmds, status) = [c \in Commands |-> IF c \in cmds THEN new(c) ELSE command[c]]
  BY DEF Resolved
<1> HIDE DEF new
<1> QED
  BY <1>1, <1>2

\* The part of a delivery: one open row moves on, or is given up; it counts as
\* applied only if its run is closed as canceled.
Delivers(c) ==
  /\ command[c].type # "NONE" /\ command[c].status \in {"PENDING", "CLAIMED", "RETRY_WAIT"}
  /\ command' \in [Commands -> CommandRow] /\ run' = run
  /\ command'[c].type = command[c].type
  /\ \/ command'[c].status \in {"CLAIMED", "DELIVERED", "RETRY_WAIT", "FAILED"}
     \/ command'[c].status = "APPLIED" /\ CanceledRun
  /\ \A e \in Commands \ {c} : command'[e] = command[e]

RowKinds ==
  \/ \E c \in Commands : AcceptPause(c) \/ AcceptResume(c) \/ AcceptCancel(c)
  \/ \E c \in Commands : Delivers(c)
  \/ CheckpointPauses \/ CheckpointResumes
  \/ ~ FinishConflict /\ FinishRun
  \/ AttemptStarts
  \/ UNCHANGED <<run, command>>

\* An outcome of a delivery is the end of a claim.
LEMMA RecordsDelivers ==
  ASSUME RTypeOK, BlankRows, NEW d \in deliveries,
         NEW status \in {"DELIVERED", "RETRY_WAIT", "FAILED", "APPLIED"},
         Records(d, status), status = "APPLIED" => CanceledRun
  PROVE  d.cmd \in Commands /\ Delivers(d.cmd)
<1>1. d.cmd \in Commands /\ command \in [Commands -> CommandRow]
  BY DEF RTypeOK, CTypeOK, Delivery
<1>2. command' = Resolved({d.cmd}, status) /\ run' = run
  BY DEF Records
<1>3. command[d.cmd].status = "CLAIMED" /\ command[d.cmd].type # "NONE"
  BY <1>1 DEF Records, OwnsClaim, BlankRows
<1> QED
  BY <1>1, <1>2, <1>3, ResolvedRows DEF Delivers

\* So is every step of a dispatcher, as far as rows are concerned.
LEMMA DispatchDelivers ==
  ASSUME RTypeOK, BlankRows, Dispatch
  PROVE  (\E c \in Commands : Delivers(c)) \/ UNCHANGED <<run, command>>
<1>0. command \in [Commands -> CommandRow]
  BY DEF RTypeOK, CTypeOK
<1>1. ASSUME NEW c \in Commands, Claim(c) PROVE Delivers(c)
  BY <1>0, <1>1 DEF Claim, Claimable, Accepted, Delivers, CommandRow
<1>2. ASSUME NEW c \in Commands, ClaimExpires(c) PROVE Delivers(c)
  BY <1>0, <1>2 DEF ClaimExpires, BlankRows, Delivers, CommandRow
<1>3. ASSUME NEW d \in deliveries, Deliver(d)
      PROVE  (\E c \in Commands : Delivers(c)) \/ UNCHANGED <<run, command>>
  <2>1. CASE Signal(d) \/ NotFound(d) \/ CallFails(d) \/ LeaseLost(d)
    BY <2>1 DEF Signal, NotFound, CallFails, LeaseLost
  <2>2. CASE MarkDelivered(d) \/ RetryLater(d)
    BY <2>2, RecordsDelivers DEF MarkDelivered, RetryLater
  <2>3. CASE GiveUp(d)
    <3>1. /\ Reconciled \in {"APPLIED", "FAILED"}
          /\ Reconciled = "APPLIED" => CanceledRun
      BY DEF Reconciled, CanceledRun
    <3> QED
      BY <2>3, <3>1, RecordsDelivers DEF GiveUp
  <2> QED
    BY <1>3, <2>1, <2>2, <2>3 DEF Deliver
<1> QED
  BY <1>1, <1>2, <1>3 DEF Dispatch

\* These are all the ways a step can change the run and its commands.
LEMMA StepIsRowKind ==
  ASSUME RTypeOK, BlankRows, [RNext]_rootVars
  PROVE  RowKinds
<1>1. CASE Accept
  BY <1>1 DEF Accept, RowKinds
<1>2. CASE Dispatch
  BY <1>2, DispatchDelivers DEF RowKinds
<1>3. CASE \E d \in deliveries : Vanish(d)
  BY <1>3 DEF Vanish, RowKinds
<1>4. CASE Transaction
  <2>1. CASE LoadPlan \/ SettleBatch \/ DrainBatch \/ PrepareBatch \/ CheckpointAnswers
    BY <2>1 DEF LoadPlan, SettleBatch, DrainBatch, PrepareBatch, CheckpointAnswers, Settles, Answer,
                RowKinds
  <2>2. CASE FinishRun
    BY <2>2 DEF FinishRun, Answer, RowKinds
  <2> QED
    BY <1>4, <2>1, <2>2 DEF Transaction, CheckpointControl, RowKinds
<1>5. CASE \/ RootStarts \/ ResultLost \/ BatchEnds \/ ResultArrives \/ RootFails \/ RootCompletes
           \/ RootWakes \/ TimerFires \/ \E c \in sent : SignalAccepted(c)
  BY <1>5 DEF RootStarts, ResultLost, BatchEnds, ResultArrives, RootFails, RootCompletes, RootWakes,
              TimerFires, SignalAccepted, Ends, RowKinds
<1>6. CASE AttemptStarts
  BY <1>6 DEF RowKinds
<1>7. CASE UNCHANGED rootVars
  BY <1>7 DEF rootVars, RowKinds
<1> QED
  BY <1>1, <1>2, <1>3, <1>4, <1>5, <1>6, <1>7 DEF RNext, Root

-----------------------------------------------------------------------------
(* Commands and their run *)

\* Nothing is accepted: every row keeps its type, only accepted ones change, and
\* none is opened again.
NoneAccepted ==
  /\ command' \in [Commands -> CommandRow]
  /\ \A c \in Commands :
       /\ command'[c].type = command[c].type
       /\ command[c].type = "NONE" => command'[c] = command[c]
       /\ command'[c].status \in Unresolved => command[c].status \in Unresolved

\* Accepted commands stay of their types.
TypesStay == \A c \in Commands : command[c].type # "NONE" => command'[c].type = command[c].type

\* Where nothing is accepted, the order of acceptance stays, and no control is opened.
LEMMA NoneAcceptedKeeps ==
  ASSUME CommandInv, NoneAccepted
  PROVE  /\ AcceptedInOrder' /\ BlankRows' /\ OneCancel' /\ TypesStay
         /\ CancelAccepted' <=> CancelAccepted
         /\ OneControl'
         /\ \A types : Open(types)' \subseteq Open(types)
<1>1. Accepted' = Accepted
  BY DEF NoneAccepted, Accepted
<1>2. \A types : Open(types)' \subseteq Open(types)
  BY DEF NoneAccepted, Open
<1>3. OneControl'
  BY DEF NoneAccepted, Open, OpenControl, CommandInv, OpenFits, OneControl
<1>4. AcceptedInOrder' /\ BlankRows'
  BY <1>1 DEF CommandInv, AcceptedInOrder, BlankRows, NoneAccepted
<1>5. OneCancel' /\ TypesStay /\ (CancelAccepted' <=> CancelAccepted)
  BY DEF CommandInv, OneCancel, TypesStay, CancelAccepted, NoneAccepted
<1> QED
  BY <1>2, <1>3, <1>4, <1>5

\* A run that moves between states that are neither CANCELING nor CLOSED moves
\* them with no CANCEL accepted, and leaves no control behind.
LEMMA OpenRunMoves ==
  ASSUME RTypeOK, CommandInv, NoneAccepted,
         run.lifecycle \in {"QUEUED", "RUNNING", "PAUSE_REQUESTED", "PAUSED"},
         run'.lifecycle \in {"QUEUED", "RUNNING", "PAUSE_REQUESTED", "PAUSED"},
         \A c \in Commands : command'[c].type \in {"PAUSE", "RESUME"} =>
                               command'[c].status \notin Unresolved,
         \A c \in Commands : command'[c].type = "CANCEL" => command'[c] = command[c]
  PROVE  CommandInv' /\ TypesStay
<1>1. ~ CancelAccepted
  BY DEF CommandInv, CancelWins, CanceledRun
<1>2. CancelWins' /\ AcknowledgedAfterClosure'
  BY <1>1, NoneAcceptedKeeps DEF CancelWins, CanceledRun, AcknowledgedAfterClosure, CancelAccepted
<1>3. Open({"PAUSE"})' = {} /\ Open({"RESUME"})' = {}
  BY DEF Open
<1> QED
  BY <1>2, <1>3, NoneAcceptedKeeps DEF CommandInv, OpenFits

\* An outcome of a delivery settles its command, and leaves the run alone.
LEMMA DeliveryKeeps ==
  ASSUME RTypeOK, CommandInv, NEW c \in Commands, Delivers(c)
  PROVE  CommandInv' /\ TypesStay
<1>1. NoneAccepted
  BY DEF Delivers, NoneAccepted, Unresolved
<1>2. CancelWins'
  BY <1>1, NoneAcceptedKeeps DEF CommandInv, CancelWins, CanceledRun, Delivers
<1>3. AcknowledgedAfterClosure'
  BY DEF CommandInv, AcknowledgedAfterClosure, CanceledRun, Delivers
<1>4. OpenFits'
  BY <1>1, NoneAcceptedKeeps DEF CommandInv, OpenFits, Delivers
<1> QED
  BY <1>1, <1>2, <1>3, <1>4, NoneAcceptedKeeps DEF CommandInv

\* A command that is accepted takes the next row, and the others keep theirs or
\* are superseded.
AcceptedAs(c, type) ==
  /\ command' \in [Commands -> CommandRow]
  /\ command'[c].type = type /\ command'[c].status = "PENDING"
  /\ \A e \in Commands \ {c} :
       /\ command'[e].type = command[e].type
       /\ command[e].type = "NONE" => command'[e].status = "PENDING"
       /\ command'[e].status = "APPLIED" => command[e].status = "APPLIED"

\* An accepted command takes the next row, and every other one keeps its type.
LEMMA AcceptanceKeeps ==
  ASSUME RTypeOK, CommandInv, NEW c \in Commands, Acceptable(c), NEW type, type # "NONE",
         AcceptedAs(c, type)
  PROVE  /\ AcceptedInOrder' /\ BlankRows' /\ TypesStay
         /\ command[c].type = "NONE"
         /\ type # "CANCEL" => (CancelAccepted' <=> CancelAccepted) /\ OneCancel'
         /\ type = "CANCEL" /\ ~ CancelAccepted => OneCancel'
         /\ \A e \in Commands : command'[e].type = "CANCEL" /\ command'[e].status = "APPLIED"
                                  => CanceledRun
<1>1. command[c].type = "NONE" /\ Accepted \cup {c} = 1..c
  BY NextIsBlank DEF Acceptable, CommandInv
<1>2. Accepted' = Accepted \cup {c}
  BY DEF Accepted, AcceptedAs
<1>3. AcceptedInOrder'
  BY <1>1, <1>2, CommandAssumption DEF AcceptedInOrder, Commands
<1>4. BlankRows' /\ TypesStay
  BY <1>1 DEF BlankRows, TypesStay, AcceptedAs
<1>5. type # "CANCEL" => (CancelAccepted' <=> CancelAccepted) /\ OneCancel'
  BY <1>1 DEF CancelAccepted, OneCancel, CommandInv, AcceptedAs
<1>6. type = "CANCEL" /\ ~ CancelAccepted => OneCancel'
  BY DEF CancelAccepted, OneCancel, AcceptedAs
<1>7. ASSUME NEW e \in Commands, command'[e].type = "CANCEL", command'[e].status = "APPLIED"
      PROVE  CanceledRun
  BY <1>7 DEF AcceptedAs, CommandInv, AcknowledgedAfterClosure
<1> QED
  BY <1>1, <1>3, <1>4, <1>5, <1>6, <1>7

\* A PAUSE is accepted of a run that is running, which has no other control open.
LEMMA PauseAccepted ==
  ASSUME RTypeOK, CommandInv, NEW c \in Commands, AcceptPause(c)
  PROVE  CommandInv' /\ TypesStay
<1>1. AcceptedAs(c, "PAUSE") /\ \A e \in Commands \ {c} : command'[e] = command[e]
  <2>1. command[c].type = "NONE" /\ command[c].status = "PENDING"
    BY NextIsBlank DEF AcceptPause, Acceptable, CommandInv, BlankRows
  <2>2. command' = [command EXCEPT ![c].type = "PAUSE"] /\ command \in [Commands -> CommandRow]
    BY DEF AcceptPause, Create, RTypeOK, CTypeOK
  <2> QED
    BY <2>1, <2>2 DEF AcceptedAs, BlankRows, CommandInv, CommandRow
<1>2. /\ Acceptable(c) /\ OpenControl = {}
      /\ run.lifecycle = "RUNNING" /\ run'.lifecycle = "PAUSE_REQUESTED"
  BY DEF AcceptPause, RTypeOK, CTypeOK
<1>3. OpenControl' \subseteq {c} /\ Open({"RESUME"})' = {}
  BY <1>1, <1>2 DEF OpenControl, Open, AcceptedAs
<1>4. OpenFits'
  BY <1>2, <1>3 DEF OpenFits, OneControl
<1>5. CancelWins' /\ AcknowledgedAfterClosure'
  BY <1>1, <1>2, AcceptanceKeeps
     DEF CommandInv, CancelWins, CanceledRun, AcknowledgedAfterClosure
<1> QED
  BY <1>1, <1>2, <1>4, <1>5, AcceptanceKeeps DEF CommandInv

\* A RESUME is accepted of a paused run, which has no other control open.
LEMMA ResumeAccepted ==
  ASSUME RTypeOK, CommandInv, NEW c \in Commands, AcceptResume(c)
  PROVE  CommandInv' /\ TypesStay
<1>1. AcceptedAs(c, "RESUME") /\ \A e \in Commands \ {c} : command'[e] = command[e]
  <2>1. command[c].type = "NONE" /\ command[c].status = "PENDING"
    BY NextIsBlank DEF AcceptResume, Acceptable, CommandInv, BlankRows
  <2>2. command' = [command EXCEPT ![c].type = "RESUME"] /\ command \in [Commands -> CommandRow]
    BY DEF AcceptResume, Create, RTypeOK, CTypeOK
  <2> QED
    BY <2>1, <2>2 DEF AcceptedAs, BlankRows, CommandInv, CommandRow
<1>2. Acceptable(c) /\ OpenControl = {} /\ run.lifecycle = "PAUSED" /\ run' = run
  BY DEF AcceptResume
<1>3. OpenControl' \subseteq {c} /\ Open({"PAUSE"})' = {}
  BY <1>1, <1>2 DEF OpenControl, Open, AcceptedAs
<1>4. OpenFits'
  BY <1>2, <1>3 DEF OpenFits, OneControl
<1>5. CancelWins' /\ AcknowledgedAfterClosure'
  BY <1>1, <1>2, AcceptanceKeeps
     DEF CommandInv, CancelWins, CanceledRun, AcknowledgedAfterClosure
<1> QED
  BY <1>1, <1>2, <1>4, <1>5, AcceptanceKeeps DEF CommandInv

\* A CANCEL supersedes whatever control is open, and is the only one.
LEMMA CancelIsAccepted ==
  ASSUME RTypeOK, CommandInv, NEW c \in Commands, AcceptCancel(c)
  PROVE  CommandInv' /\ TypesStay
<1>1. /\ Acceptable(c)
      /\ run.lifecycle \in {"QUEUED", "RUNNING", "PAUSE_REQUESTED", "PAUSED"}
      /\ run'.lifecycle = "CANCELING"
  BY DEF AcceptCancel, RTypeOK, CTypeOK
<1>2. command[c].type = "NONE" /\ command[c].status = "PENDING"
  BY <1>1, NextIsBlank DEF Acceptable, CommandInv, BlankRows
<1>3. c \notin OpenControl
  BY <1>2 DEF OpenControl, Open
<1>4. /\ Superseded \in [Commands -> CommandRow]
      /\ \A e \in Commands :
           /\ Superseded[e].type = command[e].type
           /\ e \in OpenControl => Superseded[e].status = "SUPERSEDED"
           /\ e \notin OpenControl => Superseded[e] = command[e]
  BY ResolvedRows DEF Superseded, RTypeOK, CTypeOK
<1>5. command' = [Superseded EXCEPT ![c].type = "CANCEL"]
  BY DEF AcceptCancel
<1>6. /\ command' \in [Commands -> CommandRow]
      /\ command'[c].type = "CANCEL" /\ command'[c].status = "PENDING"
      /\ \A e \in Commands \ {c} : command'[e] = Superseded[e]
  BY <1>2, <1>3, <1>4, <1>5 DEF CommandRow
<1>7. AcceptedAs(c, "CANCEL")
  BY <1>4, <1>6 DEF AcceptedAs, OpenControl, Open, CommandInv, BlankRows
<1>8. ~ CancelAccepted
  BY <1>1 DEF CommandInv, CancelWins, CanceledRun
<1>9. OpenControl' = {}
  BY <1>4, <1>6 DEF OpenControl, Open, Unresolved
<1>10. OpenFits'
  BY <1>9 DEF OpenFits, OneControl, OpenControl, Open
<1>11. CancelWins' /\ AcknowledgedAfterClosure'
  <2>1. CancelAccepted'
    BY <1>6 DEF CancelAccepted
  <2>2. ~ CanceledRun
    BY <1>1 DEF CanceledRun
  <2> QED
    BY <1>1, <1>7, <2>1, <2>2, AcceptanceKeeps
       DEF CancelWins, CanceledRun, AcknowledgedAfterClosure
<1> QED
  BY <1>1, <1>7, <1>8, <1>10, <1>11, AcceptanceKeeps DEF CommandInv

\* A checkpoint that applies the open control applies all that is open.
LEMMA ControlApplied ==
  ASSUME RTypeOK, CommandInv, NEW cmds \in SUBSET OpenControl, command' = Resolved(cmds, "APPLIED")
  PROVE  /\ NoneAccepted
         /\ \A c \in Commands : command'[c].type = "CANCEL" => command'[c] = command[c]
         /\ cmds = OpenControl => OpenControl' = {}
<1>1. \A c \in cmds : command[c].type \in {"PAUSE", "RESUME"}
  BY DEF OpenControl, Open
<1>2. /\ command' \in [Commands -> CommandRow]
      /\ \A c \in Commands :
           /\ command'[c].type = command[c].type
           /\ c \in cmds => command'[c].status = "APPLIED"
           /\ c \notin cmds => command'[c] = command[c]
  BY ResolvedRows DEF RTypeOK, CTypeOK
<1> QED
  BY <1>1, <1>2 DEF NoneAccepted, OpenControl, Open, Unresolved

\* A checkpoint answers the control that is open.
LEMMA CheckpointKeeps ==
  ASSUME RTypeOK, CommandInv, CheckpointPauses \/ CheckpointResumes
  PROVE  CommandInv' /\ TypesStay
<1>1. PICK lifecycle \in {"PAUSED", "RUNNING"} : Applies(lifecycle)
  BY DEF CheckpointPauses, CheckpointResumes
<1>2. run'.lifecycle = lifecycle /\ command' = Resolved(OpenControl, "APPLIED")
  BY <1>1 DEF Applies, RTypeOK, CTypeOK
<1>3. run.lifecycle \in {"PAUSE_REQUESTED", "PAUSED"}
  BY DEF CheckpointPauses, CheckpointResumes
<1>4. OpenControl' = {}
  BY <1>2, ControlApplied
<1>5. \A c \in Commands : command'[c].type \in {"PAUSE", "RESUME"} => command'[c].status \notin Unresolved
  BY <1>4 DEF OpenControl, Open
<1> QED
  BY <1>2, <1>3, <1>5, ControlApplied, OpenRunMoves

\* The run starts with no control open.
LEMMA StartKeeps ==
  ASSUME RTypeOK, CommandInv, AttemptStarts
  PROVE  CommandInv' /\ TypesStay
<1>1. run.lifecycle = "QUEUED" /\ run'.lifecycle = "RUNNING" /\ command' = command
  BY DEF AttemptStarts, RTypeOK, CTypeOK
<1>2. NoneAccepted
  BY <1>1 DEF NoneAccepted, RTypeOK, CTypeOK
<1>3. \A c \in Commands : command'[c].type \in {"PAUSE", "RESUME"} => command'[c].status \notin Unresolved
  BY <1>1 DEF CommandInv, OpenFits, Open
<1> QED
  BY <1>1, <1>2, <1>3, OpenRunMoves

\* The finish decides as the commands do, although it goes by what the root was
\* told and by the state of the run.
LEMMA FinishKnows ==
  ASSUME CommandInv, KnowsCancel(root), ~ FinishConflict
  PROVE  CanceledNow <=> CancelAccepted
<1>1. CanceledNow => CancelAccepted
  BY DEF CanceledNow, KnowsCancel, CommandInv, CancelWins
<1>2. CancelAccepted => CanceledNow
  BY DEF CanceledNow, CommandInv, CancelWins, CanceledRun, FinishConflict, Outcome
<1> QED
  BY <1>1, <1>2

\* What the finish resolves: the open control of a run it finds pausing, and a
\* CANCEL.
FinishResolves == SettledControl \cup {c \in ToAcknowledge : command[c].status # "APPLIED"}

\* What the end of the run resolves is its open control, or a CANCEL the workflow knows of.
LEMMA FinishCommands ==
  ASSUME RTypeOK, KnowsCancel(root)
  PROVE  \A c \in FinishResolves : c \in OpenControl \/ (c \in Commands /\ command[c].type = "CANCEL")
<1>1. root.input.commands \subseteq Commands
  BY DEF RTypeOK, RootMemory, FinishInput
<1> QED
  BY <1>1 DEF FinishResolves, SettledControl, ToAcknowledge, KnowsCancel, Open

\* A run is closed with its control resolved, and a CANCEL acknowledged only after it.
LEMMA FinishKeeps ==
  ASSUME RTypeOK, CommandInv, KnowsCancel(root), ~ FinishConflict, FinishRun
  PROVE  CommandInv' /\ TypesStay
<1>1. /\ run' = [lifecycle |-> "CLOSED", quality |-> Outcome]
      /\ command' = Resolved(FinishResolves, "APPLIED")
  BY DEF FinishRun, FinishResolves
<1>2. /\ command' \in [Commands -> CommandRow]
      /\ \A c \in Commands :
           /\ command'[c].type = command[c].type
           /\ c \in FinishResolves => command'[c].status = "APPLIED"
           /\ c \notin FinishResolves => command'[c] = command[c]
  BY <1>1, ResolvedRows DEF RTypeOK, CTypeOK
<1>3. NoneAccepted
  BY <1>2, FinishCommands DEF NoneAccepted, OpenControl, Open, Unresolved
<1>4. CancelAccepted' <=> CanceledRun'
  BY <1>1, <1>3, FinishKnows, NoneAcceptedKeeps DEF CanceledRun, Outcome
<1>5. CancelWins' /\ AcknowledgedAfterClosure'
  BY <1>1, <1>4 DEF CancelWins, AcknowledgedAfterClosure, CancelAccepted
<1>6. OpenFits'
  <2>1. CASE Pausing
    <3>1. OpenControl \subseteq FinishResolves
      BY <2>1 DEF FinishResolves, SettledControl
    <3>2. Open({"PAUSE"})' = {} /\ Open({"RESUME"})' = {}
      BY <1>2, <1>3, <3>1 DEF OpenControl, Open, Unresolved, NoneAccepted
    <3> QED
      BY <1>3, <3>2, NoneAcceptedKeeps DEF OpenFits
  <2>2. CASE ~ Pausing
    <3>1. Open({"PAUSE"}) = {} /\ Open({"RESUME"}) = {}
      BY <2>2 DEF CommandInv, OpenFits, Pausing
    <3>2. Open({"PAUSE"})' = {} /\ Open({"RESUME"})' = {}
      BY <1>3, <3>1 DEF NoneAccepted, Open
    <3> QED
      BY <1>3, <3>2, NoneAcceptedKeeps DEF OpenFits
  <2> QED
    BY <2>1, <2>2
<1> QED
  BY <1>3, <1>5, <1>6, NoneAcceptedKeeps DEF CommandInv

\* Every step keeps the commands in order with their run.
LEMMA CommandStep ==
  ASSUME RTypeOK, CommandInv, KnowsCancel(root), [RNext]_rootVars
  PROVE  CommandInv' /\ TypesStay
<1>1. RowKinds
  BY StepIsRowKind DEF CommandInv
<1>2. CASE UNCHANGED <<run, command>>
  BY <1>2 DEF CommandInv, TypesStay, AcceptedInOrder, Accepted, BlankRows, OneCancel, OpenFits,
              OneControl, OpenControl, Open, CancelWins, CancelAccepted, CanceledRun,
              AcknowledgedAfterClosure
<1> QED
  BY <1>1, <1>2, PauseAccepted, ResumeAccepted, CancelIsAccepted, DeliveryKeeps, CheckpointKeeps,
     FinishKeeps, StartKeeps DEF RowKinds

-----------------------------------------------------------------------------
(* The memory of the root *)

\* A memory at the start of an activity, or of a wait, that is not authorized for
\* a batch.
Scheduled(r) ==
  /\ r \in RootMemory /\ KnowsCancel(r) /\ HasBatch(r)
  /\ ~ UnderWay(r)

\* A memory the workflow goes on with.
GoesOnWith(r) == r \in RootMemory /\ KnowsCancel(r)

\* A workflow that goes on schedules its next activity with a memory of its type.
LEMMA Scheduling ==
  ASSUME NEW r, GoesOnWith(r), NEW at \in Activities \cup {"WAIT", "TIMER"},
         at \in AtBatch => r.left > 0
  PROVE  /\ Scheduled(Schedules(r, at))
         /\ Scheduled([Schedules(r, at) EXCEPT !.woken = FALSE])
<1> DEFINE n == Schedules(r, at)
           m == [n EXCEPT !.woken = FALSE]
<1>1. /\ n \in RootMemory /\ n.at = at /\ n.reply = "NONE" /\ n.cancel = r.cancel
      /\ n.input = r.input /\ n.left = r.left
  BY DEF Schedules, GoesOnWith, RootMemory, Replies
<1>2. /\ m \in RootMemory /\ m.at = at /\ m.reply = "NONE" /\ m.cancel = r.cancel
      /\ m.input = r.input /\ m.left = r.left
  BY <1>1 DEF RootMemory
<1>3. at # "BATCH"
  BY DEF Activities
<1> HIDE DEF n, m
<1>4. Scheduled(n) /\ Scheduled(m)
  BY <1>1, <1>2, <1>3 DEF Scheduled, GoesOnWith, KnowsCancel, HasBatch, UnderWay
<1> QED
  BY <1>4 DEF n, m

\* What the root passes to the finish comes from commands that were accepted.
LEMMA FinishScheduled ==
  ASSUME NEW r, GoesOnWith(r)
  PROVE  Scheduled([Schedules(r, "FINISH") EXCEPT !.input = LatestInput(r)])
<1> DEFINE n == Schedules(r, "FINISH")
           m == [n EXCEPT !.input = LatestInput(r)]
<1>1. /\ LatestInput(r) \in FinishInput /\ LatestInput(r).cancel = r.cancel
      /\ \A c \in LatestInput(r).commands : command[c].type = "CANCEL"
  BY DEF LatestInput, FinishInput, CancelCommands, GoesOnWith, RootMemory
<1>2. n \in RootMemory /\ n.at = "FINISH" /\ n.reply = "NONE" /\ n.cancel = r.cancel
  BY DEF Schedules, GoesOnWith, RootMemory, Activities, Replies
<1>3. /\ m \in RootMemory /\ m.at = "FINISH" /\ m.reply = "NONE" /\ m.cancel = r.cancel
      /\ m.input = LatestInput(r)
  BY <1>1, <1>2 DEF RootMemory
<1> HIDE DEF n, m
<1>4. Scheduled(m)
  BY <1>1, <1>3 DEF Scheduled, GoesOnWith, KnowsCancel, HasBatch, UnderWay, AtBatch
<1> QED
  BY <1>4 DEF n, m

\* A workflow that continues as new keeps its request to cancel.
LEMMA ContinuedScheduled ==
  ASSUME NEW r, GoesOnWith(r), r.page < r.pages
  PROVE  Scheduled(Continued(r))
<1> DEFINE n == Schedules(r, "LOAD")
           m == [n EXCEPT !.page = @ + 1, !.left = 0, !.unsettled = FALSE,
                          !.recorded = {}, !.woken = FALSE]
<1>1. /\ n \in RootMemory /\ n.at = "LOAD" /\ n.reply = "NONE" /\ n.cancel = r.cancel
      /\ n.input = r.input /\ n.page = r.page
  BY DEF Schedules, GoesOnWith, RootMemory, Activities, Replies
<1>2. 0 \in 0..Batches /\ r.page + 1 \in 1..Pages
  <2>1. r.page \in 1..Pages /\ r.pages \in 1..Pages
    BY DEF GoesOnWith, RootMemory
  <2> QED
    BY <2>1, RootAssumption
<1>3. /\ m \in RootMemory /\ m.at = "LOAD" /\ m.reply = "NONE" /\ m.cancel = r.cancel
      /\ m.input = r.input
  BY <1>1, <1>2 DEF RootMemory
<1>4. Continued(r) = m
  BY DEF Continued
<1> HIDE DEF n, m
<1> QED
  BY <1>3, <1>4 DEF Scheduled, GoesOnWith, KnowsCancel, HasBatch, UnderWay, AtBatch

\* Whatever comes after a batch is scheduled in order.
LEMMA LoopScheduled ==
  ASSUME NEW r, GoesOnWith(r)
  PROVE  Scheduled(AfterLoop(r)) /\ Scheduled(LoopHead(r))
<1>1. r.left \in 0..Batches
  BY DEF GoesOnWith, RootMemory
<1>2. Scheduled(AfterPage(r))
  BY FinishScheduled, ContinuedScheduled DEF AfterPage
<1>3. Scheduled(AfterLoop(r))
  BY <1>2, Scheduling DEF AfterLoop, Activities
<1>4. Scheduled(LoopHead(r))
  BY <1>3, Scheduling DEF LoopHead, Activities, AtBatch
<1> QED
  BY <1>3, <1>4

\* A root that is told to cancel goes on with that.
LEMMA CancelTaken ==
  ASSUME NEW r, GoesOnWith(r), NEW told \in BOOLEAN, told => CancelAccepted
  PROVE  GoesOnWith([r EXCEPT !.cancel = told])
<1> DEFINE n == [r EXCEPT !.cancel = told]
<1>1. n \in RootMemory /\ n.cancel = told /\ n.input = r.input /\ n.reply = r.reply
  BY DEF GoesOnWith, RootMemory
<1> HIDE DEF n
<1>2. GoesOnWith(n)
  BY <1>1 DEF GoesOnWith, KnowsCancel
<1> QED
  BY <1>2 DEF n

\* A batch that is settled leaves one less.
LEMMA SettledGoesOn ==
  ASSUME GoesOnWith(root), root.left > 0
  PROVE  GoesOnWith(BatchSettled(root))
<1> DEFINE k == IF root.reply = "SETTLED" THEN root.left - 1 ELSE root.left
           n == [root EXCEPT !.unsettled = FALSE, !.left = k]
<1>1. k \in 0..Batches
  BY RootAssumption DEF GoesOnWith, RootMemory
<1>2. BatchSettled(root) = n
  BY DEF BatchSettled
<1> HIDE DEF k
<1>3. n \in RootMemory /\ n.cancel = root.cancel /\ n.input = root.input /\ n.reply = root.reply
  BY <1>1 DEF GoesOnWith, RootMemory
<1> HIDE DEF n
<1> QED
  BY <1>2, <1>3 DEF GoesOnWith, KnowsCancel

\* The batches of a page that is planned are all to be done.
LEMMA PlannedGoesOn ==
  ASSUME GoesOnWith(root)
  PROVE  GoesOnWith([root EXCEPT !.left = Batches, !.cancel = @ \/ root.reply = "CANCELING"])
<1> DEFINE told == root.cancel \/ root.reply = "CANCELING"
           n == [root EXCEPT !.left = Batches, !.cancel = told]
<1>1. Batches \in 0..Batches /\ told \in BOOLEAN /\ (told => CancelAccepted)
  BY RootAssumption DEF GoesOnWith, RootMemory, KnowsCancel
<1> HIDE DEF told
<1>2. n \in RootMemory /\ n.cancel = told /\ n.input = root.input /\ n.reply = root.reply
  BY <1>1 DEF GoesOnWith, RootMemory
<1> HIDE DEF n
<1>3. GoesOnWith(n)
  BY <1>1, <1>2 DEF GoesOnWith, KnowsCancel
<1> QED
  BY <1>3 DEF n, told

\* The workflow code between two activities schedules the next one in order, or
\* begins a batch that was authorized.
LEMMA ArrivalSchedules ==
  ASSUME RootInv, ResultArrives
  PROVE  \/ Scheduled(root')
         \/ /\ root' = Schedules(root, "BATCH") /\ UnderWay(root) /\ root.left > 0
<1>0. GoesOnWith(root) /\ root.left \in 0..Batches /\ (root.at \in AtBatch => root.left > 0)
  BY DEF RootInv, RTypeOK, GoesOnWith, HasBatch, RootMemory
<1>1. ASSUME root.cancel \/ root.reply = "CANCELING", root' = Canceled(root)
      PROVE  Scheduled(root')
  <2>1. CancelAccepted
    BY <1>0, <1>1 DEF GoesOnWith, KnowsCancel
  <2>2. GoesOnWith([root EXCEPT !.cancel = TRUE])
    BY <1>0, <2>1, CancelTaken
  <2> QED
    BY <1>1, <2>2, LoopScheduled DEF Canceled
<1>2. CASE root.at = "LOAD" /\ Planned
  BY <1>0, <1>2, PlannedGoesOn, LoopScheduled DEF Planned
<1>3. CASE root.at = "CHECKPOINT" /\ Checked
  <2>1. root.left > 0
    BY <1>0, <1>3 DEF AtBatch
  <2>2. CASE root' = LoopHead(root)
    BY <1>0, <2>2, LoopScheduled
  <2>3. CASE \E at \in {"SETTLE", "PREPARE"} : root' = Schedules(root, at)
    BY <1>0, <2>1, <2>3, Scheduling DEF Activities
  <2>4. CASE \E at \in {"WAIT", "TIMER"} : root' = [Schedules(root, at) EXCEPT !.woken = FALSE]
    BY <1>0, <2>1, <2>4, Scheduling
  <2> QED
    BY <1>1, <1>3, <2>2, <2>3, <2>4 DEF Checked
<1>4. CASE root.at = "SETTLE" /\ Settled
  <2>1. GoesOnWith(BatchSettled(root))
    BY <1>0, <1>4, SettledGoesOn DEF AtBatch
  <2> QED
    BY <1>0, <1>1, <1>4, <2>1, LoopScheduled DEF Settled
<1>5. CASE root.at = "DRAIN" /\ Drained
  BY <1>0, <1>5, SettledGoesOn, LoopScheduled DEF Drained, AtBatch
<1>6. CASE root.at = "PREPARE" /\ Prepared
  <2>1. CASE root' = Schedules(root, "BATCH") /\ root.reply = "AUTHORIZED"
    BY <1>0, <1>6, <2>1 DEF UnderWay, AtBatch
  <2> QED
    BY <1>0, <1>1, <1>6, <2>1, LoopScheduled DEF Prepared
<1>7. CASE root.at = "LAST" /\ LastChecked
  <2> DEFINE told == root.cancel \/ root.reply = "CANCELING"
  <2>1. told \in BOOLEAN /\ (told => CancelAccepted)
    BY <1>0 DEF GoesOnWith, KnowsCancel
  <2>2. root' = AfterLoop([root EXCEPT !.cancel = told])
    BY <1>7 DEF LastChecked
  <2> HIDE DEF told
  <2> QED
    BY <1>0, <2>1, <2>2, CancelTaken, LoopScheduled
<1>8. CASE root.at = "FINISH" /\ root' = [Schedules(root, "FINISH") EXCEPT !.input = LatestInput(root)]
  BY <1>0, <1>8, FinishScheduled
<1> QED
  BY <1>2, <1>3, <1>4, <1>5, <1>6, <1>7, <1>8 DEF ResultArrives

\* A transaction of an activity answers with what the run allows: no batch is
\* authorized while it is paused, and no root hears of a CANCEL that nobody sent.
LEMMA AnswersFit ==
  ASSUME RootInv, CommandInv', TypesStay, Transaction
  PROVE  /\ root' \in RootMemory /\ HasBatch(root')
         /\ root'.cancel = root.cancel /\ root'.input = root.input
         /\ root'.reply = "CANCELING" => CancelAccepted
         /\ UnderWay(root') => run'.lifecycle # "PAUSED"
<1>0. root \in RootMemory /\ HasBatch(root) /\ run \in [lifecycle : Lifecycles, quality : Qualities]
  BY DEF RootInv, RTypeOK, CTypeOK
<1>1. PICK reply \in Replies :
        /\ Reply(reply)
        /\ reply = "CANCELING" => run.lifecycle = "CANCELING"
        /\ root.at # "BATCH"
        /\ root.at = "PREPARE" => run' = run /\ (reply = "AUTHORIZED" => Dispatchable)
  <2>1. CASE LoadPlan
    BY <2>1 DEF LoadPlan, Answer, Runs, Replies
  <2>2. CASE CheckpointControl
    <3>1. root.at \in {"CHECKPOINT", "LAST"}
      BY <2>2 DEF CheckpointControl, Runs
    <3>2. CASE CheckpointPauses \/ CheckpointResumes
      BY <3>1, <3>2 DEF CheckpointPauses, CheckpointResumes, Replies
    <3>3. CASE CheckpointAnswers
      <4>1. CheckpointAnswer \in Replies /\ (CheckpointAnswer = "CANCELING" => run.lifecycle = "CANCELING")
        BY DEF CheckpointAnswer, Replies
      <4> QED
        BY <3>1, <3>3, <4>1 DEF CheckpointAnswers, Answer
    <3> QED
      BY <2>2, <3>2, <3>3 DEF CheckpointControl
  <2>3. Refusal \in Replies /\ Refusal # "AUTHORIZED" /\ (Refusal = "CANCELING" => run.lifecycle = "CANCELING")
    BY DEF Refusal, Replies
  <2>4. ASSUME NEW mayRetry, Settles(mayRetry)
        PROVE  \E reply \in {"SETTLED", "RETRIED"} : Reply(reply)
    BY <2>4 DEF Settles, Answer, RootInv, RTypeOK
  <2>5. CASE SettleBatch
    BY <2>3, <2>4, <2>5 DEF SettleBatch, Answer, Runs, Replies
  <2>6. CASE DrainBatch
    BY <2>4, <2>6 DEF DrainBatch, Runs, Replies
  <2>7. CASE PrepareBatch
    BY <2>3, <2>7 DEF PrepareBatch, Answer, Runs, Replies
  <2>8. CASE FinishRun
    BY <2>8 DEF FinishRun, Answer, Runs, Outcome, Replies
  <2> QED
    BY <2>1, <2>2, <2>5, <2>6, <2>7, <2>8 DEF Transaction
<1>2. /\ root' \in RootMemory /\ root'.at = root.at /\ root'.reply = reply /\ root'.left = root.left
      /\ root'.cancel = root.cancel /\ root'.input = root.input
  BY <1>0, <1>1 DEF Reply, RootMemory
<1>3. reply = "CANCELING" => CancelAccepted
  BY <1>1 DEF RootInv, CommandInv, CancelWins
<1> QED
  BY <1>0, <1>1, <1>2, <1>3 DEF HasBatch, UnderWay, Dispatchable

\* What was accepted stays so.
LEMMA CancelStays ==
  ASSUME TypesStay, NEW r, NEW r2,
         KnowsCancel(r), r2.input = r.input, r2.cancel => r.cancel,
         r2.reply = "CANCELING" => CancelAccepted
  PROVE  /\ r2.cancel \/ r2.input.cancel \/ r2.reply = "CANCELING" => CancelAccepted'
         /\ \A c \in r2.input.commands \cap Commands : command'[c].type = "CANCEL"
<1>1. CancelAccepted => CancelAccepted'
  BY DEF CancelAccepted, TypesStay
<1>2. \A c \in r.input.commands \cap Commands : command'[c].type = "CANCEL"
  BY DEF KnowsCancel, TypesStay
<1> QED
  BY <1>1, <1>2 DEF KnowsCancel

\* A memory that keeps its input, hears of no CANCEL and stays where it is keeps
\* what the invariant says of it.
LEMMA MemoryKept ==
  ASSUME RootInv, TypesStay, root' \in RootMemory, HasBatch(root'),
         root'.input = root.input, root'.cancel = root.cancel,
         root'.reply = "CANCELING" => CancelAccepted
  PROVE  (root \in RootMemory /\ KnowsCancel(root) /\ HasBatch(root))'
<1>1. root'.input.commands \subseteq Commands
  BY DEF RootMemory, FinishInput
<1> QED
  BY <1>1, CancelStays DEF RootInv, KnowsCancel, HasBatch

\* A signal of an accepted CANCEL tells of that CANCEL.
LEMMA SignalRemembered ==
  ASSUME RootInv, NEW c \in sent, SignalAccepted(c)
  PROVE  /\ (root \in RootMemory /\ KnowsCancel(root) /\ HasBatch(root))'
         /\ UnderWay(root') => UnderWay(root)
<1>0. c \in Commands /\ root \in RootMemory /\ KnowsCancel(root) /\ HasBatch(root)
  BY DEF RootInv, RTypeOK, CTypeOK
<1>1. root' = Recorded(c) /\ command' = command
  BY DEF SignalAccepted
<1> DEFINE told == root.cancel \/ command[c].type = "CANCEL"
           n == [root EXCEPT !.recorded = @ \cup {c}, !.woken = TRUE, !.cancel = told]
<1>2. told \in BOOLEAN /\ (told => CancelAccepted)
  BY <1>0 DEF KnowsCancel, CancelAccepted, RootMemory
<1>3. root' = n \/ root' = root
  BY <1>1 DEF Recorded
<1> HIDE DEF told
<1>4. /\ n \in RootMemory /\ n.cancel = told /\ n.input = root.input /\ n.reply = root.reply
      /\ n.at = root.at /\ n.left = root.left
  BY <1>0, <1>2 DEF RootMemory
<1> HIDE DEF n
<1>5. CancelAccepted' <=> CancelAccepted
  BY <1>1 DEF CancelAccepted
<1> QED
  BY <1>0, <1>1, <1>2, <1>3, <1>4, <1>5 DEF KnowsCancel, HasBatch, UnderWay

\* A memory that is scheduled is in order where commands stay.
LEMMA ScheduledKept ==
  ASSUME Scheduled(root'), command' = command
  PROVE  (root \in RootMemory /\ KnowsCancel(root) /\ HasBatch(root))' /\ ~ UnderWay(root')
<1>1. CancelAccepted' <=> CancelAccepted
  BY DEF CancelAccepted
<1> QED
  BY <1>1 DEF Scheduled, KnowsCancel, HasBatch

\* The root's memory stays in order with the commands and with its batch.
LEMMA RootStep ==
  ASSUME RootInv, CommandInv', TypesStay, [RNext]_rootVars
  PROVE  /\ (root \in RootMemory /\ KnowsCancel(root) /\ HasBatch(root))'
         /\ UnderWay(root') => run'.lifecycle # "PAUSED"
<1>0. /\ root \in RootMemory /\ KnowsCancel(root) /\ HasBatch(root)
      /\ UnderWay(root) => run.lifecycle # "PAUSED"
      /\ root.at \in AtBatch => root.left > 0
  BY DEF RootInv, RTypeOK, HasBatch
<1>1. ASSUME root' = root, UnderWay(root) /\ run'.lifecycle = "PAUSED" => run.lifecycle = "PAUSED"
      PROVE  /\ (root \in RootMemory /\ KnowsCancel(root) /\ HasBatch(root))'
             /\ UnderWay(root') => run'.lifecycle # "PAUSED"
  BY <1>0, <1>1, MemoryKept DEF KnowsCancel
<1>2. CASE (Accept \/ Dispatch) /\ UNCHANGED <<root, batch, losses>>
  <2>1. run'.lifecycle = "PAUSED" => run.lifecycle = "PAUSED"
    BY <1>2 DEF Accept, Dispatch, AcceptPause, AcceptResume, AcceptCancel, Claim, ClaimExpires, Deliver,
                Signal, NotFound, CallFails, MarkDelivered, RetryLater, GiveUp, Records, LeaseLost,
                RootInv, RTypeOK, CTypeOK
  <2> QED
    BY <1>1, <1>2, <2>1
<1>3. CASE (\E d \in deliveries : Vanish(d)) /\ UNCHANGED <<root, batch, losses>>
  BY <1>1, <1>3 DEF Vanish
<1>4. CASE RootStarts \/ UNCHANGED rootVars
  BY <1>1, <1>4 DEF RootStarts, rootVars
<1>5. CASE \E c \in sent : SignalAccepted(c)
  <2>1. run' = run
    BY <1>5 DEF SignalAccepted
  <2> QED
    BY <1>0, <1>5, <2>1, SignalRemembered
<1>6. CASE Transaction
  BY <1>6, AnswersFit, MemoryKept
<1>7. CASE ResultLost
  <2>1. root' = [root EXCEPT !.reply = "NONE"] /\ run' = run
    BY <1>7 DEF ResultLost, Reply
  <2>2. /\ root' \in RootMemory /\ root'.at = root.at /\ root'.left = root.left
        /\ root'.input = root.input /\ root'.cancel = root.cancel /\ root'.reply = "NONE"
    BY <1>0, <2>1 DEF RootMemory, Replies
  <2> QED
    BY <1>0, <2>1, <2>2, MemoryKept DEF HasBatch, UnderWay
<1>8. CASE AttemptStarts
  BY <1>1, <1>8 DEF AttemptStarts, RootInv, RTypeOK, CTypeOK
<1>9. CASE BatchEnds
  <2>1. root' = [root EXCEPT !.at = "CHECKPOINT", !.woken = FALSE, !.unsettled = TRUE]
    BY <1>9 DEF BatchEnds
  <2>2. /\ root' \in RootMemory /\ root'.at = "CHECKPOINT" /\ root'.left = root.left
        /\ root'.input = root.input /\ root'.cancel = root.cancel /\ root'.reply = root.reply
    BY <1>0, <2>1 DEF RootMemory, Activities
  <2>3. root.left > 0
    BY <1>0, <1>9 DEF BatchEnds, AtBatch
  <2> QED
    BY <1>0, <2>2, <2>3, MemoryKept DEF HasBatch, UnderWay, KnowsCancel
<1>10. CASE ResultArrives
  <2>1. command' = command /\ run' = run
    BY <1>10 DEF ResultArrives
  <2>2. CASE Scheduled(root')
    BY <2>1, <2>2, ScheduledKept
  <2>3. CASE root' = Schedules(root, "BATCH") /\ UnderWay(root) /\ root.left > 0
    <3>1. /\ root' \in RootMemory /\ root'.at = "BATCH" /\ root'.left = root.left
          /\ root'.input = root.input /\ root'.cancel = root.cancel /\ root'.reply = "NONE"
      BY <1>0, <2>3 DEF Schedules, RootMemory, Replies
    <3> QED
      BY <1>0, <2>1, <2>3, <3>1, MemoryKept DEF HasBatch
  <2> QED
    BY <1>10, <2>2, <2>3, ArrivalSchedules
<1>11. CASE RootWakes \/ TimerFires
  <2>1. root' = LoopHead(root) \/ (root.left > 0 /\ root' = Schedules(root, "PREPARE"))
    BY <1>0, <1>11 DEF RootWakes, TimerFires, AtBatch
  <2>2. GoesOnWith(root) /\ command' = command
    BY <1>0, <1>11 DEF GoesOnWith, RootWakes, TimerFires
  <2>3. Scheduled(root')
    BY <2>1, <2>2, LoopScheduled, Scheduling DEF Activities
  <2> QED
    BY <2>2, <2>3, ScheduledKept
<1>12. CASE RootFails \/ RootCompletes
  <2>1. root' = [Fresh(root.pages) EXCEPT !.at = "END"]
    BY <1>12 DEF RootFails, RootCompletes, Ends
  <2>2. root.pages \in 1..Pages /\ 1 \in 1..Pages /\ 0 \in 0..Batches
    BY <1>0, RootAssumption DEF RootMemory
  <2>3. /\ root' \in RootMemory /\ root'.at = "END" /\ root'.reply = "NONE" /\ root'.cancel = FALSE
        /\ root'.input = [cancel |-> FALSE, commands |-> {}]
    BY <2>1, <2>2 DEF Fresh, RootMemory, FinishInput, Replies
  <2> QED
    BY <2>3 DEF KnowsCancel, HasBatch, AtBatch, UnderWay
<1> QED
  BY <1>2, <1>3, <1>4, <1>5, <1>6, <1>7, <1>8, <1>9, <1>10, <1>11, <1>12 DEF RNext, Root

-----------------------------------------------------------------------------
(* Types, and the invariant *)

\* Runs and commands keep their types in every step.
LEMMA RowTypes ==
  ASSUME RootInv, [RNext]_rootVars
  PROVE  /\ run' \in [lifecycle : Lifecycles, quality : Qualities]
         /\ command' \in [Commands -> CommandRow]
<1>0. /\ run \in [lifecycle : Lifecycles, quality : Qualities]
      /\ command \in [Commands -> CommandRow]
  BY DEF RootInv, RTypeOK, CTypeOK
<1>1. RowKinds
  BY StepIsRowKind DEF RootInv, CommandInv
<1>2. ASSUME NEW c \in Commands, AcceptPause(c) \/ AcceptResume(c) \/ AcceptCancel(c)
      PROVE  /\ run' \in [lifecycle : Lifecycles, quality : Qualities]
             /\ command' \in [Commands -> CommandRow]
  <2>1. Superseded \in [Commands -> CommandRow]
    BY <1>0, ResolvedRows DEF Superseded
  <2>2. \E rows \in [Commands -> CommandRow], type \in {"PAUSE", "RESUME", "CANCEL"} :
          command' = [rows EXCEPT ![c].type = type]
    BY <1>0, <1>2, <2>1 DEF AcceptPause, AcceptResume, AcceptCancel, Create
  <2>3. command' \in [Commands -> CommandRow]
    BY <2>2 DEF CommandRow
  <2> QED
    BY <1>0, <1>2, <2>3 DEF AcceptPause, AcceptResume, AcceptCancel, Lifecycles
<1>3. CASE CheckpointPauses \/ CheckpointResumes
  BY <1>0, <1>3, ResolvedRows DEF CheckpointPauses, CheckpointResumes, Applies, Lifecycles
<1>4. CASE ~ FinishConflict /\ FinishRun
  BY <1>0, <1>4, ResolvedRows DEF FinishRun, Outcome, Lifecycles, Qualities
<1>5. CASE AttemptStarts
  BY <1>0, <1>5 DEF AttemptStarts, Lifecycles
<1> QED
  BY <1>0, <1>1, <1>2, <1>3, <1>4, <1>5 DEF RowKinds, Delivers

\* Deliveries are of accepted commands, and so are signals.
LEMMA DeliveryTypes ==
  ASSUME RootInv, command' \in [Commands -> CommandRow], [RNext]_rootVars
  PROVE  deliveries' \subseteq Delivery /\ sent' \subseteq Commands
<1>0. deliveries \subseteq Delivery /\ sent \subseteq Commands
  BY DEF RootInv, RTypeOK, CTypeOK
<1>1. ASSUME NEW d \in deliveries, NEW phase \in {"AWAIT", "TRANSIENT", "INVARIANT", "SIGNALED"}
      PROVE  [d EXCEPT !.phase = phase] \in Delivery
  BY <1>0 DEF Delivery
<1>2. ASSUME NEW c \in Commands, Claim(c) PROVE deliveries' \subseteq Delivery /\ sent' \subseteq Commands
  <2>1. command'[c].revision \in Nat /\ command'[c].attempts \in Nat
    BY DEF CommandRow
  <2> QED
    BY <1>0, <1>2, <2>1 DEF Claim, Delivery
<1>3. ASSUME NEW d \in deliveries, Deliver(d)
      PROVE  deliveries' \subseteq Delivery /\ sent' \subseteq Commands
  <2>1. d.cmd \in Commands
    BY <1>0 DEF Delivery
  <2> QED
    BY <1>0, <1>1, <1>3, <2>1
       DEF Deliver, Signal, NotFound, CallFails, MarkDelivered, RetryLater, GiveUp, Records, LeaseLost,
           Becomes
<1>4. CASE Accept \/ \E c \in Commands : ClaimExpires(c)
  BY <1>0, <1>4 DEF Accept, AcceptPause, AcceptResume, AcceptCancel, ClaimExpires
<1>5. CASE \E d \in deliveries : Vanish(d)
  BY <1>0, <1>5 DEF Vanish
<1>6. CASE \E c \in sent : SignalAccepted(c)
  BY <1>0, <1>1, <1>6 DEF SignalAccepted
<1>7. CASE \/ Transaction \/ RootStarts \/ ResultLost \/ AttemptStarts \/ BatchEnds
           \/ ResultArrives \/ RootFails \/ RootCompletes \/ RootWakes \/ TimerFires
           \/ UNCHANGED rootVars
  BY <1>0, <1>7 DEF Transaction, RootStarts, ResultLost, AttemptStarts, BatchEnds, ResultArrives,
                    RootFails, RootCompletes, Ends, RootWakes, TimerFires, rootVars
<1> QED
  BY <1>2, <1>3, <1>4, <1>5, <1>6, <1>7 DEF RNext, Root, Dispatch

\* The workflow, the batch and the faults keep their types.
LEMMA RestTypes ==
  ASSUME RootInv, [RNext]_rootVars
  PROVE  /\ workflow' \in {"NONE", "RUNNING", "COMPLETED", "FAILED"}
         /\ faults' \in [expiries : 0..MaxExpiries, calls : 0..MaxFailures]
         /\ batch' \in [settled : {"NONE", "SETTLED", "RETRIED"}, retries : 0..MaxRetries]
         /\ losses' \in 0..MaxLosses
<1>0. /\ workflow \in {"NONE", "RUNNING", "COMPLETED", "FAILED"}
      /\ faults \in [expiries : 0..MaxExpiries, calls : 0..MaxFailures]
      /\ batch \in [settled : {"NONE", "SETTLED", "RETRIED"}, retries : 0..MaxRetries]
      /\ losses \in 0..MaxLosses
  BY DEF RootInv, RTypeOK, CTypeOK
<1>1. workflow' \in {workflow, "RUNNING", "COMPLETED", "FAILED"}
  BY DEF RNext, Root, rootVars, Accept, AcceptPause, AcceptResume, AcceptCancel, Dispatch, Claim,
         ClaimExpires, Deliver, Signal, NotFound, CallFails, MarkDelivered, RetryLater, GiveUp, Records,
         LeaseLost, Vanish, RootStarts, SignalAccepted, Transaction, ResultLost, AttemptStarts,
         BatchEnds, ResultArrives, RootFails, RootCompletes, Ends, RootWakes, TimerFires
<1>2. \/ faults' = faults
      \/ faults.expiries < MaxExpiries /\ faults' = [faults EXCEPT !.expiries = @ + 1]
      \/ faults.calls < MaxFailures /\ faults' = [faults EXCEPT !.calls = @ + 1]
  BY DEF RNext, Root, rootVars, Accept, AcceptPause, AcceptResume, AcceptCancel, Dispatch, Claim,
         ClaimExpires, Deliver, Signal, NotFound, CallFails, MarkDelivered, RetryLater, GiveUp, Records,
         LeaseLost, Vanish, RootStarts, SignalAccepted, Transaction, ResultLost, AttemptStarts,
         BatchEnds, ResultArrives, RootFails, RootCompletes, Ends, RootWakes, TimerFires
<1>3. \/ batch' = batch \/ \E settled \in {"NONE", "SETTLED"} : batch' = [batch EXCEPT !.settled = settled]
      \/ RetriesLeft /\ batch' = [settled |-> "RETRIED", retries |-> batch.retries + 1]
  <2>1. CASE Transaction
    BY <2>1 DEF Transaction, LoadPlan, CheckpointControl, CheckpointPauses, CheckpointResumes,
                CheckpointAnswers, SettleBatch, DrainBatch, PrepareBatch, FinishRun, Settles, Answer
  <2>2. CASE ~ Transaction
    BY <2>2 DEF RNext, Root, rootVars, RootStarts, SignalAccepted, ResultLost, AttemptStarts,
                BatchEnds, ResultArrives, RootFails, RootCompletes, Ends, RootWakes, TimerFires
  <2> QED
    BY <2>1, <2>2
<1>4. losses' = losses \/ (losses < MaxLosses /\ losses' = losses + 1)
  BY DEF RNext, Root, rootVars, RootStarts, SignalAccepted, Transaction, ResultLost, AttemptStarts,
         BatchEnds, ResultArrives, RootFails, RootCompletes, Ends, RootWakes, TimerFires
<1>5. faults' \in [expiries : 0..MaxExpiries, calls : 0..MaxFailures]
  BY <1>0, <1>2, CommandAssumption
<1>6. batch' \in [settled : {"NONE", "SETTLED", "RETRIED"}, retries : 0..MaxRetries]
  BY <1>0, <1>3, RootAssumption DEF RetriesLeft
<1> QED
  BY <1>0, <1>1, <1>4, <1>5, <1>6, RootAssumption

\* A new run, queued and without commands, satisfies the invariant.
LEMMA InitRoot == RInit => RootInv
<1> SUFFICES ASSUME RInit PROVE RootInv
  OBVIOUS
<1>1. /\ \A c \in Commands : command[c].type = "NONE" /\ command[c].status = "PENDING"
      /\ command \in [Commands -> CommandRow]
  BY DEF RInit, CInit, CommandRow
<1>2. Accepted = 1..0
  BY <1>1 DEF Accepted
<1>3. CommandInv
  <2>1. AcceptedInOrder /\ BlankRows
    BY <1>1, <1>2, CommandAssumption DEF AcceptedInOrder, BlankRows
  <2>2. run.lifecycle = "QUEUED"
    BY DEF RInit, CInit
  <2> QED
    BY <1>1, <2>1, <2>2 DEF CommandInv, OneCancel, OpenFits, OneControl, OpenControl, Open, CancelWins,
                            CancelAccepted, CanceledRun, AcknowledgedAfterClosure
<1>4. PICK pages \in 1..Pages : root = Fresh(pages)
  BY DEF RInit
<1>5. /\ root \in RootMemory /\ KnowsCancel(root) /\ HasBatch(root) /\ ~ UnderWay(root)
  <2>1. 1 \in 1..Pages /\ 0 \in 0..Batches
    BY RootAssumption
  <2> QED
    BY <1>4, <2>1 DEF Fresh, RootMemory, FinishInput, Activities, Replies, KnowsCancel, HasBatch, AtBatch,
                      UnderWay
<1>6. RTypeOK
  BY <1>1, <1>5, CommandAssumption, RootAssumption
     DEF RInit, CInit, RTypeOK, CTypeOK, Lifecycles, Qualities
<1> QED
  BY <1>3, <1>5, <1>6 DEF RootInv

\* The invariant holds in every reachable state.
LEMMA RootInvHolds == RSpec => []RootInv
<1>1. RootInv /\ [RNext]_rootVars => RootInv'
  <2> SUFFICES ASSUME RootInv, [RNext]_rootVars PROVE RootInv'
    OBVIOUS
  <2>1. CommandInv' /\ TypesStay
    BY CommandStep DEF RootInv
  <2>2. RTypeOK'
    BY <2>1, RootStep, RowTypes, DeliveryTypes, RestTypes DEF RTypeOK, CTypeOK
  <2> QED
    BY <2>1, <2>2, RootStep DEF RootInv
<1> QED
  BY <1>1, InitRoot, PTL DEF RSpec

\* Whatever order commands are accepted, delivered, applied and superseded in, and
\* whatever the root knew when it decided: a CANCEL wins and is acknowledged only
\* after the run is closed, an open PAUSE or RESUME is one that the run still has
\* to follow, and a run pauses only between batches (TaskRunCommandService,
\* TaskWorkerService.checkpoint_control, finish_run, AtlasTaskRunWorkflow).
THEOREM ControlFits == RSpec => []RInv
  BY RootInvHolds, RootInvIsRInv, PTL

-----------------------------------------------------------------------------
(* The queue of commands keeps the promise of ClaimedDelivery.  A row is        *)
(* claimed, decided by its newest claim, or settled by the run; and no          *)
(* transaction of the run settles two of them, as a run never has a control and *)
(* a CANCEL to follow at once.                                               *)

\* Nobody works under a claim of somebody else.
ClaimsAreOwn ==
  \A d \in deliveries :
    /\ d.revision <= command[d.cmd].revision
    /\ \A e \in deliveries : e.cmd = d.cmd /\ e.revision = d.revision => e = d

\* What the abstract queue sees of rows, and of deliveries.
RowStays(c) ==
  command'[c].status = command[c].status /\ command'[c].revision = command[c].revision

RowsStay == \A c \in Commands : RowStays(c)

\* The row of c moves to another status under its next revision.
RowMoves(c, status) ==
  /\ command'[c].status = status /\ command'[c].revision = command[c].revision + 1
  /\ \A e \in Commands \ {c} : RowStays(e)

Rephased ==
  \E g : /\ deliveries' = {g[d] : d \in deliveries}
         /\ \A d \in deliveries : g[d].cmd = d.cmd /\ g[d].revision = d.revision

QueueKinds ==
  \/ \E c \in Commands : Claim(c)
  \/ \E d \in deliveries, status \in {"DELIVERED", "RETRY_WAIT", "FAILED", "APPLIED"} :
       OwnsClaim(d) /\ RowMoves(d.cmd, status) /\ deliveries' = deliveries \ {d}
  \/ \E d \in deliveries : RowsStay /\ deliveries' = deliveries \ {d}
  \/ \E c \in Commands, status \in {"APPLIED", "SUPERSEDED"} :
       command[c].status \in Unresolved /\ RowMoves(c, status) /\ deliveries' = deliveries
  \/ RowsStay /\ Rephased

\* Deliveries that stay are a rephasing of themselves.
LEMMA StaysRephased == deliveries' = deliveries => Rephased
<1> SUFFICES ASSUME deliveries' = deliveries PROVE Rephased
  OBVIOUS
<1> DEFINE g == [d \in deliveries |-> d]
<1>1. deliveries' = {g[d] : d \in deliveries}
  OBVIOUS
<1>2. \A d \in deliveries : g[d].cmd = d.cmd /\ g[d].revision = d.revision
  OBVIOUS
<1> HIDE DEF g
<1> QED
  BY <1>1, <1>2 DEF Rephased

\* A delivery that moves on keeps its claim.
LEMMA BecomesRephased ==
  ASSUME RTypeOK, NEW d \in deliveries, NEW phase, Becomes(d, phase)
  PROVE  Rephased
<1> DEFINE n == [d EXCEPT !.phase = phase]
           g == [e \in deliveries |-> IF e = d THEN n ELSE e]
<1>1. n.cmd = d.cmd /\ n.revision = d.revision
  BY DEF RTypeOK, CTypeOK, Delivery
<1>2. deliveries' = (deliveries \ {d}) \cup {n}
  BY DEF Becomes
<1> HIDE DEF n
<1>3. deliveries' = {g[e] : e \in deliveries}
  BY <1>2
<1>4. \A e \in deliveries : g[e].cmd = e.cmd /\ g[e].revision = e.revision
  BY <1>1
<1> HIDE DEF g
<1> QED
  BY <1>3, <1>4 DEF Rephased

\* A signal that is accepted moves on the deliveries that wait for it.
LEMMA AcceptedRephased ==
  ASSUME RTypeOK, NEW c \in sent, SignalAccepted(c)
  PROVE  Rephased
<1> DEFINE n(d) == IF d.cmd = c /\ d.phase = "AWAIT" THEN [d EXCEPT !.phase = "SIGNALED"] ELSE d
           g == [d \in deliveries |-> n(d)]
<1>1. \A d \in deliveries : n(d).cmd = d.cmd /\ n(d).revision = d.revision
  BY DEF RTypeOK, CTypeOK, Delivery
<1>2. deliveries' = {n(d) : d \in deliveries}
  BY DEF SignalAccepted
<1> HIDE DEF n
<1>3. deliveries' = {g[d] : d \in deliveries}
  BY <1>2
<1>4. \A d \in deliveries : g[d].cmd = d.cmd /\ g[d].revision = d.revision
  BY <1>1
<1> HIDE DEF g
<1> QED
  BY <1>3, <1>4 DEF Rephased

\* A transaction that resolves what is open resolves one command, or none.
LEMMA ResolvesOne ==
  ASSUME RTypeOK, NEW cmds, NEW status \in {"APPLIED", "SUPERSEDED"},
         \A c, e \in cmds : c = e,
         \A c \in cmds : c \in Commands /\ command[c].status \in Unresolved,
         \A c \in Commands : /\ command'[c].status = Resolved(cmds, status)[c].status
                             /\ command'[c].revision = Resolved(cmds, status)[c].revision,
         deliveries' = deliveries
  PROVE  QueueKinds
<1>1. \A c \in Commands :
        /\ c \in cmds => /\ command'[c].status = status
                         /\ command'[c].revision = command[c].revision + 1
        /\ c \notin cmds => RowStays(c)
  BY ResolvedRows DEF RTypeOK, CTypeOK, RowStays
<1>2. CASE cmds = {}
  BY <1>1, <1>2, StaysRephased DEF RowsStay, QueueKinds
<1>3. ASSUME NEW c \in cmds PROVE QueueKinds
  <2>1. c \in Commands /\ command[c].status \in Unresolved /\ RowMoves(c, status)
    BY <1>1, <1>3 DEF RowMoves
  <2> QED
    BY <2>1 DEF QueueKinds
<1> QED
  BY <1>2, <1>3

\* An accepted CANCEL settles at most one command of the queue.
LEMMA CancelSettles ==
  ASSUME RootInv, NEW c \in Commands, AcceptCancel(c)
  PROVE  QueueKinds
<1>1. \A a, b \in OpenControl : a = b
  BY DEF RootInv, CommandInv, OpenFits, OneControl
<1>2. \A a \in OpenControl : a \in Commands /\ command[a].status \in Unresolved
  BY DEF OpenControl, Open
<1>3. Superseded \in [Commands -> CommandRow]
  BY ResolvedRows DEF Superseded, RootInv, RTypeOK, CTypeOK
<1>4. command' = [Superseded EXCEPT ![c].type = "CANCEL"] /\ deliveries' = deliveries
  BY DEF AcceptCancel
<1>5. \A a \in Commands : /\ command'[a].status = Superseded[a].status
                          /\ command'[a].revision = Superseded[a].revision
  BY <1>3, <1>4 DEF CommandRow
<1> QED
  BY <1>1, <1>2, <1>4, <1>5, ResolvesOne DEF Superseded, RootInv

\* So does a checkpoint.
LEMMA CheckpointSettles ==
  ASSUME RootInv, CheckpointPauses \/ CheckpointResumes, deliveries' = deliveries
  PROVE  QueueKinds
<1>1. command' = Resolved(OpenControl, "APPLIED")
  BY DEF CheckpointPauses, CheckpointResumes, Applies
<1>2. \A a, b \in OpenControl : a = b
  BY DEF RootInv, CommandInv, OpenFits, OneControl
<1>3. \A a \in OpenControl : a \in Commands /\ command[a].status \in Unresolved
  BY DEF OpenControl, Open
<1> QED
  BY <1>1, <1>2, <1>3, ResolvesOne DEF RootInv

\* A run that is pausing when it is finished has no CANCEL to acknowledge.
LEMMA FinishSettles ==
  ASSUME RootInv, ~ FinishConflict, FinishRun, deliveries' = deliveries
  PROVE  QueueKinds
<1>1. command' = Resolved(FinishResolves, "APPLIED") /\ Acknowledgeable
  BY DEF FinishRun, FinishResolves
<1>2. \A c \in FinishResolves : c \in OpenControl \/ (c \in Commands /\ command[c].type = "CANCEL")
  BY FinishCommands DEF RootInv
<1>3. \A c \in FinishResolves : c \in Commands /\ command[c].status \in Unresolved
  BY <1>1, <1>2 DEF Acknowledgeable, FinishResolves, SettledControl, OpenControl, Open, Unresolved
<1>4. \A c, e \in FinishResolves : c = e
  <2>1. ASSUME NEW c \in FinishResolves, NEW e \in FinishResolves, c \in OpenControl, e \notin OpenControl
        PROVE  FALSE
    <3>1. Pausing
      BY <2>1, <1>2 DEF RootInv, CommandInv, OpenFits, OpenControl, Open, Pausing
    <3>2. CancelAccepted
      BY <1>2, <2>1 DEF CancelAccepted
    <3> QED
      BY <3>1, <3>2 DEF RootInv, CommandInv, CancelWins, CanceledRun, Pausing
  <2>2. \A c, e \in OpenControl : c = e
    BY DEF RootInv, CommandInv, OpenFits, OneControl
  <2>3. \A c, e \in Commands : command[c].type = "CANCEL" /\ command[e].type = "CANCEL" => c = e
    BY DEF RootInv, CommandInv, OneCancel
  <2> QED
    BY <1>2, <2>1, <2>2, <2>3
<1> QED
  BY <1>1, <1>3, <1>4, ResolvesOne DEF RootInv

\* These are all the ways a step can change the queue.
LEMMA StepIsQueueKind ==
  ASSUME RootInv, [RNext]_rootVars
  PROVE  QueueKinds
<1>0. command \in [Commands -> CommandRow] /\ RTypeOK
  BY DEF RootInv, RTypeOK, CTypeOK
<1>1. ASSUME RowsStay, deliveries' = deliveries PROVE QueueKinds
  BY <1>1, StaysRephased DEF QueueKinds
<1>2. ASSUME command' = command PROVE RowsStay
  BY <1>2 DEF RowsStay, RowStays
<1>3. ASSUME NEW c \in Commands, AcceptPause(c) \/ AcceptResume(c) PROVE QueueKinds
  <2>1. \E type \in {"PAUSE", "RESUME"} : command' = [command EXCEPT ![c].type = type]
    BY <1>3 DEF AcceptPause, AcceptResume, Create
  <2>2. RowsStay
    BY <1>0, <2>1 DEF RowsStay, RowStays, CommandRow
  <2> QED
    BY <1>1, <1>3, <2>2 DEF AcceptPause, AcceptResume
<1>4. ASSUME NEW c \in Commands, ClaimExpires(c) PROVE QueueKinds
  <2>1. RowsStay
    BY <1>0, <1>4 DEF ClaimExpires, RowsStay, RowStays, CommandRow
  <2> QED
    BY <1>1, <1>4, <2>1 DEF ClaimExpires
<1>5. ASSUME NEW d \in deliveries, NEW status \in {"DELIVERED", "RETRY_WAIT", "FAILED", "APPLIED"},
             Records(d, status)
      PROVE  QueueKinds
  <2>1. d.cmd \in Commands
    BY <1>0 DEF RTypeOK, CTypeOK, Delivery
  <2>2. RowMoves(d.cmd, status)
    BY <1>0, <1>5, <2>1, ResolvedRows DEF Records, RowMoves, RowStays
  <2> QED
    BY <1>5, <2>2 DEF Records, QueueKinds
<1>6. ASSUME NEW d \in deliveries, Deliver(d) PROVE QueueKinds
  <2>1. CASE Signal(d) \/ NotFound(d) \/ CallFails(d)
    <3>1. PICK phase : Becomes(d, phase)
      BY <2>1 DEF Signal, NotFound, CallFails
    <3>2. Rephased
      BY <1>0, <3>1, BecomesRephased
    <3> QED
      BY <1>2, <2>1, <3>2 DEF Signal, NotFound, CallFails, QueueKinds
  <2>2. CASE LeaseLost(d)
    BY <1>2, <2>2 DEF LeaseLost, QueueKinds
  <2>3. CASE MarkDelivered(d) \/ RetryLater(d) \/ GiveUp(d)
    BY <1>5, <2>3 DEF MarkDelivered, RetryLater, GiveUp, Reconciled
  <2> QED
    BY <1>6, <2>1, <2>2, <2>3 DEF Deliver
<1>7. ASSUME NEW d \in deliveries, Vanish(d) PROVE QueueKinds
  BY <1>2, <1>7 DEF Vanish, QueueKinds
<1>8. ASSUME NEW c \in sent, SignalAccepted(c) PROVE QueueKinds
  BY <1>0, <1>2, <1>8, AcceptedRephased DEF SignalAccepted, QueueKinds
<1>9. CASE Transaction
  <2>1. deliveries' = deliveries
    BY <1>9 DEF Transaction
  <2>2. CASE CheckpointPauses \/ CheckpointResumes
    BY <2>1, <2>2, CheckpointSettles
  <2>3. CASE ~ FinishConflict /\ FinishRun
    BY <2>1, <2>3, FinishSettles
  <2>4. CASE command' = command
    BY <1>1, <1>2, <2>1, <2>4
  <2> QED
    BY <1>9, <2>2, <2>3, <2>4
       DEF Transaction, CheckpointControl, CheckpointAnswers, LoadPlan, SettleBatch, DrainBatch,
           PrepareBatch, FinishRun, Settles, Answer
<1>10. CASE \/ RootStarts \/ ResultLost \/ AttemptStarts \/ BatchEnds \/ ResultArrives
            \/ RootFails \/ RootCompletes \/ RootWakes \/ TimerFires \/ UNCHANGED rootVars
  BY <1>1, <1>2, <1>10 DEF RootStarts, ResultLost, AttemptStarts, BatchEnds, ResultArrives,
                      RootFails, RootCompletes, Ends, RootWakes, TimerFires, rootVars
<1>11. ASSUME NEW c \in Commands, Claim(c) PROVE QueueKinds
  BY <1>11 DEF QueueKinds
<1> QED
  BY <1>3, <1>4, <1>6, <1>7, <1>8, <1>9, <1>10, <1>11, CancelSettles
     DEF RNext, Accept, Dispatch, Root

\* A claim has the newest revision of its row, and what follows it has a later one.
LEMMA ClaimsStep ==
  ASSUME RootInv, RTypeOK', ClaimsAreOwn, QueueKinds
  PROVE  ClaimsAreOwn'
<1>0. /\ \A c \in Commands : command[c].revision \in Nat /\ command'[c].revision \in Nat
      /\ \A d \in deliveries : d.cmd \in Commands /\ d.revision \in Nat
      /\ \A c \in Commands : command[c].revision \in Int
  BY DEF RootInv, RTypeOK, CTypeOK, CommandRow, Delivery
<1>1. ASSUME NEW c \in Commands, Claim(c) PROVE ClaimsAreOwn'
  <2> DEFINE n == [cmd |-> c, revision |-> command'[c].revision, attempts |-> command'[c].attempts,
                   phase |-> "CALL"]
  <2>1. deliveries' = deliveries \cup {n} /\ n.cmd = c /\ n.revision = command'[c].revision
    BY <1>1 DEF Claim
  <2>2. command'[c].revision = command[c].revision + 1 /\ \A e \in Commands \ {c} : RowStays(e)
    BY <1>1 DEF Claim, RowStays, RootInv, RTypeOK, CTypeOK, CommandRow
  <2> HIDE DEF n
  <2> QED
    BY <1>0, <2>1, <2>2 DEF ClaimsAreOwn, RowStays
<1>2. ASSUME \A c \in Commands : command'[c].revision >= command[c].revision,
             deliveries' \subseteq deliveries \/ Rephased
      PROVE  ClaimsAreOwn'
  <2>1. CASE deliveries' \subseteq deliveries
    BY <1>0, <1>2, <2>1 DEF ClaimsAreOwn
  <2>2. CASE Rephased
    <3>1. PICK g : /\ deliveries' = {g[d] : d \in deliveries}
                   /\ \A d \in deliveries : g[d].cmd = d.cmd /\ g[d].revision = d.revision
      BY <2>2 DEF Rephased
    <3> QED
      BY <1>0, <1>2, <3>1 DEF ClaimsAreOwn
  <2> QED
    BY <1>2, <2>1, <2>2
<1>3. ASSUME NEW c \in Commands, NEW status, RowMoves(c, status)
      PROVE  \A e \in Commands : command'[e].revision >= command[e].revision
  BY <1>0, <1>3 DEF RowMoves, RowStays
<1>4. ASSUME RowsStay PROVE \A e \in Commands : command'[e].revision >= command[e].revision
  BY <1>0, <1>4 DEF RowsStay, RowStays
<1>5. ASSUME NEW d \in deliveries, NEW status, RowMoves(d.cmd, status), deliveries' = deliveries \ {d}
      PROVE  ClaimsAreOwn'
  <2>1. d.cmd \in Commands
    BY <1>0
  <2> QED
    BY <1>2, <1>3, <1>5, <2>1
<1>6. ASSUME NEW c \in Commands, NEW status, RowMoves(c, status), deliveries' = deliveries
      PROVE  ClaimsAreOwn'
  BY <1>2, <1>3, <1>6
<1>7. CASE RowsStay /\ (Rephased \/ \E d \in deliveries : deliveries' = deliveries \ {d})
  BY <1>2, <1>4, <1>7
<1> QED
  BY <1>1, <1>5, <1>6, <1>7 DEF QueueKinds

\* What the abstract queue sees.
stages == [c \in Commands |-> Stage(command[c])]
revisions == [c \in Commands |-> command[c].revision]
claims == {<<d.cmd, d.revision>> : d \in deliveries}

\* What each status of a row is to the abstract queue.
LEMMA Stages ==
  ASSUME NEW row
  PROVE  /\ row.status \in {"PENDING", "RETRY_WAIT"} => Stage(row) = "OPEN"
         /\ row.status = "CLAIMED" => Stage(row) = "CLAIMED"
         /\ row.status = "DELIVERED" => Stage(row) = "DELIVERED"
         /\ row.status = "FAILED" => Stage(row) = "FAILED"
         /\ row.status \in {"APPLIED", "SUPERSEDED"} => Stage(row) = "SETTLED"
  BY DEF Stage

\* A row that moves to another status advances to its stage.
LEMMA MoveAdvances ==
  ASSUME RootInv, NEW c \in Commands, NEW status, RowMoves(c, status), NEW stage,
         Stage(command'[c]) = stage
  PROVE  Queue!Advance(c, stage)
<1>1. \A e \in Commands \ {c} : /\ Stage(command'[e]) = Stage(command[e])
                                /\ command'[e].revision = command[e].revision
  BY DEF RowMoves, RowStays, Stage
<1>2. [e \in Commands |-> Stage(command'[e])]
        = [[e \in Commands |-> Stage(command[e])] EXCEPT ![c] = stage]
  BY <1>1
<1>3. command'[c].revision = command[c].revision + 1
  BY DEF RowMoves
<1>4. [e \in Commands |-> command'[e].revision]
        = [[e \in Commands |-> command[e].revision] EXCEPT ![c] = @ + 1]
  BY <1>1, <1>3
<1> QED
  BY <1>2, <1>4 DEF Queue!Advance

\* Rows that stay look the same to the abstract queue.
LEMMA StayMapped == RowsStay => stages' = stages /\ revisions' = revisions
<1> SUFFICES ASSUME RowsStay PROVE stages' = stages /\ revisions' = revisions
  OBVIOUS
<1>1. \A c \in Commands : /\ Stage(command'[c]) = Stage(command[c])
                          /\ command'[c].revision = command[c].revision
  BY DEF RowsStay, RowStays, Stage
<1> QED
  BY <1>1 DEF stages, revisions

\* A delivery that ends takes its own claim along.
LEMMA ClaimLeaves ==
  ASSUME ClaimsAreOwn, NEW d \in deliveries, deliveries' = deliveries \ {d}
  PROVE  claims' = claims \ {<<d.cmd, d.revision>>} /\ <<d.cmd, d.revision>> \in claims
  BY DEF ClaimsAreOwn, claims

\* Every step is one of the abstract queue, or changes nothing it sees.
LEMMA QueueStep ==
  ASSUME RootInv, ClaimsAreOwn, QueueKinds
  PROVE  Queue!CNext \/ UNCHANGED Queue!vars
<1>0. /\ command \in [Commands -> CommandRow]
      /\ \A d \in deliveries : d.cmd \in Commands
  BY DEF RootInv, RTypeOK, CTypeOK, Delivery
<1>1. ASSUME NEW c \in Commands, Claim(c) PROVE Queue!CNext
  <2> DEFINE n == [cmd |-> c, revision |-> command'[c].revision, attempts |-> command'[c].attempts,
                   phase |-> "CALL"]
  <2>1. RowMoves(c, "CLAIMED")
    BY <1>0, <1>1 DEF Claim, RowMoves, RowStays, CommandRow
  <2>2. Queue!Advance(c, "CLAIMED")
    BY <2>1, Stages, MoveAdvances DEF RowMoves
  <2>3. Stage(command[c]) \in {"OPEN", "CLAIMED"}
    BY <1>1, Stages DEF Claim, Claimable
  <2>4. deliveries' = deliveries \cup {n} /\ n.cmd = c /\ n.revision = command[c].revision + 1
    BY <1>1, <2>1 DEF Claim, RowMoves
  <2> HIDE DEF n
  <2>5. claims' = claims \cup {<<c, command[c].revision + 1>>}
    BY <2>4 DEF claims
  <2>6. Queue!Claim(c)
    BY <2>2, <2>3, <2>5 DEF Queue!Claim, claims
  <2> QED
    BY <2>6 DEF Queue!CNext
<1>2. ASSUME NEW d \in deliveries, NEW status \in {"DELIVERED", "RETRY_WAIT", "FAILED", "APPLIED"},
             OwnsClaim(d), RowMoves(d.cmd, status), deliveries' = deliveries \ {d}
      PROVE  Queue!CNext
  <2>1. PICK c \in Commands : c = d.cmd
    BY <1>0
  <2>2. RowMoves(c, status) /\ command[c].status = "CLAIMED" /\ command[c].revision = d.revision
    BY <1>2, <2>1 DEF OwnsClaim
  <2>3. PICK next \in {"OPEN", "DELIVERED", "FAILED", "SETTLED"} : Stage(command'[c]) = next
    BY <2>2, Stages DEF RowMoves
  <2>4. Queue!Advance(c, next)
    BY <2>2, <2>3, MoveAdvances
  <2>5. Stage(command[c]) = "CLAIMED"
    BY <2>2, Stages
  <2>6. claims' = claims \ {<<c, command[c].revision>>} /\ <<c, command[c].revision>> \in claims
    BY <1>2, <2>1, <2>2, ClaimLeaves
  <2>7. Queue!Decide(c)
    BY <2>4, <2>5, <2>6 DEF Queue!Decide, claims
  <2> QED
    BY <2>7 DEF Queue!CNext
<1>3. ASSUME NEW d \in deliveries, RowsStay, deliveries' = deliveries \ {d} PROVE Queue!CNext
  <2>1. claims' = claims \ {<<d.cmd, d.revision>>} /\ <<d.cmd, d.revision>> \in claims
    BY <1>3, ClaimLeaves
  <2>2. Queue!Abandon(<<d.cmd, d.revision>>)
    BY <1>3, <2>1, StayMapped DEF Queue!Abandon, claims, stages, revisions
  <2> QED
    BY <2>1, <2>2 DEF Queue!CNext, claims
<1>4. ASSUME NEW c \in Commands, NEW status \in {"APPLIED", "SUPERSEDED"},
             command[c].status \in Unresolved, RowMoves(c, status), deliveries' = deliveries
      PROVE  Queue!CNext
  <2>1. Stage(command'[c]) = "SETTLED"
    BY <1>4, Stages DEF RowMoves
  <2>2. Queue!Advance(c, "SETTLED")
    BY <1>4, <2>1, MoveAdvances
  <2>3. Stage(command[c]) \in {"OPEN", "CLAIMED", "DELIVERED"}
    BY <1>4, Stages DEF Unresolved
  <2>4. Queue!Settle(c)
    BY <1>4, <2>2, <2>3 DEF Queue!Settle
  <2> QED
    BY <2>4 DEF Queue!CNext
<1>5. ASSUME RowsStay, Rephased PROVE UNCHANGED Queue!vars
  <2>1. PICK g : /\ deliveries' = {g[d] : d \in deliveries}
                 /\ \A d \in deliveries : g[d].cmd = d.cmd /\ g[d].revision = d.revision
    BY <1>5 DEF Rephased
  <2>2. claims' = claims
    BY <2>1 DEF claims
  <2> QED
    BY <1>5, <2>2, StayMapped DEF Queue!vars, claims, stages, revisions
<1> QED
  BY <1>1, <1>2, <1>3, <1>4, <1>5 DEF QueueKinds

\* Dispatchers that lost their claims, acknowledgements of the root and a CANCEL
\* that supersedes what is open come in any order, and only the newest claim of a
\* command or the run itself decides it, once (TaskRunCommandService,
\* TaskIntentDispatcher, supersede_task_run_commands).
THEOREM CommandQueueRefines == RSpec => RefinesClaimedDelivery
<1>1. RInit => ClaimsAreOwn /\ Queue!CInit
  <2> SUFFICES ASSUME RInit PROVE ClaimsAreOwn /\ Queue!CInit
    OBVIOUS
  <2>1. deliveries = {} /\ \A c \in Commands : command[c].status = "PENDING" /\ command[c].revision = 0
    BY DEF RInit, CInit
  <2>2. \A c \in Commands : Stage(command[c]) = "OPEN"
    BY <2>1, Stages
  <2> QED
    BY <2>1, <2>2 DEF ClaimsAreOwn, Queue!CInit
<1>2. RootInv /\ RootInv' /\ ClaimsAreOwn /\ [RNext]_rootVars => ClaimsAreOwn'
  BY StepIsQueueKind, ClaimsStep DEF RootInv
<1>3. RootInv /\ ClaimsAreOwn /\ [RNext]_rootVars => [Queue!CNext]_Queue!vars
  BY StepIsQueueKind, QueueStep
<1> QED
  BY <1>1, <1>2, <1>3, RootInvHolds, PTL DEF RSpec, RefinesClaimedDelivery, Queue!CSpec

=============================================================================
