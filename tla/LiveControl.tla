---------------------------- MODULE LiveControl ----------------------------
(***************************************************************************)
(* Who controls the browser of a running unit attempt.  One live session     *)
(* per attempt names its controller through a control lease that lapses      *)
(* unless it is renewed: an agent, that is a worker, or a human.  Control is  *)
(* handed over by commands that a user requests and that the worker          *)
(* acknowledges at a safe point; each handover, and each lease that lapses,  *)
(* raises the epoch of the session.  Whoever is in control acts through      *)
(* grants: one is issued for an action, consumed before its effect on the    *)
(* browser and completed with the receipt of it.                             *)
(*                                                                         *)
(* Every operation is one transaction that locks the row of the session.     *)
(* The fencing token moves with the epoch and is left out, as are the        *)
(* events, the answers, and the replays, which change nothing.  A worker may  *)
(* stop between any two of its operations and another may come.              *)
(***************************************************************************)
EXTENDS Naturals, FiniteSets

CONSTANTS
  Workers,       \* worker identities
  Actions,       \* action ids
  IsProduction,  \* whether the environment is a production environment
  MaxEpoch,      \* bound on the control epoch
  MaxPage        \* bound on the revision of the page in the browser

ASSUME LiveControlAssumption ==
  /\ "HUMAN" \notin Workers
  /\ IsProduction \in BOOLEAN
  /\ {MaxEpoch, MaxPage} \subseteq Nat \ {0}

VARIABLES
  session,   \* live_session
  lease,     \* the current control_lease, ACTIVE or REVOKING, if any
  command,   \* the pending live_control_command, if any
  grant,     \* live_action_grant of each action
  browser,   \* revision of the page in the browser
  ending,    \* what the attempt has ended with, if it has
  deadline   \* whether its execution_deadline has passed

vars == <<session, lease, command, grant, browser, ending, deadline>>

States == {"NONE", "AGENT_CONTROLLED", "QUIESCING", "PAUSED", "RESUME_REQUESTED",
           "HUMAN_CONTROLLED", "RECONCILING", "NO_CONTROLLER"}
Owners == Workers \cup {"HUMAN"}
Commands == {"PAUSE", "RESUME", "TAKEOVER", "RETURN"}
Epochs == 1..MaxEpoch

Sessions == [state : States, epoch : Epochs, page : 1..MaxPage, human : BOOLEAN]

NoLease == [state |-> "NONE"]
Leases == [state : {"ACTIVE", "REVOKING"}, owner : Owners, epoch : Epochs, lapsed : BOOLEAN]
NewLease(owner, epoch) ==
  [state |-> "ACTIVE", owner |-> owner, epoch |-> epoch, lapsed |-> FALSE]

NoCommand == [type |-> "NONE"]
PendingCommands == [type : Commands, epoch : Epochs]

\* receipt is the revision of the page after the effect, 0 before it.
Grants == [state : {"ISSUED", "CONSUMED", "COMPLETED", "REVOKED"}, owner : Owners,
           epoch : Epochs, page : 1..MaxPage, receipt : 0..MaxPage]
NoGrant == [state |-> "NONE", owner |-> "NONE"]

Init ==
  /\ session = [state |-> "NONE", epoch |-> 1, page |-> 1, human |-> FALSE]
  /\ lease = NoLease
  /\ command = NoCommand
  /\ grant = [a \in Actions |-> NoGrant]
  /\ browser = 1
  /\ ending = "RUNNING"
  /\ deadline = FALSE

Controlled == {"AGENT_CONTROLLED", "HUMAN_CONTROLLED"}
HasLease == lease # NoLease
IsHeld == HasLease /\ lease.state = "ACTIVE" /\ ~ lease.lapsed /\ lease.epoch = session.epoch
InFlight == {a \in Actions : grant[a].state = "CONSUMED"}

\* Every grant that is not consumed yet is revoked.
Revoked == [a \in Actions |-> IF grant[a].state = "ISSUED"
                              THEN [grant[a] EXCEPT !.state = "REVOKED"] ELSE grant[a]]

-----------------------------------------------------------------------------
(* The session and its lease *)

\* initialize: the first worker of a running attempt; later ones are told so.
Initialize(w) ==
  /\ session.state = "NONE"
  /\ ending = "RUNNING" /\ ~ deadline
  /\ session' = [session EXCEPT !.state = "AGENT_CONTROLLED", !.page = browser]
  /\ lease' = NewLease(w, session.epoch)
  /\ UNCHANGED <<command, grant, browser, ending, deadline>>

\* A lease that is not renewed in time; a heartbeat renews one of an agent and
\* changes nothing that is kept here.
Lapse ==
  /\ HasLease /\ ~ lease.lapsed
  /\ lease' = [lease EXCEPT !.lapsed = TRUE]
  /\ UNCHANGED <<session, command, grant, browser, ending, deadline>>

\* expire_current_control: what is issued is revoked, what is consumed is not.
Expire ==
  /\ HasLease /\ lease.lapsed /\ lease.epoch = session.epoch
  /\ session.epoch < MaxEpoch
  /\ lease' = NoLease
  /\ grant' = Revoked
  /\ command' = NoCommand
  /\ session' = [session EXCEPT !.state = "NO_CONTROLLER", !.epoch = @ + 1]
  /\ UNCHANGED <<browser, ending, deadline>>

\* mutant: a handover under way is left to the worker
ClaimableIfControlled == HasLease /\ lease.lapsed /\ session.state \in Controlled

\* claim_expired_session_ids
Claimable ==
  HasLease /\ lease.lapsed /\ session.state \in Controlled \cup {"QUIESCING", "RECONCILING"}

Reap == Claimable /\ Expire

\* A heartbeat that finds its own lease lapsed.
HeartbeatTooLate(w) ==
  /\ session.state = "AGENT_CONTROLLED"
  /\ HasLease /\ lease.state = "ACTIVE" /\ lease.owner = w
  /\ Expire

-----------------------------------------------------------------------------
(* Commands *)

\* _validate_transition
Applies(type) ==
  /\ session.state = CASE type \in {"PAUSE", "TAKEOVER"} -> "AGENT_CONTROLLED"
                       [] type = "RESUME"                -> "PAUSED"
                       [] type = "RETURN"                -> "HUMAN_CONTROLLED"
  /\ type # "RESUME" => IsHeld
  /\ type \in {"PAUSE", "TAKEOVER"} => lease.owner # "HUMAN"
  /\ type = "RETURN" => lease.owner = "HUMAN"
  /\ type = "TAKEOVER" => ~ IsProduction

RequestedState(type) ==
  CASE type \in {"PAUSE", "TAKEOVER"} -> "QUIESCING"
    [] type = "RESUME"                -> "RESUME_REQUESTED"
    [] type = "RETURN"                -> "RECONCILING"

\* request_transition: the controller gets no more grants and keeps the lease.
RevokeControl ==
  /\ lease' = [lease EXCEPT !.state = "REVOKING"]
  /\ grant' = Revoked

\* _request_transition, of a client that knows the current epoch.
RequestTransition(type) ==
  /\ session.state # "NONE"
  /\ command = NoCommand
  /\ Applies(type)
  /\ command' = [type |-> type, epoch |-> session.epoch]
  /\ session' = [session EXCEPT !.state = RequestedState(type)]
  /\ IF type = "RESUME" THEN UNCHANGED <<lease, grant>> ELSE RevokeControl
  /\ UNCHANGED <<browser, ending, deadline>>

\* mutant: the worker is believed when it says that it is at a safe point
SafePointAlways == TRUE

\* has_inflight_action: nothing consumed is still without its receipt.
SafePoint == InFlight = {}

\* The state, and the controller, after a command has been applied.
AckState(type) ==
  CASE type = "PAUSE" -> "PAUSED" [] type = "TAKEOVER" -> "HUMAN_CONTROLLED"
    [] OTHER          -> "AGENT_CONTROLLED"

\* mutant: control is human while a human has it
InfluencedNow(type) == type = "TAKEOVER"

\* Once a human has taken over, the session is influenced for good.
Influenced(type) == session.human \/ type = "TAKEOVER"

\* apply_transition: the old lease is released, lapsed or not.
HandOver(w) ==
  /\ session' = [state |-> AckState(command.type), epoch |-> session.epoch + 1,
                 page |-> browser, human |-> Influenced(command.type)]
  /\ lease' = CASE command.type = "PAUSE"    -> NoLease
                [] command.type = "TAKEOVER" -> NewLease("HUMAN", session.epoch + 1)
                [] OTHER                     -> NewLease(w, session.epoch + 1)
  /\ command' = NoCommand

\* acknowledge: the worker has come to a safe point and tells the page it is on.
Acknowledge(w) ==
  /\ command # NoCommand /\ command.epoch = session.epoch
  /\ browser >= session.page
  /\ SafePoint
  /\ command.type # "PAUSE" => ~ deadline
  /\ session.epoch < MaxEpoch
  /\ HandOver(w)
  /\ UNCHANGED <<grant, browser, ending, deadline>>

-----------------------------------------------------------------------------
(* Actions *)

\* A grant is bound to its controller, to the epoch and to the page.
NewGrant == [state |-> "ISSUED", owner |-> lease.owner, epoch |-> session.epoch,
             page |-> session.page, receipt |-> 0]

\* issue_action_grant: for a proposal made of the current page.  A worker also
\* asks on behalf of the human in control.
IssueGrant(w, a) ==
  /\ grant[a] = NoGrant
  /\ session.state \in Controlled
  /\ IsHeld
  /\ lease.owner \in {w, "HUMAN"}
  /\ grant' = [grant EXCEPT ![a] = NewGrant]
  /\ UNCHANGED <<session, lease, command, browser, ending, deadline>>

\* The rows that the update joins; the page is not looked at.
Consumable(a) ==
  /\ grant[a].state = "ISSUED"
  /\ session.state \in Controlled
  /\ IsHeld
  /\ grant[a].epoch = session.epoch

\* consume_action_grant, once, before the effect.
Consume(a) ==
  /\ Consumable(a)
  /\ grant' = [grant EXCEPT ![a].state = "CONSUMED"]
  /\ UNCHANGED <<session, lease, command, browser, ending, deadline>>

\* The effect of an action on the page, some time after it was consumed.
Act(a) ==
  /\ grant[a].state = "CONSUMED" /\ grant[a].receipt = 0
  /\ browser < MaxPage
  /\ browser' = browser + 1
  /\ grant' = [grant EXCEPT ![a].receipt = browser + 1]
  /\ UNCHANGED <<session, lease, command, ending, deadline>>

\* complete_action_grant, in any state of the session; a receipt that is behind
\* the page of the session is refused.
Complete(a) ==
  /\ grant[a].state = "CONSUMED" /\ grant[a].receipt # 0
  /\ grant[a].receipt >= session.page
  /\ session' = [session EXCEPT !.page = grant[a].receipt]
  /\ grant' = [grant EXCEPT ![a].state = "COMPLETED"]
  /\ UNCHANGED <<lease, command, browser, ending, deadline>>

-----------------------------------------------------------------------------
(* The attempt *)

\* No lease outlives the deadline of the attempt.
DeadlineComes ==
  /\ ~ deadline /\ deadline' = TRUE
  /\ lease' = IF HasLease THEN [lease EXCEPT !.lapsed = TRUE] ELSE lease
  /\ UNCHANGED <<session, command, grant, browser, ending>>

\* guard_live_control_result_influence
InfluenceHolds(influence) == influence = "AUTONOMOUS" => ~ session.human

\* The seal of the attempt states who has acted; the session goes on.
Seal(influence) ==
  /\ ending = "RUNNING"
  /\ InfluenceHolds(influence)
  /\ ending' = influence
  /\ UNCHANGED <<session, lease, command, grant, browser, deadline>>

-----------------------------------------------------------------------------
Next ==
  \/ \E w \in Workers : Initialize(w) \/ HeartbeatTooLate(w) \/ Acknowledge(w)
  \/ \E w \in Workers, a \in Actions : IssueGrant(w, a)
  \/ \E type \in Commands : RequestTransition(type)
  \/ \E a \in Actions : Consume(a) \/ Act(a) \/ Complete(a)
  \/ \E influence \in {"AUTONOMOUS", "MANUAL_ASSISTED"} : Seal(influence)
  \/ Lapse \/ Reap \/ DeadlineComes

\* Time passes, and somebody calls the reaper again and again; nothing is assumed
\* of workers and users.
Spec == Init /\ [][Next]_vars /\ WF_vars(Lapse) /\ WF_vars(Reap)

-----------------------------------------------------------------------------
(* Properties *)

\* While an action may still have its effect on the browser nobody else is in
\* control: its owner still holds the lease, or is handing it over, or the lease
\* has lapsed and nobody ever gets it again.  An action granted under one epoch
\* never has its effect under the controller of another.
OneActorAtATime ==
  \A a \in InFlight :
    \/ session.state = "NO_CONTROLLER"
    \/ HasLease /\ lease.owner = grant[a].owner /\ lease.epoch = grant[a].epoch

TypeOK ==
  /\ session \in Sessions
  /\ lease \in Leases \cup {NoLease}
  /\ command \in PendingCommands \cup {NoCommand}
  /\ grant \in [Actions -> Grants \cup {NoGrant}]
  /\ browser \in 1..MaxPage
  /\ ending \in {"RUNNING", "AUTONOMOUS", "MANUAL_ASSISTED"} /\ deadline \in BOOLEAN

\* What the state of the session says of its lease and its command.
RowsAgree ==
  /\ HasLease => lease.epoch = session.epoch
  /\ (session.state \in Controlled) <=> (HasLease /\ lease.state = "ACTIVE")
  /\ (session.state \in {"QUIESCING", "RECONCILING"}) <=> (HasLease /\ lease.state = "REVOKING")
  /\ (command # NoCommand) <=> (session.state \in {"QUIESCING", "RECONCILING", "RESUME_REQUESTED"})
  /\ command # NoCommand => command.epoch = session.epoch

\* What is known of the page is behind the page.
PagesAreSeen ==
  /\ session.page <= browser
  /\ \A a \in Actions : grant[a] # NoGrant => grant[a].receipt <= browser

\* A grant that can still be consumed is the controller's.
IssuedToController ==
  \A a \in Actions : grant[a].state = "ISSUED" =>
    /\ session.state \in Controlled
    /\ grant[a].epoch = session.epoch /\ grant[a].owner = lease.owner

\* The session remembers that a human was in control, or was granted anything.
HumanIsRemembered ==
  /\ HasLease /\ lease.owner = "HUMAN" => session.human
  /\ \A a \in Actions : grant[a].owner = "HUMAN" => session.human

\* Whoever changes one of the four rows changes the others with it, and nobody
\* acts in the browser under the control of another.
LcInv ==
  /\ TypeOK /\ RowsAgree /\ PagesAreSeen /\ IssuedToController /\ HumanIsRemembered
  /\ OneActorAtATime

\* An attempt is not sealed as autonomous once a human has acted in its browser.
\* What the human does after the seal is not looked at by anyone.
HumanWorkIsCounted ==
  [][ ending # "AUTONOMOUS" /\ ending' = "AUTONOMOUS" =>
        \A a \in Actions : grant[a].owner = "HUMAN" =>
          grant[a].state \notin {"CONSUMED", "COMPLETED"} ]_vars

\* A command to pause, to take over or to return comes to its end even if the
\* worker is gone or an action of it never has its receipt: the lease that is
\* being revoked cannot be renewed.  A command to resume has no lease to lapse.
HandoverEnds ==
  (command.type \in {"PAUSE", "TAKEOVER", "RETURN"} /\ session.epoch < MaxEpoch)
    ~> command = NoCommand

=============================================================================
