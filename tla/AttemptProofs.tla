---------------------------- MODULE AttemptProofs ----------------------------
(***************************************************************************)
(* Proofs about what happens under an attempt of a unit, for any units,     *)
(* retries, workers, actions and faults.                                    *)
(*                                                                         *)
(* LiveControl: one actor at a time controls the browser of an attempt, and *)
(* no human work is sealed as autonomous.                                   *)
(*                                                                         *)
(* TaskUnit: an attempt is not tried again while an executor may be at it,  *)
(* the rows of units follow their attempts, the retries keep to the run's   *)
(* budget, a run closes complete, and late writers change nothing. At last,  *)
(* the root of a run fails only if something outside of it went wrong.       *)
(***************************************************************************)
EXTENDS LiveControl, TaskUnit, FiniteSetTheorems, SequenceTheorems, TLAPS

-----------------------------------------------------------------------------
(* Live control *)

GrantRows == [Actions -> Grants \cup {NoGrant}]

\* The parts of the invariant are about the rows alone.
LEMMA PartsGiveInv ==
  ASSUME TypeOK', RowsAgree', PagesAreSeen', IssuedToController', HumanIsRemembered',
         OneActorAtATime'
  PROVE  LcInv'
  BY DEF LcInv

\* Before the session is opened there is no lease, no command and no grant.
LEMMA InitInv == Init => LcInv
<1> SUFFICES ASSUME Init PROVE LcInv
  OBVIOUS
<1>1. 1 \in Epochs /\ 1 \in 1..MaxPage
  BY LiveControlAssumption DEF Epochs
<1>2. session \in Sessions /\ session.page = 1 /\ browser = 1
  BY <1>1 DEF Init, Sessions, States
<1>3. lease = NoLease /\ command = NoCommand /\ session.state = "NONE"
  BY DEF Init
<1>4. \A a \in Actions : grant[a] = NoGrant
  BY DEF Init
<1>5. NoGrant.state = "NONE" /\ NoGrant.owner = "NONE"
  BY DEF NoGrant
<1>6. TypeOK
  BY <1>1, <1>2, <1>3 DEF Init, TypeOK
<1>7. RowsAgree
  BY <1>3 DEF RowsAgree, HasLease, Controlled
<1>8. IssuedToController /\ HumanIsRemembered /\ OneActorAtATime
  BY <1>3, <1>4, <1>5 DEF IssuedToController, HumanIsRemembered, OneActorAtATime, InFlight, HasLease
<1>9. PagesAreSeen
  BY <1>2, <1>4 DEF PagesAreSeen
<1> QED
  BY <1>6, <1>7, <1>8, <1>9 DEF LcInv

\* Within the bound the epoch of a session can be raised.
LEMMA NextEpoch ==
  ASSUME session \in Sessions, session.epoch < MaxEpoch
  PROVE  session.epoch + 1 \in Epochs
<1>1. session.epoch \in 1..MaxEpoch /\ MaxEpoch \in Nat
  BY LiveControlAssumption DEF Sessions, Epochs
<1> QED
  BY <1>1 DEF Epochs

\* Revoking takes what is issued and leaves what is consumed to its owner.
LEMMA RevokedGrants ==
  ASSUME grant \in GrantRows
  PROVE  /\ Revoked \in GrantRows
         /\ \A a \in Actions :
              /\ Revoked[a].state # "ISSUED"
              /\ Revoked[a].owner = grant[a].owner
              /\ Revoked[a].state = "CONSUMED" => Revoked[a] = grant[a]
              /\ Revoked[a] # NoGrant => grant[a] # NoGrant /\ Revoked[a].receipt = grant[a].receipt
<1> SUFFICES ASSUME NEW a \in Actions
             PROVE  /\ Revoked[a] \in Grants \cup {NoGrant}
                    /\ Revoked[a].state # "ISSUED"
                    /\ Revoked[a].owner = grant[a].owner
                    /\ Revoked[a].state = "CONSUMED" => Revoked[a] = grant[a]
                    /\ Revoked[a] # NoGrant => grant[a] # NoGrant /\ Revoked[a].receipt = grant[a].receipt
  BY DEF GrantRows, Revoked
<1> DEFINE row == grant[a]
<1>1. row \in Grants \/ row = NoGrant
  BY DEF GrantRows
<1>2. CASE row.state = "ISSUED"
  <2>1. row \in Grants
    BY <1>1, <1>2 DEF NoGrant
  <2>2. Revoked[a] = [row EXCEPT !.state = "REVOKED"]
    BY <1>2 DEF Revoked
  <2> QED
    BY <1>2, <2>1, <2>2 DEF Grants, NoGrant
<1>3. CASE row.state # "ISSUED"
  <2>1. Revoked[a] = row
    BY <1>3 DEF Revoked
  <2> QED
    BY <1>1, <1>3, <2>1
<1> QED
  BY <1>2, <1>3

\* A session whose lease has lapsed loses its controller for good.
LEMMA ExpireKeeps == LcInv /\ Expire => LcInv'
<1> SUFFICES ASSUME LcInv, Expire PROVE LcInv'
  OBVIOUS
<1>1. /\ session' = [session EXCEPT !.state = "NO_CONTROLLER", !.epoch = @ + 1]
      /\ lease' = NoLease /\ command' = NoCommand /\ grant' = Revoked
      /\ session.epoch < MaxEpoch /\ UNCHANGED <<browser, ending, deadline>>
  BY DEF Expire
<1>2. session \in Sessions /\ grant \in GrantRows
  BY DEF LcInv, TypeOK, GrantRows
<1>3. /\ session' \in Sessions /\ session'.state = "NO_CONTROLLER"
      /\ session'.page = session.page /\ session'.human = session.human
  <2>1. session.epoch + 1 \in Epochs
    BY <1>1, <1>2, NextEpoch
  <2> QED
    BY <1>1, <1>2, <2>1 DEF Sessions, States
<1>4. TypeOK'
  BY <1>1, <1>2, <1>3, RevokedGrants DEF LcInv, TypeOK, GrantRows
<1>5. RowsAgree'
  BY <1>1, <1>3 DEF RowsAgree, HasLease, Controlled
<1>6. IssuedToController' /\ OneActorAtATime'
  BY <1>1, <1>2, <1>3, RevokedGrants DEF IssuedToController, OneActorAtATime, InFlight
<1>7. HumanIsRemembered'
  BY <1>1, <1>2, <1>3, RevokedGrants DEF LcInv, HumanIsRemembered, HasLease
<1>8. PagesAreSeen'
  BY <1>1, <1>2, <1>3, RevokedGrants DEF LcInv, PagesAreSeen
<1> QED
  BY <1>4, <1>5, <1>6, <1>7, <1>8, PartsGiveInv

\* The first lease of a session finds nothing in flight.
LEMMA InitializeKeeps ==
  ASSUME LcInv, NEW w \in Workers, Initialize(w)
  PROVE  LcInv'
<1>1. /\ session' = [session EXCEPT !.state = "AGENT_CONTROLLED", !.page = browser]
      /\ lease' = NewLease(w, session.epoch) /\ session.state = "NONE"
      /\ UNCHANGED <<command, grant, browser, ending, deadline>>
  BY DEF Initialize
<1>2. session \in Sessions /\ browser \in 1..MaxPage
  BY DEF LcInv, TypeOK
<1>3. /\ session' \in Sessions /\ session'.state = "AGENT_CONTROLLED" /\ session'.page = browser
      /\ session'.epoch = session.epoch /\ session'.human = session.human
  BY <1>1, <1>2 DEF Sessions, States
<1>4. /\ lease' \in Leases /\ lease' # NoLease /\ lease'.state = "ACTIVE"
      /\ lease'.epoch = session.epoch /\ lease'.owner # "HUMAN"
  BY <1>1, <1>2, LiveControlAssumption DEF NewLease, Leases, Sessions, Owners, NoLease
<1>5. ~ HasLease /\ command = NoCommand
  BY <1>1 DEF LcInv, TypeOK, RowsAgree, HasLease, Controlled, Leases
<1>6. TypeOK'
  BY <1>1, <1>2, <1>3, <1>4 DEF LcInv, TypeOK, Sessions
<1>7. RowsAgree'
  BY <1>1, <1>3, <1>4, <1>5 DEF RowsAgree, HasLease, Controlled
<1>8. \A a \in Actions : grant[a].state \notin {"ISSUED", "CONSUMED"}
  BY <1>1, <1>5 DEF LcInv, IssuedToController, OneActorAtATime, InFlight, Controlled
<1>9. IssuedToController' /\ OneActorAtATime'
  BY <1>1, <1>8 DEF IssuedToController, OneActorAtATime, InFlight
<1>10. HumanIsRemembered'
  BY <1>1, <1>3, <1>4 DEF LcInv, HumanIsRemembered
<1>11. PagesAreSeen'
  BY <1>1, <1>2, <1>3 DEF LcInv, PagesAreSeen
<1> QED
  BY <1>6, <1>7, <1>9, <1>10, <1>11, PartsGiveInv

\* Control is handed over at a safe point: nothing is in flight, and what was
\* issued was revoked with the request.
LEMMA AcknowledgeKeeps ==
  ASSUME LcInv, NEW w \in Workers, Acknowledge(w)
  PROVE  LcInv'
<1>1. /\ command # NoCommand /\ InFlight = {} /\ session.epoch < MaxEpoch
      /\ HandOver(w) /\ UNCHANGED <<grant, browser, ending, deadline>>
  BY DEF Acknowledge, SafePoint
<1> DEFINE type == command.type
<1>2. session \in Sessions /\ browser \in 1..MaxPage /\ type \in Commands
  BY <1>1 DEF LcInv, TypeOK, PendingCommands
<1>3. AckState(type) \in {"PAUSED", "HUMAN_CONTROLLED", "AGENT_CONTROLLED"}
  BY DEF AckState
<1>4. session' = [state |-> AckState(type), epoch |-> session.epoch + 1,
                  page |-> browser, human |-> session.human \/ type = "TAKEOVER"]
  BY <1>1 DEF HandOver, Influenced
<1>5. session' \in Sessions /\ session'.epoch = session.epoch + 1 /\ session'.page = browser
  <2>1. session.epoch + 1 \in Epochs
    BY <1>1, <1>2, NextEpoch
  <2>2. (session.human \/ type = "TAKEOVER") \in BOOLEAN
    OBVIOUS
  <2> QED
    BY <1>2, <1>3, <1>4, <2>1, <2>2 DEF Sessions, States
<1>6. /\ type = "PAUSE" => lease' = NoLease
      /\ type = "TAKEOVER" => lease' = NewLease("HUMAN", session.epoch + 1)
      /\ type \notin {"PAUSE", "TAKEOVER"} => lease' = NewLease(w, session.epoch + 1)
  BY <1>1 DEF HandOver
<1>7. command' = NoCommand
  BY <1>1 DEF HandOver
<1>8. session.epoch + 1 \in Epochs
  BY <1>1, <1>2, NextEpoch
<1>9. ASSUME NEW owner \in Owners
      PROVE  /\ NewLease(owner, session.epoch + 1) \in Leases
             /\ NewLease(owner, session.epoch + 1) # NoLease
             /\ NewLease(owner, session.epoch + 1).state = "ACTIVE"
             /\ NewLease(owner, session.epoch + 1).epoch = session.epoch + 1
             /\ NewLease(owner, session.epoch + 1).owner = owner
  BY <1>8 DEF NewLease, Leases, NoLease
<1>10. w \in Owners /\ "HUMAN" \in Owners /\ w # "HUMAN"
  BY LiveControlAssumption DEF Owners
<1>11. TypeOK'
  <2>1. lease' \in Leases \cup {NoLease}
    BY <1>6, <1>9, <1>10
  <2> QED
    BY <1>1, <1>2, <1>5, <1>7, <2>1 DEF LcInv, TypeOK, Sessions
<1>12. RowsAgree'
  <2>1. CASE type = "PAUSE"
    BY <2>1, <1>4, <1>6, <1>7 DEF RowsAgree, HasLease, Controlled, AckState
  <2>2. CASE type = "TAKEOVER"
    BY <2>2, <1>4, <1>6, <1>7, <1>9, <1>10 DEF RowsAgree, HasLease, Controlled, AckState
  <2>3. CASE type \notin {"PAUSE", "TAKEOVER"}
    BY <2>3, <1>4, <1>6, <1>7, <1>9, <1>10 DEF RowsAgree, HasLease, Controlled, AckState
  <2> QED
    BY <2>1, <2>2, <2>3
<1>13. IssuedToController' /\ OneActorAtATime'
  <2>1. \A a \in Actions : grant[a].state # "ISSUED"
    BY <1>1 DEF LcInv, RowsAgree, IssuedToController, Controlled
  <2> QED
    BY <1>1, <2>1 DEF IssuedToController, OneActorAtATime, InFlight
<1>14. HumanIsRemembered'
  BY <1>1, <1>4, <1>6, <1>9, <1>10 DEF LcInv, HumanIsRemembered, HasLease
<1>15. PagesAreSeen'
  BY <1>1, <1>2, <1>5 DEF LcInv, PagesAreSeen
<1> QED
  BY <1>11, <1>12, <1>13, <1>14, <1>15, PartsGiveInv

\* A receipt moves the page of the session, and ends what was in flight.
LEMMA CompleteKeeps ==
  ASSUME LcInv, NEW a \in Actions, Complete(a)
  PROVE  LcInv'
<1>1. /\ grant[a].state = "CONSUMED" /\ grant[a].receipt >= session.page
      /\ session' = [session EXCEPT !.page = grant[a].receipt]
      /\ grant' = [grant EXCEPT ![a].state = "COMPLETED"]
      /\ UNCHANGED <<lease, command, browser, ending, deadline>>
  BY DEF Complete
<1>2. session \in Sessions /\ grant \in GrantRows /\ grant[a] \in Grants
  BY <1>1 DEF LcInv, TypeOK, GrantRows, NoGrant
<1>3. grant[a].receipt \in 1..MaxPage /\ grant[a].receipt <= browser
  <2>1. grant[a].receipt <= browser
    BY <1>2 DEF LcInv, PagesAreSeen, Grants, NoGrant
  <2>2. grant[a].receipt # 0
    BY DEF Complete
  <2> QED
    BY <1>2, <2>1, <2>2, LiveControlAssumption DEF Grants
<1>4. /\ session' \in Sessions /\ session'.state = session.state
      /\ session'.epoch = session.epoch /\ session'.human = session.human
      /\ session'.page = grant[a].receipt
  BY <1>1, <1>2, <1>3 DEF Sessions
<1>5. /\ grant' \in GrantRows
      /\ \A b \in Actions : /\ grant'[b].owner = grant[b].owner
                            /\ grant'[b].state \in {"ISSUED", "CONSUMED"} => grant'[b] = grant[b]
                            /\ grant'[b] # NoGrant => /\ grant[b] # NoGrant
                                                      /\ grant'[b].receipt = grant[b].receipt
  <2>1. [grant[a] EXCEPT !.state = "COMPLETED"] \in Grants
    BY <1>2 DEF Grants
  <2>2. grant[a] # NoGrant
    BY <1>1 DEF NoGrant
  <2> QED
    BY <1>1, <1>2, <2>1, <2>2 DEF GrantRows, Grants
<1>6. TypeOK'
  BY <1>1, <1>4, <1>5 DEF LcInv, TypeOK, GrantRows
<1>7. RowsAgree'
  BY <1>1, <1>4 DEF LcInv, RowsAgree, HasLease
<1>8. PagesAreSeen'
  BY <1>1, <1>3, <1>4, <1>5 DEF LcInv, PagesAreSeen
<1>9. IssuedToController' /\ OneActorAtATime'
  BY <1>1, <1>4, <1>5 DEF LcInv, IssuedToController, OneActorAtATime, InFlight, HasLease
<1>10. HumanIsRemembered'
  BY <1>1, <1>4, <1>5 DEF LcInv, HumanIsRemembered, HasLease
<1> QED
  BY <1>6, <1>7, <1>8, <1>9, <1>10, PartsGiveInv

\* A request leaves the lease to its owner and takes back what was only issued.
LEMMA RequestKeeps ==
  ASSUME LcInv, NEW type \in Commands, RequestTransition(type)
  PROVE  LcInv'
<1>1. /\ command = NoCommand /\ Applies(type)
      /\ command' = [type |-> type, epoch |-> session.epoch]
      /\ session' = [session EXCEPT !.state = RequestedState(type)]
      /\ UNCHANGED <<browser, ending, deadline>>
  BY DEF RequestTransition
<1>2. session \in Sessions /\ grant \in GrantRows /\ lease \in Leases \cup {NoLease}
  BY DEF LcInv, TypeOK, GrantRows
<1>3. RequestedState(type) \in {"QUIESCING", "RESUME_REQUESTED", "RECONCILING"}
  BY DEF RequestedState, Commands
<1>4. /\ session' \in Sessions /\ session'.state = RequestedState(type)
      /\ session'.epoch = session.epoch /\ session'.human = session.human
      /\ session'.page = session.page
  BY <1>1, <1>2, <1>3 DEF Sessions, States
<1>5. command' \in PendingCommands /\ command' # NoCommand /\ command'.epoch = session.epoch
  BY <1>1, <1>2 DEF PendingCommands, Sessions, NoCommand
<1>6. CASE type = "RESUME"
  <2>1. UNCHANGED <<lease, grant>> /\ session.state = "PAUSED"
    BY <1>1, <1>6 DEF RequestTransition, Applies
  <2>2. RequestedState(type) = "RESUME_REQUESTED"
    BY <1>6 DEF RequestedState
  <2>3. TypeOK'
    BY <1>1, <1>4, <1>5, <2>1 DEF LcInv, TypeOK
  <2>4. RowsAgree'
    BY <1>4, <1>5, <2>1, <2>2 DEF LcInv, RowsAgree, HasLease, Controlled
  <2>5. IssuedToController' /\ OneActorAtATime'
    BY <1>4, <2>1, <2>2
       DEF LcInv, IssuedToController, OneActorAtATime, InFlight, HasLease, Controlled
  <2>6. HumanIsRemembered' /\ PagesAreSeen'
    BY <1>1, <1>4, <2>1 DEF LcInv, HumanIsRemembered, PagesAreSeen, HasLease
  <2> QED
    BY <2>3, <2>4, <2>5, <2>6, PartsGiveInv
<1>7. CASE type # "RESUME"
  <2>1. lease' = [lease EXCEPT !.state = "REVOKING"] /\ grant' = Revoked /\ HasLease
    BY <1>1, <1>7 DEF RequestTransition, RevokeControl, Applies, IsHeld
  <2>2. RequestedState(type) \in {"QUIESCING", "RECONCILING"}
    BY <1>7 DEF RequestedState, Commands
  <2>3. lease \in Leases
    BY <1>2, <2>1 DEF HasLease
  <2>4. /\ lease' \in Leases /\ lease' # NoLease /\ lease'.state = "REVOKING"
        /\ lease'.owner = lease.owner /\ lease'.epoch = lease.epoch
    BY <2>1, <2>3 DEF Leases, NoLease
  <2>5. TypeOK'
    BY <1>1, <1>2, <1>4, <1>5, <2>1, <2>4, RevokedGrants DEF LcInv, TypeOK, GrantRows
  <2>6. RowsAgree'
    BY <1>4, <1>5, <2>1, <2>2, <2>4 DEF LcInv, RowsAgree, HasLease, Controlled
  <2>7. IssuedToController' /\ OneActorAtATime'
    <3>1. session.state \in Controlled /\ lease.epoch = session.epoch
      BY <1>1, <1>7, <2>1 DEF Applies, Controlled, LcInv, RowsAgree, Commands
    <3> QED
      BY <1>2, <1>4, <2>1, <2>4, <3>1, RevokedGrants
         DEF LcInv, IssuedToController, OneActorAtATime, InFlight, HasLease, Controlled
  <2>8. HumanIsRemembered' /\ PagesAreSeen'
    BY <1>1, <1>2, <1>4, <2>1, <2>4, RevokedGrants
       DEF LcInv, HumanIsRemembered, PagesAreSeen, HasLease
  <2> QED
    BY <2>5, <2>6, <2>7, <2>8, PartsGiveInv
<1> QED
  BY <1>6, <1>7

\* The effect of an action moves the page of the browser, and its receipt with it.
LEMMA ActKeeps ==
  ASSUME LcInv, NEW a \in Actions, Act(a)
  PROVE  LcInv'
<1>1. /\ grant[a].state = "CONSUMED" /\ browser < MaxPage /\ browser' = browser + 1
      /\ grant' = [grant EXCEPT ![a].receipt = browser + 1]
      /\ UNCHANGED <<session, lease, command, ending, deadline>>
  BY DEF Act
<1>2. /\ session \in Sessions /\ grant \in GrantRows /\ grant[a] \in Grants
      /\ browser \in 1..MaxPage /\ MaxPage \in Nat
  BY <1>1, LiveControlAssumption DEF LcInv, TypeOK, GrantRows, NoGrant
<1>3. browser + 1 \in 1..MaxPage /\ browser + 1 \in 0..MaxPage
  BY <1>1, <1>2
<1>4. /\ grant' \in GrantRows
      /\ \A b \in Actions : /\ grant'[b].owner = grant[b].owner /\ grant'[b].state = grant[b].state
                            /\ b # a => grant'[b] = grant[b]
      /\ grant'[a].receipt = browser' /\ grant'[a].epoch = grant[a].epoch
  BY <1>1, <1>2, <1>3 DEF GrantRows, Grants
<1>5. TypeOK'
  BY <1>1, <1>3, <1>4 DEF LcInv, TypeOK, GrantRows
<1>6. RowsAgree' /\ HumanIsRemembered'
  BY <1>1, <1>4 DEF LcInv, RowsAgree, HumanIsRemembered, HasLease, Controlled
<1>7. IssuedToController' /\ OneActorAtATime'
  BY <1>1, <1>4 DEF LcInv, IssuedToController, OneActorAtATime, InFlight, HasLease
<1>8. PagesAreSeen'
  <2>1. session'.page <= browser'
    BY <1>1, <1>2 DEF LcInv, PagesAreSeen, Sessions
  <2>2. ASSUME NEW b \in Actions, grant'[b] # NoGrant PROVE grant'[b].receipt <= browser'
    <3>1. CASE b = a
      BY <1>1, <1>2, <1>4, <3>1
    <3>2. CASE b # a
      <4>1. grant'[b] = grant[b] /\ grant[b] \in Grants
        BY <1>2, <1>4, <2>2, <3>2 DEF GrantRows
      <4> QED
        BY <1>1, <1>2, <2>2, <4>1, LiveControlAssumption DEF LcInv, PagesAreSeen, Grants
    <3> QED
      BY <3>1, <3>2
  <2> QED
    BY <2>1, <2>2 DEF PagesAreSeen
<1> QED
  BY <1>5, <1>6, <1>7, <1>8, PartsGiveInv

\* Every step keeps the invariant.
LEMMA InvStep == LcInv /\ [Next]_vars => LcInv'
<1> SUFFICES ASSUME LcInv, [Next]_vars PROVE LcInv'
  OBVIOUS
<1> USE DEF LcInv, TypeOK, RowsAgree, PagesAreSeen, IssuedToController, HumanIsRemembered,
            OneActorAtATime, HasLease, InFlight
<1>1. ASSUME NEW w \in Workers, NEW a \in Actions, IssueGrant(w, a) PROVE LcInv'
  BY <1>1, LiveControlAssumption
     DEF IssueGrant, IsHeld, NewGrant, Controlled, Sessions, Leases, Grants, NoGrant, NoLease, Owners
<1>2. ASSUME NEW type \in Commands, RequestTransition(type) PROVE LcInv'
  BY <1>2, RequestKeeps
<1>3. ASSUME NEW a \in Actions, Consume(a) PROVE LcInv'
  BY <1>3 DEF Consume, Consumable, IsHeld, Controlled, Grants, NoGrant, Leases, NoLease
<1>4. ASSUME NEW a \in Actions, Act(a) PROVE LcInv'
  BY <1>4, ActKeeps
<1>5. CASE Lapse
  BY <1>5 DEF Lapse, Leases, NoLease
<1>6. CASE DeadlineComes
  BY <1>6 DEF DeadlineComes, Leases, NoLease
<1>7. ASSUME NEW influence \in {"AUTONOMOUS", "MANUAL_ASSISTED"}, Seal(influence) PROVE LcInv'
  BY <1>7 DEF Seal
<1>8. CASE UNCHANGED vars
  BY <1>8 DEF vars
<1> QED
  BY <1>1, <1>2, <1>3, <1>4, <1>5, <1>6, <1>7, <1>8,
     InitializeKeeps, AcknowledgeKeeps, CompleteKeeps, ExpireKeeps DEF Next, HeartbeatTooLate, Reap

\* Whoever changes the session, its lease, its command or a grant changes the
\* others with it, and nobody acts in the browser under the control of another.
THEOREM ControlCorrect == Spec => []LcInv
<1> QED
  BY InitInv, InvStep, PTL DEF Spec

\* The seal asks the session, which remembers: no attempt is sealed as
\* autonomous once a human has acted in its browser.
THEOREM HumanCounted == Spec => HumanWorkIsCounted
<1> DEFINE Counted ==
  ending # "AUTONOMOUS" /\ ending' = "AUTONOMOUS" =>
    \A a \in Actions : grant[a].owner = "HUMAN" => grant[a].state \notin {"CONSUMED", "COMPLETED"}
<1>1. LcInv /\ [Next]_vars => [Counted]_vars
  <2> SUFFICES ASSUME LcInv, Next, ending # "AUTONOMOUS", ending' = "AUTONOMOUS",
                      NEW a \in Actions, grant[a].owner = "HUMAN"
               PROVE  FALSE
    BY DEF vars
  <2>1. \E influence \in {"AUTONOMOUS", "MANUAL_ASSISTED"} : Seal(influence)
    BY DEF Next, Initialize, HeartbeatTooLate, Acknowledge, IssueGrant, RequestTransition, Consume,
           Act, Complete, Lapse, Reap, DeadlineComes, Expire
  <2>2. InfluenceHolds("AUTONOMOUS")
    BY <2>1 DEF Seal
  <2> QED
    BY <2>2 DEF InfluenceHolds, LcInv, HumanIsRemembered
<1> QED
  BY <1>1, ControlCorrect, PTL DEF Spec, HumanWorkIsCounted

-----------------------------------------------------------------------------
(* The units of a run: what the invariant is made of *)

\* An outcome the root was told, or supposes, about an attempt of unit u.
Stands(u, o) ==
  /\ o \in Outcome
  /\ o.number <= Latest(u)
  /\ \/ o.by = "ROOT" /\ o.quality = "INCONCLUSIVE"
     \/ attempt[u][o.number].state = "CLOSED" /\ Agrees(attempt[u][o.number], o)

\* What holds of the rows of a unit.
RowsFit(u) ==
  /\ StateValid(unit[u])
  /\ unit[u].state = "CLOSED" => unit[u].quality = LatestAttempt(u).quality
  /\ \A n \in 1..Latest(u) :
       /\ StateValid(attempt[u][n])
       /\ n < Latest(u) => attempt[u][n].quality = "INFRA_ERROR"
       /\ attempt[u][n].quality = "PASSED" => attempt[u][n].by = "SEAL"
       /\ attempt[u][n].state = "CLOSED" => attempt[u][n].by # NoOne
       /\ attempt[u][n].state = "RUNNING" => unit[u].state # "QUEUED"
       /\ attempt[u][n].quality = "INFRA_ERROR" =>
            unit[u].state # "QUEUED" /\ <<u, n>> \notin working

\* What holds of the child and the executors of a unit.
ChildFits(u) ==
  /\ \A n \in Numbers : <<u, n>> \in working => n = Latest(u) /\ unit[u].state # "QUEUED"
  /\ child[u].execution # "PASSED"
  /\ child[u].at = "FINISH" => child[u].execution # "PENDING"
  /\ child[u].at = "FINISH" /\ child[u].execution = "INFRA_ERROR" =>
       unit[u].state # "QUEUED" /\ <<u, Latest(u)>> \notin working
  /\ child[u].at = "DONE" => Stands(u, child[u].answer)

\* What the root remembers of a unit.
MemoryFits(u) ==
  /\ root.latest[u] # Nothing => Stands(u, root.latest[u])
  /\ root.final[u] # Nothing => Stands(u, root.final[u])

UnitsFit == \A u \in Units : RowsFit(u) /\ ChildFits(u) /\ MemoryFits(u)

\* The row of the run.
RunFits ==
  /\ StateValid(run)
  /\ run.cancel => run.state \in {"CANCELING", "CLOSED"}
  /\ run.state = "CANCELING" => run.cancel
  /\ ClosedRunIsComplete

\* Where the root is, and the answer of its settling.
RootFits ==
  /\ root.at = "SETTLE" => root.unsettled
  /\ root.unsettled => \A u \in Batch : root.latest[u] # Nothing
  /\ root.reply.is = "SETTLED" =>
       /\ root.at = "SETTLE"
       /\ \A i \in DOMAIN root.reply.retries :
            LET u == root.reply.retries[i]
            IN  u \in Batch /\ root.latest[u].number < Latest(u)

RunInv == TUTypeOK /\ UnitsFit /\ RunFits /\ RootFits /\ RetriesInBudget

-----------------------------------------------------------------------------
\* The constants are numbers, and the first attempt is one of those there may be.
LEMMA UnitNumbers ==
  /\ UnitCount \in Nat /\ BatchSize \in Nat /\ InfraRetries \in Nat /\ TotalRetries \in Nat
  /\ MaxPauses \in Nat /\ MaxFaults \in Nat
  /\ UnitCount > 0 /\ BatchSize > 0
  /\ 1 \in Numbers /\ Numbers \subseteq Nat /\ Units \subseteq Nat
BY TaskUnitAssumption DEF Numbers, Units

\* What the type says of one unit.
LEMMA UnitTypes ==
  ASSUME TUTypeOK, NEW u \in Units
  PROVE  /\ unit[u] \in ExecutionUnit /\ child[u] \in Child
         /\ attempt[u] \in Seq(Attempt) /\ Latest(u) \in Numbers
         /\ DOMAIN attempt[u] = 1..Latest(u)
         /\ Latest(u) \in 1..Latest(u) /\ LatestAttempt(u) \in Attempt
         /\ \A n \in 1..Latest(u) : attempt[u][n] \in Attempt /\ n \in Numbers
         /\ root.latest[u] \in Outcome \cup {Nothing} /\ root.final[u] \in Outcome \cup {Nothing}
         /\ root.number[u] \in Numbers
<1>1. /\ unit[u] \in ExecutionUnit /\ child[u] \in Child /\ attempt[u] \in Seq(Attempt)
      /\ Latest(u) \in Numbers
  BY DEF TUTypeOK, Latest
<1>2. DOMAIN attempt[u] = 1..Latest(u) /\ \A n \in 1..Latest(u) : attempt[u][n] \in Attempt
  BY <1>1 DEF Latest
<1>3. Latest(u) \in 1..Latest(u) /\ \A n \in 1..Latest(u) : n \in Numbers
  BY <1>1, UnitNumbers DEF Numbers
<1>4. /\ root.latest[u] \in Outcome \cup {Nothing} /\ root.final[u] \in Outcome \cup {Nothing}
      /\ root.number[u] \in Numbers
  BY DEF TUTypeOK, Root
<1> QED
  BY <1>1, <1>2, <1>3, <1>4 DEF LatestAttempt

\* Nothing is no outcome.
LEMMA NothingIsNoOutcome == Nothing \notin Outcome /\ \A o \in Outcome : o # Nothing
BY UnitNumbers DEF Nothing, Outcome, Numbers

-----------------------------------------------------------------------------
\* The attempts of a unit only grow, and those that are closed stay as they are.
AttemptsMove(u) ==
  /\ Latest(u) <= Len(attempt'[u])
  /\ \A n \in 1..Latest(u) : attempt[u][n].state = "CLOSED" => attempt'[u][n] = attempt[u][n]

\* An outcome that stood still stands.
LEMMA StandsStays ==
  ASSUME TUTypeOK, TUTypeOK', NEW u \in Units, NEW o, Stands(u, o), AttemptsMove(u)
  PROVE  Stands(u, o)'
<1>1. o \in Outcome /\ o.number \in 1..Latest(u)
  BY UnitTypes DEF Stands, Outcome, Numbers
<1>2. Latest(u) \in Nat /\ Latest(u)' \in Nat /\ Latest(u)' = Len(attempt'[u])
  BY UnitNumbers DEF TUTypeOK, Latest
<1>3. o.number <= Latest(u)'
  BY <1>1, <1>2 DEF AttemptsMove
<1>4. CASE o.by = "ROOT" /\ o.quality = "INCONCLUSIVE"
  BY <1>1, <1>3, <1>4 DEF Stands
<1>5. CASE attempt[u][o.number].state = "CLOSED" /\ Agrees(attempt[u][o.number], o)
  <2>1. attempt'[u][o.number] = attempt[u][o.number]
    BY <1>1, <1>5 DEF AttemptsMove
  <2> QED
    BY <1>1, <1>3, <1>5, <2>1 DEF Stands, Agrees
<1> QED
  BY <1>4, <1>5 DEF Stands

\* The rows of a unit that no one touches.
LEMMA RowsStay ==
  ASSUME TUTypeOK, NEW u \in Units, RowsFit(u), unit'[u] = unit[u], attempt'[u] = attempt[u],
         \A n \in Numbers : <<u, n>> \in working' => <<u, n>> \in working
  PROVE  RowsFit(u)' /\ AttemptsMove(u)
<1>1. Latest(u)' = Latest(u) /\ LatestAttempt(u)' = LatestAttempt(u)
  BY DEF Latest, LatestAttempt
<1>2. \A n \in 1..Latest(u) : n \in Numbers /\ Latest(u) \in Nat
  BY UnitTypes, UnitNumbers
<1>3. AttemptsMove(u)
  BY <1>1, UnitTypes, UnitNumbers DEF AttemptsMove, Latest
<1> QED
  BY <1>1, <1>2, <1>3 DEF RowsFit, StateValid

\* The child and the executors of a unit that no one touches.
LEMMA ChildStays ==
  ASSUME TUTypeOK, TUTypeOK', NEW u \in Units, ChildFits(u), child'[u] = child[u],
         AttemptsMove(u), Latest(u)' = Latest(u),
         unit[u].state # "QUEUED" => unit'[u].state # "QUEUED",
         \A n \in Numbers : <<u, n>> \in working' => <<u, n>> \in working
  PROVE  ChildFits(u)'
<1>1. Latest(u) \in Numbers
  BY UnitTypes
<1>2. child[u].at = "DONE" => Stands(u, child[u].answer)'
  BY StandsStays DEF ChildFits
<1> QED
  BY <1>1, <1>2 DEF ChildFits

\* What the root remembers.
LEMMA MemoryStays ==
  ASSUME TUTypeOK, TUTypeOK', NEW u \in Units, MemoryFits(u), AttemptsMove(u),
         root'.latest[u] = root.latest[u], root'.final[u] = root.final[u]
  PROVE  MemoryFits(u)'
BY StandsStays DEF MemoryFits

\* A step that leaves the rows, the children and the memory of a unit alone.
LEMMA UnitStays ==
  ASSUME TUTypeOK, TUTypeOK', NEW u \in Units, RowsFit(u), ChildFits(u), MemoryFits(u),
         unit'[u] = unit[u], attempt'[u] = attempt[u], child'[u] = child[u],
         root'.latest[u] = root.latest[u], root'.final[u] = root.final[u],
         \A n \in Numbers : <<u, n>> \in working' => <<u, n>> \in working
  PROVE  RowsFit(u)' /\ ChildFits(u)' /\ MemoryFits(u)'
<1>1. RowsFit(u)' /\ AttemptsMove(u)
  BY RowsStay
<1>2. Latest(u)' = Latest(u)
  BY DEF Latest
<1> QED
  BY <1>1, <1>2, ChildStays, MemoryStays

\* The budget is a matter of how many attempts there are.
LEMMA BudgetFromCount ==
  TUTypeOK /\ Cardinality(Retries) <= TotalRetries => RetriesInBudget
<1> SUFFICES ASSUME TUTypeOK, Cardinality(Retries) <= TotalRetries, NEW u \in Units, Latest(u) > 1
             PROVE  Cardinality({n \in 1..Latest(u) - 1 : attempt[u][n].quality = "INFRA_ERROR"})
                      <= InfraRetries
  BY DEF RetriesInBudget
<1> DEFINE T == {n \in 1..Latest(u) - 1 : attempt[u][n].quality = "INFRA_ERROR"}
<1>1. /\ Latest(u) \in Nat /\ Latest(u) - 1 <= InfraRetries /\ InfraRetries \in Nat
      /\ Latest(u) - 1 \in Nat
  BY UnitTypes, UnitNumbers DEF Numbers
<1>2. IsFiniteSet(1..Latest(u) - 1) /\ Cardinality(1..Latest(u) - 1) = Latest(u) - 1
  BY <1>1, FS_Interval
<1>3. T \in SUBSET (1..Latest(u) - 1)
  OBVIOUS
<1>4. Cardinality(T) <= Latest(u) - 1 /\ IsFiniteSet(T)
  BY <1>2, <1>3, FS_Subset
<1>5. Cardinality(T) \in Nat
  BY <1>4, FS_CardinalityType
<1> HIDE DEF T
<1>6. Cardinality(T) <= InfraRetries
  BY <1>1, <1>4, <1>5
<1> QED
  BY <1>6 DEF T

\* A step that adds no attempt.
LEMMA BudgetStays ==
  ASSUME TUTypeOK', RetriesInBudget, \A u \in Units : Latest(u)' = Latest(u)
  PROVE  RetriesInBudget'
<1>1. \A r \in Units \X Numbers : r[1] \in Units
  OBVIOUS
<1>2. Retries' = Retries
  BY <1>1 DEF Retries
<1>3. (TUTypeOK /\ Cardinality(Retries) <= TotalRetries)'
  BY <1>2 DEF RetriesInBudget
<1> QED
  BY <1>3, BudgetFromCount, PTL

\* A run that no one touches, and whose rows stay if it is closed.
LEMMA RunStays ==
  ASSUME RunFits, run' = run, run.state = "CLOSED" => UNCHANGED <<unit, attempt>>
  PROVE  RunFits'
<1>1. CASE run.state = "CLOSED"
  BY <1>1 DEF RunFits, ClosedRunIsComplete, LatestAttempt, Latest, StateValid
<1>2. CASE run.state # "CLOSED"
  BY <1>2 DEF RunFits, ClosedRunIsComplete, StateValid
<1> QED
  BY <1>1, <1>2

\* A run that moves and is not closed by it.
LEMMA RunMoves ==
  ASSUME RunFits, run.state # "CLOSED", run'.state # "CLOSED", run'.quality = run.quality,
         run'.cancel <=> run'.state = "CANCELING"
  PROVE  RunFits'
BY DEF RunFits, ClosedRunIsComplete, StateValid

\* A root that no one touches but for the answers it is told that settle nothing.
LEMMA RootStays ==
  ASSUME TUTypeOK, TUTypeOK', RootFits, root'.at = root.at, root'.unsettled = root.unsettled,
         root'.pending = root.pending, root'.latest = root.latest,
         root'.reply = root.reply \/ root'.reply.is # "SETTLED",
         \A u \in Units : Latest(u) <= Latest(u)'
  PROVE  RootFits'
<1>1. Batch' = Batch /\ Batch \subseteq Units
  BY DEF Batch, BatchOf, TUTypeOK, Root
<1>2. CASE root'.reply = root.reply /\ root.reply.is = "SETTLED"
  <2>1. ASSUME NEW u \in Batch, root.latest[u].number < Latest(u)
        PROVE  root.latest[u].number < Latest(u)'
    <3>1. u \in Units /\ root.latest[u] # Nothing
      BY <1>1, <1>2 DEF RootFits
    <3>2. root.latest[u] \in Outcome
      BY <3>1, UnitTypes
    <3>3. Latest(u) \in Nat /\ root.latest[u].number \in Nat
      BY <3>1, <3>2, UnitTypes, UnitNumbers DEF Outcome
    <3>4. Latest(u)' \in Nat /\ Latest(u) <= Latest(u)'
      BY <3>1, UnitNumbers DEF TUTypeOK, Latest
    <3> QED
      BY <2>1, <3>3, <3>4
  <2> QED
    BY <1>1, <1>2, <2>1 DEF RootFits
<1>3. CASE root'.reply.is # "SETTLED"
  BY <1>1, <1>3 DEF RootFits
<1> QED
  BY <1>2, <1>3

\* One attempt of a unit changes.
LEMMA OneAttemptChanges ==
  ASSUME TUTypeOK, NEW u \in Units, NEW a \in Attempt,
         attempt' = [attempt EXCEPT ![u] = [attempt[u] EXCEPT ![Latest(u)] = a]]
  PROVE  /\ attempt' \in [Units -> Seq(Attempt)]
         /\ \A v \in Units : Len(attempt'[v]) = Latest(v) /\ Latest(v)' = Latest(v)
         /\ \A v \in Units : v # u => attempt'[v] = attempt[v]
         /\ attempt'[u][Latest(u)] = a /\ LatestAttempt(u)' = a
         /\ \A n \in 1..Latest(u) : n # Latest(u) => attempt'[u][n] = attempt[u][n]
<1>1. attempt \in [Units -> Seq(Attempt)]
  BY DEF TUTypeOK
<1>2. Latest(u) \in 1..Len(attempt[u]) /\ Len(attempt[u]) = Latest(u)
  BY UnitTypes DEF Latest
<1> DEFINE s == [attempt[u] EXCEPT ![Latest(u)] = a]
<1>3. s \in Seq(Attempt) /\ Len(s) = Latest(u) /\ s[Latest(u)] = a
      /\ \A n \in 1..Latest(u) : n # Latest(u) => s[n] = attempt[u][n]
  BY <1>1, <1>2
<1> HIDE DEF s
<1>4. attempt' = [attempt EXCEPT ![u] = s]
  BY DEF s
<1>5. attempt'[u] = s /\ \A v \in Units : v # u => attempt'[v] = attempt[v]
  BY <1>1, <1>4
<1>6. attempt' \in [Units -> Seq(Attempt)]
  BY <1>1, <1>3, <1>4
<1>7. \A v \in Units : Len(attempt'[v]) = Latest(v) /\ Latest(v)' = Latest(v)
  BY <1>3, <1>5 DEF Latest
<1>8. LatestAttempt(u)' = a
  BY <1>3, <1>5, <1>7 DEF LatestAttempt, Latest
<1> QED
  BY <1>3, <1>5, <1>6, <1>7, <1>8

\* The rows of a unit whose last attempt changes, when what it becomes fits.
LEMMA RowsChange ==
  ASSUME TUTypeOK, NEW u \in Units, RowsFit(u), NEW a \in Attempt,
         Len(attempt'[u]) = Latest(u), attempt'[u][Latest(u)] = a,
         \A n \in 1..Latest(u) : n # Latest(u) => attempt'[u][n] = attempt[u][n],
         LatestAttempt(u).state # "CLOSED" \/ a = LatestAttempt(u),
         StateValid(a), a.quality = "PASSED" => a.by = "SEAL", a.state = "CLOSED" => a.by # NoOne,
         a.state = "RUNNING" \/ a.quality = "INFRA_ERROR" => unit'[u].state # "QUEUED",
         a.quality = "INFRA_ERROR" => <<u, Latest(u)>> \notin working',
         StateValid(unit'[u]), unit'[u].state = "CLOSED" => unit'[u].quality = a.quality,
         unit[u].state # "QUEUED" => unit'[u].state # "QUEUED",
         \A n \in Numbers : <<u, n>> \in working' => <<u, n>> \in working \/ n = Latest(u)
  PROVE  RowsFit(u)' /\ AttemptsMove(u)
<1>1. Latest(u)' = Latest(u) /\ LatestAttempt(u)' = a /\ Latest(u) \in Nat
  BY UnitTypes, UnitNumbers DEF Latest, LatestAttempt
<1>2. AttemptsMove(u)
  BY <1>1, UnitTypes DEF AttemptsMove, LatestAttempt
<1>3. ASSUME NEW n \in 1..Latest(u), n # Latest(u)
      PROVE  /\ StateValid(attempt[u][n])'
             /\ attempt'[u][n].quality = "INFRA_ERROR"
             /\ attempt'[u][n].state # "RUNNING" /\ attempt'[u][n].by # NoOne
             /\ unit'[u].state # "QUEUED"
             /\ <<u, n>> \notin working'
  <2>1. attempt'[u][n] = attempt[u][n] /\ n < Latest(u) /\ n \in Numbers
    BY <1>1, <1>3, UnitTypes
  <2>2. StateValid(attempt[u][n]) /\ attempt[u][n].quality = "INFRA_ERROR"
        /\ unit[u].state # "QUEUED" /\ <<u, n>> \notin working
    BY <2>1 DEF RowsFit
  <2>3. attempt[u][n].state = "CLOSED" /\ attempt[u][n].by # NoOne
    BY <2>1, <2>2 DEF RowsFit, StateValid
  <2> QED
    BY <1>3, <2>1, <2>2, <2>3 DEF StateValid
<1>4. \A n \in 1..Latest(u) :
        /\ StateValid(attempt[u][n])'
        /\ n < Latest(u) => attempt'[u][n].quality = "INFRA_ERROR"
        /\ attempt'[u][n].quality = "PASSED" => attempt'[u][n].by = "SEAL"
        /\ attempt'[u][n].state = "CLOSED" => attempt'[u][n].by # NoOne
        /\ attempt'[u][n].state = "RUNNING" => unit'[u].state # "QUEUED"
        /\ attempt'[u][n].quality = "INFRA_ERROR" =>
             unit'[u].state # "QUEUED" /\ <<u, n>> \notin working'
  BY <1>1, <1>3 DEF StateValid
<1> QED
  BY <1>1, <1>2, <1>4 DEF RowsFit, StateValid

-----------------------------------------------------------------------------
\* What a step does to the rows of a unit: they move as their triggers admit.
UnitStep(u) ==
  /\ AttemptsMove(u)
  /\ RowMoves(unit[u], unit'[u])
  /\ \A n \in 1..Latest(u) : RowMoves(attempt[u][n], attempt'[u][n])
  /\ Len(attempt'[u]) # Latest(u) => AttemptInsertable(u)
  /\ attempt'[u][Latest(u)].ticket /\ ~ LatestAttempt(u).ticket => TicketInsertable(u)

\* What a step does to the row of the run, and nothing more once it is closed.
RunStep ==
  /\ run.state = "CLOSED" => UNCHANGED rows
  /\ RowMoves(run, run')

StepFits == RunStep /\ \A u \in Units : UnitStep(u)

\* Rows that no one touches move as their triggers admit.
LEMMA UnitStepStays ==
  ASSUME TUTypeOK, NEW u \in Units, RowsFit(u), unit'[u] = unit[u], attempt'[u] = attempt[u]
  PROVE  UnitStep(u)
<1>1. AttemptsMove(u)
  BY UnitTypes, UnitNumbers DEF AttemptsMove, Latest
<1>2. RowMoves(unit[u], unit'[u]) /\ \A n \in 1..Latest(u) : RowMoves(attempt[u][n], attempt'[u][n])
  BY DEF RowsFit, RowMoves, LifecycleMoves
<1> QED
  BY <1>1, <1>2 DEF UnitStep, LatestAttempt, Latest

\* So does the last attempt of a unit that changes.
LEMMA UnitStepChange ==
  ASSUME TUTypeOK, NEW u \in Units, RowsFit(u), AttemptsMove(u),
         RowMoves(unit[u], unit'[u]), Len(attempt'[u]) = Latest(u),
         \A n \in 1..Latest(u) : n # Latest(u) => attempt'[u][n] = attempt[u][n],
         RowMoves(LatestAttempt(u), attempt'[u][Latest(u)]),
         attempt'[u][Latest(u)].ticket /\ ~ LatestAttempt(u).ticket => TicketInsertable(u)
  PROVE  UnitStep(u)
<1>1. \A n \in 1..Latest(u) : RowMoves(attempt[u][n], attempt'[u][n])
  BY DEF RowsFit, RowMoves, LifecycleMoves, LatestAttempt
<1> QED
  BY <1>1 DEF UnitStep

\* A step of one unit, whatever it does to the row of the run.
LEMMA OneUnitMoves ==
  ASSUME RunInv, TUTypeOK', NEW u \in Units, RunFits', RunStep, UNCHANGED root,
         \A v \in Units : v # u =>
           /\ unit'[v] = unit[v] /\ attempt'[v] = attempt[v] /\ child'[v] = child[v]
           /\ \A n \in Numbers : <<v, n>> \in working' => <<v, n>> \in working,
         Latest(u)' = Latest(u), UnitStep(u), RowsFit(u)', ChildFits(u)'
  PROVE  RunInv' /\ StepFits
<1>1. TUTypeOK /\ RootFits /\ RetriesInBudget
  BY DEF RunInv
<1>2. ASSUME NEW v \in Units, v # u
      PROVE  RowsFit(v)' /\ ChildFits(v)' /\ MemoryFits(v)' /\ UnitStep(v) /\ Latest(v)' = Latest(v)
  <2>1. RowsFit(v) /\ ChildFits(v) /\ MemoryFits(v)
    BY DEF RunInv, UnitsFit
  <2>2. /\ unit'[v] = unit[v] /\ attempt'[v] = attempt[v] /\ child'[v] = child[v]
        /\ root'.latest[v] = root.latest[v] /\ root'.final[v] = root.final[v]
        /\ \A n \in Numbers : <<v, n>> \in working' => <<v, n>> \in working
    BY <1>2
  <2> QED
    BY <1>1, <2>1, <2>2, UnitStays, UnitStepStays DEF Latest
<1>3. MemoryFits(u)'
  <2>1. MemoryFits(u) /\ AttemptsMove(u)
    BY DEF RunInv, UnitsFit, UnitStep
  <2> QED
    BY <1>1, <2>1, MemoryStays
<1>4. UnitsFit'
  BY <1>2, <1>3 DEF UnitsFit
<1>5. \A v \in Units : Latest(v)' = Latest(v)
  BY <1>2
<1>6. \A v \in Units : Latest(v) <= Latest(v)'
  BY <1>1, <1>5, UnitTypes, UnitNumbers
<1>7. RootFits'
  BY <1>1, <1>6, RootStays
<1>8. RetriesInBudget'
  BY <1>1, <1>5, BudgetStays
<1>9. StepFits
  BY <1>2 DEF StepFits
<1> QED
  BY <1>4, <1>7, <1>8, <1>9 DEF RunInv

\* A step that touches neither unit nor attempt, and of the children at most
\* what their executors have left.
LEMMA RowsUntouched ==
  ASSUME RunInv, TUTypeOK', RunFits', RunStep, UNCHANGED <<unit, attempt>>,
         \A u \in Units : ChildFits(u)' /\ MemoryFits(u)',
         \A u \in Units, n \in Numbers : <<u, n>> \in working' => <<u, n>> \in working,
         RootFits'
  PROVE  RunInv' /\ StepFits
<1>1. TUTypeOK /\ RetriesInBudget
  BY DEF RunInv
<1>2. ASSUME NEW u \in Units
      PROVE  RowsFit(u)' /\ UnitStep(u) /\ Latest(u)' = Latest(u)
  <2>1. RowsFit(u)
    BY DEF RunInv, UnitsFit
  <2> QED
    BY <1>1, <2>1, RowsStay, UnitStepStays DEF Latest
<1>3. UnitsFit' /\ StepFits
  BY <1>2 DEF UnitsFit, StepFits
<1>4. RetriesInBudget'
  BY <1>1, <1>2, BudgetStays
<1> QED
  BY <1>3, <1>4 DEF RunInv

-----------------------------------------------------------------------------
(* The steps of children and executors *)

\* What RunInv says of one unit.
LEMMA UnitParts ==
  ASSUME RunInv, NEW u \in Units
  PROVE  /\ TUTypeOK /\ RunFits /\ RootFits /\ RetriesInBudget
         /\ RowsFit(u) /\ ChildFits(u) /\ MemoryFits(u)
         /\ StateValid(LatestAttempt(u))
         /\ unit[u].state = "CLOSED" => LatestAttempt(u).state = "CLOSED"
         /\ run.state = "CLOSED" => unit[u].state = "CLOSED" /\ LatestAttempt(u).state = "CLOSED"
<1>1. TUTypeOK /\ RunFits /\ RootFits /\ RetriesInBudget /\ RowsFit(u) /\ ChildFits(u) /\ MemoryFits(u)
  BY DEF RunInv, UnitsFit
<1>2. StateValid(LatestAttempt(u))
  BY <1>1, UnitTypes DEF RowsFit, LatestAttempt
<1>3. unit[u].state = "CLOSED" => LatestAttempt(u).state = "CLOSED"
  BY <1>1, <1>2 DEF RowsFit, StateValid
<1> QED
  BY <1>1, <1>2, <1>3 DEF RunFits, ClosedRunIsComplete

\* What a begin does to the rows, and when its child may execute.
LEMMA BeginRows ==
  ASSUME RunInv, NEW u \in Units,
         IF Startable(u) THEN StartAttempt(u) ELSE UNCHANGED rows,
         \/ working' = working
         \/ BeginStatus(u) = "READY" /\ working' = working \cup {<<u, Latest(u)>>}
  PROVE  /\ run' \in TaskRun /\ unit' \in [Units -> ExecutionUnit]
         /\ attempt' \in [Units -> Seq(Attempt)]
         /\ \A v \in Units : Len(attempt'[v]) = Latest(v) /\ Latest(v)' = Latest(v)
         /\ \A v \in Units : v # u => unit'[v] = unit[v] /\ attempt'[v] = attempt[v]
         /\ RunFits' /\ RunStep /\ UnitStep(u) /\ RowsFit(u)'
         /\ unit[u].state # "QUEUED" => unit'[u].state # "QUEUED"
         /\ BeginStatus(u) = "READY" => unit'[u].state # "QUEUED"
<1>1. /\ TUTypeOK /\ RunFits /\ RowsFit(u) /\ StateValid(LatestAttempt(u))
      /\ LatestAttempt(u).state = "RUNNING" => unit[u].state # "QUEUED"
      /\ ChildFits(u)
  BY UnitParts, UnitTypes DEF RowsFit, LatestAttempt
<1>2. /\ Latest(u) \in Nat /\ Latest(u) \in 1..Latest(u) /\ LatestAttempt(u) \in Attempt
      /\ unit[u] \in ExecutionUnit
  BY <1>1, UnitTypes, UnitNumbers
<1>3. \A n \in Numbers : <<u, n>> \in working' => <<u, n>> \in working \/ n = Latest(u)
  OBVIOUS
<1>4. CASE Startable(u)
  <2> DEFINE a == [LatestAttempt(u) EXCEPT !.state = "RUNNING"]
  <2>1. /\ LatestAttempt(u).state = "QUEUED" /\ unit[u].state \in {"QUEUED", "RUNNING"}
        /\ run.state \in {"QUEUED", "RUNNING", "PAUSE_REQUESTED"}
    BY <1>4 DEF Startable, DispatchableAttempt, Authorized
  <2>2. StartAttempt(u)
    BY <1>4
  <2>3. a \in Attempt /\ a.state = "RUNNING" /\ a.quality = LatestAttempt(u).quality
        /\ a.by = LatestAttempt(u).by /\ a.ticket = LatestAttempt(u).ticket /\ a.quality = "PENDING"
    BY <1>1, <1>2, <2>1 DEF Attempt, StateValid
  <2>4. attempt' = [attempt EXCEPT ![u] = [attempt[u] EXCEPT ![Latest(u)] = a]]
    BY <2>2 DEF StartAttempt, LatestAttempt
  <2>5. StateValid(a) /\ a.quality # "PASSED" /\ a.quality # "INFRA_ERROR"
    BY <2>3 DEF StateValid
  <2> HIDE DEF a
  <2>6. /\ attempt' \in [Units -> Seq(Attempt)]
        /\ \A v \in Units : Len(attempt'[v]) = Latest(v) /\ Latest(v)' = Latest(v)
        /\ \A v \in Units : v # u => attempt'[v] = attempt[v]
        /\ attempt'[u][Latest(u)] = a /\ LatestAttempt(u)' = a
        /\ \A n \in 1..Latest(u) : n # Latest(u) => attempt'[u][n] = attempt[u][n]
    BY <1>1, <2>3, <2>4, OneAttemptChanges
  <2>7. /\ unit' = [unit EXCEPT ![u] = [unit[u] EXCEPT !.state = "RUNNING"]]
        /\ unit \in [Units -> ExecutionUnit]
    BY <1>1, <2>2 DEF StartAttempt, TUTypeOK
  <2>8. /\ unit' \in [Units -> ExecutionUnit] /\ \A v \in Units : v # u => unit'[v] = unit[v]
        /\ unit'[u].state = "RUNNING" /\ unit'[u].quality = unit[u].quality
        /\ unit[u].quality = "PENDING"
    BY <1>1, <1>2, <2>1, <2>7 DEF ExecutionUnit, RowsFit, StateValid
  <2>9. /\ run' \in TaskRun /\ run'.quality = run.quality /\ run'.cancel = run.cancel
        /\ run'.state = IF run.state = "QUEUED" THEN "RUNNING" ELSE run.state
    BY <1>1, <2>2 DEF StartAttempt, TUTypeOK, TaskRun
  <2>10. RunFits' /\ RowMoves(run, run')
    <3>1. ~ run.cancel /\ run.quality = "PENDING"
      BY <1>1, <2>1 DEF RunFits, StateValid, TUTypeOK, TaskRun
    <3>2. RunFits'
      BY <1>1, <2>1, <2>9, <3>1, RunMoves
    <3> QED
      BY <2>1, <2>9, <3>1, <3>2 DEF RowMoves, LifecycleMoves, StateValid
  <2>11. RunStep
    BY <2>1, <2>10 DEF RunStep
  <2>12. RowsFit(u)' /\ AttemptsMove(u)
    BY <1>1, <1>3, <2>1, <2>3, <2>5, <2>6, <2>8, RowsChange DEF StateValid
  <2>13. RowMoves(unit[u], unit'[u]) /\ RowMoves(LatestAttempt(u), a)
    BY <2>1, <2>3, <2>8 DEF RowMoves, LifecycleMoves, StateValid
  <2>14. UnitStep(u)
    BY <1>1, <2>3, <2>6, <2>12, <2>13, UnitStepChange
  <2> QED
    BY <2>6, <2>8, <2>9, <2>10, <2>11, <2>12, <2>14
<1>5. CASE ~ Startable(u)
  <2>1. UNCHANGED <<run, unit, attempt>>
    BY <1>5 DEF rows
  <2>2. BeginStatus(u) = "READY" => LatestAttempt(u).state = "RUNNING"
    BY <1>5 DEF BeginStatus
  <2>3. /\ run' \in TaskRun /\ unit' \in [Units -> ExecutionUnit]
        /\ attempt' \in [Units -> Seq(Attempt)]
        /\ \A v \in Units : Len(attempt'[v]) = Latest(v) /\ Latest(v)' = Latest(v)
    BY <1>1, <2>1 DEF TUTypeOK, Latest
  <2>4. RunFits' /\ UnitStep(u)
    BY <1>1, <2>1, RunStays, UnitStepStays
  <2>5. RunStep
    BY <1>1, <2>1 DEF RunStep, rows, RowMoves, LifecycleMoves, RunFits
  <2>6. LatestAttempt(u).quality = "INFRA_ERROR" => <<u, Latest(u)>> \notin working'
    <3>1. SUFFICES ASSUME LatestAttempt(u).quality = "INFRA_ERROR", working' # working
                   PROVE  FALSE
      BY <1>1, <1>2 DEF RowsFit, LatestAttempt
    <3>2. LatestAttempt(u).state = "RUNNING"
      BY <2>2, <3>1
    <3> QED
      BY <1>1, <3>1, <3>2 DEF StateValid
  <2>7. RowsFit(u)'
    <3>1. /\ LatestAttempt(u).quality = "PASSED" => LatestAttempt(u).by = "SEAL"
          /\ LatestAttempt(u).state = "CLOSED" => LatestAttempt(u).by # NoOne
          /\ LatestAttempt(u).state = "RUNNING" \/ LatestAttempt(u).quality = "INFRA_ERROR" =>
               unit[u].state # "QUEUED"
          /\ StateValid(unit[u])
          /\ unit[u].state = "CLOSED" => unit[u].quality = LatestAttempt(u).quality
      BY <1>1, <1>2 DEF RowsFit, LatestAttempt
    <3>2. /\ Len(attempt'[u]) = Latest(u) /\ attempt'[u][Latest(u)] = LatestAttempt(u)
          /\ \A n \in 1..Latest(u) : attempt'[u][n] = attempt[u][n]
          /\ unit'[u] = unit[u]
      BY <2>1, <2>3 DEF LatestAttempt
    <3> QED
      BY <1>1, <1>2, <1>3, <2>6, <3>1, <3>2, RowsChange
  <2> QED
    BY <1>1, <2>1, <2>2, <2>3, <2>4, <2>5, <2>7
<1> QED
  BY <1>4, <1>5

\* A child moves on, and no row does.
LEMMA ChildMoves ==
  ASSUME RunInv, NEW u \in Units, UNCHANGED <<rows, root, overdue>>, faults' \in 0..MaxFaults,
         orphan' \subseteq Units, working' \subseteq working,
         NEW c \in Child, child' = [child EXCEPT ![u] = c],
         c.execution # "PASSED", c.at = "DONE" => Stands(u, c.answer),
         c.at = "FINISH" => /\ c.execution # "PENDING"
                            /\ c.execution = "INFRA_ERROR" =>
                                 unit[u].state # "QUEUED" /\ <<u, Latest(u)>> \notin working'
  PROVE  RunInv' /\ StepFits
<1>1. /\ TUTypeOK /\ RunFits /\ RowsFit(u) /\ ChildFits(u)
      /\ UNCHANGED <<run, unit, attempt>>
  BY UnitParts DEF rows
<1>2. TUTypeOK'
  BY <1>1 DEF TUTypeOK
<1>3. child'[u] = c /\ \A v \in Units : v # u => child'[v] = child[v]
  BY <1>1 DEF TUTypeOK
<1>4. \A v \in Units : Latest(v)' = Latest(v)
  BY <1>1 DEF Latest
<1>5. RunFits'
  BY <1>1, RunStays
<1>6. RunStep
  BY <1>1 DEF RunStep, rows, RowMoves, LifecycleMoves, RunFits
<1>7. \A n \in Numbers : <<u, n>> \in working' => <<u, n>> \in working
  OBVIOUS
<1>8. RowsFit(u)' /\ UnitStep(u)
  BY <1>1, <1>7, RowsStay, UnitStepStays
<1>9. ChildFits(u)'
  <2>1. c.at = "DONE" => Stands(u, c.answer)'
    BY <1>1, <1>4 DEF Stands, Agrees
  <2> QED
    BY <1>1, <1>3, <1>4, <1>7, <2>1 DEF ChildFits
<1>10. \A v \in Units : v # u =>
           /\ unit'[v] = unit[v] /\ attempt'[v] = attempt[v] /\ child'[v] = child[v]
           /\ \A n \in Numbers : <<v, n>> \in working' => <<v, n>> \in working
  BY <1>1, <1>3
<1> QED
  BY <1>2, <1>4, <1>5, <1>6, <1>8, <1>9, <1>10, OneUnitMoves

\* A fault is one within the bound.
LEMMA FaultType == TUTypeOK /\ (Fault \/ NoFault) => faults' \in 0..MaxFaults
BY UnitNumbers DEF TUTypeOK, Fault, NoFault

\* A begin starts its attempt, or finishes its child; whether it is heard or not.
LEMMA BeginKeeps ==
  ASSUME RunInv, NEW u \in Units, Begin(u)
  PROVE  RunInv' /\ StepFits
<1>1. /\ TUTypeOK /\ ChildFits(u) /\ child[u] \in Child /\ child[u].at = "BEGIN"
      /\ Latest(u) \in Numbers
  BY UnitParts, UnitTypes DEF Begin
<1>2. UNCHANGED <<orphan, root, overdue>> /\ faults' \in 0..MaxFaults
  BY <1>1, FaultType DEF Begin, Lost
<1>3. IF Startable(u) THEN StartAttempt(u) ELSE UNCHANGED rows
  BY DEF Begin
<1>4. child \in [Units -> Child]
  BY <1>1 DEF TUTypeOK
<1>5. \E c \in Child :
        /\ child' = [child EXCEPT ![u] = c] /\ c.execution # "PASSED" /\ c.at # "DONE"
        /\ c.at = "FINISH" => c.execution \notin {"PENDING", "INFRA_ERROR"}
        /\ \/ working' = working
           \/ BeginStatus(u) = "READY" /\ working' = working \cup {<<u, Latest(u)>>}
  <2>1. CASE BeginStatus(u) = "READY" /\ Executes(u)
    <3>1. [child[u] EXCEPT !.at = "EXECUTE"] \in Child
      BY <1>1 DEF Child
    <3> QED
      BY <1>1, <1>4, <2>1, <3>1 DEF Executes, Child, ChildFits
  <2>2. CASE /\ BeginStatus(u) # "READY" /\ UNCHANGED working
             /\ Finishes(u, IF BeginStatus(u) = "CANCELED" THEN "CANCELED" ELSE "INCONCLUSIVE")
    <3> DEFINE q == IF BeginStatus(u) = "CANCELED" THEN "CANCELED" ELSE "INCONCLUSIVE"
    <3>1. q \in {"CANCELED", "INCONCLUSIVE"}
      OBVIOUS
    <3>2. child' = [child EXCEPT ![u] = [child[u] EXCEPT !.at = "FINISH", !.execution = q]]
      BY <1>4, <2>2 DEF Finishes
    <3> HIDE DEF q
    <3>3. [child[u] EXCEPT !.at = "FINISH", !.execution = q] \in Child
      BY <1>1, <3>1 DEF Child, Qualities
    <3> QED
      BY <1>1, <2>2, <3>1, <3>2, <3>3 DEF Child
  <2>3. CASE UNCHANGED <<child, working>>
    <3>1. child' = [child EXCEPT ![u] = child[u]]
      BY <1>4, <2>3
    <3> QED
      BY <1>1, <2>3, <3>1 DEF ChildFits
  <2> QED
    BY <2>1, <2>2, <2>3 DEF Begin
<1>6. PICK c \in Child :
        /\ child' = [child EXCEPT ![u] = c] /\ c.execution # "PASSED" /\ c.at # "DONE"
        /\ c.at = "FINISH" => c.execution \notin {"PENDING", "INFRA_ERROR"}
        /\ \/ working' = working
           \/ BeginStatus(u) = "READY" /\ working' = working \cup {<<u, Latest(u)>>}
  BY <1>5
<1>7. /\ child' \in [Units -> Child] /\ child'[u] = c
      /\ \A v \in Units : v # u => child'[v] = child[v]
  BY <1>4, <1>6
<1>8. /\ run' \in TaskRun /\ unit' \in [Units -> ExecutionUnit]
      /\ attempt' \in [Units -> Seq(Attempt)]
      /\ \A v \in Units : Len(attempt'[v]) = Latest(v) /\ Latest(v)' = Latest(v)
      /\ \A v \in Units : v # u => unit'[v] = unit[v] /\ attempt'[v] = attempt[v]
      /\ RunFits' /\ RunStep /\ UnitStep(u) /\ RowsFit(u)'
      /\ unit[u].state # "QUEUED" => unit'[u].state # "QUEUED"
      /\ BeginStatus(u) = "READY" => unit'[u].state # "QUEUED"
  BY <1>3, <1>6, BeginRows
<1>9. TUTypeOK'
  BY <1>1, <1>2, <1>6, <1>7, <1>8 DEF TUTypeOK, Latest
<1>10. \A n \in Numbers : <<u, n>> \in working' => n = Latest(u)' /\ unit'[u].state # "QUEUED"
  BY <1>1, <1>6, <1>8 DEF ChildFits
<1>11. ChildFits(u)'
  BY <1>6, <1>7, <1>10 DEF ChildFits
<1>12. \A v \in Units : v # u =>
           /\ unit'[v] = unit[v] /\ attempt'[v] = attempt[v] /\ child'[v] = child[v]
           /\ \A n \in Numbers : <<v, n>> \in working' => <<v, n>> \in working
  BY <1>6, <1>7, <1>8
<1> QED
  BY <1>2, <1>8, <1>9, <1>11, <1>12, OneUnitMoves

\* So does a begin that was left behind, without a child.
LEMMA OrphanBeginsKeeps ==
  ASSUME RunInv, NEW u \in Units, OrphanBegins(u)
  PROVE  RunInv' /\ StepFits
<1>1. TUTypeOK /\ ChildFits(u) /\ Latest(u) \in Numbers
  BY UnitParts, UnitTypes
<1>2. UNCHANGED <<child, working, root, overdue, faults>> /\ orphan' \subseteq Units
      /\ Startable(u) /\ StartAttempt(u)
  BY <1>1 DEF OrphanBegins, TUTypeOK
<1>3. /\ run' \in TaskRun /\ unit' \in [Units -> ExecutionUnit]
      /\ attempt' \in [Units -> Seq(Attempt)]
      /\ \A v \in Units : Len(attempt'[v]) = Latest(v) /\ Latest(v)' = Latest(v)
      /\ \A v \in Units : v # u => unit'[v] = unit[v] /\ attempt'[v] = attempt[v]
      /\ RunFits' /\ RunStep /\ UnitStep(u) /\ RowsFit(u)'
      /\ unit[u].state # "QUEUED" => unit'[u].state # "QUEUED"
  BY <1>2, BeginRows
<1>4. TUTypeOK'
  BY <1>1, <1>2, <1>3 DEF TUTypeOK, Latest
<1>5. ChildFits(u)'
  BY <1>1, <1>2, <1>3, <1>4, ChildStays DEF UnitStep
<1> QED
  BY <1>2, <1>3, <1>4, <1>5, OneUnitMoves

\* A child that finishes with what was executed of its attempt.
LEMMA FinishesMoves ==
  ASSUME RunInv, NEW u \in Units, NEW q \in Qualities \cup {"SEALED"}, Finishes(u, q),
         UNCHANGED <<rows, root, overdue>>, faults' \in 0..MaxFaults, orphan' \subseteq Units,
         working' \subseteq working, q \notin {"PENDING", "PASSED"},
         q = "INFRA_ERROR" => unit[u].state # "QUEUED" /\ <<u, Latest(u)>> \notin working'
  PROVE  RunInv' /\ StepFits
<1>1. child \in [Units -> Child] /\ child[u] \in Child
  BY UnitParts DEF TUTypeOK
<1> DEFINE c == [child[u] EXCEPT !.at = "FINISH", !.execution = q]
<1>2. child' = [child EXCEPT ![u] = c]
  BY <1>1 DEF Finishes
<1>3. c \in Child /\ c.at = "FINISH" /\ c.execution = q
  BY <1>1 DEF Child
<1> HIDE DEF c
<1> QED
  BY <1>2, <1>3, ChildMoves

\* A begin that admission rejects touches no row.
LEMMA AdmissionRejectsKeeps ==
  ASSUME RunInv, NEW u \in Units, AdmissionRejects(u)
  PROVE  RunInv' /\ StepFits
<1>1. TUTypeOK
  BY DEF RunInv
<1>2. /\ Finishes(u, "INCONCLUSIVE") /\ UNCHANGED <<rows, working, orphan, root, overdue>>
      /\ faults' \in 0..MaxFaults
  BY <1>1, FaultType DEF AdmissionRejects
<1>3. orphan' \subseteq Units /\ working' \subseteq working
  BY <1>1, <1>2 DEF TUTypeOK
<1> QED
  BY <1>2, <1>3, FinishesMoves DEF Qualities

\* An executor that reports ends, and its child goes on to finish.
LEMMA ReportKeeps ==
  ASSUME RunInv, NEW u \in Units, NEW n \in Numbers, NEW execution \in Reports \cup {"SEALED"},
         Report(u, n, execution)
  PROVE  RunInv' /\ StepFits
<1>1. TUTypeOK /\ ChildFits(u)
  BY UnitParts
<1>2. /\ Finishes(u, execution) /\ UNCHANGED <<rows, orphan, root, overdue>>
      /\ faults' \in 0..MaxFaults /\ orphan' \subseteq Units /\ working' \subseteq working
      /\ n = Latest(u) /\ <<u, n>> \in working /\ <<u, n>> \notin working'
  BY <1>1 DEF Report, Awaited, TUTypeOK
<1>3. execution \in Qualities \cup {"SEALED"} /\ execution \notin {"PENDING", "PASSED"}
  BY TaskUnitAssumption DEF Qualities
<1>4. unit[u].state # "QUEUED"
  BY <1>1, <1>2 DEF ChildFits
<1> QED
  BY <1>2, <1>3, <1>4, FinishesMoves

\* An executor that is canceled ends as well.
LEMMA ExecutorCanceledKeeps ==
  ASSUME RunInv, NEW u \in Units, ExecutorCanceled(u)
  PROVE  RunInv' /\ StepFits
<1>1. /\ Finishes(u, "INCONCLUSIVE") /\ UNCHANGED <<rows, orphan, root, overdue>>
      /\ faults' \in 0..MaxFaults /\ orphan' \subseteq Units /\ working' \subseteq working
  BY DEF ExecutorCanceled, RunInv, TUTypeOK
<1> QED
  BY <1>1, FinishesMoves DEF Qualities

\* One that is given up may still be at work.
LEMMA GiveUpKeeps ==
  ASSUME RunInv, NEW u \in Units, GiveUp(u)
  PROVE  RunInv' /\ StepFits
<1>1. TUTypeOK
  BY DEF RunInv
<1>2. /\ Finishes(u, "INCONCLUSIVE") /\ UNCHANGED <<rows, working, orphan, root, overdue>>
      /\ faults' \in 0..MaxFaults
  BY <1>1, FaultType DEF GiveUp, Lost
<1>3. orphan' \subseteq Units /\ working' \subseteq working
  BY <1>1, <1>2 DEF TUTypeOK
<1> QED
  BY <1>2, <1>3, FinishesMoves DEF Qualities

\* A child that fails touches no row, but may leave its begin behind.
LEMMA ChildFailsKeeps ==
  ASSUME RunInv, NEW u \in Units, ChildFails(u)
  PROVE  RunInv' /\ StepFits
<1>1. TUTypeOK /\ ChildFits(u) /\ child[u] \in Child /\ child \in [Units -> Child]
  BY UnitParts, UnitTypes DEF TUTypeOK
<1>2. /\ UNCHANGED <<rows, working, root, overdue>> /\ faults' \in 0..MaxFaults
      /\ orphan' \subseteq Units /\ working' \subseteq working
  BY <1>1, FaultType DEF ChildFails, Lost, TUTypeOK
<1> DEFINE c == [child[u] EXCEPT !.at = "FAILED"]
<1>3. child' = [child EXCEPT ![u] = c]
  BY <1>1 DEF ChildFails
<1>4. c \in Child /\ c.at = "FAILED" /\ c.execution = child[u].execution
  BY <1>1 DEF Child
<1>5. c.execution # "PASSED"
  BY <1>1, <1>4 DEF ChildFits
<1> HIDE DEF c
<1> QED
  BY <1>2, <1>3, <1>4, <1>5, ChildMoves

\* An executor nobody waits for ends.
LEMMA ZombieEndsKeeps ==
  ASSUME RunInv, NEW u \in Units, NEW n \in Numbers, ZombieEnds(u, n)
  PROVE  RunInv' /\ StepFits
<1>1. TUTypeOK /\ RunFits /\ RootFits
  BY DEF RunInv
<1>2. /\ UNCHANGED <<run, unit, attempt, child, orphan, root, overdue, faults>>
      /\ working' \subseteq working
  BY DEF ZombieEnds, rows
<1>3. TUTypeOK'
  BY <1>1, <1>2 DEF TUTypeOK
<1>4. RunFits'
  BY <1>1, <1>2, RunStays
<1>5. RunStep
  BY <1>1, <1>2 DEF RunStep, rows, RowMoves, LifecycleMoves, RunFits
<1>6. ASSUME NEW v \in Units
      PROVE  ChildFits(v)' /\ MemoryFits(v)' /\ Latest(v) <= Latest(v)'
  <2>1. /\ unit'[v] = unit[v] /\ attempt'[v] = attempt[v] /\ child'[v] = child[v]
        /\ root'.latest[v] = root.latest[v] /\ root'.final[v] = root.final[v]
        /\ \A k \in Numbers : <<v, k>> \in working' => <<v, k>> \in working
    BY <1>2
  <2>2. ChildFits(v)' /\ MemoryFits(v)'
    BY <1>1, <1>3, <2>1, UnitParts, UnitStays
  <2> QED
    BY <1>1, <2>1, <2>2, UnitTypes, UnitNumbers DEF Latest
<1>7. RootFits'
  BY <1>1, <1>2, <1>3, <1>6, RootStays
<1>8. \A v \in Units, k \in Numbers : <<v, k>> \in working' => <<v, k>> \in working
  BY <1>2
<1> QED
  BY <1>2, <1>3, <1>4, <1>5, <1>6, <1>7, <1>8, RowsUntouched

\* The last attempt of a unit is closed by someone, once.
LEMMA AttemptCloses ==
  ASSUME RunInv, NEW u \in Units, NEW a \in Attempt,
         LatestAttempt(u).state # "CLOSED", a.state = "CLOSED", StateValid(a), a.by # NoOne,
         a.quality = "PASSED" => a.by = "SEAL",
         a.quality = "INFRA_ERROR" =>
           unit[u].state # "QUEUED" /\ <<u, Latest(u)>> \notin working,
         a.ticket = LatestAttempt(u).ticket,
         attempt' = [attempt EXCEPT ![u] = [attempt[u] EXCEPT ![Latest(u)] = a]],
         UNCHANGED <<run, unit, working, orphan, root, overdue>>, faults' \in 0..MaxFaults,
         child' \in [Units -> Child], \A v \in Units : v # u => child'[v] = child[v],
         \/ child'[u] = child[u]
         \/ /\ child'[u].at = "DONE" /\ child'[u].execution # "PASSED"
            /\ child'[u].answer \in Outcome /\ child'[u].answer.number = Latest(u)
            /\ Agrees(a, child'[u].answer)
  PROVE  RunInv' /\ StepFits
<1>1. /\ TUTypeOK /\ RunFits /\ RowsFit(u) /\ ChildFits(u) /\ StateValid(LatestAttempt(u))
      /\ run.state # "CLOSED" /\ unit[u].state # "CLOSED"
      /\ LatestAttempt(u) \in Attempt
  BY UnitParts, UnitTypes
<1>2. /\ attempt' \in [Units -> Seq(Attempt)]
      /\ \A v \in Units : Len(attempt'[v]) = Latest(v) /\ Latest(v)' = Latest(v)
      /\ \A v \in Units : v # u => attempt'[v] = attempt[v]
      /\ attempt'[u][Latest(u)] = a /\ LatestAttempt(u)' = a
      /\ \A n \in 1..Latest(u) : n # Latest(u) => attempt'[u][n] = attempt[u][n]
  BY <1>1, OneAttemptChanges
<1>3. TUTypeOK'
  BY <1>1, <1>2 DEF TUTypeOK, Latest
<1>4. RowsFit(u)' /\ AttemptsMove(u)
  BY <1>1, <1>2, RowsChange DEF RowsFit
<1>5. RowMoves(LatestAttempt(u), a) /\ RowMoves(unit[u], unit'[u])
  BY <1>1 DEF RowMoves, LifecycleMoves, StateValid, Attempt, RowsFit
<1>6. UnitStep(u)
  BY <1>1, <1>2, <1>4, <1>5, UnitStepChange
<1>7. RunFits'
  BY <1>1, RunStays
<1>8. RunStep
  BY <1>1 DEF RunStep, RowMoves, LifecycleMoves, RunFits
<1>9. ChildFits(u)'
  <2>1. CASE child'[u] = child[u]
    BY <1>1, <1>2, <1>3, <1>4, <2>1, ChildStays
  <2>2. CASE /\ child'[u].at = "DONE" /\ child'[u].execution # "PASSED"
             /\ child'[u].answer \in Outcome /\ child'[u].answer.number = Latest(u)
             /\ Agrees(a, child'[u].answer)
    <3>1. Latest(u) <= Latest(u)'
      BY <1>1, <1>2, UnitTypes, UnitNumbers
    <3>2. Stands(u, child[u].answer)'
      BY <1>2, <2>2, <3>1 DEF Stands, Agrees
    <3>3. \A n \in Numbers : <<u, n>> \in working' => n = Latest(u)' /\ unit'[u].state # "QUEUED"
      BY <1>1, <1>2 DEF ChildFits
    <3> QED
      BY <2>2, <3>2, <3>3 DEF ChildFits
  <2> QED
    BY <2>1, <2>2
<1>10. \A v \in Units : v # u =>
           /\ unit'[v] = unit[v] /\ attempt'[v] = attempt[v] /\ child'[v] = child[v]
           /\ \A n \in Numbers : <<v, n>> \in working' => <<v, n>> \in working
  BY <1>2
<1> QED
  BY <1>2, <1>3, <1>4, <1>6, <1>7, <1>8, <1>9, <1>10, OneUnitMoves

\* A seal closes the attempt that is running, with its verdict.
LEMMA AcceptSealKeeps ==
  ASSUME RunInv, NEW u \in Units, NEW n \in Numbers, NEW verdict \in Verdicts,
         AcceptSeal(u, n, verdict)
  PROVE  RunInv' /\ StepFits
<1>1. TUTypeOK /\ ChildFits(u) /\ LatestAttempt(u) \in Attempt
  BY UnitParts, UnitTypes
<1>2. n = Latest(u)
  BY <1>1 DEF AcceptSeal, ChildFits
<1> DEFINE a == ClosedBy("SEAL", verdict, LatestAttempt(u))
<1>3. /\ a \in Attempt /\ a.state = "CLOSED" /\ a.quality = verdict /\ a.by = "SEAL"
      /\ a.ticket = LatestAttempt(u).ticket
  BY <1>1, TaskUnitAssumption DEF ClosedBy, Attempt, Qualities
<1>4. StateValid(a) /\ a.quality # "INFRA_ERROR" /\ a.by # NoOne
  BY <1>3, TaskUnitAssumption DEF StateValid, NoOne
<1>5. LatestAttempt(u).state # "CLOSED"
  BY <1>2 DEF AcceptSeal, Sealable, LatestAttempt
<1>6. attempt' = [attempt EXCEPT ![u] = [attempt[u] EXCEPT ![Latest(u)] = a]]
  BY <1>2 DEF AcceptSeal, LatestAttempt
<1> HIDE DEF a
<1>7. /\ UNCHANGED <<run, unit, working, orphan, root, overdue, child>>
      /\ faults' \in 0..MaxFaults /\ child' \in [Units -> Child]
  BY <1>1 DEF AcceptSeal, children, TUTypeOK
<1> QED
  BY <1>3, <1>4, <1>5, <1>6, <1>7, AttemptCloses

\* A child that finishes with an answer of the attempt it had.
LEMMA FinishAttemptKeeps ==
  ASSUME RunInv, NEW u \in Units, FinishAttempt(u)
  PROVE  RunInv' /\ StepFits
<1>1. /\ TUTypeOK /\ RowsFit(u) /\ ChildFits(u)
      /\ StateValid(LatestAttempt(u)) /\ LatestAttempt(u) \in Attempt
      /\ child[u] \in Child /\ child \in [Units -> Child] /\ child[u].at = "FINISH"
      /\ attempt \in [Units -> Seq(Attempt)]
  BY UnitParts, UnitTypes DEF FinishAttempt, TUTypeOK
<1>2. Latest(u) \in Numbers /\ Latest(u) \in 1..Latest(u) /\ Latest(u) \in Nat
      /\ DOMAIN attempt[u] = 1..Latest(u) /\ attempt[u] \in Seq(Attempt)
  BY <1>1, UnitTypes, UnitNumbers
<1> DEFINE a == Finished(u)
           c == [child[u] EXCEPT !.at = "DONE", !.answer = AnswerOf(u, a)]
<1>3. /\ attempt' = [attempt EXCEPT ![u] = [attempt[u] EXCEPT ![Latest(u)] = a]]
      /\ UNCHANGED <<run, unit, working, orphan, root, overdue>> /\ faults' \in 0..MaxFaults
      /\ child' = [child EXCEPT ![u] = c] \/ UNCHANGED child
  BY <1>1, FaultType DEF FinishAttempt, Lost
<1>4. /\ ExecutedQuality(u) \in Qualities \ {"PENDING", "PASSED"}
      /\ ExecutedQuality(u) = "INFRA_ERROR" => child[u].execution = "INFRA_ERROR"
  BY <1>1 DEF ExecutedQuality, ChildFits, Child, Qualities
<1>5. /\ LatestAttempt(u).state = "CLOSED" => LatestAttempt(u).by # NoOne
      /\ LatestAttempt(u) = attempt[u][Latest(u)]
  BY <1>1, <1>2 DEF RowsFit, LatestAttempt
<1>6. /\ a \in Attempt /\ a.state = "CLOSED" /\ StateValid(a) /\ a.by # NoOne
      /\ a.ticket = LatestAttempt(u).ticket
      /\ LatestAttempt(u).state = "CLOSED" => a = LatestAttempt(u)
      /\ LatestAttempt(u).state # "CLOSED" => a.by = "CHILD" /\ a.quality = ExecutedQuality(u)
  <2>1. CASE LatestAttempt(u).state = "CLOSED"
    BY <1>1, <1>5, <2>1 DEF Finished
  <2>2. CASE LatestAttempt(u).state # "CLOSED"
    <3>1. a = ClosedBy("CHILD", ExecutedQuality(u), LatestAttempt(u))
      BY <2>2 DEF Finished
    <3> HIDE DEF a
    <3>2. /\ a \in Attempt /\ a.state = "CLOSED" /\ a.quality = ExecutedQuality(u)
          /\ a.by = "CHILD" /\ a.ticket = LatestAttempt(u).ticket
      BY <1>1, <1>4, <3>1 DEF ClosedBy, Attempt
    <3> QED
      BY <1>4, <2>2, <3>2 DEF StateValid, NoOne
  <2> QED
    BY <2>1, <2>2
<1>7. AnswerOf(u, a) = [number |-> Latest(u), quality |-> a.quality, by |-> a.by]
  BY DEF AnswerOf
<1> HIDE DEF a
<1>8. AnswerOf(u, a) \in Outcome /\ Agrees(a, AnswerOf(u, a)) /\ AnswerOf(u, a).number = Latest(u)
  BY <1>2, <1>6, <1>7 DEF Outcome, Agrees, Attempt, StateValid, NoOne
<1>9. c \in Child /\ c.at = "DONE" /\ c.execution = child[u].execution
      /\ c.answer = AnswerOf(u, a)
  BY <1>1, <1>8 DEF Child
<1>10. c.execution # "PASSED"
  BY <1>1, <1>9 DEF ChildFits
<1> HIDE DEF c
<1>11. CASE LatestAttempt(u).state = "CLOSED"
  <2>1. attempt' = attempt
    BY <1>1, <1>2, <1>3, <1>5, <1>6, <1>11
  <2>2. Stands(u, c.answer)
    BY <1>2, <1>5, <1>6, <1>8, <1>9, <1>11 DEF Stands
  <2>3. CASE child' = [child EXCEPT ![u] = c]
    <3>1. /\ UNCHANGED <<rows, root, overdue>> /\ faults' \in 0..MaxFaults
          /\ orphan' \subseteq Units /\ working' \subseteq working
      BY <1>1, <1>3, <2>1 DEF rows, TUTypeOK
    <3> QED
      BY <1>9, <1>10, <2>2, <2>3, <3>1, ChildMoves
  <2>4. CASE UNCHANGED child
    <3>1. child' = [child EXCEPT ![u] = child[u]]
      BY <1>1, <2>4
    <3>2. /\ UNCHANGED <<rows, root, overdue>> /\ faults' \in 0..MaxFaults
          /\ orphan' \subseteq Units /\ working' \subseteq working
      BY <1>1, <1>3, <2>1 DEF rows, TUTypeOK
    <3>3. /\ child[u].execution # "PASSED"
          /\ child[u].at = "FINISH" => /\ child[u].execution # "PENDING"
                                       /\ child[u].execution = "INFRA_ERROR" =>
                                            /\ unit[u].state # "QUEUED"
                                            /\ <<u, Latest(u)>> \notin working'
      BY <1>1, <1>3 DEF ChildFits
    <3>4. child[u].at # "DONE"
      BY <1>1
    <3> QED
      BY <1>1, <3>1, <3>2, <3>3, <3>4, ChildMoves
  <2> QED
    BY <1>3, <2>3, <2>4
<1>12. CASE LatestAttempt(u).state # "CLOSED"
  <2>1. /\ a.quality = "INFRA_ERROR" => unit[u].state # "QUEUED" /\ <<u, Latest(u)>> \notin working
        /\ a.quality # "PASSED"
    BY <1>1, <1>4, <1>6, <1>12 DEF ChildFits
  <2>2. /\ child' \in [Units -> Child] /\ \A v \in Units : v # u => child'[v] = child[v]
        /\ child'[u] = child[u] \/ child'[u] = c
    BY <1>1, <1>3, <1>9
  <2>3. child'[u] = c => /\ child'[u].at = "DONE" /\ child'[u].execution # "PASSED"
                         /\ child'[u].answer \in Outcome /\ child'[u].answer.number = Latest(u)
                         /\ Agrees(a, child'[u].answer)
    BY <1>8, <1>9, <1>10
  <2> QED
    BY <1>3, <1>6, <1>12, <2>1, <2>2, <2>3, AttemptCloses
<1> QED
  BY <1>11, <1>12

-----------------------------------------------------------------------------
(* The steps of users, of the clock, and the transactions of the root *)

\* A step that touches neither the rows of units nor children, and not what the
\* root remembers of them.
LEMMA UnitsUntouched ==
  ASSUME RunInv, TUTypeOK', UNCHANGED <<unit, attempt, child, working>>,
         root'.latest = root.latest, root'.final = root.final, RunFits', RunStep, RootFits'
  PROVE  RunInv' /\ StepFits
<1>1. TUTypeOK
  BY DEF RunInv
<1>2. ASSUME NEW v \in Units
      PROVE  ChildFits(v)' /\ MemoryFits(v)'
  <2>1. /\ unit'[v] = unit[v] /\ attempt'[v] = attempt[v] /\ child'[v] = child[v]
        /\ root'.latest[v] = root.latest[v] /\ root'.final[v] = root.final[v]
        /\ \A k \in Numbers : <<v, k>> \in working' => <<v, k>> \in working
    OBVIOUS
  <2> QED
    BY <1>1, <2>1, UnitParts, UnitStays
<1>3. \A v \in Units, k \in Numbers : <<v, k>> \in working' => <<v, k>> \in working
  OBVIOUS
<1> QED
  BY <1>2, <1>3, RowsUntouched

\* So it is when the root does not move but for what it is told.
LEMMA RootTold ==
  ASSUME RunInv, TUTypeOK', UNCHANGED <<unit, attempt, child, working>>, RunFits', RunStep,
         root' = root \/ (\E reply \in Answers :
                            reply.is # "SETTLED" /\ root' = [root EXCEPT !.reply = reply])
  PROVE  RunInv' /\ StepFits
<1>1. TUTypeOK /\ RootFits
  BY DEF RunInv
<1>2. /\ root'.at = root.at /\ root'.unsettled = root.unsettled /\ root'.pending = root.pending
      /\ root'.latest = root.latest /\ root'.final = root.final
      /\ root'.reply = root.reply \/ root'.reply.is # "SETTLED"
  BY <1>1 DEF TUTypeOK, Root
<1>3. \A v \in Units : Latest(v) <= Latest(v)'
  BY <1>1, UnitTypes, UnitNumbers DEF Latest
<1>4. RootFits'
  BY <1>1, <1>2, <1>3, RootStays
<1> QED
  BY <1>2, <1>4, UnitsUntouched

\* The run moves to a state that is not its last.
LEMMA RunMovesOn ==
  ASSUME RunInv, run.state # "CLOSED", run'.state # "CLOSED", run'.quality = run.quality,
         run'.cancel <=> run'.state = "CANCELING", LifecycleMoves(run.state, run'.state)
  PROVE  RunFits' /\ RunStep
<1>1. RunFits /\ StateValid(run)
  BY DEF RunInv, RunFits
<1> QED
  BY <1>1, RunMoves DEF RunStep, RowMoves, StateValid

\* A run that stays makes no step.
LEMMA RunUntouched ==
  ASSUME RunInv, UNCHANGED rows
  PROVE  RunFits' /\ RunStep
<1>1. RunFits /\ UNCHANGED <<run, unit, attempt>>
  BY DEF RunInv, rows
<1> QED
  BY <1>1, RunStays DEF RunStep, RowMoves, LifecycleMoves, RunFits

\* What the row of the run says of a cancel that was accepted.
LEMMA CancelState ==
  ASSUME RunInv
  PROVE  /\ run \in TaskRun /\ TUTypeOK
         /\ run.state \notin {"CANCELING", "CLOSED"} => ~ run.cancel
BY DEF RunInv, RunFits, TUTypeOK, TaskRun

\* What users and the clock do moves the row of the run at most.
LEMMA RequestsKeep ==
  ASSUME RunInv, RequestPause \/ RequestResume \/ RequestCancel \/ DeadlinePasses
  PROVE  RunInv' /\ StepFits
<1>1. /\ run \in TaskRun /\ TUTypeOK
      /\ run.state \notin {"CANCELING", "CLOSED"} => ~ run.cancel
  BY CancelState
<1>2. CASE RequestPause
  <2> DEFINE p == run.pauses + 1
  <2>5. p \in 0..MaxPauses
    BY <1>1, <1>2, UnitNumbers DEF RequestPause, TaskRun
  <2>6. run' = [run EXCEPT !.state = "PAUSE_REQUESTED", !.pauses = p]
    BY <1>2 DEF RequestPause
  <2> HIDE DEF p
  <2>1. /\ run' \in TaskRun /\ run'.state = "PAUSE_REQUESTED" /\ run'.quality = run.quality
        /\ run'.cancel = run.cancel /\ run.state = "RUNNING"
        /\ UNCHANGED <<unit, attempt, children, root, overdue, faults>>
    BY <1>1, <1>2, <2>5, <2>6 DEF RequestPause, TaskRun
  <2>2. TUTypeOK'
    BY <1>1, <2>1 DEF TUTypeOK, children
  <2>3. RunFits' /\ RunStep
    BY <1>1, <2>1, RunMovesOn DEF LifecycleMoves
  <2> QED
    BY <2>1, <2>2, <2>3, RootTold DEF children
<1>3. CASE RequestResume
  <2>1. /\ run' \in TaskRun /\ run'.state = "PAUSED" /\ run'.quality = run.quality
        /\ run'.cancel = run.cancel /\ run.state = "PAUSED"
        /\ UNCHANGED <<unit, attempt, children, root, overdue, faults>>
    BY <1>1, <1>3 DEF RequestResume, TaskRun
  <2>2. TUTypeOK'
    BY <1>1, <2>1 DEF TUTypeOK, children
  <2>3. RunFits' /\ RunStep
    BY <1>1, <2>1, RunMovesOn DEF LifecycleMoves
  <2> QED
    BY <2>1, <2>2, <2>3, RootTold DEF children
<1>4. CASE RequestCancel
  <2>1. /\ run' \in TaskRun /\ run'.state = "CANCELING" /\ run'.quality = run.quality
        /\ run'.cancel /\ run.state \notin {"CANCELING", "CLOSED"}
        /\ UNCHANGED <<unit, attempt, children, root, overdue, faults>>
    BY <1>1, <1>4 DEF RequestCancel, TaskRun
  <2>2. TUTypeOK'
    BY <1>1, <2>1 DEF TUTypeOK, children
  <2>3. LifecycleMoves(run.state, run'.state)
    BY <1>1, <2>1 DEF LifecycleMoves, TaskRun
  <2>4. RunFits' /\ RunStep
    BY <1>1, <2>1, <2>3, RunMovesOn
  <2> QED
    BY <2>1, <2>2, <2>4, RootTold DEF children
<1>5. CASE DeadlinePasses
  <2>1. UNCHANGED <<rows, children, root, faults>> /\ overdue' \in BOOLEAN
    BY <1>5 DEF DeadlinePasses
  <2>2. TUTypeOK'
    BY <1>1, <2>1 DEF TUTypeOK, children, rows
  <2>3. RunFits' /\ RunStep
    BY <2>1, RunUntouched
  <2> QED
    BY <2>1, <2>2, <2>3, RootTold DEF children, rows
<1> QED
  BY <1>2, <1>3, <1>4, <1>5

\* What the root is told, or would have been.
LEMMA ReplyTypes ==
  ASSUME TUTypeOK, NEW reply \in Answers, Replies(reply)
  PROVE  /\ root' \in Root /\ faults' \in 0..MaxFaults
         /\ root' = root \/ root' = [root EXCEPT !.reply = reply]
<1>1. root' = root \/ root' = [root EXCEPT !.reply = reply]
  BY DEF Replies
<1>2. faults' \in 0..MaxFaults
  BY FaultType DEF Replies, Lost
<1>3. root' \in Root
  BY <1>1 DEF TUTypeOK, Root
<1> QED
  BY <1>1, <1>2, <1>3

\* The types of an answer that settles nothing.
LEMMA SaysTypes ==
  ASSUME TUTypeOK,
         NEW what \in {"NONE", "ERROR", "CANCELING", "PAUSED", "DISPATCHABLE", "PAUSE_REQUESTED",
                       "CANCEL_REQUESTED", "AUTHORIZED", "RESULT"},
         Says(what) \/ ( root' = [root EXCEPT !.reply = [is |-> what]] /\ faults' \in 0..MaxFaults )
  PROVE  /\ root' \in Root /\ faults' \in 0..MaxFaults
         /\ root' = root \/ (\E reply \in Answers :
                               reply.is # "SETTLED" /\ root' = [root EXCEPT !.reply = reply])
<1> DEFINE reply == [is |-> what]
<1>1. reply \in Answers /\ reply.is # "SETTLED"
  BY DEF Answers
<1> HIDE DEF reply
<1>2. /\ root' \in Root /\ faults' \in 0..MaxFaults
      /\ root' = root \/ root' = [root EXCEPT !.reply = reply]
  <2>1. CASE Says(what)
    <3>1. Replies(reply)
      BY <2>1 DEF Says, reply
    <3> QED
      BY <1>1, <3>1, ReplyTypes
  <2>2. CASE root' = [root EXCEPT !.reply = [is |-> what]] /\ faults' \in 0..MaxFaults
    <3>1. root' = [root EXCEPT !.reply = reply]
      BY <2>2 DEF reply
    <3> QED
      BY <1>1, <2>2, <3>1 DEF TUTypeOK, Root
  <2> QED
    BY <2>1, <2>2
<1> QED
  BY <1>1, <1>2

\* An invariant error rolls back: the root is told, and no row has changed.
LEMMA RefusesKeeps ==
  ASSUME RunInv, Refuses, UNCHANGED <<children, overdue>>
  PROVE  RunInv' /\ StepFits
<1>1. TUTypeOK
  BY DEF RunInv
<1>2. /\ root' \in Root /\ faults' \in 0..MaxFaults
      /\ root' = root \/ (\E reply \in Answers :
                            reply.is # "SETTLED" /\ root' = [root EXCEPT !.reply = reply])
  BY <1>1, FaultType, SaysTypes DEF Refuses
<1>3. TUTypeOK' /\ UNCHANGED rows
  BY <1>1, <1>2 DEF TUTypeOK, Refuses, rows, children
<1>4. RunFits' /\ RunStep
  BY <1>3, RunUntouched
<1> QED
  BY <1>2, <1>3, <1>4, RootTold DEF rows, children

\* So does a transaction that says something and writes nothing.
LEMMA SaysKeeps ==
  ASSUME RunInv,
         NEW what \in {"NONE", "ERROR", "CANCELING", "PAUSED", "DISPATCHABLE", "PAUSE_REQUESTED",
                       "CANCEL_REQUESTED", "AUTHORIZED", "RESULT"},
         Says(what), UNCHANGED rows, UNCHANGED <<children, overdue>>
  PROVE  RunInv' /\ StepFits
<1>1. TUTypeOK
  BY DEF RunInv
<1>2. /\ root' \in Root /\ faults' \in 0..MaxFaults
      /\ root' = root \/ (\E reply \in Answers :
                            reply.is # "SETTLED" /\ root' = [root EXCEPT !.reply = reply])
  BY <1>1, SaysTypes
<1>3. TUTypeOK'
  BY <1>1, <1>2 DEF TUTypeOK, rows, children
<1>4. RunFits' /\ RunStep
  BY RunUntouched
<1> QED
  BY <1>2, <1>3, <1>4, RootTold DEF rows, children

\* A batch that admission rejects touches no row.
LEMMA BatchRejectedKeeps ==
  ASSUME RunInv, BatchRejected
  PROVE  RunInv' /\ StepFits
<1>1. TUTypeOK
  BY DEF RunInv
<1>2. faults' \in 0..MaxFaults /\ root' = [root EXCEPT !.reply = [is |-> "ERROR"]]
      /\ UNCHANGED rows /\ UNCHANGED <<children, overdue>>
  BY <1>1, FaultType DEF BatchRejected, children
<1>3. /\ root' \in Root
      /\ root' = root \/ (\E reply \in Answers :
                            reply.is # "SETTLED" /\ root' = [root EXCEPT !.reply = reply])
  BY <1>1, <1>2, SaysTypes
<1>4. TUTypeOK'
  BY <1>1, <1>2, <1>3 DEF TUTypeOK, rows, children
<1>5. RunFits' /\ RunStep
  BY <1>2, RunUntouched
<1> QED
  BY <1>2, <1>3, <1>4, <1>5, RootTold DEF rows, children

\* A checkpoint pauses or resumes the run, and says so.
LEMMA CheckpointKeeps ==
  ASSUME RunInv, Checkpoint
  PROVE  RunInv' /\ StepFits
<1>1. /\ run \in TaskRun /\ TUTypeOK
      /\ run.state \notin {"CANCELING", "CLOSED"} => ~ run.cancel
  BY CancelState
<1>2. UNCHANGED <<unit, attempt, children, overdue>>
  BY DEF Checkpoint
<1>3. CASE UNCHANGED run /\ (Says("CANCELING") \/ Says("DISPATCHABLE"))
  BY <1>2, <1>3, SaysKeeps DEF rows
<1>4. ASSUME NEW what \in {"PAUSED", "DISPATCHABLE"}, Says(what), run' \in TaskRun,
             run'.state \in {"PAUSED", "RUNNING"}, run'.quality = run.quality,
             run'.cancel = run.cancel, LifecycleMoves(run.state, run'.state),
             run.state \in {"PAUSE_REQUESTED", "PAUSED"}
      PROVE  RunInv' /\ StepFits
  <2>1. /\ root' \in Root /\ faults' \in 0..MaxFaults
        /\ root' = root \/ (\E reply \in Answers :
                              reply.is # "SETTLED" /\ root' = [root EXCEPT !.reply = reply])
    BY <1>1, <1>4, SaysTypes
  <2>2. TUTypeOK'
    BY <1>1, <1>2, <1>4, <2>1 DEF TUTypeOK, children
  <2>3. RunFits' /\ RunStep
    BY <1>1, <1>4, RunMovesOn
  <2> QED
    BY <1>2, <2>1, <2>2, <2>3, RootTold DEF children
<1>5. CASE /\ run.state = "PAUSE_REQUESTED" \/ (run.state = "PAUSED" /\ ~ run.resume)
           /\ run' = [run EXCEPT !.state = "PAUSED"]
           /\ Says("PAUSED")
  <2>1. /\ run' \in TaskRun /\ run'.state = "PAUSED" /\ run'.quality = run.quality
        /\ run'.cancel = run.cancel
    BY <1>1, <1>5 DEF TaskRun
  <2> QED
    BY <1>4, <1>5, <2>1 DEF LifecycleMoves
<1>6. CASE /\ run.state = "PAUSED" /\ run.resume
           /\ run' = [run EXCEPT !.state = "RUNNING", !.resume = FALSE]
           /\ Says("DISPATCHABLE")
  <2>1. /\ run' \in TaskRun /\ run'.state = "RUNNING" /\ run'.quality = run.quality
        /\ run'.cancel = run.cancel
    BY <1>1, <1>6 DEF TaskRun
  <2> QED
    BY <1>4, <1>6, <2>1 DEF LifecycleMoves
<1> QED
  BY <1>3, <1>5, <1>6 DEF Checkpoint

\* A cancel that reaches the root stops the children that have not begun.
LEMMA CancelSignaledKeeps ==
  ASSUME RunInv, CancelSignaled
  PROVE  RunInv' /\ StepFits
<1>1. /\ TUTypeOK /\ RootFits /\ child \in [Units -> Child] /\ root \in Root
      /\ UNCHANGED <<run, unit, attempt, working, overdue, faults>> /\ UNCHANGED rows
  BY DEF RunInv, TUTypeOK, CancelSignaled, rows
<1>2. root' = [root EXCEPT !.cancel = TRUE]
  BY DEF CancelSignaled
<1>3. /\ root' \in Root /\ root'.at = root.at /\ root'.unsettled = root.unsettled
      /\ root'.pending = root.pending /\ root'.latest = root.latest /\ root'.final = root.final
      /\ root'.reply = root.reply
  BY <1>1, <1>2 DEF Root
<1>4. PICK never \in SUBSET Beginning :
        /\ child' = [u \in Units |->
             IF u \in never THEN [child[u] EXCEPT !.at = "FAILED"]
             ELSE IF u \in Beginning
                  THEN [child[u] EXCEPT !.at = "FINISH", !.execution = "INCONCLUSIVE"]
             ELSE child[u]]
        /\ orphan' = orphan \cup (Beginning \ never)
  BY DEF CancelSignaled
<1>5. ASSUME NEW u \in Units
      PROVE  /\ child'[u] \in Child
             /\ \/ child'[u] = child[u]
                \/ child'[u].at = "FAILED" /\ child'[u].execution = child[u].execution
                \/ child'[u].at = "FINISH" /\ child'[u].execution = "INCONCLUSIVE"
  BY <1>1, <1>4 DEF Child, Qualities
<1>6. child' \in [Units -> Child] /\ orphan' \subseteq Units
  <2>1. DOMAIN child' = Units /\ child' = [u \in DOMAIN child' |-> child'[u]]
    BY <1>4
  <2> QED
    BY <1>1, <1>4, <1>5, <2>1 DEF Beginning, TUTypeOK
<1>7. TUTypeOK'
  BY <1>1, <1>3, <1>6 DEF TUTypeOK
<1>8. ASSUME NEW u \in Units
      PROVE  ChildFits(u)' /\ MemoryFits(u)' /\ Latest(u) <= Latest(u)'
  <2>1. /\ RowsFit(u) /\ ChildFits(u) /\ MemoryFits(u) /\ unit'[u] = unit[u]
        /\ attempt'[u] = attempt[u] /\ Latest(u)' = Latest(u)
        /\ root'.latest[u] = root.latest[u] /\ root'.final[u] = root.final[u]
        /\ \A n \in Numbers : <<u, n>> \in working' => <<u, n>> \in working
    BY <1>1, <1>3, UnitParts DEF Latest
  <2>2. AttemptsMove(u)
    BY <1>1, <2>1, RowsStay
  <2>3. MemoryFits(u)'
    BY <1>1, <1>7, <2>1, <2>2, MemoryStays
  <2>4. ChildFits(u)'
    <3>1. CASE child'[u] = child[u]
      BY <1>1, <1>7, <2>1, <2>2, <3>1, ChildStays
    <3>2. CASE child'[u].at = "FAILED" /\ child'[u].execution = child[u].execution
      BY <2>1, <3>2 DEF ChildFits
    <3>3. CASE child'[u].at = "FINISH" /\ child'[u].execution = "INCONCLUSIVE"
      BY <2>1, <3>3 DEF ChildFits
    <3> QED
      BY <1>5, <3>1, <3>2, <3>3
  <2> QED
    BY <1>1, <2>1, <2>3, <2>4, UnitTypes, UnitNumbers
<1>9. RunFits' /\ RunStep
  BY <1>1, RunUntouched
<1>10. RootFits'
  BY <1>1, <1>3, <1>7, <1>8, RootStays
<1>11. \A u \in Units, n \in Numbers : <<u, n>> \in working' => <<u, n>> \in working
  BY <1>1
<1> QED
  BY <1>1, <1>7, <1>8, <1>9, <1>10, <1>11, RowsUntouched

\* The attempts of a unit when the last of them is replaced.
LEMMA LatestReplaced ==
  ASSUME TUTypeOK, NEW u \in Units, NEW a \in Attempt,
         attempt'[u] = [attempt[u] EXCEPT ![Latest(u)] = a]
  PROVE  /\ attempt'[u] \in Seq(Attempt) /\ Len(attempt'[u]) = Latest(u)
         /\ attempt'[u][Latest(u)] = a
         /\ \A n \in 1..Latest(u) : n # Latest(u) => attempt'[u][n] = attempt[u][n]
<1>1. attempt[u] \in Seq(Attempt) /\ Latest(u) \in 1..Len(attempt[u]) /\ Len(attempt[u]) = Latest(u)
  BY UnitTypes DEF Latest
<1> QED
  BY <1>1

\* The unit that is dispatched for the first time has had no other attempt.
LEMMA DispatchedLatest ==
  ASSUME TUTypeOK, NEW u \in Units, RowsFit(u), DispatchableAttempt(u, root.number[u])
  PROVE  DispatchableAttempt(u, Latest(u))
<1>1. Latest(u) \in Nat /\ Latest(u) >= 1
  BY UnitTypes, UnitNumbers DEF Numbers
<1>2. CASE root.number[u] = 1
  <2>1. unit[u].state = "QUEUED"
    BY <1>2 DEF DispatchableAttempt
  <2>2. SUFFICES ASSUME Latest(u) # 1 PROVE FALSE
    BY <2>1 DEF DispatchableAttempt
  <2>3. 1 \in 1..Latest(u) /\ 1 < Latest(u)
    BY <1>1, <2>2
  <2> QED
    BY <2>1, <2>3 DEF RowsFit
<1>3. CASE root.number[u] # 1
  BY <1>3 DEF DispatchableAttempt
<1> QED
  BY <1>2, <1>3

\* A batch is authorized: each of its attempts has a ticket then.
LEMMA AuthorizedKeeps ==
  ASSUME RunInv, run.state \in {"QUEUED", "RUNNING"}, Preparable, Says("AUTHORIZED"),
         attempt' = [u \in Units |-> IF u \in Unprepared
                       THEN [attempt[u] EXCEPT ![Latest(u)].ticket = TRUE] ELSE attempt[u]],
         UNCHANGED <<run, unit, children, overdue>>
  PROVE  RunInv' /\ StepFits
<1>1. TUTypeOK /\ RunFits /\ RootFits /\ RetriesInBudget
  BY DEF RunInv
<1>2. /\ root' \in Root /\ faults' \in 0..MaxFaults
      /\ root' = root \/ (\E reply \in Answers :
                            reply.is # "SETTLED" /\ root' = [root EXCEPT !.reply = reply])
  BY <1>1, SaysTypes
<1>3. /\ root'.at = root.at /\ root'.unsettled = root.unsettled /\ root'.pending = root.pending
      /\ root'.latest = root.latest /\ root'.final = root.final
      /\ root'.reply = root.reply \/ root'.reply.is # "SETTLED"
  BY <1>1, <1>2 DEF TUTypeOK, Root
<1>4. UNCHANGED <<child, working, orphan>>
  BY DEF children
<1>5. ASSUME NEW u \in Units
      PROVE  /\ attempt'[u] \in Seq(Attempt) /\ Len(attempt'[u]) = Latest(u)
             /\ RowsFit(u)' /\ UnitStep(u) /\ Latest(u)' = Latest(u)
  <2>1. /\ RowsFit(u) /\ LatestAttempt(u) \in Attempt /\ Latest(u) \in 1..Latest(u)
        /\ attempt[u] \in Seq(Attempt) /\ StateValid(LatestAttempt(u)) /\ unit[u] \in ExecutionUnit
    BY <1>1, UnitParts, UnitTypes
  <2>2. \A n \in Numbers : <<u, n>> \in working' => <<u, n>> \in working
    BY <1>4
  <2>3. CASE u \notin Unprepared
    <3>1. attempt'[u] = attempt[u] /\ unit'[u] = unit[u]
      BY <2>3
    <3> QED
      BY <1>1, <2>1, <2>2, <3>1, RowsStay, UnitStepStays DEF Latest
  <2>4. CASE u \in Unprepared
    <3> DEFINE a == [LatestAttempt(u) EXCEPT !.ticket = TRUE]
    <3>1. attempt'[u] = [attempt[u] EXCEPT ![Latest(u)] = a]
      BY <2>4 DEF LatestAttempt
    <3>2. /\ a \in Attempt /\ a.state = LatestAttempt(u).state /\ a.by = LatestAttempt(u).by
          /\ a.quality = LatestAttempt(u).quality
      BY <2>1 DEF Attempt
    <3> HIDE DEF a
    <3>3. /\ attempt'[u] \in Seq(Attempt) /\ Len(attempt'[u]) = Latest(u)
          /\ attempt'[u][Latest(u)] = a
          /\ \A n \in 1..Latest(u) : n # Latest(u) => attempt'[u][n] = attempt[u][n]
      BY <1>1, <3>1, <3>2, LatestReplaced
    <3>4. /\ DispatchableAttempt(u, Latest(u)) /\ LatestAttempt(u).state = "QUEUED" /\ ~ overdue
      BY <1>1, <2>1, <2>4, DispatchedLatest DEF Preparable
    <3>5. TicketInsertable(u)
      BY <3>4 DEF TicketInsertable
    <3>6. StateValid(a) /\ a.state = "QUEUED" /\ a.quality = "PENDING"
      BY <2>1, <3>2, <3>4 DEF StateValid, Attempt
    <3>7. unit[u].state # "CLOSED" /\ StateValid(unit[u])
      BY <2>1, <3>4, UnitParts DEF RowsFit
    <3>8. RowsFit(u)' /\ AttemptsMove(u)
      BY <1>1, <2>1, <2>2, <3>2, <3>3, <3>4, <3>6, <3>7, RowsChange
    <3>9. RowMoves(LatestAttempt(u), a) /\ RowMoves(unit[u], unit'[u])
      BY <3>2, <3>6, <3>7 DEF RowMoves, LifecycleMoves
    <3>10. UnitStep(u)
      BY <1>1, <2>1, <3>3, <3>5, <3>8, <3>9, UnitStepChange
    <3> QED
      BY <3>3, <3>8, <3>10 DEF Latest
  <2> QED
    BY <2>3, <2>4
<1>6. attempt' \in [Units -> Seq(Attempt)]
  <2>1. DOMAIN attempt' = Units /\ attempt' = [u \in DOMAIN attempt' |-> attempt'[u]]
    OBVIOUS
  <2> QED
    BY <1>5, <2>1
<1>7. TUTypeOK'
  BY <1>1, <1>2, <1>4, <1>5, <1>6 DEF TUTypeOK
<1>8. ASSUME NEW u \in Units
      PROVE  ChildFits(u)' /\ MemoryFits(u)' /\ Latest(u) <= Latest(u)'
  <2>1. /\ AttemptsMove(u) /\ ChildFits(u) /\ MemoryFits(u) /\ child'[u] = child[u]
        /\ root'.latest[u] = root.latest[u] /\ root'.final[u] = root.final[u]
        /\ Latest(u)' = Latest(u) /\ unit'[u] = unit[u]
        /\ \A n \in Numbers : <<u, n>> \in working' => <<u, n>> \in working
    BY <1>3, <1>4, <1>5, UnitParts DEF UnitStep
  <2>2. ChildFits(u)'
    BY <1>1, <1>7, <2>1, ChildStays
  <2>3. MemoryFits(u)'
    BY <1>1, <1>7, <2>1, MemoryStays
  <2> QED
    BY <1>1, <2>1, <2>2, <2>3, UnitTypes, UnitNumbers
<1>9. RunFits' /\ RunStep
  BY <1>1, RunStays DEF RunStep, RowMoves, LifecycleMoves, RunFits
<1>10. RootFits'
  BY <1>1, <1>3, <1>7, <1>8, RootStays
<1>11. RetriesInBudget'
  BY <1>1, <1>5, <1>7, BudgetStays
<1> QED
  BY <1>5, <1>7, <1>8, <1>9, <1>10, <1>11 DEF RunInv, UnitsFit, StepFits

\* Preparing a batch authorizes all of it, or writes nothing.
LEMMA PrepareBatchKeeps ==
  ASSUME RunInv, PrepareBatch
  PROVE  RunInv' /\ StepFits
<1>1. UNCHANGED <<run, unit, children, overdue>>
  BY DEF PrepareBatch
<1>2. CASE UNCHANGED attempt /\ (Says("PAUSE_REQUESTED") \/ Says("CANCEL_REQUESTED"))
  BY <1>1, <1>2, SaysKeeps DEF rows
<1>3. CASE Refuses
  BY <1>1, <1>3, RefusesKeeps
<1> QED
  BY <1>1, <1>2, <1>3, AuthorizedKeeps DEF PrepareBatch

-----------------------------------------------------------------------------
(* The workflow *)

Places == Activities \cup {"WAIT", "BATCH", "END", "FAILED"}

\* What a root keeps when it goes somewhere.
Kept(r, s) ==
  /\ s \in Root /\ s.reply = NoReply /\ s.unsettled = r.unsettled /\ s.pending = r.pending
  /\ s.latest = r.latest /\ s.final = r.final /\ s.number = r.number

\* A root that goes somewhere keeps what it remembers.
LEMMA GoesTypes ==
  ASSUME NEW r \in Root, NEW at \in Places
  PROVE  Kept(r, Goes(r, at)) /\ Goes(r, at).at = at /\ Goes(r, at).cancel = r.cancel
         /\ Goes(r, at).input = r.input
<1>1. NoReply \in Answers
  BY DEF NoReply, Answers
<1> QED
  BY <1>1 DEF Goes, Kept, Root, Places

\* So does one at the head of its loop.
LEMMA LoopTypes ==
  ASSUME NEW r \in Root
  PROVE  /\ Kept(r, ToFinish(r)) /\ ToFinish(r).at = "FINISH" /\ ToFinish(r).cancel = r.cancel
         /\ ToFinish(r).input = r.cancel
         /\ Kept(r, AfterLoop(r)) /\ AfterLoop(r).at \in {"LAST", "FINISH"}
         /\ Kept(r, LoopHead(r)) /\ LoopHead(r).at \in {"CHECKPOINT", "LAST", "FINISH"}
<1>1. /\ Kept(r, ToFinish(r)) /\ ToFinish(r).at = "FINISH" /\ ToFinish(r).cancel = r.cancel
      /\ ToFinish(r).input = r.cancel
  <2> DEFINE s == Goes(r, "FINISH")
  <2>1. Kept(r, s) /\ s.at = "FINISH" /\ s.cancel = r.cancel
    BY GoesTypes DEF Places, Activities
  <2>2. ToFinish(r) = [s EXCEPT !.input = r.cancel]
    BY DEF ToFinish
  <2> HIDE DEF s
  <2> QED
    BY <2>1, <2>2 DEF Kept, Root
<1>2. Kept(r, AfterLoop(r)) /\ AfterLoop(r).at \in {"LAST", "FINISH"}
  BY <1>1, GoesTypes DEF AfterLoop, Places, Activities
<1>3. Kept(r, LoopHead(r)) /\ LoopHead(r).at \in {"CHECKPOINT", "LAST", "FINISH"}
  BY <1>2, GoesTypes DEF LoopHead, Places, Activities
<1> QED
  BY <1>1, <1>2, <1>3

\* And one that leaves the loop because it was canceled.
LEMMA CanceledLoopTypes ==
  ASSUME TUTypeOK
  PROVE  Kept(root, CanceledLoop) /\ CanceledLoop.at \in {"LAST", "FINISH"}
<1> DEFINE r == [root EXCEPT !.cancel = TRUE]
<1>1. /\ r \in Root /\ r.unsettled = root.unsettled /\ r.pending = root.pending
      /\ r.latest = root.latest /\ r.final = root.final /\ r.number = root.number
  BY DEF TUTypeOK, Root
<1>2. CanceledLoop = AfterLoop(r)
  BY DEF CanceledLoop
<1> HIDE DEF r
<1>3. Kept(r, AfterLoop(r)) /\ AfterLoop(r).at \in {"LAST", "FINISH"}
  BY <1>1, LoopTypes
<1> QED
  BY <1>1, <1>2, <1>3 DEF Kept

\* A root that goes somewhere else with what it has.
LEMMA RootGoes ==
  ASSUME RunInv, UNCHANGED <<rows, working, orphan, overdue, faults, child>>,
         Kept(root, root'), root'.at = "SETTLE" => root.unsettled
  PROVE  RunInv' /\ StepFits
<1>1. TUTypeOK /\ RootFits /\ UNCHANGED <<run, unit, attempt>>
  BY DEF RunInv, rows
<1>2. TUTypeOK'
  BY <1>1 DEF TUTypeOK, Kept
<1>3. RunFits' /\ RunStep
  BY RunUntouched
<1>4. RootFits'
  BY <1>1 DEF RootFits, Kept, Batch, NoReply
<1> QED
  BY <1>1, <1>2, <1>3, <1>4, UnitsUntouched DEF Kept

\* The children of the batch begin.
LEMMA DispatchedKeeps ==
  ASSUME RunInv, Dispatched, UNCHANGED <<rows, working, orphan, overdue, faults>>
  PROVE  RunInv' /\ StepFits
<1>1. TUTypeOK /\ RootFits /\ root \in Root /\ child \in [Units -> Child]
      /\ UNCHANGED <<run, unit, attempt>>
  BY DEF RunInv, TUTypeOK, rows
<1>2. CASE root.cancel
  <2>1. root' = CanceledLoop /\ UNCHANGED child
    BY <1>2 DEF Dispatched
  <2>2. Kept(root, root') /\ root'.at # "SETTLE"
    BY <1>1, <2>1, CanceledLoopTypes
  <2> QED
    BY <2>1, <2>2, RootGoes
<1>3. CASE ~ root.cancel
  <2>1. root' = Goes(root, "BATCH")
    BY <1>3 DEF Dispatched
  <2>2. child' = [u \in Units |-> IF u \in Batch
                    THEN [at |-> "BEGIN", execution |-> "PENDING", answer |-> Nothing]
                    ELSE child[u]]
    BY <1>3 DEF Dispatched
  <2>3. Kept(root, root') /\ root'.at = "BATCH"
    BY <1>1, <2>1, GoesTypes DEF Places
  <2>4. [at |-> "BEGIN", execution |-> "PENDING", answer |-> Nothing] \in Child
    BY DEF Child, Qualities
  <2>5. child' \in [Units -> Child]
    BY <1>1, <2>2, <2>4
  <2>6. TUTypeOK'
    BY <1>1, <2>3, <2>5 DEF TUTypeOK, Kept
  <2>7. ASSUME NEW u \in Units
        PROVE  ChildFits(u)' /\ MemoryFits(u)'
    <3>1. /\ RowsFit(u) /\ ChildFits(u) /\ MemoryFits(u) /\ unit'[u] = unit[u]
          /\ attempt'[u] = attempt[u] /\ Latest(u)' = Latest(u)
          /\ root'.latest[u] = root.latest[u] /\ root'.final[u] = root.final[u]
          /\ \A n \in Numbers : <<u, n>> \in working' => <<u, n>> \in working
      BY <1>1, <2>3, UnitParts DEF Latest, Kept
    <3>2. AttemptsMove(u)
      BY <1>1, <3>1, RowsStay
    <3>3. MemoryFits(u)'
      BY <1>1, <2>6, <3>1, <3>2, MemoryStays
    <3>4. ChildFits(u)'
      <4>1. CASE child'[u] = child[u]
        BY <1>1, <2>6, <3>1, <3>2, <4>1, ChildStays
      <4>2. CASE child'[u] = [at |-> "BEGIN", execution |-> "PENDING", answer |-> Nothing]
        BY <3>1, <4>2 DEF ChildFits
      <4> QED
        BY <2>2, <4>1, <4>2
    <3> QED
      BY <3>3, <3>4
  <2>8. RunFits' /\ RunStep
    BY RunUntouched
  <2>9. RootFits'
    BY <1>1, <2>3 DEF RootFits, Kept, Batch, NoReply
  <2> QED
    BY <1>1, <2>6, <2>7, <2>8, <2>9, RowsUntouched
<1> QED
  BY <1>2, <1>3

\* What the children of the batch answered, or that they did not.
LEMMA BatchEndsKeeps ==
  ASSUME RunInv, BatchEnds, UNCHANGED <<rows, working, orphan, overdue, faults>>
  PROVE  RunInv' /\ StepFits
<1>1. TUTypeOK /\ RootFits /\ root \in Root /\ child \in [Units -> Child]
      /\ UNCHANGED <<run, unit, attempt, child>>
  BY DEF RunInv, TUTypeOK, rows, BatchEnds
<1> DEFINE l == [u \in Units |-> IF u \in Batch THEN Normalized(u) ELSE root.latest[u]]
           g == Goes(root, "CHECKPOINT")
<1>2. ASSUME NEW u \in Batch, u \in Units
      PROVE  Normalized(u) # Nothing /\ Normalized(u) \in Outcome /\ Stands(u, Normalized(u))
  <2>1. Latest(u) \in Numbers /\ Latest(u) \in Nat /\ child[u].at \in {"DONE", "FAILED"}
    BY <1>1, <1>2, UnitTypes, UnitNumbers DEF BatchEnds, BatchOver
  <2>2. CASE child[u].at = "DONE"
    BY <1>2, <2>2, UnitParts, NothingIsNoOutcome DEF ChildFits, Normalized, Stands
  <2>3. CASE child[u].at # "DONE"
    <3>1. Normalized(u) = [number |-> Latest(u), quality |-> "INCONCLUSIVE", by |-> "ROOT"]
      BY <2>3 DEF Normalized
    <3> QED
      BY <2>1, <3>1, NothingIsNoOutcome DEF Outcome, Qualities, Stands
  <2> QED
    BY <2>2, <2>3
<1>3. \A u \in Units : root.latest[u] \in Outcome \cup {Nothing} /\ MemoryFits(u)
  BY <1>1, UnitTypes, UnitParts
<1>4. l \in [Units -> Outcome \cup {Nothing}]
  BY <1>2, <1>3
<1>5. Kept(root, g) /\ g.at = "CHECKPOINT"
  BY <1>1, GoesTypes DEF Places, Activities
<1>6. root' = [g EXCEPT !.unsettled = TRUE, !.latest = l]
  BY DEF BatchEnds
<1> HIDE DEF g
<1>7. \A u \in Units : l[u] # Nothing => Stands(u, l[u])
  BY <1>2, <1>3 DEF MemoryFits
<1>8. \A u \in Units : u \in Batch => l[u] # Nothing
  BY <1>2
<1> HIDE DEF l
<1>9. /\ root' \in Root /\ root'.at = "CHECKPOINT" /\ root'.latest = l /\ root'.final = root.final
      /\ root'.pending = root.pending /\ root'.reply = NoReply
  BY <1>4, <1>5, <1>6 DEF Kept, Root
<1>10. TUTypeOK'
  BY <1>1, <1>9 DEF TUTypeOK
<1>11. ASSUME NEW u \in Units
       PROVE  ChildFits(u)' /\ MemoryFits(u)'
  <2>1. /\ RowsFit(u) /\ ChildFits(u) /\ MemoryFits(u) /\ unit'[u] = unit[u]
        /\ attempt'[u] = attempt[u] /\ Latest(u)' = Latest(u) /\ child'[u] = child[u]
        /\ \A n \in Numbers : <<u, n>> \in working' => <<u, n>> \in working
    BY <1>1, UnitParts DEF Latest
  <2>2. AttemptsMove(u)
    BY <1>1, <2>1, RowsStay
  <2>3. ChildFits(u)'
    BY <1>1, <1>10, <2>1, <2>2, ChildStays
  <2>4. root'.latest[u] # Nothing => Stands(u, root.latest[u])'
    <3>1. SUFFICES ASSUME root'.latest[u] # Nothing PROVE Stands(u, root.latest[u])'
      OBVIOUS
    <3>2. Stands(u, l[u]) /\ root'.latest[u] = l[u]
      BY <1>7, <1>9, <3>1
    <3> QED
      BY <2>1, <3>2 DEF Stands, Agrees
  <2>5. root'.final[u] # Nothing => Stands(u, root.final[u])'
    BY <1>9, <2>1 DEF MemoryFits, Stands, Agrees
  <2> QED
    BY <2>3, <2>4, <2>5 DEF MemoryFits
<1>12. RunFits' /\ RunStep
  BY RunUntouched
<1>13. RootFits'
  <2>1. Batch' = Batch /\ Batch \subseteq Units
    BY <1>1, <1>9 DEF Batch, BatchOf, Root
  <2> QED
    BY <1>8, <1>9, <2>1 DEF RootFits, NoReply
<1>14. \A u \in Units, n \in Numbers : <<u, n>> \in working' => <<u, n>> \in working
  OBVIOUS
<1> QED
  BY <1>1, <1>10, <1>11, <1>12, <1>13, <1>14, RowsUntouched

\* What comes after the batch is a list of units.
LEMMA RestTypes ==
  ASSUME NEW p \in Seq(Units)
  PROVE  /\ RestOf(p) \in Seq(Units)
         /\ Len(RestOf(p)) = IF Len(p) > BatchSize THEN Len(p) - BatchSize ELSE 0
         /\ \A i \in 1..Len(RestOf(p)) : RestOf(p)[i] = p[i + BatchSize]
<1>1. BatchSize \in Nat /\ Len(p) \in Nat /\ BatchSize > 0
  BY UnitNumbers
<1> QED
  BY <1>1 DEF RestOf

\* The answer of the settling: units of the batch are outcomes, or wait again.
LEMMA SettledKeeps ==
  ASSUME RunInv, Settled, UNCHANGED <<rows, working, orphan, overdue, faults>>
  PROVE  RunInv' /\ StepFits
<1>1. /\ TUTypeOK /\ RootFits /\ root \in Root /\ UNCHANGED <<run, unit, attempt, child>>
      /\ root.reply.is = "SETTLED" /\ root.at = "SETTLE" /\ root.unsettled
  BY DEF RunInv, TUTypeOK, rows, Settled, Arrives, Heard, RootFits
<1> DEFINE again == root.reply.retries
<1>2. again \in Seq(Units)
  BY <1>1 DEF Root, Answers
<1>3. ASSUME NEW i \in DOMAIN again
      PROVE  root.latest[again[i]].number + 1 \in Numbers
  <2>1. PICK u \in Units : u = again[i]
    BY <1>2, <1>3
  <2>2. u \in Batch /\ root.latest[u].number < Latest(u)
    BY <1>1, <1>3, <2>1 DEF RootFits
  <2>3. root.latest[u] # Nothing
    BY <1>1, <2>2 DEF RootFits
  <2>4. root.latest[u] \in Outcome /\ Latest(u) \in Numbers
    BY <1>1, <2>3, UnitTypes
  <2>5. root.latest[u].number \in Numbers
    BY <2>4 DEF Outcome
  <2>6. root.latest[u].number + 1 \in Numbers
    BY <2>2, <2>4, <2>5, UnitNumbers DEF Numbers
  <2> QED
    BY <2>1, <2>6
<1> DEFINE f == [u \in Units |-> IF u \in Batch /\ \A i \in DOMAIN again : again[i] # u
                                  THEN root.latest[u] ELSE root.final[u]]
           m == [u \in Units |-> IF \E i \in DOMAIN again : again[i] = u
                                  THEN root.latest[u].number + 1 ELSE root.number[u]]
           p == RestOf(root.pending) \o again
           r == [root EXCEPT !.unsettled = FALSE, !.final = f, !.number = m, !.pending = p]
<1>4. root' = LoopHead(r)
  BY DEF Settled
<1>5. f \in [Units -> Outcome \cup {Nothing}] /\ \A u \in Units : f[u] \in {root.latest[u], root.final[u]}
  BY <1>1, UnitTypes
<1>6. m \in [Units -> Numbers]
  BY <1>1, <1>3, UnitTypes
<1>7. p \in Seq(Units)
  BY <1>1, <1>2, RestTypes DEF Root
<1> HIDE DEF f, m, p, again
<1>8. /\ r \in Root /\ r.unsettled = FALSE /\ r.final = f /\ r.latest = root.latest
      /\ r.pending = p /\ r.number = m
  BY <1>1, <1>5, <1>6, <1>7 DEF Root
<1> HIDE DEF r
<1>9. Kept(r, root') /\ root'.at # "SETTLE"
  BY <1>4, <1>8, LoopTypes
<1>10. /\ root' \in Root /\ root'.latest = root.latest /\ root'.final = f /\ root'.unsettled = FALSE
       /\ root'.reply = NoReply
  BY <1>8, <1>9 DEF Kept
<1>11. TUTypeOK'
  BY <1>1, <1>10 DEF TUTypeOK
<1>12. ASSUME NEW u \in Units
       PROVE  ChildFits(u)' /\ MemoryFits(u)'
  <2>1. /\ RowsFit(u) /\ ChildFits(u) /\ MemoryFits(u) /\ unit'[u] = unit[u]
        /\ attempt'[u] = attempt[u] /\ Latest(u)' = Latest(u) /\ child'[u] = child[u]
        /\ root'.latest[u] = root.latest[u] /\ root'.final[u] \in {root.latest[u], root.final[u]}
        /\ \A n \in Numbers : <<u, n>> \in working' => <<u, n>> \in working
    BY <1>1, <1>5, <1>10, UnitParts DEF Latest
  <2>2. AttemptsMove(u)
    BY <1>1, <2>1, RowsStay
  <2>3. ChildFits(u)'
    BY <1>1, <1>11, <2>1, <2>2, ChildStays
  <2>4. MemoryFits(u)'
    BY <2>1 DEF MemoryFits, Stands, Agrees
  <2> QED
    BY <2>3, <2>4
<1>13. RunFits' /\ RunStep
  BY RunUntouched
<1>14. RootFits'
  BY <1>9, <1>10 DEF RootFits, NoReply
<1>15. \A u \in Units, n \in Numbers : <<u, n>> \in working' => <<u, n>> \in working
  OBVIOUS
<1> QED
  BY <1>1, <1>11, <1>12, <1>13, <1>14, <1>15, RowsUntouched

\* What the workflow does between its activities touches no row of a unit.
LEMMA RootMovesKeeps ==
  ASSUME RunInv, RootMoves
  PROVE  RunInv' /\ StepFits
<1>1. TUTypeOK /\ root \in Root /\ UNCHANGED <<rows, working, orphan, overdue, faults>>
  BY DEF RunInv, TUTypeOK, RootMoves
<1>2. /\ Kept(root, CanceledLoop) /\ CanceledLoop.at # "SETTLE"
      /\ \A at \in Places : Kept(root, Goes(root, at)) /\ Goes(root, at).at = at
      /\ Kept(root, ToFinish(root)) /\ ToFinish(root).at = "FINISH"
  BY <1>1, CanceledLoopTypes, GoesTypes, LoopTypes
<1>3. /\ "FAILED" \in Places /\ "WAIT" \in Places /\ "SETTLE" \in Places /\ "PREPARE" \in Places
      /\ "CHECKPOINT" \in Places /\ "END" \in Places
  BY DEF Places, Activities
<1>4. CASE Fails
  <2>1. UNCHANGED child /\ Kept(root, root') /\ root'.at = "FAILED"
    BY <1>2, <1>3, <1>4 DEF Fails
  <2> QED
    BY <1>1, <2>1, RootGoes
<1>5. CASE Checked
  <2>1. UNCHANGED child /\ Kept(root, root') /\ (root'.at = "SETTLE" => root.unsettled)
    BY <1>2, <1>3, <1>5 DEF Checked
  <2> QED
    BY <1>1, <2>1, RootGoes
<1>6. CASE Settled
  BY <1>1, <1>6, SettledKeeps
<1>7. CASE Deferred
  <2>1. UNCHANGED child /\ Kept(root, root') /\ root'.at # "SETTLE"
    BY <1>2, <1>3, <1>7 DEF Deferred
  <2> QED
    BY <1>1, <2>1, RootGoes
<1>8. CASE Dispatched
  BY <1>1, <1>8, DispatchedKeeps
<1>9. CASE BatchEnds
  BY <1>1, <1>9, BatchEndsKeeps
<1>10. CASE LastChecked
  <2> DEFINE r == [root EXCEPT !.cancel = @ \/ Heard("CANCELING")]
  <2>1. /\ r \in Root /\ r.unsettled = root.unsettled /\ r.pending = root.pending
        /\ r.latest = root.latest /\ r.final = root.final /\ r.number = root.number
    BY <1>1 DEF Root, Heard
  <2>2. root' = ToFinish(r) /\ UNCHANGED child
    BY <1>10 DEF LastChecked
  <2> HIDE DEF r
  <2>3. Kept(r, root') /\ root'.at = "FINISH"
    BY <2>1, <2>2, LoopTypes
  <2>4. Kept(root, root')
    BY <2>1, <2>3 DEF Kept
  <2> QED
    BY <1>1, <2>2, <2>3, <2>4, RootGoes
<1>11. CASE FinishHeard
  <2>1. UNCHANGED child /\ Kept(root, root') /\ root'.at # "SETTLE"
    BY <1>2, <1>3, <1>11 DEF FinishHeard
  <2> QED
    BY <1>1, <2>1, RootGoes
<1>12. CASE Wakes
  <2>1. UNCHANGED child /\ Kept(root, root') /\ root'.at # "SETTLE"
    BY <1>2, <1>3, <1>12 DEF Wakes
  <2> QED
    BY <1>1, <2>1, RootGoes
<1> QED
  BY <1>4, <1>5, <1>6, <1>7, <1>8, <1>9, <1>10, <1>11, <1>12 DEF RootMoves

-----------------------------------------------------------------------------
(* Ranks: the order of the units, and the budget of retries *)

\* How many elements of a set are not above one of them.
Rank(S, u) == Cardinality({v \in S : v <= u})

\* How many of some units are at most u: between none and all of them.
LEMMA RankFacts ==
  ASSUME NEW S \in SUBSET Units
  PROVE  /\ IsFiniteSet(S) /\ Cardinality(S) \in Nat
         /\ \A u \in S : Rank(S, u) \in 1..Cardinality(S)
         /\ \A u, w \in S : u < w => Rank(S, u) < Rank(S, w)
<1>1. IsFiniteSet(Units)
  BY UnitNumbers, FS_Interval DEF Units
<1>2. IsFiniteSet(S) /\ Cardinality(S) \in Nat /\ S \subseteq Nat
  BY <1>1, FS_Subset, FS_CardinalityType, UnitNumbers
<1>3. ASSUME NEW u \in S
      PROVE  /\ IsFiniteSet({v \in S : v <= u})
             /\ Rank(S, u) \in 1..Cardinality(S)
  <2> DEFINE T == {v \in S : v <= u}
  <2>1. T \in SUBSET S /\ u \in T
    BY <1>2
  <2>2. IsFiniteSet(T) /\ Cardinality(T) <= Cardinality(S)
    BY <1>2, <2>1, FS_Subset
  <2>3. Cardinality(T) \in Nat /\ Cardinality(T) # 0
    BY <2>1, <2>2, FS_CardinalityType, FS_EmptySet
  <2>4. Rank(S, u) = Cardinality(T)
    BY DEF Rank
  <2> HIDE DEF T
  <2>5. Rank(S, u) \in 1..Cardinality(S)
    BY <1>2, <2>2, <2>3, <2>4
  <2> QED
    BY <2>2, <2>5 DEF T
<1>4. ASSUME NEW u \in S, NEW w \in S, u < w
      PROVE  Rank(S, u) < Rank(S, w)
  <2> DEFINE T == {v \in S : v <= u}
             U == {v \in S : v <= w}
  <2>5. u \in Nat /\ w \in Nat /\ \A v \in S : v \in Nat
    BY <1>2
  <2>6. w <= w /\ ~ (w <= u) /\ \A v \in S : v <= u => v <= w
    BY <1>4, <2>5
  <2>1. T \in SUBSET U /\ w \in U /\ w \notin T
    BY <1>4, <2>5, <2>6
  <2>2. IsFiniteSet(U) /\ Cardinality(U) \in Nat /\ Cardinality(T) \in Nat
    BY <1>3, FS_CardinalityType
  <2>3. Cardinality(T) <= Cardinality(U) /\ Cardinality(T) # Cardinality(U)
    BY <2>1, <2>2, FS_Subset
  <2>4. Rank(S, u) = Cardinality(T) /\ Rank(S, w) = Cardinality(U)
    BY DEF Rank
  <2> HIDE DEF T, U
  <2> QED
    BY <2>2, <2>3, <2>4
<1> QED
  BY <1>2, <1>3, <1>4

\* No two elements of a set have the same rank.
LEMMA RankIsOnes ==
  ASSUME NEW S \in SUBSET Units, NEW u \in S, NEW w \in S, Rank(S, u) = Rank(S, w)
  PROVE  u = w
<1>1. u \in Nat /\ w \in Nat /\ Rank(S, u) \in Nat /\ Rank(S, w) \in Nat
  BY RankFacts, UnitNumbers
<1>2. ~ (u < w) /\ ~ (w < u)
  BY <1>1, RankFacts
<1> QED
  BY <1>1, <1>2

\* Every rank up to the size of the set is one of its elements'.
LEMMA RankIsTaken ==
  ASSUME NEW S \in SUBSET Units, NEW i \in 1..Cardinality(S)
  PROVE  \E u \in S : Rank(S, u) = i
<1>1. IsFiniteSet(S) /\ Cardinality(S) \in Nat
  BY RankFacts
<1> DEFINE f == [u \in S |-> Rank(S, u)]
           T == 1..Cardinality(S)
<1>2. IsFiniteSet(T) /\ Cardinality(T) = Cardinality(S)
  BY <1>1, FS_Interval
<1>3. f \in [S -> T]
  BY RankFacts
<1>4. \A u, w \in S : f[u] = f[w] => u = w
  BY RankIsOnes
<1> HIDE DEF f
<1>5. f \in Injection(S, T)
  BY <1>3, <1>4 DEF Injection, IsInjective
<1>6. f \in Surjection(S, T)
  BY <1>2, <1>5, FS_Injection
<1>7. \E u \in S : f[u] = i
  BY <1>6 DEF Surjection
<1> QED
  BY <1>7 DEF f

\* The list of a set of units has them all, in their order.
LEMMA AscendingFacts ==
  ASSUME NEW S \in SUBSET Units
  PROVE  /\ Ascending(S) \in Seq(S) /\ Ascending(S) \in Seq(Units)
         /\ Len(Ascending(S)) = Cardinality(S) /\ Cardinality(S) \in Nat
         /\ \A i \in 1..Cardinality(S) : Ascending(S)[i] \in S /\ Rank(S, Ascending(S)[i]) = i
         /\ \A u \in S : \E i \in 1..Cardinality(S) : Ascending(S)[i] = u
<1>1. Cardinality(S) \in Nat /\ IsFiniteSet(S)
  BY RankFacts
<1> DEFINE s == Ascending(S)
<1>2. s = [i \in 1..Cardinality(S) |-> CHOOSE u \in S : Rank(S, u) = i]
  BY DEF Ascending, Rank
<1> HIDE DEF s
<1>3. ASSUME NEW i \in 1..Cardinality(S)
      PROVE  s[i] \in S /\ Rank(S, s[i]) = i
  <2>1. s[i] = CHOOSE u \in S : Rank(S, u) = i
    BY <1>2
  <2>2. \E u \in S : Rank(S, u) = i
    BY RankIsTaken
  <2> QED
    BY <2>1, <2>2
<1>4. s \in [1..Cardinality(S) -> S]
  BY <1>2, <1>3
<1>5. s \in Seq(S) /\ Len(s) = Cardinality(S)
  BY <1>1, <1>4
<1>6. s \in Seq(Units)
  BY <1>1, <1>4
<1>7. ASSUME NEW u \in S
      PROVE  \E i \in 1..Cardinality(S) : s[i] = u
  <2>1. Rank(S, u) \in 1..Cardinality(S)
    BY RankFacts
  <2>2. s[Rank(S, u)] = u
    BY <1>3, <2>1, RankIsOnes
  <2> QED
    BY <2>1, <2>2
<1> QED
  BY <1>1, <1>3, <1>5, <1>6, <1>7 DEF s

\* As many units are tried again as the budget has left.
LEMMA RetriedFits ==
  ASSUME TUTypeOK, RetriesInBudget, Retried \in SUBSET Units
  PROVE  /\ IsFiniteSet(Retried) /\ Cardinality(Retried) \in Nat
         /\ IsFiniteSet(Retries) /\ RetryCount \in Nat
         /\ RetryCount + Cardinality(Retried) <= TotalRetries
<1>1. IsFiniteSet(Retried) /\ Cardinality(Retried) \in Nat
  BY RankFacts
<1>2. IsFiniteSet(Units) /\ IsFiniteSet(Numbers)
  BY UnitNumbers, FS_Interval DEF Units, Numbers
<1>3. IsFiniteSet(Units \X Numbers)
  BY <1>2, FS_Product
<1>4. Retries \in SUBSET (Units \X Numbers)
  BY DEF Retries
<1>5. IsFiniteSet(Retries) /\ RetryCount \in Nat
  BY <1>3, <1>4, FS_Subset, FS_CardinalityType DEF RetryCount
<1>6. RetryCount <= TotalRetries /\ TotalRetries \in Nat
  BY UnitNumbers DEF RetriesInBudget, RetryCount
<1> DEFINE able == {u \in Unresolved : Retryable(u)}
           left == TotalRetries - RetryCount
<1>7. left \in Nat
  BY <1>5, <1>6
<1>8. ASSUME NEW u \in Retried
      PROVE  Rank(Retried, u) \in 1..left
  <2> DEFINE T == {v \in Retried : v <= u}
             A == {v \in able : v <= u}
  <2>1. T \in SUBSET A
    BY DEF Retried
  <2>2. RetryCount + Cardinality(A) <= TotalRetries
    BY DEF Retried
  <2>3. able \in SUBSET Units
    BY DEF Unresolved, Batch, BatchOf, TUTypeOK, Root
  <2>4. IsFiniteSet(able)
    BY <2>3, RankFacts
  <2>5. A \in SUBSET able
    OBVIOUS
  <2>6. IsFiniteSet(A) /\ Cardinality(A) \in Nat
    BY <2>4, <2>5, FS_Subset, FS_CardinalityType
  <2>7. Cardinality(T) <= Cardinality(A)
    BY <2>1, <2>6, FS_Subset
  <2>8. Rank(Retried, u) = Cardinality(T) /\ Rank(Retried, u) \in 1..Cardinality(Retried)
    BY RankFacts DEF Rank
  <2> HIDE DEF T, A, able
  <2> QED
    BY <1>1, <1>5, <1>6, <2>2, <2>6, <2>7, <2>8
<1> HIDE DEF left
<1> DEFINE f == [u \in Retried |-> Rank(Retried, u)]
<1>9. f \in [Retried -> 1..left]
  BY <1>8
<1>10. \A u, w \in Retried : f[u] = f[w] => u = w
  BY RankIsOnes
<1> HIDE DEF f
<1>11. f \in Injection(Retried, 1..left)
  BY <1>9, <1>10 DEF Injection, IsInjective
<1>12. IsFiniteSet(1..left) /\ Cardinality(1..left) = left
  BY <1>7, FS_Interval
<1>13. Cardinality(Retried) <= left
  BY <1>11, <1>12, FS_Injection
<1> QED
  BY <1>1, <1>5, <1>6, <1>7, <1>13 DEF left

-----------------------------------------------------------------------------
(* Settling *)

\* An attempt that still stands open is the last of its unit.
LEMMA OpenIsLatest ==
  ASSUME TUTypeOK, NEW u \in Units, RowsFit(u), NEW n \in 1..Latest(u),
         attempt[u][n].state # "CLOSED" \/ attempt[u][n].quality # "INFRA_ERROR"
  PROVE  n = Latest(u)
<1>1. Latest(u) \in Nat
  BY UnitTypes, UnitNumbers
<1>2. SUFFICES ASSUME n # Latest(u) PROVE FALSE
  OBVIOUS
<1>3. n < Latest(u)
  BY <1>1, <1>2
<1> QED
  BY <1>3 DEF RowsFit, StateValid

\* What the settling finds of a unit of its batch.
LEMMA SettledUnit ==
  ASSUME RunInv, root.at = "SETTLE", ~ SettleConflict, NEW u \in Units, u \in Batch
  PROVE  /\ root.latest[u] \in Outcome /\ root.latest[u].number \in 1..Latest(u)
         /\ u \in NeverHeard => /\ root.latest[u].number = Latest(u)
                                /\ LatestAttempt(u).state # "CLOSED"
                                /\ root.latest[u].quality \in {"INCONCLUSIVE", "CANCELED"}
         /\ u \notin NeverHeard /\ unit[u].state # "CLOSED" /\ u \notin Relisted =>
              /\ root.latest[u].number = Latest(u) /\ LatestAttempt(u).state = "CLOSED"
              /\ LatestAttempt(u).quality = root.latest[u].quality
         /\ u \in Retried =>
              /\ u \notin NeverHeard /\ unit[u].state # "CLOSED" /\ u \notin Relisted
              /\ root.latest[u].quality = "INFRA_ERROR" /\ root.latest[u].number <= InfraRetries
         /\ u \in Relisted => root.latest[u].number < Latest(u)
<1>1. TUTypeOK /\ RootFits /\ RowsFit(u) /\ MemoryFits(u) /\ Latest(u) \in Nat
  BY UnitParts, UnitTypes, UnitNumbers
<1>2. root.latest[u] # Nothing
  BY <1>1 DEF RootFits
<1>3. Stands(u, root.latest[u])
  BY <1>1, <1>2 DEF MemoryFits
<1>4. root.latest[u] \in Outcome /\ root.latest[u].number \in 1..Latest(u)
  BY <1>1, <1>3 DEF Stands, Outcome, Numbers
<1>5. ASSUME u \in NeverHeard
      PROVE  /\ root.latest[u].number = Latest(u) /\ LatestAttempt(u).state # "CLOSED"
             /\ root.latest[u].quality \in {"INCONCLUSIVE", "CANCELED"}
  <2>1. Reported(u).state # "CLOSED"
    BY <1>5 DEF NeverHeard
  <2>2. root.latest[u].number = Latest(u)
    BY <1>1, <1>4, <2>1, OpenIsLatest DEF Reported
  <2> QED
    BY <1>5, <2>1, <2>2 DEF Reported, LatestAttempt, SettleConflict
<1>6. ASSUME u \notin NeverHeard, unit[u].state # "CLOSED", u \notin Relisted
      PROVE  /\ root.latest[u].number = Latest(u) /\ LatestAttempt(u).state = "CLOSED"
             /\ LatestAttempt(u).quality = root.latest[u].quality
  <2>1. ~ RetryOf(u)
    BY <1>6 DEF Relisted
  <2>2. root.latest[u].number = Latest(u)
    BY <1>1, <1>4, <2>1 DEF RetryOf
  <2>3. Reported(u).state = "CLOSED" /\ Agrees(Reported(u), root.latest[u])
    BY <1>6 DEF NeverHeard, SettleConflict
  <2> QED
    BY <2>2, <2>3 DEF Reported, LatestAttempt, Agrees
<1>7. u \in Retried => /\ u \notin NeverHeard /\ unit[u].state # "CLOSED" /\ u \notin Relisted
                       /\ root.latest[u].quality = "INFRA_ERROR"
                       /\ root.latest[u].number <= InfraRetries
  BY DEF Retried, Unresolved, Retryable, Relisted
<1>8. u \in Relisted => root.latest[u].number < Latest(u)
  BY <1>1, <1>4 DEF Relisted, RetryOf
<1> QED
  BY <1>4, <1>5, <1>6, <1>7, <1>8

\* The rows of a unit of which no more was heard.
LEMMA NeverHeardRows ==
  ASSUME RunInv, NEW u \in Units, NEW q \in {"FAILED", "INCONCLUSIVE", "CANCELED"},
         LatestAttempt(u).state # "CLOSED",
         attempt'[u] = [attempt[u] EXCEPT ![Latest(u)] = ClosedBy("ROOT", q, LatestAttempt(u))],
         unit'[u] = [state |-> "CLOSED", quality |-> q], working' = working
  PROVE  /\ attempt'[u] \in Seq(Attempt) /\ unit'[u] \in ExecutionUnit
         /\ RowsFit(u)' /\ UnitStep(u) /\ Latest(u)' = Latest(u)
<1> DEFINE a == ClosedBy("ROOT", q, LatestAttempt(u))
<1>1. /\ TUTypeOK /\ RowsFit(u) /\ StateValid(LatestAttempt(u)) /\ LatestAttempt(u) \in Attempt
      /\ unit[u].state # "CLOSED" /\ unit[u] \in ExecutionUnit /\ StateValid(unit[u])
  BY UnitParts, UnitTypes DEF RowsFit
<1>2. /\ a \in Attempt /\ a.state = "CLOSED" /\ a.quality = q /\ a.by = "ROOT"
      /\ a.ticket = LatestAttempt(u).ticket
  BY <1>1 DEF ClosedBy, Attempt, Qualities
<1>3. attempt'[u] = [attempt[u] EXCEPT ![Latest(u)] = a]
  OBVIOUS
<1> HIDE DEF a
<1>4. /\ attempt'[u] \in Seq(Attempt) /\ Len(attempt'[u]) = Latest(u)
      /\ attempt'[u][Latest(u)] = a
      /\ \A n \in 1..Latest(u) : n # Latest(u) => attempt'[u][n] = attempt[u][n]
  BY <1>1, <1>2, <1>3, LatestReplaced
<1>5. /\ StateValid(a) /\ StateValid(unit'[u]) /\ unit'[u] \in ExecutionUnit /\ a.by # NoOne
      /\ unit'[u].state = "CLOSED" /\ unit'[u].quality = a.quality
      /\ a.quality \notin {"PASSED", "INFRA_ERROR"}
  BY <1>2 DEF StateValid, ExecutionUnit, Qualities, NoOne
<1>6. \A n \in Numbers : <<u, n>> \in working' => <<u, n>> \in working
  OBVIOUS
<1>7. RowsFit(u)' /\ AttemptsMove(u)
  BY <1>1, <1>2, <1>4, <1>5, <1>6, RowsChange
<1>8. RowMoves(LatestAttempt(u), a) /\ RowMoves(unit[u], unit'[u])
  BY <1>1, <1>2, <1>5 DEF RowMoves, LifecycleMoves, StateValid, Attempt, ExecutionUnit
<1>9. UnitStep(u)
  BY <1>1, <1>2, <1>4, <1>7, <1>8, UnitStepChange
<1> QED
  BY <1>4, <1>5, <1>7, <1>9 DEF Latest

\* The rows of a unit that is tried again.
LEMMA RetriedRows ==
  ASSUME RunInv, NEW u \in Units, run.state \in {"QUEUED", "RUNNING"},
         LatestAttempt(u).state = "CLOSED", LatestAttempt(u).quality = "INFRA_ERROR",
         Latest(u) <= InfraRetries, unit[u].state # "CLOSED",
         attempt'[u] = Append(attempt[u], NewAttempt), unit'[u] = unit[u], child'[u] = child[u],
         working' = working
  PROVE  /\ attempt'[u] \in Seq(Attempt) /\ RowsFit(u)' /\ UnitStep(u)
         /\ Latest(u)' = Latest(u) + 1 /\ Latest(u)' \in Numbers
         /\ \A n \in Numbers : <<u, n>> \notin working
<1>1. /\ TUTypeOK /\ RowsFit(u) /\ ChildFits(u) /\ unit[u] \in ExecutionUnit
      /\ attempt[u] \in Seq(Attempt) /\ Latest(u) \in Numbers /\ Latest(u) \in Nat
      /\ Latest(u) \in 1..Latest(u) /\ Len(attempt[u]) = Latest(u) /\ InfraRetries \in Nat
  BY UnitParts, UnitTypes, UnitNumbers DEF Latest
<1>2. NewAttempt \in Attempt /\ StateValid(NewAttempt) /\ NewAttempt.state = "QUEUED"
      /\ NewAttempt.quality = "PENDING"
  BY DEF NewAttempt, Attempt, Qualities, NoOne, StateValid
<1>3. /\ attempt'[u] \in Seq(Attempt) /\ Len(attempt'[u]) = Latest(u) + 1
      /\ \A n \in 1..Latest(u) : attempt'[u][n] = attempt[u][n]
      /\ attempt'[u][Latest(u) + 1] = NewAttempt
  BY <1>1, <1>2
<1>4. Latest(u)' = Latest(u) + 1 /\ Latest(u) + 1 \in Numbers
  BY <1>1, <1>3 DEF Latest, Numbers
<1>5. unit[u].state # "QUEUED" /\ <<u, Latest(u)>> \notin working
  BY <1>1 DEF RowsFit, LatestAttempt
<1>6. \A n \in Numbers : <<u, n>> \notin working
  BY <1>1, <1>5 DEF ChildFits
<1>7. \A n \in 1..Latest(u) : attempt[u][n].quality = "INFRA_ERROR" /\ attempt[u][n].state = "CLOSED"
  <2>1. SUFFICES ASSUME NEW n \in 1..Latest(u) PROVE attempt[u][n].quality = "INFRA_ERROR"
                                                     /\ attempt[u][n].state = "CLOSED"
    OBVIOUS
  <2>2. n = Latest(u) \/ n < Latest(u)
    BY <1>1
  <2>3. attempt[u][n].quality = "INFRA_ERROR"
    BY <1>1, <2>2 DEF RowsFit, LatestAttempt
  <2> QED
    BY <1>1, <2>3 DEF RowsFit, StateValid
<1>8. ASSUME NEW n \in 1..Latest(u) + 1
      PROVE  /\ StateValid(attempt[u][n])'
             /\ n < Latest(u) + 1 => attempt'[u][n].quality = "INFRA_ERROR"
             /\ attempt'[u][n].quality # "PASSED"
             /\ attempt'[u][n].state = "CLOSED" => attempt'[u][n].by # NoOne
             /\ attempt'[u][n].state # "RUNNING"
             /\ <<u, n>> \notin working'
  <2>1. n \in Numbers
    BY <1>1, <1>4 DEF Numbers
  <2>2. CASE n = Latest(u) + 1
    BY <1>1, <1>2, <1>3, <1>6, <2>1, <2>2 DEF StateValid
  <2>3. CASE n # Latest(u) + 1
    <3>1. n \in 1..Latest(u)
      BY <1>1, <2>3
    <3>2. attempt[u][n].quality = "INFRA_ERROR" /\ attempt[u][n].state = "CLOSED"
      BY <1>7, <3>1
    <3> QED
      BY <1>1, <1>3, <1>6, <2>1, <3>1, <3>2 DEF StateValid, RowsFit
  <2> QED
    BY <2>2, <2>3
<1>9. RowsFit(u)'
  <2>1. StateValid(unit[u])' /\ unit'[u].state # "CLOSED" /\ unit'[u].state # "QUEUED"
    BY <1>1, <1>5 DEF RowsFit, StateValid
  <2> QED
    BY <1>4, <1>8, <2>1 DEF RowsFit
<1>10. AttemptsMove(u)
  BY <1>1, <1>3 DEF AttemptsMove
<1>11. AttemptInsertable(u)
  BY <1>1, <1>3, <1>5 DEF AttemptInsertable, ExecutionUnit
<1>12. RowMoves(unit[u], unit'[u])
  BY <1>1 DEF RowMoves, LifecycleMoves, RowsFit
<1>13. \A n \in 1..Latest(u) : RowMoves(attempt[u][n], attempt'[u][n])
  BY <1>1, <1>3 DEF RowMoves, LifecycleMoves, RowsFit
<1>14. UnitStep(u)
  BY <1>1, <1>3, <1>10, <1>11, <1>12, <1>13 DEF UnitStep, LatestAttempt
<1> QED
  BY <1>3, <1>4, <1>6, <1>9, <1>14

\* The rows of a unit that closes as its attempt was closed.
LEMMA ResolvedRows ==
  ASSUME RunInv, NEW u \in Units, NEW q, LatestAttempt(u).state = "CLOSED",
         unit[u].state # "CLOSED" => LatestAttempt(u).quality = q,
         attempt'[u] = attempt[u], working' = working,
         unit'[u] = IF unit[u].state # "CLOSED" THEN [state |-> "CLOSED", quality |-> q]
                    ELSE unit[u]
  PROVE  /\ attempt'[u] \in Seq(Attempt) /\ unit'[u] \in ExecutionUnit
         /\ RowsFit(u)' /\ UnitStep(u) /\ Latest(u)' = Latest(u)
<1>1. /\ TUTypeOK /\ RowsFit(u) /\ StateValid(LatestAttempt(u)) /\ LatestAttempt(u) \in Attempt
      /\ unit[u] \in ExecutionUnit /\ attempt[u] \in Seq(Attempt) /\ Latest(u) \in 1..Latest(u)
  BY UnitParts, UnitTypes
<1>2. \A n \in Numbers : <<u, n>> \in working' => <<u, n>> \in working
  OBVIOUS
<1>3. CASE unit[u].state = "CLOSED"
  BY <1>1, <1>2, <1>3, RowsStay, UnitStepStays DEF Latest
<1>4. CASE unit[u].state # "CLOSED"
  <2>1. /\ unit'[u] \in ExecutionUnit /\ unit'[u].state = "CLOSED"
        /\ unit'[u].quality = LatestAttempt(u).quality /\ StateValid(unit'[u])
    BY <1>1, <1>4 DEF ExecutionUnit, Attempt, StateValid
  <2>2. /\ Len(attempt'[u]) = Latest(u) /\ attempt'[u][Latest(u)] = LatestAttempt(u)
        /\ \A n \in 1..Latest(u) : attempt'[u][n] = attempt[u][n]
    BY DEF Latest, LatestAttempt
  <2>3. /\ LatestAttempt(u).quality = "PASSED" => LatestAttempt(u).by = "SEAL"
        /\ LatestAttempt(u).state = "CLOSED" => LatestAttempt(u).by # NoOne
        /\ LatestAttempt(u).quality = "INFRA_ERROR" => <<u, Latest(u)>> \notin working'
    BY <1>1 DEF RowsFit, LatestAttempt
  <2>4. RowsFit(u)' /\ AttemptsMove(u)
    BY <1>1, <1>2, <2>1, <2>2, <2>3, RowsChange
  <2>5. RowMoves(unit[u], unit'[u]) /\ RowMoves(LatestAttempt(u), attempt'[u][Latest(u)])
    BY <1>1, <1>4, <2>1, <2>2 DEF RowMoves, LifecycleMoves, StateValid, RowsFit, ExecutionUnit
  <2>6. UnitStep(u)
    BY <1>1, <2>2, <2>4, <2>5, UnitStepChange
  <2> QED
    BY <1>1, <2>1, <2>4, <2>6 DEF Latest
<1> QED
  BY <1>3, <1>4

\* What the settling does to one unit, in its batch or not.
LEMMA SettledRows ==
  ASSUME RunInv, root.at = "SETTLE", Settles, ~ SettleConflict, NEW u \in Units,
         attempt'[u] = IF u \in NeverHeard
                       THEN [attempt[u] EXCEPT ![Latest(u)] = ClosedBy("ROOT", root.latest[u].quality, @)]
                       ELSE IF u \in Retried THEN Append(attempt[u], NewAttempt)
                       ELSE attempt[u],
         unit'[u] = IF u \in Batch \ (Retried \cup Relisted) /\ unit[u].state # "CLOSED"
                    THEN [state |-> "CLOSED", quality |-> root.latest[u].quality] ELSE unit[u],
         child'[u] = child[u], working' = working
  PROVE  /\ attempt'[u] \in Seq(Attempt) /\ Latest(u)' \in Numbers
         /\ unit'[u] \in ExecutionUnit /\ RowsFit(u)' /\ UnitStep(u)
         /\ Latest(u)' = IF u \in Retried THEN Latest(u) + 1 ELSE Latest(u)
         /\ u \in Retried => \A n \in Numbers : <<u, n>> \notin working
<1>1. /\ TUTypeOK /\ RowsFit(u) /\ unit[u] \in ExecutionUnit /\ Latest(u) \in Numbers
      /\ attempt[u] \in Seq(Attempt) /\ run.state \in {"QUEUED", "RUNNING"}
      /\ unit[u].state = "CLOSED" => LatestAttempt(u).state = "CLOSED"
      /\ NeverHeard \subseteq Batch
  BY UnitParts, UnitTypes DEF Settles, NeverHeard
<1>2. Retried \subseteq Batch /\ Relisted \subseteq Batch
  BY DEF Retried, Unresolved, Relisted
<1>3. CASE u \notin Batch
  <2>1. attempt'[u] = attempt[u] /\ unit'[u] = unit[u] /\ u \notin Retried
    BY <1>1, <1>2, <1>3
  <2>2. \A n \in Numbers : <<u, n>> \in working' => <<u, n>> \in working
    OBVIOUS
  <2> QED
    BY <1>1, <2>1, <2>2, RowsStay, UnitStepStays DEF Latest
<1>4. CASE u \in NeverHeard
  <2>1. /\ LatestAttempt(u).state # "CLOSED" /\ u \in Batch /\ u \notin Retried /\ u \notin Relisted
        /\ root.latest[u].quality \in {"INCONCLUSIVE", "CANCELED"}
    BY <1>1, <1>4, SettledUnit DEF Relisted
  <2>2. unit'[u] = [state |-> "CLOSED", quality |-> root.latest[u].quality]
    BY <1>1, <2>1
  <2>3. attempt'[u] = [attempt[u] EXCEPT
                         ![Latest(u)] = ClosedBy("ROOT", root.latest[u].quality, LatestAttempt(u))]
    BY <1>1, <1>4 DEF LatestAttempt
  <2> QED
    BY <1>1, <2>1, <2>2, <2>3, NeverHeardRows
<1>5. CASE u \in Retried
  <2>1. /\ u \in Batch /\ u \notin NeverHeard /\ unit[u].state # "CLOSED" /\ u \notin Relisted
        /\ root.latest[u].quality = "INFRA_ERROR" /\ root.latest[u].number <= InfraRetries
    BY <1>2, <1>5, SettledUnit
  <2>2. LatestAttempt(u).state = "CLOSED" /\ LatestAttempt(u).quality = "INFRA_ERROR"
        /\ Latest(u) <= InfraRetries
    BY <2>1, SettledUnit
  <2>3. attempt'[u] = Append(attempt[u], NewAttempt) /\ unit'[u] = unit[u]
    BY <1>5, <2>1
  <2> QED
    BY <1>1, <1>5, <2>1, <2>2, <2>3, RetriedRows
<1>6. CASE u \in Batch /\ u \notin NeverHeard /\ u \notin Retried /\ u \notin Relisted
  <2>1. unit[u].state # "CLOSED" => /\ LatestAttempt(u).state = "CLOSED"
                                    /\ LatestAttempt(u).quality = root.latest[u].quality
    BY <1>6, SettledUnit
  <2>2. LatestAttempt(u).state = "CLOSED"
    BY <1>1, <2>1
  <2>3. /\ attempt'[u] = attempt[u]
        /\ unit'[u] = IF unit[u].state # "CLOSED"
                      THEN [state |-> "CLOSED", quality |-> root.latest[u].quality] ELSE unit[u]
    BY <1>6
  <2> QED
    BY <1>1, <1>6, <2>1, <2>2, <2>3, ResolvedRows
<1>7. CASE u \in Relisted /\ u \notin NeverHeard /\ u \notin Retried
  <2>1. attempt'[u] = attempt[u] /\ unit'[u] = unit[u]
    BY <1>7
  <2>2. \A n \in Numbers : <<u, n>> \in working' => <<u, n>> \in working
    OBVIOUS
  <2> QED
    BY <1>1, <1>7, <2>1, <2>2, RowsStay, UnitStepStays DEF Latest
<1> QED
  BY <1>3, <1>4, <1>5, <1>6, <1>7

\* The budget after the settling: as many more as are tried again.
LEMMA BudgetSettled ==
  ASSUME TUTypeOK, TUTypeOK', RetriesInBudget, Retried \in SUBSET Units,
         \A u \in Units : Latest(u)' = IF u \in Retried THEN Latest(u) + 1 ELSE Latest(u)
  PROVE  RetriesInBudget'
<1>1. /\ IsFiniteSet(Retried) /\ Cardinality(Retried) \in Nat
      /\ IsFiniteSet(Retries) /\ RetryCount \in Nat
      /\ RetryCount + Cardinality(Retried) <= TotalRetries
  BY RetriedFits
<1> DEFINE R == Retries'
           N == R \ Retries
           f == [r \in N |-> r[1]]
<1>2. ASSUME NEW r \in N
      PROVE  r[1] \in Retried /\ r[2] = Latest(r[1]) + 1 /\ r = <<r[1], r[2]>>
  <2>1. r \in Units \X Numbers /\ r[1] \in Units /\ r[2] \in Numbers
    BY DEF Retries
  <2>2. r[2] > 1 /\ r[2] <= Latest(r[1])' /\ ~ (r[2] <= Latest(r[1]))
    BY <2>1 DEF Retries
  <2>3. Latest(r[1]) \in Nat /\ r[2] \in Nat
    BY <2>1, UnitTypes, UnitNumbers
  <2> QED
    BY <2>1, <2>2, <2>3
<1>3. f \in [N -> Retried] /\ \A r, t \in N : f[r] = f[t] => r = t
  BY <1>2
<1> HIDE DEF f
<1>4. f \in Injection(N, Retried)
  BY <1>3 DEF Injection, IsInjective
<1>5. IsFiniteSet(N) /\ Cardinality(N) <= Cardinality(Retried) /\ Cardinality(N) \in Nat
  BY <1>1, <1>4, FS_Injection, FS_CardinalityType
<1> HIDE DEF N
<1>6. /\ IsFiniteSet(Retries \cup N)
      /\ Cardinality(Retries \cup N) = Cardinality(Retries) + Cardinality(N) - Cardinality(Retries \cap N)
      /\ Cardinality(Retries \cap N) \in Nat /\ Cardinality(Retries \cup N) \in Nat
  BY <1>1, <1>5, FS_Union, FS_Intersection, FS_CardinalityType
<1>7. R \in SUBSET (Retries \cup N)
  BY DEF N
<1>8. Cardinality(R) <= Cardinality(Retries \cup N) /\ Cardinality(R) \in Nat
  BY <1>6, <1>7, FS_Subset, FS_CardinalityType
<1>9. Cardinality(R) <= TotalRetries
  <2> HIDE DEF R
  <2> QED
    BY <1>1, <1>5, <1>6, <1>8, UnitNumbers DEF RetryCount
<1>10. (TUTypeOK /\ Cardinality(Retries) <= TotalRetries)'
  BY <1>9
<1> QED
  BY <1>10, BudgetFromCount, PTL

\* Settling a batch closes its units, or adds an attempt to those that are retried.
LEMMA SettlesKeeps ==
  ASSUME RunInv, root.at = "SETTLE", Settles, ~ SettleConflict, UNCHANGED <<run, children, overdue>>,
         attempt' = [u \in Units |->
           IF u \in NeverHeard
           THEN [attempt[u] EXCEPT ![Latest(u)] = ClosedBy("ROOT", root.latest[u].quality, @)]
           ELSE IF u \in Retried THEN Append(attempt[u], NewAttempt)
           ELSE attempt[u]],
         UnitCloses(Batch \ (Retried \cup Relisted), [u \in Units |-> root.latest[u].quality]),
         Replies([is |-> "SETTLED", retries |-> Ascending(Retried \cup Relisted)])
  PROVE  RunInv' /\ StepFits
<1>1. /\ TUTypeOK /\ RunFits /\ RootFits /\ RetriesInBudget /\ root \in Root
      /\ UNCHANGED <<child, working, orphan>> /\ run.state # "CLOSED"
  BY DEF RunInv, TUTypeOK, children, Settles
<1>2. Retried \cup Relisted \in SUBSET Units /\ Retried \in SUBSET Units /\ Batch \subseteq Units
      /\ Retried \cup Relisted \subseteq Batch
  BY <1>1 DEF Retried, Unresolved, Relisted, Batch, BatchOf, Root
<1>3. unit' = [u \in Units |-> IF u \in Batch \ (Retried \cup Relisted) /\ unit[u].state # "CLOSED"
                 THEN [state |-> "CLOSED", quality |-> root.latest[u].quality] ELSE unit[u]]
  BY DEF UnitCloses
<1>4. ASSUME NEW u \in Units
      PROVE  /\ attempt'[u] \in Seq(Attempt) /\ Latest(u)' \in Numbers
             /\ unit'[u] \in ExecutionUnit /\ RowsFit(u)' /\ UnitStep(u)
             /\ Latest(u)' = IF u \in Retried THEN Latest(u) + 1 ELSE Latest(u)
             /\ u \in Retried => \A n \in Numbers : <<u, n>> \notin working
  <2>1. /\ attempt'[u] = IF u \in NeverHeard
                         THEN [attempt[u] EXCEPT ![Latest(u)] = ClosedBy("ROOT", root.latest[u].quality, @)]
                         ELSE IF u \in Retried THEN Append(attempt[u], NewAttempt)
                         ELSE attempt[u]
        /\ unit'[u] = IF u \in Batch \ (Retried \cup Relisted) /\ unit[u].state # "CLOSED"
                      THEN [state |-> "CLOSED", quality |-> root.latest[u].quality] ELSE unit[u]
        /\ child'[u] = child[u] /\ working' = working
    BY <1>1, <1>3
  <2> QED
    BY <2>1, SettledRows
<1>5. attempt' \in [Units -> Seq(Attempt)] /\ unit' \in [Units -> ExecutionUnit]
  <2>1. DOMAIN attempt' = Units /\ attempt' = [u \in DOMAIN attempt' |-> attempt'[u]]
    OBVIOUS
  <2>2. DOMAIN unit' = Units /\ unit' = [u \in DOMAIN unit' |-> unit'[u]]
    BY <1>3
  <2> QED
    BY <1>4, <2>1, <2>2
<1> DEFINE again == Ascending(Retried \cup Relisted)
           reply == [is |-> "SETTLED", retries |-> again]
<1>6. /\ again \in Seq(Units)
      /\ \A i \in DOMAIN again : again[i] \in Retried \cup Relisted
  BY <1>2, AscendingFacts
<1> HIDE DEF again
<1>7. reply \in Answers /\ Replies(reply) /\ reply.is = "SETTLED" /\ reply.retries = again
  BY <1>6 DEF Answers, again
<1> HIDE DEF reply
<1>8. /\ root' \in Root /\ faults' \in 0..MaxFaults
      /\ root' = root \/ root' = [root EXCEPT !.reply = reply]
  BY <1>1, <1>7, ReplyTypes
<1>9. /\ root'.at = root.at /\ root'.unsettled = root.unsettled /\ root'.pending = root.pending
      /\ root'.latest = root.latest /\ root'.final = root.final
      /\ root' = root \/ root'.reply = reply
  BY <1>1, <1>8 DEF Root
<1>10. TUTypeOK'
  BY <1>1, <1>4, <1>5, <1>8 DEF TUTypeOK, Latest
<1>11. ASSUME NEW u \in Units
       PROVE  ChildFits(u)' /\ MemoryFits(u)'
  <2>1. /\ AttemptsMove(u) /\ RowsFit(u) /\ ChildFits(u) /\ MemoryFits(u) /\ child'[u] = child[u]
        /\ root'.latest[u] = root.latest[u] /\ root'.final[u] = root.final[u]
        /\ \A n \in Numbers : <<u, n>> \in working' => <<u, n>> \in working
    BY <1>1, <1>4, <1>9, UnitParts DEF UnitStep
  <2>2. unit[u].state # "QUEUED" => unit'[u].state # "QUEUED"
    BY <1>3
  <2>3. MemoryFits(u)'
    BY <1>1, <1>10, <2>1, MemoryStays
  <2>4. ChildFits(u)'
    <3>1. CASE u \notin Retried
      BY <1>1, <1>4, <1>10, <2>1, <2>2, <3>1, ChildStays
    <3>2. CASE u \in Retried
      <4>1. \A n \in Numbers : <<u, n>> \notin working'
        BY <1>1, <1>4, <3>2
      <4>2. child[u].at = "DONE" => Stands(u, child[u].answer)'
        BY <1>1, <1>10, <2>1, StandsStays DEF ChildFits
      <4> QED
        BY <1>4, <2>1, <2>2, <4>1, <4>2 DEF ChildFits
    <3> QED
      BY <3>1, <3>2
  <2> QED
    BY <2>3, <2>4
<1>12. RunFits' /\ RunStep
  BY <1>1, RunStays DEF RunStep, RowMoves, LifecycleMoves, RunFits
<1>13. ASSUME NEW u \in Retried \cup Relisted
       PROVE  u \in Batch /\ root.latest[u].number < Latest(u)'
  <2>1. u \in Batch /\ u \in Units
    BY <1>2
  <2>2. Latest(u) \in Nat /\ root.latest[u].number \in 1..Latest(u)
    BY <1>1, <2>1, SettledUnit, UnitTypes, UnitNumbers
  <2>3. CASE u \in Retried
    BY <1>4, <2>1, <2>2, <2>3
  <2>4. CASE u \in Relisted /\ u \notin Retried
    BY <1>4, <2>1, <2>2, <2>4, SettledUnit
  <2> QED
    BY <2>3, <2>4
<1>14. ASSUME NEW u \in Units
       PROVE  Latest(u) <= Latest(u)'
  <2>1. Latest(u) \in Nat
    BY <1>1, UnitTypes, UnitNumbers
  <2>2. Latest(u)' = Latest(u) + 1 \/ Latest(u)' = Latest(u)
    BY <1>4
  <2> QED
    BY <2>1, <2>2
<1>15. RootFits'
  <2>1. CASE root' = root
    BY <1>1, <1>9, <1>10, <1>14, <2>1, RootStays
  <2>2. CASE root'.reply = reply
    <3>1. Batch' = Batch
      BY <1>9 DEF Batch
    <3>2. root'.at = "SETTLE" /\ root'.unsettled /\ root'.reply.retries = again
      BY <1>1, <1>7, <1>9, <2>2 DEF RootFits
    <3>3. \A i \in DOMAIN again : again[i] \in Batch /\ root'.latest[again[i]].number < Len(attempt'[again[i]])
      <4>1. SUFFICES ASSUME NEW i \in DOMAIN again
                     PROVE  again[i] \in Batch /\ root'.latest[again[i]].number < Len(attempt'[again[i]])
        OBVIOUS
      <4>2. PICK v \in Retried \cup Relisted : v = again[i]
        BY <1>6
      <4>3. v \in Batch /\ root'.latest[v].number < Len(attempt'[v])
        BY <1>9, <1>13 DEF Latest
      <4> QED
        BY <4>2, <4>3
    <3>4. \A v \in Batch : root'.latest[v] # Nothing
      BY <1>1, <1>9 DEF RootFits
    <3>5. \A i \in DOMAIN root'.reply.retries :
            /\ root'.reply.retries[i] \in Batch'
            /\ root'.latest[root'.reply.retries[i]].number < Len(attempt'[root'.reply.retries[i]])
      BY <3>1, <3>2, <3>3
    <3> QED
      BY <3>1, <3>2, <3>4, <3>5 DEF RootFits, Latest
  <2> QED
    BY <1>9, <2>1, <2>2
<1>16. RetriesInBudget'
  BY <1>1, <1>2, <1>4, <1>10, BudgetSettled
<1> QED
  BY <1>4, <1>10, <1>11, <1>12, <1>15, <1>16 DEF RunInv, UnitsFit, StepFits

\* It settles them all, or writes nothing.
LEMMA SettleKeeps ==
  ASSUME RunInv, Settle
  PROVE  RunInv' /\ StepFits
<1>1. UNCHANGED <<children, overdue>> /\ root.at = "SETTLE"
  BY DEF Settle, Runs
<1>2. CASE Settles /\ SettleConflict /\ Refuses
  BY <1>1, <1>2, RefusesKeeps
<1>3. CASE UNCHANGED rows /\ (Says("PAUSE_REQUESTED") \/ Says("CANCEL_REQUESTED"))
  BY <1>1, <1>3, SaysKeeps
<1> QED
  BY <1>1, <1>2, <1>3, SettlesKeeps DEF Settle

-----------------------------------------------------------------------------
(* Finishing the run *)

\* The outcome a finish is sent of a unit stands, or says it was canceled.
LEMMA OutcomeStands ==
  ASSUME RunInv, NEW u \in Units, Outcomes(u) # Nothing
  PROVE  Stands(u, Outcomes(u)) \/ Outcomes(u).quality = "CANCELED"
<1>1. MemoryFits(u)
  BY UnitParts
<1> QED
  BY <1>1 DEF MemoryFits, Outcomes, Canceled

\* What a finish without a conflict says of a unit is what is already closed of
\* it, and neither a pass nor a fault of the infrastructure for what is open.
LEMMA FinishedUnit ==
  ASSUME RunInv, ~ FinishConflict, NEW u \in Units
  PROVE  /\ FinalQuality(u) \in Qualities \ {"PENDING"}
         /\ LatestAttempt(u).state # "CLOSED" => FinalQuality(u) \notin {"PASSED", "INFRA_ERROR"}
         /\ LatestAttempt(u).state = "CLOSED" => LatestAttempt(u).quality = FinalQuality(u)
         /\ unit[u].state = "CLOSED" => unit[u].quality = FinalQuality(u)
<1>1. CASE u \in Skipped
  <2>1. FinalQuality(u) = "CANCELED" /\ Untouched(u)
    BY <1>1 DEF FinalQuality, FinishConflict
  <2> QED
    BY <2>1 DEF Untouched, Qualities
<1>2. CASE u \notin Skipped
  <2>1. /\ FinalQuality(u) = Outcomes(u).quality /\ Outcomes(u) # Nothing
        /\ Reconcilable(u, Outcomes(u))
    BY <1>2 DEF FinalQuality, Skipped, FinishConflict
  <2>2. PICK o : o = Outcomes(u)
    OBVIOUS
  <2>3. Stands(u, o) \/ o.quality = "CANCELED"
    BY <2>1, <2>2, OutcomeStands
  <2>4. /\ o.number = Latest(u)
        /\ LatestAttempt(u).state = "CLOSED" => LatestAttempt(u).quality = o.quality
        /\ LatestAttempt(u).state # "CLOSED" => o.quality # "PASSED"
        /\ unit[u].state = "CLOSED" => unit[u].quality = o.quality
    BY <2>1, <2>2 DEF Reconcilable, Agrees
  <2>5. o.quality \in Qualities \ {"PENDING"}
    BY <2>3 DEF Stands, Outcome, Qualities
  <2>6. LatestAttempt(u).state # "CLOSED" => o.quality # "INFRA_ERROR"
    BY <2>3, <2>4 DEF Stands, LatestAttempt
  <2> QED
    BY <2>1, <2>2, <2>4, <2>5, <2>6
<1> QED
  BY <1>1, <1>2

\* The rows of a unit when its run closes.
LEMMA FinishedRows ==
  ASSUME RunInv, ~ FinishConflict, NEW u \in Units, working' = working,
         attempt'[u] = IF LatestAttempt(u).state = "CLOSED" THEN attempt[u]
                       ELSE [attempt[u] EXCEPT ![Latest(u)] = ClosedBy("ROOT", FinalQuality(u), @)],
         unit'[u] = IF unit[u].state # "CLOSED"
                    THEN [state |-> "CLOSED", quality |-> FinalQuality(u)] ELSE unit[u]
  PROVE  /\ attempt'[u] \in Seq(Attempt) /\ unit'[u] \in ExecutionUnit
         /\ RowsFit(u)' /\ UnitStep(u) /\ Latest(u)' = Latest(u)
         /\ unit'[u].state = "CLOSED" /\ unit'[u].quality = FinalQuality(u)
<1>1. unit[u].state = "CLOSED" => LatestAttempt(u).state = "CLOSED"
  BY UnitParts
<1>2. PICK q : q = FinalQuality(u)
  OBVIOUS
<1>3. /\ q \in Qualities \ {"PENDING"}
      /\ LatestAttempt(u).state # "CLOSED" => q \notin {"PASSED", "INFRA_ERROR"}
      /\ LatestAttempt(u).state = "CLOSED" => LatestAttempt(u).quality = q
      /\ unit[u].state = "CLOSED" => unit[u].quality = q
  BY <1>2, FinishedUnit
<1>4. /\ unit'[u] = IF unit[u].state # "CLOSED" THEN [state |-> "CLOSED", quality |-> q]
                    ELSE unit[u]
      /\ unit'[u].state = "CLOSED" /\ unit'[u].quality = q
  BY <1>2, <1>3
<1>5. CASE LatestAttempt(u).state = "CLOSED"
  <2>1. attempt'[u] = attempt[u]
    BY <1>5
  <2> QED
    BY <1>2, <1>3, <1>4, <1>5, <2>1, ResolvedRows
<1>6. CASE LatestAttempt(u).state # "CLOSED"
  <2>1. q \in {"FAILED", "INCONCLUSIVE", "CANCELED"}
    BY <1>3, <1>6 DEF Qualities
  <2>2. attempt'[u] = [attempt[u] EXCEPT ![Latest(u)] = ClosedBy("ROOT", q, LatestAttempt(u))]
    BY <1>2, <1>6 DEF LatestAttempt
  <2>3. unit'[u] = [state |-> "CLOSED", quality |-> q]
    BY <1>1, <1>4, <1>6
  <2> QED
    BY <1>2, <1>4, <1>6, <2>1, <2>2, <2>3, NeverHeardRows
<1> QED
  BY <1>5, <1>6

\* A run passes only if all its units do, and not if it was canceled.
LEMMA RunQualityFits ==
  /\ RunQuality \in {"CANCELED", "FAILED", "INCONCLUSIVE", "PASSED"}
  /\ run.state = "CANCELING" => RunQuality = "CANCELED"
  /\ \A u \in Units : RunQuality = "PASSED" /\ FinalQuality(u) \in Qualities \ {"PENDING"} =>
                       FinalQuality(u) = "PASSED"
<1>1. RunQuality \in {"CANCELED", "FAILED", "INCONCLUSIVE", "PASSED"}
  BY DEF RunQuality
<1>2. run.state = "CANCELING" => RunQuality = "CANCELED"
  BY DEF RunQuality, FinallyCanceled
<1>3. ASSUME RunQuality = "PASSED", NEW u \in Units, FinalQuality(u) \in Qualities \ {"PENDING"}
      PROVE  FinalQuality(u) = "PASSED"
  <2> DEFINE seen == {FinalQuality(v) : v \in Units}
  <2>1. FinalQuality(u) \in seen
    OBVIOUS
  <2>2. RunQuality = IF FinallyCanceled \/ "CANCELED" \in seen THEN "CANCELED"
                     ELSE IF "FAILED" \in seen THEN "FAILED"
                     ELSE IF {"INCONCLUSIVE", "INFRA_ERROR"} \cap seen # {} THEN "INCONCLUSIVE"
                     ELSE "PASSED"
    BY DEF RunQuality
  <2> HIDE DEF seen
  <2>3. {"CANCELED", "FAILED", "INCONCLUSIVE", "INFRA_ERROR"} \cap seen = {}
    BY <1>3, <2>2
  <2> QED
    BY <1>3, <2>1, <2>3 DEF Qualities
<1> QED
  BY <1>1, <1>2, <1>3

\* The run closes, and everything that is open of it.
LEMMA FinishClosesKeeps ==
  ASSUME RunInv, run.state # "CLOSED", ~ FinishConflict, UNCHANGED <<children, overdue>>,
         attempt' = [u \in Units |->
           IF LatestAttempt(u).state = "CLOSED" THEN attempt[u]
           ELSE [attempt[u] EXCEPT ![Latest(u)] = ClosedBy("ROOT", FinalQuality(u), @)]],
         UnitCloses(Units, [u \in Units |-> FinalQuality(u)]),
         run' = [run EXCEPT !.state = "CLOSED", !.quality = RunQuality, !.resume = FALSE],
         Says("RESULT")
  PROVE  RunInv' /\ StepFits
<1>1. /\ TUTypeOK /\ RunFits /\ RootFits /\ RetriesInBudget /\ run \in TaskRun
      /\ UNCHANGED <<child, working, orphan>>
  BY DEF RunInv, TUTypeOK, children
<1>2. /\ root' \in Root /\ faults' \in 0..MaxFaults
      /\ root' = root \/ (\E reply \in Answers :
                            reply.is # "SETTLED" /\ root' = [root EXCEPT !.reply = reply])
  BY <1>1, SaysTypes
<1>3. /\ root'.at = root.at /\ root'.unsettled = root.unsettled /\ root'.pending = root.pending
      /\ root'.latest = root.latest /\ root'.final = root.final
      /\ root'.reply = root.reply \/ root'.reply.is # "SETTLED"
  BY <1>1, <1>2 DEF TUTypeOK, Root
<1>4. unit' = [u \in Units |-> IF unit[u].state # "CLOSED"
                               THEN [state |-> "CLOSED", quality |-> FinalQuality(u)] ELSE unit[u]]
  BY DEF UnitCloses
<1>5. ASSUME NEW u \in Units
      PROVE  /\ attempt'[u] \in Seq(Attempt) /\ unit'[u] \in ExecutionUnit
             /\ RowsFit(u)' /\ UnitStep(u) /\ Latest(u)' = Latest(u)
             /\ unit'[u].state = "CLOSED" /\ unit'[u].quality = FinalQuality(u)
  <2>1. /\ attempt'[u] = IF LatestAttempt(u).state = "CLOSED" THEN attempt[u]
                         ELSE [attempt[u] EXCEPT ![Latest(u)] = ClosedBy("ROOT", FinalQuality(u), @)]
        /\ unit'[u] = IF unit[u].state # "CLOSED"
                      THEN [state |-> "CLOSED", quality |-> FinalQuality(u)] ELSE unit[u]
    BY <1>4
  <2> QED
    BY <1>1, <2>1, FinishedRows
<1>6. attempt' \in [Units -> Seq(Attempt)] /\ unit' \in [Units -> ExecutionUnit]
  <2>1. DOMAIN attempt' = Units /\ attempt' = [u \in DOMAIN attempt' |-> attempt'[u]]
    OBVIOUS
  <2>2. DOMAIN unit' = Units /\ unit' = [u \in DOMAIN unit' |-> unit'[u]]
    BY <1>4
  <2> QED
    BY <1>5, <2>1, <2>2
<1>7. /\ RunQuality \in {"CANCELED", "FAILED", "INCONCLUSIVE", "PASSED"}
      /\ run.state = "CANCELING" => RunQuality = "CANCELED"
  BY RunQualityFits
<1>8. /\ run' \in TaskRun /\ run'.state = "CLOSED" /\ run'.quality = RunQuality
      /\ run'.cancel = run.cancel
  BY <1>1, <1>7 DEF TaskRun, Qualities
<1>9. TUTypeOK'
  BY <1>1, <1>2, <1>5, <1>6, <1>8, UnitTypes DEF TUTypeOK, Latest
<1>10. ASSUME NEW u \in Units
       PROVE  /\ Latest(u)' \in 1..Latest(u)' /\ LatestAttempt(u)'.quality = FinalQuality(u)
              /\ LatestAttempt(u)'.state = "CLOSED"
              /\ LatestAttempt(u)'.quality = "PASSED" => LatestAttempt(u)'.by = "SEAL"
  <2>1. Latest(u)' \in 1..Latest(u)'
    BY <1>1, <1>5, UnitTypes
  <2>2. LatestAttempt(u)'.quality = FinalQuality(u)
    BY <1>5 DEF RowsFit
  <2>3. FinalQuality(u) # "PENDING"
    BY FinishedUnit
  <2>4. /\ StateValid(LatestAttempt(u))'
        /\ LatestAttempt(u)'.quality = "PASSED" => LatestAttempt(u)'.by = "SEAL"
    BY <1>5, <2>1 DEF RowsFit, LatestAttempt, StateValid
  <2> QED
    BY <2>1, <2>2, <2>3, <2>4 DEF StateValid
<1>11. RunFits'
  <2>1. StateValid(run)'
    BY <1>7, <1>8 DEF StateValid
  <2>2. run.cancel => RunQuality = "CANCELED"
    BY <1>1, <1>7 DEF RunFits
  <2>3. ASSUME NEW u \in Units, RunQuality = "PASSED"
        PROVE  LatestAttempt(u)'.quality = "PASSED" /\ LatestAttempt(u)'.by = "SEAL"
    <3>1. FinalQuality(u) \in Qualities \ {"PENDING"}
      BY FinishedUnit
    <3>2. FinalQuality(u) = "PASSED"
      BY <2>3, <3>1, RunQualityFits
    <3> QED
      BY <1>10, <3>2
  <2>4. ClosedRunIsComplete'
    BY <1>5, <1>8, <1>10, <2>2, <2>3 DEF ClosedRunIsComplete
  <2> QED
    BY <1>8, <2>1, <2>4 DEF RunFits
<1>12. RunStep
  BY <1>1, <1>7, <1>8 DEF RunStep, RowMoves, LifecycleMoves, StateValid, RunFits, TaskRun
<1>13. ASSUME NEW u \in Units
       PROVE  ChildFits(u)' /\ MemoryFits(u)' /\ Latest(u) <= Latest(u)'
  <2>1. /\ AttemptsMove(u) /\ ChildFits(u) /\ MemoryFits(u) /\ child'[u] = child[u]
        /\ root'.latest[u] = root.latest[u] /\ root'.final[u] = root.final[u]
        /\ Latest(u)' = Latest(u) /\ unit'[u].state # "QUEUED"
        /\ \A n \in Numbers : <<u, n>> \in working' => <<u, n>> \in working
    BY <1>1, <1>3, <1>5, UnitParts DEF UnitStep
  <2>2. ChildFits(u)'
    BY <1>1, <1>9, <2>1, ChildStays
  <2>3. MemoryFits(u)'
    BY <1>1, <1>9, <2>1, MemoryStays
  <2> QED
    BY <1>1, <2>1, <2>2, <2>3, UnitTypes, UnitNumbers
<1>14. RootFits'
  BY <1>1, <1>3, <1>9, <1>13, RootStays
<1>15. RetriesInBudget'
  BY <1>1, <1>5, <1>9, BudgetStays
<1> QED
  BY <1>5, <1>9, <1>11, <1>12, <1>13, <1>14, <1>15 DEF RunInv, UnitsFit, StepFits

\* Finishing a run closes it with all its units, or tells again how it closed.
LEMMA FinishRunKeeps ==
  ASSUME RunInv, FinishRun
  PROVE  RunInv' /\ StepFits
<1>1. UNCHANGED <<children, overdue>>
  BY DEF FinishRun
<1>2. CASE Refuses
  BY <1>1, <1>2, RefusesKeeps
<1>3. CASE UNCHANGED rows /\ Says("RESULT")
  BY <1>1, <1>3, SaysKeeps
<1> QED
  BY <1>1, <1>2, <1>3, FinishClosesKeeps DEF FinishRun

-----------------------------------------------------------------------------
(* The theorems about a run and its units *)

\* A run that was just created: nothing is closed, and nothing was tried again.
LEMMA InitFits == TUInit => RunInv
<1> SUFFICES ASSUME TUInit PROVE RunInv
  OBVIOUS
<1>1. NewAttempt \in Attempt /\ StateValid(NewAttempt) /\ NewAttempt.state = "QUEUED"
      /\ NewAttempt.quality = "PENDING"
  BY DEF NewAttempt, Attempt, Qualities, NoOne, StateValid
<1>2. ASSUME NEW u \in Units
      PROVE  attempt[u] = <<NewAttempt>> /\ Latest(u) = 1 /\ LatestAttempt(u) = NewAttempt
  BY DEF TUInit, Latest, LatestAttempt
<1>3. TUTypeOK
  <2>1. attempt \in [Units -> Seq(Attempt)] /\ \A u \in Units : Len(attempt[u]) \in Numbers
    BY <1>1, <1>2, UnitNumbers DEF TUInit
  <2>2. run \in TaskRun
    BY UnitNumbers DEF TUInit, TaskRun, Qualities
  <2>3. unit \in [Units -> ExecutionUnit] /\ child \in [Units -> Child]
    BY DEF TUInit, ExecutionUnit, Child, Qualities
  <2>4. root \in Root
    <3>1. NoReply \in Answers
      BY DEF NoReply, Answers
    <3>2. [u \in Units |-> u] \in Seq(Units)
      BY UnitNumbers DEF Units
    <3> QED
      BY <3>1, <3>2, UnitNumbers DEF TUInit, Root, Activities
  <2>5. working \subseteq Units \X Numbers /\ orphan \subseteq Units /\ overdue \in BOOLEAN
        /\ faults \in 0..MaxFaults
    <3>1. working = {} /\ orphan = {} /\ overdue = FALSE /\ faults = 0
      BY DEF TUInit
    <3>2. MaxFaults \in Nat
      BY UnitNumbers
    <3>3. faults \in 0..MaxFaults
      BY <3>1, <3>2
    <3> QED
      BY <3>1, <3>3
  <2> QED
    BY <2>1, <2>2, <2>3, <2>4, <2>5 DEF TUTypeOK
<1>4. ASSUME NEW u \in Units
      PROVE  RowsFit(u) /\ ChildFits(u) /\ MemoryFits(u)
  <2>1. /\ unit[u].state = "QUEUED" /\ unit[u].quality = "PENDING"
        /\ child[u].at = "NONE" /\ child[u].execution = "PENDING" /\ working = {}
        /\ root.latest[u] = Nothing /\ root.final[u] = Nothing
    BY DEF TUInit
  <2>2. \A n \in 1..1 : n = 1 /\ attempt[u][n] = NewAttempt
    BY <1>2
  <2>3. RowsFit(u)
    BY <1>1, <1>2, <2>1, <2>2 DEF RowsFit, StateValid
  <2> QED
    BY <2>1, <2>3 DEF ChildFits, MemoryFits
<1>5. RunFits
  BY DEF TUInit, RunFits, ClosedRunIsComplete, StateValid
<1>6. RootFits
  BY DEF TUInit, RootFits, NoReply
<1>7. RetriesInBudget
  <2>1. \A r \in Units \X Numbers : r[1] \in Units /\ r[2] \in Nat
    BY UnitNumbers
  <2>2. Retries = {}
    BY <1>2, <2>1 DEF Retries
  <2>3. Cardinality(Retries) <= TotalRetries
    BY <2>2, FS_EmptySet, UnitNumbers
  <2> QED
    BY <1>3, <2>3, BudgetFromCount
<1> QED
  BY <1>3, <1>4, <1>5, <1>6, <1>7 DEF RunInv, UnitsFit

\* Every step keeps the invariant, and moves the rows as their triggers admit.
LEMMA NextFits == RunInv /\ [TUNext]_unitVars => RunInv' /\ StepFits
<1> SUFFICES ASSUME RunInv, [TUNext]_unitVars PROVE RunInv' /\ StepFits
  OBVIOUS
<1>1. CASE RequestPause \/ RequestResume \/ RequestCancel \/ DeadlinePasses
  BY <1>1, RequestsKeep
<1>2. CASE RootActs \/ CancelSignaled \/ BatchRejected
  BY <1>2, CheckpointKeeps, SettleKeeps, PrepareBatchKeeps, FinishRunKeeps, RootMovesKeeps,
     CancelSignaledKeeps, BatchRejectedKeeps DEF RootActs
<1>3. ASSUME NEW u \in Units,
             ChildActs(u) \/ AdmissionRejects(u) \/ OrphanBegins(u) \/ GiveUp(u) \/ ChildFails(u)
      PROVE  RunInv' /\ StepFits
  BY <1>3, BeginKeeps, FinishAttemptKeeps, ExecutorCanceledKeeps, AdmissionRejectsKeeps,
     OrphanBeginsKeeps, GiveUpKeeps, ChildFailsKeeps DEF ChildActs
<1>4. ASSUME NEW u \in Units, NEW n \in Numbers,
             ExecutorActs(u, n) \/ \E verdict \in Verdicts : AcceptSeal(u, n, verdict)
      PROVE  RunInv' /\ StepFits
  BY <1>4, ReportKeeps, ZombieEndsKeeps, AcceptSealKeeps DEF ExecutorActs
<1>5. CASE UNCHANGED unitVars
  <2>1. UNCHANGED <<rows, child, working, orphan, root, overdue, faults>>
    BY <1>5 DEF unitVars, rows
  <2>2. TUTypeOK' /\ UNCHANGED <<unit, attempt>>
    BY <2>1 DEF RunInv, TUTypeOK, rows
  <2> QED
    BY <2>1, <2>2, RunUntouched, RootTold
<1> QED
  BY <1>1, <1>2, <1>3, <1>4, <1>5 DEF TUNext

\* The inductive invariant is one.
THEOREM RunInvariant == TUSpec => []RunInv
<1>1. RunInv /\ [TUNext]_unitVars => RunInv'
  BY NextFits
<1> QED
  BY InitFits, <1>1, PTL DEF TUSpec

\* What the invariant says of executors, of the attempts of a unit, and of the
\* budget of retries.
LEMMA RunInvCovers == RunInv => TUInv /\ ClosedRunIsComplete
<1> SUFFICES ASSUME RunInv PROVE TUInv /\ ClosedRunIsComplete
  OBVIOUS
<1>1. TUTypeOK /\ RetriesInBudget /\ ClosedRunIsComplete
  BY DEF RunInv, RunFits
<1>2. OneExecution
  <2>1. ASSUME NEW u \in Units
        PROVE  Cardinality({n \in Numbers : <<u, n>> \in working}) <= 1
    <3>1. {n \in Numbers : <<u, n>> \in working} \in SUBSET {Latest(u)}
      BY UnitParts DEF ChildFits
    <3>2. IsFiniteSet({Latest(u)}) /\ Cardinality({Latest(u)}) = 1
      BY FS_Singleton
    <3> QED
      BY <3>1, <3>2, FS_Subset
  <2>2. \A u \in Units, n \in Numbers : <<u, n>> \in working => n = Latest(u)
    BY UnitParts DEF ChildFits
  <2> QED
    BY <2>1, <2>2 DEF OneExecution
<1>3. UnitFollowsAttempts
  <2>1. ASSUME NEW u \in Units
        PROVE  /\ \A n \in 1..Latest(u) - 1 : attempt[u][n].quality = "INFRA_ERROR"
               /\ unit[u].state = "CLOSED" => unit[u].quality = LatestAttempt(u).quality
    <3>1. RowsFit(u) /\ Latest(u) \in Nat
      BY <1>1, UnitParts, UnitTypes, UnitNumbers
    <3>2. \A n \in 1..Latest(u) - 1 : n \in 1..Latest(u) /\ n < Latest(u)
      BY <3>1
    <3> QED
      BY <3>1, <3>2 DEF RowsFit
  <2> QED
    BY <2>1 DEF UnitFollowsAttempts
<1> QED
  BY <1>1, <1>2, <1>3 DEF TUInv

\* An attempt is never tried again while an executor may still be at it, a unit
\* is what its last attempt came to, and the retries keep to their budget.
THEOREM UnitsAgree == TUSpec => []TUInv
BY RunInvariant, RunInvCovers, PTL

\* A run that is closed has nothing open; it has passed only if every attempt
\* that counts was sealed as passed, and not if its cancel was accepted.
THEOREM RunsCloseComplete == TUSpec => []ClosedRunIsComplete
BY RunInvariant, RunInvCovers, PTL

\* A closed row does not change any more, and no row moves in a way its table's
\* trigger would refuse.
LEMMA StepIsInOrder ==
  RunInv /\ StepFits =>
    /\ run.state = "CLOSED" => UNCHANGED rows
    /\ \A u \in Units : \A n \in DOMAIN attempt[u] :
         attempt[u][n].state = "CLOSED" => attempt'[u][n] = attempt[u][n]
    /\ RowMoves(run, run')
    /\ \A u \in Units :
         /\ RowMoves(unit[u], unit'[u])
         /\ \A n \in DOMAIN attempt[u] : RowMoves(attempt[u][n], attempt'[u][n])
         /\ attempt'[u] # attempt[u] /\ Len(attempt'[u]) # Latest(u) => AttemptInsertable(u)
         /\ (attempt'[u][Latest(u)].ticket /\ ~ LatestAttempt(u).ticket) => TicketInsertable(u)
<1> SUFFICES ASSUME RunInv, StepFits
             PROVE  /\ run.state = "CLOSED" => UNCHANGED rows
                    /\ \A u \in Units : \A n \in DOMAIN attempt[u] :
                         attempt[u][n].state = "CLOSED" => attempt'[u][n] = attempt[u][n]
                    /\ RowMoves(run, run')
                    /\ \A u \in Units :
                         /\ RowMoves(unit[u], unit'[u])
                         /\ \A n \in DOMAIN attempt[u] : RowMoves(attempt[u][n], attempt'[u][n])
                         /\ attempt'[u] # attempt[u] /\ Len(attempt'[u]) # Latest(u) =>
                              AttemptInsertable(u)
                         /\ (attempt'[u][Latest(u)].ticket /\ ~ LatestAttempt(u).ticket) =>
                              TicketInsertable(u)
  OBVIOUS
<1>1. \A u \in Units : DOMAIN attempt[u] = 1..Latest(u)
  BY UnitTypes DEF RunInv
<1>2. RunStep /\ \A u \in Units : UnitStep(u)
  BY DEF StepFits
<1> QED
  BY <1>1, <1>2 DEF RunStep, UnitStep, AttemptsMove

\* Late writers change nothing, and the others run into no guard.
THEOREM WritersKeepOrder == TUSpec => WritersAreInOrder
<1>1. ASSUME RunInv, [TUNext]_unitVars
      PROVE  StepFits
  BY <1>1, NextFits
<1>2. RunInv /\ [TUNext]_unitVars =>
        [/\ run.state = "CLOSED" => UNCHANGED rows
         /\ \A u \in Units : \A n \in DOMAIN attempt[u] :
              attempt[u][n].state = "CLOSED" => attempt'[u][n] = attempt[u][n]]_unitVars
  BY <1>1, StepIsInOrder
<1>3. RunInv /\ [TUNext]_unitVars =>
        [/\ RowMoves(run, run')
         /\ \A u \in Units :
              /\ RowMoves(unit[u], unit'[u])
              /\ \A n \in DOMAIN attempt[u] : RowMoves(attempt[u][n], attempt'[u][n])
              /\ attempt'[u] # attempt[u] /\ Len(attempt'[u]) # Latest(u) => AttemptInsertable(u)
              /\ (attempt'[u][Latest(u)].ticket /\ ~ LatestAttempt(u).ticket) => TicketInsertable(u)
        ]_unitVars
  BY <1>1, StepIsInOrder
<1> QED
  BY RunInvariant, <1>2, <1>3, PTL DEF TUSpec, WritersAreInOrder, ClosedIsFinal, TaskGuardsAdmit

-----------------------------------------------------------------------------
(* While nothing goes wrong outside of the root *)

\* Nothing has gone wrong outside of the root.
Calm == faults = 0 /\ ~ overdue

\* A unit is in the list of those to be tried, and nothing is at work on it.
Pending(u) == \E i \in DOMAIN root.pending : root.pending[i] = u
Idle(u) == /\ child[u].at \in {"NONE", "DONE", "FAILED"}
           /\ \A n \in Numbers : <<u, n>> \notin working

\* The root was told of the last attempt of a unit.
Told(u) ==
  /\ root.latest[u] # Nothing
  /\ root.latest[u].number = Latest(u)
  /\ LatestAttempt(u).state = "CLOSED" => Agrees(LatestAttempt(u), root.latest[u])

\* A unit is over as the root was told.
IsOver(u) ==
  /\ Told(u)
  /\ LatestAttempt(u).state = "CLOSED"
  /\ unit[u].state = "CLOSED" /\ unit[u].quality = root.latest[u].quality

\* A unit waits for its first attempt, or for the next one.
IsNext(u) ==
  /\ LatestAttempt(u).state = "QUEUED"
  /\ root.latest[u] = Nothing => Latest(u) = 1 /\ unit[u].state = "QUEUED"
  /\ root.latest[u] # Nothing => root.latest[u].number + 1 = Latest(u) /\ unit[u].state = "RUNNING"

\* The unit is with its child.
IsDispatched(u) ==
  /\ root.number[u] = Latest(u)
  /\ unit[u].state # "CLOSED"
  /\ child[u].at \in {"BEGIN", "FAILED"} => LatestAttempt(u).state = "QUEUED"
  /\ child[u].at = "DONE" => /\ LatestAttempt(u).state = "CLOSED"
                             /\ child[u].answer.number = Latest(u)
                             /\ Agrees(LatestAttempt(u), child[u].answer)

\* The child of the unit has ended, and it is not settled.
IsHeard(u) ==
  /\ Told(u)
  /\ root.number[u] = Latest(u)
  /\ unit[u].state # "CLOSED"
  /\ LatestAttempt(u).state # "CLOSED" => root.cancel

\* The settling has told the root to try the unit again.
Again(u) == \E i \in DOMAIN root.reply.retries : root.reply.retries[i] = u

\* Where a unit is while the root goes round its loop.
UnitCalm(u) ==
  /\ ~ Idle(u) => root.at = "BATCH" /\ u \in Batch
  /\ child[u].at = "FAILED" => root.cancel
  /\ \A n \in Numbers : <<u, n>> \in working => child[u].at = "EXECUTE"
  /\ ~ Pending(u) => IsOver(u) /\ root.final[u] = root.latest[u]
  /\ Pending(u) /\ (u \in Batch => ~ root.unsettled /\ root.at # "BATCH") =>
       IsNext(u) /\ root.number[u] = Latest(u)
  /\ u \in Batch /\ root.at = "BATCH" => IsDispatched(u)
  /\ u \in Batch /\ root.unsettled /\ root.reply.is # "SETTLED" => IsHeard(u)
  /\ u \in Batch /\ root.reply.is = "SETTLED" =>
       IF Again(u) THEN IsNext(u) /\ root.latest[u] # Nothing ELSE IsOver(u)

\* The root has met no error, knows of no cancel the run does not, and has left
\* its loop when the run is closed.
RootCalm ==
  /\ root.reply.is # "ERROR" /\ root.at # "FAILED"
  /\ root.cancel => run.cancel
  /\ root.input => root.cancel
  /\ root.reply.is \in {"CANCELING", "CANCEL_REQUESTED"} => run.cancel
  /\ orphan # {} => root.cancel
  /\ run.state = "CLOSED" => root.at \in {"FINISH", "END"}
  /\ run.state = "CLOSED" /\ Runs("FINISH") => root.input
  /\ root.at \in {"PREPARE", "BATCH", "LAST"} => ~ root.unsettled
  /\ root.at = "LAST" => root.pending = <<>>

\* The units go into the batches in their order, and come back at the end.
InOrder ==
  /\ \A i, j \in DOMAIN root.pending :
       /\ root.pending[i] = root.pending[j] => i = j
       /\ i < j /\ root.latest[root.pending[j]] = Nothing => root.pending[i] < root.pending[j]
  /\ \A u, v \in Units : root.latest[u] = Nothing /\ root.latest[v] # Nothing => v < u
  /\ root.reply.is = "SETTLED" =>
       \A i, j \in DOMAIN root.reply.retries :
         root.reply.retries[i] = root.reply.retries[j] => i = j

\* A finish finds everything in agreement, with all children gone.
FinishCalm ==
  /\ ~ FinishConflict
  /\ \A u \in Units : Idle(u)
  /\ ~ root.input => \A u \in Units : /\ root.final[u] # Nothing /\ root.final[u] = root.latest[u]
                                      /\ ~ Pending(u)

\* What holds while nothing has gone wrong outside of the root.
CalmNow ==
  /\ RootCalm /\ InOrder
  /\ root.at \notin {"FINISH", "END"} => \A u \in Units : UnitCalm(u)
  /\ root.at = "FINISH" => FinishCalm

\* The invariant: it says nothing once something has gone wrong.
CalmFits == Calm => CalmNow

-----------------------------------------------------------------------------
\* What UnitCalm reads of the rows, the child and the executors of a unit.
SameUnit(u) ==
  /\ unit'[u] = unit[u] /\ child'[u] = child[u]
  /\ Latest(u)' = Latest(u)
  /\ LatestAttempt(u)'.state = LatestAttempt(u).state
  /\ LatestAttempt(u)'.quality = LatestAttempt(u).quality
  /\ LatestAttempt(u)'.by = LatestAttempt(u).by
  /\ \A n \in Numbers : <<u, n>> \in working' <=> <<u, n>> \in working

\* What it reads of the root.
SameMemory ==
  /\ root'.unsettled = root.unsettled /\ root'.pending = root.pending
  /\ root'.latest = root.latest /\ root'.final = root.final /\ root'.number = root.number

\* A unit that nothing happens to.
LEMMA UnitCalmStays ==
  ASSUME NEW u \in Units, UnitCalm(u), SameUnit(u), SameMemory,
         root'.at = "BATCH" <=> root.at = "BATCH", root.cancel => root'.cancel,
         \/ u \notin Batch
         \/ root'.reply = root.reply
         \/ root.reply.is # "SETTLED" /\ root'.reply.is # "SETTLED"
  PROVE  UnitCalm(u)'
<1>1. Batch' = Batch /\ Pending(u)' = Pending(u)
  BY DEF SameMemory, Batch, Pending
<1>2. Told(u)' = Told(u) /\ IsOver(u)' = IsOver(u) /\ IsNext(u)' = IsNext(u)
  BY DEF SameUnit, SameMemory, Told, IsOver, IsNext, Agrees
<1>3. IsDispatched(u)' = IsDispatched(u) /\ Idle(u)' = Idle(u) /\ (IsHeard(u) => IsHeard(u)')
  BY <1>2 DEF SameUnit, SameMemory, IsDispatched, IsHeard, Agrees, Idle
<1> QED
  BY <1>1, <1>2, <1>3 DEF SameUnit, SameMemory, UnitCalm, Again

\* What a finish would find stays free of conflicts.
LEMMA FinishStays ==
  ASSUME \A u \in Units : SameUnit(u) /\ Outcomes(u)' = Outcomes(u),
         FinallyCanceled => FinallyCanceled', ~ FinishConflict
  PROVE  ~ FinishConflict'
<1>1. Skipped' = Skipped /\ Skipped \subseteq Units
  BY DEF Skipped
<1>2. \A u \in Units : Untouched(u)' = Untouched(u)
  BY DEF SameUnit, Untouched
<1>3. ASSUME NEW u \in Units
      PROVE  Reconcilable(u, Outcomes(u))' = Reconcilable(u, Outcomes(u))
  BY <1>3 DEF SameUnit, Reconcilable, Agrees
<1> QED
  BY <1>1, <1>2, <1>3 DEF FinishConflict

\* The root is told something that settles nothing, or not even that.
ToldOnly ==
  /\ SameMemory /\ root'.at = root.at /\ root'.cancel = root.cancel /\ root'.input = root.input
  /\ \/ root'.reply = root.reply
     \/ /\ root.reply = NoReply /\ root'.reply.is \notin {"NONE", "ERROR", "SETTLED"}
        /\ root'.reply.is \in {"CANCELING", "CANCEL_REQUESTED"} => run'.cancel

\* A step that happens to no unit.
LEMMA CalmStays ==
  ASSUME CalmNow, \A u \in Units : SameUnit(u), orphan' = orphan, ToldOnly,
         run.cancel => run'.cancel, run'.state = "CLOSED" => run.state = "CLOSED",
         FinallyCanceled => FinallyCanceled'
  PROVE  CalmNow'
<1>1. RootCalm'
  BY DEF CalmNow, RootCalm, ToldOnly, SameMemory, Runs, NoReply
<1>2. InOrder'
  BY DEF CalmNow, InOrder, ToldOnly, SameMemory, NoReply
<1>3. root'.at \notin {"FINISH", "END"} => \A u \in Units : UnitCalm(u)'
  <2>1. SUFFICES ASSUME root.at \notin {"FINISH", "END"}, NEW u \in Units
                 PROVE  UnitCalm(u)'
    BY DEF ToldOnly
  <2>2. UnitCalm(u)
    BY <2>1 DEF CalmNow
  <2> QED
    BY <2>2, UnitCalmStays DEF ToldOnly, NoReply
<1>4. root'.at = "FINISH" => FinishCalm'
  <2>1. SUFFICES ASSUME root.at = "FINISH" PROVE FinishCalm'
    BY DEF ToldOnly
  <2>2. FinishCalm
    BY <2>1 DEF CalmNow
  <2>3. \A u \in Units : Pending(u)' = Pending(u) /\ Idle(u)' = Idle(u)
    BY DEF ToldOnly, SameMemory, Pending, Idle, SameUnit
  <2>4. \A u \in Units : Outcomes(u)' = Outcomes(u)
    BY DEF Outcomes, ToldOnly, SameMemory
  <2>5. ~ FinishConflict'
    BY <2>2, <2>4, FinishStays DEF FinishCalm
  <2> QED
    BY <2>2, <2>3, <2>5 DEF FinishCalm, ToldOnly, SameMemory
<1> QED
  BY <1>1, <1>2, <1>3, <1>4 DEF CalmNow

-----------------------------------------------------------------------------
(* The steps of children and executors while nothing goes wrong *)

\* A fault is not calm.
LEMMA CalmHasNoFault == TUTypeOK /\ faults' = 0 => ~ Fault /\ \A what : ~ Lost(what)
<1> SUFFICES ASSUME TUTypeOK, faults' = 0 PROVE ~ Fault
  BY DEF Lost
<1>1. faults \in Nat
  BY UnitNumbers DEF TUTypeOK
<1> QED
  BY <1>1 DEF Fault

\* A unit whose rows, child and executors are left alone.
LEMMA SameRows ==
  ASSUME NEW u \in Units, unit'[u] = unit[u], attempt'[u] = attempt[u], child'[u] = child[u],
         \A n \in Numbers : <<u, n>> \in working' <=> <<u, n>> \in working
  PROVE  SameUnit(u)
BY DEF SameUnit, Latest, LatestAttempt

\* A unit that is at work is in the batch that was dispatched.
LEMMA ActiveUnit ==
  ASSUME CalmNow, NEW u \in Units, ~ Idle(u), root.at # "END"
  PROVE  root.at = "BATCH" /\ u \in Batch /\ UnitCalm(u) /\ IsDispatched(u)
<1>1. root.at # "FINISH"
  BY DEF CalmNow, FinishCalm
<1>2. UnitCalm(u)
  BY <1>1 DEF CalmNow
<1> QED
  BY <1>2 DEF UnitCalm

\* Once the root has ended, no unit concerns it any more.
LEMMA EndedCalm ==
  ASSUME CalmNow, root.at = "END", UNCHANGED <<root, orphan>>, run.cancel => run'.cancel,
         run'.state = "CLOSED" => run.state = "CLOSED"
  PROVE  CalmNow'
BY DEF CalmNow, RootCalm, InOrder, Runs

\* The child of one unit moves on, with its attempt.
LEMMA ActiveMoves ==
  ASSUME RunInv, CalmNow, NEW u \in Units, ~ Idle(u), UNCHANGED <<root, orphan>>,
         run.cancel => run'.cancel, run'.state = "CLOSED" => run.state = "CLOSED",
         \A v \in Units : v # u => SameUnit(v),
         root.at # "END" =>
           /\ Latest(u)' = Latest(u)
           /\ unit[u].state # "CLOSED" => unit'[u].state # "CLOSED"
           /\ child'[u].at \notin {"BEGIN", "FAILED"}
           /\ \A n \in Numbers : <<u, n>> \in working' => child'[u].at = "EXECUTE"
           /\ child'[u].at = "DONE" => /\ LatestAttempt(u)'.state = "CLOSED"
                                       /\ child'[u].answer.number = Latest(u)
                                       /\ Agrees(LatestAttempt(u), child[u].answer)'
  PROVE  CalmNow'
<1>1. CASE root.at = "END"
  BY <1>1, EndedCalm
<1>2. CASE root.at # "END"
  <2>1. root.at = "BATCH" /\ u \in Batch /\ UnitCalm(u) /\ IsDispatched(u)
    BY <1>2, ActiveUnit
  <2>2. ~ root.unsettled /\ root.reply.is # "SETTLED"
    BY <2>1 DEF CalmNow, RootCalm, RunInv, RootFits
  <2>3. RootCalm' /\ InOrder'
    BY DEF CalmNow, RootCalm, InOrder, Runs
  <2>4. Batch' = Batch /\ Pending(u)' = Pending(u) /\ Pending(u)
    BY <2>1 DEF Batch, BatchOf, Pending
  <2>5. IsDispatched(u)'
    BY <1>2, <2>1 DEF IsDispatched
  <2>6. UnitCalm(u)'
    BY <1>2, <2>1, <2>2, <2>4, <2>5 DEF UnitCalm
  <2>7. ASSUME NEW v \in Units, v # u
        PROVE  UnitCalm(v)'
    <3>1. UnitCalm(v) /\ SameUnit(v) /\ SameMemory
      BY <2>1, <2>7 DEF CalmNow, SameMemory
    <3> QED
      BY <3>1, UnitCalmStays
  <2> QED
    BY <2>1, <2>3, <2>6, <2>7 DEF CalmNow
<1> QED
  BY <1>1, <1>2

\* A begin nobody waits for does nothing: the run is being canceled.
LEMMA OrphanBeginsCalm ==
  ASSUME RunInv, CalmNow, NEW u \in Units, OrphanBegins(u)
  PROVE  CalmNow'
<1>1. run.cancel
  BY DEF OrphanBegins, CalmNow, RootCalm
<1>2. run.state \in {"CANCELING", "CLOSED"}
  BY <1>1 DEF RunInv, RunFits
<1> QED
  BY <1>2 DEF OrphanBegins, Startable, Authorized

\* A child begins its attempt, or goes to its finish.
LEMMA BeginCalm ==
  ASSUME RunInv, CalmNow, NEW u \in Units, Begin(u), faults' = 0
  PROVE  CalmNow'
<1>1. /\ TUTypeOK /\ child \in [Units -> Child] /\ child[u].at = "BEGIN" /\ ~ Idle(u)
      /\ UNCHANGED <<root, orphan>> /\ ~ Lost("ANSWER")
      /\ run \in TaskRun /\ unit \in [Units -> ExecutionUnit]
  BY CalmHasNoFault DEF RunInv, TUTypeOK, Begin, Idle
<1>2. IF Startable(u) THEN StartAttempt(u) ELSE UNCHANGED rows
  BY DEF Begin
<1>3. run'.cancel = run.cancel /\ (run'.state = "CLOSED" => run.state = "CLOSED")
  BY <1>1, <1>2 DEF StartAttempt, rows, TaskRun
<1>4. unit[u].state # "CLOSED" => unit'[u].state # "CLOSED"
  BY <1>1, <1>2 DEF StartAttempt, rows, ExecutionUnit
<1>5. \/ BeginStatus(u) = "READY" /\ Executes(u)
      \/ /\ Finishes(u, IF BeginStatus(u) = "CANCELED" THEN "CANCELED" ELSE "INCONCLUSIVE")
         /\ UNCHANGED working
  BY <1>1 DEF Begin
<1>6. /\ \A v \in Units : v # u => unit'[v] = unit[v] /\ attempt'[v] = attempt[v]
      /\ \A v \in Units : Latest(v)' = Latest(v)
  BY <1>2, <1>5, BeginRows DEF Executes
<1>7. /\ child'[u].at = "EXECUTE" \/ (child'[u].at = "FINISH" /\ working' = working)
      /\ \A v \in Units : v # u => child'[v] = child[v]
      /\ \A v \in Units : v # u => \A n \in Numbers : <<v, n>> \in working' <=> <<v, n>> \in working
  BY <1>1, <1>5 DEF Executes, Finishes, Child
<1>8. \A v \in Units : v # u => SameUnit(v)
  BY <1>6, <1>7, SameRows
<1>9. root.at # "END" => \A n \in Numbers : <<u, n>> \notin working
  BY <1>1, ActiveUnit DEF UnitCalm
<1> QED
  BY <1>1, <1>3, <1>4, <1>6, <1>7, <1>8, <1>9, ActiveMoves

\* A child whose executor has stopped goes to its finish.
LEMMA ExecutionEndsCalm ==
  ASSUME RunInv, CalmNow, NEW u \in Units, NEW execution, child[u].at = "EXECUTE",
         working' = working \ {<<u, Latest(u)>>}, Finishes(u, execution),
         UNCHANGED <<rows, orphan, root>>
  PROVE  CalmNow'
<1>1. /\ child \in [Units -> Child] /\ ~ Idle(u) /\ ChildFits(u)
      /\ UNCHANGED <<run, unit, attempt>>
  BY UnitParts DEF TUTypeOK, Idle, rows
<1>2. child'[u].at = "FINISH" /\ \A v \in Units : v # u => child'[v] = child[v]
  BY <1>1 DEF Finishes, Child
<1>3. \A n \in Numbers : <<u, n>> \notin working'
  BY <1>1 DEF ChildFits
<1>4. \A v \in Units : v # u => SameUnit(v)
  BY <1>1, <1>2, SameRows
<1>5. Latest(u)' = Latest(u)
  BY <1>1 DEF Latest
<1> QED
  BY <1>1, <1>2, <1>3, <1>4, <1>5, ActiveMoves

\* An executor that nobody waits for is nowhere at work before the end.
LEMMA ZombieEndsCalm ==
  ASSUME RunInv, CalmNow, NEW u \in Units, NEW n \in Numbers, ZombieEnds(u, n)
  PROVE  CalmNow'
<1>1. <<u, n>> \in working /\ ~ Awaited(u, n) /\ ~ Idle(u) /\ ChildFits(u)
      /\ UNCHANGED <<run, root, orphan>>
  BY UnitParts DEF ZombieEnds, Idle, rows
<1>2. root.at # "END" => Awaited(u, n)
  BY <1>1, ActiveUnit DEF UnitCalm, ChildFits, Awaited
<1> QED
  BY <1>1, <1>2, EndedCalm

\* A seal closes the attempt that is executed.
LEMMA AcceptSealCalm ==
  ASSUME RunInv, CalmNow, NEW u \in Units, NEW n \in Numbers, NEW verdict \in Verdicts,
         AcceptSeal(u, n, verdict)
  PROVE  CalmNow'
<1>1. /\ <<u, n>> \in working /\ ~ Idle(u) /\ attempt \in [Units -> Seq(Attempt)]
      /\ UNCHANGED <<run, unit, child, working, orphan, root>>
      /\ attempt' = [attempt EXCEPT ![u][n] = ClosedBy("SEAL", verdict, @)]
  BY DEF AcceptSeal, Idle, RunInv, TUTypeOK, children
<1>2. /\ \A v \in Units : v # u => attempt'[v] = attempt[v]
      /\ attempt'[u] = [attempt[u] EXCEPT ![n] = ClosedBy("SEAL", verdict, @)]
  BY <1>1
<1>3. \A v \in Units : v # u => SameUnit(v)
  BY <1>1, <1>2, SameRows
<1>4. Len(attempt'[u]) = Len(attempt[u])
  BY <1>1, <1>2
<1>5. root.at # "END" => child[u].at = "EXECUTE"
  BY <1>1, ActiveUnit DEF UnitCalm
<1> QED
  BY <1>1, <1>3, <1>4, <1>5, ActiveMoves DEF Latest

\* The finish of a child closes its attempt and answers what it came to.
LEMMA FinishAttemptCalm ==
  ASSUME RunInv, CalmNow, NEW u \in Units, FinishAttempt(u), faults' = 0
  PROVE  CalmNow'
<1>1. /\ TUTypeOK /\ child \in [Units -> Child] /\ child[u].at = "FINISH" /\ ~ Idle(u)
      /\ UNCHANGED <<run, unit, working, orphan, root>> /\ ~ Lost("ANSWER")
      /\ attempt \in [Units -> Seq(Attempt)] /\ Latest(u) \in 1..Latest(u)
  BY CalmHasNoFault, UnitTypes DEF RunInv, TUTypeOK, FinishAttempt, Idle
<1>2. child' = [child EXCEPT ![u].at = "DONE", ![u].answer = AnswerOf(u, Finished(u))]
  BY <1>1 DEF FinishAttempt
<1>3. attempt' = [attempt EXCEPT ![u][Latest(u)] = Finished(u)]
  BY DEF FinishAttempt
<1>4. PICK a : a = Finished(u)
  OBVIOUS
<1>5. a.state = "CLOSED"
  BY <1>1, <1>4, UnitTypes DEF Finished, ClosedBy, Attempt
<1>6. /\ \A v \in Units : v # u => attempt'[v] = attempt[v] /\ child'[v] = child[v]
      /\ Len(attempt'[u]) = Latest(u) /\ attempt'[u][Latest(u)] = a
      /\ child'[u].at = "DONE" /\ child'[u].answer = AnswerOf(u, a)
  BY <1>1, <1>2, <1>3, <1>4 DEF Child, Latest
<1>7. \A v \in Units : v # u => SameUnit(v)
  BY <1>1, <1>6, SameRows
<1>8. LatestAttempt(u)' = a /\ Latest(u)' = Latest(u)
  BY <1>6 DEF Latest, LatestAttempt
<1>9. child'[u].answer.number = Latest(u) /\ Agrees(LatestAttempt(u), child[u].answer)'
  BY <1>6, <1>8 DEF AnswerOf, Agrees
<1>10. root.at # "END" => \A n \in Numbers : <<u, n>> \notin working
  BY <1>1, ActiveUnit DEF UnitCalm
<1> QED
  BY <1>1, <1>5, <1>6, <1>7, <1>8, <1>9, <1>10, ActiveMoves

-----------------------------------------------------------------------------
(* Users and the root's transactions while nothing goes wrong *)

\* A step that writes no row of a unit and starts or stops nothing.
LEMMA SameRowsOfAll ==
  UNCHANGED <<unit, attempt, child, working>> =>
    \A u \in Units : SameUnit(u)
BY DEF SameUnit, Latest, LatestAttempt

\* A user asks for something.
LEMMA RequestsCalm ==
  ASSUME RunInv, CalmNow, RequestPause \/ RequestResume \/ RequestCancel
  PROVE  CalmNow'
<1>1. /\ UNCHANGED <<unit, attempt, child, working, orphan, root>> /\ run \in TaskRun
      /\ run.cancel => run.state \in {"CANCELING", "CLOSED"}
  BY DEF RequestPause, RequestResume, RequestCancel, children, RunInv, RunFits, TUTypeOK
<1>2. /\ run.cancel => run'.cancel
      /\ run'.state = "CLOSED" => run.state = "CLOSED"
      /\ run.state = "CANCELING" => run'.state = "CANCELING"
  BY <1>1 DEF RequestPause, RequestResume, RequestCancel, TaskRun
<1>3. ToldOnly /\ (FinallyCanceled => FinallyCanceled')
  BY <1>1, <1>2 DEF ToldOnly, SameMemory, FinallyCanceled
<1> QED
  BY <1>1, <1>2, <1>3, SameRowsOfAll, CalmStays

\* The root is told what settles nothing.
LEMMA SaysCalm ==
  ASSUME RunInv, CalmNow, faults' = 0, root.reply = NoReply,
         NEW what \in {"CANCELING", "PAUSED", "DISPATCHABLE", "PAUSE_REQUESTED",
                       "CANCEL_REQUESTED", "AUTHORIZED", "RESULT"},
         Says(what), what \in {"CANCELING", "CANCEL_REQUESTED"} => run'.cancel,
         \A u \in Units : SameUnit(u), orphan' = orphan,
         run.cancel => run'.cancel, run'.state = "CLOSED" => run.state = "CLOSED",
         run.state = "CANCELING" => run'.state = "CANCELING"
  PROVE  CalmNow'
<1>1. TUTypeOK /\ ~ Lost("ANSWER")
  BY CalmHasNoFault DEF RunInv
<1>2. root' = [root EXCEPT !.reply = [is |-> what]] /\ root \in Root
  BY <1>1 DEF Says, Replies, TUTypeOK
<1>3. ToldOnly
  BY <1>2 DEF ToldOnly, SameMemory, Root
<1>4. FinallyCanceled => FinallyCanceled'
  BY <1>3 DEF FinallyCanceled, ToldOnly
<1> QED
  BY <1>3, <1>4, CalmStays

\* A checkpoint tells the root whether to go on.
LEMMA CheckpointCalm ==
  ASSUME RunInv, CalmNow, Checkpoint, faults' = 0
  PROVE  CalmNow'
<1>1. /\ UNCHANGED <<unit, attempt, child, working, orphan>> /\ run \in TaskRun
      /\ root.reply = NoReply /\ RunFits
  BY DEF Checkpoint, children, RunInv, TUTypeOK, Runs
<1>2. \A u \in Units : SameUnit(u)
  BY <1>1, SameRowsOfAll
<1>3. CASE run.state = "CANCELING" /\ Says("CANCELING") /\ UNCHANGED run
  BY <1>1, <1>2, <1>3, SaysCalm DEF RunFits
<1>4. CASE run.state \in {"QUEUED", "RUNNING"} /\ Says("DISPATCHABLE") /\ UNCHANGED run
  BY <1>1, <1>2, <1>4, SaysCalm
<1>5. CASE /\ run.state = "PAUSE_REQUESTED" \/ (run.state = "PAUSED" /\ ~ run.resume)
           /\ run' = [run EXCEPT !.state = "PAUSED"]
           /\ Says("PAUSED")
  <2>1. run'.cancel = run.cancel /\ run'.state = "PAUSED" /\ run.state # "CANCELING"
    BY <1>1, <1>5 DEF TaskRun
  <2> QED
    BY <1>1, <1>2, <1>5, <2>1, SaysCalm
<1>6. CASE /\ run.state = "PAUSED" /\ run.resume
           /\ run' = [run EXCEPT !.state = "RUNNING", !.resume = FALSE]
           /\ Says("DISPATCHABLE")
  <2>1. run'.cancel = run.cancel /\ run'.state = "RUNNING" /\ run.state # "CANCELING"
    BY <1>1, <1>6 DEF TaskRun
  <2> QED
    BY <1>1, <1>2, <1>6, <2>1, SaysCalm
<1> QED
  BY <1>3, <1>4, <1>5, <1>6 DEF Checkpoint

\* The attempt of a unit that waits in the batch can be prepared.
LEMMA NextIsDispatchable ==
  ASSUME RunInv, NEW u \in Units, IsNext(u), root.number[u] = Latest(u)
  PROVE  DispatchableAttempt(u, root.number[u]) /\ LatestAttempt(u).state = "QUEUED"
<1>1. /\ RowsFit(u) /\ MemoryFits(u) /\ Latest(u) \in Nat /\ TUTypeOK
      /\ root.latest[u] \in Outcome \cup {Nothing}
  BY UnitParts, UnitTypes, UnitNumbers
<1>2. CASE root.latest[u] = Nothing
  BY <1>2 DEF IsNext, DispatchableAttempt
<1>3. CASE root.latest[u] # Nothing
  <2>1. /\ root.latest[u].number \in Numbers /\ root.latest[u].number + 1 = Latest(u)
        /\ unit[u].state = "RUNNING"
    BY <1>1, <1>3 DEF Outcome, IsNext
  <2>2. root.latest[u].number \in Nat /\ root.latest[u].number >= 1
    BY <2>1, UnitNumbers DEF Numbers
  <2>3. Latest(u) # 1 /\ Latest(u) - 1 \in 1..Latest(u) /\ Latest(u) - 1 < Latest(u)
    BY <1>1, <2>1, <2>2
  <2>4. attempt[u][Latest(u) - 1].quality = "INFRA_ERROR" /\ attempt[u][Latest(u) - 1].state = "CLOSED"
    BY <1>1, <2>3 DEF RowsFit, StateValid
  <2> QED
    BY <2>1, <2>3, <2>4 DEF IsNext, DispatchableAttempt
<1> QED
  BY <1>2, <1>3 DEF IsNext

\* A batch that is to be prepared can be.
LEMMA BatchIsPreparable ==
  ASSUME RunInv, CalmNow, Runs("PREPARE"), ~ overdue
  PROVE  Preparable
<1>1. SUFFICES ASSUME NEW u \in Units, u \in Batch
               PROVE  DispatchableAttempt(u, root.number[u]) /\ LatestAttempt(u).state = "QUEUED"
  BY DEF Preparable, Unprepared, Batch, BatchOf, RunInv, TUTypeOK, Root
<1>2. UnitCalm(u) /\ ~ root.unsettled /\ root.at = "PREPARE"
  BY DEF CalmNow, RootCalm, Runs
<1>3. Pending(u)
  BY <1>1 DEF Pending, Batch, BatchOf
<1>4. IsNext(u) /\ root.number[u] = Latest(u)
  BY <1>2, <1>3 DEF UnitCalm
<1> QED
  BY <1>4, NextIsDispatchable

\* Preparing a batch gives tickets, and is refused for no reason of its own.
LEMMA PrepareCalm ==
  ASSUME RunInv, CalmNow, PrepareBatch, faults' = 0, ~ overdue
  PROVE  CalmNow'
<1>1. /\ UNCHANGED <<run, unit, child, working, orphan>> /\ TUTypeOK /\ RunFits
      /\ root.reply = NoReply /\ Runs("PREPARE") /\ Preparable
  BY BatchIsPreparable DEF PrepareBatch, children, RunInv, Runs
<1>2. CASE Pausing /\ Says("PAUSE_REQUESTED") /\ UNCHANGED attempt
  BY <1>1, <1>2, SameRowsOfAll, SaysCalm DEF Pausing
<1>3. CASE run.state = "CANCELING" /\ Says("CANCEL_REQUESTED") /\ UNCHANGED attempt
  BY <1>1, <1>3, SameRowsOfAll, SaysCalm DEF RunFits
<1>4. CASE /\ attempt' = [u \in Units |-> IF u \in Unprepared
                           THEN [attempt[u] EXCEPT ![Latest(u)].ticket = TRUE] ELSE attempt[u]]
           /\ Says("AUTHORIZED")
  <2>1. ASSUME NEW u \in Units
        PROVE  SameUnit(u)
    <3>1. CASE u \notin Unprepared
      <4>1. attempt'[u] = attempt[u]
        BY <1>4, <3>1
      <4> QED
        BY <1>1, <4>1, SameRows
    <3>2. CASE u \in Unprepared
      <4>1. LatestAttempt(u) \in Attempt
        BY <1>1, UnitTypes
      <4> DEFINE a == [LatestAttempt(u) EXCEPT !.ticket = TRUE]
      <4>2. /\ a \in Attempt /\ a.state = LatestAttempt(u).state /\ a.by = LatestAttempt(u).by
            /\ a.quality = LatestAttempt(u).quality
        BY <4>1 DEF Attempt
      <4>3. attempt'[u] = [attempt[u] EXCEPT ![Latest(u)] = a]
        BY <1>4, <3>2 DEF LatestAttempt
      <4> HIDE DEF a
      <4>4. Len(attempt'[u]) = Latest(u) /\ attempt'[u][Latest(u)] = a
        BY <1>1, <4>2, <4>3, LatestReplaced
      <4>5. Latest(u)' = Latest(u) /\ LatestAttempt(u)' = a
        BY <4>4 DEF Latest, LatestAttempt
      <4> QED
        BY <1>1, <4>2, <4>5 DEF SameUnit
    <3> QED
      BY <3>1, <3>2
  <2> QED
    BY <1>1, <1>4, <2>1, SaysCalm
<1> QED
  BY <1>1, <1>2, <1>3, <1>4 DEF PrepareBatch

\* A child that is canceled before it has begun: it stops, or it finishes.
LEMMA StoppedCalm ==
  ASSUME RunInv, CalmNow, NEW u \in Units, child[u].at = "BEGIN", root.at \notin {"FINISH", "END"},
         child'[u].at \in {"FAILED", "FINISH"}, SameMemory, root'.at = root.at, root'.cancel,
         root'.reply = root.reply, UNCHANGED <<unit, attempt, working>>
  PROVE  UnitCalm(u)'
<1>1. root.at = "BATCH" /\ u \in Batch /\ UnitCalm(u) /\ IsDispatched(u)
  BY ActiveUnit DEF Idle
<1>2. ~ root.unsettled /\ root.reply.is # "SETTLED"
  BY <1>1 DEF CalmNow, RootCalm, RunInv, RootFits
<1>3. Batch' = Batch /\ Pending(u)' = Pending(u) /\ Pending(u)
  BY <1>1 DEF Batch, BatchOf, Pending, SameMemory
<1>4. Latest(u)' = Latest(u) /\ LatestAttempt(u)' = LatestAttempt(u)
  BY DEF Latest, LatestAttempt
<1>5. IsDispatched(u)'
  BY <1>1, <1>4 DEF IsDispatched, SameMemory
<1>6. \A n \in Numbers : <<u, n>> \notin working'
  BY <1>1 DEF UnitCalm
<1> QED
  BY <1>1, <1>2, <1>3, <1>5, <1>6 DEF UnitCalm, SameMemory

\* A cancel reaches the root: of its children only those that had not begun are
\* disturbed, and what a finish was sent is what it would be sent again.
LEMMA CancelSignaledCalm ==
  ASSUME RunInv, CalmNow, CancelSignaled
  PROVE  CalmNow'
<1>1. /\ TUTypeOK /\ child \in [Units -> Child] /\ root \in Root /\ run.cancel /\ ~ root.cancel
      /\ UNCHANGED <<run, unit, attempt, working>> /\ root.at # "END"
  BY DEF RunInv, TUTypeOK, CancelSignaled, rows
<1>2. SameMemory /\ root'.at = root.at /\ root'.cancel /\ root'.reply = root.reply
      /\ root'.input = root.input
  BY <1>1 DEF CancelSignaled, SameMemory, Root
<1>3. PICK never \in SUBSET Beginning :
        /\ child' = [u \in Units |->
             IF u \in never THEN [child[u] EXCEPT !.at = "FAILED"]
             ELSE IF u \in Beginning
                  THEN [child[u] EXCEPT !.at = "FINISH", !.execution = "INCONCLUSIVE"]
             ELSE child[u]]
        /\ orphan' = orphan \cup (Beginning \ never)
  BY DEF CancelSignaled
<1>4. ASSUME NEW u \in Units
      PROVE  /\ child[u].at # "BEGIN" => child'[u] = child[u]
             /\ child[u].at = "BEGIN" => child'[u].at \in {"FAILED", "FINISH"}
  BY <1>1, <1>3 DEF Child, Beginning
<1>5. ASSUME NEW u \in Units, child[u].at # "BEGIN"
      PROVE  SameUnit(u)
  BY <1>1, <1>4, <1>5, SameRows
<1>6. RootCalm' /\ InOrder'
  BY <1>1, <1>2 DEF CalmNow, RootCalm, InOrder, SameMemory, Runs
<1>7. CASE root.at # "FINISH"
  <2>1. ASSUME NEW u \in Units
        PROVE  UnitCalm(u)'
    <3>1. CASE child[u].at = "BEGIN"
      BY <1>1, <1>2, <1>4, <1>7, <3>1, StoppedCalm
    <3>2. CASE child[u].at # "BEGIN"
      <4>1. UnitCalm(u) /\ SameUnit(u)
        BY <1>1, <1>5, <1>7, <3>2 DEF CalmNow
      <4> QED
        BY <1>1, <1>2, <4>1, UnitCalmStays
    <3> QED
      BY <3>1, <3>2
  <2> QED
    BY <1>2, <1>6, <1>7, <2>1 DEF CalmNow
<1>8. CASE root.at = "FINISH"
  <2>1. FinishCalm /\ ~ root.input
    BY <1>1, <1>8 DEF CalmNow, RootCalm
  <2>2. \A u \in Units : child[u].at # "BEGIN" /\ SameUnit(u)
    BY <1>5, <2>1 DEF FinishCalm, Idle
  <2>3. ASSUME NEW u \in Units
        PROVE  Outcomes(u)' = Outcomes(u)
    <3>1. ~ Pending(u) /\ root.final[u] = root.latest[u]
      BY <2>1 DEF FinishCalm
    <3> QED
      BY <1>1, <1>2, <3>1 DEF Outcomes, Pending, SameMemory
  <2>4. FinallyCanceled => FinallyCanceled'
    BY <1>1, <1>2 DEF FinallyCanceled
  <2>5. ~ FinishConflict'
    BY <2>1, <2>2, <2>3, <2>4, FinishStays DEF FinishCalm
  <2>6. \A u \in Units : Idle(u)' /\ (Pending(u)' <=> Pending(u))
    BY <1>2, <2>1, <2>2 DEF FinishCalm, Idle, SameUnit, SameMemory, Pending
  <2>7. FinishCalm'
    BY <1>2, <2>1, <2>5, <2>6 DEF FinishCalm, SameMemory
  <2> QED
    BY <1>2, <1>6, <1>8, <2>7 DEF CalmNow
<1> QED
  BY <1>7, <1>8

\* A unit is reconciled again with what the finish has closed of it.
LEMMA ClosedIsReconcilable ==
  ASSUME RunInv, NEW u \in Units, NEW o, o = Outcomes(u), u \notin Skipped,
         Reconcilable(u, o), Latest(u)' = Latest(u), LatestAttempt(u)'.state = "CLOSED",
         LatestAttempt(u).state = "CLOSED" => LatestAttempt(u)' = LatestAttempt(u),
         LatestAttempt(u).state # "CLOSED" => /\ LatestAttempt(u)'.quality = o.quality
                                              /\ LatestAttempt(u)'.by = "ROOT",
         unit'[u].quality = o.quality
  PROVE  Reconcilable(u, o)'
<1>1. o # Nothing /\ MemoryFits(u) /\ o.number = Latest(u)
  BY UnitParts DEF Skipped, Reconcilable
<1>2. Stands(u, o) \/ o.by = "ROOT"
  BY <1>1 DEF Outcomes, MemoryFits, Canceled
<1>3. LatestAttempt(u).state # "CLOSED" => o.by = "ROOT"
  BY <1>1, <1>2 DEF Stands, LatestAttempt
<1> QED
  BY <1>1, <1>3 DEF Reconcilable, Agrees

\* A finish closes the run, and would find the same again.
LEMMA FinishClosesCalm ==
  ASSUME RunInv, RunInv', CalmNow, root.at = "FINISH", UNCHANGED <<children, overdue>>,
         attempt' = [u \in Units |->
           IF LatestAttempt(u).state = "CLOSED" THEN attempt[u]
           ELSE [attempt[u] EXCEPT ![Latest(u)] = ClosedBy("ROOT", FinalQuality(u), @)]],
         UnitCloses(Units, [u \in Units |-> FinalQuality(u)]),
         run' = [run EXCEPT !.state = "CLOSED", !.quality = RunQuality, !.resume = FALSE],
         root' = [root EXCEPT !.reply = [is |-> "RESULT"]]
  PROVE  CalmNow'
<1>1. /\ TUTypeOK /\ root \in Root /\ run \in TaskRun /\ FinishCalm /\ ~ FinishConflict
      /\ UNCHANGED <<child, working, orphan>>
  BY DEF RunInv, TUTypeOK, CalmNow, FinishCalm, children
<1>2. /\ SameMemory /\ root'.at = "FINISH" /\ root'.cancel = root.cancel /\ root'.input = root.input
      /\ root'.reply.is = "RESULT" /\ run'.cancel = run.cancel
  BY <1>1 DEF SameMemory, Root, TaskRun
<1>3. RootCalm' /\ InOrder'
  BY <1>1, <1>2 DEF CalmNow, RootCalm, InOrder, SameMemory, Runs, NoReply
<1>4. ASSUME NEW u \in Units
      PROVE  Outcomes(u)' = Outcomes(u) /\ Pending(u)' = Pending(u) /\ Idle(u)' = Idle(u)
  BY <1>1, <1>2 DEF Outcomes, SameMemory, Pending, Idle
<1>5. Skipped' = Skipped /\ Skipped \subseteq Units
  BY <1>4 DEF Skipped
<1>6. Skipped # {} => root'.input
  <2>1. SUFFICES ASSUME NEW u \in Units, Outcomes(u) = Nothing, ~ root.input PROVE FALSE
    BY <1>2 DEF Skipped
  <2>2. root.final[u] # Nothing /\ root.final[u] = root.latest[u] /\ ~ Pending(u)
    BY <1>1, <2>1 DEF FinishCalm
  <2> QED
    BY <2>1, <2>2 DEF Outcomes, Pending
<1>7. ASSUME NEW u \in Units
      PROVE  /\ Latest(u)' = Latest(u) /\ LatestAttempt(u)'.state = "CLOSED"
             /\ LatestAttempt(u).state = "CLOSED" => LatestAttempt(u)' = LatestAttempt(u)
             /\ LatestAttempt(u).state # "CLOSED" => /\ LatestAttempt(u)'.quality = FinalQuality(u)
                                                     /\ LatestAttempt(u)'.by = "ROOT"
             /\ unit'[u].quality = FinalQuality(u)
  <2>1. FinalQuality(u) \in Qualities /\ LatestAttempt(u) \in Attempt
        /\ (unit[u].state = "CLOSED" => unit[u].quality = FinalQuality(u))
    BY <1>1, FinishedUnit, UnitTypes
  <2>2. unit'[u].quality = FinalQuality(u)
    BY <2>1 DEF UnitCloses
  <2>3. CASE LatestAttempt(u).state = "CLOSED"
    <3>1. attempt'[u] = attempt[u]
      BY <2>3
    <3> QED
      BY <2>2, <2>3, <3>1 DEF Latest, LatestAttempt
  <2>4. CASE LatestAttempt(u).state # "CLOSED"
    <3> DEFINE a == ClosedBy("ROOT", FinalQuality(u), LatestAttempt(u))
    <3>1. a \in Attempt /\ a.state = "CLOSED" /\ a.quality = FinalQuality(u) /\ a.by = "ROOT"
      BY <2>1 DEF ClosedBy, Attempt
    <3>2. attempt'[u] = [attempt[u] EXCEPT ![Latest(u)] = a]
      BY <2>4 DEF LatestAttempt
    <3> HIDE DEF a
    <3>3. Len(attempt'[u]) = Latest(u) /\ attempt'[u][Latest(u)] = a
      BY <1>1, <3>1, <3>2, LatestReplaced
    <3>4. Latest(u)' = Latest(u) /\ LatestAttempt(u)' = a
      BY <3>3 DEF Latest, LatestAttempt
    <3> QED
      BY <2>2, <2>4, <3>1, <3>4
  <2> QED
    BY <2>3, <2>4
<1>8. ASSUME NEW u \in Skipped
      PROVE  Untouched(u)' /\ \A v \in Units \ Skipped : ~ (v > u)
  <2>1. Untouched(u) /\ u \in Units /\ FinalQuality(u) = "CANCELED"
    BY <1>1, <1>5 DEF FinishConflict, FinalQuality
  <2>2. unit'[u].quality = "CANCELED" /\ Latest(u)' = 1
    BY <1>7, <2>1 DEF Untouched
  <2>3. LatestAttempt(u)'.quality = "CANCELED"
    <3>1. (RowsFit(u) /\ StateValid(unit[u]))' /\ unit'[u].quality = LatestAttempt(u)'.quality
      <4>1. unit'[u].state = "CLOSED"
        BY <2>1 DEF UnitCloses
      <4> QED
        BY <2>1, <4>1 DEF RunInv, UnitsFit, RowsFit
    <3> QED
      BY <2>2, <3>1
  <2> QED
    BY <1>1, <2>2, <2>3 DEF Untouched, FinishConflict
<1>9. ASSUME NEW u \in Units, u \notin Skipped
      PROVE  Reconcilable(u, Outcomes(u))'
  <2>1. PICK o : o = Outcomes(u)
    OBVIOUS
  <2>2. Reconcilable(u, o) /\ FinalQuality(u) = o.quality
    BY <1>1, <1>9, <2>1 DEF FinishConflict, FinalQuality
  <2>3. Reconcilable(u, o)'
    BY <1>7, <1>9, <2>1, <2>2, ClosedIsReconcilable
  <2>4. Outcomes(u)' = o
    BY <1>4, <2>1
  <2> QED
    BY <2>3, <2>4 DEF Reconcilable, Agrees
<1>10. ~ FinishConflict'
  BY <1>5, <1>6, <1>8, <1>9 DEF FinishConflict, FinallyCanceled
<1>11. FinishCalm'
  BY <1>1, <1>2, <1>4, <1>10 DEF FinishCalm, SameMemory
<1> QED
  BY <1>2, <1>3, <1>11 DEF CalmNow

\* Finishing a run is refused for no reason of its own.
LEMMA FinishRunCalm ==
  ASSUME RunInv, RunInv', CalmNow, FinishRun, faults' = 0
  PROVE  CalmNow'
<1>1. /\ root.at = "FINISH" /\ root.reply = NoReply /\ ~ FinishConflict
      /\ UNCHANGED <<children, overdue>> /\ UNCHANGED <<child, working, orphan>>
      /\ TUTypeOK /\ ~ Lost("ANSWER")
  BY CalmHasNoFault DEF FinishRun, Runs, CalmNow, FinishCalm, children, RunInv
<1>2. CASE /\ run.state # "CLOSED"
           /\ attempt' = [u \in Units |->
                IF LatestAttempt(u).state = "CLOSED" THEN attempt[u]
                ELSE [attempt[u] EXCEPT ![Latest(u)] = ClosedBy("ROOT", FinalQuality(u), @)]]
           /\ UnitCloses(Units, [u \in Units |-> FinalQuality(u)])
           /\ run' = [run EXCEPT !.state = "CLOSED", !.quality = RunQuality, !.resume = FALSE]
           /\ Says("RESULT")
  <2>1. root' = [root EXCEPT !.reply = [is |-> "RESULT"]]
    BY <1>1, <1>2 DEF Says, Replies
  <2> QED
    BY <1>1, <1>2, <2>1, FinishClosesCalm
<1>3. CASE /\ run.state = "CLOSED"
           /\ IF run.quality = RunQuality THEN Says("RESULT") /\ UNCHANGED rows ELSE Refuses
  <2>1. root.input /\ run.cancel
    BY <1>1, <1>3 DEF CalmNow, RootCalm, Runs
  <2>2. RunQuality = "CANCELED"
    BY <2>1 DEF RunQuality, FinallyCanceled
  <2>3. run.quality = "CANCELED"
    BY <1>3, <2>1 DEF RunInv, RunFits, ClosedRunIsComplete
  <2>4. Says("RESULT") /\ UNCHANGED <<run, unit, attempt>>
    BY <1>3, <2>2, <2>3 DEF rows
  <2> QED
    BY <1>1, <2>4, SameRowsOfAll, SaysCalm
<1> QED
  BY <1>1, <1>2, <1>3 DEF FinishRun

\* The settling finds that every unit of its batch has closed its attempt.
LEMMA SettlingFinds ==
  ASSUME RunInv, CalmNow, Runs("SETTLE"), Settles
  PROVE  /\ NeverHeard = {} /\ Relisted = {} /\ ~ SettleConflict
         /\ root.unsettled /\ ~ root.cancel /\ Batch \subseteq Units
         /\ \A u \in Batch : UnitCalm(u) /\ IsHeard(u) /\ LatestAttempt(u).state = "CLOSED"
<1>1. /\ root.at = "SETTLE" /\ root.unsettled /\ root.reply.is # "SETTLED" /\ ~ root.cancel
      /\ Batch \subseteq Units /\ TUTypeOK
  BY DEF RunInv, RunFits, RootFits, Runs, Settles, CalmNow, RootCalm, NoReply, TUTypeOK, Root,
         Batch, BatchOf
<1>2. ASSUME NEW u \in Batch
      PROVE  UnitCalm(u) /\ IsHeard(u) /\ LatestAttempt(u).state = "CLOSED"
  <2>1. UnitCalm(u) /\ u \in Units
    BY <1>1 DEF CalmNow
  <2> QED
    BY <1>1, <2>1 DEF UnitCalm, IsHeard
<1>3. ASSUME NEW u \in Batch
      PROVE  /\ Reported(u) = LatestAttempt(u) /\ Agrees(Reported(u), root.latest[u])
             /\ Reported(u).state = "CLOSED" /\ unit[u].state # "CLOSED"
             /\ root.latest[u].number = Latest(u)
  BY <1>2 DEF IsHeard, Told, Reported, LatestAttempt
<1>4. NeverHeard = {}
  BY <1>3 DEF NeverHeard
<1>5. Relisted = {}
  <2>1. ASSUME NEW u \in Batch
        PROVE  ~ RetryOf(u)
    <3>1. Latest(u) \in Nat
      BY <1>1, UnitTypes, UnitNumbers
    <3> QED
      BY <1>3, <3>1 DEF RetryOf
  <2> QED
    BY <2>1 DEF Relisted
<1>6. ~ SettleConflict
  BY <1>3, <1>4, <1>5 DEF SettleConflict
<1> QED
  BY <1>1, <1>2, <1>4, <1>5, <1>6

\* A unit that is tried again waits for its next attempt.
LEMMA RetriedIsNext ==
  ASSUME RunInv, NEW u \in Units, IsHeard(u), LatestAttempt(u).state = "CLOSED",
         root.latest[u].quality = "INFRA_ERROR", attempt'[u] = Append(attempt[u], NewAttempt),
         unit'[u] = unit[u], root'.latest = root.latest
  PROVE  IsNext(u)'
<1>1. /\ TUTypeOK /\ RowsFit(u) /\ unit[u] \in ExecutionUnit /\ attempt[u] \in Seq(Attempt)
      /\ Latest(u) \in 1..Latest(u) /\ Len(attempt[u]) = Latest(u) /\ Latest(u) \in Nat
  BY UnitParts, UnitTypes, UnitNumbers DEF Latest
<1>2. LatestAttempt(u).quality = "INFRA_ERROR" /\ root.latest[u] # Nothing
      /\ root.latest[u].number = Latest(u) /\ unit[u].state # "CLOSED"
  BY DEF IsHeard, Told, Agrees
<1>3. unit[u].state = "RUNNING"
  BY <1>1, <1>2 DEF RowsFit, LatestAttempt, ExecutionUnit
<1>4. Len(attempt'[u]) = Latest(u) + 1 /\ attempt'[u][Latest(u) + 1] = NewAttempt
  BY <1>1 DEF NewAttempt, Attempt, Qualities, NoOne
<1>5. Latest(u)' = Latest(u) + 1 /\ LatestAttempt(u)' = NewAttempt
  BY <1>4 DEF Latest, LatestAttempt
<1> QED
  BY <1>2, <1>3, <1>5 DEF IsNext, NewAttempt

\* A batch is settled: each of its units is over, or waits for its next attempt.
LEMMA SettlesCalm ==
  ASSUME RunInv, CalmNow, Runs("SETTLE"), Settles, UNCHANGED <<run, children, overdue>>,
         attempt' = [u \in Units |->
           IF u \in NeverHeard
           THEN [attempt[u] EXCEPT ![Latest(u)] = ClosedBy("ROOT", root.latest[u].quality, @)]
           ELSE IF u \in Retried THEN Append(attempt[u], NewAttempt)
           ELSE attempt[u]],
         UnitCloses(Batch \ (Retried \cup Relisted), [u \in Units |-> root.latest[u].quality]),
         root' = [root EXCEPT !.reply = [is |-> "SETTLED",
                                         retries |-> Ascending(Retried \cup Relisted)]]
  PROVE  CalmNow'
<1>1. /\ NeverHeard = {} /\ Relisted = {} /\ root.unsettled /\ ~ root.cancel /\ Batch \subseteq Units
      /\ \A u \in Batch : UnitCalm(u) /\ IsHeard(u) /\ LatestAttempt(u).state = "CLOSED"
  BY SettlingFinds
<1>2. /\ TUTypeOK /\ root \in Root /\ root.at = "SETTLE" /\ root.reply.is # "SETTLED"
      /\ UNCHANGED <<child, working, orphan>> /\ Retried \subseteq Batch
  BY DEF RunInv, TUTypeOK, Runs, NoReply, children, Retried, Unresolved
<1> DEFINE again == Ascending(Retried)
<1>3. /\ SameMemory /\ root'.at = "SETTLE" /\ root'.cancel = root.cancel /\ root'.input = root.input
      /\ root'.reply.is = "SETTLED" /\ root'.reply.retries = again
  <2>1. Retried \cup Relisted = Retried
    BY <1>1
  <2> QED
    BY <1>2, <2>1 DEF SameMemory, Root
<1>4. /\ \A i \in DOMAIN again : again[i] \in Retried /\ Rank(Retried, again[i]) = i
      /\ \A u \in Retried : \E i \in DOMAIN again : again[i] = u
  <2>1. Retried \in SUBSET Units
    BY <1>1, <1>2
  <2>2. DOMAIN again = 1..Cardinality(Retried)
    BY DEF Ascending
  <2> QED
    BY <2>1, <2>2, AscendingFacts
<1> HIDE DEF again
<1>5. RootCalm'
  BY <1>2, <1>3 DEF CalmNow, RootCalm, SameMemory, Runs, NoReply
<1>6. InOrder'
  <2>1. \A i, j \in DOMAIN again : again[i] = again[j] => i = j
    BY <1>4
  <2> QED
    BY <1>3, <2>1 DEF CalmNow, InOrder, SameMemory
<1>7. ASSUME NEW u \in Units
      PROVE  Again(u)' <=> u \in Retried
  BY <1>3, <1>4 DEF Again
<1>8. ASSUME NEW u \in Units
      PROVE  /\ attempt'[u] = IF u \in Retried THEN Append(attempt[u], NewAttempt) ELSE attempt[u]
             /\ unit'[u] = IF u \in Batch \ Retried /\ unit[u].state # "CLOSED"
                           THEN [state |-> "CLOSED", quality |-> root.latest[u].quality]
                           ELSE unit[u]
  BY <1>1 DEF UnitCloses
<1>9. ASSUME NEW u \in Units, u \notin Batch
      PROVE  UnitCalm(u)'
  <2>1. attempt'[u] = attempt[u] /\ unit'[u] = unit[u] /\ UnitCalm(u)
    BY <1>2, <1>8, <1>9 DEF CalmNow
  <2>2. SameUnit(u)
    BY <1>2, <2>1, SameRows
  <2> QED
    BY <1>2, <1>3, <1>9, <2>1, <2>2, UnitCalmStays
<1>10. ASSUME NEW u \in Batch
       PROVE  UnitCalm(u)'
  <2>1. UnitCalm(u) /\ IsHeard(u) /\ LatestAttempt(u).state = "CLOSED" /\ u \in Units
    BY <1>1
  <2>2. Batch' = Batch /\ Pending(u)' = Pending(u) /\ Pending(u)
    BY <1>3 DEF Batch, BatchOf, Pending, SameMemory
  <2>3. Idle(u)' = Idle(u) /\ child'[u] = child[u] /\ working' = working
    BY <1>2 DEF Idle
  <2>4. u \in Retried => IsNext(u)' /\ root'.latest[u] # Nothing
    <3>1. SUFFICES ASSUME u \in Retried PROVE IsNext(u)' /\ root'.latest[u] # Nothing
      OBVIOUS
    <3>2. root.latest[u].quality = "INFRA_ERROR"
      BY <3>1 DEF Retried, Retryable
    <3>3. attempt'[u] = Append(attempt[u], NewAttempt) /\ unit'[u] = unit[u]
      BY <1>8, <2>1, <3>1
    <3>4. root'.latest = root.latest /\ root.latest[u] # Nothing
      BY <1>3, <2>1 DEF SameMemory, IsHeard, Told
    <3> QED
      BY <2>1, <3>2, <3>3, <3>4, RetriedIsNext
  <2>5. u \notin Retried => IsOver(u)'
    <3>1. SUFFICES ASSUME u \notin Retried PROVE IsOver(u)'
      OBVIOUS
    <3>2. /\ attempt'[u] = attempt[u]
          /\ unit'[u] = [state |-> "CLOSED", quality |-> root.latest[u].quality]
      <4>1. u \in Units /\ u \in Batch \ Retried /\ unit[u].state # "CLOSED"
        BY <2>1, <3>1 DEF IsHeard
      <4> QED
        BY <1>8, <4>1
    <3>3. Latest(u)' = Latest(u) /\ LatestAttempt(u)' = LatestAttempt(u)
      BY <3>2 DEF Latest, LatestAttempt
    <3> QED
      BY <1>3, <2>1, <3>2, <3>3 DEF IsOver, IsHeard, Told, Agrees, SameMemory
  <2> QED
    BY <1>1, <1>2, <1>3, <1>7, <2>1, <2>2, <2>3, <2>4, <2>5 DEF UnitCalm, SameMemory
<1> QED
  BY <1>3, <1>5, <1>6, <1>9, <1>10 DEF CalmNow

\* The settling is refused for no reason of its own.
LEMMA SettleCalm ==
  ASSUME RunInv, CalmNow, Settle, faults' = 0
  PROVE  CalmNow'
<1>1. /\ Runs("SETTLE") /\ root.reply = NoReply /\ RunFits /\ UNCHANGED <<children, overdue>>
      /\ UNCHANGED <<child, working, orphan>> /\ ~ Lost("ANSWER")
  BY CalmHasNoFault DEF Settle, Runs, RunInv, children
<1>2. CASE Settles /\ SettleConflict /\ Refuses
  BY <1>1, <1>2, SettlingFinds
<1>3. CASE /\ Settles
           /\ attempt' = [u \in Units |->
                IF u \in NeverHeard
                THEN [attempt[u] EXCEPT ![Latest(u)] = ClosedBy("ROOT", root.latest[u].quality, @)]
                ELSE IF u \in Retried THEN Append(attempt[u], NewAttempt)
                ELSE attempt[u]]
           /\ UnitCloses(Batch \ (Retried \cup Relisted), [u \in Units |-> root.latest[u].quality])
           /\ Replies([is |-> "SETTLED", retries |-> Ascending(Retried \cup Relisted)])
           /\ UNCHANGED run
  <2>1. root' = [root EXCEPT !.reply = [is |-> "SETTLED",
                                        retries |-> Ascending(Retried \cup Relisted)]]
    BY <1>1, <1>3 DEF Replies
  <2> QED
    BY <1>1, <1>3, <2>1, SettlesCalm
<1>4. CASE UNCHANGED rows /\ Says("PAUSE_REQUESTED")
  BY <1>1, <1>4, SameRowsOfAll, SaysCalm DEF rows
<1>5. CASE UNCHANGED rows /\ run.state = "CANCELING" /\ Says("CANCEL_REQUESTED")
  BY <1>1, <1>5, SameRowsOfAll, SaysCalm DEF rows, RunFits
<1> QED
  BY <1>1, <1>2, <1>3, <1>4, <1>5 DEF Settle

-----------------------------------------------------------------------------
(* The workflow while nothing goes wrong *)

\* A unit the finish has an outcome of: it is over, or its next attempt is
\* canceled, or it stands as its child has left it.
Standing(u) ==
  \/ ~ Pending(u) /\ IsOver(u) /\ root.final[u] = root.latest[u]
  \/ Pending(u) /\ root.number[u] = Latest(u) /\ (IsNext(u) \/ IsHeard(u))

\* A root that goes to its finish.
FinishReady ==
  /\ root.input <=> root.cancel
  /\ ~ root.cancel => \A u \in Units : ~ Pending(u)
  /\ \A u \in Units : Standing(u)

\* The outcome of a unit that stands is reconciled with its rows.
LEMMA StandingAgrees ==
  ASSUME RunInv, FinishReady, NEW u \in Units
  PROVE  /\ Outcomes(u) = Nothing => root.cancel /\ root.latest[u] = Nothing /\ Untouched(u)
         /\ Outcomes(u) # Nothing => Reconcilable(u, Outcomes(u))
         /\ root.latest[u] # Nothing => Outcomes(u) # Nothing
<1>1. /\ TUTypeOK /\ MemoryFits(u) /\ Latest(u) \in Nat /\ Standing(u)
      /\ (~ root.cancel => ~ Pending(u))
  BY UnitParts, UnitTypes, UnitNumbers DEF FinishReady
<1>2. CASE ~ Pending(u)
  <2>1. IsOver(u) /\ Outcomes(u) = root.latest[u]
    BY <1>1, <1>2 DEF Standing, Outcomes, Pending
  <2> QED
    BY <2>1 DEF IsOver, Told, Reconcilable
<1>3. CASE Pending(u) /\ root.number[u] = Latest(u) /\ IsNext(u)
  <2>1. root.cancel
    BY <1>1, <1>3
  <2>2. CASE root.latest[u] = Nothing
    <3>1. Outcomes(u) = Nothing
      BY <2>1, <2>2 DEF Outcomes
    <3> QED
      BY <1>3, <2>1, <2>2, <3>1 DEF IsNext, Untouched
  <2>3. CASE root.latest[u] # Nothing
    <3>1. root.latest[u].number # Latest(u) /\ unit[u].state = "RUNNING"
      <4>1. root.latest[u].number \in Nat
        BY <1>1, <2>3, UnitTypes, UnitNumbers DEF Outcome
      <4> QED
        BY <1>1, <1>3, <2>3, <4>1 DEF IsNext
    <3>2. Outcomes(u) = [Canceled EXCEPT !.number = root.number[u]]
      BY <1>3, <2>1, <2>3, <3>1 DEF Outcomes, Pending
    <3>3. Outcomes(u).number = Latest(u) /\ Outcomes(u).quality = "CANCELED"
      BY <1>3, <3>2 DEF Canceled
    <3> QED
      BY <1>3, <3>1, <3>3 DEF IsNext, Reconcilable, Nothing
  <2> QED
    BY <2>2, <2>3
<1>4. CASE Pending(u) /\ root.number[u] = Latest(u) /\ IsHeard(u)
  <2>1. root.latest[u] # Nothing /\ Outcomes(u) = root.latest[u]
    BY <1>1, <1>4 DEF IsHeard, Told, Outcomes
  <2>2. LatestAttempt(u).state # "CLOSED" => root.latest[u].quality # "PASSED"
    BY <1>1, <1>4, <2>1 DEF MemoryFits, Stands, IsHeard, Told, LatestAttempt
  <2> QED
    BY <1>4, <2>1, <2>2 DEF IsHeard, Told, Reconcilable
<1> QED
  BY <1>1, <1>2, <1>3, <1>4 DEF Standing

\* A finish finds no conflict.
LEMMA FinishEntered ==
  RunInv /\ InOrder /\ FinishReady /\ (\A u \in Units : Idle(u)) => FinishCalm
<1> SUFFICES ASSUME RunInv, InOrder, FinishReady, \A u \in Units : Idle(u)
             PROVE  FinishCalm
  OBVIOUS
<1>1. /\ \A u \in Skipped : u \in Units /\ root.cancel /\ root.latest[u] = Nothing /\ Untouched(u)
      /\ \A u \in Units \ Skipped : Outcomes(u) # Nothing
  BY StandingAgrees DEF Skipped
<1>2. Skipped # {} => FinallyCanceled
  BY <1>1 DEF FinishReady, FinallyCanceled
<1>3. ASSUME NEW u \in Skipped, NEW v \in Units \ Skipped
      PROVE  ~ (v > u)
  <2>1. root.latest[u] = Nothing /\ root.latest[v] # Nothing
    <3>1. root.cancel /\ root.latest[u] = Nothing /\ Outcomes(v) # Nothing
      BY <1>1
    <3> QED
      BY <3>1 DEF Outcomes
  <2>2. v < u /\ u \in Nat /\ v \in Nat
    BY <1>1, <2>1, UnitNumbers DEF InOrder
  <2> QED
    BY <2>2
<1>4. \A u \in Units \ Skipped : Reconcilable(u, Outcomes(u))
  BY <1>1, StandingAgrees
<1>5. ~ FinishConflict
  BY <1>1, <1>2, <1>3, <1>4 DEF FinishConflict
<1>6. ~ root.input => \A u \in Units : /\ root.final[u] # Nothing /\ root.final[u] = root.latest[u]
                                       /\ ~ Pending(u)
  BY DEF FinishReady, Standing, IsOver, Told
<1> QED
  BY <1>5, <1>6 DEF FinishCalm

\* Before a batch is dispatched, and after its children have ended.
LEMMA BetweenBatches ==
  ASSUME CalmNow, NEW u \in Units, root.at \in {"CHECKPOINT", "WAIT", "SETTLE", "PREPARE", "LAST"}
  PROVE  /\ UnitCalm(u) /\ Idle(u) /\ (child[u].at = "FAILED" => root.cancel)
         /\ ~ Pending(u) => IsOver(u) /\ root.final[u] = root.latest[u]
         /\ Pending(u) /\ root.reply.is # "SETTLED" =>
              root.number[u] = Latest(u) /\ (IsNext(u) \/ IsHeard(u))
<1>1. UnitCalm(u)
  BY DEF CalmNow
<1>2. IsHeard(u) => root.number[u] = Latest(u)
  BY DEF IsHeard
<1> QED
  BY <1>1, <1>2 DEF UnitCalm

\* A root that is canceled leaves its loop for its finish.
LEMMA CanceledCalm ==
  ASSUME RunInv, RunInv', CalmNow, root.at \in {"CHECKPOINT", "SETTLE", "PREPARE"},
         root.reply.is # "SETTLED", run.cancel, root' = CanceledLoop,
         UNCHANGED <<rows, child, working, orphan>>
  PROVE  CalmNow'
<1> DEFINE r == [root EXCEPT !.cancel = TRUE]
<1>1. /\ root \in Root /\ r \in Root /\ r.cancel = TRUE
      /\ r.unsettled = root.unsettled /\ r.pending = root.pending
      /\ r.latest = root.latest /\ r.final = root.final /\ r.number = root.number
      /\ root' = AfterLoop(r)
  BY DEF RunInv, TUTypeOK, Root, CanceledLoop
<1> HIDE DEF r
<1>2. root' = ToFinish(r)
  BY <1>1 DEF AfterLoop
<1>3. /\ SameMemory /\ root'.at = "FINISH" /\ root'.reply = NoReply
      /\ root'.cancel = TRUE /\ root'.input = TRUE
  <2>1. Kept(r, ToFinish(r)) /\ ToFinish(r).at = "FINISH" /\ ToFinish(r).cancel = r.cancel
        /\ ToFinish(r).input = r.cancel
    BY <1>1, LoopTypes
  <2> QED
    BY <1>1, <1>2, <2>1 DEF Kept, SameMemory
<1>4. run' = run /\ \A u \in Units : SameUnit(u)
  BY SameRowsOfAll DEF rows
<1>5. RootCalm' /\ InOrder'
  BY <1>3, <1>4 DEF CalmNow, RootCalm, InOrder, SameMemory, Runs, NoReply
<1>6. ASSUME NEW u \in Units
      PROVE  Standing(u)' /\ Idle(u)'
  <2>1. /\ Idle(u)
        /\ ~ Pending(u) => IsOver(u) /\ root.final[u] = root.latest[u]
        /\ Pending(u) => root.number[u] = Latest(u) /\ (IsNext(u) \/ IsHeard(u))
    BY BetweenBatches
  <2>2. Pending(u)' = Pending(u) /\ Idle(u)' = Idle(u)
    BY <1>3 DEF Pending, SameMemory, Idle
  <2>3. /\ IsOver(u) => IsOver(u)'
        /\ IsNext(u) => IsNext(u)'
        /\ IsHeard(u) => IsHeard(u)'
    BY <1>3, <1>4 DEF SameUnit, SameMemory, Told, IsOver, IsNext, IsHeard, Agrees
  <2>4. Latest(u)' = Latest(u) /\ root'.number = root.number /\ root'.final = root.final
        /\ root'.latest = root.latest
    BY <1>3, <1>4 DEF SameUnit, SameMemory
  <2> QED
    BY <2>1, <2>2, <2>3, <2>4 DEF Standing
<1>7. (RunInv /\ InOrder /\ FinishReady /\ \A u \in Units : Idle(u))'
  BY <1>3, <1>5, <1>6 DEF FinishReady
<1>8. FinishCalm'
  BY <1>7, FinishEntered, PTL
<1> QED
  BY <1>3, <1>5, <1>8 DEF CalmNow

\* A root that goes somewhere in its loop.
LEMMA GoesCalm ==
  ASSUME RunInv, CalmNow, root.at \in {"CHECKPOINT", "WAIT", "SETTLE", "PREPARE"},
         root.reply.is # "SETTLED", NEW at \in {"CHECKPOINT", "WAIT", "SETTLE", "PREPARE"},
         at = "PREPARE" => ~ root.unsettled, root' = Goes(root, at),
         UNCHANGED <<rows, child, working, orphan>>
  PROVE  CalmNow'
<1>1. /\ SameMemory /\ root'.at = at /\ root'.reply = NoReply
      /\ root'.cancel = root.cancel /\ root'.input = root.input
  <2>1. root \in Root /\ at \in Places
    BY DEF RunInv, TUTypeOK, Places, Activities
  <2>2. Kept(root, Goes(root, at)) /\ Goes(root, at).at = at /\ Goes(root, at).cancel = root.cancel
        /\ Goes(root, at).input = root.input
    BY <2>1, GoesTypes
  <2> QED
    BY <2>2 DEF Kept, SameMemory
<1>2. run' = run /\ \A u \in Units : SameUnit(u)
  BY SameRowsOfAll DEF rows
<1>3. RootCalm' /\ InOrder'
  BY <1>1, <1>2 DEF CalmNow, RootCalm, InOrder, SameMemory, Runs, NoReply
<1>4. ASSUME NEW u \in Units
      PROVE  UnitCalm(u)'
  <2>1. UnitCalm(u)
    BY DEF CalmNow
  <2> QED
    BY <1>1, <1>2, <2>1, UnitCalmStays DEF NoReply
<1> QED
  BY <1>1, <1>3, <1>4 DEF CalmNow

\* The children of the batch begin, each with the last attempt of its unit.
LEMMA DispatchedCalm ==
  ASSUME RunInv, RunInv', CalmNow, Dispatched, UNCHANGED <<rows, working, orphan>>
  PROVE  CalmNow'
<1>1. /\ TUTypeOK /\ root \in Root /\ child \in [Units -> Child] /\ root.at = "PREPARE"
      /\ root.reply.is = "AUTHORIZED" /\ ~ root.unsettled /\ UNCHANGED <<run, unit, attempt>>
      /\ (root.cancel => run.cancel)
  BY DEF RunInv, TUTypeOK, Dispatched, Arrives, Heard, CalmNow, RootCalm, rows
<1>2. CASE root.cancel
  BY <1>1, <1>2, CanceledCalm DEF Dispatched
<1>3. CASE ~ root.cancel
  <2>1. root' = Goes(root, "BATCH")
    BY <1>3 DEF Dispatched
  <2>2. /\ SameMemory /\ root'.at = "BATCH" /\ root'.reply = NoReply
        /\ root'.cancel = root.cancel /\ root'.input = root.input
    <3>1. Kept(root, root') /\ root'.at = "BATCH" /\ root'.cancel = root.cancel
          /\ root'.input = root.input
      BY <1>1, <2>1, GoesTypes DEF Places
    <3> QED
      BY <3>1 DEF Kept, SameMemory
  <2>3. ASSUME NEW u \in Units
        PROVE  /\ u \in Batch => child'[u].at = "BEGIN"
               /\ u \notin Batch => child'[u] = child[u]
    BY <1>3 DEF Dispatched
  <2>4. RootCalm' /\ InOrder'
    BY <1>1, <2>2 DEF CalmNow, RootCalm, InOrder, SameMemory, Runs, NoReply
  <2>5. Batch' = Batch
    BY <2>2 DEF Batch, SameMemory
  <2>6. ASSUME NEW u \in Units
        PROVE  UnitCalm(u)'
    <3>1. UnitCalm(u) /\ Idle(u) /\ (child[u].at = "FAILED" => root.cancel)
      BY <1>1, BetweenBatches
    <3>2. Latest(u)' = Latest(u) /\ LatestAttempt(u)' = LatestAttempt(u) /\ unit'[u] = unit[u]
          /\ \A n \in Numbers : <<u, n>> \notin working'
      BY <1>1, <3>1 DEF Latest, LatestAttempt, Idle
    <3>3. Pending(u)' = Pending(u) /\ IsOver(u)' = IsOver(u) /\ IsNext(u)' = IsNext(u)
      BY <2>2, <3>2 DEF Pending, IsOver, IsNext, Told, Agrees, SameMemory
    <3>4. CASE u \notin Batch
      <4>1. Idle(u)' /\ child'[u] = child[u]
        BY <2>3, <3>1, <3>2, <3>4 DEF Idle
      <4> QED
        BY <2>2, <2>5, <3>1, <3>2, <3>3, <3>4, <4>1 DEF UnitCalm, SameMemory
    <3>5. CASE u \in Batch
      <4>1. Pending(u) /\ child'[u].at = "BEGIN"
        BY <2>3, <3>5 DEF Pending, Batch, BatchOf
      <4>2. IsNext(u) /\ root.number[u] = Latest(u)
        BY <1>1, <3>1, <3>5, <4>1 DEF UnitCalm
      <4>3. unit[u].state # "CLOSED"
        BY <4>2 DEF IsNext
      <4>4. IsDispatched(u)'
        BY <2>2, <3>2, <4>1, <4>2, <4>3 DEF IsDispatched, IsNext, SameMemory
      <4> QED
        BY <1>1, <2>2, <2>5, <3>2, <3>3, <3>5, <4>1, <4>4 DEF UnitCalm, SameMemory, NoReply
    <3> QED
      BY <3>4, <3>5
  <2> QED
    BY <2>2, <2>4, <2>6 DEF CalmNow
<1> QED
  BY <1>2, <1>3

\* A unit that is not in the batch comes after it, if it has not been tried yet.
LEMMA OthersComeAfter ==
  ASSUME RunInv, CalmNow, root.at \notin {"FINISH", "END"}, NEW u \in Units, u \notin Batch,
         root.latest[u] = Nothing, NEW v \in Batch
  PROVE  v < u
<1>1. root.pending \in Seq(Units) /\ UnitCalm(u) /\ BatchSize \in Nat
  BY UnitNumbers DEF RunInv, TUTypeOK, Root, CalmNow
<1>2. PICK j \in DOMAIN root.pending : root.pending[j] = u
  BY <1>1 DEF UnitCalm, IsOver, Told, Pending
<1>3. PICK i \in DOMAIN root.pending : i <= BatchSize /\ root.pending[i] = v
  BY DEF Batch, BatchOf
<1>4. ~ (j <= BatchSize) /\ i \in Nat /\ j \in Nat
  BY <1>1, <1>2 DEF Batch, BatchOf
<1>5. i < j
  BY <1>1, <1>3, <1>4
<1> QED
  BY <1>2, <1>3, <1>5 DEF CalmNow, InOrder

\* What the children of the batch came to is told to the root.
LEMMA BatchEndsCalm ==
  ASSUME RunInv, CalmNow, BatchEnds, UNCHANGED <<rows, working, orphan>>
  PROVE  CalmNow'
<1>1. /\ TUTypeOK /\ root \in Root /\ root.at = "BATCH" /\ BatchOver /\ Batch \subseteq Units
      /\ UNCHANGED <<run, unit, attempt, child, working, orphan>>
  BY DEF RunInv, TUTypeOK, Root, BatchEnds, rows, Batch, BatchOf
<1> DEFINE l == [u \in Units |-> IF u \in Batch THEN Normalized(u) ELSE root.latest[u]]
<1>2. /\ root'.at = "CHECKPOINT" /\ root'.reply = NoReply /\ root'.unsettled = TRUE
      /\ root'.latest = l /\ root'.final = root.final /\ root'.pending = root.pending
      /\ root'.number = root.number /\ root'.cancel = root.cancel /\ root'.input = root.input
  <2> DEFINE g == Goes(root, "CHECKPOINT")
  <2>1. Kept(root, g) /\ g.at = "CHECKPOINT" /\ g.cancel = root.cancel /\ g.input = root.input
    BY <1>1, GoesTypes DEF Places, Activities
  <2>2. root' = [g EXCEPT !.unsettled = TRUE, !.latest = l]
    BY DEF BatchEnds
  <2> HIDE DEF g, l
  <2> QED
    BY <2>1, <2>2 DEF Kept, Root
<1>3. ASSUME NEW u \in Units
      PROVE  root'.latest[u] = IF u \in Batch THEN Normalized(u) ELSE root.latest[u]
  BY <1>2
<1> HIDE DEF l
<1>4. Batch' = Batch
  BY <1>2 DEF Batch
<1>5. ASSUME NEW u \in Batch
      PROVE  /\ UnitCalm(u) /\ IsDispatched(u) /\ child[u].at \in {"DONE", "FAILED"}
             /\ Normalized(u) # Nothing /\ Normalized(u).number = Latest(u)
             /\ LatestAttempt(u).state = "CLOSED" => Agrees(LatestAttempt(u), Normalized(u))
             /\ LatestAttempt(u).state # "CLOSED" => root.cancel
  <2>1. UnitCalm(u) /\ u \in Units
    BY <1>1 DEF CalmNow
  <2>2. IsDispatched(u) /\ child[u].at \in {"DONE", "FAILED"}
    BY <1>1, <2>1 DEF UnitCalm, BatchOver
  <2>3. Latest(u) \in Nat /\ Latest(u) # 0
    BY <1>1, <2>1, UnitTypes, UnitNumbers DEF Numbers
  <2>4. Normalized(u).number = Latest(u)
    BY <2>2 DEF Normalized, IsDispatched
  <2>5. Normalized(u) # Nothing
    BY <2>3, <2>4 DEF Nothing
  <2>6. CASE child[u].at = "DONE"
    BY <2>1, <2>2, <2>4, <2>5, <2>6 DEF IsDispatched, Normalized
  <2>7. CASE child[u].at = "FAILED"
    BY <2>1, <2>2, <2>4, <2>5, <2>7 DEF IsDispatched, UnitCalm
  <2> QED
    BY <2>2, <2>6, <2>7
<1>6. RootCalm'
  BY <1>1, <1>2 DEF CalmNow, RootCalm, Runs, NoReply
<1>7. InOrder'
  <2>1. \A u \in Units : root'.latest[u] = Nothing => u \notin Batch /\ root.latest[u] = Nothing
    BY <1>3, <1>5
  <2>2. ASSUME NEW i \in DOMAIN root.pending, NEW j \in DOMAIN root.pending
        PROVE  /\ root.pending[i] = root.pending[j] => i = j
               /\ i < j /\ root'.latest[root.pending[j]] = Nothing => root.pending[i] < root.pending[j]
    <3>1. root.pending[j] \in Units
      BY <1>1 DEF Root
    <3> QED
      BY <2>1, <3>1 DEF CalmNow, InOrder
  <2>3. ASSUME NEW u \in Units, NEW v \in Units, root'.latest[u] = Nothing, root'.latest[v] # Nothing
        PROVE  v < u
    <3>1. u \notin Batch /\ root.latest[u] = Nothing
      BY <2>1, <2>3
    <3>2. CASE v \in Batch
      BY <1>1, <3>1, <3>2, OthersComeAfter
    <3>3. CASE v \notin Batch
      BY <1>3, <2>3, <3>1, <3>3 DEF CalmNow, InOrder
    <3> QED
      BY <3>2, <3>3
  <2> QED
    BY <1>2, <2>2, <2>3 DEF InOrder, NoReply
<1>8. ASSUME NEW u \in Units
      PROVE  UnitCalm(u)'
  <2>1. UnitCalm(u)
    BY <1>1 DEF CalmNow
  <2>2. /\ Latest(u)' = Latest(u) /\ LatestAttempt(u)' = LatestAttempt(u)
        /\ Pending(u)' = Pending(u) /\ Idle(u)' = Idle(u)
    BY <1>1, <1>2 DEF Latest, LatestAttempt, Pending, Idle
  <2>3. CASE u \notin Batch
    <3>1. root'.latest[u] = root.latest[u] /\ Idle(u)
      BY <1>3, <2>1, <2>3 DEF UnitCalm
    <3>2. IsOver(u)' = IsOver(u) /\ IsNext(u)' = IsNext(u)
      BY <1>1, <2>2, <3>1 DEF IsOver, IsNext, Told, Agrees
    <3> QED
      BY <1>1, <1>2, <1>4, <2>1, <2>2, <2>3, <3>1, <3>2 DEF UnitCalm, NoReply
  <2>4. CASE u \in Batch
    <3>1. /\ Pending(u) /\ IsDispatched(u) /\ child[u].at \in {"DONE", "FAILED"}
          /\ root'.latest[u] = Normalized(u)
      BY <1>3, <1>5, <2>4 DEF Pending, Batch, BatchOf
    <3>2. Idle(u)
      BY <2>1, <3>1 DEF UnitCalm, Idle
    <3>3. Told(u)'
      BY <1>5, <2>2, <2>4, <3>1 DEF Told, Agrees
    <3>4. IsHeard(u)'
      BY <1>1, <1>2, <1>5, <2>2, <2>4, <3>1, <3>3 DEF IsHeard, IsDispatched
    <3> QED
      BY <1>1, <1>2, <1>4, <2>1, <2>2, <2>4, <3>1, <3>2, <3>4 DEF UnitCalm, NoReply
  <2> QED
    BY <2>3, <2>4
<1> QED
  BY <1>2, <1>6, <1>7, <1>8 DEF CalmNow

\* The last checkpoint leads to the finish.
LEMMA LastCheckedCalm ==
  ASSUME RunInv, RunInv', CalmNow, LastChecked, UNCHANGED <<rows, working, orphan>>
  PROVE  CalmNow'
<1> DEFINE r == [root EXCEPT !.cancel = @ \/ Heard("CANCELING")]
<1>1. /\ root \in Root /\ r \in Root /\ r.unsettled = root.unsettled /\ r.pending = root.pending
      /\ r.latest = root.latest /\ r.final = root.final /\ r.number = root.number
      /\ (r.cancel <=> root.cancel \/ Heard("CANCELING"))
  BY DEF RunInv, TUTypeOK, Root, Heard
<1>2. /\ root' = ToFinish(r) /\ root.at = "LAST" /\ root.reply.is # "SETTLED"
      /\ UNCHANGED <<run, unit, attempt, child, working, orphan>>
  BY DEF LastChecked, rows
<1> HIDE DEF r
<1>3. /\ SameMemory /\ root'.at = "FINISH" /\ root'.reply = NoReply
      /\ root'.cancel = r.cancel /\ root'.input = r.cancel
  <2>1. Kept(r, ToFinish(r)) /\ ToFinish(r).at = "FINISH" /\ ToFinish(r).cancel = r.cancel
        /\ ToFinish(r).input = r.cancel
    BY <1>1, LoopTypes
  <2> QED
    BY <1>1, <1>2, <2>1 DEF Kept, SameMemory
<1>4. RootCalm' /\ InOrder'
  BY <1>1, <1>2, <1>3 DEF CalmNow, RootCalm, InOrder, SameMemory, Runs, NoReply, Heard
<1>5. ASSUME NEW u \in Units
      PROVE  Standing(u)' /\ Idle(u)' /\ ~ Pending(u)'
  <2>1. ~ Pending(u)
    BY <1>2 DEF CalmNow, RootCalm, Pending
  <2>2. Idle(u) /\ IsOver(u) /\ root.final[u] = root.latest[u]
    BY <1>2, <2>1, BetweenBatches
  <2>3. Pending(u)' = Pending(u) /\ Idle(u)' = Idle(u) /\ IsOver(u)' = IsOver(u)
    BY <1>2, <1>3 DEF Pending, Idle, IsOver, Told, Agrees, SameMemory, Latest, LatestAttempt
  <2> QED
    BY <1>3, <2>1, <2>2, <2>3 DEF Standing, SameMemory
<1>6. (RunInv /\ InOrder /\ FinishReady /\ \A u \in Units : Idle(u))'
  BY <1>3, <1>4, <1>5 DEF FinishReady
<1>7. FinishCalm'
  BY <1>6, FinishEntered, PTL
<1> QED
  BY <1>3, <1>4, <1>7 DEF CalmNow

\* A root that was canceled meanwhile sends its finish again.
LEMMA FinishHeardCalm ==
  ASSUME RunInv, CalmNow, FinishHeard, UNCHANGED <<rows, working, orphan>>
  PROVE  CalmNow'
<1>1. /\ root \in Root /\ root.at = "FINISH" /\ FinishCalm
      /\ UNCHANGED <<run, unit, attempt, child, working, orphan>>
  BY DEF RunInv, TUTypeOK, FinishHeard, Arrives, rows, CalmNow
<1>2. CASE root.cancel # root.input
  <2>1. root.cancel /\ ~ root.input
    BY <1>1, <1>2 DEF CalmNow, RootCalm, Root
  <2>2. root' = ToFinish(root)
    BY <1>2 DEF FinishHeard
  <2>3. /\ SameMemory /\ root'.at = "FINISH" /\ root'.reply = NoReply
        /\ root'.cancel = root.cancel /\ root'.input = root.cancel
    BY <1>1, <2>2, LoopTypes DEF Kept, SameMemory
  <2>4. RootCalm' /\ InOrder'
    BY <1>1, <2>1, <2>3 DEF CalmNow, RootCalm, InOrder, SameMemory, Runs, NoReply
  <2>5. ASSUME NEW u \in Units
        PROVE  SameUnit(u) /\ Outcomes(u)' = Outcomes(u) /\ Idle(u)' = Idle(u)
    BY <1>1, <2>3, SameRowsOfAll DEF Outcomes, SameMemory, Idle
  <2>6. FinallyCanceled'
    BY <2>1, <2>3 DEF FinallyCanceled
  <2>7. ~ FinishConflict'
    BY <1>1, <2>5, <2>6, FinishStays DEF FinishCalm
  <2>8. FinishCalm'
    BY <1>1, <2>1, <2>3, <2>5, <2>7 DEF FinishCalm
  <2> QED
    BY <2>3, <2>4, <2>8 DEF CalmNow
<1>3. CASE root.cancel = root.input
  <2>1. root' = Goes(root, "END")
    BY <1>3 DEF FinishHeard
  <2>2. /\ SameMemory /\ root'.at = "END" /\ root'.reply = NoReply
        /\ root'.cancel = root.cancel /\ root'.input = root.input
    BY <1>1, <2>1, GoesTypes DEF Kept, SameMemory, Places, Activities
  <2>3. RootCalm' /\ InOrder'
    BY <1>1, <2>2 DEF CalmNow, RootCalm, InOrder, SameMemory, Runs, NoReply
  <2> QED
    BY <2>2, <2>3 DEF CalmNow
<1> QED
  BY <1>2, <1>3

\* Two lists, one after the other.
LEMMA ConcatFacts ==
  ASSUME NEW s \in Seq(Units), NEW t \in Seq(Units)
  PROVE  /\ s \o t \in Seq(Units) /\ Len(s) \in Nat /\ Len(t) \in Nat
         /\ DOMAIN (s \o t) = 1..Len(s \o t)
         /\ \A i \in 1..Len(s) : i \in 1..Len(s \o t) /\ (s \o t)[i] = s[i]
         /\ \A i \in 1..Len(t) :
              i + Len(s) \in 1..Len(s \o t) /\ (s \o t)[i + Len(s)] = t[i]
         /\ \A i \in 1..Len(s \o t) : i \in 1..Len(s) \/ \E k \in 1..Len(t) : i = k + Len(s)
<1>p. PICK p : p = s \o t
  OBVIOUS
<1>1. p \in Seq(Units) /\ Len(p) = Len(s) + Len(t) /\ Len(s) \in Nat /\ Len(t) \in Nat /\ DOMAIN p = 1..Len(p)
  BY <1>p
<1>2. \A i \in 1..Len(p) : p[i] = IF i <= Len(s) THEN s[i] ELSE t[i - Len(s)]
  BY <1>p
<1>3. ASSUME NEW i \in 1..Len(s)
      PROVE  i \in 1..Len(p) /\ p[i] = s[i]
  <2>1. i \in 1..Len(p) /\ i <= Len(s)
    BY <1>1
  <2> QED
    BY <1>2, <2>1
<1>4. ASSUME NEW i \in 1..Len(t)
      PROVE  i + Len(s) \in 1..Len(p) /\ p[i + Len(s)] = t[i]
  <2>1. i + Len(s) \in 1..Len(p) /\ ~ (i + Len(s) <= Len(s)) /\ (i + Len(s)) - Len(s) = i
    BY <1>1
  <2> QED
    BY <1>2, <2>1
<1>5. ASSUME NEW i \in 1..Len(p), i \notin 1..Len(s)
      PROVE  \E k \in 1..Len(t) : i = k + Len(s)
  <2>1. i - Len(s) \in 1..Len(t) /\ i = (i - Len(s)) + Len(s)
    BY <1>1, <1>5
  <2> QED
    BY <2>1
<1> QED
  BY <1>p, <1>1, <1>3, <1>4, <1>5

\* What is left of a list without its batch is not in the batch.
LEMMA RestFacts ==
  ASSUME NEW q \in Seq(Units), \A i, j \in 1..Len(q) : q[i] = q[j] => i = j
  PROVE  /\ RestOf(q) \in Seq(Units)
         /\ \A i \in 1..Len(RestOf(q)) : /\ i + BatchSize \in 1..Len(q)
                                         /\ RestOf(q)[i] = q[i + BatchSize]
                                         /\ RestOf(q)[i] \notin BatchOf(q)
         /\ \A j \in 1..Len(q) : q[j] \notin BatchOf(q) =>
              \E i \in 1..Len(RestOf(q)) : j = i + BatchSize /\ RestOf(q)[i] = q[j]
<1>r. PICK rest : rest = RestOf(q)
  OBVIOUS
<1>1. BatchSize \in Nat /\ Len(q) \in Nat /\ DOMAIN q = 1..Len(q)
  BY UnitNumbers
<1>2. /\ rest \in Seq(Units) /\ Len(rest) \in Nat
      /\ Len(rest) = IF Len(q) > BatchSize THEN Len(q) - BatchSize ELSE 0
      /\ \A i \in 1..Len(rest) : rest[i] = q[i + BatchSize]
  BY <1>r, RestTypes
<1>3. BatchOf(q) = {q[i] : i \in {j \in 1..Len(q) : j <= BatchSize}}
  BY <1>1 DEF BatchOf
<1>4. ASSUME NEW i \in 1..Len(rest)
      PROVE  i + BatchSize \in 1..Len(q) /\ rest[i] = q[i + BatchSize] /\ rest[i] \notin BatchOf(q)
  <2>1. i + BatchSize \in 1..Len(q) /\ ~ (i + BatchSize <= BatchSize)
    <3>1. i \in Nat /\ 1 <= i /\ i <= Len(rest)
      BY <1>2
    <3>2. Len(q) > BatchSize /\ Len(rest) = Len(q) - BatchSize
      BY <1>2, <3>1
    <3>3. 1 <= i + BatchSize /\ i + BatchSize <= Len(q) /\ ~ (i + BatchSize <= BatchSize)
      BY <1>1, <3>1, <3>2
    <3> QED
      BY <1>1, <3>1, <3>3
  <2>2. rest[i] = q[i + BatchSize]
    BY <1>2
  <2>3. ASSUME NEW j \in 1..Len(q), j <= BatchSize, q[j] = q[i + BatchSize]
        PROVE  FALSE
    <3>1. j = i + BatchSize
      BY <2>1, <2>3
    <3> QED
      BY <2>1, <2>3, <3>1
  <2> QED
    BY <1>3, <2>1, <2>2, <2>3
<1>5. ASSUME NEW j \in 1..Len(q), q[j] \notin BatchOf(q)
      PROVE  \E i \in 1..Len(rest) : j = i + BatchSize /\ rest[i] = q[j]
  <2>1. ~ (j <= BatchSize)
    BY <1>3, <1>5
  <2>2. j - BatchSize \in 1..Len(rest) /\ j = (j - BatchSize) + BatchSize
    <3>1. BatchSize < j /\ j <= Len(q) /\ j \in Nat
      BY <1>1, <2>1
    <3>5. Len(q) > BatchSize
      BY <1>1, <3>1
    <3>2. Len(rest) = Len(q) - BatchSize
      BY <1>2, <3>5
    <3>3. j - BatchSize \in Nat /\ 1 <= j - BatchSize /\ j - BatchSize <= Len(rest)
      BY <1>1, <3>1, <3>2
    <3>4. Len(rest) \in Nat
      BY <1>2
    <3> QED
      BY <1>1, <3>1, <3>3, <3>4
  <2>3. rest[j - BatchSize] = q[j]
    BY <1>2, <2>2
  <2> QED
    BY <2>2, <2>3
<1> QED
  BY <1>r, <1>2, <1>4, <1>5

\* A list without repetition, one whose fresh members rise, and what is in one.
Distinct(s) == \A i, j \in 1..Len(s) : s[i] = s[j] => i = j
Rising(s, fresh) == \A i, j \in 1..Len(s) : i < j /\ s[j] \in fresh => s[i] < s[j]
Has(s, u) == \E i \in 1..Len(s) : s[i] = u

\* What waits after a settling: the units after the batch in their order, then
\* those of the batch that are tried again.
LEMMA NextPending ==
  ASSUME NEW q \in Seq(Units), NEW again \in Seq(Units), NEW fresh \in SUBSET Units,
         Distinct(q), Rising(q, fresh), Distinct(again),
         \A u \in Units : Has(again, u) => u \in BatchOf(q) /\ u \notin fresh
  PROVE  /\ RestOf(q) \o again \in Seq(Units)
         /\ DOMAIN (RestOf(q) \o again) = 1..Len(RestOf(q) \o again)
         /\ Distinct(RestOf(q) \o again) /\ Rising(RestOf(q) \o again, fresh)
         /\ \A u \in Units : Has(RestOf(q) \o again, u) <=>
                               (u \notin BatchOf(q) /\ Has(q, u)) \/ Has(again, u)
<1>0. PICK p : p = RestOf(q) \o again
  OBVIOUS
<1>1. PICK rest : rest = RestOf(q)
  OBVIOUS
<1>q. \A i, j \in 1..Len(q) : q[i] = q[j] => i = j
  BY DEF Distinct
<1>o. \A i, j \in 1..Len(q) : i < j /\ q[j] \in fresh => q[i] < q[j]
  BY DEF Rising
<1>a. /\ \A i, j \in 1..Len(again) : again[i] = again[j] => i = j
      /\ \A i \in 1..Len(again) : again[i] \in BatchOf(q) \ fresh
  <2>1. \A i \in 1..Len(again) : again[i] \in Units /\ Has(again, again[i])
    BY DEF Has
  <2> QED
    BY <2>1 DEF Distinct
<1>p. p = rest \o again
  BY <1>0, <1>1
<1>2. /\ rest \in Seq(Units)
      /\ \A i \in 1..Len(rest) : /\ i + BatchSize \in 1..Len(q) /\ rest[i] = q[i + BatchSize]
                                 /\ rest[i] \notin BatchOf(q)
      /\ \A j \in 1..Len(q) : q[j] \notin BatchOf(q) =>
                                \E i \in 1..Len(rest) : j = i + BatchSize /\ rest[i] = q[j]
  BY <1>1, <1>q, RestFacts
<1>3. /\ p \in Seq(Units) /\ Len(rest) \in Nat /\ Len(again) \in Nat /\ DOMAIN p = 1..Len(p)
      /\ \A i \in 1..Len(rest) : i \in 1..Len(p) /\ p[i] = rest[i]
      /\ \A i \in 1..Len(again) : i + Len(rest) \in 1..Len(p) /\ p[i + Len(rest)] = again[i]
      /\ \A i \in 1..Len(p) : i \in 1..Len(rest) \/ \E k \in 1..Len(again) : i = k + Len(rest)
  <2>1. rest \in Seq(Units)
    BY <1>2
  <2> QED
    BY <1>p, <2>1, ConcatFacts
<1>4. BatchSize \in Nat
  BY UnitNumbers
<1>5. ASSUME NEW i \in 1..Len(p), NEW j \in 1..Len(p), p[i] = p[j]
      PROVE  i = j
  <2>1. CASE i \in 1..Len(rest) /\ j \in 1..Len(rest)
    <3>1. q[i + BatchSize] = q[j + BatchSize] /\ i + BatchSize \in 1..Len(q) /\ j + BatchSize \in 1..Len(q)
      BY <1>2, <1>3, <1>5, <2>1
    <3>2. i + BatchSize = j + BatchSize
      BY <1>q, <3>1
    <3> QED
      BY <1>4, <3>2
  <2>2. ASSUME NEW k \in 1..Len(again), NEW m \in 1..Len(again), i = k + Len(rest), j = m + Len(rest)
        PROVE  i = j
    <3>1. again[k] = again[m]
      BY <1>3, <1>5, <2>2
    <3> QED
      BY <1>a, <2>2, <3>1
  <2>3. ASSUME NEW k \in 1..Len(again), NEW m \in 1..Len(rest), p[k + Len(rest)] = p[m]
        PROVE  FALSE
    BY <1>a, <1>2, <1>3, <2>3
  <2>4. i \in 1..Len(rest) \/ \E k \in 1..Len(again) : i = k + Len(rest)
    BY <1>3
  <2>5. j \in 1..Len(rest) \/ \E k \in 1..Len(again) : j = k + Len(rest)
    BY <1>3
  <2>6. CASE i \in 1..Len(rest) /\ j \notin 1..Len(rest)
    BY <1>5, <2>3, <2>5, <2>6
  <2>7. CASE i \notin 1..Len(rest) /\ j \in 1..Len(rest)
    BY <1>5, <2>3, <2>4, <2>7
  <2>8. CASE i \notin 1..Len(rest) /\ j \notin 1..Len(rest)
    BY <2>2, <2>4, <2>5, <2>8
  <2> QED
    BY <2>1, <2>6, <2>7, <2>8
<1>6. ASSUME NEW i \in 1..Len(p), NEW j \in 1..Len(p), i < j, p[j] \in fresh
      PROVE  p[i] < p[j]
  <2>1. j \in 1..Len(rest)
    <3>1. ASSUME NEW k \in 1..Len(again), j = k + Len(rest)
          PROVE  FALSE
      <4>1. p[j] = again[k]
        BY <1>3, <3>1
      <4>2. again[k] \notin fresh
        BY <1>a
      <4> QED
        BY <1>6, <4>1, <4>2
    <3> QED
      BY <1>3, <3>1
  <2>2. i \in 1..Len(rest) /\ i + BatchSize < j + BatchSize
    BY <1>3, <1>4, <1>6, <2>1
  <2>3. /\ p[i] = q[i + BatchSize] /\ p[j] = q[j + BatchSize]
        /\ i + BatchSize \in 1..Len(q) /\ j + BatchSize \in 1..Len(q)
    BY <1>2, <1>3, <2>1, <2>2
  <2> QED
    BY <1>o, <1>6, <2>2, <2>3
<1>7. ASSUME NEW u \in Units
      PROVE  (\E i \in 1..Len(p) : p[i] = u) <=> \/ u \notin BatchOf(q) /\ \E i \in 1..Len(q) : q[i] = u
                                                 \/ \E i \in 1..Len(again) : again[i] = u
  <2>1. (\E i \in 1..Len(p) : p[i] = u) <=> \/ \E i \in 1..Len(rest) : rest[i] = u
                                            \/ \E i \in 1..Len(again) : again[i] = u
    <3>1. ASSUME NEW i \in 1..Len(p), p[i] = u
          PROVE  \/ \E m \in 1..Len(rest) : rest[m] = u
                 \/ \E m \in 1..Len(again) : again[m] = u
      <4>1. CASE i \in 1..Len(rest)
        BY <1>3, <3>1, <4>1
      <4>2. ASSUME NEW k \in 1..Len(again), i = k + Len(rest)
            PROVE  again[k] = u
        BY <1>3, <3>1, <4>2
      <4> QED
        BY <1>3, <4>1, <4>2
    <3>2. ASSUME NEW i \in 1..Len(rest), rest[i] = u
          PROVE  \E m \in 1..Len(p) : p[m] = u
      BY <1>3, <3>2
    <3>3. ASSUME NEW i \in 1..Len(again), again[i] = u
          PROVE  \E m \in 1..Len(p) : p[m] = u
      BY <1>3, <3>3
    <3> QED
      BY <3>1, <3>2, <3>3
  <2>2. (\E i \in 1..Len(rest) : rest[i] = u) <=> u \notin BatchOf(q) /\ \E i \in 1..Len(q) : q[i] = u
    <3>1. ASSUME NEW i \in 1..Len(rest), rest[i] = u
          PROVE  u \notin BatchOf(q) /\ \E m \in 1..Len(q) : q[m] = u
      BY <1>2, <3>1
    <3>2. ASSUME NEW i \in 1..Len(q), q[i] = u, u \notin BatchOf(q)
          PROVE  \E m \in 1..Len(rest) : rest[m] = u
      BY <1>2, <3>2
    <3> QED
      BY <3>1, <3>2
  <2> QED
    BY <2>1, <2>2
<1> QED
  BY <1>0, <1>3, <1>5, <1>6, <1>7 DEF Distinct, Rising, Has

\* Where the head of the loop leads to, and with what of the cancel.
LEMMA LoopHeadLeads ==
  ASSUME NEW r \in Root
  PROVE  /\ LoopHead(r).cancel = r.cancel
         /\ LoopHead(r).at # "CHECKPOINT" => r.pending = <<>>
         /\ LoopHead(r).at # "FINISH" => LoopHead(r).input = r.input
         /\ LoopHead(r).at = "FINISH" => LoopHead(r).input = r.cancel
<1>1. ASSUME NEW at \in {"CHECKPOINT", "LAST"}
      PROVE  Goes(r, at).at = at /\ Goes(r, at).cancel = r.cancel /\ Goes(r, at).input = r.input
  BY GoesTypes DEF Places, Activities
<1>2. CASE r.pending # <<>>
  <2>1. LoopHead(r) = Goes(r, "CHECKPOINT")
    BY <1>2 DEF LoopHead
  <2> QED
    BY <1>1, <2>1
<1>3. CASE r.pending = <<>>
  <2>1. LoopHead(r) = Goes(r, "LAST") \/ LoopHead(r) = ToFinish(r)
    BY <1>3 DEF LoopHead, AfterLoop
  <2>2. ToFinish(r).at = "FINISH" /\ ToFinish(r).cancel = r.cancel /\ ToFinish(r).input = r.cancel
    BY LoopTypes
  <2> QED
    BY <1>1, <1>3, <2>1, <2>2
<1> QED
  BY <1>2, <1>3

\* What the settling answered becomes what the root remembers.
LEMMA SettledRemembers ==
  ASSUME RunInv, CalmNow, Settled
  PROVE  /\ root'.at \in {"CHECKPOINT", "LAST", "FINISH"} /\ root'.reply = NoReply
         /\ root'.at # "CHECKPOINT" => root'.pending = <<>>
         /\ root'.cancel = root.cancel /\ root'.unsettled = FALSE /\ root'.latest = root.latest
         /\ root'.at # "FINISH" => root'.input = root.input
         /\ root'.at = "FINISH" => root'.input = root.cancel
         /\ root'.pending = RestOf(root.pending) \o root.reply.retries
         /\ \A u \in Units :
              /\ root'.final[u] = IF u \in Batch /\ ~ Again(u) THEN root.latest[u] ELSE root.final[u]
              /\ root'.number[u] = IF Again(u) THEN Latest(u) ELSE root.number[u]
              /\ Again(u) => u \in Batch /\ IsNext(u) /\ root.latest[u] # Nothing
              /\ u \in Batch /\ ~ Again(u) => IsOver(u)
<1>1. /\ TUTypeOK /\ RootFits /\ root \in Root
      /\ root.reply.is = "SETTLED" /\ root.at = "SETTLE"
  BY DEF RunInv, TUTypeOK, Settled, Arrives, Heard
<1> DEFINE again == root.reply.retries
<1>2. again \in Seq(Units)
  BY <1>1 DEF Root, Answers
<1>3. ASSUME NEW u \in Units
      PROVE  /\ Again(u) => /\ u \in Batch /\ IsNext(u) /\ root.latest[u] # Nothing
                            /\ root.latest[u].number + 1 = Latest(u)
             /\ u \in Batch /\ ~ Again(u) => IsOver(u)
  <2>1. UnitCalm(u)
    BY <1>1 DEF CalmNow
  <2>2. Again(u) => u \in Batch
    BY <1>1 DEF RootFits, Again
  <2> QED
    BY <1>1, <2>1, <2>2 DEF UnitCalm, IsNext
<1> DEFINE f == [u \in Units |-> IF u \in Batch /\ \A i \in DOMAIN again : again[i] # u
                                  THEN root.latest[u] ELSE root.final[u]]
           m == [u \in Units |-> IF \E i \in DOMAIN again : again[i] = u
                                  THEN root.latest[u].number + 1 ELSE root.number[u]]
           p == RestOf(root.pending) \o again
           r == [root EXCEPT !.unsettled = FALSE, !.final = f, !.number = m, !.pending = p]
<1>4. root' = LoopHead(r)
  BY DEF Settled
<1>5. ASSUME NEW u \in Units
      PROVE  /\ f[u] = IF u \in Batch /\ ~ Again(u) THEN root.latest[u] ELSE root.final[u]
             /\ m[u] = IF Again(u) THEN Latest(u) ELSE root.number[u]
  BY <1>3 DEF Again
<1>6. f \in [Units -> Outcome \cup {Nothing}]
  BY <1>1, UnitTypes
<1>7. m \in [Units -> Numbers]
  <2>1. \A u \in Units : m[u] \in Numbers
    BY <1>1, <1>5, UnitTypes
  <2> QED
    BY <2>1
<1>8. p \in Seq(Units)
  BY <1>1, <1>2, RestTypes DEF Root
<1> HIDE DEF f, m, p, again
<1>9. /\ r \in Root /\ r.unsettled = FALSE /\ r.final = f /\ r.latest = root.latest
      /\ r.pending = p /\ r.number = m /\ r.cancel = root.cancel /\ r.input = root.input
  BY <1>1, <1>6, <1>7, <1>8 DEF Root
<1> HIDE DEF r
<1>10. Kept(r, root') /\ root'.at \in {"CHECKPOINT", "LAST", "FINISH"}
  BY <1>4, <1>9, LoopTypes
<1>11. /\ root'.cancel = r.cancel
       /\ root'.at # "CHECKPOINT" => r.pending = <<>>
       /\ root'.at # "FINISH" => root'.input = r.input
       /\ root'.at = "FINISH" => root'.input = r.cancel
  BY <1>4, <1>9, LoopHeadLeads
<1>12. root'.pending = RestOf(root.pending) \o root.reply.retries
  BY <1>9, <1>10 DEF Kept, p, again
<1> QED
  BY <1>3, <1>5, <1>9, <1>10, <1>11, <1>12 DEF Kept

\* The list that waits after the settling.
LEMMA SettledOrder ==
  ASSUME RunInv, CalmNow, Settled
  PROVE  /\ InOrder'
         /\ \A u \in Units : Pending(u)' <=> Again(u) \/ (u \notin Batch /\ Pending(u))
<1>1. /\ root \in Root /\ InOrder /\ root.reply.is = "SETTLED" /\ root.at = "SETTLE"
      /\ root.pending \in Seq(Units)
  BY DEF RunInv, TUTypeOK, Root, Settled, Arrives, Heard, CalmNow
<1>2. PICK again \in Seq(Units) : again = root.reply.retries /\ DOMAIN again = 1..Len(again)
  BY <1>1 DEF Root, Answers
<1>3. PICK q \in Seq(Units) : q = root.pending /\ DOMAIN q = 1..Len(q)
  BY <1>1
<1>4. PICK fresh \in SUBSET Units : fresh = {u \in Units : root.latest[u] = Nothing}
  OBVIOUS
<1>5. Distinct(q) /\ Rising(q, fresh) /\ Distinct(again)
  <2>1. \A j \in 1..Len(q) : q[j] \in fresh <=> root.latest[root.pending[j]] = Nothing
    BY <1>3, <1>4
  <2> QED
    BY <1>1, <1>2, <1>3, <2>1 DEF InOrder, Distinct, Rising
<1>7. Batch = BatchOf(q)
  BY <1>3 DEF Batch
<1>8. \A u \in Units : (Again(u) <=> Has(again, u)) /\ (Pending(u) <=> Has(q, u))
  BY <1>2, <1>3 DEF Again, Pending, Has
<1>9. \A u \in Units : Has(again, u) => u \in BatchOf(q) /\ u \notin fresh
  BY <1>4, <1>7, <1>8, SettledRemembers
<1>10. PICK p : p = RestOf(q) \o again
  OBVIOUS
<1>11. /\ p \in Seq(Units) /\ DOMAIN p = 1..Len(p) /\ Distinct(p) /\ Rising(p, fresh)
       /\ \A u \in Units : Has(p, u) <=> (u \notin BatchOf(q) /\ Has(q, u)) \/ Has(again, u)
  BY <1>5, <1>9, <1>10, NextPending
<1>12. root'.pending = p /\ root'.latest = root.latest /\ root'.reply = NoReply
  BY <1>2, <1>3, <1>10, SettledRemembers
<1>13. \A j \in 1..Len(p) : p[j] \in fresh <=> root'.latest[root'.pending[j]] = Nothing
  BY <1>4, <1>11, <1>12
<1>14. InOrder'
  BY <1>1, <1>11, <1>12, <1>13 DEF InOrder, NoReply, Distinct, Rising
<1>15. ASSUME NEW u \in Units
       PROVE  Pending(u)' <=> Again(u) \/ (u \notin Batch /\ Pending(u))
  <2>1. Pending(u)' <=> Has(p, u)
    BY <1>11, <1>12 DEF Pending, Has
  <2> QED
    BY <1>7, <1>8, <1>11, <2>1
<1> QED
  BY <1>14, <1>15

\* Settled units are over or wait for their next attempt, and the root goes on.
LEMMA SettledCalm ==
  ASSUME RunInv, RunInv', CalmNow, Settled, UNCHANGED <<rows, working, orphan>>
  PROVE  CalmNow'
<1>1. /\ root.at = "SETTLE" /\ root.reply.is = "SETTLED"
      /\ UNCHANGED <<run, unit, attempt, child, working, orphan>>
  BY DEF Settled, Arrives, Heard, rows
<1>2. /\ root'.at \in {"CHECKPOINT", "LAST", "FINISH"} /\ root'.reply = NoReply
      /\ root'.at # "CHECKPOINT" => root'.pending = <<>>
      /\ root'.cancel = root.cancel /\ root'.unsettled = FALSE /\ root'.latest = root.latest
      /\ root'.at # "FINISH" => root'.input = root.input
      /\ root'.at = "FINISH" => root'.input = root.cancel
  BY SettledRemembers
<1>3. ASSUME NEW u \in Units
      PROVE  /\ Idle(u)' /\ (child'[u].at = "FAILED" => root'.cancel)
             /\ Pending(u)' => IsNext(u)' /\ root'.number[u] = Latest(u)'
             /\ ~ Pending(u)' => IsOver(u)' /\ root'.final[u] = root'.latest[u]
  <2>1. /\ UnitCalm(u) /\ Idle(u) /\ (child[u].at = "FAILED" => root.cancel)
        /\ ~ Pending(u) => IsOver(u) /\ root.final[u] = root.latest[u]
    BY <1>1, BetweenBatches
  <2>2. /\ Idle(u)' = Idle(u) /\ IsNext(u)' = IsNext(u) /\ IsOver(u)' = IsOver(u)
        /\ Latest(u)' = Latest(u)
    BY <1>1, <1>2 DEF Idle, IsNext, IsOver, Told, Agrees, Latest, LatestAttempt
  <2>3. /\ root'.final[u] = IF u \in Batch /\ ~ Again(u) THEN root.latest[u] ELSE root.final[u]
        /\ root'.number[u] = IF Again(u) THEN Latest(u) ELSE root.number[u]
        /\ Again(u) => u \in Batch /\ IsNext(u)
        /\ u \in Batch /\ ~ Again(u) => IsOver(u)
    BY SettledRemembers
  <2>4. Pending(u)' <=> Again(u) \/ (u \notin Batch /\ Pending(u))
    BY SettledOrder
  <2>5. u \notin Batch /\ Pending(u) => IsNext(u) /\ root.number[u] = Latest(u)
    BY <2>1 DEF UnitCalm
  <2> QED
    BY <1>1, <1>2, <2>1, <2>2, <2>3, <2>4, <2>5
<1>4. InOrder'
  BY SettledOrder
<1>5. RootCalm'
  <2>1. RootCalm
    BY DEF CalmNow
  <2> QED
    BY <1>1, <1>2, <2>1 DEF RootCalm, Runs, NoReply
<1>6. CASE root'.at # "FINISH"
  <2>1. ASSUME NEW u \in Units
        PROVE  UnitCalm(u)'
    BY <1>2, <1>3, <1>6 DEF UnitCalm, Idle, NoReply
  <2> QED
    BY <1>2, <1>4, <1>5, <1>6, <2>1 DEF CalmNow
<1>7. CASE root'.at = "FINISH"
  <2>1. \A u \in Units : Standing(u)' /\ Idle(u)' /\ ~ Pending(u)'
    BY <1>2, <1>3, <1>7 DEF Standing, Pending
  <2>2. (RunInv /\ InOrder /\ FinishReady /\ \A u \in Units : Idle(u))'
    BY <1>2, <1>4, <1>7, <2>1 DEF FinishReady
  <2>3. FinishCalm'
    BY <2>2, FinishEntered, PTL
  <2> QED
    BY <1>4, <1>5, <1>7, <2>3 DEF CalmNow
<1> QED
  BY <1>6, <1>7

\* The moves of the workflow while nothing goes wrong.
LEMMA RootMovesCalm ==
  ASSUME RunInv, RunInv', CalmNow, RootMoves
  PROVE  CalmNow'
<1>1. UNCHANGED <<rows, working, orphan>> /\ RootCalm /\ RootFits
  BY DEF RootMoves, CalmNow, RunInv
<1>2. ASSUME Fails
      PROVE  FALSE
  BY <1>1, <1>2 DEF Fails, Heard, RootCalm
<1>3. CASE Checked
  <2>1. root.at = "CHECKPOINT" /\ root.reply.is # "SETTLED" /\ UNCHANGED child
    BY <1>3 DEF Checked
  <2>2. CASE root.cancel \/ Heard("CANCELING")
    <3>1. root' = CanceledLoop /\ run.cancel
      BY <1>1, <1>3, <2>2 DEF Checked, RootCalm, Heard
    <3> QED
      BY <1>1, <2>1, <3>1, CanceledCalm
  <2>3. CASE ~ (root.cancel \/ Heard("CANCELING"))
    <3>1. \/ root' = Goes(root, "WAIT")
          \/ root' = Goes(root, "SETTLE")
          \/ root' = Goes(root, "PREPARE") /\ ~ root.unsettled
      BY <1>3, <2>3 DEF Checked
    <3> QED
      BY <1>1, <2>1, <3>1, GoesCalm
  <2> QED
    BY <2>2, <2>3
<1>4. CASE Settled
  BY <1>1, <1>4, SettledCalm
<1>5. CASE Deferred
  <2>1. root.at \in {"SETTLE", "PREPARE"} /\ root.reply.is # "SETTLED" /\ UNCHANGED child
    BY <1>5 DEF Deferred, Heard
  <2>2. \/ root' = CanceledLoop /\ run.cancel
        \/ root' = Goes(root, "CHECKPOINT")
    BY <1>1, <1>5 DEF Deferred, Heard, RootCalm
  <2> QED
    BY <1>1, <2>1, <2>2, CanceledCalm, GoesCalm
<1>6. CASE Wakes
  <2>1. /\ root.at = "WAIT" /\ root' = Goes(root, "CHECKPOINT") /\ UNCHANGED child
        /\ root.reply.is # "SETTLED"
    BY <1>1, <1>6 DEF Wakes, RootFits
  <2> QED
    BY <1>1, <2>1, GoesCalm
<1> QED
  BY <1>1, <1>2, <1>3, <1>4, <1>5, <1>6, DispatchedCalm, BatchEndsCalm, LastCheckedCalm,
     FinishHeardCalm DEF RootMoves

-----------------------------------------------------------------------------
(* The root fails for a reason *)

\* Every unit waits for its first attempt.
LEMMA CalmInit == TUInit => CalmFits
<1> SUFFICES ASSUME TUInit PROVE CalmNow
  BY DEF CalmFits
<1>1. ASSUME NEW u \in Units
      PROVE  UnitCalm(u)
  <2>1. attempt[u] = <<NewAttempt>> /\ Latest(u) = 1 /\ LatestAttempt(u) = NewAttempt
    BY DEF TUInit, Latest, LatestAttempt
  <2>2. Pending(u) /\ Idle(u) /\ child[u].at = "NONE" /\ ~ root.unsettled
        /\ root.at = "CHECKPOINT" /\ root.reply = NoReply /\ root.number[u] = 1
    BY DEF TUInit, Pending, Idle
  <2>3. IsNext(u)
    BY <2>1 DEF TUInit, IsNext, NewAttempt
  <2> QED
    BY <2>1, <2>2, <2>3 DEF UnitCalm, Idle, NoReply
<1>2. RootCalm /\ InOrder
  BY DEF TUInit, RootCalm, InOrder, NoReply, Runs
<1> QED
  BY <1>1, <1>2 DEF CalmNow, TUInit

\* What has gone wrong stays gone wrong.
LEMMA CalmWasThere == TUTypeOK /\ [TUNext]_unitVars /\ Calm' => Calm
<1> SUFFICES ASSUME TUTypeOK, [TUNext]_unitVars, Calm' PROVE faults' = faults /\ (overdue => overdue')
  BY DEF Calm
<1>1. ~ Fault /\ \A what : ~ Lost(what)
  BY CalmHasNoFault DEF Calm
<1>2. CASE RequestPause \/ RequestResume \/ RequestCancel \/ DeadlinePasses
  BY <1>2 DEF RequestPause, RequestResume, RequestCancel, DeadlinePasses
<1>3. CASE RootActs
  BY <1>1, <1>3 DEF RootActs, Checkpoint, Settle, PrepareBatch, FinishRun, RootMoves, Says, Replies,
                    Refuses, NoFault
<1>4. CASE CancelSignaled \/ BatchRejected
  <2>1. ~ BatchRejected
    BY <1>1 DEF BatchRejected
  <2>2. CancelSignaled => UNCHANGED <<overdue, faults>>
    BY DEF CancelSignaled
  <2> QED
    BY <1>4, <2>1, <2>2
<1>5. ASSUME NEW u \in Units,
             ChildActs(u) \/ AdmissionRejects(u) \/ OrphanBegins(u) \/ GiveUp(u) \/ ChildFails(u)
      PROVE  faults' = faults /\ (overdue => overdue')
  BY <1>1, <1>5 DEF ChildActs, Begin, FinishAttempt, ExecutorCanceled, AdmissionRejects, OrphanBegins,
                    GiveUp, ChildFails, NoFault
<1>6. ASSUME NEW u \in Units, NEW n \in Numbers,
             ExecutorActs(u, n) \/ \E verdict \in Verdicts : AcceptSeal(u, n, verdict)
      PROVE  faults' = faults /\ (overdue => overdue')
  BY <1>6 DEF ExecutorActs, Report, ZombieEnds, AcceptSeal
<1>7. CASE UNCHANGED unitVars
  BY <1>7 DEF unitVars
<1> QED
  BY <1>2, <1>3, <1>4, <1>5, <1>6, <1>7 DEF TUNext

\* A step that leaves the calm as it is keeps what holds in it.
LEMMA CalmStep == RunInv /\ CalmFits /\ [TUNext]_unitVars => CalmFits'
<1> SUFFICES ASSUME RunInv, CalmFits, [TUNext]_unitVars, Calm'
             PROVE  CalmNow'
  BY DEF CalmFits
<1>1. RunInv' /\ TUTypeOK
  BY NextFits DEF RunInv
<1>2. CalmNow /\ faults' = 0 /\ ~ overdue /\ ~ overdue'
  BY <1>1, CalmWasThere DEF Calm, CalmFits
<1>3. ~ Fault /\ \A what : ~ Lost(what)
  BY <1>1, <1>2, CalmHasNoFault
<1>4. CASE UNCHANGED unitVars
  <2>1. \A u \in Units : SameUnit(u)
    BY <1>4, SameRowsOfAll DEF unitVars
  <2>2. ToldOnly /\ (FinallyCanceled => FinallyCanceled')
    BY <1>4 DEF unitVars, ToldOnly, SameMemory, FinallyCanceled
  <2> QED
    BY <1>2, <1>4, <2>1, <2>2, CalmStays DEF unitVars
<1>5. CASE RequestPause \/ RequestResume \/ RequestCancel
  BY <1>2, <1>5, RequestsCalm
<1>6. ASSUME DeadlinePasses
      PROVE  FALSE
  BY <1>2, <1>6 DEF DeadlinePasses
<1>7. CASE RootActs
  BY <1>1, <1>2, <1>7, CheckpointCalm, SettleCalm, PrepareCalm, FinishRunCalm, RootMovesCalm
     DEF RootActs
<1>8. CASE CancelSignaled
  BY <1>2, <1>8, CancelSignaledCalm
<1>9. ASSUME BatchRejected
      PROVE  FALSE
  BY <1>3, <1>9 DEF BatchRejected
<1>10. ASSUME NEW u \in Units, ChildActs(u)
       PROVE  CalmNow'
  <2>1. CASE Begin(u)
    BY <1>2, <2>1, BeginCalm
  <2>2. CASE FinishAttempt(u)
    BY <1>2, <2>2, FinishAttemptCalm
  <2>3. CASE ExecutorCanceled(u)
    BY <1>2, <2>3, ExecutionEndsCalm DEF ExecutorCanceled
  <2> QED
    BY <1>10, <2>1, <2>2, <2>3 DEF ChildActs
<1>11. ASSUME NEW u \in Units, AdmissionRejects(u) \/ GiveUp(u) \/ ChildFails(u)
       PROVE  FALSE
  BY <1>3, <1>11 DEF AdmissionRejects, GiveUp, ChildFails
<1>12. ASSUME NEW u \in Units, OrphanBegins(u)
       PROVE  CalmNow'
  BY <1>2, <1>12, OrphanBeginsCalm
<1>13. ASSUME NEW u \in Units, NEW n \in Numbers, ExecutorActs(u, n)
       PROVE  CalmNow'
  <2>1. ASSUME NEW execution, Report(u, n, execution)
        PROVE  CalmNow'
    BY <1>2, <2>1, ExecutionEndsCalm DEF Report, Awaited
  <2> QED
    BY <1>2, <1>13, <2>1, ZombieEndsCalm DEF ExecutorActs
<1>14. ASSUME NEW u \in Units, NEW n \in Numbers, NEW verdict \in Verdicts, AcceptSeal(u, n, verdict)
       PROVE  CalmNow'
  BY <1>2, <1>14, AcceptSealCalm
<1> QED
  BY <1>4, <1>5, <1>6, <1>7, <1>8, <1>9, <1>10, <1>11, <1>12, <1>13, <1>14 DEF TUNext

\* What holds in the calm covers what a run's end must be justified by.
LEMMA CalmCovers == RunInv /\ CalmFits => OutcomeIsJustified
<1> SUFFICES ASSUME RunInv, CalmFits, root.at = "FAILED"
             PROVE  faults > 0 \/ overdue
  BY RunInvCovers DEF OutcomeIsJustified, RootFailsForAReason
<1>1. ~ Calm
  BY DEF CalmFits, CalmNow, RootCalm
<1>2. faults \in Nat /\ overdue \in BOOLEAN
  BY UnitNumbers DEF RunInv, TUTypeOK
<1> QED
  BY <1>1, <1>2 DEF Calm

\* The root of a run never fails by itself. As long as no answer, child or executor
\* is lost, no admission is refused and the deadline has not passed, no settling,
\* preparing or finishing is refused, whatever is paused, resumed or canceled in
\* between; and a run that is closed is complete.
THEOREM OutcomesAreJustified == TUSpec => []OutcomeIsJustified
<1>1. RunInv /\ CalmFits /\ [TUNext]_unitVars => RunInv' /\ CalmFits'
  BY NextFits, CalmStep
<1>2. TUInit => RunInv /\ CalmFits
  BY InitFits, CalmInit
<1> QED
  BY <1>1, <1>2, CalmCovers, PTL DEF TUSpec

=============================================================================
