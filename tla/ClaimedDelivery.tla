--------------------------- MODULE ClaimedDelivery ---------------------------
(***************************************************************************)
(* What the durable delivery queues promise.                               *)
(*                                                                         *)
(* An item is claimed for a limited time and its claimant works outside    *)
(* any transaction, so an item may be claimed again while somebody still   *)
(* works on it.  Whatever those workers do, only the newest claim decides  *)
(* the outcome of the item, once, and a decided item is never claimed      *)
(* again.  The owner of an item may settle it at any time.                 *)
(***************************************************************************)
EXTENDS Naturals

CONSTANT Items

VARIABLES
  state,      \* item -> where its delivery stands
  revision,   \* item -> number of changes of its row
  work        \* claims that somebody may still be working on, as <<item, revision>>

vars == <<state, revision, work>>

CInit ==
  /\ state = [i \in Items |-> "OPEN"]
  /\ revision = [i \in Items |-> 0]
  /\ work = {}

Advance(i, next) ==
  /\ state' = [state EXCEPT ![i] = next]
  /\ revision' = [revision EXCEPT ![i] = @ + 1]

Claim(i) ==
  /\ state[i] \in {"OPEN", "CLAIMED"}
  /\ Advance(i, "CLAIMED")
  /\ work' = work \cup {<<i, revision[i] + 1>>}

Decide(i) ==
  /\ state[i] = "CLAIMED"
  /\ <<i, revision[i]>> \in work
  /\ \E next \in {"OPEN", "DELIVERED", "FAILED", "SETTLED"} : Advance(i, next)
  /\ work' = work \ {<<i, revision[i]>>}

Abandon(claim) ==
  /\ claim \in work
  /\ work' = work \ {claim}
  /\ UNCHANGED <<state, revision>>

Settle(i) ==
  /\ state[i] \in {"OPEN", "CLAIMED", "DELIVERED"}
  /\ Advance(i, "SETTLED")
  /\ UNCHANGED work

CNext ==
  \/ \E i \in Items : Claim(i)
  \/ \E i \in Items : Decide(i)
  \/ \E claim \in work : Abandon(claim)
  \/ \E i \in Items : Settle(i)

CSpec == CInit /\ [][CNext]_vars

=============================================================================
