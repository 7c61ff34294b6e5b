---------------------------- MODULE FencedLease ----------------------------
(***************************************************************************)
(* What the account lease service promises, seen from the accounts only.   *)
(* Every account is held under at most one fencing token, the token of the *)
(* holder is the account's latest fence, and a fence is never reused: a    *)
(* grant and a forced revocation both move it forward.                     *)
(* One transaction may end, revoke and grant several accounts at once.     *)
(***************************************************************************)
EXTENDS Integers

CONSTANT Accounts

VARIABLES
  holder,   \* account -> token of the lease that holds it, 0 when free
  fence     \* account -> latest fencing token issued for the account

fencedVars == <<holder, fence>>

FInit ==
  /\ holder = [a \in Accounts |-> 0]
  /\ fence  = [a \in Accounts |-> 0]

\* A free account is granted under a fresh token.
Granted(a) ==
  /\ holder[a] = 0
  /\ fence'[a] = fence[a] + 1
  /\ holder'[a] = fence'[a]

\* The holder lets go, or its time to live has run out; the fence stays.
Ended(a) ==
  /\ holder[a] # 0
  /\ holder'[a] = 0
  /\ fence'[a] = fence[a]

\* Management takes the account away and fences the holder off.
Revoked(a) ==
  /\ holder[a] # 0
  /\ holder'[a] = 0
  /\ fence'[a] = fence[a] + 1

Kept(a) ==
  /\ holder'[a] = holder[a]
  /\ fence'[a] = fence[a]

FNext ==
  /\ holder' \in [Accounts -> Nat]
  /\ fence'  \in [Accounts -> Nat]
  /\ \A a \in Accounts : Granted(a) \/ Ended(a) \/ Revoked(a) \/ Kept(a)

FSpec == FInit /\ [][FNext]_fencedVars
=============================================================================
