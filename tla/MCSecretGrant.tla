--------------------------- MODULE MCSecretGrant ---------------------------
(* A small environment for SecretGrant.                                      *)
EXTENDS SecretGrant, TLC

CONSTANTS a1, c1, c2, env, g1, g2, i1, i2

MCScopesOf == [a \in Accounts |-> {env}]

\* The identities of grants and checks are never compared but for equality.
GrantSymmetry == Permutations(GrantIds) \cup Permutations(CheckIds)

\* The account may change three times, or the connector once and the account twice.
FewChanges == account[a1].revision + connector[c1].revision <= 5
=============================================================================
