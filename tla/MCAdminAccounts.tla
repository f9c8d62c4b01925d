-------------------------- MODULE MCAdminAccounts --------------------------
(* Two requests, two names and two authenticators.  The form turns the     *)
(* passkey policy on with new network settings and leaves the webhook      *)
(* blank, so that the stored one is kept.                                  *)
EXTENDS AdminAccounts, TLC

CONSTANTS i1, i2, k1, k2, a1, a2, n1, n2, w1, s1, root

MCForms == {[net |-> n2, hook |-> Blank, passkeys |-> "required", glass |-> root]}
MCFiles == {[listen |-> l, mgmt |-> IF l = a1 THEN a2 ELSE a1, net |-> n1, acme |-> s1,
             hook |-> w1, glass |-> root] : l \in {a1, a2}}

MCHandlers == {i1, i2}
MCKeys == {k1, k2}
MCSymmetry == Permutations(MCHandlers) \cup Permutations(MCKeys)
=============================================================================
