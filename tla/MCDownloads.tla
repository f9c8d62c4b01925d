----------------------------- MODULE MCDownloads -----------------------------
(* Instances of Downloads for TLC. *)
EXTENDS Downloads, TLC

CONSTANTS d1, d2, a1, a2, u1, t1, t2, h1, h2

OneOwner == [t \in Tokens |-> u1]
\* One policy, so that only blocks, tokens and permissions change.
FixedConfig == {[enabled |-> TRUE, slots |-> 2, userSlots |-> 2]}
\* Downloads are turned off and on again, with one slot.
OnOff == {[enabled |-> b, slots |-> 1, userSlots |-> 1] : b \in BOOLEAN}

Symmetry == Permutations(Downloads) \cup Permutations(Admins)
=============================================================================
