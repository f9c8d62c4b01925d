---------------------------- MODULE MCDiskCache ----------------------------
(* Instances of DiskCache for TLC. *)
EXTENDS DiskCache, TLC

CONSTANTS r1, r2, k1, k2, k3

\* Two bodies fit unless both are of version 2.
SmallLimit == {[enabled |-> TRUE, max |-> 3]}
\* The administrator changes the limit between two bodies and one while a
\* request is in flight.
TwoLimits == {[enabled |-> TRUE, max |-> 2], [enabled |-> TRUE, max |-> 1]}

Symmetry == Permutations(Requests) \cup Permutations(Keys)
=============================================================================
