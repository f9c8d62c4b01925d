-------------------------- MODULE MCUpstreamSelector --------------------------
(* Instances of UpstreamSelector for TLC. *)
EXTENDS UpstreamSelector, TLC

CONSTANTS r1, r2, e1, e2, e3

\* An update replaces one list of candidates and threshold by another.
MCConfigs ==
    {[strategy |-> "adaptive", threshold |-> 2, candidates |-> <<e1, e2, e3>>],
     [strategy |-> "ordered", threshold |-> 1, candidates |-> <<e2, e1>>]}
Adaptive == {[strategy |-> "adaptive", threshold |-> 1, candidates |-> <<e1, e2>>]}

Symmetry == Permutations(Requests)
=============================================================================
