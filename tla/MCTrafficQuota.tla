--------------------------- MODULE MCTrafficQuota ---------------------------
(* Instances of TrafficQuota for TLC. *)
EXTENDS TrafficQuota, TLC

CONSTANTS u1, g1, g2, r1, r2, r3

Plain(gr) == [active |-> TRUE, group |-> gr, mode |-> "default", limit |-> NoLimit]

\* Caps around the boundary: with R = 2 a cap of 4 holds two plain
\* reservations or one bidirectional one.
MCCaps == {4}
MCConfigs ==
    {[globalCap |-> 4, userCap |-> NoLimit, bidirectional |-> FALSE],
     [globalCap |-> NoLimit, userCap |-> 4, bidirectional |-> TRUE]}
\* Moving a user between two groups while its requests are in flight.
MCProfiles == {Plain(g1), Plain(g2)}

\* The user's own limits and the disabled user.
LimitProfiles ==
    {Plain(NoGroup),
     [active |-> TRUE, group |-> g1, mode |-> "custom", limit |-> 4],
     [active |-> TRUE, group |-> NoGroup, mode |-> "unlimited", limit |-> NoLimit],
     [active |-> FALSE, group |-> g1, mode |-> "default", limit |-> NoLimit]}
LimitConfigs ==
    {[globalCap |-> 4, userCap |-> 4, bidirectional |-> FALSE]}

Symmetry == Permutations(Requests)
=============================================================================
