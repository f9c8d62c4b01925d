------------------------------- MODULE IpAccess -------------------------------
(***************************************************************************)
(* The IP access policy: rules in a table, changed by administrators'      *)
(* requests (main.rs), each of which then lists the table, compiles it and *)
(* replaces the policy in memory that every proxied request consults       *)
(* (geoip.rs).  The steps of two requests interleave.                      *)
(***************************************************************************)
EXTENDS Naturals, FiniteSets

CONSTANTS Editors,  \* administrators' requests that run at the same time
          Ids,      \* ids of rows
          Entries,  \* what an administrator may enter: action, ip, prefix, enabled
          Width,    \* bits of an address (32 or 128)
          Versions, \* versions of the protocol
          MaxDrops  \* bound on refreshes that fail and on restarts

Addresses == [v : Versions, n : 0..2^Width - 1]
Entry == [action : {"allow", "deny"}, ip : Addresses, prefix : 0..Width, enabled : BOOLEAN]

ASSUME IpAccessAssumption ==
    /\ Width \in Nat \ {0} /\ MaxDrops \in Nat
    /\ Ids \subseteq Nat
    /\ Entries \subseteq Entry

VARIABLES rules,     \* table ip_access_rules: a function of the ids in use
          policy,    \* AppState.ip_access_policy: allowed and denied networks
          editor,    \* each request: phase, and the rules it listed
          overtaken, \* history: per request, has a change come after its list
          disturbed, \* history: the policy in force comes from an overtaken list,
                     \* or a change was not followed by a refresh
          drops

ivars == <<rules, policy, editor, overtaken, disturbed, drops>>

-----------------------------------------------------------------------------
(* Networks *)

(* mask_ip: ip & (MAX << (Width - prefix)), which leaves the first prefix  *)
(* bits.                                                                   *)
Mask(ip, prefix) == [ip EXCEPT !.n = IF prefix = 0 THEN 0 ELSE @ - (@ % 2^(Width - prefix))]

(* IpNetwork::parse. *)
Network(ip, prefix) == [network |-> Mask(ip, prefix), prefix |-> prefix]

(* IpNetwork::contains. *)
NetContains(net, ip) ==
    net.network.v = ip.v /\ Mask(ip, net.prefix) = net.network

(* IpAccessPolicy::compile. *)
Compile(rows) ==
    [a \in {"allow", "deny"} |->
        {rows[i].net : i \in {j \in DOMAIN rows : rows[j].enabled /\ rows[j].action = a}}]

(* IpAccessPolicy::decide. *)
Decide(p, ip) ==
    IF \E net \in p["deny"] : NetContains(net, ip) THEN "deny_rule"
    ELSE IF p["allow"] # {} /\ ~\E net \in p["allow"] : NetContains(net, ip)
    THEN "allowlist_required" ELSE "allow"

-----------------------------------------------------------------------------
NoRules == [i \in {} |-> 0]
Quiet == [phase |-> "idle", row |-> 0, listed |-> NoRules]

IpAccessInit ==
    /\ rules = NoRules /\ policy = Compile(rules)
    /\ editor = [h \in Editors |-> Quiet]
    /\ overtaken = [h \in Editors |-> FALSE] /\ disturbed = FALSE /\ drops = 0

(* normalize_ip_access_rule. *)
Row(e) == [action |-> e.action, net |-> Network(e.ip, e.prefix), enabled |-> e.enabled]
Distinct(e, others) ==
    \A i \in others : rules[i].action = e.action => rules[i].net # Row(e).net

(* The statement of request h on row i commits. *)
Changed(h, i, rows, next) ==
    /\ editor[h] = Quiet
    /\ rules' = rows
    /\ editor' = [editor EXCEPT ![h].phase = next, ![h].row = i]
    /\ overtaken' = [g \in Editors |-> editor[g].phase = "listed" \/ overtaken[g]]
    /\ UNCHANGED <<policy, disturbed, drops>>

CreateRule(h, i, e) ==
    /\ i \notin DOMAIN rules /\ Distinct(e, DOMAIN rules)
    /\ Changed(h, i, [j \in DOMAIN rules \cup {i} |-> IF j = i THEN Row(e) ELSE rules[j]],
               "changed")

UpdateRule(h, i, e) ==
    /\ i \in DOMAIN rules /\ Distinct(e, DOMAIN rules \ {i})
    /\ Changed(h, i, [rules EXCEPT ![i] = Row(e)], "changed")

DeleteRule(h, i) ==
    /\ i \in DOMAIN rules
    /\ Changed(h, i, [j \in DOMAIN rules \ {i} |-> rules[j]], "refresh")

(* create and update read their row back: if another request has removed   *)
(* it, they end without a refresh.                                         *)
ReadBack(h) ==
    /\ editor[h].phase = "changed"
    /\ editor' = [editor EXCEPT ![h] = IF @.row \in DOMAIN rules
                                       THEN [@ EXCEPT !.phase = "refresh"] ELSE Quiet]
    /\ UNCHANGED <<rules, policy, overtaken, disturbed, drops>>

(* refresh_ip_access_policy lists the rules, *)
ListRules(h) ==
    /\ editor[h].phase = "refresh"
    /\ editor' = [editor EXCEPT ![h].phase = "listed", ![h].listed = rules]
    /\ overtaken' = [overtaken EXCEPT ![h] = FALSE]
    /\ UNCHANGED <<rules, policy, disturbed, drops>>

\* Mutant: the policy is extended, and removed rules stay.
ReplacePolicyAdding(h) ==
    /\ editor[h].phase = "listed"
    /\ policy' = [a \in {"allow", "deny"} |-> policy[a] \cup Compile(editor[h].listed)[a]]
    /\ editor' = [editor EXCEPT ![h] = Quiet]
    /\ disturbed' = overtaken[h]
    /\ UNCHANGED <<rules, overtaken, drops>>

(* and compiles them and replaces the policy. *)
ReplacePolicy(h) ==
    /\ editor[h].phase = "listed"
    /\ policy' = Compile(editor[h].listed)
    /\ editor' = [editor EXCEPT ![h] = Quiet]
    /\ disturbed' = overtaken[h]
    /\ UNCHANGED <<rules, overtaken, drops>>

(* The list fails, or the client goes away and the request is dropped: the *)
(* change stays in the table only.                                         *)
RefreshFails(h) ==
    /\ editor[h].phase \in {"changed", "refresh"} /\ drops < MaxDrops
    /\ editor' = [editor EXCEPT ![h] = Quiet]
    /\ disturbed' = TRUE /\ drops' = drops + 1
    /\ UNCHANGED <<rules, policy, overtaken>>

(* build_application compiles the table at the start. *)
RestartServer ==
    /\ drops < MaxDrops /\ drops' = drops + 1
    /\ policy' = Compile(rules)
    /\ editor' = [h \in Editors |-> Quiet]
    /\ disturbed' = FALSE
    /\ UNCHANGED <<rules, overtaken>>

IpAccessNext ==
    \/ \E h \in Editors, i \in Ids :
            \/ \E e \in Entries : CreateRule(h, i, e) \/ UpdateRule(h, i, e)
            \/ DeleteRule(h, i)
    \/ \E h \in Editors : ReadBack(h) \/ ListRules(h) \/ ReplacePolicy(h) \/ RefreshFails(h)
    \/ RestartServer

-----------------------------------------------------------------------------
(* Properties *)

(* Does the rule's network cover ip: do the first bits agree. *)
Bit(n, k) == (n \div 2^(Width - k)) % 2
Covers(net, ip) ==
    net.network.v = ip.v /\ \A k \in 1..net.prefix : Bit(net.network.n, k) = Bit(ip.n, k)

(* What the rules in the table say of ip: a denial wins, and an allowlist  *)
(* excludes everyone it does not name.                                     *)
Verdict(ip) ==
    LET Matching(a) == {i \in DOMAIN rules : /\ rules[i].enabled /\ rules[i].action = a
                                             /\ Covers(rules[i].net, ip)}
        Listed == {i \in DOMAIN rules : rules[i].enabled /\ rules[i].action = "allow"}
    IN  CASE Matching("deny") # {} -> "deny_rule"
          [] Matching("deny") = {} /\ Listed # {} /\ Matching("allow") = {} -> "allowlist_required"
          [] OTHER -> "allow"

(* Once the changes have been answered, every address is judged by the     *)
(* rules in the table, unless the last refresh used a list that another    *)
(* change had overtaken, or failed.                                        *)
PolicyInForce ==
    ((\A h \in Editors : editor[h] = Quiet) /\ ~disturbed)
        => \A ip \in Addresses : Decide(policy, ip) = Verdict(ip)
=============================================================================
