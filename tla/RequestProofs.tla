---------------------------- MODULE RequestProofs ----------------------------
(***************************************************************************)
(* Theorems about proxied requests: what one passes before it is served,   *)
(* the redirects that it follows, the order in which it tries endpoints    *)
(* whose health it shares with all others, and the URLs that the paths of  *)
(* package managers become.                                                *)
(***************************************************************************)
EXTENDS Redirects, UpstreamSelector, RequestGate, PackageRequests, FiniteSetTheorems,
        WellFoundedInduction, FunctionTheorems, TLAPS

RedirectsSpec == RedirectsInit /\ [][RedirectsNext]_rvars
GateSpec == GateInit /\ [][GateNext]_qvars
PackageSpec == PackageInit /\ [][PackageNext]_pvars

Verbs == {"GET", "HEAD", "POST"}

(* The requests that may be on a trail: the address is one that the name   *)
(* led to.                                                                 *)
Sent == {x \in [site : Sites, address : UNION UNION {s.lookups : s \in Sites}, verb : Verbs,
                credentials : SUBSET {"configured", "client", "token"}] :
            x.address \in UNION x.site.lookups}

(* The trail begins at the endpoint in use, and only registries have       *)
(* tokens.                                                                 *)
Underway ==
    /\ service \in {"generic", "hub", "oci"} /\ (service # "oci" => token = {})
    /\ trail \in Seq(Sent) /\ endpoints \in Seq(Sites)
    /\ IF outcome = "idle"
       THEN trail = <<>> /\ token = {} /\ metadata = {}
       ELSE /\ trail # <<>> /\ endpoints # <<>> /\ trail[1].site = endpoints[1]
            /\ service = "hub" => trail[1].verb # "POST"

RedirectsInv == Underway /\ RedirectsKept

-----------------------------------------------------------------------------
LEMMA LimitIsNat == RedirectLimit \in Nat
  BY Zenon, RedirectsAssumption

LEMMA StepIsSent ==
    ASSUME NEW site \in Sites, NEW address \in UNION site.lookups, NEW verb \in Verbs,
           NEW with \in SUBSET {"configured", "client", "token"}
    PROVE  Step(site, address, verb, with) \in Sent
  <1>1. address \in UNION UNION {s.lookups : s \in Sites}
    OBVIOUS
  <1> QED
    BY <1>1 DEF Step, Sent

LEMMA CredentialsAre ==
    ASSUME NEW site
    PROVE  /\ Credentials(site) \subseteq {"configured", "client"}
           /\ "configured" \in Credentials(site) => site \in Authorized
  BY DEF Credentials, UpstreamAuthFor

\* The first request to an endpoint.
LEMMA FirstKept ==
    ASSUME NEW site \in Sites, NEW verb \in Verbs, NEW kind \in {"generic", "hub", "oci"},
           NEW with \in {{}, {"token"}}, FirstTo(site, verb, kind, with),
           endpoints' \in Seq(Sites), endpoints' # <<>>, endpoints'[1] = site,
           service' = kind, outcome' # "idle", metadata' \in {{}, {site}},
           with = {} <=> token' = {}, kind # "oci" => with = {}, kind = "hub" => verb # "POST",
           \A t \in token' : TokenKept(t)'
    PROVE  RedirectsInv'
  <1> DEFINE sent == IF kind = "hub" THEN {} ELSE Credentials(site) \cup with
  <1>1. /\ sent \in SUBSET {"configured", "client", "token"}
        /\ "configured" \in sent => site \in Authorized
        /\ "token" \in sent <=> with # {}
        /\ kind = "hub" => sent = {}
    BY CredentialsAre
  <1>2. PICK address \in UNION site.lookups : trail' = <<Step(site, address, verb, sent)>>
    BY DEF FirstTo
  <1>3. PICK x : x = Step(site, address, verb, sent)
    OBVIOUS
  <1>4. x \in Sent /\ x.site = site /\ x.verb = verb /\ x.credentials = sent
    BY <1>1, <1>3, StepIsSent DEF Step
  <1>5. trail' = <<x>>
    BY <1>2, <1>3
  <1> HIDE DEF sent
  <1>6. trail' \in Seq(Sent) /\ Len(trail') = 1 /\ trail'[1] = x /\ DOMAIN trail' = {1} /\ trail' # <<>>
    BY <1>4, <1>5
  <1>7. Underway'
    BY <1>4, <1>6 DEF Underway
  <1>8. ASSUME NEW i \in DOMAIN trail' PROVE StepKept(i)'
    BY <1>1, <1>4, <1>6, <1>8 DEF StepKept
  <1>9. Len(trail') <= RedirectLimit + 1
    BY <1>6, LimitIsNat
  <1>10. ASSUME NEW i \in DOMAIN trail'
         PROVE  /\ service' = "hub" => trail'[i].credentials = {}
                /\ "token" \in trail'[i].credentials <=>
                      token' # {} /\ \A j \in 1..i : trail'[j].site = endpoints'[1]
    <2>1. i = 1 /\ trail'[i].credentials = sent /\ \A j \in 1..i : trail'[j].site = endpoints'[1]
      BY <1>4, <1>6
    <2> QED
      BY <1>1, <2>1
  <1>11. metadata' # {} => metadata' = {endpoints'[1]}
    OBVIOUS
  <1>12. RedirectsKept'
    BY <1>8, <1>9, <1>10, <1>11, Zenon DEF RedirectsKept
  <1> QED
    BY <1>7, <1>12 DEF RedirectsInv

\* A redirect that is followed, whatever adapter follows it.
LEMMA FollowedKept ==
    ASSUME RedirectsInv, outcome # "idle", outcome' = outcome,
           UNCHANGED <<outbound, service, endpoints, token>>,
           metadata' \in {metadata, {endpoints[1]}},
           NEW target \in Sites, NEW address \in UNION target.lookups, NEW verb \in Verbs \ {"POST"},
           trail' = Append(trail, Step(target, address, verb,
                        IF target = Latest.site THEN Latest.credentials ELSE {})),
           Len(trail) <= RedirectLimit, ~Downgrade(target),
           \/ address \in Public /\ ~outbound
           \/ target = trail[1].site /\ target.ip /\ (service # "hub" => target = Latest.site),
           service = "hub" => target \in DownloadHosts \cup {trail[1].site}
    PROVE  RedirectsInv'
  <1> DEFINE n == Len(trail)
             start == endpoints[1]
  <1>1. /\ n \in Nat /\ n >= 1 /\ Latest \in Sent /\ Latest = trail[n] /\ DOMAIN trail = 1..n
        /\ trail[1].site = start /\ trail[1] \in Sent
    BY DEF RedirectsInv, Underway, Latest
  <1>2. PICK with : with = IF target = Latest.site THEN Latest.credentials ELSE {}
    OBVIOUS
  <1>3. with \in SUBSET {"configured", "client", "token"}
    BY <1>1, <1>2 DEF Sent
  <1>4. PICK x : x = Step(target, address, verb, with)
    OBVIOUS
  <1>5. /\ x \in Sent /\ x.site = target /\ x.verb = verb /\ x.address = address
        /\ x.credentials = with
    BY <1>3, <1>4, StepIsSent DEF Step
  <1>6. /\ trail' \in Seq(Sent) /\ Len(trail') = n + 1 /\ DOMAIN trail' = 1..(n + 1)
        /\ trail'[n + 1] = x /\ \A j \in 1..n : trail'[j] = trail[j]
    BY <1>1, <1>2, <1>4, <1>5 DEF RedirectsInv, Underway
  <1>7. Underway'
    BY <1>1, <1>6 DEF RedirectsInv, Underway
  <1> DEFINE stayed == \A j \in 1..n : trail[j].site = start
  <1>8. /\ Latest.credentials # {} => stayed
        /\ "configured" \in Latest.credentials => start \in Authorized
        /\ "token" \in Latest.credentials <=> token # {} /\ stayed
        /\ n > 1 /\ outbound => start.ip /\ stayed
        /\ n > 1 /\ Latest.address \notin Public /\ service # "hub" => stayed
        /\ service = "hub" => Latest.credentials = {}
    BY <1>1 DEF RedirectsInv, RedirectsKept, StepKept, TokenKept
  <1>9. n = 1 => stayed
    BY <1>1
  <1>10. stayed => Latest.site = start
    BY <1>1
  <1>11. (\A j \in 1..(n + 1) : trail'[j].site = start) <=> stayed /\ target = start
    <2>1. ASSUME \A j \in 1..(n + 1) : trail'[j].site = start PROVE stayed /\ target = start
      <3>1. n + 1 \in 1..(n + 1) /\ \A j \in 1..n : j \in 1..(n + 1)
        BY <1>1
      <3> QED
        BY <2>1, <3>1, <1>5, <1>6
    <2>2. ASSUME stayed, target = start, NEW j \in 1..(n + 1) PROVE trail'[j].site = start
      <3>1. j \in 1..n \/ j = n + 1
        BY <1>1
      <3> QED
        BY <2>2, <3>1, <1>5, <1>6
    <2> QED
      BY <2>1, <2>2
  <1>12. with # {} => stayed /\ target = start
    BY <1>2, <1>8, <1>10
  <1>13. "token" \in with <=> token # {} /\ stayed /\ target = start
    BY <1>2, <1>8, <1>10
  <1>14. outbound => start.ip /\ stayed /\ target = start
    BY <1>1, <1>8, <1>9
  \* Back at a configured address without having stayed there, the address
  \* is a public one: it has no other.
  <1>15. address \notin Public =>
            start.ip /\ target = start /\ (service # "hub" => stayed)
    <2> SUFFICES ASSUME address \notin Public PROVE start.ip /\ target = start /\ (service # "hub" => stayed)
      OBVIOUS
    <2>1. target = start /\ target.ip
      BY <1>1
    <2>2. PICK a : target.lookups = {{a}}
      BY <2>1, RedirectsAssumption
    <2>3. address = a
      BY <2>2
    <2>4. service # "hub" => Latest.site = target /\ Latest.address \in UNION target.lookups
      BY <2>1, <1>1 DEF Sent
    <2>5. service # "hub" => Latest.address = address
      BY <2>2, <2>3, <2>4
    <2>6. service # "hub" => stayed
      BY <2>5, <1>1, <1>8, <1>9
    <2> QED
      BY <2>1, <2>6
  <1>16. ASSUME NEW i \in 1..(n + 1) PROVE StepKept(i)'
    <2>1. CASE i = n + 1
      <3>1. Latest.site.scheme = "https" => target.scheme = "https"
        BY DEF Downgrade
      <3>2. trail'[i] = x /\ trail'[i - 1] = Latest /\ i > 1
        BY <1>1, <1>6, <2>1
      <3>3. (\A j \in 1..i : trail'[j].site = start) <=> stayed /\ target = start
        BY <1>11, <2>1
      <3>4. "configured" \in with => start \in Authorized
        BY <1>2, <1>8
      <3>5. service = "hub" => target \in DownloadHosts \cup {start}
        BY <1>1
      <3> HIDE DEF stayed, n
      <3> QED
        BY <3>1, <3>2, <3>3, <3>4, <3>5, <1>5, <1>12, <1>14, <1>15 DEF StepKept
    <2>2. CASE i \in 1..n
      <3>1. StepKept(i)
        BY <1>1, <2>2 DEF RedirectsInv, RedirectsKept
      <3>2. \A j \in 1..i : j \in 1..n
        BY <1>1, <2>2
      <3>3. i > 1 => i - 1 \in 1..n
        BY <1>1, <2>2
      <3>4. trail'[i] = trail[i] /\ (i > 1 => trail'[i - 1] = trail[i - 1])
        BY <1>6, <2>2, <3>3
      <3>5. (\A j \in 1..i : trail'[j].site = start) <=> (\A j \in 1..i : trail[j].site = start)
        BY <1>6, <3>2
      <3> QED
        BY <3>1, <3>4, <3>5 DEF StepKept
    <2> QED
      BY <1>1, <2>1, <2>2
  <1>17. ASSUME NEW i \in 1..(n + 1)
         PROVE  /\ service = "hub" => trail'[i].credentials = {}
                /\ "token" \in trail'[i].credentials <=>
                      token # {} /\ \A j \in 1..i : trail'[j].site = start
    <2>1. CASE i = n + 1
      BY <2>1, <1>2, <1>5, <1>6, <1>8, <1>11, <1>13
    <2>2. CASE i \in 1..n
      <3>1. \A j \in 1..i : j \in 1..n
        BY <1>1, <2>2
      <3>2. (\A j \in 1..i : trail'[j].site = start) <=> (\A j \in 1..i : trail[j].site = start)
        BY <1>6, <3>1
      <3>3. trail'[i] = trail[i]
        BY <1>6, <2>2
      <3>4. /\ service = "hub" => trail[i].credentials = {}
            /\ "token" \in trail[i].credentials <=>
                  token # {} /\ \A j \in 1..i : trail[j].site = start
        BY <1>1, <2>2 DEF RedirectsInv, RedirectsKept
      <3> QED
        BY <3>2, <3>3, <3>4
    <2> QED
      BY <1>1, <2>1, <2>2
  <1>18. Len(trail') <= RedirectLimit + 1
    BY <1>1, <1>6, LimitIsNat
  <1>19. metadata' # {} => metadata' = {start}
    BY DEF RedirectsInv, RedirectsKept
  <1>t. \A t \in token' : TokenKept(t)'
    BY <1>1 DEF RedirectsInv, RedirectsKept, TokenKept
  <1>20. RedirectsKept'
    BY <1>6, <1>16, <1>17, <1>18, <1>19, <1>t DEF RedirectsKept
  <1> QED
    BY <1>7, <1>20 DEF RedirectsInv

\* The end of the work with an endpoint, and the next one.
LEMMA EndKept ==
    ASSUME RedirectsInv, outcome # "idle", NEW result, result # "idle", End(result)
    PROVE  RedirectsInv'
  BY DEF End, RedirectsInv, Underway, RedirectsKept, StepKept, TokenKept

LEMMA NextKept ==
    ASSUME RedirectsInv, outcome # "idle", NextEndpoint
    PROVE  RedirectsInv'
  <1>1. /\ endpoints \in Seq(Sites) /\ Len(endpoints) > 1
        /\ trail[1] \in Sent /\ service \in {"generic", "hub", "oci"}
    BY DEF NextEndpoint, RedirectsInv, Underway
  <1>2. PICK site : site = endpoints[2]
    OBVIOUS
  <1>3. PICK verb : verb = trail[1].verb
    OBVIOUS
  <1>4. site \in Sites /\ verb \in Verbs
    BY <1>1, <1>2, <1>3 DEF Sent
  <1>5. /\ FirstTo(site, verb, service, {}) /\ service' = service /\ outcome' = outcome
        /\ token' = {} /\ metadata' = {} /\ endpoints' = Tail(endpoints)
    BY <1>2, <1>3 DEF NextEndpoint
  <1>6. endpoints' \in Seq(Sites) /\ endpoints' # <<>> /\ endpoints'[1] = site
    <2>1. endpoints' \in Seq(Sites) /\ Len(endpoints') = Len(endpoints) - 1 /\ endpoints'[1] = endpoints[2]
      BY <1>1, <1>5
    <2> QED
      BY <1>1, <1>2, <2>1
  <1>7. service = "hub" => verb # "POST"
    BY <1>3 DEF RedirectsInv, Underway
  <1> QED
    BY <1>1, <1>4, <1>5, <1>6, <1>7, FirstKept

LEMMA BrokenKept ==
    ASSUME RedirectsInv, outcome # "idle", NEW error, error # "idle", Broken(error)
    PROVE  RedirectsInv'
  <1>1. NextEndpoint \/ End(error)
    BY DEF Broken
  <1>2. CASE NextEndpoint
    BY <1>2, NextKept
  <1>3. CASE End(error)
    BY <1>3, EndKept
  <1> QED
    BY <1>1, <1>2, <1>3

LEMMA RedirectsStep == RedirectsInv /\ [RedirectsNext]_rvars => RedirectsInv'
  <1> SUFFICES ASSUME RedirectsInv, [RedirectsNext]_rvars PROVE RedirectsInv'
    OBVIOUS
  <1>0. outcome # "idle" =>
          /\ trail # <<>> /\ Len(trail) \in Nat \ {0} /\ Latest \in Sent /\ trail[1] \in Sent
          /\ endpoints # <<>> /\ endpoints \in Seq(Sites) /\ trail[1].site = endpoints[1]
    BY DEF RedirectsInv, Underway, Latest
  <1>1. ASSUME NEW kind \in {"generic", "hub", "oci"}, NEW verb \in {"GET", "HEAD", "POST"},
               NEW list \in EndpointLists, Depart(kind, verb, list)
        PROVE  RedirectsInv'
    <2>1. list \in Seq(Sites) /\ list # <<>> /\ list[1] \in Sites
      <3>1. list \in Seq(Sites) /\ list # <<>>
        BY RedirectsAssumption
      <3> QED
        BY <3>1
    <2>2. PICK site \in Sites : site = list[1]
      BY <2>1
    <2>3. /\ FirstTo(site, verb, kind, {}) /\ service' = kind /\ endpoints' = list
          /\ outcome' = "waiting" /\ token' = {} /\ metadata' = {}
          /\ verb \in Verbs /\ (kind = "hub" => verb # "POST")
      BY <1>1, <2>2 DEF Depart, RedirectsInv, Underway, Verbs
    <2> QED
      BY <2>1, <2>2, <2>3, FirstKept
  <1>2. ASSUME NEW status \in {"ok", "error", "unavailable"}, Answered(status) PROVE RedirectsInv'
    <2>1. outcome # "idle" /\ (NextEndpoint \/ End("answered"))
      BY <1>2 DEF Answered
    <2>2. CASE NextEndpoint
      BY <2>1, <2>2, NextKept
    <2>3. CASE End("answered")
      BY <2>1, <2>3, EndKept
    <2> QED
      BY <2>1, <2>2, <2>3
  <1>3. CASE Cut
    <2>1. outcome # "idle" /\ Broken("failed")
      BY <1>3 DEF Cut
    <2> QED
      BY <2>1, BrokenKept
  <1>4. ASSUME NEW target \in Sites, NEW stays \in BOOLEAN, SendUpstreamRequest(target, stays)
        PROVE  RedirectsInv'
    <2>1. outcome = "waiting" /\ service # "hub"
      BY <1>4 DEF SendUpstreamRequest
    <2>2. CASE End("refused") \/ End("answered")
      BY <2>1, <2>2, EndKept
    <2>3. CASE ~(End("refused") \/ End("answered"))
      <3>1. PICK addresses \in target.lookups :
              /\ ~(\/ Len(trail) > RedirectLimit \/ Downgrade(target)
                   \/ ~ExplicitIpOrigin(target) /\ (outbound \/ ~PublicDestination(addresses)))
              /\ \E address \in addresses :
                  /\ trail' = Append(trail,
                        Step(target, address,
                             IF Latest.verb = "POST" THEN "GET" ELSE Latest.verb,
                             IF target = Latest.site THEN Latest.credentials ELSE {}))
                  /\ UNCHANGED <<outbound, login, service, endpoints, token, metadata, outcome>>
        BY <1>4, <2>3 DEF SendUpstreamRequest
      <3>2. PICK verb : verb = IF Latest.verb = "POST" THEN "GET" ELSE Latest.verb
        OBVIOUS
      <3>3. verb \in Verbs \ {"POST"}
        BY <1>0, <2>1, <3>2 DEF Sent, Verbs
      <3>4. PICK address \in addresses :
              trail' = Append(trail, Step(target, address, verb,
                             IF target = Latest.site THEN Latest.credentials ELSE {}))
        BY <3>1, <3>2
      <3>5. address \in UNION target.lookups
        BY <3>1, <3>4
      <3>6. \/ address \in Public /\ ~outbound
            \/ target = trail[1].site /\ target.ip /\ target = Latest.site
        BY <3>1, <3>4 DEF ExplicitIpOrigin, PublicDestination
      <3>7. Len(trail) <= RedirectLimit
        BY <1>0, <2>1, <3>1, LimitIsNat
      <3> QED
        BY <2>1, <3>1, <3>3, <3>4, <3>5, <3>6, <3>7, FollowedKept
    <2> QED
      BY <2>2, <2>3
  <1>5. ASSUME NEW realm \in Sites, SendWithPublicAuth(realm) PROVE RedirectsInv'
    <2>1. outcome = "waiting" /\ service = "oci"
      BY <1>5 DEF SendWithPublicAuth
    <2>2. CASE End("refused")
      BY <2>1, <2>2, EndKept
    <2>3. CASE ~End("refused")
      <3>a. PICK addresses \in realm.lookups :
            /\ ValidateBearerRealm(realm) /\ PublicDestination(addresses)
            /\ token' = {[realm |-> realm, asker |-> Latest.site, lookup |-> addresses]}
            /\ FirstTo(trail[1].site, trail[1].verb, "oci", {"token"})
            /\ UNCHANGED <<outbound, login, service, endpoints, metadata, outcome>>
        BY <1>5, <2>3 DEF SendWithPublicAuth
      <3>1. /\ FirstTo(trail[1].site, trail[1].verb, "oci", {"token"})
            /\ UNCHANGED <<outbound, login, service, endpoints, metadata, outcome>>
        BY <3>a
      <3>t. PICK t : t = [realm |-> realm, asker |-> Latest.site, lookup |-> addresses]
        OBVIOUS
      <3>b. t.realm = realm /\ t.asker = Latest.site /\ t.lookup = addresses /\ token' = {t}
        BY <3>a, <3>t
      <3>c. outbound => Latest.site = endpoints[1]
        <4>1. PICK n : n = Len(trail)
          OBVIOUS
        <4>2. n \in Nat \ {0} /\ n \in DOMAIN trail /\ trail[1].site = endpoints[1] /\ Latest = trail[n]
          BY <1>0, <2>1, <4>1 DEF Latest, RedirectsInv, Underway
        <4>3. StepKept(n)
          BY <4>2 DEF RedirectsInv, RedirectsKept
        <4>4. n > 1 /\ outbound => \A j \in 1..n : trail[j].site = endpoints[1]
          BY <4>3 DEF StepKept
        <4>5. n \in 1..n
          BY <4>2
        <4> QED
          BY <4>2, <4>4, <4>5
      <3>d. TokenKept(t)'
        BY <3>a, <3>b, <3>c DEF TokenKept, ValidateBearerRealm, PublicDestination
      <3>2. PICK site : site = trail[1].site
        OBVIOUS
      <3>3. PICK verb : verb = trail[1].verb
        OBVIOUS
      <3>4. site \in Sites /\ verb \in Verbs /\ site = endpoints[1]
        BY <1>0, <2>1, <3>2, <3>3 DEF Sent
      <3>5. FirstTo(site, verb, "oci", {"token"}) /\ {"token"} # {} /\ token' # {}
        BY <3>1, <3>2, <3>3, <3>b
      <3>6. metadata \in {{}, {site}}
        BY <3>4 DEF RedirectsInv, RedirectsKept
      <3> QED
        BY <1>0, <2>1, <3>1, <3>4, <3>5, <3>6, <3>b, <3>d, FirstKept
    <2> QED
      BY <2>2, <2>3
  <1>6. ASSUME NEW target \in Sites, NEW complete \in BOOLEAN, HubRedirect(target, complete)
        PROVE  RedirectsInv'
    <2>1. outcome = "waiting" /\ service = "hub"
      BY <1>6 DEF HubRedirect
    <2>2. PICK known : known = IF complete /\ Latest.site = trail[1].site
                               THEN metadata \cup {Latest.site} ELSE metadata
      OBVIOUS
    <2>3. known \in {metadata, {endpoints[1]}} /\ (known # {} => known = {endpoints[1]})
      BY <1>0, <2>1, <2>2 DEF RedirectsInv, RedirectsKept
    <2>4. PICK addresses \in target.lookups :
             IF \/ Len(trail) > RedirectLimit \/ ~AllowedRedirect(target)
                \/ ~(target = trail[1].site /\ target.ip)
                      /\ (outbound \/ ~PublicDestination(addresses))
             THEN Broken("refused")
             ELSE IF trail[1].verb = "HEAD" /\ target # trail[1].site /\ known # {}
             THEN /\ metadata' = known /\ outcome' = "answered"
                  /\ UNCHANGED <<outbound, login, service, endpoints, trail, token>>
             ELSE \E address \in addresses :
                     /\ trail' = Append(trail, Step(target, address, trail[1].verb, {}))
                     /\ metadata' = known
                     /\ UNCHANGED <<outbound, login, service, endpoints, token, outcome>>
      BY <1>6, <2>2 DEF HubRedirect
    <2>5. CASE Broken("refused")
      BY <2>1, <2>5, BrokenKept
    <2>6. CASE /\ metadata' = known /\ outcome' = "answered"
               /\ UNCHANGED <<outbound, login, service, endpoints, trail, token>>
      BY <2>1, <2>3, <2>6 DEF RedirectsInv, Underway, RedirectsKept, StepKept, TokenKept
    <2>7. ASSUME ~(\/ Len(trail) > RedirectLimit \/ ~AllowedRedirect(target)
                   \/ ~(target = trail[1].site /\ target.ip)
                         /\ (outbound \/ ~PublicDestination(addresses))),
                 NEW address \in addresses,
                 trail' = Append(trail, Step(target, address, trail[1].verb, {})),
                 metadata' = known,
                 UNCHANGED <<outbound, login, service, endpoints, token, outcome>>
          PROVE  RedirectsInv'
      <3>1. PICK verb : verb = trail[1].verb
        OBVIOUS
      <3>2. Latest.credentials = {}
        BY <1>0, <2>1 DEF RedirectsInv, RedirectsKept, Latest
      <3>3. trail' = Append(trail, Step(target, address, verb,
                        IF target = Latest.site THEN Latest.credentials ELSE {}))
        BY <2>7, <3>1, <3>2
      <3>4. address \in UNION target.lookups
        BY <2>4
      <3>5. Len(trail) <= RedirectLimit
        BY <1>0, <2>1, <2>7, LimitIsNat
      <3>6. verb \in Verbs
        BY <1>0, <2>1, <3>1 DEF Sent
      <3>7. verb # "POST"
        BY <2>1, <3>1 DEF RedirectsInv, Underway
      <3>8. ~Downgrade(target) /\ target \in DownloadHosts \cup {trail[1].site}
        BY <2>7 DEF AllowedRedirect
      <3>9. \/ address \in Public /\ ~outbound
            \/ target = trail[1].site /\ target.ip
        BY <2>7 DEF PublicDestination
      <3>10. metadata' \in {metadata, {endpoints[1]}}
        BY <2>3, <2>7
      <3>11. UNCHANGED <<outbound, service, endpoints, token>> /\ outcome' = outcome /\ outcome # "idle"
        BY <2>1, <2>7
      <3>12. PICK v \in Verbs \ {"POST"} : v = verb
        BY <3>6, <3>7
      <3>13. PICK to \in UNION target.lookups : to = address
        BY <3>4
      <3>14. trail' = Append(trail, Step(target, to, v,
                        IF target = Latest.site THEN Latest.credentials ELSE {}))
        BY <3>3, <3>12, <3>13
      <3> QED
        BY <2>1, <3>5, <3>8, <3>9, <3>10, <3>11, <3>13, <3>14, FollowedKept
    <2> QED
      BY <2>4, <2>5, <2>6, <2>7
  <1>7. CASE UNCHANGED rvars
    BY <1>7 DEF rvars, RedirectsInv, Underway, RedirectsKept, StepKept, TokenKept
  <1> QED
    BY <1>1, <1>2, <1>3, <1>4, <1>5, <1>6, <1>7 DEF RedirectsNext

\* However upstreams answer and names resolve, a proxied request carries its
\* credentials, its scheme, its body and the exception for a configured
\* private address only as far as the operator configured
\* (send_upstream_request, huggingface::forward, send_with_public_auth).
THEOREM RedirectsAreKept == RedirectsSpec => []RedirectsKept
  <1>1. RedirectsInit => RedirectsInv
    BY LimitIsNat DEF RedirectsInit, RedirectsInv, Underway, RedirectsKept, StepKept, TokenKept
  <1>2. RedirectsInv => RedirectsKept
    BY DEF RedirectsInv
  <1> QED
    BY <1>1, <1>2, RedirectsStep, PTL DEF RedirectsSpec

-----------------------------------------------------------------------------
(* Upstream selection.  What a failover loop works through is a            *)
(* permutation of the candidates it started with.                          *)

LoopOK(q) ==
    q.phase \in {"trying", "failed"} =>
        /\ q.config \in Config
        /\ Len(q.config.candidates) > 0
        /\ Len(q.order) = Len(q.config.candidates)
        /\ ToSet(q.order) = ToSet(q.config.candidates)
        /\ q.index \in 1..Len(q.order)
        /\ q.phase = "failed" => q.index = Len(q.order)

SelectorInv ==
    /\ health \in [Endpoints -> {None} \cup Health]
    /\ cfg \in Configs /\ next \in {None} \cup Configs
    /\ req \in [Requests -> Request]
    /\ \A r \in Requests : LoopOK(req[r])

\* The places of a list that is ordered by rank and then by position.
LEMMA PlacesAreOrdered ==
    ASSUME NEW n \in Nat, NEW rank \in [1..n -> Int]
    PROVE  LET Less(i, j) == rank[i] < rank[j] \/ (rank[i] = rank[j] /\ i < j)
               At(i) == Cardinality({j \in 1..n : Less(j, i)}) + 1
           IN  /\ \A p \in 1..n : \E i \in 1..n : At(i) = p
               /\ \A i, j \in 1..n : At(i) < At(j) => Less(i, j)
  <1> DEFINE Less(i, j) == rank[i] < rank[j] \/ (rank[i] = rank[j] /\ i < j)
             Lower(i) == {j \in 1..n : Less(j, i)}
             At(i) == Cardinality(Lower(i)) + 1
             f == [i \in 1..n |-> At(i)]
  <1>1. IsFiniteSet(1..n) /\ Cardinality(1..n) = n
    BY FS_Interval
  <1>2. ASSUME NEW i \in 1..n
        PROVE  IsFiniteSet(Lower(i)) /\ Cardinality(Lower(i)) \in 0..(n - 1)
    <2>1. i \notin Lower(i) /\ Lower(i) \subseteq (1..n) \ {i}
      OBVIOUS
    <2>2. IsFiniteSet((1..n) \ {i}) /\ Cardinality((1..n) \ {i}) = n - 1
      BY <1>1, FS_RemoveElement
    <2>3. IsFiniteSet(Lower(i)) /\ Cardinality(Lower(i)) <= n - 1
      BY <2>1, <2>2, FS_Subset
    <2> QED
      BY <2>3, FS_CardinalityType
  <1>3. ASSUME NEW i \in 1..n, NEW j \in 1..n, Less(i, j)
        PROVE  At(i) < At(j)
    <2>1. Lower(i) \subseteq Lower(j) /\ i \in Lower(j) /\ i \notin Lower(i)
      BY <1>3
    <2> HIDE DEF Lower
    <2>2. Cardinality(Lower(i)) <= Cardinality(Lower(j)) /\ Cardinality(Lower(i)) # Cardinality(Lower(j))
      BY <1>2, <2>1, FS_Subset
    <2> QED
      BY <1>2, <2>2
  <1>4. \A i, j \in 1..n : i # j => Less(i, j) \/ Less(j, i)
    OBVIOUS
  <1> HIDE DEF Less, Lower
  <1>5. ASSUME NEW i \in 1..n PROVE At(i) \in 1..n
    BY <1>2
  <1> HIDE DEF At
  <1>6. ASSUME NEW i \in 1..n, NEW j \in 1..n
        PROVE  /\ At(i) < At(j) => Less(i, j)
               /\ i # j => At(i) # At(j)
    <2>1. At(i) \in Int /\ At(j) \in Int
      BY <1>5
    <2>2. CASE Less(i, j)
      <3>1. At(i) < At(j)
        BY <2>2, <1>3
      <3> QED
        BY <2>1, <2>2, <3>1
    <2>3. CASE Less(j, i)
      <3>1. At(j) < At(i)
        BY <2>3, <1>3
      <3> QED
        BY <2>1, <2>3, <3>1
    <2>4. CASE i = j
      BY <2>1, <2>4
    <2> QED
      BY <1>4, <2>2, <2>3, <2>4
  <1>7. f \in Injection(1..n, 1..n)
    BY <1>5, <1>6 DEF Injection, IsInjective
  <1>8. f \in Surjection(1..n, 1..n)
    BY <1>1, <1>7, FS_Injection
  <1>9. \A p \in 1..n : \E i \in 1..n : At(i) = p
    BY <1>8 DEF Surjection
  <1> QED
    BY <1>6, <1>9 DEF Less, Lower, At

LEMMA PenaltyIsNat == CircuitPenalty \in Nat
  BY SMT DEF CircuitPenalty

LEMMA RankIsNat ==
    ASSUME SelectorInv, NEW e \in Endpoints, NEW i \in Nat
    PROVE  Rank(e, i) \in Nat
  <1>1. CASE health[e] = None
    BY <1>1 DEF Rank
  <1>2. CASE health[e] # None
    <2>1. health[e] \in Health
      BY <1>2 DEF SelectorInv
    <2>2. /\ health[e].failures \in Nat
          /\ health[e].latency # None => health[e].latency \in Nat
      <3>1. MaxFailures \in Nat /\ Latencies \subseteq Nat
        BY Zenon, SelectorAssumption
      <3>2. health[e].failures \in 0..MaxFailures /\ health[e].latency \in {None} \cup Latencies
        BY <2>1 DEF Health
      <3>3. health[e].failures \in Nat
        BY <3>1, <3>2
      <3>4. health[e].latency # None => health[e].latency \in Nat
        BY Zenon, <3>1, <3>2
      <3> QED
        BY <3>3, <3>4
    <2>3. health[e].failures * 10000 \in Nat
      BY <2>2
    <2> QED
      BY <1>2, <2>2, <2>3, PenaltyIsNat DEF Rank
  <1> QED
    BY <1>1, <1>2

\* Each place is taken, in the order of the ranks.
LEMMA RankedPlaces ==
    ASSUME SelectorInv, NEW c \in Seq(Endpoints)
    PROVE  /\ \A p \in DOMAIN c : \E i \in DOMAIN c : Place(c, i) = p
           /\ \A i, j \in DOMAIN c : Place(c, i) < Place(c, j) => Precedes(c, i, j)
  <1> DEFINE n == Len(c)
             rank == [i \in 1..n |-> Rank(c[i], i - 1)]
  <1>1. n \in Nat /\ DOMAIN c = 1..n /\ \A i \in 1..n : c[i] \in Endpoints /\ i - 1 \in Nat
    OBVIOUS
  <1>2. rank \in [1..n -> Int]
    BY <1>1, RankIsNat
  <1> DEFINE Less(i, j) == rank[i] < rank[j] \/ (rank[i] = rank[j] /\ i < j)
             At(i) == Cardinality({j \in 1..n : Less(j, i)}) + 1
  <1>3. /\ \A p \in 1..n : \E i \in 1..n : At(i) = p
        /\ \A i, j \in 1..n : At(i) < At(j) => Less(i, j)
    <2> HIDE DEF rank, n
    <2> QED
      BY <1>1, <1>2, PlacesAreOrdered
  <1>4. \A i, j \in 1..n : Less(i, j) <=> Precedes(c, i, j)
    BY DEF Precedes
  <1>5. \A i \in 1..n : At(i) = Place(c, i)
    <2> SUFFICES ASSUME NEW i \in 1..n PROVE At(i) = Place(c, i)
      OBVIOUS
    <2>1. {j \in 1..n : Less(j, i)} = {j \in DOMAIN c : Precedes(c, j, i)}
      BY <1>1, <1>4
    <2> QED
      BY <2>1 DEF Place
  <1> HIDE DEF At, Less, n
  <1>6. ASSUME NEW p \in 1..n PROVE \E i \in 1..n : Place(c, i) = p
    <2>1. PICK i \in 1..n : At(i) = p
      BY <1>3
    <2> QED
      BY <2>1, <1>5
  <1>7. ASSUME NEW i \in 1..n, NEW j \in 1..n, Place(c, i) < Place(c, j) PROVE Precedes(c, i, j)
    <2>1. At(i) < At(j)
      BY <1>7, <1>5
    <2> QED
      BY <2>1, <1>3, <1>4
  <1> QED
    BY <1>1, <1>6, <1>7

LEMMA IsASeq ==
    ASSUME NEW S, NEW n \in Nat, NEW s \in [1..n -> S]
    PROVE  s \in Seq(S) /\ Len(s) = n
  OBVIOUS

\* ranked_candidates returns the candidates, each as often as it is listed.
LEMMA RankedIsPermutation ==
    ASSUME SelectorInv, NEW conf \in Config
    PROVE  /\ Ranked(conf) \in Seq(Endpoints)
           /\ Len(Ranked(conf)) = Len(conf.candidates)
           /\ ToSet(Ranked(conf)) = ToSet(conf.candidates)
  <1> DEFINE c == conf.candidates
  <1>1. c \in Seq(Endpoints)
    BY DEF Config
  <1>2. CASE conf.strategy # "adaptive"
    BY <1>1, <1>2 DEF Ranked
  <1>3. CASE conf.strategy = "adaptive"
    <2> DEFINE n == Len(c)
               pick == [p \in 1..n |-> CHOOSE i \in DOMAIN c : Place(c, i) = p]
    <2>0. n \in Nat /\ DOMAIN c = 1..n /\ \A i \in 1..n : c[i] \in Endpoints
      BY <1>1
    <2>1. \A p \in 1..n : pick[p] \in 1..n /\ Place(c, pick[p]) = p
      BY <1>1, <2>0, RankedPlaces
    <2>2. Ranked(conf) = [p \in 1..n |-> c[pick[p]]]
      BY <1>3, <2>0 DEF Ranked
    <2>3. pick \in Injection(1..n, 1..n)
      BY <2>1 DEF Injection, IsInjective
    <2>4. pick \in Surjection(1..n, 1..n)
      BY <2>0, <2>3, FS_Interval, FS_Injection
    <2>5. \A i \in 1..n : \E p \in 1..n : pick[p] = i
      BY <2>4 DEF Surjection
    <2> HIDE DEF pick, n
    <2>6. PICK order : order = [p \in 1..n |-> c[pick[p]]]
      OBVIOUS
    <2>7. order \in Seq(Endpoints) /\ Len(order) = n /\ \A p \in 1..n : order[p] = c[pick[p]]
      <3>1. order \in [1..n -> Endpoints] /\ \A p \in 1..n : order[p] = c[pick[p]]
        BY <2>0, <2>1, <2>6
      <3>2. order \in Seq(Endpoints) /\ Len(order) = n
        BY <2>0, <3>1, IsASeq
      <3> QED
        BY <3>1, <3>2
    <2>8. ToSet(order) = ToSet(c)
      <3>1. DOMAIN order = 1..n
        BY <2>7
      <3>2. ToSet(order) = {order[p] : p \in 1..n} /\ ToSet(c) = {c[i] : i \in 1..n}
        BY <2>0, <3>1 DEF ToSet
      <3>3. ASSUME NEW p \in 1..n PROVE order[p] \in {c[i] : i \in 1..n}
        BY <2>1, <2>7
      <3>4. ASSUME NEW i \in 1..n PROVE c[i] \in {order[p] : p \in 1..n}
        <4>1. PICK p \in 1..n : pick[p] = i
          BY <2>5
        <4>2. order[p] = c[i]
          BY <2>7, <4>1
        <4> QED
          BY <4>2
      <3> QED
        BY <3>2, <3>3, <3>4
    <2> QED
      BY <2>2, <2>6, <2>7, <2>8 DEF n
  <1> QED
    BY <1>2, <1>3

\* One failover loop changes, and the rest keeps its types.
LEMMA LoopChanges ==
    ASSUME SelectorInv, NEW r \in Requests, NEW q \in Request, LoopOK(q),
           req' = [req EXCEPT ![r] = q],
           health' \in [Endpoints -> {None} \cup Health], UNCHANGED <<cfg, next>>
    PROVE  SelectorInv'
  <1>1. req' \in [Requests -> Request]
    BY DEF SelectorInv
  <1>2. \A s \in Requests : LoopOK(req'[s])
    BY DEF SelectorInv
  <1> QED
    BY <1>1, <1>2 DEF SelectorInv

LEMMA IdleOK == /\ Idle \in Request /\ Idle.phase = "idle" /\ LoopOK(Idle)
                /\ Reading \in Request /\ Reading.phase = "answered" /\ LoopOK(Reading)
                /\ CutShort \in Request /\ CutShort.phase = "broken" /\ LoopOK(CutShort)
  BY DEF Idle, Reading, CutShort, Request, LoopOK

LEMMA KnownIsHealth ==
    ASSUME SelectorInv, NEW e \in Endpoints
    PROVE  Known(e) \in Health
  <1>1. MaxFailures \in Nat
    BY Zenon, SelectorAssumption
  <1> QED
    BY <1>1 DEF Known, Health, SelectorInv

LEMMA RecordKeepsHealth ==
    ASSUME SelectorInv, NEW e \in Endpoints, NEW h \in Health, Record(e, h)
    PROVE  health' \in [Endpoints -> {None} \cup Health]
  BY DEF Record, SelectorInv

LEMMA SelectorStep == SelectorInv /\ [Next]_vars => SelectorInv'
  <1> SUFFICES ASSUME SelectorInv, [Next]_vars PROVE SelectorInv'
    OBVIOUS
  <1>0. health \in [Endpoints -> {None} \cup Health] /\ cfg \in Config /\ Len(cfg.candidates) > 0
    BY SelectorAssumption DEF SelectorInv
  <1>a. ASSUME NEW r \in Requests, req[r].phase \in {"trying", "failed"}
        PROVE  /\ req[r] \in [phase : {"trying", "failed"}, config : Config,
                              order : Seq(Endpoints), index : Nat]
               /\ LoopOK(req[r])
    BY <1>a, IdleOK DEF SelectorInv, Request
  <1>b. ASSUME NEW r \in Requests, req[r].phase = "trying"
        PROVE  req[r].order[req[r].index] \in Endpoints
    BY <1>a, <1>b DEF LoopOK
  <1>1. ASSUME NEW r \in Requests, Begin(r) PROVE SelectorInv'
    <2>1. PICK order : order = Ranked(cfg)
      OBVIOUS
    <2>2. /\ order \in Seq(Endpoints) /\ Len(order) = Len(cfg.candidates)
          /\ ToSet(order) = ToSet(cfg.candidates)
      BY <1>0, <2>1, RankedIsPermutation
    <2>3. PICK q : q = Loop(cfg, order)
      OBVIOUS
    <2>4. q \in Request /\ LoopOK(q)
      BY <1>0, <2>2, <2>3 DEF Loop, Request, LoopOK
    <2>5. req' = [req EXCEPT ![r] = q] /\ UNCHANGED <<health, cfg, next>>
      BY <1>1, <2>1, <2>3 DEF Begin
    <2> QED
      BY <1>0, <2>4, <2>5, LoopChanges
  <1>2. ASSUME NEW r \in Requests, NEW e \in Endpoints, BeginWithBody(r, e) PROVE SelectorInv'
    <2>0. PICK one : one = <<e>>
      OBVIOUS
    <2>a. one \in Seq(Endpoints) /\ Len(one) = 1
      BY <2>0
    <2>1. PICK conf : conf = [cfg EXCEPT !.candidates = one]
      OBVIOUS
    <2>2. conf \in Config /\ conf.candidates = one
      BY <1>0, <2>1, <2>a DEF Config
    <2>3. PICK q : q = Loop(conf, one)
      OBVIOUS
    <2>4. q \in Request /\ LoopOK(q)
      <3>1. /\ q.phase = "trying" /\ q.config = conf /\ q.order = one /\ q.index = 1
            /\ q \in Request
        BY <2>2, <2>3, <2>a DEF Loop, Request
      <3>2. 1 \in 1..Len(one) /\ Len(one) > 0
        BY <2>a
      <3> QED
        BY <2>2, <3>1, <3>2, Zenon DEF LoopOK
    <2>5. req' = [req EXCEPT ![r] = q] /\ UNCHANGED <<health, cfg, next>>
      BY <1>2, <2>0, <2>1, <2>3 DEF BeginWithBody
    <2> QED
      BY <1>0, <2>4, <2>5, LoopChanges
  <1>3. ASSUME NEW r \in Requests, \/ CacheHit(r) \/ Deliver(r) \/ BodyBreaks(r) \/ RefreshLost(r)
                                   \/ Leave(r) \/ Disconnect(r)
        PROVE  SelectorInv'
    <2>1. /\ req' = [req EXCEPT ![r] = Idle] \/ req' = [req EXCEPT ![r] = CutShort]
          /\ UNCHANGED <<health, cfg, next>>
      BY <1>3 DEF CacheHit, Deliver, BodyBreaks, RefreshLost, Leave, Disconnect
    <2> QED
      BY <1>0, <2>1, IdleOK, LoopChanges
  <1>4. ASSUME NEW r \in Requests, NEW l \in Latencies, Answer(r, l) \/ Revalidate(r, l) PROVE SelectorInv'
    <2>1. PICK e : e = req[r].order[req[r].index]
      OBVIOUS
    <2>2. e \in Endpoints
      BY <1>4, <1>b, <2>1 DEF Answer, Revalidate
    <2>3. PICK m \in Smoothed(Known(e).latency, l) :
             Record(e, [failures |-> 0, open |-> FALSE, latency |-> m])
      BY <1>4, <2>1 DEF Answer, Revalidate, RecordSuccess
    <2>4. m \in Latencies
      BY <2>3 DEF Smoothed
    <2>5. PICK h : h = [failures |-> 0, open |-> FALSE, latency |-> m]
      OBVIOUS
    <2>6. h \in Health
      <3>1. MaxFailures \in Nat
        BY Zenon, SelectorAssumption
      <3> QED
        BY <2>4, <2>5, <3>1 DEF Health
    <2>7. health' \in [Endpoints -> {None} \cup Health]
      BY <2>2, <2>3, <2>5, <2>6, RecordKeepsHealth
    <2>8. /\ req' = [req EXCEPT ![r] = Idle] \/ req' = [req EXCEPT ![r] = Reading]
          /\ UNCHANGED <<cfg, next>>
      BY <1>4 DEF Answer, Revalidate
    <2> QED
      BY <2>7, <2>8, IdleOK, LoopChanges
  <1>5. ASSUME NEW r \in Requests, Fail(r) PROVE SelectorInv'
    <2>1. PICK e : e = req[r].order[req[r].index]
      OBVIOUS
    <2>2. e \in Endpoints /\ req[r].phase = "trying"
      BY <1>5, <1>b, <2>1 DEF Fail
    <2>3. PICK conf : conf = req[r].config
      OBVIOUS
    <2>4. RecordFailure(e, conf) /\ UNCHANGED <<cfg, next>>
      BY <1>5, <2>1, <2>3 DEF Fail
    <2>5. health' \in [Endpoints -> {None} \cup Health]
      <3>1. PICK h : h = [Known(e) EXCEPT !.failures = Known(e).failures + 1,
                             !.open = Known(e).open \/ Known(e).failures + 1 >= conf.threshold]
        OBVIOUS
      <3>2. Record(e, h) /\ Known(e).failures + 1 <= MaxFailures
        BY <2>4, <3>1 DEF RecordFailure
      <3>3. h \in Health
        <4>1. /\ Known(e).failures \in 0..MaxFailures /\ Known(e).open \in BOOLEAN
              /\ Known(e) \in Health /\ MaxFailures \in Nat
          BY <2>2, KnownIsHealth, SelectorAssumption DEF Health
        <4>2. Known(e).failures + 1 \in 0..MaxFailures
          BY <3>2, <4>1
        <4> QED
          BY <3>1, <4>1, <4>2 DEF Health
      <3> QED
        BY <2>2, <3>2, <3>3, RecordKeepsHealth
    <2>6. PICK q : q = IF req[r].index < Len(req[r].order)
                       THEN [req[r] EXCEPT !.index = req[r].index + 1]
                       ELSE [req[r] EXCEPT !.phase = "failed"]
      OBVIOUS
    <2>7. q \in Request /\ LoopOK(q)
      BY <1>a, <2>2, <2>6 DEF Request, LoopOK
    <2>8. req' = [req EXCEPT ![r] = q]
      BY <1>5, <2>6 DEF Fail
    <2> QED
      BY <2>4, <2>5, <2>7, <2>8, LoopChanges
  <1>6. ASSUME NEW e \in Endpoints, Elapse(e) PROVE SelectorInv'
    <2>1. health[e] \in Health
      BY <1>0, <1>6 DEF Elapse
    <2>2. [health[e] EXCEPT !.open = FALSE] \in Health
      BY <2>1 DEF Health
    <2>3. health' \in [Endpoints -> {None} \cup Health]
      BY <1>0, <1>6, <2>2 DEF Elapse
    <2> QED
      BY <1>6, <2>3 DEF Elapse, SelectorInv
  <1>7. ASSUME NEW c \in Configs, Configure(c) PROVE SelectorInv'
    BY <1>7 DEF Configure, SelectorInv
  <1>8. CASE WriteConfig
    BY <1>8 DEF WriteConfig, SelectorInv
  <1>9. CASE UNCHANGED vars
    BY <1>9 DEF vars, SelectorInv
  <1> QED
    BY <1>1, <1>2, <1>3, <1>4, <1>5, <1>6, <1>7, <1>8, <1>9 DEF Next

LEMMA SelectorStart == Init => SelectorInv
  BY IdleOK DEF Init, SelectorInv

\* However other requests and updates of the configuration reorder endpoints
\* meanwhile, a client is given a failure only after each candidate of the
\* configuration its request started with was tried (forward_request,
\* get_with_fallback, ranked_candidates), or after one was accepted.
THEOREM FailureAfterAll == Spec => []FailureIsTotal
  <1>1. SelectorInv => FailureIsTotal
    <2> SUFFICES ASSUME SelectorInv, NEW r \in Requests, req[r].phase = "failed"
                 PROVE  LET tried == SubSeq(req[r].order, 1, req[r].index)
                        IN  /\ ToSet(tried) = ToSet(req[r].config.candidates)
                            /\ Len(tried) = Len(req[r].config.candidates)
      BY DEF FailureIsTotal
    <2>1. PICK order : order = req[r].order
      OBVIOUS
    <2>2. /\ order \in Seq(Endpoints) /\ Len(order) > 0 /\ req[r].index = Len(order)
          /\ ToSet(order) = ToSet(req[r].config.candidates)
          /\ Len(order) = Len(req[r].config.candidates)
      BY <2>1, IdleOK DEF SelectorInv, Request, LoopOK
    <2>3. SubSeq(order, 1, Len(order)) = order
      BY <2>2
    <2> QED
      BY <2>1, <2>2, <2>3
  <1> QED
    BY <1>1, SelectorStart, SelectorStep, PTL DEF Spec

\* What is tried earlier precedes what is tried later.
LEMMA RankedInOrder ==
    ASSUME SelectorInv, NEW conf \in Config, conf.strategy = "adaptive",
           NEW i \in DOMAIN Ranked(conf), NEW j \in DOMAIN Ranked(conf), i < j
    PROVE  \E x, y \in DOMAIN conf.candidates :
              /\ Ranked(conf)[i] = conf.candidates[x]
              /\ Ranked(conf)[j] = conf.candidates[y]
              /\ Precedes(conf.candidates, x, y)
  <1>1. PICK c : c = conf.candidates
    OBVIOUS
  <1>2. c \in Seq(Endpoints)
    BY <1>1 DEF Config
  <1>3. Ranked(conf) = [p \in DOMAIN c |-> c[CHOOSE x \in DOMAIN c : Place(c, x) = p]]
    BY <1>1 DEF Ranked
  <1>4. i \in DOMAIN c /\ j \in DOMAIN c
    BY <1>3
  <1>5. PICK x : x = CHOOSE d \in DOMAIN c : Place(c, d) = i
    OBVIOUS
  <1>6. PICK y : y = CHOOSE d \in DOMAIN c : Place(c, d) = j
    OBVIOUS
  <1>7. x \in DOMAIN c /\ Place(c, x) = i /\ y \in DOMAIN c /\ Place(c, y) = j
    BY <1>2, <1>4, <1>5, <1>6, RankedPlaces
  <1>8. Precedes(c, x, y)
    BY <1>2, <1>7, RankedPlaces
  <1>9. Ranked(conf)[i] = c[x] /\ Ranked(conf)[j] = c[y]
    BY <1>3, <1>4, <1>5, <1>6
  <1> QED
    BY <1>1, <1>7, <1>8, <1>9

LEMMA CooldownIsLast ==
    ASSUME SelectorInv, NEW e \in Endpoints, NEW n \in Nat, NEW i \in Nat, i < n
    PROVE  /\ Known(e).open => Rank(e, i) >= CircuitPenalty
           /\ Healthy(e) /\ BelowPenalty(e, n) => Rank(e, i) < CircuitPenalty
  <1>1. CASE health[e] = None
    <2>1. Known(e).open = FALSE /\ Known(e).latency = None /\ Rank(e, i) = i
      BY <1>1 DEF Known, Rank
    <2>2. BelowPenalty(e, n) => n <= CircuitPenalty
      BY <2>1 DEF BelowPenalty
    <2> QED
      BY <2>1, <2>2, PenaltyIsNat
  <1>2. CASE health[e] # None
    <2>1. health[e] \in Health /\ Known(e) = health[e] /\ MaxFailures \in Nat
      <3>1. MaxFailures \in Nat
        BY Zenon, SelectorAssumption
      <3> QED
        BY <1>2, <3>1 DEF SelectorInv, Known
    <2>2. PICK f : f = health[e].failures
      OBVIOUS
    <2>3. f \in Nat /\ health[e].open \in BOOLEAN /\ health[e].latency \in {None} \cup Latencies
      BY <2>1, <2>2 DEF Health
    <2>4. PICK l : l = IF health[e].latency = None THEN i ELSE health[e].latency
      OBVIOUS
    <2>5. l \in Nat /\ (BelowPenalty(e, n) => l < CircuitPenalty)
      <3>1. Latencies \subseteq Nat
        BY Zenon, SelectorAssumption
      <3>2. l \in Nat
        BY <2>3, <2>4, <3>1
      <3>3. CASE health[e].latency = None
        <4>1. l = i /\ (BelowPenalty(e, n) => n <= CircuitPenalty)
          BY <2>1, <2>4, <3>3 DEF BelowPenalty
        <4> QED
          BY <3>2, <4>1, PenaltyIsNat
      <3>4. CASE health[e].latency # None
        <4>1. l = health[e].latency /\ (BelowPenalty(e, n) => health[e].latency < CircuitPenalty)
          BY <2>1, <2>4, <3>4 DEF BelowPenalty
        <4> QED
          BY <3>2, <4>1
      <3> QED
        BY <3>2, <3>3, <3>4
    <2>6. f * 10000 \in Nat /\ (f = 0 => f * 10000 = 0)
      BY <2>3
    <2>7. Rank(e, i) = (IF health[e].open THEN CircuitPenalty ELSE 0) + f * 10000 + l
      BY <1>2, <2>2, <2>4 DEF Rank
    <2>8. health[e].open => Rank(e, i) >= CircuitPenalty
      BY <2>5, <2>6, <2>7, PenaltyIsNat
    <2>9. f = 0 /\ ~health[e].open /\ BelowPenalty(e, n) => Rank(e, i) < CircuitPenalty
      BY <2>5, <2>6, <2>7, PenaltyIsNat
    <2> QED
      BY <2>1, <2>2, <2>8, <2>9 DEF Healthy
  <1> QED
    BY <1>1, <1>2

\* A request never tries an endpoint in cooldown before one without failures
\* whose average latency is below the penalty of a cooldown (endpoint_rank,
\* ranked_candidates), whatever is recorded meanwhile.
THEOREM HealthyBeforeCooldown == Spec => HealthyFirst
  <1> DEFINE First ==
        \A r \in Requests :
           (req[r] = Idle /\ req'[r] # Idle /\ req'[r].config.strategy = "adaptive") =>
              LET order == req'[r].order
              IN  \A i, j \in DOMAIN order :
                    i < j /\ Known(order[i]).open /\ BelowPenalty(order[j], Len(order))
                      => ~Healthy(order[j])
  <1>1. SelectorInv /\ [Next]_vars => [First]_vars
    <2> SUFFICES ASSUME SelectorInv, Next, NEW r \in Requests,
                        req[r] = Idle, req'[r] # Idle, req'[r].config.strategy = "adaptive",
                        NEW i \in DOMAIN req'[r].order, NEW j \in DOMAIN req'[r].order,
                        i < j, Known(req'[r].order[i]).open, Healthy(req'[r].order[j]),
                        BelowPenalty(req'[r].order[j], Len(req'[r].order))
                 PROVE  FALSE
      OBVIOUS
    <2>1. Begin(r) \/ \E e \in Endpoints : BeginWithBody(r, e)
      <3>1. req \in [Requests -> Request] /\ Idle.phase = "idle"
        BY IdleOK DEF SelectorInv
      <3> QED
        BY <3>1 DEF Next, Begin, BeginWithBody, CacheHit, Answer, Deliver,
                    BodyBreaks, Revalidate, RefreshLost, Fail, Leave, Disconnect,
                    Elapse, Configure, WriteConfig
    <2>2. ASSUME NEW e \in Endpoints, BeginWithBody(r, e) PROVE FALSE
      <3>1. req'[r].order = <<e>>
        BY <2>2 DEF BeginWithBody, Loop, SelectorInv
      <3>2. i = 1 /\ j = 1
        BY <3>1
      <3> QED
        BY <3>2
    <2>3. CASE Begin(r)
      <3>1. req'[r].order = Ranked(cfg) /\ req'[r].config = cfg
        BY <2>3 DEF Begin, Loop, SelectorInv
      <3>2. cfg \in Config /\ cfg.candidates \in Seq(Endpoints)
        BY SelectorAssumption DEF SelectorInv, Config
      <3>n. PICK n \in Nat : n = Len(cfg.candidates) /\ n = Len(req'[r].order)
        BY <3>1, <3>2, RankedIsPermutation
      <3>3. PICK x \in DOMAIN cfg.candidates, y \in DOMAIN cfg.candidates :
               /\ Ranked(cfg)[i] = cfg.candidates[x]
               /\ Ranked(cfg)[j] = cfg.candidates[y]
               /\ Precedes(cfg.candidates, x, y)
        BY <3>1, <3>2, RankedInOrder
      <3>4. PICK e : e = cfg.candidates[x]
        OBVIOUS
      <3>5. PICK f : f = cfg.candidates[y]
        OBVIOUS
      <3>6. e \in Endpoints /\ f \in Endpoints /\ x - 1 \in Nat /\ y - 1 \in Nat
           /\ x - 1 < n /\ y - 1 < n
        <4>c. PICK c \in Seq(Endpoints) : c = cfg.candidates
          BY <3>2
        <4>1. DOMAIN c = 1..n /\ x \in DOMAIN c /\ y \in DOMAIN c /\ e = c[x] /\ f = c[y]
          <5>1. n = Len(c) /\ e = c[x] /\ f = c[y] /\ x \in DOMAIN c /\ y \in DOMAIN c
            BY <3>n, <3>3, <3>4, <3>5, <4>c, Zenon
          <5> QED
            BY <5>1
        <4> QED
          BY <4>1
      <3>7. Known(e).open /\ Healthy(f) /\ BelowPenalty(f, n)
        BY <3>1, <3>n, <3>3, <3>4, <3>5
      <3>8. Rank(e, x - 1) >= CircuitPenalty /\ Rank(f, y - 1) < CircuitPenalty
        <4>1. PICK a \in Nat : a = x - 1
          BY <3>6
        <4>2. PICK b \in Nat : b = y - 1
          BY <3>6
        <4>3. a < n /\ b < n
          BY <3>6, <4>1, <4>2
        <4>4. Rank(e, a) >= CircuitPenalty /\ Rank(f, b) < CircuitPenalty
          BY <3>6, <3>7, <4>3, CooldownIsLast
        <4> QED
          BY <4>1, <4>2, <4>4
      <3>9. Rank(e, x - 1) <= Rank(f, y - 1) /\ Rank(e, x - 1) \in Nat /\ Rank(f, y - 1) \in Nat
        <4>1. Rank(e, x - 1) < Rank(f, y - 1) \/ Rank(e, x - 1) = Rank(f, y - 1)
          BY <3>3, <3>4, <3>5, Zenon DEF Precedes
        <4>2. Rank(e, x - 1) \in Nat /\ Rank(f, y - 1) \in Nat
          BY <3>6, RankIsNat
        <4> QED
          BY <4>1, <4>2
      <3> QED
        BY <3>8, <3>9, PenaltyIsNat
    <2> QED
      BY <2>1, <2>2, <2>3
  <1> QED
    BY <1>1, SelectorStart, SelectorStep, PTL DEF Spec, HealthyFirst

-----------------------------------------------------------------------------
(* The gate.  First, what the limiters' windows hold. *)

\* A set of numbers that is not empty has a least one.
LEMMA LeastNumber ==
    ASSUME NEW S \in SUBSET Nat, S # {}
    PROVE  \E n \in S : \A m \in S : n <= m
  <1>1. PICK R : R = OpToRel(<, Nat)
    OBVIOUS
  <1>2. IsWellFoundedOn(R, Nat)
    BY <1>1, NatLessThanWellFounded
  <1>3. PICK n \in S : \A m \in S : ~(<<m, n>> \in R)
    BY <1>2, WFMin
  <1>4. \A m \in S : ~(m < n)
    BY <1>1, <1>3 DEF OpToRel
  <1> QED
    BY <1>4

LEMMA OverByFacts ==
    ASSUME NEW w \in Seq(Nat), NEW at \in Nat, NEW span \in Nat
    PROVE  /\ OverBy(w, at, span) \in 0..Len(w)
           /\ \A i \in 1..OverBy(w, at, span) : w[i] + span <= at
  <1> DEFINE T == {n \in 0..Len(w) : n < Len(w) => w[n + 1] + span > at}
  <1>1. Len(w) \in Nat /\ \A i \in 1..Len(w) : w[i] \in Nat
    OBVIOUS
  <1>2. Len(w) \in T /\ T \in SUBSET Nat
    BY <1>1
  <1>3. PICK n \in T : \A m \in T : n <= m
    BY <1>2, LeastNumber
  <1>4. ASSUME NEW i \in 1..n PROVE w[i] + span <= at
    <2>0. i - 1 \in 0..Len(w) /\ ~(n <= i - 1) /\ i - 1 + 1 = i
      BY <1>1
    <2>1. i - 1 \in 0..Len(w) /\ i - 1 \notin T /\ i - 1 + 1 = i /\ i - 1 < Len(w)
      BY <1>1, <1>3, <2>0
    <2>2. ~(w[i] + span > at)
      BY <2>1
    <2> QED
      BY <1>1, <1>3, <2>2
  <1>5. \E m \in 0..Len(w) : (\A i \in 1..m : w[i] + span <= at)
                             /\ (m < Len(w) => w[m + 1] + span > at)
    BY <1>3, <1>4
  <1> QED
    BY <1>5 DEF OverBy

LEMMA RecentFacts ==
    ASSUME NEW w \in Seq(Nat), NEW at \in Nat, NEW span \in Nat
    PROVE  \E n \in 0..Len(w) :
              /\ Recent(w, at, span) \in Seq(Nat) /\ Len(Recent(w, at, span)) = Len(w) - n
              /\ \A i \in 1..Len(w) - n : Recent(w, at, span)[i] = w[n + i]
              /\ \A i \in 1..n : w[i] + span <= at
  <1>1. PICK n : n = OverBy(w, at, span)
    OBVIOUS
  <1>2. n \in 0..Len(w) /\ \A i \in 1..n : w[i] + span <= at
    BY <1>1, OverByFacts
  <1>3. Recent(w, at, span) = SubSeq(w, n + 1, Len(w))
    BY <1>1 DEF Recent
  <1>4. Len(w) \in Nat /\ \A i \in 1..Len(w) : w[i] \in Nat
    OBVIOUS
  <1>5. SubSeq(w, n + 1, Len(w)) = [i \in 1..Len(w) - n |-> w[n + i]]
    BY <1>2, <1>4
  <1>6. [i \in 1..Len(w) - n |-> w[n + i]] \in [1..Len(w) - n -> Nat]
    BY <1>2, <1>4
  <1>7. Len(w) - n \in Nat
    BY <1>2, <1>4
  <1>8. Recent(w, at, span) \in Seq(Nat) /\ Len(Recent(w, at, span)) = Len(w) - n
    <2>1. PICK m : m = Len(w) - n
      OBVIOUS
    <2>2. PICK s : s = Recent(w, at, span)
      OBVIOUS
    <2>3. m \in Nat /\ s \in [1..m -> Nat]
      BY <1>3, <1>5, <1>6, <1>7, <2>1, <2>2
    <2>4. s \in Seq(Nat) /\ Len(s) = m
      BY <2>3, IsASeq
    <2> QED
      BY <2>1, <2>2, <2>4
  <1> QED
    BY <1>2, <1>3, <1>5, <1>8

LEMMA InsideFacts ==
    ASSUME NEW w \in Seq(Nat), NEW t \in Nat, NEW span \in Nat
    PROVE  /\ IsFiniteSet(Inside(w, t, span)) /\ Cardinality(Inside(w, t, span)) \in Nat
           /\ Cardinality(Inside(w, t, span)) <= Len(w)
  <1>1. Inside(w, t, span) \subseteq 1..Len(w) /\ Len(w) \in Nat
    BY DEF Inside
  <1>2. IsFiniteSet(1..Len(w)) /\ Cardinality(1..Len(w)) = Len(w)
    BY <1>1, FS_Interval
  <1>3. IsFiniteSet(Inside(w, t, span)) /\ Cardinality(Inside(w, t, span)) <= Cardinality(1..Len(w))
    BY <1>1, <1>2, FS_Subset
  <1> QED
    BY <1>2, <1>3, FS_CardinalityType

\* What leaves at a reading is over for every later moment.
LEMMA RecentKeepsInside ==
    ASSUME NEW w \in Seq(Nat), NEW at \in Nat, NEW span \in Nat, NEW t \in Nat, at <= t
    PROVE  Cardinality(Inside(Recent(w, at, span), t, span)) = Cardinality(Inside(w, t, span))
  <1>1. PICK r : r = Recent(w, at, span)
    OBVIOUS
  <1>2. PICK n \in 0..Len(w) :
          /\ r \in Seq(Nat) /\ Len(r) = Len(w) - n
          /\ \A i \in 1..Len(w) - n : r[i] = w[n + i]
          /\ \A i \in 1..n : w[i] + span <= at
    BY <1>1, RecentFacts
  <1> DEFINE A == Inside(r, t, span)
             B == Inside(w, t, span)
             f == [i \in A |-> n + i]
  <1>3. \A i \in 1..Len(w) : w[i] \in Nat
    OBVIOUS
  <1>4. \A i \in 1..Len(w) : i \in B <=> w[i] <= t /\ t < w[i] + span
    BY DEF Inside
  <1>5. \A i : i \in A <=> i \in 1..Len(w) - n /\ w[n + i] <= t /\ t < w[n + i] + span
    <2>1. DOMAIN r = 1..Len(w) - n
      BY <1>2
    <2>2. \A i : i \in A <=> i \in DOMAIN r /\ r[i] <= t /\ t < r[i] + span
      BY DEF Inside
    <2> QED
      BY <1>2, <2>1, <2>2
  <1>6. \A j \in B : j - n \in A /\ n + (j - n) = j
    <2> SUFFICES ASSUME NEW j \in B PROVE j - n \in A /\ n + (j - n) = j
      OBVIOUS
    <2>1. j \in 1..Len(w) /\ w[j] \in Nat /\ t < w[j] + span /\ w[j] <= t
      BY <1>3 DEF Inside
    <2>2. j \notin 1..n
      BY <1>2, <2>1
    <2>3. j - n \in 1..Len(w) - n /\ n + (j - n) = j
      BY <1>2, <2>1, <2>2
    <2> QED
      BY <1>5, <2>1, <2>3
  <1>7. \A i \in A : n + i \in B
    <2> SUFFICES ASSUME NEW i \in A PROVE n + i \in B
      OBVIOUS
    <2>1. i \in 1..Len(w) - n /\ w[n + i] <= t /\ t < w[n + i] + span
      BY <1>5
    <2>2. n + i \in 1..Len(w)
      BY <1>2, <2>1
    <2> HIDE DEF A, B
    <2> QED
      BY <1>4, <2>1, <2>2
  <1>8. \A i \in A : i \in Int
    BY <1>5
  <1> HIDE DEF A, B
  <1>9. f \in Bijection(A, B)
    <2>1. f \in [A -> B]
      BY <1>7
    <2>2. \A i, j \in A : f[i] = f[j] => i = j
      BY <1>2, <1>8
    <2>3. \A j \in B : \E i \in A : f[i] = j
      BY <1>6
    <2>4. f \in Injection(A, B)
      BY <2>1, <2>2 DEF Injection, IsInjective
    <2>5. f \in Surjection(A, B)
      BY <2>1, <2>3 DEF Surjection
    <2> QED
      BY <2>4, <2>5 DEF Bijection
  <1>10. IsFiniteSet(B)
    BY InsideFacts DEF B
  <1>11. ExistsBijection(A, B)
    BY <1>9 DEF ExistsBijection
  <1>12. Cardinality(A) = Cardinality(B)
    BY <1>10, <1>11, FS_Bijection, Fun_ExistsBijSymmetric
  <1> QED
    BY <1>1, <1>12 DEF A, B

LEMMA InsideAppend ==
    ASSUME NEW w \in Seq(Nat), NEW x \in Nat, NEW t \in Nat, NEW span \in Nat
    PROVE  Cardinality(Inside(Append(w, x), t, span))
              = Cardinality(Inside(w, t, span)) + (IF x <= t /\ t < x + span THEN 1 ELSE 0)
  <1>1. /\ Append(w, x) \in Seq(Nat) /\ Len(Append(w, x)) = Len(w) + 1 /\ Len(w) \in Nat
        /\ Append(w, x)[Len(w) + 1] = x /\ \A i \in 1..Len(w) : Append(w, x)[i] = w[i]
    OBVIOUS
  <1>2. PICK y : y = Append(w, x)
    OBVIOUS
  <1>3. /\ y \in Seq(Nat) /\ DOMAIN y = 1..Len(w) + 1 /\ DOMAIN w = 1..Len(w)
        /\ y[Len(w) + 1] = x /\ \A i \in 1..Len(w) : y[i] = w[i]
    BY <1>1, <1>2
  <1> DEFINE A == Inside(w, t, span)
  <1>4. IsFiniteSet(A) /\ Cardinality(A) \in Nat
    BY InsideFacts
  <1>5. Len(w) + 1 \notin A
    BY <1>3 DEF Inside
  <1>6. Inside(y, t, span) = IF x <= t /\ t < x + span THEN A \cup {Len(w) + 1} ELSE A
    BY <1>1, <1>3 DEF Inside
  <1> HIDE DEF A
  <1>7. Cardinality(A \cup {Len(w) + 1}) = Cardinality(A) + 1
    BY <1>4, <1>5, FS_AddElement
  <1> QED
    BY <1>2, <1>4, <1>6, <1>7 DEF A

\* The loop of resolve_client_ip ends at the last address that no trusted
\* proxy wrote about itself.
LEMMA ResolvedIsFirst ==
    ASSUME NEW c \in Calls
    PROVE  ResolveClientIp(c) \in Spots /\ ResolveClientIp(c) = FirstUntrusted(c)
  <1> DEFINE n == Len(c.via)
             hop == [j \in 0..n |-> IF j = 0 THEN c.peer ELSE c.via[n + 1 - j]]
             F(g) == [i \in 0..n |->
                        IF i = 0 THEN c.peer
                        ELSE IF g[i - 1] \in Trusted THEN c.via[n + 1 - i] ELSE g[i - 1]]
             G == CHOOSE g : g = F(g)
  <1>1. ResolveClientIp(c) = G[n]
    BY DEF ResolveClientIp
  <1>2. c.peer \in Spots /\ c.via \in Seq(Spots)
    BY Zenon, GateAssumption
  <1>3. n \in Nat /\ hop[0] = c.peer /\ \A j \in 1..n : hop[j] = c.via[n + 1 - j]
    BY <1>2
  <1>4. \A j \in 0..n : hop[j] \in Spots
    BY <1>2
  <1>5. \A g : /\ DOMAIN F(g) = 0..n /\ F(g)[0] = hop[0]
               /\ \A i \in 1..n : F(g)[i] = IF g[i - 1] \in Trusted THEN hop[i] ELSE g[i - 1]
    BY <1>3
  <1>6. \A g, h : (\A i \in 1..n : g[i - 1] = h[i - 1]) => F(g) = F(h)
    <2> SUFFICES ASSUME NEW g, NEW h, \A i \in 1..n : g[i - 1] = h[i - 1] PROVE F(g) = F(h)
      OBVIOUS
    <2>1. \A i \in 0..n : i = 0 \/ i \in 1..n
      BY <1>3
    <2> QED
      BY <2>1
  <1>a. \A g, h \in [0..n -> Spots] : (\A i \in 0..n : g[i] = h[i]) => g = h
    OBVIOUS
  <1>b. \A g : g \in [0..n -> Spots] => F(g) \in [0..n -> Spots]
    <2> SUFFICES ASSUME NEW g \in [0..n -> Spots] PROVE F(g) \in [0..n -> Spots]
      OBVIOUS
    <2>1. \A i \in 0..n : i # 0 => n + 1 - i \in 1..Len(c.via) /\ i - 1 \in 0..n
      BY <1>3
    <2>2. \A i \in 1..Len(c.via) : c.via[i] \in Spots
      BY <1>2
    <2> QED
      BY <1>2, <2>1, <2>2
  <1>7. PICK N : N = n
    OBVIOUS
  <1>8. N \in Nat /\ DOMAIN hop = 0..N
    BY <1>3, <1>7
  <1>9. PICK m \in 0..N : (\A j \in 0..N : j < m => hop[j] \in Trusted)
                          /\ (hop[m] \notin Trusted \/ m = N)
    <2> DEFINE S == {j \in 0..N : hop[j] \notin Trusted \/ j = N}
    <2> HIDE DEF hop
    <2>1. S \in SUBSET Nat /\ N \in S
      BY <1>8
    <2>2. PICK m \in S : \A j \in S : m <= j
      BY <2>1, LeastNumber
    <2>3. \A j \in 0..N : j < m => j \notin S
      BY <1>8, <2>2
    <2> QED
      BY <2>2, <2>3
  <1> DEFINE W == [i \in 0..N |-> IF i <= m THEN hop[i] ELSE hop[m]]
  <1>10. W = F(W)
    <2>1. W \in [0..n -> Spots]
      BY <1>4, <1>7, <1>8, <1>9
    <2>2. F(W) \in [0..n -> Spots]
      BY <2>1, <1>b
    <2>3. ASSUME NEW i \in 0..n PROVE W[i] = F(W)[i]
      <3>1. CASE i = 0
        BY <3>1, <1>5, <1>7, <1>8, <1>9
      <3>2. CASE i # 0
        <4>1. i \in 1..n /\ i - 1 \in 0..N /\ i \in 0..N
          BY <3>2, <1>7, <1>8
        <4>2. F(W)[i] = IF W[i - 1] \in Trusted THEN hop[i] ELSE W[i - 1]
          BY <4>1, <1>5
        <4> HIDE DEF hop, F
        <4>3. W[i] = (IF i <= m THEN hop[i] ELSE hop[m])
              /\ W[i - 1] = (IF i - 1 <= m THEN hop[i - 1] ELSE hop[m])
          BY <4>1
        <4>4. CASE i <= m
          BY <4>1, <4>2, <4>3, <4>4, <1>9
        <4>5. CASE i > m
          <5>1. W[i - 1] = hop[m] /\ hop[m] \notin Trusted
            BY <4>1, <4>3, <4>5, <1>8, <1>9
          <5> QED
            BY <4>2, <4>3, <4>5, <5>1, <1>9
        <4> QED
          BY <4>1, <4>4, <4>5, <1>9
      <3> QED
        BY <3>1, <3>2
    <2> HIDE DEF W, F
    <2> QED
      BY <2>1, <2>2, <2>3, <1>a
  <1>11. G = F(G)
    <2>1. \E g : g = F(g)
      BY <1>10
    <2> HIDE DEF F
    <2> QED
      BY <2>1
  <1>12. ASSUME NEW i \in 0..N PROVE G[i] = W[i]
    <2> DEFINE S == {j \in 0..N : G[j] # W[j]}
    <2> HIDE DEF G, W
    <2>1. SUFFICES ASSUME S # {} PROVE FALSE
      OBVIOUS
    <2>2. PICK j \in S : \A k \in S : j <= k
      <3>1. S \in SUBSET Nat
        BY <1>8
      <3> QED
        BY <2>1, <3>1, LeastNumber
    <2>3. j # 0
      <3> HIDE DEF F
      <3>1. G[0] = F(G)[0] /\ W[0] = F(W)[0]
        BY <1>10, <1>11
      <3> QED
        BY <2>2, <3>1, <1>5
    <2>4. j \in 1..n /\ j - 1 \in 0..N /\ j - 1 \notin S
      BY <2>2, <2>3, <1>7, <1>8
    <2>5. G[j - 1] = W[j - 1]
      BY <2>4
    <2>6. F(G)[j] = F(W)[j]
      BY <2>4, <2>5, <1>5
    <2> HIDE DEF F
    <2> QED
      BY <2>2, <2>6, <1>10, <1>11
  <1>13. G[n] = hop[m]
    <2>1. N \in 0..N /\ W[N] = hop[m]
      BY <1>8, <1>9
    <2> HIDE DEF G, W
    <2> QED
      BY <2>1, <1>7, <1>12
  <1>14. FirstUntrusted(c) = hop[m]
    <2> DEFINE chain == c.via \o <<c.peer>>
               At(a, i) == /\ chain[i] = a
                           /\ \A j \in i + 1..Len(chain) : chain[j] \in Trusted
                           /\ a \notin Trusted \/ i = 1
    <2>1. FirstUntrusted(c) = CHOOSE a \in Spots : \E i \in DOMAIN chain : At(a, i)
      BY DEF FirstUntrusted
    <2>2. /\ DOMAIN chain = 1..N + 1 /\ Len(chain) = N + 1
          /\ \A i \in 1..N : chain[i] = c.via[i]
          /\ chain[N + 1] = c.peer
      BY <1>2, <1>3, <1>7
    <2>3. \A i \in 1..N + 1 : N + 1 - i \in 0..N /\ chain[i] = hop[N + 1 - i]
      <3> SUFFICES ASSUME NEW i \in 1..N + 1
                   PROVE  N + 1 - i \in 0..N /\ chain[i] = hop[N + 1 - i]
        OBVIOUS
      <3>1. CASE i = N + 1
        <4>1. N + 1 - i = 0 /\ 0 \in 0..N
          BY <3>1, <1>8
        <4> HIDE DEF chain, hop
        <4> QED
          BY <3>1, <4>1, <2>2, <1>3
      <3>2. CASE i \in 1..N
        <4>1. N + 1 - i \in 1..n /\ n + 1 - (N + 1 - i) = i /\ N + 1 - i \in 0..N
          BY <3>2, <1>7, <1>8
        <4> QED
          BY <4>1, <3>2, <2>2, <1>3
      <3> QED
        BY <3>1, <3>2, <1>8
    <2> HIDE DEF chain, hop
    <2>4. PICK k : k = N + 1 - m
      OBVIOUS
    <2>5. k \in 1..N + 1 /\ N + 1 - k = m /\ chain[k] = hop[m] /\ (m = N <=> k = 1)
      BY <2>3, <2>4, <1>8, <1>9
    <2>6. \A j \in k + 1..N + 1 : chain[j] \in Trusted
      <3> SUFFICES ASSUME NEW j \in k + 1..N + 1 PROVE chain[j] \in Trusted
        OBVIOUS
      <3>1. j \in 1..N + 1 /\ N + 1 - j \in 0..N /\ N + 1 - j < m
        BY <2>4, <2>5, <1>8, <1>9
      <3> QED
        BY <3>1, <2>3, <1>9
    <2>7. hop[m] \in Spots /\ k \in DOMAIN chain /\ At(hop[m], k)
      BY <2>2, <2>5, <2>6, <1>4, <1>7, <1>9
    <2>8. ASSUME NEW a, NEW i \in DOMAIN chain, At(a, i) PROVE a = hop[m]
      <3>1. i \in 1..N + 1 /\ chain[i] = a
        BY <2>2, <2>8
      <3>2. ~(i < k)
        <4> SUFFICES ASSUME i < k PROVE FALSE
          OBVIOUS
        <4>1. k \in i + 1..Len(chain)
          BY <2>2, <2>5, <3>1, <1>8
        <4>2. hop[m] \in Trusted
          BY <4>1, <2>5, <2>8
        <4> QED
          BY <4>2, <2>5, <3>1, <1>8, <1>9
      <3>3. ~(k < i)
        <4> SUFFICES ASSUME k < i PROVE FALSE
          OBVIOUS
        <4>1. i \in k + 1..N + 1
          BY <2>5, <3>1, <1>8
        <4>2. a \in Trusted
          BY <4>1, <2>6, <3>1
        <4> QED
          BY <4>2, <2>5, <2>8, <3>1, <1>8
      <3>4. i = k
        BY <2>5, <3>1, <3>2, <3>3, <1>8
      <3> QED
        BY <3>1, <3>4, <2>5
    <2> HIDE DEF At
    <2> QED
      BY <2>1, <2>7, <2>8
  <1> QED
    BY <1>1, <1>4, <1>7, <1>9, <1>13, <1>14

-----------------------------------------------------------------------------
(* The limiters.  As long as nobody checks with a reading after t, no      *)
(* reading inside the window of t has left the limiter: it counts all of   *)
(* them.  Afterwards only those pass whose reading is older, and of these  *)
(* there are at most as many as other requests.                            *)

PastRoute == {"limit", "lock", "policy", "login", "verify", "served"}
Visit == [pc : {"away", "route", "refused"} \cup PastRoute, call : Calls \cup {""},
          user : People \cup {""}, at : Nat, behind : BOOLEAN]

Waiting(t) == {v \in Visitors : visit[v].pc = "lock" /\ visit[v].at <= t}
Verifying(k, t) == {v \in Visitors : visit[v].pc = "verify" /\ visit[v].at <= t /\ k \in TriesOf(v)}
Trying(k, t) == {v \in Visitors :
                    visit[v].pc \in {"login", "verify"} /\ visit[v].at <= t /\ k \in TriesOf(v)}

TryLimit(k) == IF k[1] = "name" THEN NameLimit ELSE SourceLimit

RateOK(k, t) ==
    \/ Cardinality(Inside(passed[k], t, Minute)) = Cardinality(Inside(minute[k], t, Minute))
    \/ /\ clock > t
       /\ Cardinality(Inside(passed[k], t, Minute)) + Cardinality(Waiting(t))
             <= MinuteLimit + (Cardinality(Visitors) - 1)

TryOK(k, t) ==
    \/ /\ Cardinality(Inside(missed[k], t, Quarter)) = Cardinality(Inside(attempts[k], t, Quarter))
       /\ Cardinality(Inside(missed[k], t, Quarter)) + Cardinality(Verifying(k, t))
             <= TryLimit(k) + (Cardinality(Visitors) - 1)
    \/ /\ clock > t
       /\ Cardinality(Inside(missed[k], t, Quarter)) + Cardinality(Trying(k, t))
             <= TryLimit(k) + 2 * (Cardinality(Visitors) - 1)

GateTables ==
    /\ clock \in Nat /\ required \in BOOLEAN /\ active \subseteq DOMAIN UserOf
    /\ team \in [People -> SUBSET MirrorNames]
    /\ minute \in [Rates -> Seq(Nat)] /\ passed \in [Rates -> Seq(Nat)]
    /\ attempts \in [Tries -> Seq(Nat)] /\ missed \in [Tries -> Seq(Nat)]
    /\ visit \in [Visitors -> Visit]
    /\ \A v \in Visitors : visit[v].at <= clock

(* What is known of a request from its place in the gate. *)
Routed(v) ==
    LET c == visit[v].call
    IN  /\ visit[v].pc # "away" => c \in Calls
        /\ visit[v].pc \in PastRoute =>
              /\ c.path \in MirrorNames /\ BaseDomain # "" /\ required => visit[v].user # ""
              /\ visit[v].user # "" =>
                    /\ c.path \notin {"control", "login"}
                    /\ ~visit[v].behind =>
                          visit[v].user = UserOf[HostOf(c)] /\ HostOf(c) \in active
        /\ visit[v].pc \in {"lock", "policy"} => c.path \in MirrorNames
        /\ visit[v].pc \in {"login", "verify"} => c.path \notin MirrorNames
        /\ visit[v].pc = "served" /\ c.path \in MirrorNames =>
              /\ ResolveClientIp(c) \notin Denied
              /\ visit[v].user # "" /\ ~visit[v].behind =>
                    team[visit[v].user] = {} \/ c.path \in team[visit[v].user]

RatesInv == \A k \in Rates : Len(minute[k]) <= MinuteLimit /\ \A t \in Nat : RateOK(k, t)
TriesInv == \A k \in Tries, t \in Nat : TryOK(k, t)
GateInv == GateTables /\ RatesInv /\ TriesInv /\ \A v \in Visitors : Routed(v)

LEMMA GateConstants ==
    /\ Minute \in Nat /\ Quarter \in Nat /\ MinuteLimit \in Nat /\ NameLimit \in Nat
    /\ SourceLimit \in Nat /\ IsFiniteSet(Visitors) /\ Visitors # {}
    /\ Cardinality(Visitors) \in Nat /\ Cardinality(Visitors) >= 1
    /\ \A k : TryLimit(k) \in Nat
  <1>1. {Minute, Quarter, MinuteLimit, NameLimit, SourceLimit, EndOfTime, MaxVisits} \subseteq Nat
    BY Zenon, GateAssumption
  <1>2. IsFiniteSet(Visitors) /\ Visitors # {}
    BY Zenon, GateAssumption
  <1>3. Cardinality(Visitors) \in Nat /\ Cardinality(Visitors) # 0
    BY <1>2, FS_CardinalityType, FS_EmptySet
  <1> QED
    BY <1>1, <1>2, <1>3 DEF TryLimit

LEMMA SomeVisitors ==
    ASSUME NEW A \in SUBSET Visitors
    PROVE  IsFiniteSet(A) /\ Cardinality(A) \in Nat /\ Cardinality(A) <= Cardinality(Visitors)
  BY GateConstants, FS_Subset, FS_CardinalityType

LEMMA FewerVisitors ==
    ASSUME NEW A \in SUBSET Visitors, NEW B \in SUBSET A
    PROVE  Cardinality(B) \in Nat /\ Cardinality(A) \in Nat /\ Cardinality(B) <= Cardinality(A)
  <1>1. IsFiniteSet(A) /\ IsFiniteSet(B) /\ Cardinality(A) \in Nat /\ Cardinality(B) \in Nat
    BY SomeVisitors
  <1> QED
    BY <1>1, FS_Subset

LEMMA OtherVisitors ==
    ASSUME NEW A \in SUBSET Visitors, NEW v \in Visitors, v \notin A
    PROVE  Cardinality(A) \in Nat /\ Cardinality(A) <= Cardinality(Visitors) - 1
  <1>1. IsFiniteSet(Visitors \ {v}) /\ Cardinality(Visitors \ {v}) = Cardinality(Visitors) - 1
    BY GateConstants, FS_RemoveElement
  <1>2. A \subseteq Visitors \ {v}
    OBVIOUS
  <1>3. Cardinality(A) <= Cardinality(Visitors \ {v})
    BY <1>1, <1>2, FS_Subset
  <1> QED
    BY <1>1, <1>3, SomeVisitors

LEMMA OneVisitorLess ==
    ASSUME NEW A \in SUBSET Visitors, NEW v \in A, NEW B \in SUBSET A, v \notin B
    PROVE  Cardinality(B) \in Nat /\ Cardinality(A) \in Nat /\ Cardinality(B) + 1 <= Cardinality(A)
  <1>1. IsFiniteSet(A) /\ Cardinality(A) \in Nat /\ Cardinality(B) \in Nat
    BY SomeVisitors
  <1>2. IsFiniteSet(A \ {v}) /\ Cardinality(A \ {v}) = Cardinality(A) - 1
    BY <1>1, FS_RemoveElement
  <1>3. B \subseteq A \ {v}
    OBVIOUS
  <1>4. Cardinality(B) <= Cardinality(A \ {v})
    BY <1>2, <1>3, FS_Subset
  <1> QED
    BY <1>1, <1>2, <1>4

LEMMA RateCounts ==
    ASSUME GateTables, NEW k \in Rates, NEW t \in Nat
    PROVE  /\ Cardinality(Inside(passed[k], t, Minute)) \in Nat
           /\ Cardinality(Inside(minute[k], t, Minute)) \in Nat
           /\ Cardinality(Inside(minute[k], t, Minute)) <= Len(minute[k])
           /\ Cardinality(Waiting(t)) \in Nat
  <1>1. minute[k] \in Seq(Nat) /\ passed[k] \in Seq(Nat)
    BY DEF GateTables
  <1>2. Waiting(t) \in SUBSET Visitors
    BY DEF Waiting
  <1> QED
    BY <1>1, <1>2, InsideFacts, SomeVisitors, GateConstants

LEMMA TryCounts ==
    ASSUME GateTables, NEW k \in Tries, NEW t \in Nat
    PROVE  /\ Cardinality(Inside(missed[k], t, Quarter)) \in Nat
           /\ Cardinality(Inside(attempts[k], t, Quarter)) \in Nat
           /\ Cardinality(Inside(attempts[k], t, Quarter)) <= Len(attempts[k])
           /\ Cardinality(Verifying(k, t)) \in Nat /\ Cardinality(Trying(k, t)) \in Nat
           /\ Cardinality(Verifying(k, t)) <= Cardinality(Trying(k, t))
  <1>1. missed[k] \in Seq(Nat) /\ attempts[k] \in Seq(Nat)
    BY DEF GateTables
  <1>2. Trying(k, t) \in SUBSET Visitors /\ Verifying(k, t) \in SUBSET Trying(k, t)
    BY DEF Trying, Verifying
  <1> QED
    BY <1>1, <1>2, InsideFacts, FewerVisitors, GateConstants

\* A step that is none of the limiter's: nobody waits longer.
LEMMA QuietRates ==
    ASSUME GateTables, RatesInv, UNCHANGED <<minute, passed>>, clock' \in Nat, clock <= clock',
           \A t \in Nat : clock > t => Waiting(t)' \subseteq Waiting(t)
    PROVE  RatesInv'
  <1> SUFFICES ASSUME NEW k \in Rates, NEW t \in Nat PROVE Len(minute[k]) <= MinuteLimit /\ RateOK(k, t)'
    BY DEF RatesInv
  <1>1. RateOK(k, t) /\ Len(minute[k]) <= MinuteLimit
    BY DEF RatesInv
  <1>2. CASE Cardinality(Inside(passed[k], t, Minute)) = Cardinality(Inside(minute[k], t, Minute))
    BY <1>1, <1>2 DEF RateOK
  <1>3. CASE /\ clock > t
             /\ Cardinality(Inside(passed[k], t, Minute)) + Cardinality(Waiting(t))
                   <= MinuteLimit + (Cardinality(Visitors) - 1)
    <2>1. Waiting(t) \in SUBSET Visitors /\ Waiting(t)' \in SUBSET Waiting(t)
      BY <1>3 DEF Waiting
    <2>2. /\ Cardinality(Waiting(t)') \in Nat /\ Cardinality(Waiting(t)) \in Nat
          /\ Cardinality(Waiting(t)') <= Cardinality(Waiting(t))
      BY <2>1, FewerVisitors
    <2>3. clock' > t
      BY <1>3 DEF GateTables
    <2>4. PICK W1 : W1 = Cardinality(Waiting(t)')
      OBVIOUS
    <2>5. Cardinality(Inside(passed[k], t, Minute)) + W1 <= MinuteLimit + (Cardinality(Visitors) - 1)
      <3>1. PICK p : p = Cardinality(Inside(passed[k], t, Minute))
        OBVIOUS
      <3>2. PICK W : W = Cardinality(Waiting(t))
        OBVIOUS
      <3>3. PICK n : n = Cardinality(Visitors)
        OBVIOUS
      <3>4. p \in Nat /\ W \in Nat /\ n \in Nat /\ MinuteLimit \in Nat
        BY <3>1, <3>2, <3>3, RateCounts, GateConstants
      <3>5. W1 \in Nat /\ W1 <= W /\ p + W <= MinuteLimit + (n - 1)
        BY <1>3, <2>2, <2>4, <3>1, <3>2, <3>3
      <3>6. p + W1 <= MinuteLimit + (n - 1)
        BY <3>4, <3>5
      <3> QED
        BY <3>1, <3>3, <3>6
    <2> QED
      BY <1>1, <2>3, <2>4, <2>5 DEF RateOK
  <1> QED
    BY <1>1, <1>2, <1>3 DEF RateOK

LEMMA QuietTries ==
    ASSUME GateTables, TriesInv, UNCHANGED <<attempts, missed>>, clock' \in Nat, clock <= clock',
           \A k \in Tries, t \in Nat :
              /\ Verifying(k, t)' \subseteq Verifying(k, t)
              /\ clock > t => Trying(k, t)' \subseteq Trying(k, t)
    PROVE  TriesInv'
  <1> SUFFICES ASSUME NEW k \in Tries, NEW t \in Nat PROVE TryOK(k, t)'
    BY DEF TriesInv
  <1>1. TryOK(k, t)
    BY DEF TriesInv
  <1>2. PICK m : m = Cardinality(Inside(missed[k], t, Quarter))
    OBVIOUS
  <1>3. m \in Nat
    BY <1>2, TryCounts
  <1>4. CASE /\ m = Cardinality(Inside(attempts[k], t, Quarter))
             /\ m + Cardinality(Verifying(k, t)) <= TryLimit(k) + (Cardinality(Visitors) - 1)
    <2>1. Verifying(k, t) \in SUBSET Visitors /\ Verifying(k, t)' \in SUBSET Verifying(k, t)
      BY DEF Verifying
    <2>2. PICK W1 : W1 = Cardinality(Verifying(k, t)')
      OBVIOUS
    <2>3. /\ W1 \in Nat /\ Cardinality(Verifying(k, t)) \in Nat
          /\ W1 <= Cardinality(Verifying(k, t))
      BY <2>1, <2>2, FewerVisitors
    <2>4. m + W1 <= TryLimit(k) + (Cardinality(Visitors) - 1)
      BY <1>3, <1>4, <2>3, GateConstants
    <2> QED
      BY <1>2, <1>4, <2>2, <2>4 DEF TryOK, TryLimit
  <1>5. CASE /\ clock > t
             /\ m + Cardinality(Trying(k, t)) <= TryLimit(k) + 2 * (Cardinality(Visitors) - 1)
    <2>1. Trying(k, t) \in SUBSET Visitors /\ Trying(k, t)' \in SUBSET Trying(k, t)
      BY <1>5 DEF Trying
    <2>2. PICK W1 : W1 = Cardinality(Trying(k, t)')
      OBVIOUS
    <2>3. /\ W1 \in Nat /\ Cardinality(Trying(k, t)) \in Nat
          /\ W1 <= Cardinality(Trying(k, t))
      BY <2>1, <2>2, FewerVisitors
    <2>4. m + W1 <= TryLimit(k) + 2 * (Cardinality(Visitors) - 1)
      BY <1>3, <1>5, <2>3, GateConstants
    <2>5. clock' > t
      BY <1>5 DEF GateTables
    <2> QED
      BY <1>2, <2>2, <2>4, <2>5 DEF TryOK, TryLimit
  <1> QED
    BY <1>1, <1>2, <1>4, <1>5 DEF TryOK

LEMMA RecentIsShorter ==
    ASSUME NEW w \in Seq(Nat), NEW at \in Nat, NEW span \in Nat
    PROVE  /\ Recent(w, at, span) \in Seq(Nat) /\ Len(Recent(w, at, span)) \in Nat
           /\ Len(Recent(w, at, span)) <= Len(w)
  <1>1. PICK r : r = Recent(w, at, span)
    OBVIOUS
  <1>2. PICK n \in 0..Len(w) : r \in Seq(Nat) /\ Len(r) = Len(w) - n
    BY <1>1, RecentFacts, ZenonT(30)
  <1>3. Len(w) \in Nat
    OBVIOUS
  <1>4. Len(r) \in Nat /\ Len(r) <= Len(w)
    BY <1>2, <1>3
  <1> QED
    BY <1>1, <1>2, <1>4

\* One request moves on; what it carries stays.
LEMMA MovesOn ==
    ASSUME GateTables, NEW v \in Visitors, NEW p \in {"refused"} \cup PastRoute, Proceed(v, p)
    PROVE  /\ visit' \in [Visitors -> Visit]
           /\ visit'[v].pc = p
           /\ \A u \in Visitors : /\ u # v => visit'[u] = visit[u]
                                  /\ visit'[u].call = visit[u].call /\ visit'[u].user = visit[u].user
                                  /\ visit'[u].at = visit[u].at /\ visit'[u].behind = visit[u].behind
                                  /\ TriesOf(u)' = TriesOf(u)
  <1>1. visit \in [Visitors -> Visit] /\ visit' = [visit EXCEPT ![v].pc = p]
    BY DEF GateTables, Proceed
  <1>2. /\ visit' \in [Visitors -> Visit] /\ visit'[v].pc = p
        /\ \A u \in Visitors : /\ u # v => visit'[u] = visit[u]
                               /\ visit'[u].call = visit[u].call /\ visit'[u].user = visit[u].user
                               /\ visit'[u].at = visit[u].at /\ visit'[u].behind = visit[u].behind
    BY <1>1 DEF Visit
  <1> QED
    BY <1>2 DEF TriesOf

LEMMA KeyIsRate ==
    ASSUME GateTables, NEW v \in Visitors, visit[v].call \in Calls
    PROVE  RateKey(v) \in Rates /\ TriesOf(v) \subseteq Tries
  <1>1. ResolveClientIp(visit[v].call) \in Spots
    BY ResolvedIsFirst
  <1>2. visit[v].user \in People \cup {""}
    BY DEF GateTables, Visit
  <1>3. PICK a \in Spots : a = ResolveClientIp(visit[v].call)
    BY <1>1
  <1>4. RateKey(v) \in Rates
    <2>1. \A x \in People : <<"user", x>> \in Rates
      BY DEF Rates
    <2>2. <<"ip", a>> \in Rates
      BY DEF Rates
    <2> QED
      BY <1>2, <1>3, <2>1, <2>2 DEF RateKey
  <1>5. <<"name", visit[v].call.name>> \in Tries
    BY DEF Tries
  <1>6. <<"source", SourceOf(visit[v].call)>> \in Tries
    <2>1. SourceOf(visit[v].call) \in Spots \cup {"unknown"}
      BY <1>3 DEF SourceOf
    <2>2. \A x \in Spots \cup {"unknown"} : <<"source", x>> \in Tries
      BY DEF Tries
    <2> QED
      BY <2>1, <2>2
  <1> QED
    BY <1>4, <1>5, <1>6 DEF TriesOf

\* The limiter of requests.
LEMMA CheckRates ==
    ASSUME GateTables, RatesInv, NEW v \in Visitors, Check(v), visit[v].call \in Calls
    PROVE  /\ RatesInv'
           /\ minute' \in [Rates -> Seq(Nat)] /\ passed' \in [Rates -> Seq(Nat)]
  <1> DEFINE at == visit[v].at
             now == [k \in Rates |-> Recent(minute[k], at, Minute)]
             full == Len(now[RateKey(v)]) >= MinuteLimit
             here(k) == ~full /\ k = RateKey(v)
  <1>1. at \in Nat /\ at <= clock /\ clock \in Nat /\ clock' = clock /\ RateKey(v) \in Rates
        /\ visit[v].pc = "lock"
    BY KeyIsRate DEF Check, Is, GateTables, Visit
  <1>2. \A k \in Rates : /\ now[k] \in Seq(Nat) /\ now[k] = Recent(minute[k], at, Minute)
                         /\ Len(now[k]) \in Nat /\ Len(now[k]) <= Len(minute[k])
    <2> SUFFICES ASSUME NEW k \in Rates
                 PROVE  /\ now[k] \in Seq(Nat) /\ now[k] = Recent(minute[k], at, Minute)
                        /\ Len(now[k]) \in Nat /\ Len(now[k]) <= Len(minute[k])
      OBVIOUS
    <2>1. now[k] = Recent(minute[k], at, Minute)
      OBVIOUS
    <2>2. minute[k] \in Seq(Nat) /\ Minute \in Nat
      BY GateConstants DEF GateTables
    <2> QED
      BY <1>1, <2>1, <2>2, RecentIsShorter
  <1>3. /\ minute' = IF full THEN now ELSE [now EXCEPT ![RateKey(v)] = Append(now[RateKey(v)], at)]
        /\ passed' = IF full THEN passed ELSE [passed EXCEPT ![RateKey(v)] = Append(passed[RateKey(v)], at)]
        /\ Proceed(v, IF full THEN "refused" ELSE "policy")
    BY DEF Check
  <1>4. DOMAIN now = Rates /\ passed \in [Rates -> Seq(Nat)]
    BY DEF GateTables
  <1>5. (full => Len(now[RateKey(v)]) >= MinuteLimit) /\ (~full => ~(Len(now[RateKey(v)]) >= MinuteLimit))
    OBVIOUS
  <1> HIDE DEF now, full, at
  <1>6. \A k \in Rates : /\ minute'[k] = IF here(k) THEN Append(now[k], at) ELSE now[k]
                         /\ passed'[k] = IF here(k) THEN Append(passed[k], at) ELSE passed[k]
    BY <1>1, <1>3, <1>4
  <1>7. minute' \in [Rates -> Seq(Nat)] /\ passed' \in [Rates -> Seq(Nat)]
    <2>1. \A k \in Rates : Append(now[k], at) \in Seq(Nat) /\ Append(passed[k], at) \in Seq(Nat)
      BY <1>1, <1>2, <1>4
    <2>2. now \in [Rates -> Seq(Nat)]
      <3>1. now = [k \in Rates |-> now[k]]
        BY DEF now
      <3> QED
        BY <3>1, <1>2
    <2> QED
      BY <1>1, <1>3, <1>4, <2>1, <2>2
  <1>8. ASSUME NEW k \in Rates PROVE Len(minute'[k]) <= MinuteLimit
    <2>1. Len(now[k]) \in Nat /\ Len(now[k]) <= MinuteLimit /\ now[k] \in Seq(Nat)
      <3>1. Len(minute[k]) <= MinuteLimit /\ minute[k] \in Seq(Nat)
        BY DEF RatesInv, GateTables
      <3> QED
        BY <1>2, <3>1, GateConstants
    <2>2. CASE here(k)
      <3>1. ~(Len(now[k]) >= MinuteLimit)
        BY <1>5, <2>2
      <3>2. minute'[k] = Append(now[k], at) /\ Len(Append(now[k], at)) = Len(now[k]) + 1
        <4>1. PICK s \in Seq(Nat) : s = now[k]
          BY <2>1
        <4>2. Len(Append(s, at)) = Len(s) + 1
          BY <1>1
        <4> QED
          BY <1>6, <2>2, <4>1, <4>2
      <3> QED
        BY <2>1, <3>1, <3>2, GateConstants
    <2>3. CASE ~here(k)
      BY <1>6, <2>1, <2>3
    <2> QED
      BY <2>2, <2>3
  <1>9. ASSUME NEW k \in Rates, NEW t \in Nat PROVE RateOK(k, t)'
    <2>1. PICK e : e = IF here(k) /\ at <= t /\ t < at + Minute THEN 1 ELSE 0
      OBVIOUS
    <2>2. PICK p : p = Cardinality(Inside(passed[k], t, Minute))
      OBVIOUS
    <2>3. PICK q : q = Cardinality(Inside(minute[k], t, Minute))
      OBVIOUS
    <2>4. PICK W : W = Cardinality(Waiting(t))
      OBVIOUS
    <2>5. PICK W1 : W1 = Cardinality(Waiting(t)')
      OBVIOUS
    <2>6. PICK n : n = Cardinality(Visitors)
      OBVIOUS
    <2>7. /\ p \in Nat /\ q \in Nat /\ W \in Nat /\ n \in Nat /\ n >= 1 /\ q <= MinuteLimit
          /\ MinuteLimit \in Nat /\ Minute \in Nat /\ e \in {0, 1}
      <3>1. Len(minute[k]) <= MinuteLimit /\ minute[k] \in Seq(Nat)
        BY DEF RatesInv, GateTables
      <3>2. PICK l : l = Len(minute[k])
        OBVIOUS
      <3>3. p \in Nat /\ q \in Nat /\ q <= l /\ W \in Nat
        BY <2>2, <2>3, <2>4, <3>2, RateCounts
      <3>4. l \in Nat /\ l <= MinuteLimit
        BY <3>1, <3>2
      <3>5. n \in Nat /\ n >= 1 /\ MinuteLimit \in Nat /\ Minute \in Nat
        BY <2>6, GateConstants
      <3> QED
        BY <2>1, <3>3, <3>4, <3>5
    <2>8. \/ p = q
          \/ clock > t /\ p + W <= MinuteLimit + (n - 1)
      <3>1. RateOK(k, t)
        BY DEF RatesInv
      <3> QED
        BY <2>2, <2>3, <2>4, <2>6, <3>1 DEF RateOK
    <2>9. Cardinality(Inside(passed'[k], t, Minute)) = p + e
      <3>1. passed[k] \in Seq(Nat)
        BY <1>4
      <3>2. CASE here(k)
        BY <1>1, <1>6, <2>1, <2>2, <2>7, <3>1, <3>2, InsideAppend
      <3>3. CASE ~here(k)
        BY <1>6, <2>1, <2>2, <2>7, <3>3
      <3> QED
        BY <3>2, <3>3
    <2>10. /\ Waiting(t) \in SUBSET Visitors /\ Waiting(t)' \in SUBSET Waiting(t)
           /\ v \notin Waiting(t)' /\ (at <= t => v \in Waiting(t))
      <3>1. PICK x \in {"refused"} \cup PastRoute : Proceed(v, x) /\ x # "lock"
        BY <1>3 DEF PastRoute
      <3>2. /\ visit'[v].pc # "lock"
            /\ \A u \in Visitors : u # v => visit'[u] = visit[u]
        BY <3>1, MovesOn
      <3> QED
        BY <1>1, <3>2 DEF Waiting, at
    <2>11. W1 \in Nat /\ W1 <= W /\ W1 <= n - 1
      <3>1. Waiting(t)' \in SUBSET Visitors
        BY <2>10
      <3> QED
        BY <2>4, <2>5, <2>6, <2>10, <3>1, FewerVisitors, OtherVisitors
    <2>12. CASE at <= t
      <3>1. Cardinality(Inside(minute'[k], t, Minute)) = q + e
        <4>1. minute[k] \in Seq(Nat)
          BY DEF GateTables
        <4>2. Cardinality(Inside(now[k], t, Minute)) = q
          BY <1>1, <1>2, <2>3, <2>7, <2>12, <4>1, RecentKeepsInside
        <4>3. CASE here(k)
          BY <1>1, <1>2, <1>6, <2>1, <2>7, <4>2, <4>3, InsideAppend
        <4>4. CASE ~here(k)
          BY <1>6, <2>1, <2>7, <4>2, <4>4
        <4> QED
          BY <4>3, <4>4
      <3>2. W1 + 1 <= W
        BY <2>4, <2>5, <2>10, <2>12, OneVisitorLess
      <3>3. CASE p = q
        BY <2>9, <3>1, <3>3 DEF RateOK
      <3>4. CASE clock > t /\ p + W <= MinuteLimit + (n - 1)
        <4>1. p + e + W1 <= MinuteLimit + (n - 1)
          BY <2>7, <2>11, <3>2, <3>4
        <4> QED
          BY <1>1, <2>5, <2>6, <2>9, <3>4, <4>1 DEF RateOK
      <3> QED
        BY <2>8, <3>3, <3>4
    <2>13. CASE at > t
      <3>1. e = 0 /\ clock' > t
        BY <1>1, <2>1, <2>13
      <3>2. p + W1 <= MinuteLimit + (n - 1)
        BY <2>7, <2>8, <2>11
      <3> QED
        BY <2>5, <2>6, <2>7, <2>9, <3>1, <3>2 DEF RateOK
    <2> QED
      BY <1>1, <2>12, <2>13
  <1> QED
    BY <1>7, <1>8, <1>9 DEF RatesInv

\* What an earlier state says of a key and a moment, in numbers.
LEMMA TryNumbers ==
    ASSUME GateTables, TriesInv, NEW k \in Tries, NEW t \in Nat
    PROVE  \E m, a, V, T, n, L \in Nat :
              /\ m = Cardinality(Inside(missed[k], t, Quarter))
              /\ a = Cardinality(Inside(attempts[k], t, Quarter)) /\ a <= Len(attempts[k])
              /\ V = Cardinality(Verifying(k, t)) /\ T = Cardinality(Trying(k, t))
              /\ n = Cardinality(Visitors) /\ n >= 1 /\ L = TryLimit(k)
              /\ \/ m = a /\ m + V <= L + (n - 1)
                 \/ clock > t /\ m + T <= L + 2 * (n - 1)
  <1>1. TryOK(k, t)
    BY DEF TriesInv
  <1> QED
    BY <1>1, TryCounts, GateConstants DEF TryOK

LEMMA TryFollows ==
    ASSUME NEW k \in Tries, NEW t \in Nat, NEW m, NEW a, NEW V, NEW T, NEW n, NEW L,
           m = Cardinality(Inside(missed'[k], t, Quarter)),
           a = Cardinality(Inside(attempts'[k], t, Quarter)),
           V = Cardinality(Verifying(k, t)'), T = Cardinality(Trying(k, t)'),
           n = Cardinality(Visitors), L = TryLimit(k),
           \/ m = a /\ m + V <= L + (n - 1)
           \/ clock' > t /\ m + T <= L + 2 * (n - 1)
    PROVE  TryOK(k, t)'
  BY DEF TryOK, TryLimit

LEMMA LoginLimitedTries ==
    ASSUME GateTables, TriesInv, NEW v \in Visitors, LoginLimited(v), visit[v].call \in Calls
    PROVE  TriesInv' /\ attempts' \in [Tries -> Seq(Nat)]
  <1> DEFINE at == visit[v].at
             now == [k \in Tries |-> Recent(attempts[k], at, Quarter)]
  <1>1. /\ at \in Nat /\ at <= clock /\ clock \in Nat /\ clock' = clock /\ visit[v].pc = "login"
        /\ attempts' = now /\ missed' = missed
    BY DEF LoginLimited, Is, GateTables, Visit
  <1>2. \A k \in Tries : /\ now[k] \in Seq(Nat) /\ now[k] = Recent(attempts[k], at, Quarter)
                         /\ Len(now[k]) \in Nat
    <2> SUFFICES ASSUME NEW k \in Tries
                 PROVE  /\ now[k] \in Seq(Nat) /\ now[k] = Recent(attempts[k], at, Quarter)
                        /\ Len(now[k]) \in Nat
      OBVIOUS
    <2>1. attempts[k] \in Seq(Nat) /\ Quarter \in Nat /\ now[k] = Recent(attempts[k], at, Quarter)
      BY GateConstants DEF GateTables
    <2> QED
      BY <1>1, <2>1, RecentIsShorter
  <1>3. now \in [Tries -> Seq(Nat)]
    BY <1>2
  <1>4. PICK p \in {"refused", "verify"} :
           /\ Proceed(v, p)
           /\ p = "verify" => \A k \in TriesOf(v) : ~(Len(now[k]) >= TryLimit(k))
    BY DEF LoginLimited, TryLimit
  <1>5. /\ visit'[v].pc = p
        /\ \A u \in Visitors : /\ u # v => visit'[u] = visit[u]
                               /\ visit'[u].at = visit[u].at /\ TriesOf(u)' = TriesOf(u)
    <2>1. p \in {"refused"} \cup PastRoute
      BY DEF PastRoute
    <2> QED
      BY <1>4, <2>1, MovesOn
  <1>6. TriesOf(v) \subseteq Tries
    BY KeyIsRate
  <1>7. \A k \in Tries : attempts'[k] = now[k]
    BY <1>1
  <1> HIDE DEF now
  <1>8. ASSUME NEW k \in Tries, NEW t \in Nat PROVE TryOK(k, t)'
    <2>1. PICK m, a, V, T, n, L \in Nat :
              /\ m = Cardinality(Inside(missed[k], t, Quarter))
              /\ a = Cardinality(Inside(attempts[k], t, Quarter)) /\ a <= Len(attempts[k])
              /\ V = Cardinality(Verifying(k, t)) /\ T = Cardinality(Trying(k, t))
              /\ n = Cardinality(Visitors) /\ n >= 1 /\ L = TryLimit(k)
              /\ \/ m = a /\ m + V <= L + (n - 1)
                 \/ clock > t /\ m + T <= L + 2 * (n - 1)
      BY TryNumbers
    <2>0. /\ m \in Nat /\ a \in Nat /\ V \in Nat /\ T \in Nat /\ n \in Nat /\ L \in Nat /\ n >= 1
      BY <2>1
    <2>2. PICK V1 : V1 = Cardinality(Verifying(k, t)')
      OBVIOUS
    <2>3. PICK T1 : T1 = Cardinality(Trying(k, t)')
      OBVIOUS
    <2>4. PICK a1 : a1 = Cardinality(Inside(attempts'[k], t, Quarter))
      OBVIOUS
    <2>5. /\ Trying(k, t) \in SUBSET Visitors /\ Trying(k, t)' \in SUBSET Trying(k, t)
          /\ Verifying(k, t) \in SUBSET Visitors /\ Verifying(k, t)' \in SUBSET Visitors
      BY <1>1, <1>5 DEF Trying, Verifying
    <2>6. T1 \in Nat /\ T1 <= T
      BY <2>1, <2>3, <2>5, FewerVisitors
    <2>7. V1 \in Nat /\ V1 <= n
      BY <2>1, <2>2, <2>5, SomeVisitors
    <2>8. CASE at <= t
      <3>1. a1 = a
        <4>1. attempts[k] \in Seq(Nat) /\ Quarter \in Nat
          BY GateConstants DEF GateTables
        <4> QED
          BY <1>1, <1>2, <1>7, <2>1, <2>4, <2>8, <4>1, RecentKeepsInside
      <3>2. CASE p = "verify" /\ k \in TriesOf(v)
        <4>1. Len(now[k]) \in Nat /\ ~(Len(now[k]) >= L)
          BY <1>2, <1>4, <2>1, <3>2
        <4>2. a1 <= Len(now[k])
          BY <1>2, <1>7, <2>4, InsideFacts, GateConstants
        <4>3. m = a1 => m + V1 <= L + (n - 1)
          BY <2>1, <2>7, <4>1, <4>2
        <4>4. m + T <= L + 2 * (n - 1) => m + T1 <= L + 2 * (n - 1)
          BY <2>0, <2>6
        <4> QED
          BY <1>1, <2>1, <2>2, <2>3, <2>4, <3>1, <4>3, <4>4, TryFollows
      <3>3. CASE ~(p = "verify" /\ k \in TriesOf(v))
        <4>1. Verifying(k, t)' \in SUBSET Verifying(k, t)
          BY <1>1, <1>5, <3>3 DEF Verifying
        <4>2. V1 <= V
          BY <2>1, <2>2, <2>5, <4>1, FewerVisitors
        <4>3. m + V <= L + (n - 1) => m + V1 <= L + (n - 1)
          BY <2>0, <2>7, <4>2
        <4>4. m + T <= L + 2 * (n - 1) => m + T1 <= L + 2 * (n - 1)
          BY <2>0, <2>6
        <4> QED
          BY <1>1, <2>1, <2>2, <2>3, <2>4, <3>1, <4>3, <4>4, TryFollows
      <3> QED
        BY <3>2, <3>3
    <2>9. CASE at > t
      <3>1. clock > t
        BY <1>1, <2>9
      <3>2. v \notin Trying(k, t)' /\ Trying(k, t)' \in SUBSET Visitors
        BY <1>1, <1>5, <2>5, <2>9 DEF Trying
      <3>3. T1 <= n - 1
        BY <2>1, <2>3, <3>2, OtherVisitors
      <3>4. m + T1 <= L + 2 * (n - 1)
        BY <2>1, <2>6, <3>3
      <3> QED
        BY <1>1, <2>1, <2>2, <2>3, <2>4, <3>1, <3>4, TryFollows
    <2> QED
      BY <1>1, <2>8, <2>9
  <1> QED
    BY <1>1, <1>3, <1>8 DEF TriesInv

LEMMA LoginEndsTries ==
    ASSUME GateTables, TriesInv, NEW v \in Visitors, visit[v].call \in Calls,
           NEW result \in {"failure", "session", "passkey"}, LoginEnds(v, result)
    PROVE  TriesInv' /\ attempts' \in [Tries -> Seq(Nat)] /\ missed' \in [Tries -> Seq(Nat)]
  <1> DEFINE at == visit[v].at
             to(s, k) == IF k \notin TriesOf(v) \/ result = "passkey" THEN s
                         ELSE IF result = "failure" THEN Append(s, at) ELSE <<>>
  <1>1. /\ at \in Nat /\ clock' = clock /\ visit[v].pc = "verify"
        /\ \A k \in Tries : attempts[k] \in Seq(Nat) /\ missed[k] \in Seq(Nat)
    BY DEF LoginEnds, Is, GateTables, Visit
  <1>2. /\ attempts' = [k \in Tries |-> to(attempts[k], k)]
        /\ missed' = [k \in Tries |-> to(missed[k], k)]
    BY DEF LoginEnds
  <1>3. \A k \in Tries : to(attempts[k], k) \in Seq(Nat) /\ to(missed[k], k) \in Seq(Nat)
    BY <1>1
  <1>4. /\ attempts' \in [Tries -> Seq(Nat)] /\ missed' \in [Tries -> Seq(Nat)]
        /\ \A k \in Tries : attempts'[k] = to(attempts[k], k) /\ missed'[k] = to(missed[k], k)
    BY <1>2, <1>3
  <1>5. PICK p \in {"served", "refused"} : Proceed(v, p)
    BY DEF LoginEnds
  <1>6. /\ visit'[v].pc = p
        /\ \A u \in Visitors : /\ u # v => visit'[u] = visit[u]
                               /\ visit'[u].at = visit[u].at /\ TriesOf(u)' = TriesOf(u)
    <2>1. p \in {"refused"} \cup PastRoute
      BY DEF PastRoute
    <2> QED
      BY <1>5, <2>1, MovesOn
  <1>7. ASSUME NEW k \in Tries, NEW t \in Nat PROVE TryOK(k, t)'
    <2>1. PICK m, a, V, T, n, L \in Nat :
              /\ m = Cardinality(Inside(missed[k], t, Quarter))
              /\ a = Cardinality(Inside(attempts[k], t, Quarter)) /\ a <= Len(attempts[k])
              /\ V = Cardinality(Verifying(k, t)) /\ T = Cardinality(Trying(k, t))
              /\ n = Cardinality(Visitors) /\ n >= 1 /\ L = TryLimit(k)
              /\ \/ m = a /\ m + V <= L + (n - 1)
                 \/ clock > t /\ m + T <= L + 2 * (n - 1)
      BY TryNumbers
    <2>0. /\ m \in Nat /\ a \in Nat /\ V \in Nat /\ T \in Nat /\ n \in Nat /\ L \in Nat /\ n >= 1
      BY <2>1
    <2>2. PICK V1 : V1 = Cardinality(Verifying(k, t)')
      OBVIOUS
    <2>3. PICK T1 : T1 = Cardinality(Trying(k, t)')
      OBVIOUS
    <2>4. /\ Trying(k, t) \in SUBSET Visitors /\ Trying(k, t)' \in SUBSET Trying(k, t)
          /\ Verifying(k, t) \in SUBSET Visitors /\ Verifying(k, t)' \in SUBSET Verifying(k, t)
          /\ v \notin Verifying(k, t)' /\ v \notin Trying(k, t)'
          /\ (k \in TriesOf(v) /\ at <= t) => v \in Verifying(k, t) /\ v \in Trying(k, t)
      BY <1>1, <1>6 DEF Trying, Verifying
    <2>5. T1 \in Nat /\ T1 <= T /\ V1 \in Nat /\ V1 <= V
      BY <2>1, <2>2, <2>3, <2>4, FewerVisitors
    <2>6. V1 <= n - 1
      <3>1. Verifying(k, t)' \in SUBSET Visitors
        BY <2>4
      <3> QED
        BY <2>1, <2>2, <2>4, <3>1, OtherVisitors
    <2>7. CASE k \notin TriesOf(v) \/ result = "passkey"
      <3>1. attempts'[k] = attempts[k] /\ missed'[k] = missed[k]
        BY <1>4, <2>7
      <3>2. m + V <= L + (n - 1) => m + V1 <= L + (n - 1)
        BY <2>0, <2>5
      <3>3. m + T <= L + 2 * (n - 1) => m + T1 <= L + 2 * (n - 1)
        BY <2>0, <2>5
      <3> QED
        BY <1>1, <2>1, <2>2, <2>3, <3>1, <3>2, <3>3, TryFollows
    <2>8. CASE k \in TriesOf(v) /\ result = "session"
      <3>1. attempts'[k] = <<>> /\ missed'[k] = <<>>
        BY <1>4, <2>8
      <3>2. Inside(<<>>, t, Quarter) = {}
        BY DEF Inside
      <3>3. /\ 0 = Cardinality(Inside(missed'[k], t, Quarter))
            /\ 0 = Cardinality(Inside(attempts'[k], t, Quarter))
        BY <3>1, <3>2, FS_EmptySet
      <3>4. 0 + V1 <= L + (n - 1)
        BY <2>1, <2>5, <2>6
      <3> QED
        BY <2>1, <2>2, <2>3, <3>3, <3>4, TryFollows
    <2>9. CASE k \in TriesOf(v) /\ result = "failure"
      <3>1. PICK e : e = IF at <= t /\ t < at + Quarter THEN 1 ELSE 0
        OBVIOUS
      <3>2. attempts'[k] = Append(attempts[k], at) /\ missed'[k] = Append(missed[k], at)
        BY <1>4, <2>9
      <3>3. /\ m + e = Cardinality(Inside(missed'[k], t, Quarter))
            /\ a + e = Cardinality(Inside(attempts'[k], t, Quarter))
        <4>1. /\ Cardinality(Inside(Append(missed[k], at), t, Quarter)) = m + e
              /\ Cardinality(Inside(Append(attempts[k], at), t, Quarter)) = a + e
          <5>1. PICK x \in Nat : x = at
            BY <1>1
          <5>2. PICK w \in Seq(Nat) : w = missed[k]
            BY <1>1
          <5>3. PICK y \in Seq(Nat) : y = attempts[k]
            BY <1>1
          <5>4. Quarter \in Nat
            BY GateConstants
          <5>5. e = IF x <= t /\ t < x + Quarter THEN 1 ELSE 0
            BY <3>1, <5>1
          <5>6. Cardinality(Inside(Append(w, x), t, Quarter)) = Cardinality(Inside(w, t, Quarter)) + e
            BY <5>4, <5>5, InsideAppend
          <5>7. Cardinality(Inside(Append(y, x), t, Quarter)) = Cardinality(Inside(y, t, Quarter)) + e
            BY <5>4, <5>5, InsideAppend
          <5> QED
            BY <2>1, <5>1, <5>2, <5>3, <5>6, <5>7
        <4> QED
          BY <3>2, <4>1
      <3>4. e \in {0, 1} /\ (e = 1 => at <= t)
        BY <3>1
      <3>5. e = 1 => V1 + 1 <= V /\ T1 + 1 <= T
        <4> SUFFICES ASSUME e = 1 PROVE V1 + 1 <= V /\ T1 + 1 <= T
          OBVIOUS
        <4>1. v \in Verifying(k, t) /\ v \in Trying(k, t)
          BY <2>4, <2>9, <3>4
        <4> QED
          BY <2>1, <2>2, <2>3, <2>4, <4>1, OneVisitorLess
      <3>6. m + V <= L + (n - 1) => (m + e) + V1 <= L + (n - 1)
        BY <2>0, <2>5, <3>4, <3>5
      <3>7. m + T <= L + 2 * (n - 1) => (m + e) + T1 <= L + 2 * (n - 1)
        BY <2>0, <2>5, <3>4, <3>5
      <3>8. m = a => m + e = a + e
        OBVIOUS
      <3> QED
        BY <1>1, <2>1, <2>2, <2>3, <3>3, <3>6, <3>7, <3>8, TryFollows
    <2> QED
      BY <2>7, <2>8, <2>9
  <1> QED
    BY <1>4, <1>7 DEF TriesInv

-----------------------------------------------------------------------------
(* The steps, and what they leave of the invariant. *)

\* A request that neither waited nor tries before keeps out of the counts of
\* moments that are over.
Quiet(v) == \/ visit'[v].pc \notin {"lock", "login", "verify"}
            \/ /\ visit'[v].pc = visit[v].pc /\ visit'[v].at = visit[v].at
               /\ visit'[v].call = visit[v].call
            \/ visit'[v].pc \in {"lock", "login"} /\ visit'[v].at = clock

LEMMA QuietCounts ==
    ASSUME GateTables, \A v \in Visitors : Quiet(v)
    PROVE  /\ \A t \in Nat : clock > t => Waiting(t)' \subseteq Waiting(t)
           /\ \A k \in Tries, t \in Nat : /\ Verifying(k, t)' \subseteq Verifying(k, t)
                                          /\ clock > t => Trying(k, t)' \subseteq Trying(k, t)
  <1>1. clock \in Nat
    BY DEF GateTables
  <1>2. \A t \in Nat : clock > t => ~(clock <= t)
    BY <1>1
  <1>3. ASSUME NEW t \in Nat, clock > t PROVE Waiting(t)' \subseteq Waiting(t)
    BY <1>2, <1>3 DEF Waiting, Quiet
  <1>4. ASSUME NEW k \in Tries, NEW t \in Nat PROVE Verifying(k, t)' \subseteq Verifying(k, t)
    BY DEF Verifying, TriesOf, Quiet
  <1>5. ASSUME NEW k \in Tries, NEW t \in Nat, clock > t PROVE Trying(k, t)' \subseteq Trying(k, t)
    BY <1>2, <1>5 DEF Trying, TriesOf, Quiet
  <1> QED
    BY <1>3, <1>4, <1>5

LEMMA QuietLimits ==
    ASSUME GateInv, UNCHANGED <<minute, passed, attempts, missed>>, clock' \in Nat, clock <= clock',
           \A v \in Visitors : Quiet(v)
    PROVE  RatesInv' /\ TriesInv'
  <1>1. GateTables /\ RatesInv /\ TriesInv
    BY DEF GateInv
  <1>2. /\ \A t \in Nat : clock > t => Waiting(t)' \subseteq Waiting(t)
        /\ \A k \in Tries, t \in Nat : /\ Verifying(k, t)' \subseteq Verifying(k, t)
                                       /\ clock > t => Trying(k, t)' \subseteq Trying(k, t)
    BY <1>1, QuietCounts
  <1>3. RatesInv'
    BY <1>1, <1>2, QuietRates
  <1>4. TriesInv'
    BY <1>1, <1>2, QuietTries
  <1> QED
    BY <1>3, <1>4

LEMMA SameRouted ==
    ASSUME NEW v \in Visitors, Routed(v), visit'[v] = visit[v], UNCHANGED <<required, active, team>>
    PROVE  Routed(v)'
  BY DEF Routed

LEMMA GateStarts == GateInit => GateInv
  <1> SUFFICES ASSUME GateInit PROVE GateInv
    OBVIOUS
  <1>1. <<>> \in Seq(Nat) /\ Len(<<>>) = 0
    OBVIOUS
  <1>2. /\ clock = 0 /\ required \in BOOLEAN /\ active = DOMAIN UserOf
        /\ team = [u \in People |-> {}]
        /\ minute = [k \in Rates |-> <<>>] /\ passed = minute
        /\ attempts = [k \in Tries |-> <<>>] /\ missed = attempts
        /\ visit = [v \in Visitors |-> Away]
    BY DEF GateInit
  <1>3. Away \in Visit /\ Away.pc = "away" /\ Away.at = 0
    BY DEF Away, Visit
  <1>4. GateTables
    BY <1>1, <1>2, <1>3 DEF GateTables
  <1>5. RatesInv
    <2> SUFFICES ASSUME NEW k \in Rates PROVE Len(minute[k]) <= MinuteLimit
      BY <1>2 DEF RatesInv, RateOK
    <2> QED
      BY <1>1, <1>2, GateConstants
  <1>6. TriesInv
    <2> SUFFICES ASSUME NEW k \in Tries, NEW t \in Nat PROVE TryOK(k, t)
      BY DEF TriesInv
    <2>1. missed[k] = <<>> /\ attempts[k] = <<>>
      BY <1>2
    <2>2. Inside(<<>>, t, Quarter) = {}
      BY DEF Inside
    <2>3. Verifying(k, t) = {}
      BY <1>2, <1>3 DEF Verifying
    <2>4. Cardinality({}) = 0
      BY FS_EmptySet
    <2>5. PICK n \in Nat : n = Cardinality(Visitors) /\ n >= 1
      BY GateConstants
    <2>6. PICK L \in Nat : L = TryLimit(k)
      BY GateConstants
    <2>7. 0 + 0 <= L + (n - 1)
      BY <2>5, <2>6
    <2> QED
      BY <2>1, <2>2, <2>3, <2>4, <2>5, <2>6, <2>7 DEF TryOK
  <1>7. \A v \in Visitors : Routed(v)
    BY <1>2, <1>3 DEF Routed, PastRoute
  <1> QED
    BY <1>4, <1>5, <1>6, <1>7 DEF GateInv

LEMMA TickKeepsGate == GateInv /\ Tick => GateInv'
  <1> SUFFICES ASSUME GateInv, Tick PROVE GateInv'
    OBVIOUS
  <1>1. /\ clock' = clock + 1 /\ visit' = visit
        /\ UNCHANGED <<required, active, team, minute, attempts, visits, passed, missed>>
    BY DEF Tick
  <1>2. clock \in Nat /\ GateTables /\ \A v \in Visitors : visit[v].at \in Nat /\ visit[v].at <= clock
    BY DEF GateInv, GateTables, Visit
  <1>3. clock' \in Nat /\ clock <= clock' /\ \A v \in Visitors : visit'[v].at <= clock'
    BY <1>1, <1>2
  <1>4. GateTables'
    BY <1>1, <1>2, <1>3 DEF GateTables
  <1>5. \A v \in Visitors : Quiet(v)
    BY <1>1 DEF Quiet
  <1>6. RatesInv' /\ TriesInv'
    BY <1>1, <1>3, <1>5, QuietLimits
  <1>7. \A v \in Visitors : Routed(v)'
    BY <1>1, SameRouted DEF GateInv
  <1> QED
    BY <1>4, <1>6, <1>7 DEF GateInv

\* An administrator's change: what a request was told before is no longer held to it.
LEMMA ChangeKeepsGate ==
    ASSUME GateInv, visit' = Overtaken, UNCHANGED <<clock, required, minute, attempts, passed, missed>>,
           active' \subseteq active, team' \in [People -> SUBSET MirrorNames]
    PROVE  GateInv'
  <1>1. GateTables /\ \A v \in Visitors : Routed(v)
    BY DEF GateInv
  <1>2. visit \in [Visitors -> Visit] /\ clock \in Nat
    BY <1>1 DEF GateTables
  <1>3. /\ visit' \in [Visitors -> Visit]
        /\ \A v \in Visitors : /\ visit'[v].pc = visit[v].pc /\ visit'[v].call = visit[v].call
                               /\ visit'[v].user = visit[v].user /\ visit'[v].at = visit[v].at
                               /\ visit[v].pc # "away" => visit'[v].behind
    BY <1>2, ZenonT(30) DEF Overtaken, Visit
  <1>4. GateTables'
    BY <1>1, <1>3 DEF GateTables
  <1>5. \A v \in Visitors : Quiet(v)
    BY <1>3 DEF Quiet
  <1>6. RatesInv' /\ TriesInv'
    BY <1>2, <1>5, QuietLimits
  <1>7. ASSUME NEW v \in Visitors PROVE Routed(v)'
    <2>1. Routed(v)
      BY <1>1
    <2> QED
      BY <1>3, <2>1 DEF Routed, PastRoute
  <1> QED
    BY <1>4, <1>6, <1>7 DEF GateInv

LEMMA ArriveKeepsGate ==
    ASSUME GateInv, NEW v \in Visitors, NEW c \in Calls, Arrive(v, c)
    PROVE  GateInv'
  <1> DEFINE new == [Away EXCEPT !.pc = "route", !.call = c]
  <1>1. GateTables /\ \A u \in Visitors : Routed(u)
    BY DEF GateInv
  <1>2. /\ visit \in [Visitors -> Visit] /\ clock \in Nat /\ visit' = [visit EXCEPT ![v] = new]
        /\ UNCHANGED <<clock, required, active, team, minute, attempts, passed, missed>>
    BY <1>1 DEF GateTables, Arrive
  <1>3. new \in Visit /\ new.pc = "route" /\ new.call = c /\ new.at = 0
    BY DEF Away, Visit
  <1> HIDE DEF new
  <1>4. /\ visit' \in [Visitors -> Visit] /\ visit'[v] = new
        /\ \A u \in Visitors : u # v => visit'[u] = visit[u]
    BY <1>2, <1>3
  <1>5. \A u \in Visitors : visit'[u].at <= clock'
    BY <1>1, <1>2, <1>3, <1>4 DEF GateTables
  <1>6. GateTables'
    BY <1>1, <1>2, <1>4, <1>5 DEF GateTables
  <1>7. \A u \in Visitors : Quiet(u)
    BY <1>3, <1>4 DEF Quiet
  <1>8. RatesInv' /\ TriesInv'
    BY <1>2, <1>7, QuietLimits
  <1>9. Routed(v)'
    BY <1>3, <1>4 DEF Routed, PastRoute
  <1>10. \A u \in Visitors : Routed(u)'
    BY <1>1, <1>2, <1>4, <1>9, SameRouted
  <1> QED
    BY <1>6, <1>8, <1>10 DEF GateInv

LEMMA RespondKeepsGate ==
    ASSUME GateInv, NEW v \in Visitors, Respond(v)
    PROVE  GateInv'
  <1>1. GateTables /\ \A u \in Visitors : Routed(u)
    BY DEF GateInv
  <1>2. /\ visit \in [Visitors -> Visit] /\ clock \in Nat /\ visit' = [visit EXCEPT ![v] = Away]
        /\ UNCHANGED <<clock, required, active, team, minute, attempts, passed, missed>>
    BY <1>1 DEF GateTables, Respond
  <1>3. Away \in Visit /\ Away.pc = "away" /\ Away.at = 0
    BY DEF Away, Visit
  <1>4. /\ visit' \in [Visitors -> Visit] /\ visit'[v] = Away
        /\ \A u \in Visitors : u # v => visit'[u] = visit[u]
    BY <1>2, <1>3
  <1>5. \A u \in Visitors : visit'[u].at <= clock'
    BY <1>1, <1>2, <1>3, <1>4 DEF GateTables
  <1>6. GateTables'
    BY <1>1, <1>2, <1>4, <1>5 DEF GateTables
  <1>7. \A u \in Visitors : Quiet(u)
    BY <1>3, <1>4 DEF Quiet
  <1>8. RatesInv' /\ TriesInv'
    BY <1>2, <1>7, QuietLimits
  <1>9. Routed(v)'
    BY <1>3, <1>4 DEF Routed, PastRoute
  <1>10. \A u \in Visitors : Routed(u)'
    BY <1>1, <1>2, <1>4, <1>9, SameRouted
  <1> QED
    BY <1>6, <1>8, <1>10 DEF GateInv

LEMMA UserRoutingKeepsGate ==
    ASSUME GateInv, NEW v \in Visitors, UserRouting(v)
    PROVE  GateInv'
  <1> DEFINE c == visit[v].call
             host == HostOf(c)
  <1>1. GateTables /\ \A u \in Visitors : Routed(u)
    BY DEF GateInv
  <1>0. clock' \in Nat /\ clock <= clock' /\ UNCHANGED <<minute, passed, attempts, missed>>
    <2>1. clock \in Nat
      BY <1>1 DEF GateTables
    <2>2. clock' = clock /\ UNCHANGED <<minute, passed, attempts, missed>>
      BY DEF UserRouting
    <2> QED
      BY <2>1, <2>2
  <1>2. PICK p \in {"limit", "refused"}, x \in People \cup {""} :
           /\ visit' = [visit EXCEPT ![v].pc = p, ![v].user = x]
           /\ p = "limit" =>
                 /\ c.path \in MirrorNames /\ BaseDomain # "" /\ required => x # ""
                 /\ x # "" => c.path \notin {"control", "login"} /\ x = UserOf[host] /\ host \in active
    <2>1. CASE BaseDomain = ""
      BY <2>1 DEF UserRouting
    <2>2. CASE BaseDomain # "" /\ host = BaseDomain
      BY <2>2 DEF UserRouting
    <2>3. CASE /\ BaseDomain # "" /\ host # BaseDomain
               /\ host \in active \ Reserved /\ c.path \notin {"control", "login"}
      <3>1. UserOf[host] \in People /\ UserOf[host] # ""
        <4>1. host \in DOMAIN UserOf
          BY <1>1, <2>3 DEF GateTables
        <4>2. "" \notin {UserOf[l] : l \in DOMAIN UserOf}
          BY Zenon, GateAssumption
        <4> QED
          BY <4>1, <4>2 DEF People
      <3>2. visit' = [visit EXCEPT ![v].pc = "limit", ![v].user = UserOf[host]]
        BY <2>3 DEF UserRouting
      <3> QED
        BY <2>3, <3>1, <3>2
    <2>4. CASE /\ BaseDomain # "" /\ host # BaseDomain
               /\ ~(host \in active \ Reserved /\ c.path \notin {"control", "login"})
      BY <2>4 DEF UserRouting
    <2> QED
      BY <2>1, <2>2, <2>3, <2>4
  <1>3. /\ visit \in [Visitors -> Visit] /\ clock \in Nat /\ visit[v].pc = "route"
        /\ UNCHANGED <<clock, required, active, team, minute, attempts, passed, missed>>
    BY <1>1 DEF GateTables, UserRouting, Is
  <1>4. /\ visit' \in [Visitors -> Visit] /\ visit'[v].pc = p /\ visit'[v].user = x
        /\ visit'[v].call = c /\ visit'[v].at = visit[v].at
        /\ \A u \in Visitors : u # v => visit'[u] = visit[u]
    BY <1>2, <1>3 DEF Visit, PastRoute
  <1>5. \A u \in Visitors : visit'[u].at <= clock'
    BY <1>1, <1>3, <1>4 DEF GateTables
  <1>6. GateTables'
    BY <1>1, <1>3, <1>4, <1>5 DEF GateTables
  <1>7. \A u \in Visitors : Quiet(u)
    BY <1>4 DEF Quiet
  <1>8. RatesInv' /\ TriesInv'
    BY <1>0, <1>7, QuietLimits
  <1>9. Routed(v)'
    <2>1. c \in Calls
      BY <1>1, <1>3 DEF Routed
    <2>2. CASE p = "refused"
      BY <1>4, <2>1, <2>2 DEF Routed, PastRoute
    <2>3. CASE p = "limit"
      <3>1. /\ c.path \in MirrorNames /\ BaseDomain # "" /\ required' => x # ""
            /\ x # "" => c.path \notin {"control", "login"} /\ x = UserOf[HostOf(c)] /\ HostOf(c) \in active'
        BY <1>2, <1>3, <2>3
      <3> HIDE DEF c
      <3> QED
        BY <1>4, <2>1, <2>3, <3>1 DEF Routed, PastRoute
    <2> QED
      BY <2>2, <2>3
  <1>10. \A u \in Visitors : Routed(u)'
    BY <1>1, <1>3, <1>4, <1>9, SameRouted
  <1> QED
    BY <1>6, <1>8, <1>10 DEF GateInv

LEMMA ReadClockKeepsGate ==
    ASSUME GateInv, NEW v \in Visitors, ReadClock(v)
    PROVE  GateInv'
  <1> DEFINE c == visit[v].call
  <1>1. GateTables /\ \A u \in Visitors : Routed(u)
    BY DEF GateInv
  <1>2. PICK p \in {"lock", "login", "served"} :
           /\ visit' = [visit EXCEPT ![v].at = clock, ![v].pc = p]
           /\ (p = "lock" <=> c.path \in MirrorNames)
    <2>1. MirrorNames \cap {"control", "login", "token", "static"} = {}
      BY Zenon, GateAssumption
    <2>2. PICK q : q = CASE c.path \in MirrorNames -> "lock"
                         [] c.path \in {"login", "token"} -> "login"
                         [] OTHER -> "served"
      OBVIOUS
    <2>3. visit' = [visit EXCEPT ![v].at = clock, ![v].pc = q]
      BY <2>2 DEF ReadClock
    <2>4. q \in {"lock", "login", "served"} /\ (q = "lock" <=> c.path \in MirrorNames)
      <3>1. PICK y : y = c.path
        OBVIOUS
      <3>2. ~(y \in MirrorNames /\ y \in {"login", "token"})
        BY <2>1
      <3>3. CASE y \in MirrorNames
        BY <2>2, <3>1, <3>2, <3>3
      <3>4. CASE y \in {"login", "token"}
        BY <2>2, <3>1, <3>2, <3>4
      <3>5. CASE y \notin MirrorNames /\ y \notin {"login", "token"}
        BY <2>2, <3>1, <3>5
      <3> QED
        BY <3>1, <3>3, <3>4, <3>5
    <2> QED
      BY <2>3, <2>4
  <1>3. /\ visit \in [Visitors -> Visit] /\ clock \in Nat /\ visit[v].pc = "limit"
        /\ UNCHANGED <<clock, required, active, team, minute, attempts, passed, missed>>
    BY <1>1 DEF GateTables, ReadClock, Is
  <1>4. /\ visit' \in [Visitors -> Visit] /\ visit'[v].pc = p /\ visit'[v].user = visit[v].user
        /\ visit'[v].call = c /\ visit'[v].at = clock /\ visit'[v].behind = visit[v].behind
        /\ \A u \in Visitors : u # v => visit'[u] = visit[u]
    BY <1>2, <1>3 DEF Visit, PastRoute
  <1>5. \A u \in Visitors : visit'[u].at <= clock'
    <2>1. clock' = clock /\ clock <= clock
      BY <1>3
    <2>2. \A u \in Visitors : visit[u].at <= clock
      BY <1>1 DEF GateTables
    <2> QED
      BY <1>4, <2>1, <2>2
  <1>6. GateTables'
    BY <1>1, <1>3, <1>4, <1>5 DEF GateTables
  <1>7. \A u \in Visitors : Quiet(u)
    BY <1>4 DEF Quiet
  <1>8. RatesInv' /\ TriesInv'
    <2>1. clock' = clock /\ clock \in Nat /\ UNCHANGED <<minute, passed, attempts, missed>>
      BY Zenon, <1>3
    <2>2. clock' \in Nat /\ clock <= clock'
      BY <2>1
    <2> QED
      BY <1>7, <2>1, <2>2, QuietLimits
  <1>9. Routed(v)'
    <2>1. Routed(v)
      BY <1>1
    <2>2. c.path \in MirrorNames => p = "lock"
      BY <1>2
    <2>3. p = "lock" => c.path \in MirrorNames
      BY <1>2
    <2>4. UNCHANGED <<required, active, team>>
      BY <1>3
    <2> HIDE DEF c
    <2>5. /\ c \in Calls
          /\ c.path \in MirrorNames /\ BaseDomain # "" /\ required => visit[v].user # ""
          /\ visit[v].user # "" =>
                /\ c.path \notin {"control", "login"}
                /\ ~visit[v].behind => visit[v].user = UserOf[HostOf(c)] /\ HostOf(c) \in active
      BY <1>3, <2>1 DEF Routed, PastRoute, c
    <2> QED
      BY <1>4, <2>2, <2>3, <2>4, <2>5 DEF Routed, PastRoute
  <1>10. \A u \in Visitors : Routed(u)'
    BY <1>1, <1>3, <1>4, <1>9, SameRouted
  <1> QED
    BY <1>6, <1>8, <1>10 DEF GateInv

\* The other steps move one request on.
LEMMA OnwardKeepsGate ==
    ASSUME GateInv, NEW v \in Visitors, NEW p \in {"refused", "policy", "verify", "served"},
           Proceed(v, p), visit[v].pc # "away", UNCHANGED <<clock, required, active, team>>,
           p \in PastRoute => visit[v].pc \in PastRoute,
           p = "policy" => visit[v].pc = "lock", p = "verify" => visit[v].pc = "login",
           p = "served" =>
              \/ visit[v].call.path \notin MirrorNames
              \/ /\ ResolveClientIp(visit[v].call) \notin Denied
                 /\ visit[v].user # "" => \/ team[visit[v].user] = {}
                                          \/ visit[v].call.path \in team[visit[v].user]
    PROVE  /\ visit' \in [Visitors -> Visit] /\ \A u \in Visitors : visit'[u].at <= clock'
           /\ \A u \in Visitors : Routed(u)'
  <1>1. GateTables /\ \A u \in Visitors : Routed(u)
    BY DEF GateInv
  <1>2. p \in {"refused"} \cup PastRoute
    BY DEF PastRoute
  <1>3. /\ visit' \in [Visitors -> Visit] /\ visit'[v].pc = p
        /\ \A u \in Visitors : /\ u # v => visit'[u] = visit[u]
                               /\ visit'[u].call = visit[u].call /\ visit'[u].user = visit[u].user
                               /\ visit'[u].at = visit[u].at /\ visit'[u].behind = visit[u].behind
    BY <1>1, <1>2, MovesOn
  <1>4. \A u \in Visitors : visit'[u].at <= clock'
    BY <1>1, <1>3 DEF GateTables
  <1>5. Routed(v)'
    <2>1. Routed(v)
      BY <1>1
    <2> QED
      BY <1>3, <2>1 DEF Routed, PastRoute
  <1>6. \A u \in Visitors : Routed(u)'
    BY <1>1, <1>3, <1>5, SameRouted
  <1> QED
    BY <1>3, <1>4, <1>6

LEMMA AdmitKeepsGate ==
    ASSUME GateInv, NEW v \in Visitors, Admit(v)
    PROVE  GateInv'
  <1>1. GateTables /\ clock \in Nat
    BY DEF GateInv, GateTables
  <1>2. PICK p \in {"refused", "served"} :
           /\ Proceed(v, p)
           /\ p = "served" => /\ ResolveClientIp(visit[v].call) \notin Denied
                              /\ visit[v].user # "" => \/ team[visit[v].user] = {}
                                                       \/ visit[v].call.path \in team[visit[v].user]
    BY DEF Admit
  <1>3. /\ visit[v].pc = "policy"
        /\ UNCHANGED <<clock, required, active, team, minute, attempts, passed, missed>>
    BY DEF Admit, Is
  <1>4. /\ visit' \in [Visitors -> Visit] /\ \A u \in Visitors : visit'[u].at <= clock'
        /\ \A u \in Visitors : Routed(u)'
    BY <1>2, <1>3, OnwardKeepsGate DEF PastRoute
  <1>5. GateTables'
    BY <1>1, <1>3, <1>4 DEF GateTables
  <1>6. /\ visit'[v].pc = p /\ \A u \in Visitors : u # v => visit'[u] = visit[u]
    BY <1>1, <1>2, MovesOn DEF PastRoute
  <1>7. \A u \in Visitors : Quiet(u)
    BY <1>6 DEF Quiet
  <1>8. RatesInv' /\ TriesInv'
    BY <1>1, <1>3, <1>7, QuietLimits
  <1> QED
    BY <1>4, <1>5, <1>8 DEF GateInv

LEMMA CheckKeepsGate ==
    ASSUME GateInv, NEW v \in Visitors, Check(v)
    PROVE  GateInv'
  <1>1. GateTables /\ RatesInv /\ TriesInv /\ Routed(v) /\ clock \in Nat
    BY DEF GateInv, GateTables
  <1>2. visit[v].pc = "lock" /\ visit[v].call \in Calls
    BY <1>1 DEF Check, Is, Routed
  <1>3. RatesInv' /\ minute' \in [Rates -> Seq(Nat)] /\ passed' \in [Rates -> Seq(Nat)]
    BY <1>1, <1>2, CheckRates
  <1>4. UNCHANGED <<clock, required, active, team, attempts, missed>>
    BY DEF Check
  <1>5. PICK p \in {"refused", "policy"} : Proceed(v, p)
    BY DEF Check
  <1>6. /\ visit' \in [Visitors -> Visit] /\ \A u \in Visitors : visit'[u].at <= clock'
        /\ \A u \in Visitors : Routed(u)'
    BY <1>2, <1>4, <1>5, OnwardKeepsGate DEF PastRoute
  <1>7. GateTables'
    BY <1>1, <1>3, <1>4, <1>6 DEF GateTables
  <1>8. visit'[v].pc = p /\ \A u \in Visitors : u # v => visit'[u] = visit[u]
    BY <1>1, <1>5, MovesOn DEF PastRoute
  <1>9. \A u \in Visitors : Quiet(u)
    BY <1>8 DEF Quiet
  <1>10. clock' \in Nat /\ clock <= clock'
    BY <1>1, <1>4
  <1>11. \A k \in Tries, t \in Nat : /\ Verifying(k, t)' \subseteq Verifying(k, t)
                                     /\ clock > t => Trying(k, t)' \subseteq Trying(k, t)
    BY <1>1, <1>9, QuietCounts
  <1>12. TriesInv'
    BY <1>1, <1>4, <1>10, <1>11, QuietTries
  <1> QED
    BY <1>3, <1>6, <1>7, <1>12 DEF GateInv

\* A sign-in is none of the limiter of requests.
LEMMA SignInKeepsGate ==
    ASSUME GateInv, NEW v \in Visitors, NEW p \in {"refused", "verify", "served"}, Proceed(v, p),
           visit[v].pc \in {"login", "verify"}, p = "verify" => visit[v].pc = "login",
           UNCHANGED <<clock, required, active, team, minute, passed>>, TriesInv',
           attempts' \in [Tries -> Seq(Nat)], missed' \in [Tries -> Seq(Nat)]
    PROVE  GateInv'
  <1>1. GateTables /\ RatesInv /\ Routed(v) /\ clock \in Nat
    BY DEF GateInv, GateTables
  <1>2. visit[v].call.path \notin MirrorNames
    BY <1>1 DEF Routed
  <1>3. /\ visit' \in [Visitors -> Visit] /\ \A u \in Visitors : visit'[u].at <= clock'
        /\ \A u \in Visitors : Routed(u)'
    BY <1>2, OnwardKeepsGate DEF PastRoute
  <1>4. GateTables'
    BY <1>1, <1>3 DEF GateTables
  <1>5. visit'[v].pc = p /\ \A u \in Visitors : u # v => visit'[u] = visit[u]
    BY <1>1, MovesOn DEF PastRoute
  <1>6. \A t \in Nat : Waiting(t)' \subseteq Waiting(t)
    BY <1>5 DEF Waiting
  <1>7. clock' \in Nat /\ clock <= clock'
    BY <1>1
  <1>8. RatesInv'
    BY <1>1, <1>6, <1>7, QuietRates
  <1> QED
    BY <1>3, <1>4, <1>8 DEF GateInv

LEMMA LoginLimitedKeepsGate ==
    ASSUME GateInv, NEW v \in Visitors, LoginLimited(v)
    PROVE  GateInv'
  <1>1. GateTables /\ TriesInv /\ Routed(v)
    BY DEF GateInv
  <1>2. visit[v].pc = "login" /\ visit[v].call \in Calls
    BY <1>1 DEF LoginLimited, Is, Routed
  <1>3. TriesInv' /\ attempts' \in [Tries -> Seq(Nat)]
    BY <1>1, <1>2, LoginLimitedTries
  <1>4. UNCHANGED <<clock, required, active, team, minute, passed>> /\ missed' \in [Tries -> Seq(Nat)]
    BY <1>1 DEF LoginLimited, GateTables
  <1>5. PICK p \in {"refused", "verify"} : Proceed(v, p)
    BY DEF LoginLimited
  <1> QED
    BY <1>2, <1>3, <1>4, <1>5, SignInKeepsGate

LEMMA LoginEndsKeepsGate ==
    ASSUME GateInv, NEW v \in Visitors, NEW result \in {"failure", "session", "passkey"},
           LoginEnds(v, result)
    PROVE  GateInv'
  <1>1. GateTables /\ TriesInv /\ Routed(v)
    BY DEF GateInv
  <1>2. visit[v].pc = "verify" /\ visit[v].call \in Calls
    BY <1>1 DEF LoginEnds, Is, Routed
  <1>3. TriesInv' /\ attempts' \in [Tries -> Seq(Nat)] /\ missed' \in [Tries -> Seq(Nat)]
    BY <1>1, <1>2, LoginEndsTries
  <1>4. UNCHANGED <<clock, required, active, team, minute, passed>>
    BY DEF LoginEnds
  <1>5. PICK p \in {"refused", "served"} : Proceed(v, p)
    BY DEF LoginEnds
  <1> QED
    BY <1>2, <1>3, <1>4, <1>5, SignInKeepsGate

LEMMA GateInvKept == GateInv /\ [GateNext]_qvars => GateInv'
  <1> SUFFICES ASSUME GateInv, [GateNext]_qvars PROVE GateInv'
    OBVIOUS
  <1>1. CASE Tick
    BY <1>1, TickKeepsGate
  <1>2. CASE \E l \in DOMAIN UserOf : Retire(l)
    <2>1. /\ visit' = Overtaken /\ UNCHANGED <<clock, required, minute, attempts, passed, missed>>
          /\ active' \subseteq active /\ team' \in [People -> SUBSET MirrorNames]
      BY <1>2 DEF Retire, GateInv, GateTables
    <2> QED
      BY <2>1, ChangeKeepsGate
  <1>3. CASE \E u \in People, targets \in SUBSET MirrorNames : SetGroupTargetAccess(u, targets)
    <2>1. /\ visit' = Overtaken /\ UNCHANGED <<clock, required, minute, attempts, passed, missed>>
          /\ active' \subseteq active /\ team' \in [People -> SUBSET MirrorNames]
      BY <1>3 DEF SetGroupTargetAccess, GateInv, GateTables
    <2> QED
      BY <2>1, ChangeKeepsGate
  <1>4. ASSUME NEW v \in Visitors, NEW c \in Calls, Arrive(v, c) PROVE GateInv'
    BY <1>4, ArriveKeepsGate
  <1>5. ASSUME NEW v \in Visitors, UserRouting(v) PROVE GateInv'
    BY <1>5, UserRoutingKeepsGate
  <1>6. ASSUME NEW v \in Visitors, ReadClock(v) PROVE GateInv'
    BY <1>6, ReadClockKeepsGate
  <1>7. ASSUME NEW v \in Visitors, Check(v) PROVE GateInv'
    BY <1>7, CheckKeepsGate
  <1>8. ASSUME NEW v \in Visitors, Admit(v) PROVE GateInv'
    BY <1>8, AdmitKeepsGate
  <1>9. ASSUME NEW v \in Visitors, LoginLimited(v) PROVE GateInv'
    BY <1>9, LoginLimitedKeepsGate
  <1>10. ASSUME NEW v \in Visitors, NEW result \in {"failure", "session", "passkey"},
                LoginEnds(v, result)
         PROVE  GateInv'
    BY <1>10, LoginEndsKeepsGate
  <1>11. ASSUME NEW v \in Visitors, Respond(v) PROVE GateInv'
    BY <1>11, RespondKeepsGate
  <1>12. CASE UNCHANGED qvars
    BY <1>12, ZenonT(30) DEF qvars, GateInv, GateTables, RatesInv, RateOK, TriesInv, TryOK, Routed,
                           Waiting, Verifying, Trying, TriesOf
  <1> QED
    BY <1>1, <1>2, <1>3, <1>4, <1>5, <1>6, <1>7, <1>8, <1>9, <1>10, <1>11, <1>12 DEF GateNext

LEMMA GateInvSuffices == GateInv => GateKept
  <1> SUFFICES ASSUME GateInv PROVE GateKept
    OBVIOUS
  <1>1. GateTables /\ RatesInv /\ TriesInv /\ \A v \in Visitors : Routed(v)
    BY DEF GateInv
  <1>2. PICK n \in Nat : n = Cardinality(Visitors) /\ n >= 1
    BY GateConstants
  <1>3. ASSUME NEW t \in Nat, NEW k \in Rates
        PROVE  Cardinality(Inside(passed[k], t, Minute)) <= MinuteLimit + (n - 1)
    <2>1. RateOK(k, t) /\ Len(minute[k]) <= MinuteLimit /\ minute[k] \in Seq(Nat)
      BY <1>1 DEF RatesInv, GateTables
    <2>2. PICK p, q, W, l, M \in Nat :
             /\ p = Cardinality(Inside(passed[k], t, Minute)) /\ W = Cardinality(Waiting(t))
             /\ q = Cardinality(Inside(minute[k], t, Minute)) /\ l = Len(minute[k]) /\ q <= l
             /\ M = MinuteLimit
      <3>1. /\ Cardinality(Inside(passed[k], t, Minute)) \in Nat
            /\ Cardinality(Inside(minute[k], t, Minute)) \in Nat
            /\ Cardinality(Inside(minute[k], t, Minute)) <= Len(minute[k])
            /\ Cardinality(Waiting(t)) \in Nat
        BY <1>1, RateCounts
      <3>2. Len(minute[k]) \in Nat
        BY <2>1
      <3>3. MinuteLimit \in Nat
        BY GateConstants
      <3> QED
        BY Zenon, <3>1, <3>2, <3>3
    <2>3. l <= M
      BY <2>1, <2>2
    <2>6. p = q \/ p + W <= M + (n - 1)
      BY <1>2, <2>1, <2>2 DEF RateOK
    <2>4. q <= l
      BY <2>2
    <2>5. p <= M + (n - 1)
      BY <1>2, <2>3, <2>4, <2>6
    <2> QED
      BY <2>2, <2>5
  <1>4. ASSUME NEW t \in Nat, NEW k \in Tries
        PROVE  Cardinality(Inside(missed[k], t, Quarter)) <= TryLimit(k) + 2 * (n - 1)
    <2>1. PICK m, a, V, T, n0, L \in Nat :
              /\ m = Cardinality(Inside(missed[k], t, Quarter))
              /\ a = Cardinality(Inside(attempts[k], t, Quarter)) /\ a <= Len(attempts[k])
              /\ V = Cardinality(Verifying(k, t)) /\ T = Cardinality(Trying(k, t))
              /\ n0 = Cardinality(Visitors) /\ n0 >= 1 /\ L = TryLimit(k)
              /\ \/ m = a /\ m + V <= L + (n0 - 1)
                 \/ clock > t /\ m + T <= L + 2 * (n0 - 1)
      BY <1>1, TryNumbers
    <2>2. n0 = n /\ (m + V <= L + (n - 1) \/ m + T <= L + 2 * (n - 1))
      BY <1>2, <2>1
    <2>3. m <= L + 2 * (n - 1)
      BY <1>2, <2>2
    <2> QED
      BY <2>1, <2>3
  <1>5. RatesKept
    <2>1. 0..EndOfTime \subseteq Nat
      OBVIOUS
    <2> QED
      BY <1>2, <1>3, <1>4, <2>1 DEF RatesKept, TryLimit
  <1>6. ASSUME NEW v \in Visitors, visit[v].pc = "served", NEW c, c = visit[v].call
        PROVE  /\ c.path \in MirrorNames =>
                     /\ FirstUntrusted(c) \notin Denied
                     /\ BaseDomain # "" /\ required => visit[v].user # ""
               /\ visit[v].user # "" =>
                     /\ c.path \notin {"control", "login"}
                     /\ ~visit[v].behind =>
                           /\ visit[v].user = UserOf[HostOf(c)] /\ HostOf(c) \in active
                           /\ c.path \in MirrorNames =>
                                 team[visit[v].user] = {} \/ c.path \in team[visit[v].user]
    <2>1. Routed(v) /\ "served" \in PastRoute
      BY <1>1 DEF PastRoute
    <2>2. c \in Calls
      BY <1>6, <2>1 DEF Routed
    <2>3. ResolveClientIp(c) = FirstUntrusted(c)
      BY <2>2, ResolvedIsFirst
    <2> QED
      BY <1>6, <2>1, <2>3 DEF Routed
  <1> QED
    BY <1>5, <1>6 DEF GateKept

(* Every behaviour of the gate keeps it: for any requests, proxies, users  *)
(* and limits, and however requests interleave between the middleware      *)
(* layers, the limiters of RateLimiter::check and of the administrator's   *)
(* sign-in let at most as much more pass than configured as RatesKept says *)
(* and what is served was allowed to be (GateKept).                        *)
THEOREM GateIsKept == GateSpec => []GateKept
  <1>1. GateInit => GateInv
    BY GateStarts
  <1>2. GateInv /\ [GateNext]_qvars => GateInv'
    BY GateInvKept
  <1>3. GateInv => GateKept
    BY GateInvSuffices
  <1> QED
    BY <1>1, <1>2, <1>3, PTL DEF GateSpec

-----------------------------------------------------------------------------
(* Package requests.  First, what the operators on paths do.               *)

\* The tokens of paths are strings: the provers do not know of a literal that it
\* is one, so those that the model itself puts into paths are listed.
Token == STRING \cup
    {"/", "v3", "index.json", "upstream", "storage.googleapis.com", "packages", "library", "v2",
     "api", "v1", "crates", "download", "npm", "pypi", "files", "nuget", "pub", "huggingface",
     "://", ".json", "config", ".", "..", "\\", "%2e", "%2e%2e",
     "http", "https", ""}
Path == Seq(Token)

LEMMA Tokens ==
    /\ "/" \in Token /\ "v3" \in Token /\ "index.json" \in Token
    /\ "upstream" \in Token /\ "storage.googleapis.com" \in Token /\ "packages" \in Token
    /\ "library" \in Token /\ "v2" \in Token /\ "api" \in Token
    /\ "v1" \in Token /\ "crates" \in Token /\ "download" \in Token
    /\ "npm" \in Token /\ "pypi" \in Token /\ "files" \in Token
    /\ "nuget" \in Token /\ "pub" \in Token /\ "huggingface" \in Token
    /\ "://" \in Token /\ ".json" \in Token /\ "config" \in Token
    /\ "http" \in Token /\ "https" \in Token /\ "" \in Token
    /\ "." \in Token /\ ".." \in Token /\ "\\" \in Token
    /\ "%2e" \in Token /\ "%2e%2e" \in Token
  BY DEF Token

LEMMA StringPaths == (\A s \in STRING : s \in Token) /\ Seq(STRING) \subseteq Path
  <1>1. PICK S : S = STRING
    OBVIOUS
  <1>2. S \subseteq Token
    BY <1>1 DEF Token
  <1>3. ASSUME NEW p \in Seq(S) PROVE p \in Path
    BY <1>2 DEF Path
  <1> QED
    BY <1>1, <1>2, <1>3

LEMMA Slash == /\ "/" \in Token /\ <<"/">> \in Path /\ <<"/">> # <<>> /\ Len(<<"/">>) = 1
               /\ <<"/">>[1] = "/" /\ ~Odd(<<"/">>)
  <1>1. "/" \in Token
    BY Tokens
  <1>2. <<"/">> \in Path /\ <<"/">> # <<>> /\ Len(<<"/">>) = 1 /\ <<"/">>[1] = "/"
    BY <1>1 DEF Path
  <1> QED
    BY <1>1, <1>2 DEF Odd

\* A set of numbers with a bound that is not empty has a greatest one.
LEMMA GreatestNumber ==
    ASSUME NEW b \in Nat, NEW S \in SUBSET (0..b), S # {}
    PROVE  \E n \in S : \A m \in S : m <= n
  <1> DEFINE U == {b - n : n \in S}
  <1>1. \A n \in S : b - n \in Nat
    OBVIOUS
  <1>2. U \in SUBSET Nat
    BY <1>1
  <1>3. PICK u \in U : \A v \in U : u <= v
    <2>1. U # {}
      OBVIOUS
    <2> HIDE DEF U
    <2> QED
      BY <1>2, <2>1, LeastNumber
  <1>4. PICK n \in S : u = b - n
    BY <1>3
  <1>5. ASSUME NEW m \in S PROVE m <= n
    <2>1. u <= b - m
      BY <1>3
    <2> QED
      BY <1>4, <2>1
  <1> QED
    BY <1>4, <1>5

LEMMA SubPath ==
    ASSUME NEW p \in Path, NEW m \in Nat, NEW n \in Nat, m >= 1, n <= Len(p)
    PROVE  /\ SubSeq(p, m, n) \in Path
           /\ Len(SubSeq(p, m, n)) = IF m <= n THEN n - m + 1 ELSE 0
           /\ \A i \in 1..n - m + 1 : SubSeq(p, m, n)[i] = p[m + i - 1]
  BY DEF Path

LEMMA PathElement ==
    ASSUME NEW p \in Path, NEW i \in 1..Len(p)
    PROVE  p[i] \in Token
  BY DEF Path

LEMMA JoinedPath ==
    ASSUME NEW p \in Path, NEW q \in Path
    PROVE  /\ p \o q \in Path /\ Len(p \o q) = Len(p) + Len(q)
           /\ \A i \in 1..Len(p) + Len(q) :
                 (p \o q)[i] = IF i <= Len(p) THEN p[i] ELSE q[i - Len(p)]
           /\ Odd(p \o q) <=> Odd(p) \/ Odd(q)
  <1>1. /\ p \o q \in Path /\ Len(p \o q) = Len(p) + Len(q)
        /\ \A i \in 1..Len(p) + Len(q) :
              (p \o q)[i] = IF i <= Len(p) THEN p[i] ELSE q[i - Len(p)]
    BY DEF Path
  <1>2. DOMAIN p = 1..Len(p) /\ DOMAIN q = 1..Len(q) /\ DOMAIN (p \o q) = 1..Len(p) + Len(q)
    BY DEF Path
  <1>3. Len(p) \in Nat /\ Len(q) \in Nat
    BY DEF Path
  <1>4. ASSUME NEW i \in 1..Len(q) PROVE i + Len(p) \in 1..Len(p) + Len(q) /\ (p \o q)[i + Len(p)] = q[i]
    <2>1. i + Len(p) \in 1..Len(p) + Len(q) /\ ~(i + Len(p) <= Len(p)) /\ i + Len(p) - Len(p) = i
      BY <1>3
    <2> QED
      BY <1>1, <2>1
  <1>5. ASSUME NEW i \in 1..Len(p) PROVE i \in 1..Len(p) + Len(q) /\ (p \o q)[i] = p[i]
    BY <1>1, <1>3
  <1>6. ASSUME Odd(p \o q) PROVE Odd(p) \/ Odd(q)
    <2>1. PICK i \in 1..Len(p) + Len(q) : (p \o q)[i] \in {".", "..", "\\", "%2e", "%2e%2e"}
      BY <1>2, <1>6 DEF Odd
    <2>2. CASE i <= Len(p)
      BY <1>1, <1>2, <1>3, <2>1, <2>2 DEF Odd
    <2>3. CASE ~(i <= Len(p))
      <3>1. i - Len(p) \in 1..Len(q)
        BY <1>3, <2>3
      <3> QED
        BY <1>1, <1>2, <2>1, <2>3, <3>1 DEF Odd
    <2> QED
      BY <2>2, <2>3
  <1>7. ASSUME Odd(p) \/ Odd(q) PROVE Odd(p \o q)
    BY <1>2, <1>4, <1>5, <1>7 DEF Odd
  <1> QED
    BY <1>1, <1>6, <1>7

LEMMA PathEqual ==
    ASSUME NEW p \in Path, NEW q \in Path, Len(p) = Len(q),
           \A i \in 1..Len(p) : p[i] = q[i]
    PROVE  p = q
  BY DEF Path

LEMMA TrimStartFacts ==
    ASSUME NEW p \in Path
    PROVE  /\ TrimStart(p) \in Path /\ (~Odd(p) => ~Odd(TrimStart(p)))
           /\ ~Encoded(p) => ~Encoded(TrimStart(p))
           /\ TrimStart(p) # <<>> => TrimStart(p)[1] # "/"
           /\ p # <<>> /\ p[1] # "/" => TrimStart(p) = p
           /\ Len(p) >= 2 /\ p[1] = "/" /\ p[2] # "/" => TrimStart(p) = Tail(p)
  <1> DEFINE I == {i \in 1..Len(p) : p[i] # "/"}
  <1>1. Len(p) \in Nat /\ (p # <<>> => Len(p) >= 1)
    BY DEF Path
  <1>2. PICK f : f = IF I # {} THEN Min(I) ELSE 0
    OBVIOUS
  <1>3. TrimStart(p) = IF f = 0 THEN <<>> ELSE SubSeq(p, f, Len(p))
    BY <1>2 DEF TrimStart, SelectInSeq
  <1>4. CASE I = {}
    <2>0. <<>> \in Path /\ ~Odd(<<>>) /\ ~Encoded(<<>>)
      BY DEF Path, Odd, Encoded
    <2>1. TrimStart(p) = <<>> /\ ~(p # <<>> /\ p[1] # "/") /\ ~(Len(p) >= 2 /\ p[1] = "/" /\ p[2] # "/")
      BY <1>1, <1>2, <1>3, <1>4
    <2> QED
      BY <2>0, <2>1
  <1>5. CASE I # {}
    <2>0. I \in SUBSET Nat
      BY <1>1
    <2>1. PICK n \in I : \A m \in I : n <= m
      BY <1>5, <2>0, LeastNumber
    <2>2. f \in I /\ \A m \in I : f <= m
      BY <1>2, <1>5, <2>1 DEF Min
    <2>3. TrimStart(p) = SubSeq(p, f, Len(p)) /\ f \in 1..Len(p)
      BY <1>3, <2>2
    <2>4. /\ TrimStart(p) \in Path /\ (~Odd(p) => ~Odd(TrimStart(p)))
          /\ ~Encoded(p) => ~Encoded(TrimStart(p))
          /\ TrimStart(p) # <<>> => TrimStart(p)[1] # "/"
      <3>1. /\ TrimStart(p) \in Path /\ DOMAIN TrimStart(p) = 1..Len(p) - f + 1
            /\ \A i \in 1..Len(p) - f + 1 : TrimStart(p)[i] = p[f + i - 1]
        BY <1>1, <2>3 DEF Path
      <3>2. \A i \in 1..Len(p) - f + 1 : f + i - 1 \in 1..Len(p)
        BY <1>1, <2>3
      <3>3. DOMAIN p = 1..Len(p)
        BY DEF Path
      <3>4. /\ ~Odd(p) => ~Odd(TrimStart(p))
            /\ ~Encoded(p) => ~Encoded(TrimStart(p))
        BY <3>1, <3>2, <3>3 DEF Odd, Encoded
      <3>5. 1 \in 1..Len(p) - f + 1 /\ f + 1 - 1 = f
        BY <1>1, <2>3
      <3>6. TrimStart(p)[1] # "/"
        BY <2>2, <3>1, <3>5
      <3> QED
        BY <3>1, <3>4, <3>6
    <2>5. ASSUME p # <<>>, p[1] # "/" PROVE TrimStart(p) = p
      <3>1. f = 1
        BY <1>1, <2>2, <2>5
      <3> QED
        BY <2>3, <3>1 DEF Path
    <2>6. ASSUME Len(p) >= 2, p[1] = "/", p[2] # "/" PROVE TrimStart(p) = Tail(p)
      <3>1. f = 2
        BY <1>1, <2>2, <2>6
      <3> QED
        BY <2>3, <2>6, <3>1 DEF Path
    <2> QED
      BY <2>4, <2>5, <2>6
  <1> QED
    BY <1>4, <1>5

LEMMA TrimEndFacts ==
    ASSUME NEW p \in Path
    PROVE  /\ TrimEnd(p) \in Path
           /\ ~Odd(p) => ~Odd(TrimEnd(p))
  <1> DEFINE I == {i \in 1..Len(p) : p[i] # "/"}
  <1>1. Len(p) \in Nat /\ DOMAIN p = 1..Len(p)
    BY DEF Path
  <1>2. PICK f : f = IF I # {} THEN Max(I) ELSE 0
    OBVIOUS
  <1>3. TrimEnd(p) = SubSeq(p, 1, f)
    BY <1>2 DEF TrimEnd, SelectLastInSeq
  <1>4. f \in 0..Len(p)
    <2>1. CASE I = {}
      BY <1>1, <1>2, <2>1
    <2>2. CASE I # {}
      <3>1. I \in SUBSET (0..Len(p))
        BY <1>1
      <3>2. PICK n \in I : \A m \in I : m <= n
        BY <1>1, <2>2, <3>1, GreatestNumber
      <3>3. f \in I
        BY <1>2, <2>2, <3>2 DEF Max
      <3> QED
        BY <1>1, <3>3
    <2> QED
      BY <2>1, <2>2
  <1>5. /\ TrimEnd(p) \in Path /\ DOMAIN TrimEnd(p) = 1..f
        /\ \A i \in 1..f : TrimEnd(p)[i] = p[i]
    BY <1>1, <1>3, <1>4 DEF Path
  <1> QED
    BY <1>1, <1>4, <1>5 DEF Odd

-----------------------------------------------------------------------------
(* Positions.                                                              *)

\* The n-th of a finite set of positions is one of them.
LEMMA NthFacts ==
    ASSUME NEW K \in SUBSET Nat, IsFiniteSet(K), NEW n \in 1..Cardinality(K)
    PROVE  Nth(K, n) \in K
  <1> DEFINE Low(i) == {j \in K : j <= i}
             rank == [i \in K |-> Cardinality(Low(i))]
  <1>1. Cardinality(K) \in Nat
    BY FS_CardinalityType
  <1>2. ASSUME NEW i \in K
        PROVE  IsFiniteSet(Low(i)) /\ Cardinality(Low(i)) \in 1..Cardinality(K)
    <2>1. Low(i) \subseteq K /\ i \in Low(i)
      OBVIOUS
    <2>2. IsFiniteSet(Low(i)) /\ Cardinality(Low(i)) <= Cardinality(K)
      BY <2>1, FS_Subset
    <2>3. Cardinality(Low(i)) \in Nat /\ Cardinality(Low(i)) # 0
      BY <2>1, <2>2, FS_CardinalityType, FS_EmptySet
    <2> QED
      BY <1>1, <2>2, <2>3
  <1>3. ASSUME NEW i \in K, NEW k \in K, i < k
        PROVE  Cardinality(Low(i)) # Cardinality(Low(k))
    <2>1. k <= k /\ \A j \in K : j <= i => j <= k
      BY <1>3
    <2>2. Low(i) \in SUBSET Low(k) /\ k \in Low(k)
      BY <2>1
    <2>3. k \notin Low(i)
      <3>1. i \in Nat /\ k \in Nat
        OBVIOUS
      <3>2. ~(k <= i)
        BY <1>3, <3>1
      <3> QED
        BY <3>2
    <2>4. Low(i) # Low(k)
      BY <2>2, <2>3
    <2>5. IsFiniteSet(Low(k))
      BY <1>2
    <2> HIDE DEF Low
    <2> QED
      BY <2>2, <2>4, <2>5, FS_Subset
  <1>4. rank \in [K -> 1..Cardinality(K)]
    BY <1>2
  <1>5. ASSUME NEW i \in K, NEW k \in K, rank[i] = rank[k] PROVE i = k
    <2>1. Cardinality(Low(i)) = Cardinality(Low(k))
      BY <1>5
    <2>2. ~(i < k) /\ ~(k < i)
      BY <1>3, <2>1
    <2> QED
      BY <2>2
  <1>6. rank \in Injection(K, 1..Cardinality(K))
    BY <1>4, <1>5 DEF Injection, IsInjective
  <1>7. IsFiniteSet(1..Cardinality(K)) /\ Cardinality(1..Cardinality(K)) = Cardinality(K)
    BY <1>1, FS_Interval
  <1>8. rank \in Surjection(K, 1..Cardinality(K))
    BY <1>6, <1>7, FS_Injection
  <1>9. PICK i \in K : rank[i] = n
    BY <1>8 DEF Surjection
  <1>10. Cardinality({j \in K : j <= i}) = n
    BY <1>9
  <1> QED
    BY <1>10 DEF Nth

\* Picked tokens come from the positions.
LEMMA PickedFacts ==
    ASSUME NEW p \in Path, NEW K \in SUBSET (1..Len(p))
    PROVE  /\ Picked(p, K) \in Path
           /\ \A n \in DOMAIN Picked(p, K) : \E i \in K : Picked(p, K)[n] = p[i]
  <1>1. Len(p) \in Nat /\ \A i \in 1..Len(p) : p[i] \in Token
    BY DEF Path
  <1>2. IsFiniteSet(K) /\ Cardinality(K) \in Nat
    <2>1. IsFiniteSet(1..Len(p))
      BY <1>1, FS_Interval
    <2> QED
      BY <2>1, FS_Subset, FS_CardinalityType
  <1>3. K \in SUBSET Nat
    BY <1>1
  <1>4. ASSUME NEW n \in 1..Cardinality(K) PROVE Nth(K, n) \in K
    BY <1>2, <1>3, NthFacts
  <1>5. DOMAIN Picked(p, K) = 1..Cardinality(K)
        /\ \A n \in 1..Cardinality(K) : Picked(p, K)[n] = p[Nth(K, n)]
    BY DEF Picked
  <1>6. Picked(p, K) \in [1..Cardinality(K) -> Token]
    BY <1>1, <1>4 DEF Picked
  <1>7. Picked(p, K) \in Path
    BY <1>2, <1>6 DEF Path
  <1> QED
    BY <1>4, <1>5, <1>7

\* What percent-decoding makes of a path, and of its parts.
LEMMA DecodedFacts ==
    ASSUME NEW p \in Path
    PROVE  /\ Decoded(p) \in Path /\ Len(Decoded(p)) = Len(p) /\ DOMAIN Decoded(p) = 1..Len(p)
           /\ \A i \in 1..Len(p) : Decoded(p)[i] = DecodedToken(p[i])
  <1>1. Len(p) \in Nat /\ DOMAIN p = 1..Len(p)
    BY DEF Path
  <1>2. \A i \in 1..Len(p) : p[i] \in Token
    BY PathElement
  <1>3. \A i \in 1..Len(p) : DecodedToken(p[i]) \in Token
    BY <1>2, Tokens DEF DecodedToken
  <1>4. Decoded(p) \in [1..Len(p) -> Token]
    BY <1>1, <1>3 DEF Decoded
  <1>5. Decoded(p) \in Path /\ Len(Decoded(p)) = Len(p)
    BY <1>1, <1>4 DEF Path
  <1> QED
    BY <1>1, <1>4, <1>5 DEF Decoded

LEMMA DecodedEnd ==
    ASSUME NEW p \in Path, NEW m \in Nat, m >= 1
    PROVE  /\ Decoded(SubSeq(p, m, Len(p))) \in Path
           /\ Decoded(SubSeq(p, m, Len(p))) = SubSeq(Decoded(p), m, Len(p))
           /\ Encoded(Decoded(SubSeq(p, m, Len(p)))) => Encoded(Decoded(p))
  <1>1. PICK n \in Nat : n = Len(p)
    BY DEF Path
  <1>2. PICK d \in Path : d = Decoded(p) /\ Len(d) = n /\ DOMAIN d = 1..n
                          /\ \A i \in 1..n : d[i] = DecodedToken(p[i])
    BY <1>1, DecodedFacts
  <1>3. PICK k \in Nat : k = IF m <= n THEN n - m + 1 ELSE 0
    <2>1. (IF m <= n THEN n - m + 1 ELSE 0) \in Nat
      OBVIOUS
    <2> QED
      BY <2>1
  <1>4. \A i \in 1..k : i \in 1..n - m + 1 /\ m + i - 1 \in 1..n
    BY <1>3
  <1>5. PICK e \in Path : /\ e = SubSeq(p, m, n) /\ Len(e) = k
                          /\ \A i \in 1..k : e[i] = p[m + i - 1]
    <2>1. /\ SubSeq(p, m, n) \in Path /\ Len(SubSeq(p, m, n)) = IF m <= n THEN n - m + 1 ELSE 0
          /\ \A i \in 1..n - m + 1 : SubSeq(p, m, n)[i] = p[m + i - 1]
      BY <1>1, SubPath
    <2> QED
      BY <1>3, <1>4, <2>1
  <1>6. PICK u \in Path : /\ u = SubSeq(d, m, n) /\ Len(u) = k
                          /\ \A i \in 1..k : u[i] = d[m + i - 1]
    <2>1. /\ SubSeq(d, m, n) \in Path /\ Len(SubSeq(d, m, n)) = IF m <= n THEN n - m + 1 ELSE 0
          /\ \A i \in 1..n - m + 1 : SubSeq(d, m, n)[i] = d[m + i - 1]
      BY <1>2, SubPath
    <2> QED
      BY <1>3, <1>4, <2>1
  <1>7. PICK v \in Path : /\ v = Decoded(e) /\ Len(v) = k /\ DOMAIN v = 1..k
                          /\ \A i \in 1..k : v[i] = DecodedToken(e[i])
    BY <1>5, DecodedFacts
  <1>8. \A i \in 1..k : v[i] = u[i]
    BY <1>2, <1>4, <1>5, <1>6, <1>7
  <1>9. v = u
    BY <1>6, <1>7, <1>8, PathEqual
  <1>10. Encoded(v) => Encoded(d)
    BY <1>2, <1>4, <1>6, <1>7, <1>9 DEF Encoded
  <1> QED
    BY <1>1, <1>2, <1>5, <1>6, <1>7, <1>9, <1>10

LEMMA OddParts ==
    ASSUME NEW p
    PROVE  Odd(p) <=> Dotted(p) \/ Encoded(p)
  BY DEF Odd, Dotted, Encoded

\* The parser of URLs keeps a path that is not odd, and leaves none odd.
LEMMA NormalisedFacts ==
    ASSUME NEW p \in Path
    PROVE  /\ Normalised(p) \in Path /\ Normalised(p) # <<>> /\ ~Odd(Normalised(p))
           /\ p # <<>> /\ ~Odd(p) => Normalised(p) = p
           /\ (p # <<>> => p[1] = "/") => Normalised(p)[1] = "/"
  <1>1. CASE p = <<>>
    <2>1. Normalised(p) = <<"/">>
      BY <1>1 DEF Normalised
    <2> QED
      BY <1>1, <2>1, Slash
  <1>2. CASE p # <<>> /\ ~Odd(p)
    BY <1>2 DEF Normalised
  <1>3. CASE p # <<>> /\ Odd(p)
    <2> DEFINE q == [i \in DOMAIN p |-> Parsed(p[i])]
           names  == Split(Tail(q))
           at(i)  == Cardinality({j \in 1..i - 1 : q[j] = "/"})
           ups(n, m)   == {k \in n..m : names[k] = <<"..">>}
           downs(n, m) == {k \in n..m : names[k] \notin {<<".">>, <<"..">>}}
           stays(n) == \A m \in n..Len(names) : Cardinality(ups(n, m)) < Cardinality(downs(n, m))
           kept == {i \in 2..Len(p) : q[i] \notin {".", ".."} /\ stays(at(i))}
    <2>0. Normalised(p) = <<"/">> \o Picked(q, kept)
      BY <1>3, Zenon DEF Normalised
    <2>1. PICK K \in SUBSET (2..Len(p)) :
             /\ Normalised(p) = <<"/">> \o Picked(q, K)
             /\ \A i \in K : q[i] \notin {".", ".."}
      <3>1. kept \in SUBSET (2..Len(p)) /\ \A i \in kept : q[i] \notin {".", ".."}
        BY Zenon
      <3> QED
        BY <2>0, <3>1, Zenon
    <2> HIDE DEF kept, stays, downs, ups, at, names
    <2>2. q \in Path /\ Len(q) = Len(p) /\ DOMAIN q = 1..Len(p)
      <3>1. \A i \in 1..Len(p) : p[i] \in Token
        BY PathElement
      <3>2. \A i \in 1..Len(p) : Parsed(p[i]) \in Token
        BY <3>1, Tokens DEF Parsed
      <3> QED
        BY <3>2 DEF Path
    <2>3. \A i \in K : q[i] \notin {".", "..", "\\", "%2e", "%2e%2e"}
      <3>1. \A i \in DOMAIN p : q[i] \notin {"\\", "%2e", "%2e%2e"}
        BY DEF Parsed
      <3>2. DOMAIN p = 1..Len(p)
        BY DEF Path
      <3> HIDE DEF q
      <3>3. \A i \in K : i \in DOMAIN p
        BY <3>2
      <3> QED
        BY <2>1, <3>1, <3>3
    <2>4. K \in SUBSET (1..Len(q))
      BY <2>2
    <2> HIDE DEF q
    <2>5. Picked(q, K) \in Path /\ ~Odd(Picked(q, K))
      BY <2>2, <2>3, <2>4, PickedFacts DEF Odd
    <2>6. <<"/">> \in Path /\ ~Odd(<<"/">>) /\ Len(<<"/">>) = 1
      BY Slash
    <2>7. Normalised(p) \in Path /\ ~Odd(Normalised(p)) /\ Len(Normalised(p)) >= 1
          /\ Normalised(p)[1] = "/"
      <3>1. PICK r \in Path : r = Picked(q, K)
        BY <2>5
      <3>2. Len(r) \in Nat
        BY DEF Path
      <3>3. PICK o \in Path : o = <<"/">>
        BY <2>6
      <3>4. /\ o \o r \in Path /\ Len(o \o r) = 1 + Len(r) /\ (o \o r)[1] = o[1]
            /\ ~Odd(o \o r)
        BY <2>5, <2>6, <3>1, <3>2, <3>3, JoinedPath
      <3> QED
        BY <2>1, <3>1, <3>2, <3>3, <3>4
    <2> QED
      BY <1>3, <2>7
  <1> QED
    BY <1>1, <1>2, <1>3

-----------------------------------------------------------------------------
(* Prefixes and URLs.                                                      *)

LEMMA PrefixFacts ==
    ASSUME NEW a \in Path, NEW p \in Path, IsPrefix(a, p)
    PROVE  /\ Len(a) <= Len(p) /\ After(a, p) \in Path /\ a \o After(a, p) = p
           /\ ~Odd(p) => ~Odd(After(a, p))
  <1>1. Len(a) \in Nat /\ Len(p) \in Nat
    BY DEF Path
  <1>2. Len(a) <= Len(p) /\ \A i \in 1..Len(a) : a[i] = p[i]
    BY <1>1 DEF IsPrefix, Path
  <1>3. /\ After(a, p) \in Path /\ Len(After(a, p)) = Len(p) - Len(a)
        /\ \A i \in 1..Len(p) - Len(a) : After(a, p)[i] = p[Len(a) + i]
    BY <1>1, <1>2 DEF After, Path
  <1>4. PICK r \in Path : r = After(a, p)
    BY <1>3
  <1>5. a \o r = p
    <2>1. a \o r \in Path /\ Len(a \o r) = Len(p)
      BY <1>1, <1>2, <1>3, <1>4, JoinedPath
    <2>2. ASSUME NEW i \in 1..Len(p) PROVE (a \o r)[i] = p[i]
      <3>1. (a \o r)[i] = IF i <= Len(a) THEN a[i] ELSE r[i - Len(a)]
        BY <1>1, <1>2, <1>3, <1>4, JoinedPath
      <3>2. CASE i <= Len(a)
        BY <1>1, <1>2, <3>1, <3>2
      <3>3. CASE ~(i <= Len(a))
        <4>1. i - Len(a) \in 1..Len(p) - Len(a) /\ Len(a) + (i - Len(a)) = i
          BY <1>1, <1>2, <3>3
        <4> QED
          BY <1>3, <1>4, <3>1, <3>3, <4>1
      <3> QED
        BY <3>2, <3>3
    <2> QED
      BY <1>1, <2>1, <2>2, PathEqual
  <1>6. Odd(r) => Odd(p)
    BY <1>5, JoinedPath
  <1> QED
    BY <1>2, <1>3, <1>4, <1>5, <1>6

LEMMA AppendedFacts ==
    ASSUME NEW a \in Path, NEW r \in Path
    PROVE  IsPrefix(a, a \o r) /\ After(a, a \o r) = r
  <1>1. Len(a) \in Nat /\ Len(r) \in Nat
    BY DEF Path
  <1>2. PICK p \in Path : p = a \o r
    BY JoinedPath
  <1>3. /\ Len(p) = Len(a) + Len(r)
        /\ \A i \in 1..Len(a) + Len(r) : p[i] = IF i <= Len(a) THEN a[i] ELSE r[i - Len(a)]
    BY <1>2, JoinedPath
  <1>4. IsPrefix(a, p)
    <2>1. Len(a) <= Len(p) /\ \A i \in 1..Len(a) : a[i] = p[i]
      BY <1>1, <1>3
    <2>2. SubSeq(a, 1, Len(a)) = SubSeq(p, 1, Len(a))
      BY <1>1, <2>1 DEF Path
    <2> QED
      BY <2>1, <2>2 DEF IsPrefix
  <1>5. After(a, p) = r
    <2>1. /\ After(a, p) \in Path /\ Len(After(a, p)) = Len(p) - Len(a)
          /\ \A i \in 1..Len(p) - Len(a) : After(a, p)[i] = p[Len(a) + i]
      BY <1>1, <1>3 DEF After, Path
    <2>2. ASSUME NEW i \in 1..Len(r) PROVE After(a, p)[i] = r[i]
      <3>1. /\ i \in 1..Len(p) - Len(a) /\ Len(a) + i \in 1..Len(a) + Len(r)
            /\ ~(Len(a) + i <= Len(a)) /\ Len(a) + i - Len(a) = i
        BY <1>1, <1>3
      <3> QED
        BY <1>3, <2>1, <3>1
    <2>3. Len(p) - Len(a) = Len(r)
      BY <1>1, <1>3
    <2> QED
      BY <2>1, <2>2, <2>3, PathEqual
  <1> QED
    BY <1>2, <1>4, <1>5

LEMMA JoinedTwice ==
    ASSUME NEW a \in Path, NEW b \in Path, NEW c \in Path
    PROVE  (a \o b) \o c = a \o (b \o c)
  <1>1. Len(a) \in Nat /\ Len(b) \in Nat /\ Len(c) \in Nat
    BY DEF Path
  <1>2. PICK x \in Path, y \in Path : x = a \o b /\ y = b \o c
    BY JoinedPath
  <1>3. /\ Len(x) = Len(a) + Len(b) /\ Len(y) = Len(b) + Len(c)
        /\ \A i \in 1..Len(a) + Len(b) : x[i] = IF i <= Len(a) THEN a[i] ELSE b[i - Len(a)]
        /\ \A i \in 1..Len(b) + Len(c) : y[i] = IF i <= Len(b) THEN b[i] ELSE c[i - Len(b)]
    BY <1>2, JoinedPath
  <1>4. PICK u \in Path, v \in Path : u = x \o c /\ v = a \o y
    BY JoinedPath
  <1>5. /\ Len(u) = Len(x) + Len(c) /\ Len(v) = Len(a) + Len(y)
        /\ \A i \in 1..Len(x) + Len(c) : u[i] = IF i <= Len(x) THEN x[i] ELSE c[i - Len(x)]
        /\ \A i \in 1..Len(a) + Len(y) : v[i] = IF i <= Len(a) THEN a[i] ELSE y[i - Len(a)]
    BY <1>4, JoinedPath, SMTT(30)
  <1>6. ASSUME NEW i \in 1..Len(u) PROVE u[i] = v[i]
    <2>1. CASE i <= Len(a)
      BY <1>1, <1>3, <1>5, <2>1
    <2>2. CASE ~(i <= Len(a)) /\ i <= Len(a) + Len(b)
      BY <1>1, <1>3, <1>5, <2>2
    <2>3. CASE ~(i <= Len(a) + Len(b))
      <3>1. i - Len(x) = i - Len(a) - Len(b) /\ ~(i - Len(a) <= Len(b)) /\ ~(i <= Len(a))
            /\ i - Len(a) \in 1..Len(b) + Len(c)
        BY <1>1, <1>3, <1>5, <2>3
      <3>2. u[i] = c[i - Len(a) - Len(b)]
        BY <1>1, <1>3, <1>5, <2>3, <3>1
      <3>3. v[i] = y[i - Len(a)]
        BY <1>1, <1>3, <1>5, <2>3, <3>1
      <3> QED
        BY <1>3, <3>1, <3>2, <3>3
    <2> QED
      BY <2>1, <2>2, <2>3
  <1>7. Len(u) = Len(v)
    BY <1>1, <1>3, <1>5
  <1> QED
    BY <1>2, <1>4, <1>6, <1>7, PathEqual

\* URLs, and those that the server may ask: parsed, and with a path.
Urls == [scheme : Token, host : Token, path : Path]
Whole(url) == url \in Urls /\ url.path # <<>> /\ ~Odd(url.path)

LEMMA EndpointFacts ==
    ASSUME NEW base \in Endpoint
    PROVE  /\ base \in Urls /\ ~Odd(base.path)
           /\ base.host \notin {"/", ".", "..", "\\"} /\ base.scheme \in {"http", "https"}
           /\ DecodedToken(base.host) = base.host
  <1>1. /\ base \in [scheme : {"http", "https"}, host : STRING \ {"/", ".", "..", "\\"},
                     path : Seq(STRING)]
        /\ ~Odd(base.path) /\ DecodedToken(base.host) = base.host
    BY DEF Endpoint
  <1>2. base.scheme \in Token /\ base.host \in Token /\ base.path \in Path
    BY <1>1, Tokens, StringPaths
  <1>3. base = [scheme |-> base.scheme, host |-> base.host, path |-> base.path]
    BY <1>1
  <1> QED
    BY <1>1, <1>2, <1>3 DEF Urls

LEMMA SetPathFacts ==
    ASSUME NEW base \in Urls, NEW r \in Path
    PROVE  /\ Whole(SetPath(base, r)) /\ SameOrigin(base, SetPath(base, r))
           /\ SetPath(base, r).path = Normalised(r)
           /\ SetPath(base, r).host = base.host /\ SetPath(base, r).scheme = base.scheme
           /\ SetPath(base, r) = Url(base.scheme, base.host, Normalised(r))
  <1>1. SetPath(base, r) = [scheme |-> base.scheme, host |-> base.host, path |-> Normalised(r)]
    BY DEF SetPath, Urls
  <1>2. Normalised(r) \in Path /\ Normalised(r) # <<>> /\ ~Odd(Normalised(r))
    BY NormalisedFacts
  <1>3. base.scheme \in Token /\ base.host \in Token
    BY DEF Urls
  <1> QED
    BY <1>1, <1>2, <1>3 DEF Whole, Urls, SameOrigin, Url

\* A path below the base path of an endpoint, and what comes after that.
LEMMA BelowFacts ==
    ASSUME NEW base \in Urls, ~Odd(base.path), NEW r \in Path, r # <<>>, r[1] = "/", ~Odd(r)
    PROVE  /\ Whole(SetPath(base, TrimEnd(base.path) \o r))
           /\ SetPath(base, TrimEnd(base.path) \o r).path = TrimEnd(base.path) \o r
           /\ SameOrigin(base, SetPath(base, TrimEnd(base.path) \o r))
           /\ BelowEndpoint(base, SetPath(base, TrimEnd(base.path) \o r))
           /\ After(TrimEnd(base.path), SetPath(base, TrimEnd(base.path) \o r).path) = r
  <1>1. base.path \in Path
    BY DEF Urls
  <1>2. PICK t \in Path : t = TrimEnd(base.path) /\ ~Odd(t)
    BY <1>1, TrimEndFacts
  <1>3. PICK q \in Path : q = t \o r /\ ~Odd(q) /\ q # <<>>
    <2>1. t \o r \in Path /\ ~Odd(t \o r) /\ Len(t \o r) = Len(t) + Len(r)
      BY <1>2, JoinedPath
    <2>2. Len(t) \in Nat /\ Len(r) \in Nat /\ Len(r) # 0
      BY DEF Path
    <2>3. PICK z \in Path : z = t \o r
      BY <2>1
    <2>4. Len(z) # 0
      BY <2>1, <2>2, <2>3
    <2>5. z # <<>>
      BY <2>4
    <2> QED
      BY <2>1, <2>3, <2>5
  <1>4. Normalised(q) = q
    BY <1>3, NormalisedFacts
  <1>5. PICK url : url = SetPath(base, q)
    OBVIOUS
  <1>6. Whole(url) /\ url.path = q /\ SameOrigin(base, url)
    BY <1>4, <1>5, SetPathFacts
  <1>7. IsPrefix(t, q) /\ After(t, q) = r
    BY <1>3, AppendedFacts
  <1>8. BelowEndpoint(base, url)
    BY <1>2, <1>6, <1>7 DEF BelowEndpoint
  <1> QED
    BY <1>2, <1>3, <1>5, <1>6, <1>7, <1>8

LEMMA SlashBefore ==
    ASSUME NEW p \in Path
    PROVE  /\ <<"/">> \o p \in Path /\ <<"/">> \o p # <<>> /\ (<<"/">> \o p)[1] = "/"
           /\ Odd(<<"/">> \o p) <=> Odd(p)
           /\ Len(<<"/">> \o p) = Len(p) + 1
  <1>1. PICK o \in Path : o = <<"/">> /\ Len(o) = 1 /\ o[1] = "/" /\ ~Odd(o)
    BY Slash
  <1>2. Len(p) \in Nat
    BY DEF Path
  <1>3. /\ o \o p \in Path /\ Len(o \o p) = 1 + Len(p) /\ (Odd(o \o p) <=> Odd(o) \/ Odd(p))
        /\ (o \o p)[1] = o[1]
    BY <1>1, <1>2, JoinedPath
  <1>4. o \o p # <<>>
    BY <1>2, <1>3
  <1> QED
    BY <1>1, <1>2, <1>3, <1>4

LEMMA RepositoryFacts ==
    ASSUME NEW base \in Urls, ~Odd(base.path), NEW group, group[1] = base, NEW p \in Path, ~Odd(p)
    PROVE  /\ Whole(RepositoryUrl(group, p))
           /\ RepositoryUrl(group, p).path = TrimEnd(base.path) \o (<<"/">> \o p)
           /\ SameOrigin(base, RepositoryUrl(group, p)) /\ BelowEndpoint(base, RepositoryUrl(group, p))
           /\ After(TrimEnd(base.path), RepositoryUrl(group, p).path) = <<"/">> \o p
           /\ RepositoryUrl(group, p).host = base.host /\ RepositoryUrl(group, p).scheme = base.scheme
  <1>1. base.path \in Path
    BY DEF Urls
  <1>2. PICK t \in Path : t = TrimEnd(base.path)
    BY <1>1, TrimEndFacts
  <1>3. PICK r \in Path : r = <<"/">> \o p /\ r # <<>> /\ r[1] = "/" /\ ~Odd(r)
    BY SlashBefore
  <1>4. RepositoryUrl(group, p) = SetPath(base, t \o r)
    <2>1. PICK o \in Path : o = <<"/">>
      BY Slash
    <2>2. (t \o o) \o p = t \o (o \o p)
      BY JoinedTwice
    <2> QED
      BY <1>2, <1>3, <2>1, <2>2 DEF RepositoryUrl, SelectUpstream
  <1>5. t \o r \in Path
    BY JoinedPath
  <1>6. SetPath(base, t \o r).host = base.host /\ SetPath(base, t \o r).scheme = base.scheme
    BY <1>5, SetPathFacts
  <1> QED
    BY <1>2, <1>3, <1>4, <1>6, BelowFacts

\* Whatever the path, its URL stays at the origin of the endpoint.
LEMMA RepositoryOrigin ==
    ASSUME NEW base \in Urls, NEW group, group[1] = base, NEW p \in Path
    PROVE  /\ Whole(RepositoryUrl(group, p)) /\ SameOrigin(base, RepositoryUrl(group, p))
           /\ RepositoryUrl(group, p).host = base.host /\ RepositoryUrl(group, p).scheme = base.scheme
  <1>1. base.path \in Path
    BY DEF Urls
  <1>2. PICK t \in Path : t = TrimEnd(base.path)
    BY <1>1, TrimEndFacts
  <1>3. PICK o \in Path : o = <<"/">>
    BY Slash
  <1>4. PICK r \in Path : r = (t \o o) \o p
    BY JoinedPath
  <1>5. RepositoryUrl(group, p) = SetPath(base, r)
    BY <1>2, <1>3, <1>4 DEF RepositoryUrl, SelectUpstream
  <1> QED
    BY <1>5, SetPathFacts

-----------------------------------------------------------------------------
(* The configuration.                                                      *)

Keys == ToSet(UpstreamGroups)

LEMMA KeysListed ==
    /\ Len(UpstreamGroups) = 53 /\ DOMAIN UpstreamGroups = 1..53
    /\ OsTargets \subseteq Keys
    /\ {"maven", "github", "github_raw", "packagist", "npm", "nvm", "opam", "go_proxy", "rubygems",
        "rustup", "nuget", "cpan", "cran", "hackage", "julia", "luarocks", "clojars", "cocoapods",
        "pub_repository", "anaconda", "texlive", "winget", "huggingface", "elpa", "nix", "guix",
        "flatpak", "homebrew", "crates_index", "crates_api", "pypi_simple", "pypi_files"}
           \subseteq Keys
    /\ {"docker_hub", "ghcr", "quay", "kubernetes", "gcr", "mcr", "elastic", "gitlab", "nvcr",
        "oracle"} \subseteq Keys
  <1>1. Len(UpstreamGroups) = 53 /\ DOMAIN UpstreamGroups = 1..53
    BY DEF UpstreamGroups
  <1>2. \A i \in 1..53 : UpstreamGroups[i] \in Keys
    BY <1>1 DEF Keys, ToSet
  <1>3. /\ UpstreamGroups[1] = "maven" /\ UpstreamGroups[2] = "github"
        /\ UpstreamGroups[3] = "github_raw" /\ UpstreamGroups[4] = "packagist"
        /\ UpstreamGroups[5] = "docker_hub" /\ UpstreamGroups[6] = "ghcr"
        /\ UpstreamGroups[7] = "quay" /\ UpstreamGroups[8] = "kubernetes"
        /\ UpstreamGroups[9] = "gcr" /\ UpstreamGroups[10] = "mcr"
        /\ UpstreamGroups[11] = "elastic" /\ UpstreamGroups[12] = "gitlab"
        /\ UpstreamGroups[13] = "nvcr" /\ UpstreamGroups[14] = "oracle"
        /\ UpstreamGroups[15] = "npm" /\ UpstreamGroups[16] = "nvm"
        /\ UpstreamGroups[17] = "opam" /\ UpstreamGroups[18] = "go_proxy"
        /\ UpstreamGroups[19] = "rubygems" /\ UpstreamGroups[20] = "rustup"
        /\ UpstreamGroups[21] = "nuget" /\ UpstreamGroups[22] = "cpan"
        /\ UpstreamGroups[23] = "cran" /\ UpstreamGroups[24] = "hackage"
        /\ UpstreamGroups[25] = "julia" /\ UpstreamGroups[26] = "luarocks"
        /\ UpstreamGroups[27] = "clojars" /\ UpstreamGroups[28] = "cocoapods"
        /\ UpstreamGroups[29] = "pub_repository" /\ UpstreamGroups[30] = "anaconda"
        /\ UpstreamGroups[31] = "texlive" /\ UpstreamGroups[32] = "winget"
    BY DEF UpstreamGroups
  <1>4. /\ UpstreamGroups[33] = "huggingface" /\ UpstreamGroups[34] = "elpa"
        /\ UpstreamGroups[35] = "nix" /\ UpstreamGroups[36] = "guix"
        /\ UpstreamGroups[37] = "flatpak" /\ UpstreamGroups[38] = "homebrew"
        /\ UpstreamGroups[39] = "alpine" /\ UpstreamGroups[40] = "openwrt"
        /\ UpstreamGroups[41] = "termux" /\ UpstreamGroups[42] = "debian"
        /\ UpstreamGroups[43] = "ubuntu" /\ UpstreamGroups[44] = "fedora"
        /\ UpstreamGroups[45] = "archlinux" /\ UpstreamGroups[46] = "opensuse"
        /\ UpstreamGroups[47] = "void" /\ UpstreamGroups[48] = "gentoo"
        /\ UpstreamGroups[49] = "freebsd" /\ UpstreamGroups[50] = "crates_index"
        /\ UpstreamGroups[51] = "crates_api" /\ UpstreamGroups[52] = "pypi_simple"
        /\ UpstreamGroups[53] = "pypi_files"
    BY DEF UpstreamGroups
  <1>5. OsTargets \subseteq Keys
    BY <1>2, <1>4 DEF OsTargets
  <1>6. {"docker_hub", "ghcr", "quay", "kubernetes", "gcr", "mcr", "elastic", "gitlab", "nvcr",
         "oracle"} \subseteq Keys
    BY <1>2, <1>3
  <1>7. {"maven", "github", "github_raw", "packagist", "npm", "nvm", "opam", "go_proxy", "rubygems",
         "rustup", "nuget", "cpan", "cran", "hackage", "julia", "luarocks", "clojars"}
           \subseteq Keys
    BY <1>2, <1>3
  <1>8. {"cocoapods", "pub_repository", "anaconda", "texlive", "winget", "huggingface", "elpa",
         "nix", "guix", "flatpak", "homebrew", "crates_index", "crates_api", "pypi_simple",
         "pypi_files"} \subseteq Keys
    BY <1>2, <1>3, <1>4
  <1> QED
    BY <1>1, <1>5, <1>6, <1>7, <1>8

\* A group has endpoints, the first of which is asked.
LEMMA GroupFacts ==
    ASSUME NEW group \in Group
    PROVE  /\ Len(group) \in Nat /\ Len(group) >= 1 /\ DOMAIN group = 1..Len(group)
           /\ \A n \in 1..Len(group) : group[n] \in Endpoint
           /\ SelectUpstream(group) = group[1] /\ group[1] \in Endpoint
           /\ group[1] \in Urls /\ ~Odd(group[1].path)
  <1>1. group \in Seq(Endpoint) /\ group # <<>>
    BY DEF Group
  <1>2. /\ Len(group) \in Nat /\ Len(group) >= 1 /\ DOMAIN group = 1..Len(group)
        /\ \A n \in 1..Len(group) : group[n] \in Endpoint
    BY <1>1
  <1>3. group[1] \in Endpoint
    BY <1>2
  <1> QED
    BY <1>2, <1>3, EndpointFacts DEF SelectUpstream

LEMMA ConfigFacts ==
    ASSUME setting \in DOMAIN Settings
    PROVE  /\ \A key \in Keys : config.up[key] \in Group
           /\ config.extra \in Seq([name : Seq(STRING), group : Group])
           /\ Len(config.extra) \in Nat
           /\ \A i \in 1..Len(config.extra) : config.extra[i].group \in Group
  <1>1. config \in [on : SUBSET STRING, up : [Keys -> Group],
                    extra : Seq([name : Seq(STRING), group : Group])]
    BY SettingsAssumption DEF config, Keys
  <1>2. PICK R : R = [name : Seq(STRING), group : Group]
    OBVIOUS
  <1>3. config.up \in [Keys -> Group] /\ config.extra \in Seq(R)
    BY <1>1, <1>2
  <1>4. \A r \in R : r.group \in Group
    BY <1>2
  <1>5. Len(config.extra) \in Nat /\ \A i \in 1..Len(config.extra) : config.extra[i] \in R
    BY <1>3
  <1> QED
    BY <1>2, <1>3, <1>4, <1>5

LEMMA FunctionIsSeq ==
    ASSUME NEW S, NEW n \in Nat, NEW f \in [1..n -> S]
    PROVE  f \in Seq(S)
  OBVIOUS

LEMMA ConfiguredFacts ==
    ASSUME setting \in DOMAIN Settings
    PROVE  /\ Len(Configured) \in Nat /\ DOMAIN Configured = 1..Len(Configured)
           /\ \A i \in DOMAIN Configured : Configured[i] \in Group
  <1> DEFINE own == [i \in 1..Len(UpstreamGroups) |-> config.up[UpstreamGroups[i]]]
             more == [i \in 1..Len(config.extra) |-> config.extra[i].group]
  <1>1. own \in Seq(Group)
    <2>1. \A i \in 1..53 : UpstreamGroups[i] \in Keys
      BY KeysListed DEF Keys, ToSet
    <2>2. \A i \in 1..53 : config.up[UpstreamGroups[i]] \in Group
      BY <2>1, ConfigFacts
    <2>3. own \in [1..53 -> Group]
      BY <2>2, KeysListed
    <2> HIDE DEF own
    <2> QED
      BY <2>3, FunctionIsSeq
  <1>2. more \in Seq(Group)
    BY ConfigFacts
  <1>3. Configured = own \o more
    BY DEF Configured
  <1>4. own \o more \in Seq(Group)
    BY <1>1, <1>2
  <1> HIDE DEF own, more
  <1> QED
    BY <1>3, <1>4

-----------------------------------------------------------------------------
(* Candidates.                                                             *)

LEMMA BoundExists ==
    ASSUME NEW n \in Nat, NEW f \in [1..n -> Nat]
    PROVE  \E b \in Nat : \A i \in 1..n : f[i] <= b
  <1> DEFINE Bounded(m) == \E b \in Nat : \A i \in 1..m : f[i] <= b
             U == {m \in 0..n : ~Bounded(m)}
  <1>1. SUFFICES ASSUME ~Bounded(n) PROVE FALSE
    OBVIOUS
  <1>2. U # {}
    <2>1. n \in 0..n
      OBVIOUS
    <2> HIDE DEF Bounded
    <2> QED
      BY <1>1, <2>1
  <1>3. U \in SUBSET Nat
    OBVIOUS
  <1>4. PICK m \in U : \A k \in U : m <= k
    <2> HIDE DEF U
    <2> QED
      BY <1>2, <1>3, LeastNumber
  <1>5. m # 0
    <2>1. Bounded(0)
      <3>1. 0 \in Nat /\ \A i \in 1..0 : f[i] <= 0
        OBVIOUS
      <3> QED
        BY <3>1
    <2> QED
      BY <2>1
  <1>6. m \in 1..n /\ m - 1 \in 0..n /\ ~(m <= m - 1)
    BY <1>5
  <1>7. Bounded(m - 1)
    BY <1>4, <1>6
  <1>8. PICK b \in Nat : \A i \in 1..m - 1 : f[i] <= b
    BY <1>7
  <1>9. PICK c \in Nat : b <= c /\ f[m] <= c
    <2>1. PICK y \in Nat : y = f[m]
      BY <1>6
    <2>2. b <= b + y /\ y <= b + y /\ b + y \in Nat
      OBVIOUS
    <2> QED
      BY <2>1, <2>2
  <1>10. ASSUME NEW i \in 1..m PROVE f[i] <= c
    <2>1. CASE i = m
      BY <1>9, <2>1
    <2>2. CASE i # m
      <3>1. i \in 1..m - 1 /\ f[i] \in Nat
        BY <1>6, <2>2
      <3>2. f[i] <= b
        BY <1>8, <3>1
      <3> QED
        BY <1>9, <3>1, <3>2
    <2> QED
      BY <2>1, <2>2
  <1>11. Bounded(m)
    BY <1>10
  <1> QED
    BY <1>4, <1>11

\* Among some positions there is a first one of the longest.
LEMMA BestExists ==
    ASSUME NEW n \in Nat, NEW f \in [1..n -> Nat], NEW S \in SUBSET (1..n), S # {}
    PROVE  \E i \in S : \A j \in S : f[i] > f[j] \/ (f[i] = f[j] /\ i <= j)
  <1>1. PICK b \in Nat : \A i \in 1..n : f[i] <= b
    BY BoundExists
  <1> DEFINE L == {f[i] : i \in S}
  <1>2. L \in SUBSET (0..b) /\ L # {}
    <2>1. \A i \in S : f[i] \in 0..b
      BY <1>1
    <2> QED
      BY <2>1
  <1>3. PICK x \in L : \A y \in L : y <= x
    <2> HIDE DEF L
    <2> QED
      BY <1>2, GreatestNumber
  <1> DEFINE T == {i \in S : f[i] = x}
  <1>4. T \in SUBSET Nat /\ T # {}
    <2>1. T # {}
      BY <1>3
    <2>2. \A i \in S : i \in Nat
      OBVIOUS
    <2> QED
      BY <2>1, <2>2
  <1>5. PICK i \in T : \A j \in T : i <= j
    <2> HIDE DEF T
    <2> QED
      BY <1>4, LeastNumber
  <1>6. ASSUME NEW j \in S PROVE f[i] > f[j] \/ (f[i] = f[j] /\ i <= j)
    <2>1. f[j] \in Nat /\ f[i] \in Nat /\ f[j] <= x /\ f[i] = x
      BY <1>3, <1>5
    <2>2. CASE f[j] = x
      BY <1>5, <2>1, <2>2
    <2>3. CASE f[j] # x
      BY <2>1, <2>3
    <2> QED
      BY <2>2, <2>3
  <1> QED
    BY <1>5, <1>6

\* What CandidatesAgree says of a URL and its candidates.
Agreeing(url, candidates) ==
    /\ candidates[1] = url
    /\ \A n \in DOMAIN candidates \ {1} :
          \E i \in DOMAIN Configured : \E k \in 0..Len(url.path) :
             LET rest == SubSeq(url.path, k + 1, Len(url.path))
                 At(m) == SetPath(Configured[i][m], TrimEnd(Configured[i][m].path) \o rest)
             IN  /\ n \in DOMAIN Configured[i]
                 /\ rest # <<>> => rest[1] = "/"
                 /\ url = At(1) /\ candidates[n] = At(n)

LEMMA OneCandidate ==
    ASSUME NEW url \in Urls
    PROVE  Agreeing(url, <<url>>) /\ <<url>> \in Seq(Urls) /\ <<url>> # <<>>
  <1>1. <<url>>[1] = url /\ DOMAIN <<url>> \ {1} = {}
    OBVIOUS
  <1> QED
    BY <1>1 DEF Agreeing

\* The candidates for a URL.
LEMMA CandidatesFacts ==
    ASSUME setting \in DOMAIN Settings, NEW url, Whole(url)
    PROVE  /\ CandidatesFor(url) \in Seq(Urls) /\ CandidatesFor(url) # <<>>
           /\ Agreeing(url, CandidatesFor(url))
  <1> DEFINE groups == Configured
             suitable == {i \in DOMAIN groups : BelowEndpoint(groups[i][1], url)}
  <1>1. url \in Urls /\ url.path \in Path /\ url.path # <<>> /\ ~Odd(url.path)
    BY DEF Whole, Urls
  <1>2. CASE suitable = {}
    <2>1. CandidatesFor(url) = <<url>>
      BY <1>2 DEF CandidatesFor
    <2> QED
      BY <1>1, <2>1, OneCandidate
  <1>3. CASE suitable # {}
    <2> DEFINE Better(i, j) ==
                  LET a == Len(groups[i][1].path)  b == Len(groups[j][1].path)
                  IN  a > b \/ (a = b /\ i <= j)
               best == CHOOSE i \in suitable : \A j \in suitable : Better(i, j)
    <2>1. PICK first \in suitable : \A j \in suitable : Better(first, j)
      <3> DEFINE f == [i \in 1..Len(groups) |-> Len(groups[i][1].path)]
      <3>1. Len(groups) \in Nat /\ DOMAIN groups = 1..Len(groups)
        BY ConfiguredFacts
      <3>2. \A i \in 1..Len(groups) : Len(groups[i][1].path) \in Nat
        <4> TAKE i \in 1..Len(groups)
        <4>1. groups[i] \in Group
          BY <3>1, ConfiguredFacts
        <4>2. groups[i][1].path \in Path
          BY <4>1, GroupFacts DEF Urls
        <4> QED
          BY <4>2 DEF Path
      <3>3. f \in [1..Len(groups) -> Nat]
        BY <3>2
      <3>4. suitable \in SUBSET (1..Len(groups))
        BY <3>1
      <3>5. \E i \in suitable : \A j \in suitable : f[i] > f[j] \/ (f[i] = f[j] /\ i <= j)
        <4> HIDE DEF f, suitable, groups
        <4> QED
          BY <1>3, <3>1, <3>3, <3>4, BestExists
      <3>6. \A i \in suitable : f[i] = Len(groups[i][1].path)
        BY <3>4
      <3> HIDE DEF suitable, groups, f
      <3> QED
        BY <3>5, <3>6
    <2>2. best \in suitable
      <3> HIDE DEF suitable, Better
      <3> QED
        BY <2>1
    <2>3. PICK b : b = best /\ b \in DOMAIN Configured /\ BelowEndpoint(Configured[b][1], url)
      BY <2>2
    <2>4. PICK g \in Group : g = Configured[b]
      BY <2>3, ConfiguredFacts
    <2>5. PICK t \in Path : t = TrimEnd(g[1].path)
      BY GroupFacts, TrimEndFacts DEF Urls
    <2>6. PICK rest : rest = After(t, url.path)
      OBVIOUS
    <2>7. CandidatesFor(url) = [n \in DOMAIN g |-> SetPath(g[n], TrimEnd(g[n].path) \o rest)]
      <3>1. CandidatesFor(url) =
               [n \in DOMAIN Configured[best] |->
                  SetPath(Configured[best][n], TrimEnd(Configured[best][n].path)
                              \o After(TrimEnd(Configured[best][1].path), url.path))]
        BY <1>3, Zenon DEF CandidatesFor
      <3> HIDE DEF best
      <3> QED
        BY <2>3, <2>4, <2>5, <2>6, <3>1
    <2> HIDE DEF best, suitable, groups
    <2>8. IsPrefix(t, url.path) /\ SameOrigin(g[1], url) /\ (rest # <<>> => rest[1] = "/")
      BY <2>3, <2>4, <2>5, <2>6 DEF BelowEndpoint
    <2>9. rest \in Path /\ t \o rest = url.path /\ Len(t) <= Len(url.path)
      BY <1>1, <2>6, <2>8, PrefixFacts
    <2>10. Len(t) \in 0..Len(url.path) /\ rest = SubSeq(url.path, Len(t) + 1, Len(url.path))
      <3>1. Len(t) \in Nat /\ Len(url.path) \in Nat
        BY <1>1 DEF Path
      <3> QED
        BY <2>6, <2>9, <3>1 DEF After
    <2>11. url = SetPath(g[1], t \o rest)
      <3>1. SetPath(g[1], t \o rest) = Url(g[1].scheme, g[1].host, url.path)
        BY <1>1, <2>9, GroupFacts, SetPathFacts, NormalisedFacts
      <3>2. url = [scheme |-> url.scheme, host |-> url.host, path |-> url.path]
        BY <1>1 DEF Urls
      <3> QED
        BY <2>8, <3>1, <3>2 DEF SameOrigin, Url
    <2>12. \A n \in DOMAIN g : SetPath(g[n], TrimEnd(g[n].path) \o rest) \in Urls
      <3> TAKE n \in DOMAIN g
      <3>1. g[n] \in Urls
        BY GroupFacts, EndpointFacts
      <3>2. TrimEnd(g[n].path) \o rest \in Path
        BY <2>9, <3>1, TrimEndFacts, JoinedPath DEF Urls
      <3> QED
        BY <3>1, <3>2, SetPathFacts DEF Whole
    <2>13. PICK c : c = CandidatesFor(url)
      OBVIOUS
    <2>14. c \in [1..Len(g) -> Urls] /\ c[1] = url /\ DOMAIN c = DOMAIN g
      BY <2>5, <2>7, <2>11, <2>12, <2>13, GroupFacts
    <2>15. c \in Seq(Urls) /\ c # <<>>
      BY <2>14, GroupFacts
    <2>16. Agreeing(url, c)
      <3>1. ASSUME NEW n \in DOMAIN c \ {1}
            PROVE  \E i \in DOMAIN Configured : \E k \in 0..Len(url.path) :
                      LET s == SubSeq(url.path, k + 1, Len(url.path))
                          At(m) == SetPath(Configured[i][m], TrimEnd(Configured[i][m].path) \o s)
                      IN  /\ n \in DOMAIN Configured[i]
                          /\ s # <<>> => s[1] = "/"
                          /\ url = At(1) /\ c[n] = At(n)
        <4>1. n \in DOMAIN g /\ c[n] = SetPath(g[n], TrimEnd(g[n].path) \o rest)
          BY <2>7, <2>13, <2>14
        <4> QED
          BY <2>3, <2>4, <2>5, <2>8, <2>10, <2>11, <4>1
      <3> QED
        BY <2>14, <3>1 DEF Agreeing
    <2> QED
      BY <2>13, <2>15, <2>16
  <1> QED
    BY <1>2, <1>3

-----------------------------------------------------------------------------
(* Answers.                                                                *)

Kinds == {"none", "npm", "pypi", "composer", "nuget", "pub", "huggingface", "crates"}

\* The adapters that only put a path below the base path of their upstream.
Repositories == {"anaconda", "clojars", "cocoapods", "cpan", "cran", "elpa", "flatpak", "guix",
                 "hackage", "homebrew", "julia", "luarocks", "maven", "nix", "nvm", "opam",
                 "rustup", "texlive", "winget"}

\* What every answer of an adapter has.
Sound(adapter, loose, g) ==
    /\ g = [result |-> g.result, adapter |-> adapter, url |-> g.url, rewrites |-> g.rewrites,
            candidates |-> g.candidates]
    /\ g.url \in Urls /\ g.rewrites \in Kinds /\ g.candidates \in {<<>>, <<g.url>>}
    /\ g.result = "fetch" => Whole(g.url) /\ ~Arbitrary(adapter, loose, g.url)
    /\ g.result = "below" => adapter \in Repositories /\ (Encoded(g.url.path) => loose)

LEMMA NoUrlFacts == NoUrl \in Urls
  <1>1. <<>> \in Path
    BY DEF Path
  <1>2. "" \in Token
    BY Tokens
  <1> QED
    BY <1>1, <1>2 DEF NoUrl, Url, Urls

LEMMA RefuseSound ==
    ASSUME NEW adapter, NEW loose \in BOOLEAN, NEW error, error \notin {"fetch", "below"}
    PROVE  Sound(adapter, loose, Refuse(adapter, error)) /\ Refuse(adapter, error).result = error
  BY NoUrlFacts DEF Sound, Refuse, Kinds

LEMMA OwnSound ==
    ASSUME NEW adapter, NEW loose \in BOOLEAN, NEW kind \in Kinds
    PROVE  Sound(adapter, loose, Own(adapter, kind))
  BY NoUrlFacts DEF Sound, Own

LEMMA FetchSound ==
    ASSUME NEW adapter, NEW loose \in BOOLEAN, NEW url, Whole(url), ~Arbitrary(adapter, loose, url), NEW kind \in Kinds
    PROVE  Sound(adapter, loose, Fetch(adapter, url, kind))
  <1>1. url \in Urls
    BY DEF Whole
  <1> QED
    BY <1>1 DEF Sound, Fetch

LEMMA CheckedSound ==
    ASSUME NEW adapter, NEW loose \in BOOLEAN, NEW sane \in BOOLEAN, NEW answer, sane => Sound(adapter, loose, answer)
    PROVE  Sound(adapter, loose, Checked(adapter, sane, answer))
  <1>1. Sound(adapter, loose, Refuse(adapter, "Disabled")) /\ Sound(adapter, loose, Refuse(adapter, "InvalidUrl"))
    BY RefuseSound
  <1> QED
    BY <1>1 DEF Checked

LEMMA RepositorySound ==
    ASSUME NEW adapter \in Repositories, NEW p \in Path,
           NEW loose \in BOOLEAN, Encoded(p) => loose
    PROVE  Sound(adapter, loose, Repository(adapter, p))
  <1>1. Url("", "", p) \in Urls /\ Url("", "", p).path = p
    BY Tokens DEF Url, Urls
  <1> QED
    BY <1>1 DEF Sound, Repository, Kinds

LEMMA FetchWithSound ==
    ASSUME NEW method, NEW adapter, NEW loose \in BOOLEAN, NEW url, Whole(url),
           ~Arbitrary(adapter, loose, url)
    PROVE  Sound(adapter, loose, FetchWith(method, adapter, url))
  <1>1. Sound(adapter, loose, Fetch(adapter, url, "none"))
    BY FetchSound DEF Kinds
  <1>2. Sound(adapter, loose, [Fetch(adapter, url, "none") EXCEPT !.candidates = <<url>>])
    <2>1. url \in Urls
      BY DEF Whole
    <2> QED
      BY <2>1 DEF Sound, Fetch, Kinds
  <1> QED
    BY <1>1, <1>2 DEF FetchWith

\* URLs at or below an endpoint of the adapter.
LEMMA BuildFacts ==
    ASSUME setting \in DOMAIN Settings, NEW adapter \in Replacing,
           NEW key \in KeysOf(adapter), key \in Keys, NEW r \in Path, NEW loose \in BOOLEAN
    PROVE  /\ Whole(BuildUrl(config.up[key], r)) /\ ~Arbitrary(adapter, loose, BuildUrl(config.up[key], r))
           /\ SameOrigin(config.up[key][1], BuildUrl(config.up[key], r))
           /\ BuildUrl(config.up[key], r).path = Normalised(r)
           /\ BuildUrl(config.up[key], r).host = config.up[key][1].host
  <1>1. PICK g \in Group : g = config.up[key]
    BY ConfigFacts
  <1>2. PICK url : url = SetPath(g[1], r)
    OBVIOUS
  <1>3. Whole(url) /\ SameOrigin(g[1], url) /\ url.path = Normalised(r) /\ url.host = g[1].host
    BY <1>2, GroupFacts, SetPathFacts
  <1>4. BuildUrl(config.up[key], r) = url
    BY <1>1, <1>2 DEF BuildUrl, SelectUpstream
  <1>5. g[1] \in EndpointsOf(adapter)
    BY <1>1 DEF EndpointsOf, SelectUpstream
  <1>6. ~Arbitrary(adapter, loose, url)
    BY <1>3, <1>5 DEF Arbitrary
  <1> QED
    BY <1>1, <1>3, <1>4, <1>6

LEMMA GroupBelow ==
    ASSUME setting \in DOMAIN Settings, NEW adapter, adapter \notin Replacing, NEW g \in Group,
           SelectUpstream(g) \in EndpointsOf(adapter), NEW p \in Path,
           NEW loose \in BOOLEAN, Odd(p) => loose
    PROVE  Whole(RepositoryUrl(g, p)) /\ ~Arbitrary(adapter, loose, RepositoryUrl(g, p))
  <1>1. g[1] \in Urls /\ ~Odd(g[1].path) /\ SelectUpstream(g) = g[1]
    BY GroupFacts
  <1>2. Whole(RepositoryUrl(g, p)) /\ SameOrigin(g[1], RepositoryUrl(g, p))
    BY <1>1, RepositoryOrigin
  <1>3. ~Odd(p) => BelowEndpoint(g[1], RepositoryUrl(g, p))
    BY <1>1, RepositoryFacts
  <1> QED
    BY <1>1, <1>2, <1>3 DEF Arbitrary

LEMMA KeyBelow ==
    ASSUME setting \in DOMAIN Settings, NEW adapter, adapter \notin Replacing,
           NEW key \in KeysOf(adapter), key \in Keys, NEW p \in Path,
           NEW loose \in BOOLEAN, Odd(p) => loose
    PROVE  /\ Whole(RepositoryUrl(config.up[key], p))
           /\ ~Arbitrary(adapter, loose, RepositoryUrl(config.up[key], p))
  <1>1. PICK g \in Group : g = config.up[key]
    BY ConfigFacts
  <1>2. SelectUpstream(g) \in EndpointsOf(adapter)
    BY <1>1 DEF EndpointsOf
  <1> QED
    BY <1>1, <1>2, GroupBelow

LEMMA BelowUpstreamSound ==
    ASSUME setting \in DOMAIN Settings, NEW adapter \in Repositories, NEW path \in Path,
           NEW loose \in BOOLEAN, Encoded(path) => loose
    PROVE  Sound(adapter, loose, BelowUpstream(adapter, path)) /\ BelowUpstream(adapter, path).result # "below"
  <1>1. adapter \in KeysOf(adapter) /\ adapter \in Keys /\ adapter \notin Replacing
    <2>1. adapter \in Keys
      BY KeysListed DEF Repositories
    <2>2. adapter \in KeysOf(adapter)
      BY DEF KeysOf, Repositories
    <2>3. adapter \notin Replacing
      BY DEF Replacing, Repositories
    <2> QED
      BY <2>1, <2>2, <2>3
  <1>2. PICK p \in Path : p = TrimStart(path)
    BY TrimStartFacts
  <1>3. PICK url : url = RepositoryUrl(config.up[adapter], p)
    OBVIOUS
  <1>4. ASSUME SanitizeRepositoryPath(p)
        PROVE  Sound(adapter, loose, Fetch(adapter, url, "none"))
    <2>1. Odd(p) => loose
      BY <1>2, <1>4, TrimStartFacts, OddParts DEF SanitizeRepositoryPath
    <2> QED
      BY <1>1, <1>3, <2>1, KeyBelow, FetchSound DEF Kinds
  <1>5. BelowUpstream(adapter, path) = Checked(adapter, SanitizeRepositoryPath(p), Fetch(adapter, url, "none"))
    BY <1>2, <1>3 DEF BelowUpstream
  <1>6. SanitizeRepositoryPath(p) \in BOOLEAN
    BY DEF SanitizeRepositoryPath, Dotted, Gap
  <1> QED
    <2>1. PICK sane \in BOOLEAN : sane = SanitizeRepositoryPath(p)
      BY <1>6
    <2>2. PICK answer : answer = Fetch(adapter, url, "none")
      OBVIOUS
    <2>3. BelowUpstream(adapter, path) = Checked(adapter, sane, answer)
      BY <1>5, <2>1, <2>2
    <2>4. sane => Sound(adapter, loose, answer)
      BY <1>4, <2>1, <2>2
    <2>5. Sound(adapter, loose, BelowUpstream(adapter, path))
      BY <2>3, <2>4, CheckedSound
    <2>6. answer.result = "fetch"
      BY <2>2 DEF Fetch
    <2>7. Checked(adapter, sane, answer).result \in {"Disabled", "InvalidUrl", "fetch"}
      BY <2>6 DEF Checked, Refuse
    <2> QED
      BY <2>3, <2>5, <2>7

LEMMA SanitizeFacts ==
    ASSUME NEW p \in Path
    PROVE  /\ SanitizeRepositoryPath(p) \in BOOLEAN
           /\ SanitizeRepositoryPath(p) => p # <<>> /\ ~Dotted(p) /\ ~Gap(p)
  BY DEF SanitizeRepositoryPath, Dotted, Gap

LEMMA RubyGemsSound ==
    ASSUME setting \in DOMAIN Settings, NEW path \in Path, NEW loose \in BOOLEAN
    PROVE  Sound("rubygems", loose, RubyGems(path))
  <1>1. PICK p \in Path : p = TrimStart(path)
    BY TrimStartFacts
  <1>2. "rubygems" \in KeysOf("rubygems") /\ "rubygems" \in Keys /\ "rubygems" \in Replacing
    BY KeysListed DEF KeysOf, Replacing
  <1>3. PICK answer : answer = Fetch("rubygems", BuildUrl(config.up["rubygems"], <<"/">> \o p), "none")
    OBVIOUS
  <1>4. Sound("rubygems", loose, answer)
    BY <1>2, <1>3, SlashBefore, BuildFacts, FetchSound DEF Kinds
  <1>5. PICK sane \in BOOLEAN : sane = SanitizeRepositoryPath(p)
    BY SanitizeFacts
  <1>6. RubyGems(path) = Checked("rubygems", sane, answer)
    BY <1>1, <1>3, <1>5 DEF RubyGems
  <1> QED
    BY <1>4, <1>6, CheckedSound

LEMMA GoSound ==
    ASSUME setting \in DOMAIN Settings, NEW path \in Path, NEW loose \in BOOLEAN
    PROVE  Sound("go", loose, Go(path))
  <1>1. PICK p \in Path : p = TrimStart(path)
    BY TrimStartFacts
  <1>2. "go_proxy" \in KeysOf("go") /\ "go_proxy" \in Keys /\ "go" \in Replacing
    BY KeysListed DEF KeysOf, Replacing
  <1>3. PICK answer : answer = Fetch("go", BuildUrl(config.up["go_proxy"], <<"/">> \o p), "none")
    OBVIOUS
  <1>4. Sound("go", loose, answer)
    BY <1>2, <1>3, SlashBefore, BuildFacts, FetchSound DEF Kinds
  <1>5. PICK sane \in BOOLEAN :
           sane = (/\ SanitizeRepositoryPath(p)
                   /\ (Within(<<"/", "@v", "/">>, p) \/ IsChecksumDatabasePath(p)))
    OBVIOUS
  <1>6. Go(path) = Checked("go", sane, answer)
    BY <1>1, <1>3, <1>5 DEF Go
  <1> QED
    BY <1>4, <1>6, CheckedSound

LEMMA NpmSound ==
    ASSUME setting \in DOMAIN Settings, NEW path \in Path, NEW method, NEW loose \in BOOLEAN
    PROVE  Sound("npm", loose, Npm(path, method))
  <1>1. PICK p \in Path : p = TrimStart(path)
    BY TrimStartFacts
  <1>2. "npm" \in KeysOf("npm") /\ "npm" \in Keys /\ "npm" \in Replacing
    BY KeysListed DEF KeysOf, Replacing
  <1>3. PICK url : url = BuildUrl(config.up["npm"], <<"/">> \o p)
    OBVIOUS
  <1>4. /\ Sound("npm", loose, Fetch("npm", url, "npm"))
        /\ Sound("npm", loose, FetchWith(method, "npm", url))
        /\ Sound("npm", loose, Refuse("npm", "MethodNotAllowed"))
    BY <1>2, <1>3, SlashBefore, BuildFacts, FetchSound, FetchWithSound, RefuseSound DEF Kinds
  <1>5. PICK answer : answer = IF IsMetadataRequest(p) THEN Fetch("npm", url, "npm")
                ELSE IF method = "POST" /\ ~IsAuditRequest(p) THEN Refuse("npm", "MethodNotAllowed")
                ELSE FetchWith(method, "npm", url)
    OBVIOUS
  <1>6. Sound("npm", loose, answer)
    BY <1>4, <1>5
  <1>7. PICK sane \in BOOLEAN : sane = ~Dotted(p)
    OBVIOUS
  <1>8. Npm(path, method) = Checked("npm", sane, answer)
    BY <1>1, <1>3, <1>5, <1>7 DEF Npm
  <1> QED
    BY <1>6, <1>8, CheckedSound

LEMMA PypiSound ==
    ASSUME setting \in DOMAIN Settings, NEW path \in Path,
           NEW loose \in BOOLEAN, Encoded(path) => loose
    PROVE  Sound("pypi", loose, PypiFile(path)) /\ Sound("pypi", loose, PypiSimple(path))
  <1>1. PICK p \in Path : p = TrimStart(path)
    BY TrimStartFacts
  <1>2. /\ "pypi_files" \in KeysOf("pypi") /\ "pypi_simple" \in KeysOf("pypi")
        /\ "pypi_files" \in Keys /\ "pypi_simple" \in Keys /\ "pypi" \notin Replacing
    BY KeysListed DEF KeysOf, Replacing
  <1>3. PICK sane \in BOOLEAN : sane = ~Dotted(path)
    OBVIOUS
  <1>4. sane => (Odd(p) => loose)
    BY <1>1, <1>3, TrimStartFacts, OddParts
  <1>5. PICK file, index : /\ file = Fetch("pypi", RepositoryUrl(config.up["pypi_files"], p), "none")
                           /\ index = Fetch("pypi", RepositoryUrl(config.up["pypi_simple"], p), "pypi")
    OBVIOUS
  <1>6. sane => Sound("pypi", loose, file) /\ Sound("pypi", loose, index)
    BY <1>2, <1>4, <1>5, KeyBelow, FetchSound DEF Kinds
  <1>7. PypiFile(path) = Checked("pypi", sane, file) /\ PypiSimple(path) = Checked("pypi", sane, index)
    BY <1>1, <1>3, <1>5 DEF PypiFile, PypiSimple
  <1> QED
    BY <1>6, <1>7, CheckedSound

LEMMA ComposerSound ==
    ASSUME setting \in DOMAIN Settings, NEW path \in Path, NEW loose \in BOOLEAN
    PROVE  Sound("composer", loose, Composer(path))
  <1>1. PICK p \in Path : p = TrimStart(path)
    BY TrimStartFacts
  <1>2. "packagist" \in KeysOf("composer") /\ "packagist" \in Keys /\ "composer" \in Replacing
    BY KeysListed DEF KeysOf, Replacing
  <1>3. PICK url : url = BuildUrl(config.up["packagist"], <<"/">> \o p)
    OBVIOUS
  <1>4. Whole(url) /\ ~Arbitrary("composer", loose, url)
    BY <1>2, <1>3, SlashBefore, BuildFacts
  <1>5. Sound("composer", loose, Fetch("composer", url, "none"))
    BY <1>4, FetchSound DEF Kinds
  <1>6. Sound("composer", loose, [Fetch("composer", url, "composer") EXCEPT !.candidates = <<url>>])
    <2>1. url \in Urls
      BY <1>4 DEF Whole
    <2> QED
      BY <1>4, <2>1 DEF Sound, Fetch, Kinds
  <1>7. PICK answer : answer =
           IF IsSuffix(<<".json">>, p)
           THEN [Fetch("composer", url, "composer") EXCEPT !.candidates = <<url>>]
           ELSE Fetch("composer", url, "none")
    OBVIOUS
  <1>8. PICK sane \in BOOLEAN : sane = (p # <<>> /\ ~Dotted(p))
    OBVIOUS
  <1>9. Composer(path) = Checked("composer", sane, answer)
    BY <1>1, <1>3, <1>7, <1>8 DEF Composer
  <1>10. Sound("composer", loose, answer)
    BY <1>5, <1>6, <1>7
  <1> QED
    BY <1>9, <1>10, CheckedSound

LEMMA CratesPath ==
    ASSUME NEW p \in Path, IsCratesDownload(p)
    PROVE  /\ KrateAndVersion(p) \in Path
           /\ Decoded(KrateAndVersion(p)) \in Path
           /\ (CratesApi \o Decoded(KrateAndVersion(p))) \o <<"/", "download">> \in Path
  <1>1. /\ "/" \in Token /\ "api" \in Token /\ "v1" \in Token /\ "crates" \in Token
        /\ "download" \in Token
    BY Tokens
  <1>2. CratesApi \in Path /\ Len(CratesApi) = 7
    BY <1>1 DEF CratesApi, Path
  <1>3. KrateAndVersion(p) \in Path
    <2>1. Len(p) \in Nat /\ 7 <= Len(p)
      BY <1>2 DEF IsCratesDownload, IsPrefix, Path
    <2> QED
      BY <1>2, <2>1, SubPath DEF KrateAndVersion
  <1>4. <<"/", "download">> \in Path
    BY <1>1 DEF Path
  <1>5. PICK d \in Path : d = Decoded(KrateAndVersion(p))
    BY <1>3, DecodedFacts
  <1> QED
    BY <1>2, <1>3, <1>4, <1>5, JoinedPath

LEMMA CratesSound ==
    ASSUME setting \in DOMAIN Settings, NEW path \in Path, NEW loose \in BOOLEAN
    PROVE  /\ Sound("crates", loose, CratesIndex(path))
           /\ IsCratesDownload(path) => Sound("crates", loose, CratesDownload(path))
  <1>1. PICK p \in Path : p = TrimStart(path)
    BY TrimStartFacts
  <1>2. /\ "crates_index" \in KeysOf("crates") /\ "crates_api" \in KeysOf("crates")
        /\ "crates_index" \in Keys /\ "crates_api" \in Keys /\ "crates" \in Replacing
    BY KeysListed DEF KeysOf, Replacing
  <1>3. PICK url : url = BuildUrl(config.up["crates_index"], <<"/">> \o p)
    OBVIOUS
  <1>4. Whole(url) /\ ~Arbitrary("crates", loose, url)
    BY <1>2, <1>3, SlashBefore, BuildFacts
  <1>5. Sound("crates", loose, Fetch("crates", url, "none")) /\ Sound("crates", loose, Own("crates", "crates"))
    BY <1>4, FetchSound, OwnSound DEF Kinds
  <1>6. PICK answer : answer = IF p = <<"config", ".json">> THEN Own("crates", "crates")
                               ELSE Fetch("crates", url, "none")
    OBVIOUS
  <1>7. PICK sane \in BOOLEAN : sane = (p # <<>> /\ ~Dotted(p))
    OBVIOUS
  <1>8. CratesIndex(path) = Checked("crates", sane, answer)
    BY <1>1, <1>3, <1>6, <1>7 DEF CratesIndex
  <1>9. Sound("crates", loose, CratesIndex(path))
    BY <1>5, <1>6, <1>8, CheckedSound
  <1>10. ASSUME IsCratesDownload(path) PROVE Sound("crates", loose, CratesDownload(path))
    <2>0. PICK names : names = Decoded(KrateAndVersion(path))
      OBVIOUS
    <2>1. PICK r \in Path : r = (CratesApi \o names) \o <<"/", "download">>
      BY <1>10, <2>0, CratesPath
    <2>2. PICK a : a = Fetch("crates", BuildUrl(config.up["crates_api"], r), "none")
      OBVIOUS
    <2>3. Sound("crates", loose, a)
      BY <1>2, <2>2, BuildFacts, FetchSound DEF Kinds
    <2>4. PICK s \in BOOLEAN :
             s = (~Dotted(names) /\ \A i \in DOMAIN names : KrateAndVersion(path)[i] # "%2f")
      OBVIOUS
    <2>5. CratesDownload(path) = Checked("crates", s, a)
      BY <2>0, <2>1, <2>2, <2>4 DEF CratesDownload
    <2> QED
      BY <2>3, <2>5, CheckedSound
  <1> QED
    BY <1>9, <1>10

LEMMA CutFacts ==
    ASSUME NEW p \in Path, NEW I, I = {i \in 1..Len(p) : p[i] = "/"},
           NEW cut, cut = IF I # {} THEN Min(I) ELSE 0
    PROVE  /\ cut \in 0..Len(p)
           /\ cut > 0 => p[cut] = "/" /\ \A i \in 1..cut - 1 : p[i] # "/"
           /\ cut = 0 => \A i \in 1..Len(p) : p[i] # "/"
  <1>1. Len(p) \in Nat
    BY DEF Path
  <1>2. CASE I = {}
    BY <1>1, <1>2
  <1>3. CASE I # {}
    <2>1. I \in SUBSET Nat
      BY <1>1
    <2>2. PICK n \in I : \A m \in I : n <= m
      BY <1>3, <2>1, LeastNumber
    <2>3. cut \in I /\ \A m \in I : cut <= m
      BY <1>3, <2>2 DEF Min
    <2>4. cut \in 1..Len(p) /\ p[cut] = "/"
      BY <2>3
    <2>5. ASSUME NEW i \in 1..cut - 1 PROVE p[i] # "/"
      <3>1. i \in 1..Len(p) /\ ~(cut <= i)
        BY <1>1, <2>4
      <3> QED
        BY <2>3, <3>1
    <2> QED
      BY <1>1, <2>4, <2>5
  <1> QED
    BY <1>2, <1>3

LEMMA NugetSound ==
    ASSUME setting \in DOMAIN Settings, NEW path \in Path, NEW loose \in BOOLEAN
    PROVE  Sound("nuget", loose, NugetIndex) /\ Sound("nuget", loose, Nuget(path))
  <1>1. "nuget" \in KeysOf("nuget") /\ "nuget" \in Keys /\ "nuget" \in Replacing
    BY KeysListed DEF KeysOf, Replacing
  <1>2. ASSUME NEW r \in Path, NEW kind \in Kinds
        PROVE  Sound("nuget", loose, Fetch("nuget", BuildUrl(config.up["nuget"], r), kind))
    BY <1>1, BuildFacts, FetchSound
  <1>3. Sound("nuget", loose, NugetIndex)
    <2>1. "/" \in Token /\ "v3" \in Token /\ "index.json" \in Token
      BY Tokens
    <2>2. PICK r \in Path : r = <<"/", "v3", "/", "index.json">>
      <3>1. <<"/", "v3", "/", "index.json">> \in Path
        BY <2>1 DEF Path
      <3> QED
        BY <3>1
    <2>3. NugetIndex = Checked("nuget", TRUE, Fetch("nuget", BuildUrl(config.up["nuget"], r), "nuget"))
      BY <2>2 DEF NugetIndex
    <2>4. Sound("nuget", loose, Fetch("nuget", BuildUrl(config.up["nuget"], r), "nuget"))
      BY <1>2 DEF Kinds
    <2> QED
      BY <2>3, <2>4, CheckedSound
  <1>4. Sound("nuget", loose, Nuget(path))
    <2>1. PICK p \in Path : p = TrimStart(path)
      BY TrimStartFacts
    <2>2. PICK q : q = After(<<"upstream", "/">>, p)
      OBVIOUS
    <2>3. q \in Path
      <3>1. Len(p) \in Nat
        BY DEF Path
      <3> QED
        BY <2>2, <3>1, SubPath DEF After
    <2>4. PICK I : I = {i \in 1..Len(q) : q[i] = "/"}
      OBVIOUS
    <2>5. PICK cut : cut = IF I # {} THEN Min(I) ELSE 0
      OBVIOUS
    <2>6. cut \in 0..Len(q) /\ Len(q) \in Nat
      <3>1. cut \in 0..Len(q)
        BY <2>3, <2>4, <2>5, CutFacts
      <3>2. Len(q) \in Nat
        BY <2>3 DEF Path
      <3> QED
        BY <3>1, <3>2
    <2>7. PICK host : host = SubSeq(q, 1, cut - 1)
      OBVIOUS
    <2>8. PICK rest : rest = SubSeq(q, cut, Len(q))
      OBVIOUS
    <2>9. cut # 0 => rest \in Path
      BY <2>3, <2>6, <2>8, SubPath
    <2>10. ASSUME cut # 0, host \in {<<h>> : h \in NugetHosts}
           PROVE  Sound("nuget", loose, Fetch("nuget", BuildUrl(<<Url("https", host[1], <<"/">>)>>, rest), "none"))
      <3>1. PICK h \in NugetHosts : host = <<h>>
        BY <2>10
      <3>2. Len(host) = 1 /\ host[1] = h
        BY <3>1
      <3>3. cut - 1 \in Nat /\ cut - 1 <= Len(q)
        BY <2>6, <2>10
      <3>4. host \in Path
        BY <2>3, <2>7, <3>3, SubPath
      <3>5. h \in Token
        <4>1. 1 \in 1..Len(host)
          BY <3>2
        <4> QED
          BY <3>2, <3>4, <4>1, PathElement
      <3>6. PICK base : base = Url("https", h, <<"/">>)
        OBVIOUS
      <3>7. base \in Urls /\ base.scheme = "https" /\ base.host = h
        <4>1. "https" \in Token /\ <<"/">> \in Path
          BY Tokens, Slash
        <4> QED
          BY <3>5, <3>6, <4>1 DEF Url, Urls
      <3>8. PICK url : url = SetPath(base, rest)
        OBVIOUS
      <3>9. Whole(url) /\ url.scheme = "https" /\ url.host = h
        BY <2>9, <2>10, <3>7, <3>8, SetPathFacts
      <3>10. ~Arbitrary("nuget", loose, url)
        BY <3>9 DEF Arbitrary, KnownHosts
      <3>11. BuildUrl(<<Url("https", host[1], <<"/">>)>>, rest) = url
        BY <3>2, <3>6, <3>8 DEF BuildUrl, SelectUpstream
      <3> QED
        BY <3>9, <3>10, <3>11, FetchSound DEF Kinds
    <2>11. PICK answer : answer =
             IF ~IsPrefix(<<"upstream", "/">>, p) \/ cut = 0
             THEN Fetch("nuget", BuildUrl(config.up["nuget"], <<"/">> \o p), "none")
             ELSE IF host = <<SelectUpstream(config.up["nuget"]).host>>
             THEN Fetch("nuget", BuildUrl(config.up["nuget"], rest), "none")
             ELSE IF host \notin {<<h>> : h \in NugetHosts} THEN Refuse("nuget", "UnsupportedTarget")
             ELSE Fetch("nuget", BuildUrl(<<Url("https", host[1], <<"/">>)>>, rest), "none")
      OBVIOUS
    <2>12. /\ Sound("nuget", loose, Fetch("nuget", BuildUrl(config.up["nuget"], <<"/">> \o p), "none"))
           /\ cut # 0 => Sound("nuget", loose, Fetch("nuget", BuildUrl(config.up["nuget"], rest), "none"))
           /\ Sound("nuget", loose, Refuse("nuget", "UnsupportedTarget"))
      BY <1>2, <2>9, SlashBefore, RefuseSound DEF Kinds
    <2>13. Sound("nuget", loose, answer)
      BY <2>10, <2>11, <2>12
    <2>14. PICK sane \in BOOLEAN : sane = SanitizeRepositoryPath(p)
      BY SanitizeFacts
    <2>15. Nuget(path) = Checked("nuget", sane, answer)
      BY <2>1, <2>2, <2>4, <2>5, <2>7, <2>8, <2>11, <2>14 DEF Nuget, SelectInSeq
    <2> QED
      BY <2>13, <2>15, CheckedSound
  <1> QED
    BY <1>3, <1>4

LEMMA StorageFacts ==
    /\ Storage \in Path /\ Len(Storage) = 4 /\ Storage[3] = "storage.googleapis.com"
    /\ Storage[1] = "upstream" /\ Storage[2] = "/" /\ Storage[4] = "/"
  <1>1. "upstream" \in Token /\ "/" \in Token /\ "storage.googleapis.com" \in Token
    BY Tokens
  <1> QED
    BY <1>1 DEF Storage, Path

\* A URL at the storage host of Pub.
LEMMA StorageUrl ==
    ASSUME NEW p \in Path, NEW loose \in BOOLEAN
    PROVE  /\ Whole(RepositoryUrl(<<Url("https", Storage[3], <<"/">>)>>, p))
           /\ ~Arbitrary("pub", loose, RepositoryUrl(<<Url("https", Storage[3], <<"/">>)>>, p))
           /\ RepositoryUrl(<<Url("https", Storage[3], <<"/">>)>>, p).host = Storage[3]
           /\ ~Odd(p) => RepositoryUrl(<<Url("https", Storage[3], <<"/">>)>>, p).path = <<"/">> \o p
  <1>1. PICK base : base = Url("https", Storage[3], <<"/">>)
    OBVIOUS
  <1>2. /\ base \in Urls /\ base.scheme = "https" /\ base.host = Storage[3] /\ base.path = <<"/">>
        /\ ~Odd(base.path)
    <2>1. "https" \in Token /\ "storage.googleapis.com" \in Token /\ <<"/">> \in Path
      BY Tokens, Slash
    <2> QED
      BY <1>1, <2>1, Slash, StorageFacts DEF Url, Urls
  <1>3. PICK g : g = <<base>>
    OBVIOUS
  <1>4. g[1] = base
    BY <1>3
  <1>5. PICK url : url = RepositoryUrl(g, p)
    OBVIOUS
  <1>6. /\ Whole(url) /\ (~Odd(p) => url.path = TrimEnd(base.path) \o (<<"/">> \o p))
        /\ url.host = base.host /\ url.scheme = base.scheme
    BY <1>2, <1>4, <1>5, RepositoryFacts, RepositoryOrigin
  <1>7. ~Arbitrary("pub", loose, url)
    BY <1>2, <1>6 DEF Arbitrary, KnownHosts
  <1>8. TrimEnd(<<"/">>) = <<>>
    <2>1. {i \in 1..Len(<<"/">>) : <<"/">>[i] # "/"} = {}
      OBVIOUS
    <2>2. TrimEnd(<<"/">>) = SubSeq(<<"/">>, 1, 0)
      BY <2>1 DEF TrimEnd, SelectLastInSeq
    <2> QED
      BY <2>2
  <1>9. PICK r \in Path : r = <<"/">> \o p
    BY SlashBefore
  <1>10. <<>> \o r = r
    BY DEF Path
  <1> QED
    BY <1>1, <1>2, <1>3, <1>5, <1>6, <1>7, <1>8, <1>9, <1>10

LEMMA PubSound ==
    ASSUME setting \in DOMAIN Settings, NEW path \in Path,
           NEW loose \in BOOLEAN, Encoded(path) => loose
    PROVE  Sound("pub", loose, Pub(path))
  <1>1. PICK p \in Path : p = TrimStart(path)
    BY TrimStartFacts
  <1>2. "pub_repository" \in KeysOf("pub") /\ "pub_repository" \in Keys /\ "pub" \notin Replacing
    BY KeysListed DEF KeysOf, Replacing
  <1>3. PICK sane \in BOOLEAN : sane = SanitizeRepositoryPath(p)
    BY SanitizeFacts
  <1>4. PICK answer : answer =
           IF IsPrefix(Storage, p)
           THEN Fetch("pub", RepositoryUrl(<<Url("https", Storage[3], <<"/">>)>>, After(Storage, p)), "none")
           ELSE Fetch("pub", RepositoryUrl(config.up["pub_repository"], p), "pub")
    OBVIOUS
  <1>5. ASSUME sane PROVE Sound("pub", loose, answer)
    <2>1. Odd(p) => loose
      BY <1>1, <1>3, <1>5, SanitizeFacts, TrimStartFacts, OddParts
    <2>2. CASE IsPrefix(Storage, p)
      <3>1. PICK r \in Path : r = After(Storage, p)
        BY <2>2, StorageFacts, PrefixFacts
      <3>2. PICK url : url = RepositoryUrl(<<Url("https", Storage[3], <<"/">>)>>, r)
        OBVIOUS
      <3>3. Whole(url) /\ ~Arbitrary("pub", loose, url)
        BY <3>1, <3>2, StorageUrl
      <3> QED
        BY <1>4, <2>2, <3>1, <3>2, <3>3, FetchSound DEF Kinds
    <2>3. CASE ~IsPrefix(Storage, p)
      BY <1>2, <1>4, <2>1, <2>3, KeyBelow, FetchSound DEF Kinds
    <2> QED
      BY <2>2, <2>3
  <1>6. Pub(path) = Checked("pub", sane, answer)
    BY <1>1, <1>3, <1>4 DEF Pub
  <1> QED
    BY <1>5, <1>6, CheckedSound

\* A path that is sane once it is decoded was so before.
LEMMA SaneHubFacts ==
    ASSUME NEW p \in Path
    PROVE  /\ SaneHubPath(p) \in BOOLEAN
           /\ SaneHubPath(p) => ~Odd(p) /\ ~Odd(Decoded(p))
  <1>1. SaneHubPath(p) \in BOOLEAN
    BY DEF SaneHubPath
  <1>2. ASSUME SaneHubPath(p) PROVE ~Odd(p) /\ ~Odd(Decoded(p))
    <2>1. ~Odd(Decoded(p))
      BY <1>2, OddParts DEF SaneHubPath, SanitizeRepositoryPath
    <2>2. DOMAIN p = 1..Len(p)
      BY DEF Path
    <2>3. DOMAIN Decoded(p) = 1..Len(p) /\ \A i \in 1..Len(p) : Decoded(p)[i] = DecodedToken(p[i])
      BY DecodedFacts
    <2>4. \A t \in {".", "..", "\\", "%2e", "%2e%2e"} : DecodedToken(t) \in {".", "..", "\\"}
      BY DEF DecodedToken
    <2>5. ASSUME NEW i \in 1..Len(p) PROVE p[i] \notin {".", "..", "\\", "%2e", "%2e%2e"}
      BY <2>1, <2>3, <2>4 DEF Odd
    <2> QED
      BY <2>1, <2>2, <2>5 DEF Odd
  <1> QED
    BY <1>1, <1>2

LEMMA HuggingFaceSound ==
    ASSUME setting \in DOMAIN Settings, NEW p \in Path, NEW loose \in BOOLEAN
    PROVE  Sound("huggingface", loose, HuggingFace(p))
  <1>1. /\ "huggingface" \in KeysOf("huggingface") /\ "huggingface" \in Keys
        /\ "huggingface" \notin Replacing
    BY KeysListed DEF KeysOf, Replacing
  <1>2. PICK sane \in BOOLEAN : sane = SaneHubPath(p)
    BY SaneHubFacts
  <1>3. PICK answer : answer =
           IF ~ValidHubPath(p) THEN Refuse("huggingface", "UnsupportedTarget")
           ELSE Fetch("huggingface", RepositoryUrl(config.up["huggingface"], p), "huggingface")
    OBVIOUS
  <1>4. ASSUME sane PROVE Sound("huggingface", loose, answer)
    <2>1. ~Odd(p)
      BY <1>2, <1>4, SaneHubFacts
    <2>2. Sound("huggingface", loose, Fetch("huggingface", RepositoryUrl(config.up["huggingface"], p), "huggingface"))
      BY <1>1, <2>1, KeyBelow, FetchSound DEF Kinds
    <2>3. Sound("huggingface", loose, Refuse("huggingface", "UnsupportedTarget"))
      BY RefuseSound
    <2> QED
      BY <1>3, <2>2, <2>3
  <1>5. HuggingFace(p) = Checked("huggingface", sane, answer)
    BY <1>2, <1>3 DEF HuggingFace
  <1> QED
    BY <1>4, <1>5, CheckedSound

LEMMA OsSound ==
    ASSUME setting \in DOMAIN Settings, NEW path \in Path,
           NEW loose \in BOOLEAN, Encoded(path) => loose
    PROVE  Sound("os", loose, Os(path))
  <1>1. PICK q \in Path : q = TrimStart(path)
    BY TrimStartFacts
  <1>2. PICK I : I = {i \in 1..Len(q) : q[i] = "/"}
    OBVIOUS
  <1>3. PICK cut : cut = IF I # {} THEN Min(I) ELSE 0
    OBVIOUS
  <1>4. cut \in 0..Len(q)
    BY <1>2, <1>3, CutFacts
  <1>5. PICK p : p = SubSeq(q, cut + 1, Len(q))
    OBVIOUS
  <1>6. p \in Path
    <2>1. Len(q) \in Nat
      BY DEF Path
    <2>2. cut + 1 \in Nat /\ cut + 1 >= 1
      BY <1>4, <2>1
    <2> QED
      BY <1>5, <2>1, <2>2, SubPath
  <1>7. PICK target : target = SubSeq(q, 1, cut - 1)
    OBVIOUS
  <1>8. PICK groups : groups = RepositoryForTarget(target)
    OBVIOUS
  <1>9. "os" \notin Replacing /\ KeysOf("os") = OsTargets
    BY DEF Replacing, KeysOf
  <1>10. ASSUME NEW g \in groups PROVE g \in Group /\ SelectUpstream(g) \in EndpointsOf("os")
    <2>1. CASE Len(target) = 1 /\ target[1] \in OsTargets
      <3>1. g = config.up[target[1]]
        BY <1>8, <2>1 DEF RepositoryForTarget
      <3>2. g \in Group
        BY <2>1, <3>1, KeysListed, ConfigFacts
      <3>3. SelectUpstream(g) \in EndpointsOf("os")
        BY <1>9, <2>1, <3>1 DEF EndpointsOf
      <3> QED
        BY <3>2, <3>3
    <2>2. CASE ~(Len(target) = 1 /\ target[1] \in OsTargets)
      <3>1. PICK e \in ToSet(config.extra) : g = e.group
        BY <1>8, <2>2 DEF RepositoryForTarget
      <3>2. PICK i \in 1..Len(config.extra) : e = config.extra[i]
        BY <3>1, ConfigFacts DEF ToSet
      <3>3. g \in Group
        BY <3>1, <3>2, ConfigFacts
      <3>4. SelectUpstream(g) \in EndpointsOf("os")
        BY <3>1 DEF EndpointsOf
      <3> QED
        BY <3>3, <3>4
    <2> QED
      BY <2>1, <2>2
  <1>11. PICK answer : answer =
            IF groups = {} THEN Refuse("os", "UnsupportedTarget")
            ELSE LET group == CHOOSE g \in groups : TRUE
                 IN  Fetch("os", RepositoryUrl(group, p), "none")
    OBVIOUS
  <1>12. PICK sane \in BOOLEAN : sane = (cut > 0 /\ SanitizeRepositoryPath(p))
    BY <1>6, SanitizeFacts
  <1>13. ASSUME sane PROVE Sound("os", loose, answer)
    <2>1. Odd(p) => loose
      <3>1. ~Dotted(p)
        BY <1>6, <1>12, <1>13, SanitizeFacts
      <3>2. Encoded(p) => Encoded(q)
        <4>1. PICK n \in Nat, m \in Nat : n = Len(q) /\ m = cut + 1 /\ m >= 1
          <5>1. Len(q) \in Nat
            BY DEF Path
          <5> QED
            BY <1>4, <5>1
        <4>2. /\ Len(p) = (IF m <= n THEN n - m + 1 ELSE 0) /\ DOMAIN p = 1..Len(p)
              /\ \A i \in 1..n - m + 1 : p[i] = q[m + i - 1]
          BY <1>5, <1>6, <4>1, SubPath DEF Path
        <4>3. \A i \in 1..Len(p) : i \in 1..n - m + 1 /\ m + i - 1 \in 1..n
          BY <4>1, <4>2
        <4>4. DOMAIN q = 1..n
          BY <4>1 DEF Path
        <4> QED
          BY <4>2, <4>3, <4>4 DEF Encoded
      <3>3. Encoded(q) => loose
        BY <1>1, TrimStartFacts
      <3> QED
        BY <3>1, <3>2, <3>3, OddParts
    <2>2. CASE groups = {}
      BY <1>11, <2>2, RefuseSound
    <2>3. CASE groups # {}
      <3>1. PICK g : g = CHOOSE h \in groups : TRUE
        OBVIOUS
      <3>2. g \in groups
        BY <2>3, <3>1
      <3>3. PICK url : url = RepositoryUrl(g, p)
        OBVIOUS
      <3>4. Whole(url) /\ ~Arbitrary("os", loose, url)
        BY <1>6, <1>9, <1>10, <2>1, <3>2, <3>3, GroupBelow
      <3>5. Sound("os", loose, Fetch("os", url, "none"))
        BY <3>4, FetchSound DEF Kinds
      <3> QED
        BY <1>11, <2>3, <3>1, <3>3, <3>5
    <2> QED
      BY <2>2, <2>3
  <1>14. Os(path) = Checked("os", sane, answer)
    BY <1>1, <1>2, <1>3, <1>5, <1>7, <1>8, <1>11, <1>12 DEF Os, SelectInSeq
  <1> QED
    BY <1>13, <1>14, CheckedSound

LEMMA RegistryKeys ==
    ASSUME NEW name
    PROVE  RegistryOf(name) \in KeysOf("oci") /\ RegistryOf(name) \in Keys
  <1>1. RegistryOf(name) \in {"docker_hub", "ghcr", "quay", "kubernetes", "gcr", "mcr", "elastic",
                              "gitlab", "nvcr", "oracle"}
    BY DEF RegistryOf
  <1>2. KeysOf("oci") = {"docker_hub", "ghcr", "quay", "kubernetes", "gcr", "mcr", "elastic",
                         "gitlab", "nvcr", "oracle"}
    BY DEF KeysOf
  <1> QED
    BY <1>1, <1>2, KeysListed

LEMMA OciSound ==
    ASSUME setting \in DOMAIN Settings, NEW path \in Path, NEW loose \in BOOLEAN
    PROVE  Sound("oci", loose, Oci(path))
  <1> DEFINE q      == Squeezed(path)
             marks  == {i \in DOMAIN q : /\ q[i] \in {"manifests", "blobs", "tags", "referrers"}
                                         /\ i = 1 \/ q[i - 1] = "/"
                                         /\ i = Len(q) \/ q[i + 1] = "/"}
             marker == CHOOSE i \in marks : \A j \in marks : i <= j
             named  == SubSeq(q, 1, marker - 2)
             cut    == SelectInSeq(q, LAMBDA t : t = "/")
             key    == RegistryOf(SubSeq(q, 1, cut - 1))
             repo   == IF key = "docker_hub" THEN named ELSE SubSeq(named, cut + 1, Len(named))
             full   == IF key = "docker_hub" /\ \A i \in DOMAIN repo : repo[i] # "/"
                       THEN <<"library", "/">> \o repo ELSE repo
             sane   == marks # {} /\ marker \notin {1, Len(q)} /\ repo # <<>> /\ ~Dotted(repo)
             answer == Fetch("oci", BuildUrl(config.up[key],
                          <<"/", "v2", "/">> \o full \o <<"/">> \o SubSeq(q, marker, Len(q))), "none")
  <1>1. Oci(path) = Checked("oci", sane, answer)
    BY Zenon DEF Oci
  <1>2. q \in Path
    <2> DEFINE K == {i \in DOMAIN path : \/ path[i] # "/"
                                         \/ /\ i < Len(path) /\ path[i + 1] # "/"
                                            /\ \E j \in 1..i - 1 : path[j] # "/"}
    <2>1. DOMAIN path = 1..Len(path)
      BY DEF Path
    <2>2. K \in SUBSET (1..Len(path))
      BY <2>1
    <2>3. Squeezed(path) = Picked(path, K)
      BY DEF Squeezed
    <2> HIDE DEF K
    <2> QED
      BY <2>2, <2>3, PickedFacts
  <1> HIDE DEF q
  <1>3. Len(q) \in Nat /\ DOMAIN q = 1..Len(q)
    BY <1>2 DEF Path
  <1>4. marks # {} => marker \in 1..Len(q)
    <2>1. marks \in SUBSET (1..Len(q))
      BY <1>3
    <2> HIDE DEF marks
    <2>2. marks \in SUBSET Nat
      BY <1>3, <2>1
    <2>3. ASSUME marks # {} PROVE marker \in marks
      <3>1. PICK n \in marks : \A m \in marks : n <= m
        BY <2>2, <2>3, LeastNumber
      <3> QED
        BY <3>1
    <2> QED
      BY <2>1, <2>3
  <1>5. cut \in 0..Len(q)
    <2>1. PICK I : I = {i \in 1..Len(q) : q[i] = "/"}
      OBVIOUS
    <2>2. PICK c : c = IF I # {} THEN Min(I) ELSE 0
      OBVIOUS
    <2>3. cut = c
      BY <2>1, <2>2 DEF SelectInSeq
    <2> HIDE DEF cut
    <2> QED
      BY <1>2, <2>1, <2>2, <2>3, CutFacts
  <1> HIDE DEF marks, marker, cut
  <1>6. ASSUME sane PROVE Sound("oci", loose, answer)
    <2>1. marks # {} /\ marker # 1
      BY <1>6
    <2>2. marker \in 2..Len(q)
      BY <1>3, <1>4, <2>1
    <2>3. marker - 2 \in Nat /\ marker - 2 <= Len(q)
      BY <1>3, <2>2
    <2>4. named \in Path
      BY <1>2, <2>3, SubPath
    <2> HIDE DEF named
    <2>5. repo \in Path
      <3>1. Len(named) \in Nat
        BY <2>4 DEF Path
      <3>2. cut + 1 \in Nat /\ cut + 1 >= 1
        BY <1>3, <1>5
      <3> HIDE DEF key
      <3> QED
        BY <2>4, <3>1, <3>2, SubPath
    <2>6. key \in KeysOf("oci") /\ key \in Keys /\ "oci" \in Replacing
      BY RegistryKeys DEF Replacing
    <2>7. "/" \in Token /\ "library" \in Token /\ "v2" \in Token
      BY Tokens
    <2>8. PICK head \in Path, owner \in Path, slash \in Path :
             head = <<"/", "v2", "/">> /\ owner = <<"library", "/">> /\ slash = <<"/">>
      <3>1. <<"/", "v2", "/">> \in Path /\ <<"library", "/">> \in Path /\ <<"/">> \in Path
        BY <2>7 DEF Path
      <3> QED
        BY <3>1
    <2> HIDE DEF key, repo
    <2>9. full \in Path
      BY <2>5, <2>8, JoinedPath
    <2> HIDE DEF full
    <2>10. PICK tail \in Path : tail = SubSeq(q, marker, Len(q))
      <3>1. marker \in Nat /\ marker >= 1 /\ Len(q) \in Nat /\ Len(q) <= Len(q)
        BY <1>3, <2>2
      <3> QED
        BY <1>2, <3>1, SubPath
    <2>11. PICK r \in Path : r = ((head \o full) \o slash) \o tail
      BY <2>9, JoinedPath
    <2>12. answer = Fetch("oci", BuildUrl(config.up[key], r), "none")
      BY <2>8, <2>10, <2>11
    <2> HIDE DEF answer
    <2> QED
      BY <2>6, <2>12, BuildFacts, FetchSound DEF Kinds
  <1> HIDE DEF answer
  <1>7. PICK s \in BOOLEAN : s = sane
    OBVIOUS
  <1> HIDE DEF sane
  <1> QED
    BY <1>1, <1>6, <1>7, CheckedSound

LEMMA GithubFacts ==
    ASSUME setting \in DOMAIN Settings, NEW loose \in BOOLEAN,
           NEW target, Whole(target), target.path[1] = "/",
           target.scheme = "https", target.host \in GithubHosts
    PROVE  /\ Whole(ConfiguredTarget(target)) /\ ~Arbitrary("github", loose, ConfiguredTarget(target))
           /\ target.host \notin {"github.com", "raw.githubusercontent.com"} =>
                 ConfiguredTarget(target) = target
           /\ target.host = "github.com" =>
                 /\ SameOrigin(config.up["github"][1], ConfiguredTarget(target))
                 /\ ConfiguredTarget(target).path = TrimEnd(config.up["github"][1].path) \o target.path
  <1>1. /\ "github" \in KeysOf("github") /\ "github_raw" \in KeysOf("github")
        /\ "github" \in Keys /\ "github_raw" \in Keys /\ "github" \notin Replacing
    BY KeysListed DEF KeysOf, Replacing
  <1>2. target.path \in Path /\ target.path # <<>> /\ ~Odd(target.path)
    BY DEF Whole, Urls
  <1>3. ASSUME NEW key \in {"github", "github_raw"}, NEW url,
               url = SetPath(config.up[key][1], TrimEnd(config.up[key][1].path) \o target.path)
        PROVE  /\ Whole(url) /\ ~Arbitrary("github", loose, url) /\ SameOrigin(config.up[key][1], url)
               /\ url.path = TrimEnd(config.up[key][1].path) \o target.path
    <2>1. PICK g \in Group : g = config.up[key]
      BY <1>1, ConfigFacts
    <2>2. PICK base \in Urls : base = g[1] /\ ~Odd(base.path)
      BY GroupFacts
    <2>3. /\ Whole(url) /\ SameOrigin(base, url) /\ BelowEndpoint(base, url)
          /\ url.path = TrimEnd(base.path) \o target.path
      BY <1>2, <1>3, <2>1, <2>2, BelowFacts
    <2>4. base \in EndpointsOf("github")
      BY <1>1, <2>1, <2>2 DEF EndpointsOf, SelectUpstream
    <2> QED
      BY <1>1, <2>1, <2>2, <2>3, <2>4 DEF Arbitrary
  <1>4. CASE target.host = "github.com"
    <2>1. ConfiguredTarget(target) =
             SetPath(config.up["github"][1], TrimEnd(config.up["github"][1].path) \o target.path)
      BY <1>4 DEF ConfiguredTarget, SelectUpstream
    <2> QED
      BY <1>3, <1>4, <2>1
  <1>5. CASE target.host = "raw.githubusercontent.com"
    <2>1. ConfiguredTarget(target) =
             SetPath(config.up["github_raw"][1], TrimEnd(config.up["github_raw"][1].path) \o target.path)
      BY <1>5 DEF ConfiguredTarget, SelectUpstream
    <2> QED
      BY <1>3, <1>5, <2>1
  <1>6. CASE target.host \notin {"github.com", "raw.githubusercontent.com"}
    <2>1. ConfiguredTarget(target) = target
      BY <1>6 DEF ConfiguredTarget
    <2>2. ~Arbitrary("github", loose, target)
      BY DEF Arbitrary, KnownHosts
    <2> QED
      BY <1>6, <2>1, <2>2
  <1> QED
    BY <1>4, <1>5, <1>6

\* The URL in a path of GitHub.
LEMMA GithubTarget ==
    ASSUME NEW p \in Path, IsGithubProxyPath(p), NEW target,
           target = Url(p[2], p[4], Normalised(SubSeq(p, 5, Len(p))))
    PROVE  /\ Whole(target) /\ target.path[1] = "/" /\ target.scheme = "https"
           /\ target.host \in GithubHosts
  <1>1. Len(p) \in Nat /\ Len(p) >= 5 /\ p[2] = "https" /\ p[4] \in GithubHosts /\ p[5] = "/"
    BY DEF IsGithubProxyPath, Path
  <1>2. PICK r \in Path : r = SubSeq(p, 5, Len(p)) /\ r[1] = "/"
    <2>1. SubSeq(p, 5, Len(p)) \in Path /\ SubSeq(p, 5, Len(p))[1] = p[5]
      BY <1>1 DEF Path
    <2> QED
      BY <1>1, <2>1
  <1>3. /\ Normalised(r) \in Path /\ Normalised(r) # <<>> /\ ~Odd(Normalised(r))
        /\ Normalised(r)[1] = "/"
    BY <1>2, NormalisedFacts
  <1>4. p[2] \in Token /\ p[4] \in Token
    BY <1>1, PathElement
  <1> QED
    BY <1>1, <1>2, <1>3, <1>4 DEF Whole, Url, Urls

LEMMA GithubSound ==
    ASSUME setting \in DOMAIN Settings, NEW p \in Path, IsGithubProxyPath(p), NEW method,
           NEW loose \in BOOLEAN
    PROVE  Sound("github", loose, Github(p, method))
  <1>1. PICK target : target = Url(p[2], p[4], Normalised(SubSeq(p, 5, Len(p))))
    OBVIOUS
  <1>2. /\ Whole(target) /\ target.path[1] = "/" /\ target.scheme = "https"
        /\ target.host \in GithubHosts
    BY <1>1, GithubTarget
  <1>3. PICK url : url = ConfiguredTarget(target)
    OBVIOUS
  <1>4. Sound("github", loose, FetchWith(method, "github", url))
    BY <1>2, <1>3, GithubFacts, FetchWithSound
  <1>5. Sound("github", loose, Refuse("github", "MethodNotAllowed"))
    BY RefuseSound
  <1>6. PICK answer : /\ Github(p, method) = Checked("github", TRUE, answer)
                      /\ answer \in {FetchWith(method, "github", url), Refuse("github", "MethodNotAllowed")}
    BY <1>1, <1>3 DEF Github
  <1> QED
    BY <1>4, <1>5, <1>6, CheckedSound

-----------------------------------------------------------------------------
(* Routes.                                                                 *)

AccountedFor(p, adapter) == adapter # "none" => ProxyTargetForPath(p) = adapter /\ IsProxyPath(p)

LEMMA PrefixAccounted ==
    ASSUME NEW p, NEW x \in TargetPrefixes, AtOrBelow(x, p)
    PROVE  AccountedFor(p, AdapterAt(x))
  <1>1. p[2] = x
    BY DEF AtOrBelow
  <1>2. ProxyTargetForPath(p) = AdapterAt(x)
    BY <1>1 DEF ProxyTargetForPath
  <1>3. IsProxyPath(p)
    BY DEF IsProxyPath, TargetPrefixes
  <1> QED
    BY <1>2, <1>3 DEF AccountedFor

LEMMA OtherAccounted ==
    ASSUME NEW p, p[2] \in {"pypi", "crates", "crates-index", "https"}
    PROVE  /\ ~\E x \in TargetPrefixes : AtOrBelow(x, p)
           /\ p[2] # "crates-index" => ~AtOrBelow("crates-index", p)
  BY DEF TargetPrefixes, Plain, AtOrBelow

LEMMA PrefixMeans ==
    ASSUME NEW S, NEW s \in Seq(S), NEW p \in Seq(S)
    PROVE  IsPrefix(s, p) <=> Len(s) <= Len(p) /\ \A i \in 1..Len(s) : s[i] = p[i]
  <1>1. Len(s) \in Nat /\ Len(p) \in Nat
    OBVIOUS
  <1>2. ASSUME Len(s) <= Len(p)
        PROVE  SubSeq(s, 1, Len(s)) = SubSeq(p, 1, Len(s)) <=> \A i \in 1..Len(s) : s[i] = p[i]
    <2>1. PICK u \in Seq(S) : u = SubSeq(s, 1, Len(s)) /\ Len(u) = Len(s)
                              /\ \A i \in 1..Len(s) : u[i] = s[i]
      BY <1>1
    <2>2. PICK v \in Seq(S) : v = SubSeq(p, 1, Len(s)) /\ Len(v) = Len(s)
                              /\ \A i \in 1..Len(s) : v[i] = p[i]
      <3>1. PICK n \in Nat : n = Len(s) /\ n <= Len(p)
        BY <1>1, <1>2
      <3>2. /\ SubSeq(p, 1, n) \in Seq(S) /\ Len(SubSeq(p, 1, n)) = n
            /\ \A i \in 1..n : SubSeq(p, 1, n)[i] = p[i]
        BY <1>1, <3>1
      <3> QED
        BY <3>1, <3>2
    <2>3. u = v <=> \A i \in 1..Len(s) : u[i] = v[i]
      BY <2>1, <2>2
    <2> QED
      BY <2>1, <2>2, <2>3
  <1> QED
    BY <1>2 DEF IsPrefix

LEMMA PathPrefix ==
    ASSUME NEW s \in Path, NEW p \in Path
    PROVE  IsPrefix(s, p) <=> Len(s) <= Len(p) /\ \A i \in 1..Len(s) : s[i] = p[i]
  BY PrefixMeans DEF Path

\* The first tokens of a path with a given prefix.
LEMMA FivePrefix ==
    ASSUME NEW p \in Path, NEW a, NEW b, NEW c, NEW d, NEW e
    PROVE  /\ IsPrefix(<<a, b, c, d, e>>, p) <=>
                 /\ Len(p) >= 5 /\ p[1] = a /\ p[2] = b /\ p[3] = c /\ p[4] = d /\ p[5] = e
           /\ p = <<a, b, c, d>> <=> Len(p) = 4 /\ p[1] = a /\ p[2] = b /\ p[3] = c /\ p[4] = d
  <1>1. PICK S : S = Token \cup {a, b, c, d, e}
    OBVIOUS
  <1>2. p \in Seq(S) /\ a \in S /\ b \in S /\ c \in S /\ d \in S /\ e \in S
    <2>1. Token \subseteq S /\ a \in S /\ b \in S /\ c \in S /\ d \in S /\ e \in S
      BY <1>1
    <2>2. p \in Seq(S)
      BY <2>1 DEF Path
    <2> QED
      BY <2>1, <2>2
  <1>3. PICK s \in Seq(S) : s = <<a, b, c, d, e>>
    <2>1. <<a, b, c, d, e>> \in Seq(S)
      BY <1>2
    <2> QED
      BY <2>1
  <1>4. Len(s) = 5 /\ s[1] = a /\ s[2] = b /\ s[3] = c /\ s[4] = d /\ s[5] = e
    BY <1>3
  <1>5. IsPrefix(s, p) <=> 5 <= Len(p) /\ \A i \in 1..5 : s[i] = p[i]
    <2>1. PICK n : n = Len(s)
      OBVIOUS
    <2>2. IsPrefix(s, p) <=> n <= Len(p) /\ \A i \in 1..n : s[i] = p[i]
      BY <1>2, <2>1, PrefixMeans
    <2>3. n = 5
      BY <1>4, <2>1
    <2> QED
      BY <2>2, <2>3
  <1>6. IsPrefix(<<a, b, c, d, e>>, p) <=>
           /\ Len(p) >= 5 /\ p[1] = a /\ p[2] = b /\ p[3] = c /\ p[4] = d /\ p[5] = e
    <2>1. Len(p) \in Nat
      BY DEF Path
    <2>2. (\A i \in 1..5 : s[i] = p[i]) <=>
             s[1] = p[1] /\ s[2] = p[2] /\ s[3] = p[3] /\ s[4] = p[4] /\ s[5] = p[5]
      OBVIOUS
    <2> QED
      BY <1>3, <1>4, <1>5, <2>1, <2>2
  <1>7. p = <<a, b, c, d>> <=> Len(p) = 4 /\ p[1] = a /\ p[2] = b /\ p[3] = c /\ p[4] = d
    BY DEF Path
  <1> QED
    BY <1>6, <1>7

LEMMA PypiAccounted ==
    ASSUME NEW p \in Path, p[1] = "/", p[2] = "pypi", p[3] = "/",
           \/ Len(p) = 4 /\ p[4] = "simple"
           \/ Len(p) >= 5 /\ p[4] \in {"simple", "files", "packages"} /\ p[5] = "/"
    PROVE  AccountedFor(p, "pypi")
  <1>1. \/ p = <<"/", "pypi", "/", "simple">>
        \/ \E x \in {"simple", "files", "packages"} : IsPrefix(<<"/", "pypi", "/", x, "/">>, p)
    <2>1. CASE Len(p) = 4 /\ p[4] = "simple"
      BY <2>1, FivePrefix
    <2>2. CASE Len(p) >= 5 /\ p[4] \in {"simple", "files", "packages"} /\ p[5] = "/"
      BY <2>2, FivePrefix
    <2> QED
      BY <2>1, <2>2
  <1>2. ~\E x \in TargetPrefixes : AtOrBelow(x, p)
    BY OtherAccounted
  <1> QED
    BY <1>1, <1>2 DEF AccountedFor, ProxyTargetForPath, IsProxyPath

LEMMA CratesAccounted ==
    ASSUME NEW p \in Path, p[1] = "/", Len(p) >= 2,
           \/ p[2] = "crates" /\ IsCratesDownload(SubSeq(p, 3, Len(p)))
           \/ AtOrBelow("crates-index", p)
    PROVE  AccountedFor(p, "crates")
  <1>1. CASE p[2] = "crates" /\ IsCratesDownload(SubSeq(p, 3, Len(p)))
    <2>1. Len(p) \in Nat
      BY DEF Path
    <2>2. PICK q \in Path : /\ q = SubSeq(p, 3, Len(p)) /\ Len(q) = (IF 3 <= Len(p) THEN Len(p) - 2 ELSE 0)
                            /\ \A i \in 1..Len(p) - 2 : q[i] = p[i + 2]
      <3>1. /\ SubSeq(p, 3, Len(p)) \in Path
            /\ Len(SubSeq(p, 3, Len(p))) = IF 3 <= Len(p) THEN Len(p) - 3 + 1 ELSE 0
            /\ \A i \in 1..Len(p) - 3 + 1 : SubSeq(p, 3, Len(p))[i] = p[3 + i - 1]
        BY <2>1, SubPath
      <3>2. Len(p) - 3 + 1 = Len(p) - 2 /\ \A i \in 1..Len(p) - 2 : 3 + i - 1 = i + 2
        BY <2>1
      <3> QED
        BY <3>1, <3>2
    <2>3. IsPrefix(CratesApi, q)
      BY <1>1, <2>2 DEF IsCratesDownload
    <2>4. Len(q) >= 7 /\ q[1] = "/" /\ q[2] = "api" /\ q[3] = "/"
      <3>1. PICK s : s = CratesApi
        OBVIOUS
      <3>2. Len(s) = 7 /\ s[1] = "/" /\ s[2] = "api" /\ s[3] = "/"
        BY <3>1 DEF CratesApi
      <3>3. SubSeq(s, 1, 7)[1] = s[1] /\ SubSeq(s, 1, 7)[2] = s[2] /\ SubSeq(s, 1, 7)[3] = s[3]
        BY <3>1 DEF CratesApi
      <3>4. Len(q) \in Nat
        BY DEF Path
      <3>5. Len(q) >= 7 /\ SubSeq(s, 1, 7) = SubSeq(q, 1, 7)
        BY <2>3, <3>1, <3>2, <3>4 DEF IsPrefix
      <3>6. SubSeq(q, 1, 7)[1] = q[1] /\ SubSeq(q, 1, 7)[2] = q[2] /\ SubSeq(q, 1, 7)[3] = q[3]
        BY <3>4, <3>5 DEF Path
      <3> QED
        BY <3>2, <3>3, <3>5, <3>6
    <2>5. Len(p) >= 5 /\ p[3] = "/" /\ p[4] = "api" /\ p[5] = "/"
      <3>1. Len(p) >= 9
        BY <2>1, <2>2, <2>4
      <3>2. 1 \in 1..Len(p) - 2 /\ 2 \in 1..Len(p) - 2 /\ 3 \in 1..Len(p) - 2
        BY <2>1, <3>1
      <3> QED
        BY <2>1, <2>2, <2>4, <3>1, <3>2
    <2>6. IsPrefix(<<"/", "crates", "/", "api", "/">>, p)
      BY <1>1, <2>5, FivePrefix
    <2>7. /\ p # <<"/", "pypi", "/", "simple">>
          /\ \A x : ~IsPrefix(<<"/", "pypi", "/", x, "/">>, p)
      BY <1>1, FivePrefix
    <2>8. ~\E x \in TargetPrefixes : AtOrBelow(x, p)
      BY <1>1, OtherAccounted
    <2> QED
      BY <2>6, <2>7, <2>8 DEF AccountedFor, ProxyTargetForPath, IsProxyPath
  <1>2. CASE AtOrBelow("crates-index", p)
    <2>1. p[2] = "crates-index"
      BY <1>2 DEF AtOrBelow
    <2>2. /\ p # <<"/", "pypi", "/", "simple">>
          /\ \A x : ~IsPrefix(<<"/", "pypi", "/", x, "/">>, p)
      BY <2>1, FivePrefix
    <2>3. ~\E x \in TargetPrefixes : AtOrBelow(x, p)
      BY <2>1, OtherAccounted
    <2> QED
      BY <1>2, <2>2, <2>3 DEF AccountedFor, ProxyTargetForPath, IsProxyPath
  <1> QED
    BY <1>1, <1>2

LEMMA GithubAccounted ==
    ASSUME NEW p \in Path, IsGithubProxyPath(p)
    PROVE  AccountedFor(p, "github")
  <1>1. p[2] = "https"
    BY DEF IsGithubProxyPath
  <1>2. /\ p # <<"/", "pypi", "/", "simple">>
        /\ \A x : ~IsPrefix(<<"/", "pypi", "/", x, "/">>, p)
        /\ ~IsPrefix(<<"/", "crates", "/", "api", "/">>, p)
    BY <1>1, FivePrefix
  <1>3. ~(\E x \in TargetPrefixes : AtOrBelow(x, p)) /\ ~AtOrBelow("crates-index", p)
    BY <1>1, OtherAccounted
  <1> QED
    BY <1>2, <1>3 DEF AccountedFor, ProxyTargetForPath, IsProxyPath

\* An answer that is sound and accounted for.
Replied(p, g) == \E adapter : Sound(adapter, Loose(adapter, p), g) /\ AccountedFor(p, adapter)

LEMMA LooseFacts ==
    ASSUME NEW adapter, NEW p
    PROVE  Loose(adapter, p) \in BOOLEAN /\ (adapter # "github" => Loose(adapter, p) = Encoded(Decoded(p)))
  BY DEF Loose, Encoded

LEMMA StaticAsset ==
    ASSUME NEW p, NEW error, error \notin {"fetch", "below"}
    PROVE  Replied(p, Refuse("none", error))
  <1>1. PICK loose \in BOOLEAN : loose = Loose("none", p)
    BY LooseFacts
  <1>2. Sound("none", loose, Refuse("none", error))
    BY RefuseSound
  <1> QED
    BY <1>1, <1>2 DEF Replied, AccountedFor

LEMMA RepliedAt ==
    ASSUME NEW p, NEW x \in TargetPrefixes, AtOrBelow(x, p), NEW g,
           NEW loose, loose = Encoded(Decoded(p)), Sound(AdapterAt(x), loose, g)
    PROVE  Replied(p, g)
  <1>1. AdapterAt(x) # "github"
    BY DEF AdapterAt, TargetPrefixes, Plain
  <1> QED
    BY <1>1, PrefixAccounted, LooseFacts DEF Replied

LEMMA RootSound ==
    ASSUME setting \in DOMAIN Settings, NEW p \in Path, Len(p) >= 2, p[1] = "/",
           AtOrBelow(p[2], p), NEW loose \in BOOLEAN, loose = Encoded(Decoded(p))
    PROVE  Replied(p, Root(p[2]))
  <1>1. PICK x : x = p[2]
    OBVIOUS
  <1>2. CASE x \in Plain
    <2>1. PICK a : a = AdapterAt(x)
      OBVIOUS
    <2>2. Root(x) = Checked(a, TRUE, Own(a, "none"))
      BY <1>2, <2>1 DEF Root, Plain
    <2>3. Sound(a, loose, Own(a, "none"))
      BY OwnSound DEF Kinds
    <2>4. Sound(a, loose, Root(x))
      BY <2>2, <2>3, CheckedSound
    <2> QED
      BY <1>1, <1>2, <2>1, <2>4, RepliedAt DEF TargetPrefixes
  <1>3. CASE x = "composer"
    <2>1. "packages" \in Token /\ ".json" \in Token
      BY Tokens
    <2>2. PICK r \in Path : r = <<"packages", ".json">>
      <3>1. <<"packages", ".json">> \in Path
        BY <2>1 DEF Path
      <3> QED
        BY <3>1
    <2>3. Root(x) = Composer(r)
      BY <1>3, <2>2 DEF Root, Plain
    <2>4. AdapterAt(x) = "composer"
      BY <1>3 DEF AdapterAt
    <2> QED
      BY <1>1, <1>3, <2>3, <2>4, ComposerSound, RepliedAt DEF TargetPrefixes
  <1>4. CASE x = "npm"
    <2>1. <<>> \in Path
      BY DEF Path
    <2>2. Root(x) = Npm(<<>>, "GET")
      BY <1>4 DEF Root, Plain
    <2>3. AdapterAt(x) = "npm"
      BY <1>4 DEF AdapterAt
    <2> QED
      BY <1>1, <1>4, <2>1, <2>2, <2>3, NpmSound, RepliedAt DEF TargetPrefixes
  <1>5. CASE x = "crates-index"
    <2>1. "config" \in Token /\ ".json" \in Token
      BY Tokens
    <2>2. PICK r \in Path : r = <<"config", ".json">>
      <3>1. <<"config", ".json">> \in Path
        BY <2>1 DEF Path
      <3> QED
        BY <3>1
    <2>3. Root(x) = CratesIndex(r)
      BY <1>5, <2>2 DEF Root, Plain
    <2>4. Sound("crates", loose, CratesIndex(r)) /\ AccountedFor(p, "crates")
      BY <1>1, <1>5, CratesSound, CratesAccounted
    <2> QED
      BY <1>1, <2>3, <2>4, LooseFacts DEF Replied
  <1>6. CASE x \notin Plain /\ x \notin {"composer", "npm", "crates-index"}
    <2>1. Root(x) = Refuse("none", "StaticAsset")
      BY <1>6 DEF Root
    <2> QED
      BY <1>1, <2>1, StaticAsset
  <1> QED
    BY <1>2, <1>3, <1>4, <1>5, <1>6

LEMMA ProxiedSound ==
    ASSUME setting \in DOMAIN Settings, NEW p \in Path, Len(p) >= 2, p[1] = "/",
           AtOrBelow(p[2], p), NEW raw \in Path,
           NEW loose \in BOOLEAN, loose = Encoded(Decoded(p)), Encoded(Decoded(raw)) => loose
    PROVE  Replied(p, Proxied(p[2], raw))
  <1>0. PICK rest \in Path : rest = Decoded(raw) /\ (Encoded(rest) => loose)
    BY DecodedFacts
  <1>1. PICK x : x = p[2]
    OBVIOUS
  <1>2. CASE x \in Repositories
    <2>1. Proxied(x, raw) = Repository(x, rest)
      BY <1>0, <1>2 DEF Repositories, Proxied, Anaconda, Clojars, CocoaPods, Cpan, Cran, Elpa, Flatpak,
                  Guix, Hackage, Homebrew, Julia, LuaRocks, Maven, Nix, Nvm, Opam, Rustup, TexLive,
                  WinGet
    <2>2. AdapterAt(x) = x /\ x \in TargetPrefixes
      BY <1>2 DEF Repositories, AdapterAt, TargetPrefixes, Plain
    <2>3. Sound(x, loose, Repository(x, rest))
      BY <1>0, <1>2, RepositorySound
    <2> QED
      BY <1>1, <2>1, <2>2, <2>3, RepliedAt
  <1>3. CASE x \in {"composer", "goproxy", "rubygems", "pub", "huggingface", "os", "v2"}
    <2>1. x \in TargetPrefixes
      BY <1>3 DEF TargetPrefixes, Plain
    <2>2. /\ Sound("composer", loose, Composer(rest)) /\ Sound("go", loose, Go(rest))
          /\ Sound("rubygems", loose, RubyGems(rest)) /\ Sound("pub", loose, Pub(rest))
          /\ Sound("huggingface", loose, HuggingFace(raw)) /\ Sound("os", loose, Os(rest))
          /\ Sound("oci", loose, Oci(rest))
      BY <1>0, ComposerSound, GoSound, RubyGemsSound, PubSound, HuggingFaceSound, OsSound, OciSound
    <2>3. Sound(AdapterAt(x), loose, Proxied(x, raw))
      BY <1>0, <1>3, <2>2 DEF AdapterAt, Proxied
    <2> QED
      BY <1>1, <2>1, <2>3, RepliedAt
  <1>4. CASE x = "nuget"
    <2>1. x \in TargetPrefixes /\ AdapterAt(x) = "nuget"
      BY <1>4 DEF TargetPrefixes, Plain, AdapterAt
    <2>2. Proxied(x, raw) = IF raw = <<"v3", "/", "index.json">> THEN NugetIndex ELSE Nuget(rest)
      BY <1>0, <1>4 DEF Proxied
    <2> QED
      BY <1>1, <2>1, <2>2, NugetSound, RepliedAt
  <1>5. CASE x = "crates-index"
    <2>1. Proxied(x, raw) = CratesIndex(rest)
      BY <1>0, <1>5 DEF Proxied
    <2>2. Sound("crates", loose, CratesIndex(rest)) /\ AccountedFor(p, "crates")
      BY <1>1, <1>5, CratesSound, CratesAccounted
    <2> QED
      BY <1>1, <2>1, <2>2, LooseFacts DEF Replied
  <1>6. CASE /\ x \notin Repositories
             /\ x \notin {"composer", "goproxy", "rubygems", "pub", "huggingface", "os", "v2",
                          "nuget", "crates-index"}
    <2>1. Proxied(x, raw) = Refuse("none", "StaticAsset")
      BY <1>6 DEF Proxied, Repositories
    <2> QED
      BY <1>1, <2>1, StaticAsset
  <1> QED
    BY <1>2, <1>3, <1>4, <1>5, <1>6

\* What the router does with a path, by its first tokens.
LEMMA RouteSound ==
    ASSUME setting \in DOMAIN Settings, NEW p \in Path, Len(p) >= 2, p[1] = "/", NEW method
    PROVE  Replied(p, Route(p, method))
  <1> DEFINE rest == SubSeq(p, 4, Len(p))
             end == SubSeq(p, 6, Len(p))
             pypi(name) == Len(p) >= 4 /\ p[2] = "pypi" /\ p[3] = "/" /\ p[4] = name
             below(n)   == Len(p) > n /\ p[n] = "/"
             npm == p[2] = "npm" /\ (Len(p) <= 3 => method = "GET") /\ (Len(p) >= 3 => p[3] = "/")
             simple == pypi("simple") /\ (Len(p) = 4 \/ p[5] = "/")
             file == pypi("files") /\ below(5)
             package == pypi("packages") /\ below(5)
             krate == p[2] = "crates" /\ IsCratesDownload(SubSeq(p, 3, Len(p)))
             root == Len(p) = 2 \/ (Len(p) = 3 /\ p[3] = "/")
  <1>1. Route(p, method) =
           IF IsGithubProxyPath(p) THEN Fallback(p, method)
           ELSE IF npm THEN Npm(Decoded(rest), method)
           ELSE IF method # "GET" THEN Refuse("none", "MethodNotAllowed")
           ELSE IF simple THEN PypiSimple(Decoded(end))
           ELSE IF file THEN PypiFile(Decoded(end))
           ELSE IF package THEN PypiFile(<<"packages", "/">> \o Decoded(end))
           ELSE IF krate THEN CratesDownload(SubSeq(p, 3, Len(p)))
           ELSE IF root THEN Root(p[2])
           ELSE IF p[3] = "/" THEN Proxied(p[2], rest)
           ELSE Fallback(p, method)
    BY Zenon DEF Route
  <1>2. /\ Len(p) \in Nat
        /\ Len(p) = 2 \/ Len(p) >= 3
        /\ Len(p) >= 4 => Len(p) = 4 \/ Len(p) >= 5
    <2>1. PICK n \in Nat : n = Len(p)
      BY DEF Path
    <2>2. n >= 2 => n = 2 \/ n >= 3
      OBVIOUS
    <2>3. n >= 4 => n = 4 \/ n >= 5
      OBVIOUS
    <2> QED
      BY <2>1, <2>2, <2>3, Zenon
  <1> DEFINE loose == Encoded(Decoded(p))
  <1>0. loose \in BOOLEAN
    BY DEF Encoded
  <1>3. /\ SubSeq(p, 3, Len(p)) \in Path /\ rest \in Path
        /\ Decoded(rest) \in Path /\ (Encoded(Decoded(rest)) => loose)
        /\ Decoded(end) \in Path /\ (Encoded(Decoded(end)) => loose)
    <2>1. Len(p) <= Len(p)
      BY <1>2
    <2>2. SubSeq(p, 3, Len(p)) \in Path /\ rest \in Path
      BY <1>2, <2>1, SubPath
    <2>3. PICK four \in Nat, six \in Nat : four = 4 /\ six = 6 /\ four >= 1 /\ six >= 1
      OBVIOUS
    <2>4. /\ Decoded(SubSeq(p, four, Len(p))) \in Path
          /\ Encoded(Decoded(SubSeq(p, four, Len(p)))) => Encoded(Decoded(p))
          /\ Decoded(SubSeq(p, six, Len(p))) \in Path
          /\ Encoded(Decoded(SubSeq(p, six, Len(p)))) => Encoded(Decoded(p))
      BY <2>3, DecodedEnd
    <2>5. /\ Decoded(SubSeq(p, 4, Len(p))) \in Path
          /\ Encoded(Decoded(SubSeq(p, 4, Len(p)))) => Encoded(Decoded(p))
          /\ Decoded(SubSeq(p, 6, Len(p))) \in Path
          /\ Encoded(Decoded(SubSeq(p, 6, Len(p)))) => Encoded(Decoded(p))
      BY <2>3, <2>4
    <2> QED
      BY <2>2, <2>5
  <1> HIDE DEF end
  <1>4. ASSUME IsGithubProxyPath(p) PROVE Replied(p, Fallback(p, method))
    <2>1. PICK strict \in BOOLEAN : strict = Loose("github", p)
      BY LooseFacts
    <2>2. Sound("github", strict, Github(p, method))
      BY <1>4, GithubSound
    <2> QED
      BY <1>4, <2>1, <2>2, GithubAccounted DEF Fallback, Replied
  <1>5. ASSUME npm PROVE Replied(p, Npm(Decoded(rest), method))
    <2>1. Sound("npm", loose, Npm(Decoded(rest), method))
      BY <1>0, <1>3, NpmSound
    <2>3. AtOrBelow("npm", p)
      BY <1>2, <1>5, Zenon DEF AtOrBelow
    <2>4. "npm" \in TargetPrefixes /\ AdapterAt("npm") = "npm"
      BY DEF TargetPrefixes, AdapterAt
    <2> HIDE DEF rest, loose
    <2>5. loose = Encoded(Decoded(p))
      BY DEF loose
    <2> QED
      BY <2>1, <2>3, <2>4, <2>5, RepliedAt
  <1>6. Replied(p, Refuse("none", "MethodNotAllowed")) /\ Replied(p, Refuse("none", "StaticAsset"))
    BY StaticAsset
  <1>7. ASSUME simple PROVE Replied(p, PypiSimple(Decoded(end)))
    <2>1. Sound("pypi", loose, PypiSimple(Decoded(end)))
      BY <1>0, <1>3, PypiSound
    <2>2. \/ Len(p) = 4 /\ p[4] = "simple"
          \/ Len(p) >= 5 /\ p[4] = "simple" /\ p[5] = "/"
      BY <1>2, <1>7, Zenon
    <2> QED
      BY <1>7, <2>1, <2>2, PypiAccounted, LooseFacts DEF Replied
  <1>8. ASSUME file \/ package
        PROVE  Len(p) >= 5 /\ p[4] \in {"files", "packages"} /\ p[5] = "/" /\ AccountedFor(p, "pypi")
    <2>1. Len(p) >= 5 /\ p[4] \in {"files", "packages"} /\ p[5] = "/"
      BY <1>2, <1>8
    <2> QED
      BY <1>8, <2>1, PypiAccounted
  <1>9. ASSUME file PROVE Replied(p, PypiFile(Decoded(end)))
    <2>1. Sound("pypi", loose, PypiFile(Decoded(end)))
      BY <1>0, <1>3, PypiSound
    <2> QED
      BY <1>8, <1>9, <2>1, LooseFacts DEF Replied
  <1>10. ASSUME package PROVE Replied(p, PypiFile(<<"packages", "/">> \o Decoded(end)))
    <2>1. "packages" \in Token /\ "/" \in Token
      BY Tokens
    <2>2. PICK d \in Path : d = <<"packages", "/">>
      <3>1. <<"packages", "/">> \in Path
        BY <2>1 DEF Path
      <3> QED
        BY <3>1
    <2>3. PICK e \in Path : e = Decoded(end) /\ (Encoded(e) => loose)
      BY <1>3
    <2>4. d \o e \in Path /\ (Encoded(d \o e) => loose)
      <3>1. /\ d \o e \in Path /\ Len(d \o e) = Len(d) + Len(e)
            /\ \A i \in 1..Len(d) + Len(e) :
                  (d \o e)[i] = IF i <= Len(d) THEN d[i] ELSE e[i - Len(d)]
        BY JoinedPath
      <3>2. Len(d) = 2 /\ d[1] = "packages" /\ d[2] = "/"
        BY <2>2
      <3>3. Len(e) \in Nat /\ DOMAIN e = 1..Len(e)
        BY DEF Path
      <3>4. PICK z \in Path : z = d \o e /\ DOMAIN z = 1..2 + Len(e)
        <4>1. PICK z \in Path : z = d \o e
          BY <3>1
        <4>2. DOMAIN z = 1..Len(z)
          BY DEF Path
        <4>3. Len(z) = 2 + Len(e)
          BY <3>1, <3>2, <4>1
        <4> QED
          BY <4>1, <4>2, <4>3
      <3> HIDE DEF loose
      <3>5. ASSUME Encoded(z) PROVE Encoded(e)
        <4>1. PICK i \in 1..2 + Len(e) : z[i] \in {"%2e", "%2e%2e"}
          BY <3>4, <3>5 DEF Encoded
        <4>2. i # 1 /\ i # 2
          <5>1. 1 \in 1..2 + Len(e) /\ 2 \in 1..2 + Len(e)
            BY <3>3
          <5>2. z[1] = "packages" /\ z[2] = "/"
            BY <3>1, <3>2, <3>4, <5>1
          <5> QED
            BY <4>1, <5>2
        <4>3. i - 2 \in 1..Len(e) /\ ~(i <= 2)
          BY <3>3, <4>2
        <4>4. z[i] = e[i - 2]
          BY <3>1, <3>2, <3>4, <4>1, <4>3
        <4> QED
          BY <3>3, <4>1, <4>3, <4>4 DEF Encoded
      <3> QED
        BY <2>3, <3>1, <3>4, <3>5
    <2>5. PICK z \in Path : z = d \o e /\ (Encoded(z) => loose)
      BY <2>4
    <2>6. Sound("pypi", loose, PypiFile(z))
      BY <1>0, <2>5, PypiSound
    <2> QED
      BY <1>8, <1>10, <2>2, <2>3, <2>5, <2>6, LooseFacts DEF Replied
  <1>11. ASSUME krate PROVE Replied(p, CratesDownload(SubSeq(p, 3, Len(p))))
    <2>1. Sound("crates", loose, CratesDownload(SubSeq(p, 3, Len(p))))
      BY <1>0, <1>3, <1>11, CratesSound
    <2> QED
      BY <1>11, <2>1, CratesAccounted, LooseFacts DEF Replied
  <1>12. ASSUME root PROVE Replied(p, Root(p[2]))
    <2>1. AtOrBelow(p[2], p)
      BY <1>12 DEF AtOrBelow
    <2> QED
      BY <1>0, <2>1, RootSound
  <1>13. ASSUME p[3] = "/" PROVE Replied(p, Proxied(p[2], rest))
    <2>1. AtOrBelow(p[2], p)
      BY <1>13 DEF AtOrBelow
    <2> QED
      BY <1>0, <1>3, <2>1, ProxiedSound
  <1>14. Replied(p, Fallback(p, method))
    BY <1>4, <1>6 DEF Fallback
  <1> HIDE DEF rest, loose, npm, simple, file, package, krate, root
  <1> QED
    BY <1>1, <1>4, <1>5, <1>6, <1>7, <1>9, <1>10, <1>11, <1>12, <1>13, <1>14

\* The same of an answer that names its adapter.
LEMMA RepliedFacts ==
    ASSUME NEW p, NEW g, Replied(p, g)
    PROVE  Sound(g.adapter, Loose(g.adapter, p), g) /\ AccountedFor(p, g.adapter)
  <1>1. PICK a : Sound(a, Loose(a, p), g) /\ AccountedFor(p, a)
    BY DEF Replied
  <1>2. g = [result |-> g.result, adapter |-> a, url |-> g.url, rewrites |-> g.rewrites,
             candidates |-> g.candidates]
    BY <1>1 DEF Sound
  <1>3. g.adapter = a
    BY <1>2
  <1> QED
    BY <1>1, <1>3

-----------------------------------------------------------------------------
(* Following links.                                                        *)

\* Where the routes take the paths that documents show.
LEMMA ShownRoutes ==
    ASSUME NEW p \in Path, Len(p) >= 3
    PROVE  /\ p[2] = "npm" /\ p[3] = "/" => Route(p, "GET") = Npm(Decoded(SubSeq(p, 4, Len(p))), "GET")
           /\ p[2] = "pypi" /\ p[3] = "/" /\ p[4] = "files" /\ Len(p) > 5 /\ p[5] = "/" =>
                 Route(p, "GET") = PypiFile(Decoded(SubSeq(p, 6, Len(p))))
           /\ p[2] = "pypi" /\ p[3] = "/" /\ p[4] = "packages" /\ Len(p) > 5 /\ p[5] = "/" =>
                 Route(p, "GET") = PypiFile(<<"packages", "/">> \o Decoded(SubSeq(p, 6, Len(p))))
           /\ IsGithubProxyPath(p) => Route(p, "GET") = Github(p, "GET")
           /\ p[3] = "://" /\ ~IsGithubProxyPath(p) => Route(p, "GET") = Refuse("none", "StaticAsset")
           /\ p[2] \in {"nuget", "pub", "huggingface"} /\ p[3] = "/" /\ Len(p) >= 4 =>
                 Route(p, "GET") = Proxied(p[2], SubSeq(p, 4, Len(p)))
           /\ p[2] = "huggingface" /\ p[3] # "/" => Route(p, "GET") = Refuse("none", "StaticAsset")
           /\ p[2] = "crates" /\ IsCratesDownload(SubSeq(p, 3, Len(p))) =>
                 Route(p, "GET") = CratesDownload(SubSeq(p, 3, Len(p)))
  <1>1. PICK n \in Nat : n = Len(p)
    BY DEF Path
  <1>2. n >= 3 /\ ~(n = 2) /\ (n > 5 => n >= 4 /\ ~(n = 4) /\ ~(n = 3)) /\ (n >= 4 => ~(n = 3))
    <2>1. n >= 3
      BY <1>1
    <2> QED
      BY <2>1
  <1>3. IsGithubProxyPath(p) => p[2] = "https" /\ p[3] = "://"
    BY DEF IsGithubProxyPath
  <1>4. IsGithubProxyPath(p) => Route(p, "GET") = Github(p, "GET")
    BY DEF Route, Fallback
  <1>5. p[2] = "npm" /\ p[3] = "/" => Route(p, "GET") = Npm(Decoded(SubSeq(p, 4, Len(p))), "GET")
    BY <1>3 DEF Route
  <1>6. p[2] = "pypi" /\ p[3] = "/" /\ p[4] = "files" /\ Len(p) > 5 /\ p[5] = "/" =>
           Route(p, "GET") = PypiFile(Decoded(SubSeq(p, 6, Len(p))))
    BY <1>1, <1>2, <1>3 DEF Route
  <1>7. p[2] = "pypi" /\ p[3] = "/" /\ p[4] = "packages" /\ Len(p) > 5 /\ p[5] = "/" =>
           Route(p, "GET") = PypiFile(<<"packages", "/">> \o Decoded(SubSeq(p, 6, Len(p))))
    BY <1>1, <1>2, <1>3 DEF Route
  <1>8. p[3] # "/" => ~IsCratesDownload(SubSeq(p, 3, Len(p)))
    <2>1. PICK q \in Path : q = SubSeq(p, 3, Len(p)) /\ q[1] = p[3]
      <3>1. 1 \in 1..n - 3 + 1 /\ 3 + 1 - 1 = 3 /\ n <= n /\ 3 >= 1
        BY <1>2
      <3>2. SubSeq(p, 3, n) \in Path /\ \A i \in 1..n - 3 + 1 : SubSeq(p, 3, n)[i] = p[3 + i - 1]
        BY <1>1, <3>1, SubPath
      <3>3. SubSeq(p, 3, n)[1] = p[3]
        BY <3>1, <3>2
      <3> QED
        BY <1>1, <3>2, <3>3
    <2>2. ASSUME IsPrefix(CratesApi, q) PROVE q[1] = "/"
      <3>1. /\ "/" \in Token /\ "api" \in Token /\ "v1" \in Token /\ "crates" \in Token
        BY Tokens
      <3>2. PICK s \in Path : s = CratesApi
        <4>1. CratesApi \in Path
          BY <3>1 DEF CratesApi, Path
        <4> QED
          BY <4>1
      <3>3. s[1] = "/" /\ 1 \in 1..Len(s)
        BY <3>2 DEF CratesApi
      <3>4. \A i \in 1..Len(s) : s[i] = q[i]
        BY <2>2, <3>2, PrefixMeans DEF Path
      <3> QED
        BY <3>3, <3>4
    <2> QED
      BY <2>1, <2>2 DEF IsCratesDownload
  <1>9. p[3] = "://" /\ ~IsGithubProxyPath(p) => Route(p, "GET") = Refuse("none", "StaticAsset")
    <2>1. p[3] = "://" => p[3] # "/"
      OBVIOUS
    <2> QED
      BY <1>1, <1>2, <1>8, <2>1 DEF Route, Fallback
  <1>10. p[2] = "huggingface" /\ p[3] # "/" => Route(p, "GET") = Refuse("none", "StaticAsset")
    BY <1>1, <1>2, <1>3 DEF Route, Fallback
  <1>11. p[2] \in {"nuget", "pub", "huggingface"} /\ p[3] = "/" /\ Len(p) >= 4 =>
            Route(p, "GET") = Proxied(p[2], SubSeq(p, 4, Len(p)))
    BY <1>1, <1>2, <1>3 DEF Route
  <1>12. p[2] = "crates" /\ IsCratesDownload(SubSeq(p, 3, Len(p))) =>
            Route(p, "GET") = CratesDownload(SubSeq(p, 3, Len(p)))
    BY <1>3 DEF Route
  <1> QED
    BY <1>4, <1>5, <1>6, <1>7, <1>9, <1>10, <1>11, <1>12

\* The end of a path that was put together.
LEMMA JoinedEnd ==
    ASSUME NEW d \in Path, NEW q \in Path, NEW k \in 1..Len(q) + 1
    PROVE  SubSeq(d \o q, Len(d) + k, Len(d) + Len(q)) = SubSeq(q, k, Len(q))
  <1>1. Len(d) \in Nat /\ Len(q) \in Nat
    BY DEF Path
  <1>2. PICK s \in Path : s = d \o q
    BY JoinedPath
  <1>3. /\ Len(s) = Len(d) + Len(q)
        /\ \A i \in 1..Len(d) + Len(q) : s[i] = IF i <= Len(d) THEN d[i] ELSE q[i - Len(d)]
    BY <1>2, JoinedPath
  <1>4. PICK u \in Path : /\ u = SubSeq(s, Len(d) + k, Len(d) + Len(q))
                          /\ Len(u) = Len(q) - k + 1
                          /\ \A i \in 1..Len(q) - k + 1 : u[i] = s[Len(d) + k + i - 1]
    <2>1. PICK m \in Nat, n \in Nat : m = Len(d) + k /\ n = Len(d) + Len(q)
      BY <1>1
    <2>2. m >= 1 /\ n <= Len(s) /\ n - m + 1 = Len(q) - k + 1
          /\ (IF m <= n THEN n - m + 1 ELSE 0) = Len(q) - k + 1
      BY <1>1, <1>3, <2>1
    <2>3. /\ SubSeq(s, m, n) \in Path /\ Len(SubSeq(s, m, n)) = IF m <= n THEN n - m + 1 ELSE 0
          /\ \A i \in 1..n - m + 1 : SubSeq(s, m, n)[i] = s[m + i - 1]
      BY <2>2, SubPath
    <2> QED
      BY <2>1, <2>2, <2>3
  <1>5. PICK v \in Path : /\ v = SubSeq(q, k, Len(q)) /\ Len(v) = Len(q) - k + 1
                          /\ \A i \in 1..Len(q) - k + 1 : v[i] = q[k + i - 1]
    <2>1. PICK n \in Nat : n = Len(q)
      BY <1>1
    <2>2. k \in Nat /\ k >= 1 /\ n <= n /\ (IF k <= n THEN n - k + 1 ELSE 0) = n - k + 1
      BY <2>1
    <2>3. /\ SubSeq(q, k, n) \in Path /\ Len(SubSeq(q, k, n)) = IF k <= n THEN n - k + 1 ELSE 0
          /\ \A i \in 1..n - k + 1 : SubSeq(q, k, n)[i] = q[k + i - 1]
      BY <2>1, <2>2, SubPath
    <2> QED
      BY <2>1, <2>2, <2>3
  <1>6. ASSUME NEW i \in 1..Len(q) - k + 1 PROVE u[i] = v[i]
    <2>1. PICK j : j = Len(d) + k + i - 1
      OBVIOUS
    <2>2. j \in 1..Len(d) + Len(q) /\ ~(j <= Len(d)) /\ j - Len(d) = k + i - 1
      BY <1>1, <2>1
    <2>3. s[j] = q[k + i - 1]
      BY <1>3, <2>2
    <2> QED
      BY <1>4, <1>5, <2>1, <2>3
  <1> QED
    BY <1>2, <1>4, <1>5, <1>6, PathEqual

LEMMA SlashTail ==
    ASSUME NEW p \in Path, p # <<>>, p[1] = "/"
    PROVE  Tail(p) \in Path /\ Len(Tail(p)) = Len(p) - 1 /\ <<"/">> \o Tail(p) = p
  <1>1. PICK n \in Nat : n = Len(p) /\ n >= 1
    BY DEF Path
  <1>2. PICK t \in Path : /\ t = Tail(p) /\ Len(t) = n - 1 /\ \A i \in 1..n - 1 : t[i] = p[i + 1]
    <2>1. Tail(p) \in Path /\ Len(Tail(p)) = Len(p) - 1
      BY DEF Path
    <2>2. \A i \in 1..Len(p) - 1 : Tail(p)[i] = p[i + 1]
      BY DEF Path
    <2> QED
      BY <1>1, <2>1, <2>2
  <1>3. PICK o \in Path : o = <<"/">> /\ Len(o) = 1 /\ o[1] = "/"
    BY Slash
  <1>4. PICK u \in Path : /\ u = o \o t /\ Len(u) = 1 + (n - 1)
                          /\ \A i \in 1..1 + (n - 1) : u[i] = IF i <= 1 THEN o[i] ELSE t[i - 1]
    <2>1. /\ o \o t \in Path /\ Len(o \o t) = Len(o) + Len(t)
          /\ \A i \in 1..Len(o) + Len(t) :
                (o \o t)[i] = IF i <= Len(o) THEN o[i] ELSE t[i - Len(o)]
      BY JoinedPath
    <2> QED
      BY <1>2, <1>3, <2>1
  <1>5. ASSUME NEW i \in 1..n PROVE u[i] = p[i]
    <2>1. CASE i = 1
      <3>1. 1 \in 1..1 + (n - 1) /\ 1 <= 1
        BY <1>1
      <3> QED
        BY <1>3, <1>4, <2>1, <3>1
    <2>2. CASE i # 1
      <3>1. i \in 1..1 + (n - 1) /\ ~(i <= 1) /\ i - 1 \in 1..n - 1 /\ i - 1 + 1 = i
        BY <2>2
      <3> QED
        BY <1>2, <1>4, <3>1
    <2> QED
      BY <2>1, <2>2
  <1>6. Len(u) = n
    BY <1>4
  <1> QED
    BY <1>1, <1>2, <1>3, <1>4, <1>5, <1>6, PathEqual

\* Paths whose names are neither empty nor odd.
Clean(p) ==
    /\ p \in Path /\ p # <<>> /\ Len(p) >= 2 /\ p[1] = "/" /\ p[2] # "/"
    /\ ~Odd(p) /\ Normalised(p) = p /\ TrimStart(p) = Tail(p)
    /\ Tail(p) \in Path /\ SanitizeRepositoryPath(Tail(p)) /\ ~Odd(Tail(p)) /\ ~Dotted(Tail(p))
    /\ Tail(p) = SubSeq(p, 2, Len(p))
    /\ Tail(p)[1] = p[2] /\ Tail(p) # <<>>
    /\ TrimStart(Tail(p)) = Tail(p) /\ <<"/">> \o Tail(p) = p
    /\ p[Len(p)] # "/"

LEMMA CleanFacts ==
    ASSUME NEW p \in Path, p # <<>>, p[1] = "/", Tail(p) # <<>>, ~Odd(Tail(p)), ~Gap(Tail(p))
    PROVE  Clean(p)
  <1>2. PICK n \in Nat : n = Len(p) /\ n >= 1
    BY DEF Path
  <1>3. PICK t \in Path : /\ t = Tail(p) /\ Len(t) = n - 1 /\ \A i \in 1..n - 1 : t[i] = p[i + 1]
    <2>1. Tail(p) \in Path /\ Len(Tail(p)) = Len(p) - 1
      BY DEF Path
    <2>2. \A i \in 1..Len(p) - 1 : Tail(p)[i] = p[i + 1]
      BY DEF Path
    <2> QED
      BY <1>2, <2>1, <2>2
  <1>4. SanitizeRepositoryPath(t) /\ t # <<>> /\ ~Odd(t) /\ ~Gap(t) /\ ~Dotted(t)
    BY <1>3, OddParts DEF SanitizeRepositoryPath
  <1>5. n >= 2 /\ DOMAIN t = 1..n - 1
    <2>1. Len(t) # 0
      BY <1>4 DEF Path
    <2> QED
      BY <1>2, <1>3, <2>1 DEF Path
  <1>6. t[1] # "/" /\ t[n - 1] # "/" /\ t[1] = p[2] /\ t[n - 1] = p[n]
    <2>1. 1 \in 1..n - 1 /\ n - 1 \in 1..n - 1 /\ 1 + 1 = 2 /\ n - 1 + 1 = n
      BY <1>5
    <2> QED
      BY <1>3, <1>4, <1>5, <2>1 DEF Gap
  <1>7. t = SubSeq(p, 2, n)
    BY <1>2, <1>3, <1>5 DEF Path
  <1>8. <<"/">> \o t = p
    BY <1>3, SlashTail
  <1>9. ~Odd(p)
    BY <1>4, <1>8, SlashBefore
  <1>10. Normalised(p) = p
    BY <1>9, NormalisedFacts
  <1>11. TrimStart(p) = t /\ TrimStart(t) = t
    BY <1>2, <1>3, <1>4, <1>5, <1>6, TrimStartFacts
  <1> QED
    BY <1>2, <1>3, <1>4, <1>5, <1>6, <1>7, <1>8, <1>9, <1>10, <1>11 DEF Clean

\* What a plausible link has, as it is and decoded.
LEMMA PlausibleFacts ==
    ASSUME NEW l \in Links, Plausible(l)
    PROVE  /\ Clean(l.path) /\ Clean(Decoded(l.path))
           /\ Decoded(Tail(l.path)) = Tail(Decoded(l.path))
           /\ Len(Decoded(l.path)) = Len(l.path)
  <1>1. PICK p \in Path : p = l.path /\ p # <<>> /\ p[1] = "/" /\ SaneHubPath(Tail(p))
    BY PathsAssumption, StringPaths DEF Plausible
  <1>2. PICK n \in Nat : n = Len(p) /\ n >= 1
    BY <1>1 DEF Path
  <1>3. PICK t \in Path : /\ t = Tail(p) /\ Len(t) = n - 1 /\ \A i \in 1..n - 1 : t[i] = p[i + 1]
    <2>1. Tail(p) \in Path /\ Len(Tail(p)) = Len(p) - 1
      BY <1>1 DEF Path
    <2>2. \A i \in 1..Len(p) - 1 : Tail(p)[i] = p[i + 1]
      BY <1>1 DEF Path
    <2> QED
      BY <1>2, <2>1, <2>2
  <1>4. PICK d \in Path : /\ d = Decoded(p) /\ Len(d) = n
                          /\ \A i \in 1..n : d[i] = DecodedToken(p[i])
    BY <1>2, DecodedFacts
  <1>5. PICK u \in Path : /\ u = Decoded(t) /\ Len(u) = n - 1 /\ DOMAIN u = 1..n - 1
                          /\ \A i \in 1..n - 1 : u[i] = DecodedToken(t[i])
    <2>1. /\ Decoded(t) \in Path /\ Len(Decoded(t)) = Len(t) /\ DOMAIN Decoded(t) = 1..Len(t)
          /\ \A i \in 1..Len(t) : Decoded(t)[i] = DecodedToken(t[i])
      BY DecodedFacts
    <2> QED
      BY <1>3, <2>1
  <1>6. DOMAIN t = 1..n - 1
    BY <1>3 DEF Path
  <1>7. d # <<>> /\ d[1] = "/"
    <2>1. Len(d) # 0 /\ 1 \in 1..n
      BY <1>2, <1>4
    <2>2. DecodedToken("/") = "/"
      BY DEF DecodedToken
    <2> QED
      BY <1>1, <1>4, <2>1, <2>2
  <1>8. u = Tail(d)
    <2>1. PICK w \in Path : /\ w = Tail(d) /\ Len(w) = n - 1 /\ \A i \in 1..n - 1 : w[i] = d[i + 1]
      <3>1. Tail(d) \in Path /\ Len(Tail(d)) = Len(d) - 1
        BY <1>7 DEF Path
      <3>2. \A i \in 1..Len(d) - 1 : Tail(d)[i] = d[i + 1]
        BY <1>7 DEF Path
      <3> QED
        BY <1>4, <3>1, <3>2
    <2>2. \A i \in 1..n - 1 : i + 1 \in 1..n
      OBVIOUS
    <2>3. \A i \in 1..n - 1 : w[i] = u[i]
      BY <1>3, <1>4, <1>5, <2>1, <2>2
    <2> QED
      BY <1>5, <2>1, <2>3, PathEqual
  <1>9. u # <<>> /\ ~Odd(u) /\ ~Gap(u) /\ ~Dotted(u)
    BY <1>1, <1>3, <1>5, OddParts DEF SaneHubPath, SanitizeRepositoryPath
  <1>10. Clean(d)
    BY <1>7, <1>8, <1>9, CleanFacts
  <1>11. t # <<>>
    <2>1. Len(u) # 0
      BY <1>9 DEF Path
    <2> QED
      BY <1>3, <1>5, <2>1
  <1>12. ~Odd(t)
    <2>1. \A x \in {".", "..", "\\", "%2e", "%2e%2e"} : DecodedToken(x) \in {".", "..", "\\"}
      BY DEF DecodedToken
    <2>2. ASSUME NEW i \in 1..n - 1, t[i] \in {".", "..", "\\", "%2e", "%2e%2e"} PROVE FALSE
      <3>1. u[i] \in {".", "..", "\\"}
        BY <1>5, <2>1, <2>2
      <3> QED
        BY <1>5, <1>9, <3>1 DEF Dotted
    <2> QED
      BY <1>6, <2>2 DEF Odd
  <1>13. ~Gap(t)
    <2>1. ASSUME NEW i \in 1..n - 1, t[i] = "/", i \in {1, Len(t)} \/ t[i + 1] = "/" PROVE FALSE
      <3>1. DecodedToken("/") = "/"
        BY DEF DecodedToken
      <3>2. u[i] = "/"
        BY <1>5, <2>1, <3>1
      <3>3. CASE i \in {1, n - 1}
        BY <1>5, <1>9, <3>2, <3>3 DEF Gap
      <3>4. CASE i \notin {1, n - 1}
        <4>1. i + 1 \in 1..n - 1
          BY <3>4
        <4>2. t[i + 1] = "/"
          BY <1>3, <2>1, <3>4
        <4>3. u[i + 1] = "/"
          BY <1>5, <3>1, <4>1, <4>2
        <4> QED
          BY <1>5, <1>9, <3>2, <4>3 DEF Gap
      <3> QED
        BY <3>3, <3>4
    <2> QED
      BY <1>6, <2>1 DEF Gap
  <1>14. Clean(p)
    BY <1>1, <1>3, <1>11, <1>12, <1>13, CleanFacts
  <1> QED
    BY <1>1, <1>2, <1>3, <1>4, <1>5, <1>8, <1>10, <1>14

\* Resource and Dead, of an adapter and a path that were asked for.
ResourceFor(adapter, l, url) ==
    \/ url.path \in {l.path, Decoded(l.path)} /\ url.host = l.host
    \/ \E key \in StandIn(l.host), path \in {l.path, Decoded(l.path)} :
          LET base == SelectUpstream(config.up[key])
          IN  SameOrigin(base, url) /\ url.path \in {path, TrimEnd(base.path) \o path}
    \/ /\ adapter = "huggingface"
       /\ LET base == SelectUpstream(config.up["huggingface"])
          IN  /\ BelowEndpoint(base, url)
              /\ \E k \in 1..Len(l.path) :
                    After(TrimEnd(base.path), url.path) = SubSeq(l.path, k, Len(l.path))

DeadAt(p, l) == \/ l.host = "repo.packagist.org" \/ (l.host \in GithubHosts /\ l.scheme # "https")
                \/ p[2] = "huggingface" /\ p[3] # "/"

\* What following a link comes to.
Leads(l, g) ==
    /\ g.result \in {"fetch", "Disabled"}
    /\ g.result = "fetch" => ResourceFor(g.adapter, l, g.url)

LEMMA FetchLeads ==
    ASSUME NEW adapter, NEW l, NEW url, NEW kind, ResourceFor(adapter, l, url)
    PROVE  Leads(l, Fetch(adapter, url, kind))
  BY DEF Leads, Fetch

LEMMA CheckedLeads ==
    ASSUME NEW adapter, NEW l, NEW sane \in BOOLEAN, sane, NEW answer, Leads(l, answer)
    PROVE  Leads(l, Checked(adapter, sane, answer))
  BY DEF Leads, Checked, Refuse

\* The parts of a path that a document shows.
LEMMA ShownParts ==
    ASSUME NEW d \in Path, NEW q \in Path, Len(q) >= 2
    PROVE  \E s \in Path :
              /\ s = d \o q /\ Len(s) = Len(d) + Len(q)
              /\ \A i \in 1..Len(d) : s[i] = d[i]
              /\ s[Len(d) + 1] = q[1] /\ s[Len(d) + 2] = q[2]
              /\ SubSeq(s, Len(d) + 1, Len(s)) = q
              /\ SubSeq(s, Len(d) + 2, Len(s)) = Tail(q)
  <1>1. PICK m \in Nat, n \in Nat : m = Len(d) /\ n = Len(q) /\ n >= 2
    BY DEF Path
  <1>2. PICK s : s = d \o q
    OBVIOUS
  <1>3. /\ s \in Path /\ Len(s) = m + n
        /\ \A i \in 1..m + n : s[i] = IF i <= m THEN d[i] ELSE q[i - m]
    BY <1>1, <1>2, JoinedPath
  <1>4. /\ \A i \in 1..m : s[i] = d[i]
        /\ s[m + 1] = q[1] /\ s[m + 2] = q[2]
    <2>1. /\ m + 1 \in 1..m + n /\ ~(m + 1 <= m) /\ m + 1 - m = 1
          /\ m + 2 \in 1..m + n /\ ~(m + 2 <= m) /\ m + 2 - m = 2
      BY <1>1
    <2>2. \A i \in 1..m : i \in 1..m + n /\ i <= m
      BY <1>1
    <2> QED
      BY <1>3, <2>1, <2>2
  <1>5. \A k \in 1..n + 1 : SubSeq(s, m + k, m + n) = SubSeq(q, k, n)
    BY <1>1, <1>2, JoinedEnd
  <1>6. 1 \in 1..n + 1 /\ 2 \in 1..n + 1
    BY <1>1
  <1>7. SubSeq(q, 1, n) = q /\ SubSeq(q, 2, n) = Tail(q)
    BY <1>1 DEF Path
  <1> QED
    BY <1>1, <1>2, <1>3, <1>4, <1>5, <1>6, <1>7

LEMMA NpmLeads ==
    ASSUME setting \in DOMAIN Settings, NEW l \in Links, Plausible(l), l.host = "registry.npmjs.org"
    PROVE  Leads(l, Route(<<"/", "npm">> \o l.path, "GET"))
  <1>1. PICK d \in Path : d = <<"/", "npm">>
    <2>1. "/" \in Token /\ "npm" \in Token
      BY Tokens
    <2>2. <<"/", "npm">> \in Path
      BY <2>1 DEF Path
    <2> QED
      BY <2>2
  <1>2. PICK p \in Path : p = l.path
    BY PlausibleFacts DEF Clean
  <1>3. PICK t \in Path, q \in Path, v \in Path : t = Tail(p) /\ q = Decoded(p) /\ v = Tail(q)
    BY <1>2, PlausibleFacts DEF Clean
  <1>4. /\ Len(p) >= 2 /\ p[1] = "/" /\ Decoded(t) = v
        /\ TrimStart(v) = v /\ ~Dotted(v) /\ <<"/">> \o v = q /\ Normalised(q) = q
    BY <1>2, <1>3, PlausibleFacts DEF Clean
  <1>5. PICK s \in Path : /\ s = d \o p /\ Len(s) = Len(d) + Len(p)
                          /\ \A i \in 1..Len(d) : s[i] = d[i]
                          /\ s[Len(d) + 1] = p[1]
                          /\ SubSeq(s, Len(d) + 2, Len(s)) = t
    <2>1. Len(p) >= 2
      BY <1>4
    <2>2. \E s \in Path :
             /\ s = d \o p /\ Len(s) = Len(d) + Len(p)
             /\ \A i \in 1..Len(d) : s[i] = d[i]
             /\ s[Len(d) + 1] = p[1] /\ s[Len(d) + 2] = p[2]
             /\ SubSeq(s, Len(d) + 1, Len(s)) = p
             /\ SubSeq(s, Len(d) + 2, Len(s)) = Tail(p)
      BY <2>1, ShownParts
    <2> QED
      BY <1>3, <2>2
  <1>6. Len(d) = 2 /\ d[2] = "npm"
    BY <1>1
  <1>7. Len(s) >= 3 /\ s[2] = "npm" /\ s[3] = "/" /\ SubSeq(s, 4, Len(s)) = t
    <2>1. Len(p) \in Nat
      BY DEF Path
    <2>2. 2 \in 1..2 /\ 2 + 1 = 3 /\ 2 + 2 = 4 /\ 2 + Len(p) >= 3
      BY <1>4, <2>1
    <2> QED
      BY <1>4, <1>5, <1>6, <2>2
  <1>8. Route(s, "GET") = Npm(v, "GET")
    BY <1>4, <1>7, ShownRoutes
  <1>9. PICK url : url = BuildUrl(config.up["npm"], q)
    OBVIOUS
  <1>10. SameOrigin(config.up["npm"][1], url) /\ url.path = q
    <2>1. "npm" \in KeysOf("npm") /\ "npm" \in Keys /\ "npm" \in Replacing
      BY KeysListed DEF KeysOf, Replacing
    <2> QED
      BY <1>4, <1>9, <2>1, BuildFacts
  <1>11. ResourceFor("npm", l, url)
    <2>1. StandIn(l.host) = {"npm"}
      BY DEF StandIn
    <2> QED
      BY <1>2, <1>3, <1>10, <2>1 DEF ResourceFor, SelectUpstream
  <1>12. PICK answer : answer = IF IsMetadataRequest(v) THEN Fetch("npm", url, "npm")
                ELSE IF "GET" = "POST" /\ ~IsAuditRequest(v) THEN Refuse("npm", "MethodNotAllowed")
                ELSE FetchWith("GET", "npm", url)
    OBVIOUS
  <1>13. Leads(l, answer)
    BY <1>11, <1>12, FetchLeads DEF FetchWith
  <1>14. PICK sane \in BOOLEAN : sane = ~Dotted(v)
    OBVIOUS
  <1>15. Npm(v, "GET") = Checked("npm", sane, answer)
    BY <1>4, <1>9, <1>12, <1>14 DEF Npm
  <1> QED
    <2>1. sane
      BY <1>4, <1>14
    <2>2. Leads(l, Checked("npm", sane, answer))
      BY <1>13, <2>1, CheckedLeads
    <2> QED
      BY <1>1, <1>2, <1>5, <1>8, <1>15, <2>2

LEMMA PypiFileLeads ==
    ASSUME setting \in DOMAIN Settings, NEW l \in Links, Plausible(l),
           l.host \in {"", "files.pythonhosted.org"}
    PROVE  Leads(l, PypiFile(Tail(Decoded(l.path))))
  <1>1. PICK p \in Path : p = Decoded(l.path)
    BY PlausibleFacts DEF Clean
  <1>2. PICK t \in Path : t = Tail(p)
    BY <1>1, PlausibleFacts DEF Clean
  <1>3. TrimStart(t) = t /\ ~Odd(t) /\ ~Dotted(t) /\ <<"/">> \o t = p
    BY <1>1, <1>2, PlausibleFacts DEF Clean
  <1>4. PICK g \in Group : g = config.up["pypi_files"]
    BY KeysListed, ConfigFacts
  <1>5. PICK url : url = RepositoryUrl(g, t)
    OBVIOUS
  <1>6. SameOrigin(g[1], url) /\ url.path = TrimEnd(g[1].path) \o p
    BY <1>3, <1>5, GroupFacts, RepositoryFacts
  <1>7. StandIn(l.host) = {"pypi_files"}
    BY DEF StandIn
  <1>8. ResourceFor("pypi", l, url)
    BY <1>1, <1>4, <1>6, <1>7 DEF ResourceFor, SelectUpstream
  <1>9. PICK sane \in BOOLEAN : sane = ~Dotted(t)
    OBVIOUS
  <1>10. PypiFile(t) = Checked("pypi", sane, Fetch("pypi", url, "none"))
    BY <1>3, <1>4, <1>5, <1>9 DEF PypiFile
  <1> QED
    BY <1>1, <1>2, <1>3, <1>8, <1>9, <1>10, FetchLeads, CheckedLeads

LEMMA PypiLeads ==
    ASSUME setting \in DOMAIN Settings, NEW l \in Links, Plausible(l)
    PROVE  /\ l.host = "files.pythonhosted.org" =>
                 Leads(l, Route(<<"/", "pypi", "/", "files">> \o l.path, "GET"))
           /\ l.host = "" /\ IsPrefix(<<"/", "packages", "/">>, l.path) =>
                 Leads(l, Route(<<"/", "pypi">> \o l.path, "GET"))
  <1>1. "/" \in Token /\ "pypi" \in Token /\ "files" \in Token /\ "packages" \in Token
    BY Tokens
  <1>2. PICK p \in Path : p = l.path
    BY PlausibleFacts DEF Clean
  <1>3. PICK t \in Path, q \in Path, v \in Path :
           t = Tail(p) /\ q = Decoded(p) /\ v = Tail(q) /\ Decoded(t) = v
    BY <1>2, PlausibleFacts DEF Clean
  <1>4. Len(p) >= 2 /\ p[1] = "/" /\ p[Len(p)] # "/" /\ Len(p) \in Nat
    BY <1>2, PlausibleFacts DEF Path, Clean
  <1>5. ASSUME l.host = "files.pythonhosted.org"
        PROVE  Leads(l, Route(<<"/", "pypi", "/", "files">> \o l.path, "GET"))
    <2>1. PICK d \in Path : d = <<"/", "pypi", "/", "files">>
      <3>1. <<"/", "pypi", "/", "files">> \in Path
        BY <1>1 DEF Path
      <3> QED
        BY <3>1
    <2>2. PICK s \in Path : /\ s = d \o p /\ Len(s) = Len(d) + Len(p)
                            /\ \A i \in 1..Len(d) : s[i] = d[i]
                            /\ s[Len(d) + 1] = p[1]
                            /\ SubSeq(s, Len(d) + 2, Len(s)) = t
      BY <1>3, <1>4, ShownParts
    <2>3. Len(d) = 4 /\ d[2] = "pypi" /\ d[3] = "/" /\ d[4] = "files"
      BY <2>1
    <2>4. /\ Len(s) >= 3 /\ Len(s) > 5 /\ s[2] = "pypi" /\ s[3] = "/" /\ s[4] = "files" /\ s[5] = "/"
          /\ SubSeq(s, 6, Len(s)) = t
      <3>1. 2 \in 1..4 /\ 3 \in 1..4 /\ 4 \in 1..4 /\ 4 + 1 = 5 /\ 4 + 2 = 6 /\ 4 + Len(p) >= 3
            /\ 4 + Len(p) > 5
        BY <1>4
      <3> QED
        BY <1>4, <2>2, <2>3, <3>1
    <2>5. Route(s, "GET") = PypiFile(v)
      BY <1>3, <2>4, ShownRoutes
    <2> QED
      BY <1>2, <1>3, <1>5, <2>1, <2>2, <2>5, PypiFileLeads
  <1>6. ASSUME l.host = "", IsPrefix(<<"/", "packages", "/">>, l.path)
        PROVE  Leads(l, Route(<<"/", "pypi">> \o l.path, "GET"))
    <2>1. PICK d \in Path : d = <<"/", "pypi">>
      <3>1. <<"/", "pypi">> \in Path
        BY <1>1 DEF Path
      <3> QED
        BY <3>1
    <2>2. PICK s \in Path : /\ s = d \o p /\ Len(s) = Len(d) + Len(p)
                            /\ \A i \in 1..Len(d) : s[i] = d[i]
                            /\ SubSeq(s, Len(d) + 1, Len(s)) = p
      BY <1>4, ShownParts
    <2>3. Len(d) = 2 /\ d[2] = "pypi"
      BY <2>1
    <2>4. Len(p) >= 4 /\ p[2] = "packages" /\ p[3] = "/"
      <3>1. PICK a \in Path : a = <<"/", "packages", "/">>
        <4>1. <<"/", "packages", "/">> \in Path
          BY <1>1 DEF Path
        <4> QED
          BY <4>1
      <3>2. Len(a) = 3 /\ a[2] = "packages" /\ a[3] = "/"
        BY <3>1
      <3>3. Len(a) <= Len(p) /\ \A i \in 1..Len(a) : a[i] = p[i]
        BY <1>2, <1>6, <3>1, PathPrefix
      <3>4. 3 <= Len(p) /\ p[2] = "packages" /\ p[3] = "/"
        <4>1. 2 \in 1..3 /\ 3 \in 1..3
          OBVIOUS
        <4> QED
          BY <3>2, <3>3, <4>1
      <3>5. Len(p) # 3
        BY <1>4, <3>4
      <3> QED
        BY <1>4, <3>4, <3>5
    <2>5. PICK m \in Nat, n \in Nat : m = Len(s) /\ n = Len(p) /\ m = 2 + n /\ n >= 4
      <3>1. Len(s) = 2 + Len(p) /\ Len(p) >= 4
        BY <2>2, <2>3, <2>4
      <3>2. Len(s) \in Nat
        BY DEF Path
      <3> QED
        BY <1>4, <3>1, <3>2
    <2>6. /\ s[2] = "pypi" /\ s[3] = p[1] /\ s[4] = p[2] /\ s[5] = p[3]
          /\ SubSeq(s, 6, m) = SubSeq(p, 4, n)
      <3>0. \A i \in 1..Len(d) + Len(p) :
               (d \o p)[i] = IF i <= Len(d) THEN d[i] ELSE p[i - Len(d)]
        BY JoinedPath
      <3>1. \A i \in 1..2 + n : (d \o p)[i] = IF i <= 2 THEN d[i] ELSE p[i - 2]
        BY <2>3, <2>5, <3>0
      <3>2. /\ 3 \in 1..2 + n /\ 4 \in 1..2 + n /\ 5 \in 1..2 + n
            /\ ~(3 <= 2) /\ ~(4 <= 2) /\ ~(5 <= 2) /\ 3 - 2 = 1 /\ 4 - 2 = 2 /\ 5 - 2 = 3
            /\ 2 \in 1..2 + n /\ 2 <= 2
        BY <2>5
      <3>3. s[2] = d[2] /\ s[3] = p[1] /\ s[4] = p[2] /\ s[5] = p[3]
        BY <2>2, <3>1, <3>2
      <3>4. SubSeq(d \o p, Len(d) + 4, Len(d) + Len(p)) = SubSeq(p, 4, Len(p))
        <4>1. 4 \in 1..Len(p) + 1
          BY <2>5
        <4> QED
          BY <4>1, JoinedEnd
      <3>5. 2 + 4 = 6
        OBVIOUS
      <3> QED
        BY <2>2, <2>3, <2>5, <3>3, <3>4, <3>5
    <2>7. m >= 3 /\ m > 5
      BY <2>5
    <2>8. Route(s, "GET") = PypiFile(<<"packages", "/">> \o Decoded(SubSeq(s, 6, Len(s))))
      BY <1>4, <2>4, <2>5, <2>6, <2>7, ShownRoutes
    <2>9. <<"packages", "/">> \o Decoded(SubSeq(p, 4, n)) = v
      <3>0. PICK c \in Path : /\ c = v /\ Len(q) = n /\ q[2] = "packages" /\ q[3] = "/"
        <4>1. Len(q) = n /\ \A i \in 1..n : q[i] = DecodedToken(p[i])
          BY <1>3, <2>5, DecodedFacts
        <4>2. 2 \in 1..n /\ 3 \in 1..n
          BY <2>5
        <4>3. DecodedToken("packages") = "packages" /\ DecodedToken("/") = "/"
          BY DEF DecodedToken
        <4> QED
          BY <2>4, <4>1, <4>2, <4>3
      <3>1. PICK e \in Path : e = <<"packages", "/">> /\ Len(e) = 2 /\ e[1] = "packages" /\ e[2] = "/"
        <4>1. <<"packages", "/">> \in Path
          BY <1>1 DEF Path
        <4> QED
          BY <4>1
      <3>2. /\ Len(c) = n - 1 /\ \A i \in 1..n - 1 : c[i] = q[i + 1]
        <4>1. q # <<>>
          BY <2>5, <3>0
        <4> QED
          BY <1>3, <2>5, <3>0, <4>1 DEF Path
      <3>3. IsPrefix(e, c)
        <4>1. 2 <= n - 1 /\ 1 \in 1..n - 1 /\ 2 \in 1..n - 1 /\ 1 + 1 = 2 /\ 2 + 1 = 3
          BY <2>5
        <4>2. c[1] = "packages" /\ c[2] = "/"
          BY <3>0, <3>2, <4>1
        <4>3. \A i \in 1..2 : e[i] = c[i]
          BY <3>1, <4>2
        <4>4. Len(e) <= Len(c) /\ \A i \in 1..Len(e) : e[i] = c[i]
          BY <3>1, <3>2, <4>1, <4>3
        <4> QED
          BY <4>4, PathPrefix
      <3>4. e \o After(e, c) = c
        BY <3>3, PrefixFacts
      <3>5. After(e, c) = SubSeq(c, 3, n - 1)
        <4>1. 2 + 1 = 3
          OBVIOUS
        <4> QED
          BY <3>1, <3>2, <4>1 DEF After
      <3>6. SubSeq(c, 3, n - 1) = SubSeq(q, 4, n)
        BY <2>5, <3>0, <3>2 DEF Path
      <3>7. SubSeq(q, 4, n) = Decoded(SubSeq(p, 4, n))
        <4>1. PICK four \in Nat : four = 4 /\ four >= 1
          OBVIOUS
        <4>2. Decoded(SubSeq(p, four, Len(p))) = SubSeq(Decoded(p), four, Len(p))
          BY <4>1, DecodedEnd
        <4> QED
          BY <1>3, <2>5, <4>1, <4>2
      <3> QED
        BY <3>0, <3>1, <3>4, <3>5, <3>6, <3>7
    <2>10. Route(s, "GET") = PypiFile(v)
      BY <2>5, <2>6, <2>8, <2>9
    <2> QED
      BY <1>2, <1>3, <1>6, <2>1, <2>2, <2>10, PypiFileLeads
  <1> QED
    BY <1>5, <1>6

\* In a clean path, a name follows each slash.
LEMMA CleanGaps ==
    ASSUME NEW p, Clean(p), NEW j \in 1..Len(p), p[j] = "/"
    PROVE  j < Len(p) /\ p[j + 1] # "/"
  <1>1. p \in Path /\ p[2] # "/" /\ Len(p) >= 2
    BY DEF Clean
  <1>2. PICK n \in Nat : n = Len(p) /\ n >= 2
    BY <1>1 DEF Path
  <1>3. PICK t : t = Tail(p) /\ ~Gap(t)
    BY DEF Clean, SanitizeRepositoryPath
  <1>4. Len(t) = n - 1 /\ DOMAIN t = 1..n - 1 /\ \A i \in 1..n - 1 : t[i] = p[i + 1]
    BY <1>1, <1>2, <1>3 DEF Path
  <1>5. CASE j = 1
    <2>1. 1 < n /\ 1 + 1 = 2
      BY <1>2
    <2> QED
      BY <1>1, <1>2, <1>5, <2>1
  <1>6. CASE j # 1
    <2>1. j - 1 \in 1..n - 1 /\ j - 1 + 1 = j
      BY <1>2, <1>6
    <2>2. t[j - 1] = "/"
      BY <1>4, <2>1
    <2>3. j - 1 # n - 1 /\ t[j - 1 + 1] # "/"
      BY <1>3, <1>4, <2>1, <2>2 DEF Gap
    <2>4. j < n /\ j \in 1..n - 1
      BY <1>2, <1>6, <2>1, <2>3
    <2> QED
      BY <1>2, <1>4, <2>1, <2>3, <2>4
  <1> QED
    BY <1>5, <1>6

Followed(l, s) ==
    LET g == Route(s, "GET")
    IN  /\ g.result # "below"
        /\ g.result = "fetch" => ResourceFor(g.adapter, l, g.url)
        /\ fresh /\ ~DeadAt(s, l) => g.result \in {"fetch", "Disabled"}

LEMMA LeadsFollowed ==
    ASSUME NEW l, NEW s, Leads(l, Route(s, "GET"))
    PROVE  Followed(l, s)
  BY DEF Leads, Followed

LEMMA ComposerFollowed ==
    ASSUME setting \in DOMAIN Settings, NEW l \in Links, Plausible(l),
           l.host \in {"api.github.com", "github.com", "codeload.github.com",
                       "objects.githubusercontent.com", "repo.packagist.org"}
    PROVE  Followed(l, <<"/", l.scheme, "://", l.host>> \o l.path)
  <1>1. PICK p \in Path : p = l.path
    BY PlausibleFacts DEF Clean
  <1>2. Len(p) >= 2 /\ p[1] = "/" /\ Normalised(p) = p /\ Len(p) \in Nat /\ p # <<>> /\ ~Odd(p)
    BY <1>1, PlausibleFacts DEF Path, Clean
  <1>3. l.scheme \in Token /\ l.host \in Token
    BY PathsAssumption, StringPaths
  <1>4. PICK d \in Path : d = <<"/", l.scheme, "://", l.host>>
    <2>1. "/" \in Token /\ "://" \in Token
      BY Tokens
    <2>2. <<"/", l.scheme, "://", l.host>> \in Path
      BY <1>3, <2>1 DEF Path
    <2> QED
      BY <2>2
  <1>5. PICK s \in Path : /\ s = d \o p /\ Len(s) = Len(d) + Len(p)
                          /\ \A i \in 1..Len(d) : s[i] = d[i]
                          /\ s[Len(d) + 1] = p[1]
                          /\ SubSeq(s, Len(d) + 1, Len(s)) = p
    BY <1>2, ShownParts
  <1>6. Len(d) = 4 /\ d[2] = l.scheme /\ d[3] = "://" /\ d[4] = l.host
    BY <1>4
  <1>7. /\ Len(s) >= 5 /\ Len(s) >= 3 /\ s[2] = l.scheme /\ s[3] = "://" /\ s[4] = l.host
        /\ s[5] = "/" /\ SubSeq(s, 5, Len(s)) = p
    <2>1. 2 \in 1..4 /\ 3 \in 1..4 /\ 4 \in 1..4 /\ 4 + 1 = 5 /\ 4 + Len(p) >= 5 /\ 4 + Len(p) >= 3
      BY <1>2
    <2> QED
      BY <1>2, <1>5, <1>6, <2>1
  <1>8. CASE IsGithubProxyPath(s)
    <2>1. Route(s, "GET") = Github(s, "GET")
      BY <1>7, <1>8, ShownRoutes
    <2>2. l.scheme = "https" /\ l.host \in GithubHosts
      BY <1>7, <1>8 DEF IsGithubProxyPath
    <2>3. PICK target : target = Url(l.scheme, l.host, p)
      OBVIOUS
    <2>4. Whole(target) /\ target.path = p /\ target.scheme = "https" /\ target.host = l.host
      BY <1>2, <1>3, <2>2, <2>3 DEF Whole, Url, Urls
    <2>5. PICK url : url = ConfiguredTarget(target)
      OBVIOUS
    <2>6. ResourceFor("github", l, url)
      <3>1. CASE l.host = "github.com"
        <4>1. SameOrigin(config.up["github"][1], url) /\ url.path = TrimEnd(config.up["github"][1].path) \o p
          BY <1>2, <2>2, <2>4, <2>5, <3>1, GithubFacts
        <4>2. StandIn(l.host) = {"github"}
          BY <3>1 DEF StandIn
        <4> QED
          BY <1>1, <4>1, <4>2 DEF ResourceFor, SelectUpstream
      <3>2. CASE l.host # "github.com"
        <4>1. url = target
          BY <1>2, <2>2, <2>4, <2>5, <3>2, GithubFacts
        <4> QED
          BY <1>1, <2>4, <4>1 DEF ResourceFor
      <3> QED
        BY <3>1, <3>2
    <2>7. Github(s, "GET") = Checked("github", TRUE, Fetch("github", url, "none"))
      BY <1>2, <1>7, <2>3, <2>5 DEF Github, FetchWith
    <2>8. Leads(l, Route(s, "GET"))
      BY <2>1, <2>6, <2>7, FetchLeads, CheckedLeads
    <2> QED
      BY <1>1, <1>4, <1>5, <2>8, LeadsFollowed
  <1>9. CASE ~IsGithubProxyPath(s)
    <2>1. Route(s, "GET") = Refuse("none", "StaticAsset")
      BY <1>7, <1>9, ShownRoutes
    <2>2. l.scheme # "https" \/ l.host \notin GithubHosts
      BY <1>7, <1>9 DEF IsGithubProxyPath
    <2>3. DeadAt(s, l)
      BY <2>2 DEF DeadAt, GithubHosts
    <2>4. Followed(l, s)
      BY <2>1, <2>3 DEF Followed, Refuse
    <2> QED
      BY <1>1, <1>4, <1>5, <2>4
  <1> QED
    BY <1>8, <1>9

\* Paths under upstream/<host>/, of NuGet and of Pub.
LEMMA UpstreamPath ==
    ASSUME NEW host \in Token, host \notin {"/", ".", "..", "\\"}, DecodedToken(host) = host,
           NEW p \in Path, Clean(p), NEW r, r = <<"upstream", "/", host>> \o p
    PROVE  /\ r \in Path /\ r # <<>> /\ SanitizeRepositoryPath(r) /\ TrimStart(r) = r
           /\ r[1] = "upstream" /\ Len(r) = 3 + Len(p) /\ r[2] = "/" /\ r[3] = host
           /\ r = <<"upstream", "/">> \o (<<host>> \o p)
           /\ <<host>> \o p \in Path
  <1>1. p \in Path
    BY DEF Clean
  <1>2. Len(p) >= 2 /\ p[1] = "/" /\ Len(p) \in Nat /\ ~Odd(p)
    BY DEF Path, Clean
  <1>3. host \in Token /\ "upstream" \in Token /\ "/" \in Token
    BY Tokens
  <1>4. PICK e \in Path : e = <<"upstream", "/", host>>
    <2>1. <<"upstream", "/", host>> \in Path
      BY <1>3 DEF Path
    <2> QED
      BY <2>1
  <1>5. PICK a \in Path, h \in Path : a = <<"upstream", "/">> /\ h = <<host>>
    <2>1. <<"upstream", "/">> \in Path /\ <<host>> \in Path
      BY <1>3 DEF Path
    <2> QED
      BY <2>1
  <1>6. e = a \o h
    BY <1>4, <1>5
  <1>7. Len(e) = 3 /\ DOMAIN e = 1..3 /\ e[1] = "upstream" /\ e[2] = "/" /\ e[3] = host
    BY <1>4
  <1>8. ~Odd(e)
    <2>0. host \notin {"%2e", "%2e%2e"}
      BY DEF DecodedToken
    <2>1. \A i \in 1..3 : e[i] \notin {".", "..", "\\", "%2e", "%2e%2e"}
      BY <1>7, <2>0
    <2> QED
      BY <1>7, <2>1 DEF Odd
  <1>9. r = a \o (h \o p) /\ h \o p \in Path
    <2>1. (a \o h) \o p = a \o (h \o p)
      BY <1>1, JoinedTwice
    <2>2. h \o p \in Path
      BY <1>1, JoinedPath
    <2>3. r = e \o p
      BY <1>1, <1>4
    <2> QED
      BY <1>6, <2>1, <2>2, <2>3
  <1>10. PICK n \in Nat : n = Len(p) /\ n >= 2
    BY <1>2
  <1>11. r = e \o p
    BY <1>1, <1>4
  <1>12. /\ r \in Path /\ Len(r) = 3 + n /\ ~Odd(r) /\ DOMAIN r = 1..3 + n
         /\ \A i \in 1..3 + n : r[i] = IF i <= 3 THEN e[i] ELSE p[i - 3]
    <2>1. /\ e \o p \in Path /\ Len(e \o p) = Len(e) + Len(p) /\ ~Odd(e \o p)
          /\ \A i \in 1..Len(e) + Len(p) : (e \o p)[i] = IF i <= Len(e) THEN e[i] ELSE p[i - Len(e)]
      BY <1>1, <1>2, <1>8, JoinedPath
    <2>2. DOMAIN r = 1..Len(r)
      BY <1>11, <2>1 DEF Path
    <2> QED
      BY <1>7, <1>10, <1>11, <2>1, <2>2
  <1>13. r[1] = "upstream" /\ r[2] = "/" /\ r[3] = host /\ r[4] = p[1]
    <2>1. /\ 1 \in 1..3 + n /\ 2 \in 1..3 + n /\ 3 \in 1..3 + n /\ 4 \in 1..3 + n
          /\ 1 <= 3 /\ 2 <= 3 /\ 3 <= 3 /\ ~(4 <= 3) /\ 4 - 3 = 1
      BY <1>10
    <2> QED
      BY <1>7, <1>12, <2>1
  <1>14. ~Gap(r)
    <2>1. ASSUME NEW i \in 1..3 + n, r[i] = "/" PROVE i # 1 /\ i # 3 + n /\ r[i + 1] # "/"
      <3>1. CASE i <= 3
        <4>1. i = 1 \/ i = 2 \/ i = 3
          BY <3>1
        <4>2. i = 2
          BY <1>13, <2>1, <4>1
        <4>3. 2 # 1 /\ 2 # 3 + n /\ 2 + 1 = 3
          BY <1>10
        <4> QED
          BY <1>13, <4>2, <4>3
      <3>2. CASE ~(i <= 3)
        <4>1. i - 3 \in 1..n
          BY <3>2
        <4>2. p[i - 3] = "/"
          BY <1>12, <2>1, <3>2
        <4>3. i - 3 < n /\ p[i - 3 + 1] # "/"
          BY <1>1, <1>10, <4>1, <4>2, CleanGaps
        <4>4. i + 1 \in 1..3 + n /\ ~(i + 1 <= 3) /\ i + 1 - 3 = i - 3 + 1 /\ i # 3 + n /\ i # 1
          BY <3>2, <4>3
        <4>5. r[i + 1] = p[i - 3 + 1]
          BY <1>12, <4>4
        <4> QED
          BY <4>3, <4>4, <4>5
      <3> QED
        BY <3>1, <3>2
    <2> QED
      BY <1>12, <2>1 DEF Gap
  <1>15. r # <<>>
    <2>1. Len(r) # 0
      BY <1>10, <1>12
    <2> QED
      BY <2>1
  <1>16. SanitizeRepositoryPath(r)
    BY <1>12, <1>14, <1>15, OddParts DEF SanitizeRepositoryPath
  <1>17. TrimStart(r) = r
    BY <1>12, <1>13, <1>15, TrimStartFacts
  <1> QED
    BY <1>1, <1>5, <1>9, <1>10, <1>12, <1>13, <1>15, <1>16, <1>17

LEMMA UpstreamSane ==
    ASSUME NEW host \in Token, host \notin {"/", ".", "..", "\\"}, DecodedToken(host) = host,
           NEW p \in Path, Clean(p)
    PROVE  /\ <<"upstream", "/", host>> \o p \in Path
           /\ SanitizeRepositoryPath(<<"upstream", "/", host>> \o p)
  <1>1. PICK r : r = <<"upstream", "/", host>> \o p
    OBVIOUS
  <1>2. r \in Path /\ SanitizeRepositoryPath(r)
    BY <1>1, UpstreamPath
  <1> QED
    BY <1>1, <1>2

LEMMA UpstreamShown ==
    ASSUME NEW x \in Token, NEW r \in Path, Len(r) >= 2, x \in {"nuget", "pub"}
    PROVE  Route(<<"/", x, "/">> \o r, "GET") = Proxied(x, r)
  <1>1. PICK d \in Path : d = <<"/", x, "/">>
    <2>1. "/" \in Token
      BY Tokens
    <2>2. <<"/", x, "/">> \in Path
      BY <2>1 DEF Path
    <2> QED
      BY <2>2
  <1>2. Len(d) = 3 /\ d[2] = x /\ d[3] = "/"
    BY <1>1
  <1>3. PICK s \in Path : /\ s = d \o r /\ Len(s) = Len(d) + Len(r)
                          /\ \A i \in 1..Len(d) : s[i] = d[i]
                          /\ SubSeq(s, Len(d) + 1, Len(s)) = r
    BY ShownParts
  <1>4. Len(s) >= 4 /\ Len(s) >= 3 /\ s[2] = x /\ s[3] = "/" /\ SubSeq(s, 4, Len(s)) = r
    <2>1. Len(r) \in Nat
      BY DEF Path
    <2>2. 2 \in 1..3 /\ 3 \in 1..3 /\ 3 + 1 = 4 /\ 3 + Len(r) >= 4 /\ 3 + Len(r) >= 3
      BY <2>1
    <2> QED
      BY <1>2, <1>3, <2>2
  <1>5. Route(s, "GET") = Proxied(s[2], SubSeq(s, 4, Len(s)))
    BY <1>4, ShownRoutes
  <1> QED
    BY <1>1, <1>3, <1>4, <1>5

\* Decoding leaves what adapters put before a link.
LEMMA UpstreamDecoded ==
    ASSUME NEW host \in Token, DecodedToken(host) = host, NEW p \in Path
    PROVE  /\ <<"upstream", "/", host>> \o p \in Path
           /\ Len(<<"upstream", "/", host>> \o p) = 3 + Len(p)
           /\ (<<"upstream", "/", host>> \o p)[1] = "upstream"
           /\ Decoded(<<"upstream", "/", host>> \o p) = <<"upstream", "/", host>> \o Decoded(p)
  <1>1. PICK e \in Path : e = <<"upstream", "/", host>>
    <2>1. "upstream" \in Token /\ "/" \in Token
      BY Tokens
    <2>2. <<"upstream", "/", host>> \in Path
      BY <2>1 DEF Path
    <2> QED
      BY <2>2
  <1>2. Len(e) = 3 /\ e[1] = "upstream" /\ e[2] = "/" /\ e[3] = host
    BY <1>1
  <1>3. PICK n \in Nat : n = Len(p)
    BY DEF Path
  <1>4. PICK d \in Path : d = Decoded(p) /\ Len(d) = n /\ \A i \in 1..n : d[i] = DecodedToken(p[i])
    BY <1>3, DecodedFacts
  <1>5. PICK w \in Path : /\ w = e \o p /\ Len(w) = 3 + n
                          /\ \A i \in 1..3 + n : w[i] = IF i <= 3 THEN e[i] ELSE p[i - 3]
    <2>1. /\ e \o p \in Path /\ Len(e \o p) = Len(e) + Len(p)
          /\ \A i \in 1..Len(e) + Len(p) : (e \o p)[i] = IF i <= Len(e) THEN e[i] ELSE p[i - Len(e)]
      BY JoinedPath
    <2> QED
      BY <1>2, <1>3, <2>1
  <1>6. PICK z \in Path : /\ z = e \o d /\ Len(z) = 3 + n
                          /\ \A i \in 1..3 + n : z[i] = IF i <= 3 THEN e[i] ELSE d[i - 3]
    <2>1. /\ e \o d \in Path /\ Len(e \o d) = Len(e) + Len(d)
          /\ \A i \in 1..Len(e) + Len(d) : (e \o d)[i] = IF i <= Len(e) THEN e[i] ELSE d[i - Len(e)]
      BY JoinedPath
    <2>2. PICK z \in Path : z = e \o d
      BY <2>1
    <2>3. Len(e) + Len(d) = 3 + n
      BY <1>2, <1>4
    <2> QED
      BY <1>2, <2>1, <2>2, <2>3
  <1>7. PICK v \in Path : /\ v = Decoded(w) /\ Len(v) = 3 + n
                          /\ \A i \in 1..3 + n : v[i] = DecodedToken(w[i])
    <2>1. /\ Decoded(w) \in Path /\ Len(Decoded(w)) = Len(w)
          /\ \A i \in 1..Len(w) : Decoded(w)[i] = DecodedToken(w[i])
      BY DecodedFacts
    <2> QED
      BY <1>5, <2>1
  <1>8. ASSUME NEW i \in 1..3 + n PROVE v[i] = z[i]
    <2>1. CASE i <= 3
      <3>1. i = 1 \/ i = 2 \/ i = 3
        BY <2>1
      <3>2. DecodedToken("upstream") = "upstream" /\ DecodedToken("/") = "/"
        BY DEF DecodedToken
      <3>3. DecodedToken(e[i]) = e[i]
        BY <1>2, <3>1, <3>2
      <3> QED
        BY <1>5, <1>6, <1>7, <2>1, <3>3
    <2>2. CASE ~(i <= 3)
      <3>1. i - 3 \in 1..n
        BY <2>2
      <3> QED
        BY <1>4, <1>5, <1>6, <1>7, <2>2, <3>1
    <2> QED
      BY <2>1, <2>2
  <1>9. v = z
    BY <1>6, <1>7, <1>8, PathEqual
  <1>10. w[1] = "upstream"
    <2>1. 1 \in 1..3 + n /\ 1 <= 3
      OBVIOUS
    <2> QED
      BY <1>2, <1>5, <2>1
  <1> QED
    BY <1>1, <1>3, <1>4, <1>5, <1>6, <1>7, <1>9, <1>10

LEMMA UpstreamForms ==
    ASSUME NEW host \in Token, NEW p \in Path
    PROVE  /\ <<"/", "nuget", "/", "upstream", "/", host>> \o p =
                  <<"/", "nuget", "/">> \o (<<"upstream", "/", host>> \o p)
           /\ <<"upstream", "/", host>> \o p = <<"upstream", "/">> \o (<<host>> \o p)
  <1>1. /\ "upstream" \in Token /\ "/" \in Token /\ "nuget" \in Token
    BY Tokens
  <1>2. <<"/", "nuget", "/", "upstream", "/", host>> \o p =
           <<"/", "nuget", "/">> \o (<<"upstream", "/", host>> \o p)
    <2>1. PICK d \in Path, e \in Path :
             d = <<"/", "nuget", "/">> /\ e = <<"upstream", "/", host>>
      <3>1. <<"/", "nuget", "/">> \in Path /\ <<"upstream", "/", host>> \in Path
        BY <1>1 DEF Path
      <3> QED
        BY <3>1
    <2>2. <<"/", "nuget", "/", "upstream", "/", host>> = d \o e
      BY <2>1
    <2>3. (d \o e) \o p = d \o (e \o p)
      BY JoinedTwice
    <2> QED
      BY <2>1, <2>2, <2>3
  <1>3. <<"upstream", "/", host>> \o p = <<"upstream", "/">> \o (<<host>> \o p)
    <2>1. PICK a \in Path, h \in Path : a = <<"upstream", "/">> /\ h = <<host>>
      <3>1. <<"upstream", "/">> \in Path /\ <<host>> \in Path
        BY <1>1 DEF Path
      <3> QED
        BY <3>1
    <2>2. <<"upstream", "/", host>> = a \o h
      BY <2>1
    <2>3. (a \o h) \o p = a \o (h \o p)
      BY JoinedTwice
    <2> QED
      BY <2>1, <2>2, <2>3
  <1> QED
    BY <1>2, <1>3

\* Where NuGet's adapter is asked for a link, decoded.
LEMMA NugetShown ==
    ASSUME NEW host \in Token, host # "/", DecodedToken(host) = host, NEW o \in Path
    PROVE  LET r == <<"upstream", "/", host>> \o Decoded(o)
               q == <<host>> \o Decoded(o)
           IN  /\ Route(<<"/", "nuget", "/", "upstream", "/", host>> \o o, "GET") = Nuget(r)
               /\ r \in Path /\ TrimStart(r) = r /\ q \in Path
               /\ IsPrefix(<<"upstream", "/">>, r) /\ After(<<"upstream", "/">>, r) = q
  <1>1. PICK p \in Path : p = Decoded(o)
    BY DecodedFacts
  <1>2. PICK w \in Path, r \in Path :
           /\ w = <<"upstream", "/", host>> \o o /\ Len(w) = 3 + Len(o) /\ w[1] = "upstream"
           /\ r = <<"upstream", "/", host>> \o p /\ Len(r) = 3 + Len(p) /\ r[1] = "upstream"
           /\ Decoded(w) = r
    BY <1>1, UpstreamDecoded
  <1>3. /\ "upstream" \in Token /\ "/" \in Token /\ "nuget" \in Token
    BY Tokens
  <1>4. PICK d \in Path, a \in Path, h \in Path :
           /\ d = <<"/", "nuget", "/">> /\ a = <<"upstream", "/">> /\ h = <<host>>
    <2>1. <<"/", "nuget", "/">> \in Path /\ <<"upstream", "/">> \in Path /\ <<host>> \in Path
      BY <1>3 DEF Path
    <2> QED
      BY <2>1
  <1>5. PICK f : f = <<"/", "nuget", "/", "upstream", "/", host>> \o o
    OBVIOUS
  <1>6. f = d \o w /\ r = a \o (h \o p)
    BY <1>2, <1>4, <1>5, UpstreamForms
  <1>8. Len(w) >= 2
    <2>1. Len(o) \in Nat
      BY DEF Path
    <2> QED
      BY <1>2, <2>1
  <1>9. Route(d \o w, "GET") = Proxied("nuget", w)
    BY <1>3, <1>4, <1>8, UpstreamShown
  <1>10. w # <<"v3", "/", "index.json">>
    <2>1. PICK v : v = <<"v3", "/", "index.json">>
      OBVIOUS
    <2>2. v[1] = "v3"
      BY <2>1
    <2>3. w # v
      BY <1>2, <2>2
    <2> QED
      BY <2>1, <2>3
  <1>11. Route(f, "GET") = Nuget(r)
    BY <1>2, <1>6, <1>9, <1>10 DEF Proxied
  <1>12. TrimStart(r) = r
    <2>1. Len(p) \in Nat
      BY DEF Path
    <2>2. r # <<>>
      BY <1>2, <2>1
    <2>3. r[1] # "/"
      BY <1>2
    <2> QED
      BY <2>2, <2>3, TrimStartFacts
  <1>13. PICK q \in Path : q = h \o p
    BY JoinedPath
  <1>14. r = a \o q
    BY <1>6, <1>13
  <1>15. IsPrefix(a, r) /\ After(a, r) = q
    BY <1>14, AppendedFacts
  <1> QED
    BY <1>1, <1>2, <1>4, <1>5, <1>11, <1>12, <1>13, <1>15

LEMMA NugetFollowed ==
    ASSUME setting \in DOMAIN Settings, NEW l \in Links, Plausible(l), l.scheme = "https",
           l.host \notin {"/", ".", "..", "\\"}, DecodedToken(l.host) = l.host,
           fresh => l.host \in NugetHosts \cup {SelectUpstream(config.up["nuget"]).host}
    PROVE  Followed(l, <<"/", "nuget", "/", "upstream", "/", l.host>> \o l.path)
  <1>1. PICK p \in Path : p = Decoded(l.path)
    BY PlausibleFacts DEF Clean
  <1>2. Len(p) >= 2 /\ p[1] = "/" /\ Normalised(p) = p /\ Len(p) \in Nat /\ Clean(p)
    BY <1>1, PlausibleFacts DEF Path, Clean
  <1>3. PICK r : r = <<"upstream", "/", l.host>> \o p
    OBVIOUS
  <1>5. l.host \in Token /\ l.host # "/"
    BY PathsAssumption, StringPaths
  <1>4. r \in Path /\ SanitizeRepositoryPath(r)
    <2>1. PICK host \in Token : host = l.host
      BY <1>5
    <2>2. host \notin {"/", ".", "..", "\\"} /\ DecodedToken(host) = host
      BY <2>1
    <2>3. Clean(p)
      BY <1>2
    <2>4. <<"upstream", "/", host>> \o p \in Path /\ SanitizeRepositoryPath(<<"upstream", "/", host>> \o p)
      BY <2>2, <2>3, UpstreamSane
    <2> QED
      BY <1>3, <2>1, <2>4
  <1>6. PICK s : s = <<"/", "nuget", "/", "upstream", "/", l.host>> \o l.path
    OBVIOUS
  <1>7. PICK o \in Path : o = l.path
    BY PlausibleFacts DEF Clean
  <1>8. /\ Route(s, "GET") = Nuget(r) /\ TrimStart(r) = r /\ <<l.host>> \o p \in Path
        /\ IsPrefix(<<"upstream", "/">>, r) /\ After(<<"upstream", "/">>, r) = <<l.host>> \o p
    BY <1>1, <1>3, <1>5, <1>6, <1>7, NugetShown
  <1>9. PICK q \in Path : q = <<l.host>> \o p
    BY <1>8
  <1>10. IsPrefix(<<"upstream", "/">>, r) /\ After(<<"upstream", "/">>, r) = q
    BY <1>8, <1>9
  <1>11. PICK h \in Path : h = <<l.host>> /\ Len(h) = 1 /\ h[1] = l.host
    <2>1. <<l.host>> \in Path
      BY <1>5 DEF Path
    <2> QED
      BY <2>1
  <1>12. /\ Len(q) = 1 + Len(p) /\ q[1] = l.host /\ q[2] = "/" /\ SubSeq(q, 2, Len(q)) = p
    <2>1. PICK u \in Path : /\ u = h \o p /\ Len(u) = Len(h) + Len(p)
                            /\ \A i \in 1..Len(h) : u[i] = h[i]
                            /\ u[Len(h) + 1] = p[1]
                            /\ SubSeq(u, Len(h) + 1, Len(u)) = p
      BY <1>2, ShownParts
    <2>2. 1 \in 1..1 /\ 1 + 1 = 2
      OBVIOUS
    <2> QED
      BY <1>2, <1>9, <1>11, <2>1, <2>2
  <1>13. PICK I : I = {i \in 1..Len(q) : q[i] = "/"}
    OBVIOUS
  <1>14. PICK cut : cut = IF I # {} THEN Min(I) ELSE 0
    OBVIOUS
  <1>15. cut = 2
    <2>1. /\ cut \in 0..Len(q)
          /\ cut > 0 => q[cut] = "/" /\ \A i \in 1..cut - 1 : q[i] # "/"
          /\ cut = 0 => \A i \in 1..Len(q) : q[i] # "/"
      BY <1>13, <1>14, CutFacts, ZenonT(30)
    <2>2. 2 \in 1..Len(q) /\ Len(q) \in Nat
      BY <1>2, <1>12
    <2>3. cut # 0
      BY <1>12, <2>1, <2>2
    <2>4. cut > 0
      BY <2>1, <2>2, <2>3
    <2>5. cut # 1
      BY <1>12, <2>1, <2>4
    <2>6. ~(2 \in 1..cut - 1)
      BY <1>12, <2>1, <2>4
    <2> QED
      BY <2>1, <2>2, <2>4, <2>5, <2>6
  <1>16. PICK host : host = SubSeq(q, 1, cut - 1)
    OBVIOUS
  <1>17. host = <<l.host>> /\ host[1] = l.host
    <2>1. 2 - 1 = 1
      OBVIOUS
    <2>2. host = SubSeq(q, 1, 1)
      BY <1>15, <1>16, <2>1
    <2>3. Len(q) >= 1
      BY <1>2, <1>12
    <2>4. PICK n \in Nat : n = Len(q)
      BY DEF Path
    <2>5. 1 \in 1..n + 1 /\ 1 \in 0..n
      BY <2>3, <2>4
    <2>6. PICK v : v = SubSeq(q, 1, 1)
      OBVIOUS
    <2>7. v \in Path /\ Len(v) = 1 /\ v[1] = q[1]
      <3>1. v = [i \in 1..1 |-> q[i]]
        BY <2>3, <2>6 DEF Path
      <3>2. q[1] \in Token
        BY <1>12, <1>5
      <3>3. v \in Path
        BY <3>1, <3>2 DEF Path
      <3> QED
        BY <3>1, <3>3
    <2>8. v = h
      <3>1. \A i \in 1..1 : v[i] = h[i]
        BY <1>11, <1>12, <2>7
      <3> QED
        BY <1>11, <2>7, <3>1, PathEqual
    <2> QED
      BY <1>11, <2>2, <2>6, <2>8
  <1>18. PICK g \in Group : g = config.up["nuget"]
    BY KeysListed, ConfigFacts
  <1>19. PICK answer : answer =
            IF ~IsPrefix(<<"upstream", "/">>, r) \/ cut = 0
            THEN Fetch("nuget", BuildUrl(config.up["nuget"], <<"/">> \o r), "none")
            ELSE IF host = <<SelectUpstream(config.up["nuget"]).host>>
            THEN Fetch("nuget", BuildUrl(config.up["nuget"], p), "none")
            ELSE IF host \notin {<<x>> : x \in NugetHosts} THEN Refuse("nuget", "UnsupportedTarget")
            ELSE Fetch("nuget", BuildUrl(<<Url("https", host[1], <<"/">>)>>, p), "none")
    OBVIOUS
  <1>20. Nuget(r) = Checked("nuget", TRUE, answer)
    <2>1. SubSeq(q, cut, Len(q)) = p
      BY <1>12, <1>15
    <2>2. SanitizeRepositoryPath(r) = TRUE
      BY <1>4 DEF SanitizeRepositoryPath, Dotted, Gap
    <2> QED
      BY <1>8, <1>10, <1>13, <1>14, <1>16, <1>19, <2>1, <2>2 DEF Nuget, SelectInSeq
  <1>21. host = <<g[1].host>> <=> l.host = g[1].host
    BY <1>17
  <1>22. CASE l.host = g[1].host
    <2>1. PICK url : url = BuildUrl(config.up["nuget"], p)
      OBVIOUS
    <2>2. url.path = p /\ url.host = l.host
      <3>1. "nuget" \in KeysOf("nuget") /\ "nuget" \in Keys /\ "nuget" \in Replacing
        BY KeysListed DEF KeysOf, Replacing
      <3> QED
        BY <1>2, <1>18, <1>22, <2>1, <3>1, BuildFacts
    <2>3. answer = Fetch("nuget", url, "none")
      BY <1>10, <1>15, <1>18, <1>19, <1>21, <1>22, <2>1 DEF SelectUpstream
    <2>4. ResourceFor("nuget", l, url)
      BY <1>1, <2>2 DEF ResourceFor
    <2>5. Leads(l, Route(s, "GET"))
      BY <1>8, <1>20, <2>3, <2>4, FetchLeads, CheckedLeads
    <2> QED
      BY <1>1, <1>6, <2>5, LeadsFollowed
  <1>23. CASE l.host # g[1].host /\ l.host \in NugetHosts
    <2>1. PICK base : base = Url("https", l.host, <<"/">>)
      OBVIOUS
    <2>2. base \in Urls /\ base.host = l.host
      <3>1. "https" \in Token /\ <<"/">> \in Path
        BY Tokens, Slash
      <3> QED
        BY <1>5, <2>1, <3>1 DEF Url, Urls
    <2>3. PICK url : url = SetPath(base, p)
      OBVIOUS
    <2>4. url.path = p /\ url.host = l.host
      BY <1>2, <2>2, <2>3, SetPathFacts
    <2>5. BuildUrl(<<Url("https", host[1], <<"/">>)>>, p) = url
      BY <1>17, <2>1, <2>3 DEF BuildUrl, SelectUpstream
    <2>6. host \in {<<x>> : x \in NugetHosts}
      BY <1>17, <1>23
    <2>7. answer = Fetch("nuget", url, "none")
      BY <1>10, <1>15, <1>18, <1>19, <1>21, <1>23, <2>5, <2>6 DEF SelectUpstream
    <2>8. ResourceFor("nuget", l, url)
      BY <1>1, <2>4 DEF ResourceFor
    <2>9. Leads(l, Route(s, "GET"))
      BY <1>8, <1>20, <2>7, <2>8, FetchLeads, CheckedLeads
    <2> QED
      BY <1>1, <1>6, <2>9, LeadsFollowed
  <1>24. CASE l.host # g[1].host /\ l.host \notin NugetHosts
    <2>1. host \notin {<<x>> : x \in NugetHosts}
      <3>1. \A x : <<x>>[1] = x
        OBVIOUS
      <3> QED
        BY <1>17, <1>24, <3>1
    <2>2. answer = Refuse("nuget", "UnsupportedTarget")
      BY <1>10, <1>15, <1>18, <1>19, <1>21, <1>24, <2>1 DEF SelectUpstream
    <2>3. Route(s, "GET").result \in {"Disabled", "UnsupportedTarget"}
      BY <1>8, <1>20, <2>2 DEF Checked, Refuse
    <2>4. ~fresh
      BY <1>18, <1>24 DEF SelectUpstream
    <2> QED
      BY <1>1, <1>6, <2>3, <2>4 DEF Followed
  <1> QED
    BY <1>22, <1>23, <1>24

\* A host that begins with a known one is refused.
LEMMA NugetLonger ==
    ASSUME NEW l \in Links, Longer(l), l.host # "/", DecodedToken(l.host) = l.host
    PROVE  Route(<<"/", "nuget", "/", "upstream", "/", l.host>> \o l.path, "GET").result
               \notin {"fetch", "below"}
  <1>1. PICK o \in Path : o = l.path
    BY PathsAssumption, StringPaths
  <1>2. PICK p \in Path : p = Decoded(o)
    BY DecodedFacts
  <1>3. o # <<>> /\ p[1] # "/" /\ Len(p) = Len(o) /\ DOMAIN o = 1..Len(o)
    BY <1>1, <1>2, DecodedFacts DEF Longer, Path
  <1>4. PICK n \in Nat : n = Len(p) /\ n >= 1
    BY <1>3 DEF Path
  <1>5. PICK j \in 1..n : p[j] = "/"
    BY <1>1, <1>2, <1>3, <1>4 DEF Longer
  <1>6. l.host \in Token
    BY PathsAssumption, StringPaths
  <1>7. PICK r : r = <<"upstream", "/", l.host>> \o p
    OBVIOUS
  <1>8. PICK s : s = <<"/", "nuget", "/", "upstream", "/", l.host>> \o o
    OBVIOUS
  <1>9. PICK h \in Path : h = <<l.host>> /\ Len(h) = 1 /\ h[1] = l.host
    <2>1. <<l.host>> \in Path
      BY <1>6 DEF Path
    <2> QED
      BY <2>1
  <1>10. /\ Route(s, "GET") = Nuget(r) /\ r \in Path /\ TrimStart(r) = r /\ h \o p \in Path
         /\ IsPrefix(<<"upstream", "/">>, r) /\ After(<<"upstream", "/">>, r) = h \o p
    BY <1>2, <1>6, <1>7, <1>8, <1>9, NugetShown
  <1>11. PICK q \in Path : q = h \o p
    BY <1>10
  <1>12. Len(q) = 1 + n /\ \A i \in 1..1 + n : q[i] = IF i <= 1 THEN h[i] ELSE p[i - 1]
    BY <1>4, <1>9, <1>11, JoinedPath
  <1>13. q[1] = l.host /\ q[2] = p[1] /\ q[j + 1] = "/" /\ j + 1 \in 1..1 + n
    <2>1. /\ 1 \in 1..1 + n /\ 1 <= 1 /\ 2 \in 1..1 + n /\ ~(2 <= 1) /\ 2 - 1 = 1
          /\ j + 1 \in 1..1 + n /\ ~(j + 1 <= 1) /\ j + 1 - 1 = j
      BY <1>4
    <2> QED
      BY <1>5, <1>9, <1>12, <2>1
  <1>14. PICK I : I = {i \in 1..Len(q) : q[i] = "/"}
    OBVIOUS
  <1>15. PICK cut : cut = IF I # {} THEN Min(I) ELSE 0
    OBVIOUS
  <1>16. cut \in 3..1 + n
    <2>1. /\ cut \in 0..Len(q)
          /\ cut > 0 => q[cut] = "/"
          /\ cut = 0 => \A i \in 1..Len(q) : q[i] # "/"
      BY <1>14, <1>15, CutFacts, ZenonT(30)
    <2>2. cut # 0
      BY <1>12, <1>13, <2>1
    <2>3. cut \in 1..1 + n
      BY <1>12, <2>1, <2>2
    <2>4. q[cut] = "/"
      BY <2>1, <2>3
    <2>5. cut # 1 /\ cut # 2
      BY <1>3, <1>13, <2>4
    <2> QED
      BY <2>3, <2>5
  <1>17. PICK host : host = SubSeq(q, 1, cut - 1)
    OBVIOUS
  <1>18. \A x : host # <<x>>
    <2>1. PICK m \in Nat : m = cut - 1 /\ m >= 2
      BY <1>16
    <2>2. Len(SubSeq(q, 1, m)) = IF 1 <= m THEN m - 1 + 1 ELSE 0
      <3>1. 1 \in Nat /\ 1 >= 1 /\ m <= Len(q)
        BY <1>12, <1>16, <2>1
      <3> QED
        BY <3>1, SubPath
    <2>3. Len(host) # 1
      BY <1>17, <2>1, <2>2
    <2>4. \A x : Len(<<x>>) = 1
      OBVIOUS
    <2> QED
      BY <2>3, <2>4
  <1>19. PICK sane \in BOOLEAN : sane = SanitizeRepositoryPath(r)
    BY <1>10, SanitizeFacts
  <1>20. Nuget(r) = Checked("nuget", sane, Refuse("nuget", "UnsupportedTarget"))
    <2>1. host \notin {<<x>> : x \in NugetHosts} /\ host # <<SelectUpstream(config.up["nuget"]).host>>
      BY <1>18
    <2>2. cut # 0
      BY <1>16
    <2> QED
      BY <1>10, <1>11, <1>14, <1>15, <1>17, <1>19, <2>1, <2>2 DEF Nuget, SelectInSeq
  <1>21. Route(s, "GET").result \in {"Disabled", "InvalidUrl", "UnsupportedTarget"}
    BY <1>10, <1>20 DEF Checked, Refuse
  <1> QED
    BY <1>1, <1>8, <1>21

LEMMA StorageFront ==
    /\ Front(Storage) \in Path
    /\ \A l : l.host = Storage[3] => Front(Storage) = <<"upstream", "/", l.host>>
  <1>1. PICK e \in Path : e = <<"upstream", "/", "storage.googleapis.com">>
    <2>1. "/" \in Token /\ "upstream" \in Token /\ "storage.googleapis.com" \in Token
      BY Tokens
    <2>2. <<"upstream", "/", "storage.googleapis.com">> \in Path
      BY <2>1 DEF Path
    <2> QED
      BY <2>2
  <1>2. Len(e) = 3 /\ e[1] = "upstream" /\ e[2] = "/" /\ e[3] = "storage.googleapis.com"
    BY <1>1
  <1>3. PICK s \in Path : s = Storage /\ Len(s) = 4
    BY StorageFacts
  <1>4. PICK f : f = SubSeq(s, 1, 3)
    OBVIOUS
  <1>5. f = Front(Storage)
    <2>1. 4 - 1 = 3
      OBVIOUS
    <2> QED
      BY <1>3, <1>4, <2>1 DEF Front
  <1>6. f \in Path /\ Len(f) = 3 /\ f[1] = s[1] /\ f[2] = s[2] /\ f[3] = s[3]
    <2>1. f \in Path /\ Len(f) = (IF 1 <= 3 THEN 3 - 1 + 1 ELSE 0)
          /\ \A i \in 1..3 - 1 + 1 : f[i] = s[1 + i - 1]
      <3>1. 1 \in Nat /\ 3 \in Nat /\ 1 >= 1 /\ 3 <= Len(s)
        BY <1>3
      <3> QED
        BY <1>4, <3>1, SubPath
    <2>2. /\ 3 - 1 + 1 = 3 /\ 1 <= 3 /\ 1 \in 1..3 /\ 2 \in 1..3 /\ 3 \in 1..3
          /\ 1 + 1 - 1 = 1 /\ 1 + 2 - 1 = 2 /\ 1 + 3 - 1 = 3
      OBVIOUS
    <2> QED
      BY <2>1, <2>2
  <1>7. f = e
    <2>1. \A i \in 1..3 : i = 1 \/ i = 2 \/ i = 3
      OBVIOUS
    <2>2. \A i \in 1..3 : f[i] = e[i]
      BY <1>2, <1>3, <1>6, <2>1, StorageFacts
    <2> QED
      BY <1>2, <1>6, <2>2, PathEqual
  <1> QED
    BY <1>1, <1>5, <1>6, <1>7, StorageFacts

LEMMA PubFollowed ==
    ASSUME setting \in DOMAIN Settings, NEW l \in Links, Plausible(l), l.host = Storage[3]
    PROVE  Followed(l, <<"/", "pub", "/">> \o Front(Storage) \o l.path)
  <1>1. PICK o \in Path, p \in Path : o = l.path /\ p = Decoded(l.path)
    BY PlausibleFacts DEF Clean
  <1>2. /\ Len(p) >= 2 /\ p[1] = "/" /\ p # <<>> /\ Len(p) \in Nat /\ Clean(p)
        /\ Tail(p) \in Path /\ ~Odd(Tail(p)) /\ <<"/">> \o Tail(p) = p
    BY <1>1, PlausibleFacts DEF Path, Clean
  <1>3. PICK host \in Token :
           host = l.host /\ host \notin {"/", ".", "..", "\\"} /\ DecodedToken(host) = host
    <2>1. /\ "storage.googleapis.com" \notin {"/", ".", "..", "\\"}
          /\ DecodedToken("storage.googleapis.com") = "storage.googleapis.com"
          /\ "storage.googleapis.com" \in Token
      BY Tokens DEF DecodedToken
    <2> QED
      BY <2>1, StorageFacts
  <1>4. PICK e \in Path : e = Front(Storage) /\ e = <<"upstream", "/", host>>
    BY <1>3, StorageFront
  <1>5. PICK r, w : r = e \o p /\ w = e \o o
    OBVIOUS
  <1>6. /\ r \in Path /\ SanitizeRepositoryPath(r) /\ TrimStart(r) = r
        /\ w \in Path /\ Len(w) >= 2 /\ Decoded(w) = r
    <2>1. r \in Path /\ SanitizeRepositoryPath(r)
      BY <1>2, <1>3, <1>4, <1>5, UpstreamSane
    <2>2. /\ <<"upstream", "/", host>> \o o \in Path
          /\ Len(<<"upstream", "/", host>> \o o) = 3 + Len(o)
          /\ Decoded(<<"upstream", "/", host>> \o o) = <<"upstream", "/", host>> \o Decoded(o)
      BY <1>3, UpstreamDecoded
    <2>3. /\ Len(<<"upstream", "/", host>> \o p) = 3 + Len(p)
          /\ (<<"upstream", "/", host>> \o p)[1] = "upstream"
      BY <1>3, UpstreamDecoded
    <2>4. Len(o) \in Nat
      BY DEF Path
    <2>5. r # <<>> /\ r[1] # "/"
      <3>1. r[1] = "upstream" /\ Len(r) = 3 + Len(p)
        BY <1>4, <1>5, <2>3
      <3>2. Len(r) # 0
        BY <1>2, <3>1
      <3> QED
        BY <3>1, <3>2
    <2>6. TrimStart(r) = r
      BY <2>1, <2>5, TrimStartFacts
    <2>7. w \in Path /\ Len(w) = 3 + Len(o) /\ Decoded(w) = r
      BY <1>1, <1>4, <1>5, <2>2
    <2>8. Len(w) >= 2
      BY <2>4, <2>7
    <2> QED
      BY <2>1, <2>6, <2>7, <2>8
  <1>7. PICK d \in Path, x \in Token : d = <<"/", "pub", "/">> /\ x = "pub"
    <2>1. "/" \in Token /\ "pub" \in Token
      BY Tokens
    <2>2. <<"/", "pub", "/">> \in Path
      BY <2>1 DEF Path
    <2> QED
      BY <2>1, <2>2
  <1>8. PICK s : s = d \o w
    OBVIOUS
  <1>9. s = <<"/", "pub", "/">> \o Front(Storage) \o l.path
    <2>1. (d \o e) \o o = d \o (e \o o)
      <3>1. \A y \in Path, z \in Path : (d \o y) \o z = d \o (y \o z)
        BY JoinedTwice
      <3> QED
        BY <3>1
    <2> QED
      BY <1>1, <1>4, <1>5, <1>7, <1>8, <2>1
  <1>10. Route(s, "GET") = Pub(r)
    <2>2. Route(s, "GET") = Proxied(x, w)
      BY <1>6, <1>7, <1>8, UpstreamShown
    <2> QED
      BY <1>6, <1>7, <2>2 DEF Proxied
  <1>11. PICK t \in Path : t = Tail(p)
    BY <1>2
  <1>12. r = Storage \o t
    <2>1. PICK c \in Path : c = <<"/">>
      BY Slash
    <2>2. e \o c = Storage
      <3>1. /\ Len(e) = 3 /\ e[1] = "upstream" /\ e[2] = "/" /\ e[3] = host
            /\ Len(c) = 1 /\ c[1] = "/"
        BY <1>4, <2>1
      <3>2. /\ e \o c \in Path /\ Len(e \o c) = Len(e) + Len(c)
            /\ \A i \in 1..Len(e) + Len(c) : (e \o c)[i] = IF i <= Len(e) THEN e[i] ELSE c[i - Len(e)]
        BY JoinedPath
      <3>3. PICK f \in Path : f = e \o c
        BY <3>2
      <3>4. Len(f) = 4 /\ \A i \in 1..4 : f[i] = IF i <= 3 THEN e[i] ELSE c[i - 3]
        <4>1. Len(e) + Len(c) = 4
          BY <3>1
        <4> QED
          BY <3>1, <3>2, <3>3, <4>1
      <3>5. /\ 1 \in 1..4 /\ 2 \in 1..4 /\ 3 \in 1..4 /\ 4 \in 1..4
            /\ 1 <= 3 /\ 2 <= 3 /\ 3 <= 3 /\ ~(4 <= 3) /\ 4 - 3 = 1
            /\ \A i \in 1..4 : i = 1 \/ i = 2 \/ i = 3 \/ i = 4
        OBVIOUS
      <3>6. f[1] = "upstream" /\ f[2] = "/" /\ f[3] = host /\ f[4] = "/"
        BY <3>1, <3>4, <3>5
      <3>7. \A i \in 1..Len(f) : f[i] = Storage[i]
        BY <1>3, <3>4, <3>5, <3>6, StorageFacts
      <3>8. f = Storage
        BY <3>4, <3>7, StorageFacts, PathEqual
      <3> QED
        BY <3>3, <3>8
    <2>3. (e \o c) \o t = e \o (c \o t)
      BY JoinedTwice, SMTT(30)
    <2> QED
      BY <1>2, <1>5, <1>11, <2>1, <2>2, <2>3
  <1>13. IsPrefix(Storage, r) /\ After(Storage, r) = t
    BY <1>11, <1>12, StorageFacts, AppendedFacts
  <1>14. PICK url : url = RepositoryUrl(<<Url("https", Storage[3], <<"/">>)>>, t)
    OBVIOUS
  <1>15. url.host = l.host /\ url.path = p
    BY <1>2, <1>11, <1>14, StorageUrl
  <1>16. ResourceFor("pub", l, url)
    BY <1>1, <1>15 DEF ResourceFor
  <1>17. PICK sane \in BOOLEAN : sane = SanitizeRepositoryPath(r)
    BY <1>6, SanitizeFacts
  <1>18. Pub(r) = Checked("pub", sane, Fetch("pub", url, "none"))
    BY <1>6, <1>13, <1>14, <1>17 DEF Pub
  <1>19. Leads(l, Route(s, "GET"))
    BY <1>6, <1>10, <1>16, <1>17, <1>18, FetchLeads, CheckedLeads
  <1> QED
    BY <1>9, <1>19, LeadsFollowed

LEMMA CratesParts ==
    ASSUME NEW p \in Path, IsCratesDownload(p)
    PROVE  /\ (CratesApi \o KrateAndVersion(p)) \o <<"/", "download">> = p
           /\ \A i \in DOMAIN KrateAndVersion(p) :
                 \E j \in 1..Len(p) : KrateAndVersion(p)[i] = p[j]
           /\ p[1] = "/"
  <1>1. PICK c \in Path : c = CratesApi /\ Len(c) = 7
    <2>1. "/" \in Token /\ "api" \in Token /\ "v1" \in Token /\ "crates" \in Token
      BY Tokens
    <2>2. CratesApi \in Path /\ Len(CratesApi) = 7
      BY <2>1 DEF CratesApi, Path
    <2> QED
      BY <2>2
  <1>2. PICK d \in Path : d = <<"/", "download">> /\ Len(d) = 2 /\ d[1] = "/" /\ d[2] = "download"
    <2>1. "/" \in Token /\ "download" \in Token
      BY Tokens
    <2>2. <<"/", "download">> \in Path
      BY <2>1 DEF Path
    <2>3. PICK d \in Path : d = <<"/", "download">>
      BY <2>2
    <2>4. Len(d) = 2 /\ d[1] = "/" /\ d[2] = "download"
      BY <2>3
    <2> QED
      BY <2>3, <2>4
  <1>3. PICK n \in Nat : n = Len(p)
    BY DEF Path
  <1>4. 7 <= n /\ \A i \in 1..7 : c[i] = p[i]
    <2>1. IsPrefix(c, p)
      BY <1>1 DEF IsCratesDownload
    <2>2. Len(c) <= Len(p) /\ \A i \in 1..Len(c) : c[i] = p[i]
      BY <2>1, PathPrefix
    <2> QED
      BY <1>1, <1>3, <2>2
  <1>5. PICK k : k = SubSeq(p, 8, n - 2) /\ k = KrateAndVersion(p)
    <2>1. 7 + 1 = 8
      OBVIOUS
    <2> QED
      BY <1>1, <1>3, <2>1 DEF KrateAndVersion
  <1>6. /\ k \in Path /\ Len(k) = (IF 8 <= n - 2 THEN n - 2 - 8 + 1 ELSE 0)
        /\ \A i \in 1..n - 2 - 8 + 1 : k[i] = p[8 + i - 1]
    <2>1. n - 2 \in Nat /\ n - 2 <= n /\ 8 \in Nat /\ 8 >= 1
      BY <1>4
    <2> QED
      BY <1>3, <1>5, <2>1, SubPath
  <1>7. Len(k) >= 1
    <2>1. Cardinality({i \in DOMAIN k : k[i] = "/"}) = 1
      BY <1>5 DEF IsCratesDownload
    <2>2. {i \in DOMAIN k : k[i] = "/"} # {}
      BY <2>1, FS_EmptySet
    <2>3. DOMAIN k = 1..Len(k) /\ Len(k) \in Nat
      BY <1>6 DEF Path
    <2> QED
      BY <2>2, <2>3
  <1>8. n >= 10 /\ Len(k) = n - 9
    BY <1>6, <1>7
  <1>9. p[n - 1] = "/" /\ p[n] = "download"
    <2>1. IsSuffix(d, p)
      BY <1>2 DEF IsCratesDownload
    <2>2. IsPrefix(Reverse(d), Reverse(p))
      BY <2>1 DEF IsSuffix
    <2>3. PICK a \in Path : a = Reverse(d) /\ Len(a) = 2 /\ a[1] = d[2] /\ a[2] = d[1]
      <3>1. Reverse(d) = [i \in 1..2 |-> d[2 - i + 1]]
        BY <1>2 DEF Reverse
      <3>2. d[1] \in Token /\ d[2] \in Token
        BY <1>2, Tokens
      <3>3. PICK a : a = [i \in 1..2 |-> d[2 - i + 1]]
        OBVIOUS
      <3>4. a[1] = d[2] /\ a[2] = d[1]
        BY <3>3
      <3>5. a \in [1..2 -> Token]
        <4>1. \A i \in 1..2 : i = 1 \/ i = 2
          OBVIOUS
        <4>2. \A i \in 1..2 : a[i] \in Token
          BY <3>2, <3>4, <4>1
        <4> QED
          BY <3>3, <4>2
      <3>6. a \in Path /\ Len(a) = 2
        <4>1. 2 \in Nat
          OBVIOUS
        <4>2. a \in Path
          BY <3>5, <4>1, FunctionIsSeq DEF Path
        <4>3. DOMAIN a = 1..2
          BY <3>3
        <4> QED
          BY <4>2, <4>3 DEF Path
      <3> QED
        BY <3>1, <3>3, <3>4, <3>6
    <2>4. PICK b \in Path : b = Reverse(p) /\ Len(b) = n /\ \A i \in 1..n : b[i] = p[n - i + 1]
      <3>1. Reverse(p) = [i \in 1..n |-> p[n - i + 1]]
        BY <1>3 DEF Reverse
      <3>2. PICK b : b = [i \in 1..n |-> p[n - i + 1]]
        OBVIOUS
      <3>3. \A i \in 1..n : n - i + 1 \in 1..n
        OBVIOUS
      <3>4. b \in [1..n -> Token]
        BY <1>3, <3>2, <3>3, PathElement
      <3>5. b \in Path /\ Len(b) = n
        BY <3>4 DEF Path
      <3> QED
        BY <3>1, <3>2, <3>5
    <2>5. \A i \in 1..2 : a[i] = b[i]
      <3>1. IsPrefix(a, b)
        BY <2>2, <2>3, <2>4
      <3>2. \A i \in 1..Len(a) : a[i] = b[i]
        BY <3>1, PathPrefix
      <3> QED
        BY <2>3, <3>2
    <2>6. 1 \in 1..2 /\ 2 \in 1..2 /\ 1 \in 1..n /\ 2 \in 1..n /\ n - 1 + 1 = n /\ n - 2 + 1 = n - 1
      BY <1>4
    <2> QED
      BY <1>2, <2>3, <2>4, <2>5, <2>6
  <1>10. PICK ck \in Path : /\ ck = c \o k /\ Len(ck) = n - 2
                            /\ \A i \in 1..n - 2 : ck[i] = IF i <= 7 THEN c[i] ELSE k[i - 7]
    <2>1. 7 + (n - 9) = n - 2
      OBVIOUS
    <2>2. /\ c \o k \in Path /\ Len(c \o k) = Len(c) + Len(k)
          /\ \A i \in 1..Len(c) + Len(k) : (c \o k)[i] = IF i <= Len(c) THEN c[i] ELSE k[i - Len(c)]
      BY <1>6, JoinedPath
    <2>3. PICK ck \in Path : ck = c \o k
      BY <2>2
    <2>4. Len(ck) = n - 2 /\ Len(c) + Len(k) = n - 2
      BY <1>1, <1>8, <2>1, <2>2, <2>3
    <2>5. \A i \in 1..n - 2 : ck[i] = IF i <= 7 THEN c[i] ELSE k[i - 7]
      BY <1>1, <2>2, <2>3, <2>4
    <2> QED
      BY <2>3, <2>4, <2>5
  <1>11. PICK q \in Path : /\ q = ck \o d /\ Len(q) = n
                           /\ \A i \in 1..n : q[i] = IF i <= n - 2 THEN ck[i] ELSE d[i - (n - 2)]
    <2>1. (n - 2) + 2 = n
      OBVIOUS
    <2>2. /\ ck \o d \in Path /\ Len(ck \o d) = Len(ck) + Len(d)
          /\ \A i \in 1..Len(ck) + Len(d) :
                (ck \o d)[i] = IF i <= Len(ck) THEN ck[i] ELSE d[i - Len(ck)]
      BY JoinedPath
    <2>3. PICK q \in Path : q = ck \o d
      BY <2>2
    <2>4. Len(q) = n /\ Len(ck) + Len(d) = n
      BY <1>2, <1>10, <2>1, <2>2, <2>3
    <2>5. \A i \in 1..n : q[i] = IF i <= n - 2 THEN ck[i] ELSE d[i - (n - 2)]
      BY <1>10, <2>2, <2>3, <2>4
    <2> QED
      BY <2>3, <2>4, <2>5
  <1>12. ASSUME NEW i \in 1..n PROVE q[i] = p[i]
    <2>1. CASE i <= 7
      <3>1. i <= n - 2 /\ i \in 1..n - 2 /\ i \in 1..7
        BY <1>8, <2>1
      <3> QED
        BY <1>4, <1>10, <1>11, <2>1, <3>1
    <2>2. CASE ~(i <= 7) /\ i <= n - 2
      <3>1. i \in 1..n - 2 /\ i - 7 \in 1..n - 2 - 8 + 1 /\ 8 + (i - 7) - 1 = i
        BY <2>2
      <3> QED
        BY <1>6, <1>10, <1>11, <2>2, <3>1
    <2>3. CASE ~(i <= n - 2)
      <3>1. (i = n - 1 /\ i - (n - 2) = 1) \/ (i = n /\ i - (n - 2) = 2)
        BY <2>3
      <3> QED
        BY <1>2, <1>9, <1>11, <2>3, <3>1
    <2> QED
      BY <2>1, <2>2, <2>3
  <1>13. q = p
    BY <1>3, <1>11, <1>12, PathEqual
  <1>14. ASSUME NEW i \in DOMAIN k PROVE \E j \in 1..n : k[i] = p[j]
    <2>1. i \in 1..n - 9
      BY <1>6, <1>8 DEF Path
    <2>2. i \in 1..n - 2 - 8 + 1 /\ 8 + i - 1 \in 1..n
      BY <1>8, <2>1
    <2> QED
      BY <1>6, <2>2
  <1>15. p[1] = "/"
    <2>1. 1 \in 1..7 /\ c[1] = "/"
      BY <1>1 DEF CratesApi
    <2> QED
      BY <1>4, <2>1
  <1>16. (CratesApi \o KrateAndVersion(p)) \o <<"/", "download">> = p
    BY <1>1, <1>2, <1>5, <1>10, <1>11, <1>13
  <1>17. \A i \in DOMAIN KrateAndVersion(p) : \E j \in 1..Len(p) : KrateAndVersion(p)[i] = p[j]
    BY <1>3, <1>5, <1>14
  <1> QED
    BY <1>15, <1>16, <1>17

LEMMA CratesFollowed ==
    ASSUME setting \in DOMAIN Settings, NEW l \in Links, Plausible(l), l.host = "crates.io",
           IsCratesDownload(l.path), Decoded(l.path) = l.path
    PROVE  Followed(l, <<"/", "crates">> \o l.path)
  <1>1. PICK p \in Path : p = l.path
    BY PlausibleFacts DEF Clean
  <1>2. Len(p) >= 2 /\ Normalised(p) = p /\ ~Odd(p) /\ Len(p) \in Nat
    BY <1>1, PlausibleFacts DEF Path, Clean
  <1>3. PICK d \in Path : d = <<"/", "crates">>
    <2>1. "/" \in Token /\ "crates" \in Token
      BY Tokens
    <2>2. <<"/", "crates">> \in Path
      BY <2>1 DEF Path
    <2> QED
      BY <2>2
  <1>4. Len(d) = 2 /\ d[2] = "crates"
    BY <1>3
  <1>5. PICK s \in Path : /\ s = d \o p /\ Len(s) = Len(d) + Len(p)
                          /\ \A i \in 1..Len(d) : s[i] = d[i]
                          /\ SubSeq(s, Len(d) + 1, Len(s)) = p
    BY <1>2, ShownParts
  <1>6. Len(s) >= 3 /\ s[2] = "crates" /\ SubSeq(s, 3, Len(s)) = p
    <2>1. 2 \in 1..2 /\ 2 + 1 = 3 /\ 2 + Len(p) >= 3
      BY <1>2
    <2> QED
      BY <1>4, <1>5, <2>1
  <1>7. Route(s, "GET") = CratesDownload(p)
    BY <1>1, <1>6, ShownRoutes
  <1>8. PICK k \in Path : k = KrateAndVersion(p)
    BY <1>1, CratesPath
  <1>9. (CratesApi \o k) \o <<"/", "download">> = p
    BY <1>1, <1>8, CratesParts
  <1>10. ~Odd(k)
    <2>1. PICK c \in Path, e \in Path : c = CratesApi /\ e = <<"/", "download">>
      <3>1. "/" \in Token /\ "api" \in Token /\ "v1" \in Token /\ "crates" \in Token
            /\ "download" \in Token
        BY Tokens
      <3>2. CratesApi \in Path /\ <<"/", "download">> \in Path
        BY <3>1 DEF CratesApi, Path
      <3> QED
        BY <3>2
    <2>2. c \o k \in Path /\ (Odd(c \o k) <=> Odd(c) \/ Odd(k))
      BY JoinedPath
    <2>3. PICK b \in Path : b = c \o k
      BY <2>2
    <2>4. Odd(b \o e) <=> Odd(b) \/ Odd(e)
      BY JoinedPath
    <2> QED
      BY <1>2, <1>9, <2>1, <2>2, <2>3, <2>4
  <1>17. Decoded(k) = k /\ \A i \in DOMAIN k : k[i] # "%2f"
    <2>1. \A i \in 1..Len(p) : DecodedToken(p[i]) = p[i]
      BY <1>1, DecodedFacts
    <2>2. \A i \in DOMAIN k : \E j \in 1..Len(p) : k[i] = p[j]
      BY <1>1, <1>8, CratesParts
    <2>3. \A i \in DOMAIN k : DecodedToken(k[i]) = k[i]
      BY <2>1, <2>2
    <2>4. DOMAIN k = 1..Len(k)
      BY DEF Path
    <2>5. PICK u \in Path : u = Decoded(k) /\ Len(u) = Len(k) /\ \A i \in 1..Len(k) : u[i] = DecodedToken(k[i])
      BY DecodedFacts
    <2>6. u = k
      BY <2>3, <2>4, <2>5, PathEqual
    <2>7. DecodedToken("%2f") = "/"
      BY DEF DecodedToken
    <2> QED
      BY <2>3, <2>5, <2>6, <2>7
  <1>18. ~Dotted(k)
    BY <1>10, OddParts
  <1>11. PICK url : url = BuildUrl(config.up["crates_api"], p)
    OBVIOUS
  <1>12. SameOrigin(config.up["crates_api"][1], url) /\ url.path = p
    <2>1. "crates_api" \in KeysOf("crates") /\ "crates_api" \in Keys /\ "crates" \in Replacing
      BY KeysListed DEF KeysOf, Replacing
    <2> QED
      BY <1>2, <1>11, <2>1, BuildFacts
  <1>13. ResourceFor("crates", l, url)
    <2>1. StandIn(l.host) = {"crates_api"}
      BY DEF StandIn
    <2> QED
      BY <1>1, <1>12, <2>1 DEF ResourceFor, SelectUpstream
  <1>14. PICK sane \in BOOLEAN : sane =
            (~Dotted(k) /\ \A i \in DOMAIN k : k[i] # "%2f")
    OBVIOUS
  <1>15. CratesDownload(p) = Checked("crates", sane, Fetch("crates", url, "none"))
    BY <1>8, <1>9, <1>11, <1>14, <1>17 DEF CratesDownload
  <1>16. Leads(l, Route(s, "GET"))
    BY <1>7, <1>13, <1>14, <1>15, <1>17, <1>18, FetchLeads, CheckedLeads
  <1> QED
    BY <1>1, <1>3, <1>5, <1>16, LeadsFollowed

\* A page of the Hub: below the base path, or no page of this server.
LEMMA HubFollowed ==
    ASSUME setting \in DOMAIN Settings, NEW l \in Links, Plausible(l),
           NEW k \in 1..Len(l.path), NEW rest, rest = SubSeq(l.path, k, Len(l.path)),
           SaneHubPath(TrimStart(rest)), ValidHubPath(TrimStart(rest))
    PROVE  Followed(l, <<"/", "huggingface">> \o rest)
  <1>1. PICK p \in Path : p = l.path
    BY PlausibleFacts DEF Clean
  <1>2. PICK n \in Nat : n = Len(p)
    BY DEF Path
  <1>3. /\ rest \in Path /\ Len(rest) = n - k + 1 /\ Len(rest) >= 1
        /\ \A i \in 1..n - k + 1 : rest[i] = p[k + i - 1]
    <2>1. k \in Nat /\ k >= 1 /\ k <= n /\ n <= n
      BY <1>1, <1>2
    <2>2. k <= Len(p) /\ n <= Len(p) /\ rest = SubSeq(p, k, n)
      BY <1>1, <1>2, <2>1
    <2>3. /\ rest \in Path /\ Len(rest) = (IF k <= n THEN n - k + 1 ELSE 0)
          /\ \A i \in 1..n - k + 1 : rest[i] = p[k + i - 1]
      BY <2>1, <2>2, SubPath
    <2>4. Len(rest) = n - k + 1 /\ Len(rest) >= 1
      BY <2>1, <2>3
    <2> QED
      BY <2>3, <2>4
  <1>4. rest \in Path
    BY <1>3
  <1>5. rest # <<>>
    <2>1. Len(rest) >= 1
      BY <1>3
    <2>2. Len(rest) # 0
      BY <1>4, <2>1 DEF Path
    <2> QED
      BY <2>2
  <1>6. rest[1] = p[k]
    <2>1. 1 \in 1..n - k + 1 /\ k + 1 - 1 = k
      BY <1>1, <1>2
    <2> QED
      BY <1>3, <2>1
  <1>7. PICK d \in Path : d = <<"/", "huggingface">>
    <2>1. "/" \in Token /\ "huggingface" \in Token
      BY Tokens
    <2>2. <<"/", "huggingface">> \in Path
      BY <2>1 DEF Path
    <2> QED
      BY <2>2
  <1>8. Len(d) = 2 /\ d[2] = "huggingface"
    BY <1>7
  <1>9. PICK s \in Path : s = d \o rest
    BY <1>3, JoinedPath
  <1>10. Len(s) = 2 + Len(rest) /\ s[2] = "huggingface" /\ s[3] = rest[1] /\ Len(s) >= 3
    <2>1. PICK m \in Nat : m = Len(rest) /\ m >= 1
      BY <1>3 DEF Path
    <2>2. /\ Len(s) = Len(d) + Len(rest)
          /\ \A i \in 1..Len(d) + Len(rest) : s[i] = IF i <= Len(d) THEN d[i] ELSE rest[i - Len(d)]
      BY <1>9, <1>4, JoinedPath
    <2>3. /\ 2 \in 1..2 + m /\ 3 \in 1..2 + m /\ 2 <= 2 /\ ~(3 <= 2) /\ 3 - 2 = 1 /\ 2 + m >= 3
      BY <2>1
    <2>4. Len(s) = 2 + m /\ \A i \in 1..2 + m : s[i] = IF i <= 2 THEN d[i] ELSE rest[i - 2]
      BY <1>8, <2>1, <2>2
    <2>5. s[2] = d[2] /\ s[3] = rest[1]
      BY <2>3, <2>4
    <2> QED
      BY <1>8, <2>1, <2>3, <2>4, <2>5
  <1>11. CASE rest[1] # "/"
    <2>1. Route(s, "GET") = Refuse("none", "StaticAsset")
      BY <1>10, <1>11, ShownRoutes
    <2>2. DeadAt(s, l)
      BY <1>10, <1>11 DEF DeadAt
    <2>3. Route(s, "GET").result = "StaticAsset"
      BY <2>1 DEF Refuse
    <2>4. Followed(l, s)
      BY <2>2, <2>3 DEF Followed
    <2> QED
      BY <1>7, <1>9, <2>4
  <1>12. CASE rest[1] = "/"
    <2>1. k < n /\ p[k + 1] # "/"
      BY <1>1, <1>2, <1>6, <1>12, PlausibleFacts, CleanGaps
    <2>2. Len(rest) >= 2 /\ rest[2] # "/"
      <3>1. 2 \in 1..n - k + 1 /\ k + 2 - 1 = k + 1 /\ n - k + 1 >= 2
        BY <1>1, <1>2, <2>1
      <3> QED
        BY <1>3, <2>1, <3>1
    <2>3. TrimStart(rest) = Tail(rest)
      BY <1>3, <1>12, <2>2, TrimStartFacts
    <2>4. PICK t \in Path : t = Tail(rest) /\ <<"/">> \o t = rest
      <3>1. Tail(rest) \in Path /\ <<"/">> \o Tail(rest) = rest
        BY <1>12, <1>4, <1>5, SlashTail
      <3> QED
        BY <3>1
    <2>5. SaneHubPath(t) /\ ValidHubPath(t) /\ ~Odd(t)
      BY <2>3, <2>4, SaneHubFacts
    <2>6. SubSeq(s, 4, Len(s)) = t
      <3>1. PICK z \in Path : /\ z = d \o rest /\ Len(z) = Len(d) + Len(rest)
                              /\ \A i \in 1..Len(d) : z[i] = d[i]
                              /\ z[Len(d) + 1] = rest[1] /\ z[Len(d) + 2] = rest[2]
                              /\ SubSeq(z, Len(d) + 1, Len(z)) = rest
                              /\ SubSeq(z, Len(d) + 2, Len(z)) = Tail(rest)
        BY <1>4, <2>2, ShownParts
      <3>2. 2 + 2 = 4
        OBVIOUS
      <3> QED
        BY <1>8, <1>9, <2>4, <3>1, <3>2
    <2>7. Len(s) >= 4 /\ Len(s) >= 3
      <3>1. PICK m \in Nat : m = Len(rest) /\ m >= 2
        BY <1>3, <2>2 DEF Path
      <3>2. 2 + m >= 4 /\ 2 + m >= 3
        BY <3>1
      <3> QED
        BY <1>10, <3>1, <3>2
    <2>8. Route(s, "GET") = Proxied(s[2], SubSeq(s, 4, Len(s)))
      BY <1>10, <1>12, <2>7, ShownRoutes
    <2>9. Route(s, "GET") = HuggingFace(t)
      BY <1>10, <2>6, <2>8 DEF Proxied
    <2>10. PICK g \in Group : g = config.up["huggingface"]
      BY KeysListed, ConfigFacts
    <2>11. PICK base \in Urls : base = g[1] /\ ~Odd(base.path) /\ SelectUpstream(g) = base
      BY GroupFacts
    <2>12. PICK url : url = RepositoryUrl(g, t)
      OBVIOUS
    <2>13. BelowEndpoint(base, url) /\ After(TrimEnd(base.path), url.path) = <<"/">> \o t
      BY <2>5, <2>11, <2>12, RepositoryFacts, SMTT(30)
    <2>14. ResourceFor("huggingface", l, url)
      <3>1. After(TrimEnd(base.path), url.path) = SubSeq(l.path, k, Len(l.path))
        BY <2>4, <2>13
      <3> QED
        BY <2>10, <2>11, <2>13, <3>1 DEF ResourceFor
    <2>15. PICK sane \in BOOLEAN : sane = SaneHubPath(t)
      BY SaneHubFacts
    <2>16. HuggingFace(t) = Checked("huggingface", sane, Fetch("huggingface", url, "huggingface"))
      BY <2>5, <2>10, <2>12, <2>15 DEF HuggingFace
    <2>17. Leads(l, Route(s, "GET"))
      BY <2>5, <2>9, <2>14, <2>15, <2>16, FetchLeads, CheckedLeads
    <2> QED
      BY <1>7, <1>9, <2>17, LeadsFollowed
  <1> QED
    BY <1>11, <1>12

Start(s) == s \in Path /\ Len(s) >= 2 /\ s[1] = "/"

LEMMA StartJoined ==
    ASSUME NEW d, Start(d), NEW q \in Path
    PROVE  Start(d \o q)
  <1>1. d \in Path /\ d[1] = "/"
    BY DEF Start
  <1>2. PICK m \in Nat, n \in Nat : m = Len(d) /\ n = Len(q) /\ m >= 2
    BY <1>1 DEF Path, Start
  <1>3. /\ d \o q \in Path /\ Len(d \o q) = m + n
        /\ \A i \in 1..m + n : (d \o q)[i] = IF i <= m THEN d[i] ELSE q[i - m]
    BY <1>1, <1>2, JoinedPath
  <1>4. 1 \in 1..m + n /\ 1 <= m /\ m + n >= 2
    BY <1>2
  <1> QED
    BY <1>1, <1>3, <1>4 DEF Start

LEMMA LinkFacts ==
    ASSUME NEW l \in Links
    PROVE  /\ l.scheme \in Token /\ l.host \in Token /\ l.path \in Path
           /\ Normalised(l.path) \in Path /\ Normalised(l.path) # <<>>
  <1>1. /\ l.scheme \in STRING /\ l.host \in STRING /\ l.path \in Seq(STRING)
    BY PathsAssumption
  <1>2. l.scheme \in Token /\ l.host \in Token /\ l.path \in Path
    BY <1>1, StringPaths
  <1> QED
    BY <1>2, NormalisedFacts

LEMMA Starts ==
    ASSUME NEW l \in Links
    PROVE  /\ Start(<<"/", "npm">>) /\ Start(<<"/", "pypi", "/", "files">>) /\ Start(<<"/", "pypi">>)
           /\ Start(<<"/", l.scheme, "://", l.host>>)
           /\ Start(<<"/", "nuget", "/", "upstream", "/", l.host>>)
           /\ Start(<<"/", "pub", "/">>) /\ Start(<<"/", "huggingface">>) /\ Start(<<"/", "crates">>)
  <1>1. /\ "/" \in Token /\ "npm" \in Token /\ "pypi" \in Token /\ "files" \in Token
        /\ "://" \in Token /\ "nuget" \in Token /\ "upstream" \in Token /\ "pub" \in Token
        /\ "huggingface" \in Token /\ "crates" \in Token /\ l.scheme \in Token /\ l.host \in Token
    BY Tokens, LinkFacts
  <1>2. /\ <<"/", "npm">> \in Path /\ <<"/", "pypi", "/", "files">> \in Path
        /\ <<"/", "pypi">> \in Path /\ <<"/", l.scheme, "://", l.host>> \in Path
        /\ <<"/", "nuget", "/", "upstream", "/", l.host>> \in Path
        /\ <<"/", "pub", "/">> \in Path /\ <<"/", "huggingface">> \in Path /\ <<"/", "crates">> \in Path
    BY <1>1 DEF Path
  <1>3. /\ Start(<<"/", "npm">>) /\ Start(<<"/", "pypi">>)
        /\ Start(<<"/", "huggingface">>) /\ Start(<<"/", "crates">>)
    BY <1>2 DEF Start
  <1>4. /\ Start(<<"/", "pypi", "/", "files">>) /\ Start(<<"/", "pub", "/">>)
    BY <1>2 DEF Start
  <1>5. Start(<<"/", l.scheme, "://", l.host>>)
    BY <1>2 DEF Start
  <1>6. Start(<<"/", "nuget", "/", "upstream", "/", l.host>>)
    BY <1>2 DEF Start
  <1> QED
    BY <1>3, <1>4, <1>5, <1>6

\* The forms of the paths that links are rewritten to; for NuGet, the host was
\* one that the configuration of that time listed, and may go on in the path.
Written(l, s) ==
    \/ /\ HostEnds(l)
       /\ \/ l.host = "registry.npmjs.org" /\ s = <<"/", "npm">> \o Normalised(l.path)
          \/ l.host = "files.pythonhosted.org" /\ s = <<"/", "pypi", "/", "files">> \o l.path
          \/ /\ l.host = "" /\ IsPrefix(<<"/", "packages", "/">>, l.path)
             /\ s = <<"/", "pypi">> \o l.path
          \/ /\ l.host \in {"api.github.com", "github.com", "codeload.github.com",
                            "objects.githubusercontent.com", "repo.packagist.org"}
             /\ s = <<"/", l.scheme, "://", l.host>> \o l.path
          \/ l.host = Storage[3] /\ s = <<"/", "pub", "/">> \o Front(Storage) \o l.path
          \/ \E k \in 1..Len(Normalised(l.path)) :
                LET rest == SubSeq(Normalised(l.path), k, Len(Normalised(l.path)))
                IN  /\ SaneHubPath(TrimStart(rest)) /\ ValidHubPath(TrimStart(rest))
                    /\ s = <<"/", "huggingface">> \o rest
          \/ /\ l.host = "crates.io" /\ IsCratesDownload(l.path) /\ Decoded(l.path) = l.path
             /\ s = <<"/", "crates">> \o l.path
    \/ /\ l.scheme = "https" /\ l.host \notin {"/", ".", "..", "\\"} /\ DecodedToken(l.host) = l.host
       /\ fresh => l.host \in NugetHosts \cup {SelectUpstream(config.up["nuget"]).host}
       /\ s = <<"/", "nuget", "/", "upstream", "/", l.host>> \o l.path

\* Rewritten links are paths of this server.
LEMMA WrittenStart ==
    ASSUME NEW l \in Links, NEW s, Written(l, s)
    PROVE  Start(s)
  <1>1. PICK p \in Path : p = l.path
    BY LinkFacts
  <1>2. PICK q \in Path : q = Normalised(l.path)
    BY LinkFacts
  <1>3. Front(Storage) \in Path
    BY StorageFront
  <1>4. CASE s = <<"/", "npm">> \o Normalised(l.path)
    BY <1>2, <1>4, Starts, StartJoined
  <1>5. CASE s = <<"/", "pypi", "/", "files">> \o l.path
    BY <1>1, <1>5, Starts, StartJoined
  <1>6. CASE s = <<"/", "pypi">> \o l.path
    BY <1>1, <1>6, Starts, StartJoined
  <1>7. CASE s = <<"/", l.scheme, "://", l.host>> \o l.path
    BY <1>1, <1>7, Starts, StartJoined
  <1>8. CASE s = <<"/", "nuget", "/", "upstream", "/", l.host>> \o l.path
    BY <1>1, <1>8, Starts, StartJoined
  <1>9. CASE s = <<"/", "pub", "/">> \o Front(Storage) \o l.path
    <2>1. Start(<<"/", "pub", "/">> \o Front(Storage))
      BY <1>3, Starts, StartJoined
    <2> QED
      BY <1>1, <1>9, <2>1, StartJoined
  <1>10. CASE \E k \in 1..Len(q) : s = <<"/", "huggingface">> \o SubSeq(q, k, Len(q))
    <2>1. PICK k \in 1..Len(q) : s = <<"/", "huggingface">> \o SubSeq(q, k, Len(q))
      BY <1>10
    <2>2. PICK n \in Nat : n = Len(q)
      BY DEF Path
    <2>3. k \in Nat /\ k >= 1 /\ n <= Len(q)
      BY <2>2
    <2>4. SubSeq(q, k, n) \in Path
      BY <2>3, SubPath
    <2> QED
      BY <2>1, <2>2, <2>4, Starts, StartJoined
  <1>11. CASE s = <<"/", "crates">> \o l.path
    BY <1>1, <1>11, Starts, StartJoined
  <1> QED
    BY <1>2, <1>4, <1>5, <1>6, <1>7, <1>8, <1>9, <1>10, <1>11 DEF Written

\* A plausible link that an adapter rewrote leads to its resource.
LEMMA WrittenFollowed ==
    ASSUME setting \in DOMAIN Settings, NEW l \in Links, Plausible(l), NEW s, Written(l, s)
    PROVE  Followed(l, s)
  <1>1. Normalised(l.path) = l.path
    BY PlausibleFacts DEF Clean
  <1>2. CASE l.host = "registry.npmjs.org" /\ s = <<"/", "npm">> \o Normalised(l.path)
    BY <1>1, <1>2, NpmLeads, LeadsFollowed
  <1>3. CASE l.host = "files.pythonhosted.org" /\ s = <<"/", "pypi", "/", "files">> \o l.path
    BY <1>3, PypiLeads, LeadsFollowed
  <1>4. CASE /\ l.host = "" /\ IsPrefix(<<"/", "packages", "/">>, l.path)
             /\ s = <<"/", "pypi">> \o l.path
    BY <1>4, PypiLeads, LeadsFollowed
  <1>5. CASE /\ l.host \in {"api.github.com", "github.com", "codeload.github.com",
                            "objects.githubusercontent.com", "repo.packagist.org"}
             /\ s = <<"/", l.scheme, "://", l.host>> \o l.path
    BY <1>5, ComposerFollowed
  <1>6. CASE /\ l.scheme = "https" /\ l.host \notin {"/", ".", "..", "\\"} /\ DecodedToken(l.host) = l.host
             /\ fresh => l.host \in NugetHosts \cup {SelectUpstream(config.up["nuget"]).host}
             /\ s = <<"/", "nuget", "/", "upstream", "/", l.host>> \o l.path
    BY <1>6, NugetFollowed
  <1>7. CASE l.host = Storage[3] /\ s = <<"/", "pub", "/">> \o Front(Storage) \o l.path
    BY <1>7, PubFollowed
  <1>8. CASE \E k \in 1..Len(l.path) :
                LET rest == SubSeq(l.path, k, Len(l.path))
                IN  /\ SaneHubPath(TrimStart(rest)) /\ ValidHubPath(TrimStart(rest))
                    /\ s = <<"/", "huggingface">> \o rest
    <2>1. PICK k \in 1..Len(l.path) :
             LET rest == SubSeq(l.path, k, Len(l.path))
             IN  /\ SaneHubPath(TrimStart(rest)) /\ ValidHubPath(TrimStart(rest))
                 /\ s = <<"/", "huggingface">> \o rest
      BY <1>8
    <2>2. PICK rest : rest = SubSeq(l.path, k, Len(l.path))
      OBVIOUS
    <2>3. /\ SaneHubPath(TrimStart(rest)) /\ ValidHubPath(TrimStart(rest))
          /\ s = <<"/", "huggingface">> \o rest
      BY <2>1, <2>2
    <2> QED
      BY <2>2, <2>3, HubFollowed
  <1>9. CASE /\ l.host = "crates.io" /\ IsCratesDownload(l.path) /\ Decoded(l.path) = l.path
             /\ s = <<"/", "crates">> \o l.path
    BY <1>9, CratesFollowed
  <1> QED
    BY <1>1, <1>2, <1>3, <1>4, <1>5, <1>6, <1>7, <1>8, <1>9 DEF Written

\* A link to a longer host leads nowhere.
LEMMA LongerRefused ==
    ASSUME NEW l \in Links, Longer(l), NEW s, Written(l, s)
    PROVE  Route(s, "GET").result \notin {"fetch", "below"}
  <1>1. ~HostEnds(l)
    <2>1. PICK o \in Path : o = l.path
      BY LinkFacts
    <2>2. o # <<>> /\ Decoded(o)[1] # "/"
      BY <2>1 DEF Longer
    <2>3. 1 \in 1..Len(o)
      BY <2>2 DEF Path
    <2>4. Decoded(o)[1] = DecodedToken(o[1])
      BY <2>3, DecodedFacts
    <2>5. DecodedToken("/") = "/"
      BY DEF DecodedToken
    <2> QED
      BY <2>1, <2>2, <2>4, <2>5 DEF HostEnds
  <1>2. /\ l.host # "/" /\ DecodedToken(l.host) = l.host
        /\ s = <<"/", "nuget", "/", "upstream", "/", l.host>> \o l.path
    BY <1>1 DEF Written
  <1> QED
    BY <1>2, NugetLonger

LEMMA HubWritten ==
    ASSUME NEW l \in Links, NEW url \in Urls, RewritePagination(l, url) # <<>>
    PROVE  Written(l, RewritePagination(l, url))
  <1>1. PICK u \in Path : u = url.path
    BY DEF Urls
  <1> DEFINE F == {i \in DOMAIN url.path :
                     IsPrefix(<<"/", "api", "/">>, SubSeq(url.path, i, Len(url.path)))}
             C == CHOOSE i \in F : \A j \in F : i <= j
             B == SubSeq(url.path, 1, C - 1)
             N == Normalised(l.path)
             R == After(B, N)
  <1>2. RewritePagination(l, url) =
           IF /\ F # {} /\ HostEnds(l) /\ SameOrigin(l, url) /\ IsPrefix(B, N)
              /\ SaneHubPath(TrimStart(R)) /\ ValidHubPath(TrimStart(R))
           THEN <<"/", "huggingface">> \o R ELSE <<>>
    BY Zenon DEF RewritePagination
  <1>3. PICK found, first : /\ found = F /\ first = C
                            /\ first = CHOOSE i \in found : \A j \in found : i <= j
    OBVIOUS
  <1>4. PICK base : base = B /\ base = SubSeq(url.path, 1, first - 1)
    BY <1>3
  <1>5. PICK path \in Path : path = N
    BY LinkFacts
  <1>6. PICK rest : rest = R /\ rest = After(base, path)
    BY <1>4, <1>5
  <1>7. found = {i \in DOMAIN url.path :
                     IsPrefix(<<"/", "api", "/">>, SubSeq(url.path, i, Len(url.path)))}
    BY <1>3
  <1>8. path = Normalised(l.path)
    BY <1>5
  <1> HIDE DEF F, C, B, N, R
  <1>9. RewritePagination(l, url) =
           IF /\ found # {} /\ HostEnds(l) /\ SameOrigin(l, url) /\ IsPrefix(base, path)
              /\ SaneHubPath(TrimStart(rest)) /\ ValidHubPath(TrimStart(rest))
           THEN <<"/", "huggingface">> \o rest ELSE <<>>
    BY <1>2, <1>3, <1>4, <1>5, <1>6
  <1>10. /\ found # {} /\ HostEnds(l) /\ IsPrefix(base, path)
        /\ SaneHubPath(TrimStart(rest)) /\ ValidHubPath(TrimStart(rest))
        /\ RewritePagination(l, url) = <<"/", "huggingface">> \o rest
    BY <1>9
  <1>11. first \in 1..Len(u)
    <2>1. found \in SUBSET Nat /\ found \subseteq 1..Len(u)
      <3>1. DOMAIN u = 1..Len(u) /\ Len(u) \in Nat
        BY DEF Path
      <3>2. found \subseteq 1..Len(u)
        BY <1>1, <1>7, <3>1
      <3> QED
        BY <3>1, <3>2
    <2>2. \E i \in found : \A j \in found : i <= j
      BY <1>10, <2>1, LeastNumber
    <2>3. first \in found
      BY <1>3, <2>2
    <2> QED
      BY <2>1, <2>3
  <1>12. base \in Path
    <2>1. PICK m \in Nat : m = first - 1 /\ m <= Len(u)
      <3>1. Len(u) \in Nat
        BY DEF Path
      <3> QED
        BY <1>11, <3>1
    <2>2. 1 \in Nat /\ 1 >= 1
      OBVIOUS
    <2>3. SubSeq(u, 1, m) \in Path
      BY <2>1, <2>2, SubPath
    <2> QED
      BY <1>1, <1>4, <2>1, <2>3
  <1>13. Len(base) <= Len(path) /\ rest \in Path
    BY <1>6, <1>10, <1>12, PrefixFacts
  <1>14. PICK b \in Nat, n \in Nat : b = Len(base) /\ n = Len(path) /\ b <= n
    BY <1>12, <1>13 DEF Path
  <1>15. rest = SubSeq(path, b + 1, n)
    BY <1>6, <1>14 DEF After
  <1>16. rest # <<>>
    <2>1. SaneHubPath(<<>>) => FALSE
      <3>1. PICK e \in Path : e = <<>> /\ Len(e) = 0
        <4>1. <<>> \in Path /\ Len(<<>>) = 0
          BY DEF Path
        <4> QED
          BY <4>1
      <3>2. Decoded(e) \in Path /\ Len(Decoded(e)) = 0
        BY <3>1, DecodedFacts
      <3>3. Decoded(e) = <<>>
        BY <3>2 DEF Path
      <3> QED
        BY <3>1, <3>3 DEF SaneHubPath, SanitizeRepositoryPath
    <2>2. TrimStart(<<>>) = <<>>
      <3>1. PICK e : e = <<>>
        OBVIOUS
      <3>2. e \in Path /\ Len(e) = 0
        BY <3>1 DEF Path
      <3>3. {i \in 1..Len(e) : e[i] # "/"} = {}
        BY <3>2
      <3> QED
        BY <3>1, <3>3 DEF TrimStart, SelectInSeq
    <2> QED
      BY <1>10, <2>1, <2>2
  <1>17. b + 1 \in 1..n
    <2>1. CASE b = n
      <3>1. PICK z \in Nat : z = b + 1 /\ z >= 1 /\ ~(z <= n)
        BY <1>14, <2>1
      <3>2. n <= Len(path)
        BY <1>14
      <3>3. Len(SubSeq(path, z, n)) = 0
        BY <3>1, <3>2, SubPath
      <3>4. Len(rest) = 0
        BY <1>15, <3>1, <3>3
      <3> QED
        BY <1>13, <1>16, <3>4 DEF Path
    <2>2. CASE b # n
      BY <1>14, <2>2
    <2> QED
      BY <2>1, <2>2
  <1>18. PICK k \in 1..Len(path) : rest = SubSeq(path, k, Len(path))
    BY <1>14, <1>15, <1>17
  <1> QED
    BY <1>10, <1>18, <1>8, Zenon DEF Written

\* All that documents say about other places is of these forms.
LEMMA RewrittenForm ==
    ASSUME setting \in DOMAIN Settings, NEW l \in Links, got.rewrites \in Kinds, got.rewrites # "none",
           NEW url \in Urls, Rewritten(l, url) # <<>>
    PROVE  Written(l, Rewritten(l, url))
  <1>1. CASE got.rewrites = "npm"
    <2>1. Rewritten(l, url) = RewriteNpmTarball(l)
      BY <1>1 DEF Rewritten
    <2> QED
      BY <2>1 DEF RewriteNpmTarball, Written
  <1>2. CASE got.rewrites = "pypi"
    <2>1. Rewritten(l, url) = RewriteFileLinks(l)
      BY <1>2 DEF Rewritten
    <2>2. l.host = "" => HostEnds(l)
      BY PathsAssumption DEF HostEnds
    <2> QED
      BY <2>1, <2>2 DEF RewriteFileLinks, Written
  <1>3. CASE got.rewrites = "composer"
    <2>1. Rewritten(l, url) = RewriteComposerUrl(l)
      BY <1>3 DEF Rewritten
    <2> QED
      BY <2>1 DEF RewriteComposerUrl, Written
  <1>4. CASE got.rewrites = "nuget"
    <2>1. Rewritten(l, url) = RewriteResourceUrl(l)
      BY <1>4 DEF Rewritten
    <2>2. /\ l.scheme = "https" /\ l.host \in NugetHosts \cup {SelectUpstream(config.up["nuget"]).host}
          /\ Rewritten(l, url) = <<"/", "nuget", "/", "upstream", "/", l.host>> \o l.path
      BY <2>1 DEF RewriteResourceUrl
    <2>3. PICK g \in Group : g = config.up["nuget"]
      BY KeysListed, ConfigFacts
    <2>4. /\ SelectUpstream(g).host \notin {"/", ".", "..", "\\"}
          /\ DecodedToken(SelectUpstream(g).host) = SelectUpstream(g).host
      BY GroupFacts, EndpointFacts
    <2>5. \A h \in NugetHosts : h \notin {"/", ".", "..", "\\"} /\ DecodedToken(h) = h
      BY DEF NugetHosts, DecodedToken
    <2>6. l.host \notin {"/", ".", "..", "\\"} /\ DecodedToken(l.host) = l.host
      BY <2>2, <2>3, <2>4, <2>5
    <2> QED
      BY <2>2, <2>6 DEF Written
  <1>5. CASE got.rewrites = "pub"
    <2>1. Rewritten(l, url) = RewriteArchiveUrl(l)
      BY <1>5 DEF Rewritten
    <2> QED
      BY <2>1 DEF RewriteArchiveUrl, Written
  <1>6. CASE got.rewrites = "huggingface"
    <2>1. Rewritten(l, url) = RewritePagination(l, url)
      BY <1>6 DEF Rewritten
    <2> QED
      BY <2>1, HubWritten
  <1>7. CASE got.rewrites = "crates"
    <2>1. Rewritten(l, url) = DownloadUrl(l)
      BY <1>7 DEF Rewritten
    <2>2. IsCratesDownload(l.path) => HostEnds(l)
      BY LinkFacts, CratesParts DEF HostEnds
    <2> QED
      BY <2>1, <2>2 DEF DownloadUrl, Written
  <1> QED
    BY <1>1, <1>2, <1>3, <1>4, <1>5, <1>6, <1>7 DEF Kinds

-----------------------------------------------------------------------------
(* The inductive invariant.  The answer stays what the adapter made of it  *)
(* (Shaped); while the client is not sent anywhere, the configuration is   *)
(* the one the answer was made with (Kept); where it is sent is one of the *)
(* forms that adapters write (Written), and after that the answer is the   *)
(* resource of the link (Led), or none for a longer host.                  *)

Shaped(g) ==
    /\ g = [result |-> g.result, adapter |-> g.adapter, url |-> g.url, rewrites |-> g.rewrites,
            candidates |-> g.candidates]
    /\ g.url \in Urls /\ g.rewrites \in Kinds /\ g.candidates \in Seq(Urls)
    /\ g.result = "fetch" => Whole(g.url)
    /\ g.result = "below" => g.adapter \in Repositories

Kept(p, g) ==
    /\ g.result = "fetch" => ~Arbitrary(g.adapter, Loose(g.adapter, p), g.url)
    /\ g.candidates # <<>> => Agreeing(g.url, g.candidates)

Strict(p, g) == g.result = "below" => (Encoded(g.url.path) => Loose(g.adapter, p))

Led(l, g, s) ==
    /\ g.result # "below"
    /\ g.result = "fetch" => ResourceFor(g.adapter, l, g.url)
    /\ fresh /\ ~DeadAt(s, l) => g.result \in {"fetch", "Disabled"}

PackageInv ==
    /\ setting \in DOMAIN Settings
    /\ Shaped(got)
    /\ AccountedFor(asked, got.adapter) /\ Strict(asked, got)
    /\ shown = <<>> => Kept(asked, got)
    /\ reason = "link" => /\ shown = <<>> /\ link \in Links
                          /\ Plausible(link) => Led(link, got, asked)
                          /\ Longer(link) => got.result \notin {"fetch", "below"}
    /\ shown # <<>> => link \in Links /\ Written(link, shown)

LEMMA SameKept ==
    ASSUME setting' = setting, NEW g, got' = g, NEW p, asked' = p, Kept(p, g)
    PROVE  Kept(asked, got)'
  <1>1. config' = config
    BY DEF config
  <1>2. Configured' = Configured
    BY <1>1 DEF Configured
  <1>3. g.result = "fetch" => ~Arbitrary(got.adapter, Loose(got.adapter, asked), got.url)'
    BY <1>1 DEF Kept, Arbitrary, EndpointsOf, Loose
  <1>4. g.candidates # <<>> => Agreeing(got.url, got.candidates)'
    BY <1>2 DEF Kept, Agreeing
  <1> QED
    BY <1>3, <1>4 DEF Kept, Loose

LEMMA SameLed ==
    ASSUME setting' = setting, fresh' = fresh, NEW g, got' = g, NEW l, link' = l, NEW s, asked' = s,
           Led(l, g, s)
    PROVE  Led(link, got, asked)'
  <1>1. config' = config
    BY DEF config
  <1>2. g.result = "fetch" => ResourceFor(got.adapter, link, got.url)'
    BY <1>1 DEF Led, ResourceFor
  <1>3. fresh' /\ ~DeadAt(asked, link)' => g.result \in {"fetch", "Disabled"}
    BY DEF Led, DeadAt
  <1> QED
    BY <1>2, <1>3 DEF Led

LEMMA SameWritten ==
    ASSUME setting' = setting \/ fresh' = FALSE, fresh' => fresh, NEW l, link' = l, NEW s, shown' = s,
           Written(l, s)
    PROVE  Written(link, shown)'
  <1>1. fresh' => fresh /\ config' = config
    BY DEF config
  <1> QED
    BY <1>1 DEF Written

LEMMA RepliedKept ==
    ASSUME NEW p, NEW g, Replied(p, g)
    PROVE  Shaped(g) /\ Kept(p, g) /\ AccountedFor(p, g.adapter) /\ Strict(p, g)
  <1>1. Sound(g.adapter, Loose(g.adapter, p), g) /\ AccountedFor(p, g.adapter)
    BY RepliedFacts
  <1>2. g.candidates = <<>> \/ g.candidates = <<g.url>>
    BY <1>1 DEF Sound
  <1>3. g.url \in Urls
    BY <1>1 DEF Sound
  <1>4. g.candidates \in Seq(Urls) /\ (g.candidates # <<>> => Agreeing(g.url, g.candidates))
    <2>1. CASE g.candidates = <<>>
      <3>1. <<>> \in Seq(Urls)
        OBVIOUS
      <3> QED
        BY <2>1, <3>1
    <2>2. CASE g.candidates = <<g.url>>
      <3>1. PICK u \in Urls : u = g.url
        BY <1>3
      <3>2. Agreeing(u, <<u>>) /\ <<u>> \in Seq(Urls)
        BY OneCandidate
      <3> QED
        BY <2>2, <3>1, <3>2
    <2> QED
      BY <1>2, <2>1, <2>2
  <1> QED
    BY <1>1, <1>4 DEF Sound, Shaped, Kept, Strict

LEMMA PathStart ==
    ASSUME NEW p \in Paths
    PROVE  Start(p)
  <1>1. p \in Seq(STRING) /\ Len(p) >= 2 /\ p[1] = "/"
    BY PathsAssumption
  <1> QED
    BY <1>1, StringPaths DEF Start

\* Each action preserves the invariant.
LEMMA PackageInitInv == PackageInit => PackageInv
  <1> SUFFICES ASSUME PackageInit PROVE PackageInv
    OBVIOUS
  <1>1. got = Unasked /\ shown = <<>> /\ reason = "none" /\ setting \in DOMAIN Settings
    BY DEF PackageInit
  <1>2. /\ Unasked.result = "none" /\ Unasked.adapter = "none" /\ Unasked.url = NoUrl
        /\ Unasked.rewrites = "none" /\ Unasked.candidates = <<>>
        /\ Unasked = [result |-> Unasked.result, adapter |-> Unasked.adapter, url |-> Unasked.url,
                      rewrites |-> Unasked.rewrites, candidates |-> Unasked.candidates]
    BY DEF Unasked
  <1>3. Shaped(Unasked)
    <2>1. "none" \in Kinds /\ NoUrl \in Urls /\ <<>> \in Seq(Urls)
      BY NoUrlFacts DEF Kinds
    <2> QED
      BY <1>2, <2>1 DEF Shaped
  <1>4. Kept(asked, Unasked) /\ AccountedFor(asked, Unasked.adapter) /\ Strict(asked, Unasked)
    BY <1>2 DEF Kept, AccountedFor, Strict
  <1> QED
    BY <1>1, <1>3, <1>4 DEF PackageInv

LEMMA AskInv ==
    ASSUME PackageInv, NEW p \in Paths, NEW method, Ask(p, method)
    PROVE  PackageInv'
  <1>1. /\ setting' = setting /\ setting \in DOMAIN Settings /\ shown' = shown /\ fresh' = fresh
        /\ link' = link /\ asked' = p /\ reason' = "ask"
    BY DEF Ask, PackageInv
  <1>2. PICK g : g = Route(p, method) /\ got' = g
    BY DEF Ask
  <1>3. Start(p)
    BY PathStart
  <1>4. Replied(p, g)
    BY <1>1, <1>2, <1>3, RouteSound DEF Start
  <1>5. Shaped(g) /\ Kept(p, g) /\ AccountedFor(p, g.adapter) /\ Strict(p, g)
    BY <1>4, RepliedKept
  <1>6. Kept(asked, got)'
    BY <1>1, <1>2, <1>5, SameKept
  <1>7. Shaped(got)' /\ AccountedFor(asked, got.adapter)' /\ Strict(asked, got)'
    BY <1>1, <1>2, <1>5 DEF Shaped, AccountedFor, Strict, Loose
  <1>8. (shown # <<>>)' => (link \in Links)' /\ Written(link, shown)'
    <2> SUFFICES ASSUME shown # <<>> PROVE link \in Links /\ Written(link, shown)'
      BY <1>1
    <2>1. link \in Links /\ Written(link, shown)
      BY DEF PackageInv
    <2>2. PICK l, s : l = link /\ s = shown
      OBVIOUS
    <2> QED
      BY <1>1, <2>1, <2>2, SameWritten
  <1> QED
    BY <1>1, <1>6, <1>7, <1>8 DEF PackageInv

LEMMA FollowInv ==
    ASSUME PackageInv, Follow
    PROVE  PackageInv'
  <1>1. /\ setting' = setting /\ setting \in DOMAIN Settings /\ shown' = <<>> /\ fresh' = fresh
        /\ link' = link /\ asked' = shown /\ reason' = "link" /\ shown # <<>>
    BY DEF Follow, PackageInv
  <1>2. PICK g : g = Route(shown, "GET") /\ got' = g
    BY DEF Follow
  <1>3. PICK s, l : s = shown /\ l = link
    OBVIOUS
  <1>4. l \in Links /\ Written(l, s)
    BY <1>1, <1>3 DEF PackageInv
  <1>5. Start(s)
    BY <1>4, WrittenStart
  <1>6. Replied(s, g)
    BY <1>1, <1>2, <1>3, <1>5, RouteSound DEF Start
  <1>7. Shaped(g) /\ Kept(s, g) /\ AccountedFor(s, g.adapter) /\ Strict(s, g)
    BY <1>6, RepliedKept
  <1>8. Kept(asked, got)'
    BY <1>1, <1>2, <1>3, <1>7, SameKept
  <1>9. Shaped(got)' /\ AccountedFor(asked, got.adapter)' /\ Strict(asked, got)'
    BY <1>1, <1>2, <1>3, <1>7 DEF Shaped, AccountedFor, Strict, Loose
  <1>10. Plausible(link)' => Led(link, got, asked)'
    <2> SUFFICES ASSUME Plausible(l) PROVE Led(link, got, asked)'
      BY <1>1, <1>3 DEF Plausible
    <2>1. Followed(l, s)
      BY <1>1, <1>4, WrittenFollowed
    <2>2. Led(l, g, s)
      BY <1>2, <1>3, <2>1 DEF Followed, Led
    <2> QED
      BY <1>1, <1>2, <1>3, <2>2, SameLed
  <1>11. Longer(link)' => (got.result \notin {"fetch", "below"})'
    <2> SUFFICES ASSUME Longer(l) PROVE g.result \notin {"fetch", "below"}
      BY <1>1, <1>2, <1>3 DEF Longer
    <2>1. Route(s, "GET").result \notin {"fetch", "below"}
      BY <1>4, LongerRefused
    <2> QED
      BY <1>2, <1>3, <2>1
  <1> QED
    BY <1>1, <1>3, <1>4, <1>8, <1>9, <1>10, <1>11 DEF PackageInv

LEMMA DocumentInv ==
    ASSUME PackageInv, NEW l \in Links, Document(l)
    PROVE  PackageInv'
  <1>1. /\ setting' = setting /\ setting \in DOMAIN Settings /\ fresh' = fresh
        /\ link' = l /\ asked' = asked /\ reason' = "none" /\ got' = got /\ got.rewrites # "none"
    BY DEF Document, PackageInv
  <1>2. PICK url \in ToSet(got.candidates) \cup {NoUrl} :
           Rewritten(l, url) # <<>> /\ shown' = Rewritten(l, url)
    BY DEF Document
  <1>3. got.candidates \in Seq(Urls) /\ got.rewrites \in Kinds
    BY DEF PackageInv, Shaped
  <1>4. url \in Urls
    <2>1. CASE url = NoUrl
      BY <2>1, NoUrlFacts
    <2>2. CASE url \in ToSet(got.candidates)
      <3>1. PICK c \in Seq(Urls) : c = got.candidates
        BY <1>3
      <3>2. PICK i \in DOMAIN c : url = c[i]
        BY <2>2, <3>1 DEF ToSet
      <3> QED
        BY <3>2
    <2> QED
      BY <1>2, <2>1, <2>2
  <1>5. PICK s : s = Rewritten(l, url) /\ shown' = s /\ s # <<>>
    BY <1>2
  <1>6. Written(l, s)
    BY <1>1, <1>3, <1>4, <1>5, RewrittenForm
  <1>7. Written(link, shown)'
    BY <1>1, <1>5, <1>6, SameWritten
  <1>8. Shaped(got)' /\ AccountedFor(asked, got.adapter)' /\ Strict(asked, got)'
    BY <1>1 DEF PackageInv, Shaped, AccountedFor, Strict, Loose
  <1> QED
    BY <1>1, <1>5, <1>7, <1>8 DEF PackageInv

LEMMA ReconfigureInv ==
    ASSUME PackageInv, NEW s \in DOMAIN Settings, Reconfigure(s)
    PROVE  PackageInv'
  <1>1. /\ setting' = s /\ fresh' = FALSE /\ link' = link /\ asked' = asked /\ reason' = reason
        /\ got' = got /\ shown # <<>> /\ shown' = shown
    BY DEF Reconfigure
  <1>2. link \in Links /\ Written(link, shown) /\ reason # "link"
    BY <1>1 DEF PackageInv
  <1>3. PICK l, w : l = link /\ w = shown
    OBVIOUS
  <1>4. Written(link, shown)'
    BY <1>1, <1>2, <1>3, SameWritten
  <1>5. Shaped(got)' /\ AccountedFor(asked, got.adapter)' /\ Strict(asked, got)'
    BY <1>1 DEF PackageInv, Shaped, AccountedFor, Strict, Loose
  <1> QED
    BY <1>1, <1>2, <1>4, <1>5 DEF PackageInv

LEMMA ForwardInv ==
    ASSUME PackageInv, Forward
    PROVE  PackageInv'
  <1>1. /\ setting' = setting /\ setting \in DOMAIN Settings /\ shown' = shown /\ fresh' = fresh
        /\ link' = link /\ asked' = asked /\ reason' = reason
    BY DEF Forward, PackageInv
  <1>2. PICK g : got' = g
    OBVIOUS
  <1>3. PICK o, l, s : o = got /\ l = link /\ s = asked
    OBVIOUS
  <1>4. Shaped(o) /\ AccountedFor(s, o.adapter) /\ Strict(s, o)
    BY <1>3 DEF PackageInv
  <1>5. /\ Shaped(g) /\ g.adapter = o.adapter /\ (shown = <<>> => Kept(s, g)) /\ Strict(s, g)
        /\ reason = "link" /\ Plausible(l) => Led(l, g, s)
        /\ ~(reason = "link" /\ Longer(l))
    <2>1. CASE o.result = "below" /\ g = BelowUpstream(o.adapter, o.url.path)
      <3>1. o.adapter \in Repositories /\ o.url.path \in Path
        BY <1>4, <2>1 DEF Shaped, Urls
      <3>0. PICK loose \in BOOLEAN : loose = Loose(o.adapter, s) /\ (Encoded(o.url.path) => loose)
        BY <1>4, <2>1, LooseFacts DEF Strict
      <3>2. Sound(o.adapter, Loose(o.adapter, s), g)
        BY <1>1, <2>1, <3>0, <3>1, BelowUpstreamSound
      <3>3. g.adapter = o.adapter
        BY <3>2 DEF Sound
      <3>4. Replied(s, g)
        BY <1>4, <3>2 DEF Replied
      <3>5. ~(reason = "link" /\ Plausible(l)) /\ ~(reason = "link" /\ Longer(l))
        BY <1>3, <2>1 DEF PackageInv, Led
      <3> QED
        BY <3>3, <3>4, <3>5, RepliedKept
    <2>2. CASE o.result = "fetch" /\ g = [o EXCEPT !.candidates = CandidatesFor(o.url)]
      <3>1. Whole(o.url)
        BY <1>4, <2>2 DEF Shaped
      <3>2. PICK c : c = CandidatesFor(o.url)
        OBVIOUS
      <3>3. c \in Seq(Urls) /\ Agreeing(o.url, c)
        BY <1>1, <3>1, <3>2, CandidatesFacts
      <3>4. /\ g = [result |-> o.result, adapter |-> o.adapter, url |-> o.url, rewrites |-> o.rewrites,
                    candidates |-> c]
            /\ g.result = o.result /\ g.adapter = o.adapter /\ g.url = o.url
            /\ g.rewrites = o.rewrites /\ g.candidates = c
        BY <1>4, <2>2, <3>2 DEF Shaped
      <3>5. Shaped(g)
        BY <1>4, <3>3, <3>4 DEF Shaped
      <3>6. shown = <<>> => Kept(s, g)
        <4>1. shown = <<>> => ~Arbitrary(o.adapter, Loose(o.adapter, s), o.url)
          BY <1>3, <2>2 DEF PackageInv, Kept
        <4> QED
          BY <3>3, <3>4, <4>1 DEF Kept
      <3>7. reason = "link" /\ Plausible(l) => Led(l, g, s)
        <4>1. reason = "link" /\ Plausible(l) => Led(l, o, s)
          BY <1>3 DEF PackageInv
        <4> QED
          BY <3>4, <4>1 DEF Led
      <3>8. ~(reason = "link" /\ Longer(l))
        BY <1>3, <2>2 DEF PackageInv
      <3>9. Strict(s, g)
        BY <2>2, <3>4 DEF Strict
      <3> QED
        BY <3>4, <3>5, <3>6, <3>7, <3>8, <3>9
    <2> QED
      BY <1>2, <1>3, <2>1, <2>2 DEF Forward
  <1>6. Shaped(got)' /\ AccountedFor(asked, got.adapter)' /\ Strict(asked, got)'
    BY <1>1, <1>2, <1>3, <1>4, <1>5 DEF Shaped, AccountedFor, Strict, Loose
  <1>7. (shown = <<>>)' => Kept(asked, got)'
    BY <1>1, <1>2, <1>3, <1>5, SameKept
  <1>8. reason = "link" /\ Plausible(l) => Led(link, got, asked)'
    BY <1>1, <1>2, <1>3, <1>5, SameLed
  <1>9. reason = "link" => shown = <<>> /\ link \in Links
    BY DEF PackageInv
  <1>10. (Plausible(link)' => Plausible(l)) /\ (Longer(link)' => Longer(l))
    BY <1>1, <1>3 DEF Plausible, Longer
  <1>11. shown # <<>> => link \in Links /\ Written(link, shown)'
    <2> SUFFICES ASSUME shown # <<>> PROVE link \in Links /\ Written(link, shown)'
      OBVIOUS
    <2>1. link \in Links /\ Written(link, shown)
      BY DEF PackageInv
    <2>2. PICK w : w = shown
      OBVIOUS
    <2> QED
      BY <1>1, <1>3, <2>1, <2>2, SameWritten
  <1> QED
    BY <1>1, <1>5, <1>6, <1>7, <1>8, <1>9, <1>10, <1>11 DEF PackageInv

LEMMA PackageUnchanged ==
    ASSUME PackageInv, UNCHANGED pvars
    PROVE  PackageInv'
  <1>1. /\ setting' = setting /\ asked' = asked /\ got' = got /\ link' = link /\ shown' = shown
        /\ reason' = reason /\ fresh' = fresh
    BY DEF pvars
  <1>2. PICK g, l, s, w : g = got /\ l = link /\ s = asked /\ w = shown
    OBVIOUS
  <1>3. Shaped(got)' /\ AccountedFor(asked, got.adapter)' /\ Strict(asked, got)'
    BY <1>1 DEF PackageInv, Shaped, AccountedFor, Strict, Loose
  <1>4. shown = <<>> => Kept(asked, got)'
    BY <1>1, <1>2, SameKept DEF PackageInv
  <1>5. reason = "link" /\ Plausible(l) => Led(link, got, asked)'
    <2>1. reason = "link" /\ Plausible(l) => Led(l, g, s)
      BY <1>2 DEF PackageInv
    <2> QED
      BY <1>1, <1>2, <2>1, SameLed
  <1>6. (Plausible(link)' => Plausible(l)) /\ (Longer(link)' => Longer(l))
    BY <1>1, <1>2 DEF Plausible, Longer
  <1>9. reason = "link" /\ Longer(l) => got.result \notin {"fetch", "below"}
    BY <1>2 DEF PackageInv
  <1>7. shown # <<>> => Written(link, shown)'
    <2>1. shown # <<>> => Written(l, w)
      BY <1>2 DEF PackageInv
    <2> QED
      BY <1>1, <1>2, <2>1, SameWritten
  <1>8. /\ setting \in DOMAIN Settings /\ (reason = "link" => shown = <<>> /\ link \in Links)
        /\ shown # <<>> => link \in Links
    BY DEF PackageInv
  <1> QED
    BY <1>1, <1>3, <1>4, <1>5, <1>6, <1>7, <1>8, <1>9 DEF PackageInv

LEMMA PackageLeads == PackageInv => RequestsLead
  <1> SUFFICES ASSUME PackageInv PROVE RequestsLead
    OBVIOUS
  <1>1. NeverArbitrary
    BY DEF PackageInv, Kept, NeverArbitrary, Fetched
  <1>2. LinksLead
    <2>1. reason = "link" /\ Plausible(link) => Led(link, got, asked)
      BY DEF PackageInv
    <2>2. ResourceFor(got.adapter, link, got.url) => Resource(link, got.url)
      BY DEF ResourceFor, Resource
    <2>3. DeadAt(asked, link) => Dead(link)
      BY DEF DeadAt, Dead
    <2>4. reason = "link" /\ Longer(link) => got.result # "fetch"
      BY DEF PackageInv
    <2> QED
      BY <2>1, <2>2, <2>3, <2>4 DEF LinksLead, Led, Fetched
  <1>3. CandidatesAgree
    BY DEF PackageInv, Kept, CandidatesAgree, Fetched, Agreeing
  <1>4. Accounted
    BY DEF PackageInv, AccountedFor, Accounted
  <1> QED
    BY <1>1, <1>2, <1>3, <1>4 DEF RequestsLead

\* Through every request, forwarding, document, followed link and change of the
\* configuration, answers keep the shape and the configuration they were made
\* with, and where clients are sent is a path that leads to the link's resource
\* (proxy/*.rs, main.rs, config.rs).
THEOREM PackageInvariance == PackageSpec => []PackageInv
  <1>1. PackageInv /\ [PackageNext]_pvars => PackageInv'
    <2> SUFFICES ASSUME PackageInv, [PackageNext]_pvars PROVE PackageInv'
      OBVIOUS
    <2>1. ASSUME NEW p \in Paths, NEW method \in {"GET", "POST"}, Ask(p, method) PROVE PackageInv'
      BY <2>1, AskInv
    <2>2. CASE Forward
      BY <2>2, ForwardInv
    <2>3. ASSUME NEW l \in Links, Document(l) PROVE PackageInv'
      BY <2>3, DocumentInv
    <2>4. CASE Follow
      BY <2>4, FollowInv
    <2>5. ASSUME NEW s \in DOMAIN Settings, Reconfigure(s) PROVE PackageInv'
      BY <2>5, ReconfigureInv
    <2>6. CASE UNCHANGED pvars
      BY <2>6, PackageUnchanged
    <2> QED
      BY <2>1, <2>2, <2>3, <2>4, <2>5, <2>6 DEF PackageNext
  <1> QED
    BY <1>1, PackageInitInv, PTL DEF PackageSpec

\* For every set of paths, links and configurations: a path never becomes an
\* arbitrary URL, and leaves the base path of the upstream only with dots that
\* were encoded twice; a rewritten link leads to the resource it named, and to
\* none when it was for a host whose name begins with a known one; the
\* candidates of a request agree, and what an adapter answers is accounted
\* under its name (proxy/*.rs, main.rs, config.rs).
THEOREM RequestsAlwaysLead == PackageSpec => []RequestsLead
  BY PackageInvariance, PackageLeads, PTL
=============================================================================
