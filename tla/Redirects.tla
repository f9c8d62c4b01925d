------------------------------- MODULE Redirects -------------------------------
(***************************************************************************)
(* The requests that one proxied request makes of an upstream: redirects   *)
(* are followed by the server itself (proxy/mod.rs, proxy/huggingface.rs), *)
(* and registries may ask for a bearer token first (proxy/oci.rs).         *)
(*                                                                         *)
(* A site is an origin: its scheme, its host, whether the host is an       *)
(* address, and the answers that name resolution may give for it, which    *)
(* may differ from one lookup to the next.  Paths do not matter here.      *)
(***************************************************************************)
EXTENDS Naturals, Sequences

CONSTANTS Sites,         \* [scheme, host, ip, lookups]; a lookup is a set of addresses
          Public,        \* the addresses that is_public_address accepts
          EndpointLists, \* sequences of sites: the candidates for a request
          Authorized,    \* sites that upstream_auth has credentials for
          Issuers,       \* sites of oci_token_issuers
          DownloadHosts, \* the sites that downloads of the Hub may come from
          RedirectLimit  \* 10 in the code

ASSUME RedirectsAssumption ==
    /\ EndpointLists \subseteq Seq(Sites) \ {<<>>}
    /\ \A site \in Sites : site.ip => \E address \in UNION site.lookups : site.lookups = {{address}}
    /\ RedirectLimit \in Nat

VARIABLES outbound,  \* is an outbound proxy configured
          login,     \* does the client send credentials that may be forwarded
          service,   \* "generic", "hub" (Hugging Face) or "oci"
          endpoints, \* candidates: the one in use, and those after it
          trail,     \* the requests to it, in order
          token,     \* {} or the bearer token of these requests: the realm it is
                     \* from, the site that asked for it, what the name led to
          metadata,  \* the sites whose headers of a file the Hub's answer repeats
          outcome    \* "idle", "waiting", "answered" or an error

rvars == <<outbound, login, service, endpoints, trail, token, metadata, outcome>>

(* The request that was answered last. *)
Latest == trail[Len(trail)]

(* upstream_auth first, then what the client sends. *)
UpstreamAuthFor(site) == site \in Authorized

Credentials(site) ==
    IF UpstreamAuthFor(site) THEN {"configured"} ELSE IF login THEN {"client"} ELSE {}

Step(site, address, verb, credentials) ==
    [site |-> site, address |-> address, verb |-> verb, credentials |-> credentials]

(* Every address is public; a lookup may also find nothing. *)
PublicDestination(addresses) == addresses # {} /\ addresses \subseteq Public

RedirectsInit ==
    /\ outbound \in BOOLEAN /\ login \in BOOLEAN
    /\ service = "generic" /\ endpoints = <<>> /\ trail = <<>>
    /\ token = {} /\ metadata = {} /\ outcome = "idle"

(* The first request to an endpoint goes wherever the operator's name      *)
(* leads.  The Hub is asked without credentials.                           *)
FirstTo(site, verb, kind, with) ==
    \E address \in UNION site.lookups :
        trail' = <<Step(site, address, verb,
                        IF kind = "hub" THEN {} ELSE Credentials(site) \cup with)>>

(* Only the generic adapters send on anything but GET and HEAD; their      *)
(* choice among endpoints is that of the upstream selector.                *)
Depart(kind, verb, list) ==
    /\ outcome = "idle"
    /\ kind # "generic" => verb # "POST"
    /\ kind = "generic" => Len(list) = 1
    /\ service' = kind /\ endpoints' = list /\ outcome' = "waiting"
    /\ FirstTo(list[1], verb, kind, {})
    /\ UNCHANGED <<outbound, login, token, metadata>>

-----------------------------------------------------------------------------
(* The end of the work with one endpoint *)

(* The next candidate is asked as if it were the first. *)
NextEndpoint ==
    /\ Len(endpoints) > 1
    /\ endpoints' = Tail(endpoints) /\ token' = {} /\ metadata' = {}
    /\ FirstTo(endpoints[2], trail[1].verb, service, {})
    /\ UNCHANGED <<outbound, login, service, outcome>>

End(result) ==
    /\ outcome' = result
    /\ UNCHANGED <<outbound, login, service, endpoints, trail, token, metadata>>

(* An error ends a request; the Hub's adapter goes on to the next endpoint. *)
Broken(error) ==
    IF service = "hub" /\ Len(endpoints) > 1 THEN NextEndpoint ELSE End(error)

(* Registries are given up for anything but 200, the Hub for statuses that *)
(* suggest a failure of the endpoint.  The headers of a file that come     *)
(* with the last response itself are not recorded: the answer has them.    *)
Answered(status) ==
    /\ outcome = "waiting"
    /\ IF /\ Len(endpoints) > 1
          /\ \/ service = "oci" /\ status # "ok"
             \/ service = "hub" /\ status = "unavailable"
       THEN NextEndpoint ELSE End("answered")

(* The connection fails. *)
Cut == outcome = "waiting" /\ Broken("failed")

-----------------------------------------------------------------------------
(* send_upstream_request *)

Downgrade(target) == Latest.site.scheme = "https" /\ target.scheme # "https"

(* A configured address redirects to itself. *)
ExplicitIpOrigin(target) ==
    target = Latest.site /\ target = trail[1].site /\ target.ip

(* The body of a request is a stream, so it cannot be sent again: when the *)
(* method has to stay, the client is given the redirect.                   *)
SendUpstreamRequest(target, method_stays) ==
    /\ outcome = "waiting" /\ service # "hub"
    /\ \E addresses \in target.lookups :
          IF \/ Len(trail) > RedirectLimit \/ Downgrade(target)
             \/ ~ExplicitIpOrigin(target) /\ (outbound \/ ~PublicDestination(addresses))
          THEN End("refused")
          ELSE IF Latest.verb = "POST" /\ method_stays THEN End("answered")
          ELSE \E address \in addresses :
                  /\ trail' = Append(trail,
                        Step(target, address,
                             IF Latest.verb = "POST" THEN "GET" ELSE Latest.verb,
                             IF target = Latest.site THEN Latest.credentials ELSE {}))
                  /\ UNCHANGED <<outbound, login, service, endpoints, token, metadata, outcome>>

-----------------------------------------------------------------------------
(* Registries: one challenge for each endpoint *)

\* Mutant: any https realm will do.
AnyRealm(realm) == realm.scheme = "https"

ValidateBearerRealm(realm) ==
    realm.scheme = "https" /\ (realm = Latest.site \/ realm \in Issuers)

(* The token is asked for without credentials and without redirects; then  *)
(* the endpoint is asked again from the start.                             *)
SendWithPublicAuth(realm) ==
    /\ outcome = "waiting" /\ service = "oci" /\ token = {}
    /\ \E addresses \in realm.lookups :
          IF ValidateBearerRealm(realm) /\ PublicDestination(addresses)
          THEN /\ token' = {[realm |-> realm, asker |-> Latest.site, lookup |-> addresses]}
               /\ FirstTo(trail[1].site, trail[1].verb, "oci", {"token"})
               /\ UNCHANGED <<outbound, login, service, endpoints, metadata, outcome>>
          ELSE End("refused")

-----------------------------------------------------------------------------
(* Hugging Face *)

AllowedRedirect(target) ==
    ~Downgrade(target) /\ (target = trail[1].site \/ target \in DownloadHosts)

(* Headers of the file, when this response has them all, count only from   *)
(* the endpoint itself.  With them, HEAD is answered instead of followed.  *)
HubRedirect(target, complete) ==
    /\ outcome = "waiting" /\ service = "hub"
    /\ LET known == IF complete /\ Latest.site = trail[1].site
                    THEN metadata \cup {Latest.site} ELSE metadata
           explicit == target = trail[1].site /\ target.ip
       IN  \E addresses \in target.lookups :
              IF \/ Len(trail) > RedirectLimit \/ ~AllowedRedirect(target)
                 \/ ~explicit /\ (outbound \/ ~PublicDestination(addresses))
              THEN Broken("refused")
              ELSE IF trail[1].verb = "HEAD" /\ target # trail[1].site /\ known # {}
              THEN /\ metadata' = known /\ outcome' = "answered"
                   /\ UNCHANGED <<outbound, login, service, endpoints, trail, token>>
              ELSE \E address \in addresses :
                      /\ trail' = Append(trail, Step(target, address, trail[1].verb, {}))
                      /\ metadata' = known
                      /\ UNCHANGED <<outbound, login, service, endpoints, token, outcome>>

RedirectsNext ==
    \/ \E kind \in {"generic", "hub", "oci"}, verb \in {"GET", "HEAD", "POST"},
          list \in EndpointLists : Depart(kind, verb, list)
    \/ \E status \in {"ok", "error", "unavailable"} : Answered(status)
    \/ Cut
    \/ \E target \in Sites, stays \in BOOLEAN : SendUpstreamRequest(target, stays)
    \/ \E realm \in Sites : SendWithPublicAuth(realm)
    \/ \E target \in Sites, complete \in BOOLEAN : HubRedirect(target, complete)

-----------------------------------------------------------------------------
(* Properties *)

(* What holds of request i of the trail that begins at the endpoint. *)
StepKept(i) ==
    LET start == endpoints[1]
        here  == trail[i]
        stayed == \A j \in 1..i : trail[j].site = start
    IN  /\ here.credentials # {} => stayed
        /\ "configured" \in here.credentials => start \in Authorized
        /\ here.verb = "POST" => i = 1
        /\ i > 1 => /\ trail[i - 1].site.scheme = "https" => here.site.scheme = "https"
                    /\ here.address \notin Public =>
                          start.ip /\ here.site = start /\ (service # "hub" => stayed)
                    /\ outbound => start.ip /\ stayed
                    /\ service = "hub" => here.site \in DownloadHosts \cup {start}

(* What holds of a token for the endpoint in use. *)
TokenKept(t) ==
    /\ t.realm.scheme = "https" /\ t.realm \in Issuers \cup {t.asker}
    /\ t.lookup \subseteq Public
    /\ outbound => t.asker = endpoints[1]

(* Redirects never take a request out of the operator's hands              *)
(* (proxy/mod.rs send_upstream_request, proxy/huggingface.rs forward,      *)
(* proxy/oci.rs): credentials are sent to the endpoint only and never come *)
(* back once it has been left; https is not left for http; after the first *)
(* request an address that is not public is asked only if it is itself the *)
(* configured endpoint; behind an outbound proxy redirects stay with that; *)
(* a body is sent once; their number is bounded; the Hub's files come from *)
(* its hosts, and what is said about a file from the endpoint in use; a    *)
(* token is from the site that asked for it or a configured issuer, over   *)
(* https and at public addresses, and behind an outbound proxy only the    *)
(* endpoint itself may ask.                                                *)
RedirectsKept ==
    /\ \A i \in DOMAIN trail : StepKept(i)
    /\ Len(trail) <= RedirectLimit + 1
    /\ metadata # {} => metadata = {endpoints[1]}
    /\ service = "hub" => \A i \in DOMAIN trail : trail[i].credentials = {}
    /\ \A i \in DOMAIN trail : "token" \in trail[i].credentials <=>
           (token # {} /\ \A j \in 1..i : trail[j].site = endpoints[1])
    /\ \A t \in token : TokenKept(t)
=============================================================================
