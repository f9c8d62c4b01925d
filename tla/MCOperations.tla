----------------------------- MODULE MCOperations -----------------------------
(* Parts of the program that share no state with each other: mails and     *)
(* alerts of the server, the IP access policy, the search for a location,  *)
(* the files of the database, the gate that requests pass, the requests of *)
(* package managers and the redirects they meet, and the files that the    *)
(* client writes.  A behaviour exercises one of them, the part it starts   *)
(* with; the gate in three: one request while administrators make changes, *)
(* and several that reach the limit of requests or that of sign-ins.       *)
EXTENDS Notifications, SourceFiles, IpAccess, GeoLookup, DatabaseFiles, PackageRequests,
        Redirects, RequestGate
LOCAL INSTANCE TLC

VARIABLE part

vars == <<nvars, svars, ivars, gvars, dvars, pvars, rvars, qvars, part>>

alertvars == <<checking, breached, alert, cooling>>

Parts == {"outbox", "alerts", "sources", "agents", "access", "location", "database",
          "packages", "redirects", "gate", "rates", "sign-ins"}

MCFileOf == [t \in {"apt", "dnf"} |-> IF t = "apt" THEN "list" ELSE "repo"]

(* A denied half, a denial switched off, an allowed address, and a rule of *)
(* the other version of the protocol.                                      *)
MCEntries ==
    LET E(a, v, n, p, on) ==
            [action |-> a, ip |-> [v |-> v, n |-> n], prefix |-> p, enabled |-> on]
    IN  {E("deny", 4, 3, 1, TRUE), E("deny", 4, 1, 0, FALSE),
         E("allow", 4, 3, 2, TRUE), E("allow", 6, 1, 1, TRUE)}

(* Package managers: upstreams with the hosts that links name, and one     *)
(* with a base path and a second endpoint for the adapters that rewrite.   *)
(* The repository of a further system has a name that begins with that of  *)
(* another, and is at the same host below a base path.                     *)
Joined(names) == [i \in 1..2 * Len(names) |-> IF i % 2 = 1 THEN "/" ELSE names[i \div 2]]

RootPaths == Plain \cup {"composer", "npm", "crates-index"}

Adapters == {AdapterAt(x) : x \in Plain}
                \cup {"github", "npm", "pypi", "composer", "crates"}

Known == [npm |-> "registry.npmjs.org", pypi_files |-> "files.pythonhosted.org",
          github |-> "github.com", github_raw |-> "raw.githubusercontent.com",
          crates_api |-> "crates.io", nuget |-> "api.nuget.org", homebrew |-> "ghcr"]

Defaults == [k \in {UpstreamGroups[i] : i \in DOMAIN UpstreamGroups} |->
                <<Url("https", IF k \in DOMAIN Known THEN Known[k] ELSE k, <<"/">>)>>]

Mirrors == [k \in {"npm", "pypi_files", "github", "nuget", "crates_api", "huggingface"} |->
                <<Url("https", "mirror", Joined(<<k>>)), Url("https", "other", Joined(<<"x", k>>))>>]

Further == <<[name  |-> <<"debian", "-x">>,
              group |-> <<Url("https", "debian", Joined(<<"b">>)), Url("https", "other", <<"/">>)>>]>>

MCSettings ==
    [plain    |-> [on |-> Adapters, up |-> Defaults, extra |-> Further],
     mirrored |-> [on |-> Adapters \ {"github", "maven"}, up |-> Mirrors @@ Defaults,
                   extra |-> Further]]

MCPaths ==
    {Joined(<<x>>) : x \in RootPaths} \cup {Joined(<<x, "a", "b">>) : x \in RootPaths}
    \cup {Joined(<<x, "..", "b">>) : x \in {"maven", "npm", "v2", "pub"}}
    \cup {Joined(<<"maven", "%2e%2e", "b">>), Joined(<<"pub", "a", "%252e%252e", "b">>),
          Joined(<<"os", "debian">>) \o <<"-x", "/", "%252e%252e", "/", "f">>,
          Joined(<<"pypi", "files", "%252e%252e", "f">>), <<"/", "npm", "/", "@s", "%2f", "n">>,
          Joined(<<"huggingface", "api", "models", "%2e%2e">>),
          Joined(<<"huggingface", "m", "resolve", "%252e%252e", "f">>),
          Joined(<<"huggingface", "m", "resolve", "r", "f">>) \o <<"%2f", "g">>,
          Joined(<<"crates", "api", "v1", "crates", "k">>) \o <<"%2f", "l", "/", "1", "/", "download">>,
          <<"/", "https", "://", "raw.githubusercontent.com", "/", "%2e%2e", "/", "%252e", "/", "f">>}
    \cup {Joined(<<"os", "debian", "b">>) \o <<"-x", "/", "f">>,
          Joined(<<"os", "debian">>) \o <<"-x", "/", "f">>,
          Joined(<<"composer", "p">>) \o <<".json">>, Joined(<<"nuget", "v3", "index.json">>),
          Joined(<<"pypi", "simple">>), Joined(<<"pypi", "simple", "n">>) \o <<"/">>,
          Joined(<<"huggingface", "api", "models", "m">>),
          Joined(<<"huggingface", "m", "resolve", "r", "f">>),
          Joined(<<"v2", "nginx", "manifests", "1">>),
          Joined(<<"v2", "quay.io", "o", "n", "blobs", "1">>),
          Joined(<<"v2", "tags", "tags", "list">>), Joined(<<"v2", "gcr.io", "tags", "list">>),
          <<"/", "v2", "/", "/", "n", "/", "tags", "/", "..", "/", ".", "/", "/", "l", "\\">>,
          Joined(<<"nuget", "upstream", "www.nuget.org">>) \o <<"-x", "/", "f">>,
          Joined(<<"pub", "upstream", "storage.googleapis.com", "f">>),
          Joined(<<"crates", "api", "v1", "crates", "k">>) \o <<"-x", "/", "1", "/", "download">>,
          Joined(<<"crates", "api", "v1", "crates", "k", "..", "download">>),
          Joined(<<"goproxy", "m", "@v", "l">>), Joined(<<"goproxy", "sumdb", "s", "latest">>),
          Joined(<<"npm", "-", "npm", "v1", "security", "audits", "quick">>),
          Joined(<<"crates", "api", "other">>),
          <<"/", "https", "://", "github.com", "/", "o", "/", "git-upload-pack">>,
          <<"/", "https", "://", "raw.githubusercontent.com", "/", "o">>,
          <<"/", "https", "://", "github.com", "/", "o", "/", "..", "/", "..", "/", "f">>,
          <<"/", "https", "://", "elsewhere", "/", "o">>}

MCLinks ==
    {Url(s, h, Joined(<<"a", "b">>)) :
        s \in {"https", "http"},
        h \in {"registry.npmjs.org", "files.pythonhosted.org", "github.com", "codeload.github.com",
               "repo.packagist.org", "www.nuget.org", "api.nuget.org", "mirror",
               "storage.googleapis.com", "elsewhere"}}
    \cup {Url("https", h, p) :
             h \in {"registry.npmjs.org", "files.pythonhosted.org", "github.com", "www.nuget.org",
                    "storage.googleapis.com"},
             p \in {<<>>, <<"/", "/", "a">>, Joined(<<"..", "a">>), Joined(<<"a">>) \o <<"/">>,
                    <<"-x", "/", "a">>, <<"/", "a", "%2f", "b">>, Joined(<<"%252e", "a">>)}}
    \cup {Url("", "", Joined(<<"packages", "f">>)), Url("", "", Joined(<<"f">>)),
          Url("https", "crates.io", Joined(<<"api", "v1", "crates", "k", "1", "download">>)),
          Url("https", "mirror", Joined(<<"huggingface", "api", "models", "m">>)),
          Url("https", "mirror", <<"/", "huggingface", "-x", "/", "api", "/", "models", "/", "m">>),
          Url("https", "mirror", <<"/", "huggingface", "/", "/", "api", "/", "models", "/", "m">>),
          Url("https", "other", Joined(<<"x", "huggingface", "api", "models", "m">>)),
          Url("https", "huggingface", Joined(<<"api", "models", "m">>))}

(* Sites: a registry whose name may resolve to different addresses, a      *)
(* private address and a private name, a public host under both schemes.   *)
Site(s, h, i, l) == [scheme |-> s, host |-> h, ip |-> i, lookups |-> l]
Registry == Site("https", "registry", FALSE, {{"public"}, {"public", "private"}, {}})
Private  == Site("http", "10.0.0.1", TRUE, {{"private"}})
Internal == Site("https", "internal", FALSE, {{"private"}})
Cdn      == Site("https", "cdn", FALSE, {{"public"}})
PlainCdn == Site("http", "cdn", FALSE, {{"public"}})

MCSites      == {Registry, Private, Internal, Cdn, PlainCdn}
MCLists      == {<<Registry>>, <<Private>>, <<Private, Registry>>, <<Internal, Private>>}
MCAuthorized == {Registry}
MCCdn        == {Cdn}

(* Requests at the gate: with and without a proxy, to the base domain, to  *)
(* a user's subdomain, to a reserved one and to neither.                   *)
Call(h, xh, p, peer, via, n) ==
    [host |-> h, xhost |-> xh, path |-> p, peer |-> peer, via |-> via, name |-> n]

Direct  == Call("base", "", "npm", "a", <<>>, "")
SignIns == {Call("base", "", "login", "a", <<>>, "n"), Call("base", "", "login", "p", <<"a">>, "m"),
            Call("alice", "", "token", "a", <<>>, "m")}

MCCalls ==
    SignIns \cup
    {Direct, Call("base", "alice", "npm", "p", <<"b", "a">>, ""),
     Call("alice", "", "os", "a", <<>>, ""), Call("alice", "", "control", "a", <<>>, ""),
     Call("base", "alice", "npm", "a", <<"b">>, ""),
     Call("base", "", "npm", "p", <<"a", "b", "p">>, ""),
     Call("www", "", "npm", "a", <<>>, ""), Call("elsewhere", "", "static", "a", <<>>, "")}

MCUserOf == [l \in {"alice"} |-> "u1"]

Only(S) == \A v \in Visitors : visit'[v].pc # "away" => visit'[v].call \in S

MCInit ==
    /\ part \in Parts
    /\ NotificationsInit
    /\ part \notin {"outbox", "alerts"} => ~smtp
    /\ SourceFilesInit
    /\ part # "sources" => \A f \in SystemFiles : file[f] = Missing
    /\ part # "agents"  => \A f \in AgentFiles : file[f] = Missing
    /\ IpAccessInit /\ DatabaseInit
    /\ PackageInit /\ (part # "packages" => setting = "plain")
    /\ RedirectsInit /\ (part # "redirects" => ~outbound /\ ~login)
    /\ GateInit /\ (part # "gate" => ~required)
    /\ GeoInit
    /\ part # "location" => /\ xdb = <<[lo |-> 0, hi |-> 0]>>
                            /\ block = [first |-> 1, n |-> 0] /\ ip = 0

MCNext ==
    /\ UNCHANGED part
    /\ \/ /\ part = "outbox" /\ NotificationsNext
          /\ alertvars' = alertvars
          /\ UNCHANGED <<svars, ivars, gvars, dvars, pvars, rvars, qvars>>
       \/ /\ part = "alerts" /\ NotificationsNext
          /\ <<batch, sending>>' = <<batch, sending>>
          /\ UNCHANGED <<svars, ivars, gvars, dvars, pvars, rvars, qvars>>
       \/ /\ part = "sources" /\ SourceFilesNext
          /\ command'.kind # "setup" /\ \A f \in AgentFiles : file'[f] = Missing
          /\ UNCHANGED <<nvars, ivars, gvars, dvars, pvars, rvars, qvars>>
       \/ /\ part = "agents" /\ SourceFilesNext
          /\ command'.kind # "set" /\ \A f \in SystemFiles : file'[f] = Missing
          /\ UNCHANGED <<nvars, ivars, gvars, dvars, pvars, rvars, qvars>>
       \/ /\ part = "access" /\ IpAccessNext
          /\ UNCHANGED <<nvars, svars, gvars, dvars, pvars, rvars, qvars>>
       \/ /\ part = "location" /\ GeoNext
          /\ UNCHANGED <<nvars, svars, ivars, dvars, pvars, rvars, qvars>>
       \/ /\ part = "database" /\ DatabaseNext
          /\ UNCHANGED <<nvars, svars, ivars, gvars, pvars, rvars, qvars>>
       \/ /\ part = "packages" /\ PackageNext
          /\ UNCHANGED <<nvars, svars, ivars, gvars, dvars, rvars, qvars>>
       \/ /\ part = "redirects" /\ RedirectsNext
          /\ UNCHANGED <<nvars, svars, ivars, gvars, dvars, pvars, qvars>>
       \/ /\ part = "gate" /\ GateNext
          /\ clock' = clock /\ visits' <= 1
          /\ UNCHANGED <<nvars, svars, ivars, gvars, dvars, pvars, rvars>>
       \/ /\ part \in {"rates", "sign-ins"} /\ GateNext
          /\ <<active, team>>' = <<active, team>>
          /\ Only(IF part = "rates" THEN {Direct} ELSE SignIns)
          /\ UNCHANGED <<nvars, svars, ivars, gvars, dvars, pvars, rvars>>

(* In the other parts the task of the alerts has nothing to do. *)
MCSpec == MCInit /\ [][MCNext]_vars /\ AlertFairness
=============================================================================
