--------------------------- MODULE PackageRequests ---------------------------
(***************************************************************************)
(* From the path a package manager asks for to the URL that is fetched:    *)
(* the routes, the adapters of the package registries (proxy/*.rs), the    *)
(* expansion of a configured group into candidates (config.rs), and the    *)
(* links in documents that adapters rewrite so that clients come back.     *)
(*                                                                         *)
(* A path is a sequence of tokens, "/" being one of them; a name of two    *)
(* tokens stands for names of which one is a prefix of the other.  Tokens  *)
(* with a percent sign are encoded; those of dots, encoded or not, stand   *)
(* for whole names.  Queries and ports are left out, and so is what is     *)
(* sent to clients as it came.                                             *)
(***************************************************************************)
EXTENDS Naturals, Sequences, FiniteSets, SequencesExt

CONSTANTS Paths,   \* paths that clients ask for by themselves, the root left out
          Links,   \* links in documents of upstreams: `host` is a whole host, or the
                   \* first token of a longer one that goes on in `path`; the text of a
                   \* relative link starts with "/", after ../..
          Settings \* configurations by name: adapters that are on, upstreams (up)
                   \* and repositories of further systems (extra)

ASSUME PathsAssumption ==
    /\ \A p \in Paths : p \in Seq(STRING) /\ Len(p) >= 2 /\ p[1] = "/"
    /\ \A l \in Links : /\ l \in [scheme : STRING, host : STRING, path : Seq(STRING)]
                        /\ l.host = "" /\ l.path # <<>> => l.path[1] = "/"

VARIABLES setting, \* the name of the configuration in force
          asked,  \* the path of the last request, <<>> before it
          got,    \* what the server made of it
          link,   \* a link in the document of the answer
          shown,  \* where the client is sent for it, <<>> for nowhere on this server
          reason, \* did a client ask by itself or follow the link
          fresh   \* has the configuration been the same since the link was shown

pvars == <<setting, asked, got, link, shown, reason, fresh>>

config == Settings[setting]

Url(scheme, host, path) == [scheme |-> scheme, host |-> host, path |-> path]
NoUrl == Url("", "", <<>>)

TrimStart(p) == LET f == SelectInSeq(p, LAMBDA t : t # "/")
                IN  IF f = 0 THEN <<>> ELSE SubSeq(p, f, Len(p))
TrimEnd(p) == LET f == SelectLastInSeq(p, LAMBDA t : t # "/")
              IN  SubSeq(p, 1, f)
After(prefix, p) == SubSeq(p, Len(prefix) + 1, Len(p))

(* The n-th of a set of positions, and the tokens of p at these positions. *)
Nth(positions, n) ==
    CHOOSE i \in positions : Cardinality({j \in positions : j <= i}) = n
Picked(p, positions) == [n \in 1..Cardinality(positions) |-> p[Nth(positions, n)]]

(* The names between slashes, each a sequence of tokens. *)
Split(p) ==
    LET cuts == {i \in 0..Len(p) + 1 : i \in {0, Len(p) + 1} \/ p[i] = "/"}
    IN  [n \in 1..Cardinality(cuts) - 1 |-> SubSeq(p, Nth(cuts, n) + 1, Nth(cuts, n + 1) - 1)]

(* Percent-decoding, and the names that mean something else than a name:   *)
(* those that adapters refuse, and dots that are still encoded, which the  *)
(* parser of URLs takes for dots.                                          *)
DecodedToken(t) ==
    CASE t = "%2e"   -> "."     [] t = "%2e%2e"     -> ".."
      [] t = "%252e" -> "%2e"   [] t = "%252e%252e" -> "%2e%2e"
      [] t = "%2f"   -> "/"     [] t = "%5c"        -> "\\"
      [] OTHER -> t
Decoded(p) == [i \in DOMAIN p |-> DecodedToken(p[i])]

Dotted(p)  == \E i \in DOMAIN p : p[i] \in {".", "..", "\\"}
Encoded(p) == \E i \in DOMAIN p : p[i] \in {"%2e", "%2e%2e"}
Odd(p)     == \E i \in DOMAIN p : p[i] \in {".", "..", "\\", "%2e", "%2e%2e"}
Gap(p) == \E i \in DOMAIN p : p[i] = "/" /\ (i \in {1, Len(p)} \/ p[i + 1] = "/")

(* What the parser of URLs makes of a path (Url::parse and set_path): a    *)
(* backslash is a slash, encoded dots are dots, "." is dropped, and ".."   *)
(* is dropped with the name before it that is still there, so a name stays *)
(* while it is followed by fewer of ".." than of names.                    *)
Parsed(t) == CASE t = "\\" -> "/" [] t = "%2e" -> "." [] t = "%2e%2e" -> ".." [] OTHER -> t

Normalised(p) ==
    LET q      == [i \in DOMAIN p |-> Parsed(p[i])]
        names  == Split(Tail(q))
        at(i)  == Cardinality({j \in 1..i - 1 : q[j] = "/"})
        ups(n, m)   == {k \in n..m : names[k] = <<"..">>}
        downs(n, m) == {k \in n..m : names[k] \notin {<<".">>, <<"..">>}}
        stays(n)    == \A m \in n..Len(names) : Cardinality(ups(n, m)) < Cardinality(downs(n, m))
    IN  IF p = <<>> THEN <<"/">>
        ELSE IF ~Odd(p) THEN p
        ELSE <<"/">> \o Picked(q, {i \in 2..Len(p) : q[i] \notin {".", ".."} /\ stays(at(i))})

-----------------------------------------------------------------------------
(* Upstreams *)

UpstreamGroups ==
    <<"maven", "github", "github_raw", "packagist", "docker_hub", "ghcr", "quay", "kubernetes",
      "gcr", "mcr", "elastic", "gitlab", "nvcr", "oracle", "npm", "nvm", "opam", "go_proxy",
      "rubygems", "rustup", "nuget", "cpan", "cran", "hackage", "julia", "luarocks", "clojars",
      "cocoapods", "pub_repository", "anaconda", "texlive", "winget", "huggingface", "elpa",
      "nix", "guix", "flatpak", "homebrew", "alpine", "openwrt", "termux", "debian", "ubuntu",
      "fedora", "archlinux", "opensuse", "void", "gentoo", "freebsd", "crates_index",
      "crates_api", "pypi_simple", "pypi_files">>

(* What a configuration has passed (Config::validate): every group has an  *)
(* endpoint, and endpoints are URLs with a host, which are parsed.         *)
Endpoint ==
    {url \in [scheme : {"http", "https"}, host : STRING \ {"/", ".", "..", "\\"},
              path : Seq(STRING)] : ~Odd(url.path) /\ DecodedToken(url.host) = url.host}
Group == Seq(Endpoint) \ {<<>>}

ASSUME SettingsAssumption ==
    \A s \in DOMAIN Settings :
        Settings[s] \in [on : SUBSET STRING, up : [ToSet(UpstreamGroups) -> Group],
                         extra : Seq([name : Seq(STRING), group : Group])]

(* All groups, those of additional_os last. *)
Configured == [i \in 1..Len(UpstreamGroups) |-> config.up[UpstreamGroups[i]]]
                  \o [i \in 1..Len(config.extra) |-> config.extra[i].group]

SelectUpstream(group) == group[1]

SetPath(url, path) == [url EXCEPT !.path = Normalised(path)]

SameOrigin(a, b) == a.scheme = b.scheme /\ a.host = b.host

\* Mutant: a base path matches in the middle of a name.
BelowAnyPrefix(primary, url) ==
    SameOrigin(primary, url) /\ IsPrefix(TrimEnd(primary.path), url.path)

(* upstream_path_suffix: the rest of the path is empty or starts with "/". *)
BelowEndpoint(primary, url) ==
    /\ SameOrigin(primary, url)
    /\ IsPrefix(TrimEnd(primary.path), url.path)
    /\ LET rest == After(TrimEnd(primary.path), url.path)
       IN  rest # <<>> => rest[1] = "/"

(* The endpoints of the first of the most specific groups that cover it. *)
CandidatesFor(url) ==
    LET groups == Configured
        suitable == {i \in DOMAIN groups : BelowEndpoint(groups[i][1], url)}
        best == CHOOSE i \in suitable : \A j \in suitable :
                    LET a == Len(groups[i][1].path)  b == Len(groups[j][1].path)
                    IN  a > b \/ (a = b /\ i <= j)
        rest == After(TrimEnd(groups[best][1].path), url.path)
    IN  IF suitable = {} THEN <<url>>
        ELSE [n \in DOMAIN groups[best] |->
                 SetPath(groups[best][n], TrimEnd(groups[best][n].path) \o rest)]

RepositoryUrl(group, p) ==
    SetPath(SelectUpstream(group), TrimEnd(SelectUpstream(group).path) \o <<"/">> \o p)
BuildUrl(group, path) == SetPath(SelectUpstream(group), path)

-----------------------------------------------------------------------------
(* Answers of the adapters *)

(* `rewrites` names the adapter that rewrites links of the document; the   *)
(* candidates are filled in when the request is forwarded.                 *)
Fetch(adapter, url, rewrites) ==
    [result |-> "fetch", adapter |-> adapter, url |-> url, rewrites |-> rewrites,
     candidates |-> <<>>]
(* A request with a body is sent to its URL only: no candidates for it. *)
FetchWith(method, adapter, url) ==
    IF method = "POST" THEN [Fetch(adapter, url, "none") EXCEPT !.candidates = <<url>>]
    ELSE Fetch(adapter, url, "none")
Own(adapter, rewrites) ==
    [result |-> "own", adapter |-> adapter, url |-> NoUrl, rewrites |-> rewrites,
     candidates |-> <<>>]
Refuse(adapter, error) ==
    [result |-> error, adapter |-> adapter, url |-> NoUrl, rewrites |-> "none",
     candidates |-> <<>>]

SanitizeRepositoryPath(p) == p # <<>> /\ ~Dotted(p) /\ ~Gap(p)

(* What every adapter does first: is it enabled, and is the path sane. *)
Checked(adapter, sane, answer) ==
    IF adapter \notin config.on THEN Refuse(adapter, "Disabled")
    ELSE IF ~sane THEN Refuse(adapter, "InvalidUrl") ELSE answer

(* The adapters without a protocol of their own all answer in one way: a   *)
(* sanitized path below the base path of the upstream.                     *)
Repository(adapter, path) ==
    [result |-> "below", adapter |-> adapter, url |-> Url("", "", path), rewrites |-> "none",
     candidates |-> <<>>]

BelowUpstream(adapter, path) ==
    LET p == TrimStart(path)
    IN  Checked(adapter, SanitizeRepositoryPath(p),
                Fetch(adapter, RepositoryUrl(config.up[adapter], p), "none"))

Anaconda(p)  == Repository("anaconda", p)
Clojars(p)   == Repository("clojars", p)
CocoaPods(p) == Repository("cocoapods", p)
Cpan(p)      == Repository("cpan", p)
Cran(p)      == Repository("cran", p)
Elpa(p)      == Repository("elpa", p)
Flatpak(p)   == Repository("flatpak", p)
Guix(p)      == Repository("guix", p)
Hackage(p)   == Repository("hackage", p)
Homebrew(p)  == Repository("homebrew", p)
Julia(p)     == Repository("julia", p)
LuaRocks(p)  == Repository("luarocks", p)
Maven(p)     == Repository("maven", p)
Nix(p)       == Repository("nix", p)
Nvm(p)       == Repository("nvm", p)
Opam(p)      == Repository("opam", p)
Rustup(p)    == Repository("rustup", p)
TexLive(p)   == Repository("texlive", p)
WinGet(p)    == Repository("winget", p)

(* RubyGems replaces the path of the upstream. *)
RubyGems(path) ==
    LET p == TrimStart(path)
    IN  Checked("rubygems", SanitizeRepositoryPath(p),
                Fetch("rubygems", BuildUrl(config.up["rubygems"], <<"/">> \o p), "none"))

(* Repositories of operating systems: the first name is the target. *)
OsTargets == {"alpine", "openwrt", "termux", "debian", "ubuntu", "fedora", "archlinux",
              "opensuse", "void", "gentoo", "freebsd"}

(* The groups for a target, none or one. *)
RepositoryForTarget(target) ==
    IF Len(target) = 1 /\ target[1] \in OsTargets THEN {config.up[target[1]]}
    ELSE {e.group : e \in {e \in ToSet(config.extra) : e.name = target}}

Os(path) ==
    LET q      == TrimStart(path)
        cut    == SelectInSeq(q, LAMBDA t : t = "/")
        p      == SubSeq(q, cut + 1, Len(q))
        groups == RepositoryForTarget(SubSeq(q, 1, cut - 1))
    IN  Checked("os", cut > 0 /\ SanitizeRepositoryPath(p),
                IF groups = {} THEN Refuse("os", "UnsupportedTarget")
                ELSE LET group == CHOOSE g \in groups : TRUE
                     IN  Fetch("os", RepositoryUrl(group, p), "none"))

(* Go: modules' versions and the checksum database. *)
Within(piece, p) == \E i \in DOMAIN p : IsPrefix(piece, SubSeq(p, i, Len(p)))

IsChecksumDatabasePath(p) ==
    LET n == Split(p)
    IN  /\ Len(n) >= 3 /\ n[1] = <<"sumdb">>
        /\ \/ n[3] \in {<<"supported">>, <<"latest">>} /\ Len(n) = 3
           \/ n[3] \in {<<"lookup">>, <<"tile">>} /\ Len(n) > 3

Go(path) ==
    LET p == TrimStart(path)
    IN  Checked("go", /\ SanitizeRepositoryPath(p)
                      /\ (Within(<<"/", "@v", "/">>, p) \/ IsChecksumDatabasePath(p)),
                Fetch("go", BuildUrl(config.up["go_proxy"], <<"/">> \o p), "none"))

(* GitHub: the path is itself a URL, <<"/", scheme, "://", host>> and its  *)
(* path, which is parsed; two hosts have upstreams that stand in for them. *)
GithubHosts == {"api.github.com", "github.com", "raw.githubusercontent.com",
                "objects.githubusercontent.com", "codeload.github.com"}

IsGithubProxyPath(p) ==
    Len(p) >= 5 /\ p[2] = "https" /\ p[3] = "://" /\ p[4] \in GithubHosts /\ p[5] = "/"

ConfiguredTarget(target) ==
    LET key == CASE target.host = "github.com" -> "github"
                 [] target.host = "raw.githubusercontent.com" -> "github_raw"
                 [] OTHER -> ""
    IN  IF key = "" THEN target
        ELSE LET base == SelectUpstream(config.up[key])
             IN  SetPath(base, TrimEnd(base.path) \o target.path)

Github(p, method) ==
    LET target == Url(p[2], p[4], Normalised(SubSeq(p, 5, Len(p))))
    IN  Checked("github", TRUE,
                IF method = "POST" /\ ~(/\ target.host = "github.com"
                                        /\ IsSuffix(<<"/", "git-upload-pack">>, target.path))
                THEN Refuse("github", "MethodNotAllowed")
                ELSE FetchWith(method, "github", ConfiguredTarget(target)))

(* npm: metadata is fetched whatever the method; audits may be posted. *)
IsMetadataRequest(p) ==
    /\ p # <<>> /\ ~IsPrefix(<<"-", "/">>, p) /\ ~Within(<<"/", "-", "/">>, p)
    /\ ~IsSuffix(<<".tgz">>, p)

IsAuditRequest(p) ==
    p \in {<<"-", "/", "npm", "/", "v1", "/", "security", "/">> \o last :
             last \in {<<"advisories", "/", "bulk">>, <<"audits", "/", "quick">>}}

Npm(path, method) ==
    LET p   == TrimStart(path)
        url == BuildUrl(config.up["npm"], <<"/">> \o p)
    IN  Checked("npm", ~Dotted(p),
                IF IsMetadataRequest(p) THEN Fetch("npm", url, "npm")
                ELSE IF method = "POST" /\ ~IsAuditRequest(p) THEN Refuse("npm", "MethodNotAllowed")
                ELSE FetchWith(method, "npm", url))

(* PyPI: the index, files, and files under packages/. *)
PypiFile(p) ==
    Checked("pypi", ~Dotted(p),
            Fetch("pypi", RepositoryUrl(config.up["pypi_files"], TrimStart(p)), "none"))

PypiSimple(p) ==
    Checked("pypi", ~Dotted(p),
            Fetch("pypi", RepositoryUrl(config.up["pypi_simple"], TrimStart(p)), "pypi"))

(* Composer: a document is fetched from the first endpoint only. *)
Composer(path) ==
    LET p   == TrimStart(path)
        url == BuildUrl(config.up["packagist"], <<"/">> \o p)
    IN  Checked("composer", p # <<>> /\ ~Dotted(p),
                IF IsSuffix(<<".json">>, p)
                THEN [Fetch("composer", url, "composer") EXCEPT !.candidates = <<url>>]
                ELSE Fetch("composer", url, "none"))

(* crates.io: the configuration of the index is the server's own. *)
CratesIndex(path) ==
    LET p == TrimStart(path)
    IN  Checked("crates", p # <<>> /\ ~Dotted(p),
                IF p = <<"config", ".json">> THEN Own("crates", "crates")
                ELSE Fetch("crates", BuildUrl(config.up["crates_index"], <<"/">> \o p), "none"))

(* /api/v1/crates/{krate}/{version}/download *)
CratesApi == <<"/", "api", "/", "v1", "/", "crates", "/">>
KrateAndVersion(p) == SubSeq(p, Len(CratesApi) + 1, Len(p) - 2)

IsCratesDownload(p) ==
    /\ IsPrefix(CratesApi, p) /\ IsSuffix(<<"/", "download">>, p)
    /\ ~Gap(KrateAndVersion(p))
    /\ Cardinality({i \in DOMAIN KrateAndVersion(p) : KrateAndVersion(p)[i] = "/"}) = 1

(* The two names are decoded one by one, and have no slash then. *)
CratesDownload(p) ==
    LET names == Decoded(KrateAndVersion(p))
    IN  Checked("crates", ~Dotted(names) /\ \A i \in DOMAIN names : KrateAndVersion(p)[i] # "%2f",
                Fetch("crates", BuildUrl(config.up["crates_api"],
                          CratesApi \o names \o <<"/", "download">>), "none"))

(* NuGet: resources of other hosts are under upstream/<host>/. *)
NugetHosts == {"api.nuget.org", "azuresearch-usnc.nuget.org", "azuresearch-ussc.nuget.org",
               "www.nuget.org"}

NugetIndex ==
    Checked("nuget", TRUE,
            Fetch("nuget", BuildUrl(config.up["nuget"], <<"/", "v3", "/", "index.json">>), "nuget"))

Nuget(path) ==
    LET p    == TrimStart(path)
        q    == After(<<"upstream", "/">>, p)
        cut  == SelectInSeq(q, LAMBDA t : t = "/")
        host == SubSeq(q, 1, cut - 1)
        rest == SubSeq(q, cut, Len(q))
    IN  Checked("nuget", SanitizeRepositoryPath(p),
                IF ~IsPrefix(<<"upstream", "/">>, p) \/ cut = 0
                THEN Fetch("nuget", BuildUrl(config.up["nuget"], <<"/">> \o p), "none")
                ELSE IF host = <<SelectUpstream(config.up["nuget"]).host>>
                THEN Fetch("nuget", BuildUrl(config.up["nuget"], rest), "none")
                ELSE IF host \notin {<<h>> : h \in NugetHosts} THEN Refuse("nuget", "UnsupportedTarget")
                ELSE Fetch("nuget", BuildUrl(<<Url("https", host[1], <<"/">>)>>, rest), "none"))

(* Pub: archives of the storage host are under upstream/. *)
Storage == <<"upstream", "/", "storage.googleapis.com", "/">>

Pub(path) ==
    LET p == TrimStart(path)
    IN  Checked("pub", SanitizeRepositoryPath(p),
                IF IsPrefix(Storage, p)
                THEN Fetch("pub", RepositoryUrl(<<Url("https", Storage[3], <<"/">>)>>, After(Storage, p)), "none")
                ELSE Fetch("pub", RepositoryUrl(config.up["pub_repository"], p), "pub"))

(* Hugging Face: the read-only API and files of models and datasets. *)
ValidHubPath(p) ==
    LET n == Split(p)
        r == SubSeq(n, 3, Len(n))
        f == IF n[1] = <<"datasets">> THEN Tail(n) ELSE n
        at(names, i, name) == Len(names) >= i /\ names[i] = <<name>>
    IN  \/ /\ at(n, 1, "api") /\ (at(n, 2, "models") \/ at(n, 2, "datasets"))
           /\ \/ Len(r) \in 1..2
              \/ (at(r, 2, "revision") /\ Len(r) = 3) \/ (at(r, 3, "revision") /\ Len(r) = 4)
              \/ (at(r, 2, "tree") /\ Len(r) >= 3) \/ (at(r, 3, "tree") /\ Len(r) >= 4)
        \/ /\ at(n, 1, "api") /\ at(n, 2, "resolve-cache") /\ Len(n) >= 6
           /\ (at(n, 3, "models") \/ at(n, 3, "datasets"))
        \/ (at(f, 2, "resolve") /\ Len(f) >= 4) \/ (at(f, 3, "resolve") /\ Len(f) >= 5)

(* The path is asked for as it came, once the decoded one has been seen to *)
(* be sane, with nothing encoded left in it.                               *)
SaneHubPath(p) == SanitizeRepositoryPath(Decoded(p)) /\ ~Encoded(Decoded(p))

HuggingFace(p) ==
    Checked("huggingface", SaneHubPath(p),
            IF ~ValidHubPath(p) THEN Refuse("huggingface", "UnsupportedTarget")
            ELSE Fetch("huggingface", RepositoryUrl(config.up["huggingface"], p), "huggingface"))

(* OCI registries: the first name may be a registry; Docker Hub keeps      *)
(* repositories without an owner under library/.                           *)
RegistryOf(name) ==
    CASE name = <<"ghcr.io">> -> "ghcr"
      [] name = <<"quay.io">> -> "quay"
      [] name \in {<<"registry.k8s.io">>, <<"k8s.gcr.io">>} -> "kubernetes"
      [] name = <<"gcr.io">> -> "gcr"
      [] name = <<"mcr.microsoft.com">> -> "mcr"
      [] name = <<"docker.elastic.co">> -> "elastic"
      [] name = <<"registry.gitlab.com">> -> "gitlab"
      [] name = <<"nvcr.io">> -> "nvcr"
      [] name = <<"container-registry.oracle.com">> -> "oracle"
      [] OTHER -> "docker_hub"

(* Empty names are dropped: a slash stays between names, once. *)
Squeezed(p) ==
    Picked(p, {i \in DOMAIN p : \/ p[i] # "/"
                               \/ /\ i < Len(p) /\ p[i + 1] # "/"
                                  /\ \E j \in 1..i - 1 : p[j] # "/"})

Oci(path) ==
    LET q      == Squeezed(path)
        marks  == {i \in DOMAIN q : /\ q[i] \in {"manifests", "blobs", "tags", "referrers"}
                                    /\ i = 1 \/ q[i - 1] = "/"
                                    /\ i = Len(q) \/ q[i + 1] = "/"}
        marker == CHOOSE i \in marks : \A j \in marks : i <= j
        named  == SubSeq(q, 1, marker - 2)
        cut    == SelectInSeq(q, LAMBDA t : t = "/")
        key    == RegistryOf(SubSeq(q, 1, cut - 1))
        repo   == IF key = "docker_hub" THEN named ELSE SubSeq(named, cut + 1, Len(named))
        full   == IF key = "docker_hub" /\ \A i \in DOMAIN repo : repo[i] # "/"
                  THEN <<"library", "/">> \o repo ELSE repo
    IN  Checked("oci", marks # {} /\ marker \notin {1, Len(q)} /\ repo # <<>> /\ ~Dotted(repo),
                Fetch("oci", BuildUrl(config.up[key],
                    <<"/", "v2", "/">> \o full \o <<"/">> \o SubSeq(q, marker, Len(q))), "none"))

-----------------------------------------------------------------------------
(* Routes *)

(* The adapters whose root is a line of text. *)
Plain == {"nvm", "opam", "goproxy", "maven", "rubygems", "rustup", "luarocks", "nuget", "cpan",
          "cran", "hackage", "julia", "clojars", "cocoapods", "pub", "anaconda", "texlive",
          "winget", "huggingface", "elpa", "nix", "guix", "flatpak", "homebrew", "os", "v2"}

AdapterAt(prefix) ==
    CASE prefix = "goproxy" -> "go" [] prefix = "v2" -> "oci" [] OTHER -> prefix

Root(prefix) ==
    CASE prefix \in Plain         -> Checked(AdapterAt(prefix), TRUE, Own(AdapterAt(prefix), "none"))
      [] prefix = "composer"     -> Composer(<<"packages", ".json">>)
      [] prefix = "npm"          -> Npm(<<>>, "GET")
      [] prefix = "crates-index" -> CratesIndex(<<"config", ".json">>)
      [] OTHER                   -> Refuse("none", "StaticAsset")

(* Path<String> is the decoded rest of the path; Hugging Face takes it     *)
(* from the request itself.                                                *)
Proxied(prefix, raw) ==
    LET p == Decoded(raw)
    IN
    CASE prefix = "composer"    -> Composer(p)      [] prefix = "nvm"         -> Nvm(p)
      [] prefix = "opam"        -> Opam(p)          [] prefix = "goproxy"     -> Go(p)
      [] prefix = "maven"       -> Maven(p)         [] prefix = "rubygems"    -> RubyGems(p)
      [] prefix = "rustup"      -> Rustup(p)        [] prefix = "luarocks"    -> LuaRocks(p)
      [] prefix = "nuget"       -> IF raw = <<"v3", "/", "index.json">> THEN NugetIndex ELSE Nuget(p)
      [] prefix = "cpan"        -> Cpan(p)          [] prefix = "cran"        -> Cran(p)
      [] prefix = "hackage"     -> Hackage(p)       [] prefix = "julia"       -> Julia(p)
      [] prefix = "clojars"     -> Clojars(p)       [] prefix = "cocoapods"   -> CocoaPods(p)
      [] prefix = "pub"         -> Pub(p)           [] prefix = "anaconda"    -> Anaconda(p)
      [] prefix = "texlive"     -> TexLive(p)       [] prefix = "winget"      -> WinGet(p)
      [] prefix = "huggingface" -> HuggingFace(raw) [] prefix = "elpa"        -> Elpa(p)
      [] prefix = "nix"         -> Nix(p)           [] prefix = "guix"        -> Guix(p)
      [] prefix = "flatpak"     -> Flatpak(p)       [] prefix = "homebrew"    -> Homebrew(p)
      [] prefix = "os"          -> Os(p)            [] prefix = "v2"          -> Oci(p)
      [] prefix = "crates-index" -> CratesIndex(p)
      [] OTHER                  -> Refuse("none", "StaticAsset")

(* What no route takes: a path of GitHub, or an asset of the console. *)
Fallback(p, method) ==
    IF IsGithubProxyPath(p) THEN Github(p, method) ELSE Refuse("none", "StaticAsset")

(* The router; what no route matches goes to GitHub or the static assets.  *)
(* Other methods than GET and HEAD only reach npm and GitHub.              *)
Route(p, method) ==
    LET rest == SubSeq(p, 4, Len(p))
        pypi(name) == Len(p) >= 4 /\ p[2] = "pypi" /\ p[3] = "/" /\ p[4] = name
        below(n)   == Len(p) > n /\ p[n] = "/"
    IN  IF IsGithubProxyPath(p) THEN Fallback(p, method)
        ELSE IF p[2] = "npm" /\ (Len(p) <= 3 => method = "GET") /\ (Len(p) >= 3 => p[3] = "/")
        THEN Npm(Decoded(rest), method)
        ELSE IF method # "GET" THEN Refuse("none", "MethodNotAllowed")
        ELSE IF pypi("simple") /\ (Len(p) = 4 \/ p[5] = "/")
        THEN PypiSimple(Decoded(SubSeq(p, 6, Len(p))))
        ELSE IF pypi("files") /\ below(5)
        THEN PypiFile(Decoded(SubSeq(p, 6, Len(p))))
        ELSE IF pypi("packages") /\ below(5)
        THEN PypiFile(<<"packages", "/">> \o Decoded(SubSeq(p, 6, Len(p))))
        ELSE IF p[2] = "crates" /\ IsCratesDownload(SubSeq(p, 3, Len(p)))
        THEN CratesDownload(SubSeq(p, 3, Len(p)))
        ELSE IF Len(p) = 2 \/ (Len(p) = 3 /\ p[3] = "/") THEN Root(p[2])
        ELSE IF p[3] = "/" THEN Proxied(p[2], rest)
        ELSE Fallback(p, method)

(* The two lists of paths that are proxied: under which target the         *)
(* traffic is accounted, and what needs the subdomain of a user.           *)
AtOrBelow(prefix, p) == p[2] = prefix /\ (Len(p) = 2 \/ p[3] = "/")

TargetPrefixes == Plain \cup {"composer", "npm"}

ProxyTargetForPath(p) ==
    IF \E x \in TargetPrefixes : AtOrBelow(x, p) THEN AdapterAt(p[2])
    ELSE IF \/ p = <<"/", "pypi", "/", "simple">>
            \/ \E x \in {"simple", "files", "packages"} : IsPrefix(<<"/", "pypi", "/", x, "/">>, p)
    THEN "pypi"
    ELSE IF IsPrefix(<<"/", "crates", "/", "api", "/">>, p) \/ AtOrBelow("crates-index", p)
    THEN "crates"
    ELSE IF IsGithubProxyPath(p) THEN "github" ELSE "none"

IsProxyPath(p) ==
    \/ \E x \in Plain \cup {"composer", "npm", "crates-index"} : AtOrBelow(x, p)
    \/ p = <<"/", "pypi", "/", "simple">>
    \/ \E x \in {"simple", "files", "packages"} : IsPrefix(<<"/", "pypi", "/", x, "/">>, p)
    \/ IsPrefix(<<"/", "crates", "/", "api", "/">>, p)
    \/ IsGithubProxyPath(p)

-----------------------------------------------------------------------------
(* Links in documents.  The result is the path on this server where the    *)
(* client is sent, <<>> when the link stays as it was.                     *)

HostEnds(l) == l.path # <<>> => l.path[1] = "/"

(* The URL of a tarball is parsed; the other links are cut up as text. *)
RewriteNpmTarball(l) ==
    IF l.host = "registry.npmjs.org" /\ HostEnds(l)
    THEN <<"/", "npm">> \o Normalised(l.path) ELSE <<>>

(* A relative link, without a host, starts with ../../packages/. *)
RewriteFileLinks(l) ==
    IF l.host = "files.pythonhosted.org" /\ l.path # <<>> /\ HostEnds(l)
    THEN <<"/", "pypi", "/", "files">> \o l.path
    ELSE IF l.host = "" /\ IsPrefix(<<"/", "packages", "/">>, l.path)
    THEN <<"/", "pypi">> \o l.path
    ELSE <<>>

RewriteComposerUrl(l) ==
    IF l.host \in {"api.github.com", "github.com", "codeload.github.com",
                   "objects.githubusercontent.com", "repo.packagist.org"} /\ HostEnds(l)
    THEN <<"/", l.scheme, "://", l.host>> \o l.path ELSE <<>>

(* A known host that the text of the link starts with, and that may go on. *)
RewriteResourceUrl(l) ==
    IF l.scheme = "https" /\ l.host \in NugetHosts \cup {SelectUpstream(config.up["nuget"]).host}
    THEN <<"/", "nuget", "/", "upstream", "/", l.host>> \o l.path ELSE <<>>

RewriteArchiveUrl(l) ==
    IF l.scheme = "https" /\ l.host = Storage[3] /\ l.path # <<>> /\ HostEnds(l)
    THEN <<"/", "pub", "/">> \o Front(Storage) \o l.path ELSE <<>>

(* The next page, at the origin of the endpoint that answered and below    *)
(* what precedes /api/ in its path; anything else fails the request.       *)
(* Links of files lead to another transport and are dropped.               *)
RewritePagination(l, url) ==
    LET found == {i \in DOMAIN url.path :
                     IsPrefix(<<"/", "api", "/">>, SubSeq(url.path, i, Len(url.path)))}
        base  == SubSeq(url.path, 1, (CHOOSE i \in found : \A j \in found : i <= j) - 1)
        path  == Normalised(l.path)
        rest  == After(base, path)
    IN  IF /\ found # {} /\ HostEnds(l) /\ SameOrigin(l, url) /\ IsPrefix(base, path)
           /\ SaneHubPath(TrimStart(rest)) /\ ValidHubPath(TrimStart(rest))
        THEN <<"/", "huggingface">> \o rest ELSE <<>>

(* What the configuration of the index makes of the download of a crate,   *)
(* whose name and version need no encoding.                                *)
DownloadUrl(l) ==
    IF l.host = "crates.io" /\ Decoded(l.path) = l.path /\ IsCratesDownload(l.path)
    THEN <<"/", "crates">> \o l.path ELSE <<>>

Rewritten(l, url) ==
    CASE got.rewrites = "npm"         -> RewriteNpmTarball(l)
      [] got.rewrites = "pypi"        -> RewriteFileLinks(l)
      [] got.rewrites = "composer"    -> RewriteComposerUrl(l)
      [] got.rewrites = "nuget"       -> RewriteResourceUrl(l)
      [] got.rewrites = "pub"         -> RewriteArchiveUrl(l)
      [] got.rewrites = "huggingface" -> RewritePagination(l, url)
      [] got.rewrites = "crates"      -> DownloadUrl(l)

-----------------------------------------------------------------------------
(* Actions *)

Unasked == [result |-> "none", adapter |-> "none", url |-> NoUrl, rewrites |-> "none",
            candidates |-> <<>>]

PackageInit ==
    /\ setting \in DOMAIN Settings
    /\ asked = <<>> /\ got = Unasked /\ link = NoUrl /\ shown = <<>>
    /\ reason = "none" /\ fresh = TRUE

(* A package manager asks for a path of its own making, and then for what  *)
(* the documents lead it to.                                               *)
Ask(p, method) ==
    /\ asked = <<>>
    /\ asked' = p /\ got' = Route(p, method) /\ reason' = "ask"
    /\ UNCHANGED <<setting, link, shown, fresh>>

(* The common part of the adapters; and forward: all endpoints of the      *)
(* group are candidates, unless the adapter chose one.                     *)
Forward ==
    /\ \/ /\ got.result = "below"
          /\ got' = BelowUpstream(got.adapter, got.url.path)
       \/ /\ got.result = "fetch" /\ got.candidates = <<>>
          /\ got' = [got EXCEPT !.candidates = CandidatesFor(got.url)]
    /\ UNCHANGED <<setting, asked, link, shown, reason, fresh>>

(* The upstream's document has link l; for crates there is no upstream. *)
Document(l) ==
    /\ got.rewrites # "none" /\ link = NoUrl
    /\ \E url \in ToSet(got.candidates) \cup {NoUrl} :
          /\ (url = NoUrl) = (got.result = "own")
          /\ Rewritten(l, url) # <<>>
          /\ shown' = Rewritten(l, url)
    /\ link' = l /\ reason' = "none"
    /\ UNCHANGED <<setting, asked, got, fresh>>

(* The client goes where the document sends it. *)
Follow ==
    /\ shown # <<>>
    /\ asked' = shown /\ got' = Route(shown, "GET") /\ reason' = "link"
    /\ shown' = <<>>
    /\ UNCHANGED <<setting, link, fresh>>

(* Requests work with the configuration of their start, so it changes      *)
(* between them, while clients keep documents.                             *)
Reconfigure(s) ==
    /\ shown # <<>> /\ s # setting
    /\ setting' = s /\ fresh' = FALSE
    /\ UNCHANGED <<asked, got, link, shown, reason>>

PackageNext ==
    \/ \E p \in Paths, method \in {"GET", "POST"} : Ask(p, method)
    \/ Forward
    \/ \E l \in Links : Document(l)
    \/ Follow
    \/ \E s \in DOMAIN Settings : Reconfigure(s)

-----------------------------------------------------------------------------
(* Properties *)

(* The upstreams of an adapter, and the hosts it knows without them. *)
KeysOf(adapter) ==
    CASE adapter = "github"   -> {"github", "github_raw"}
      [] adapter = "pypi"     -> {"pypi_simple", "pypi_files"}
      [] adapter = "crates"   -> {"crates_index", "crates_api"}
      [] adapter = "composer" -> {"packagist"}
      [] adapter = "go"       -> {"go_proxy"}
      [] adapter = "pub"      -> {"pub_repository"}
      [] adapter = "os"       -> OsTargets
      [] adapter = "oci"      -> {"docker_hub", "ghcr", "quay", "kubernetes", "gcr", "mcr",
                                  "elastic", "gitlab", "nvcr", "oracle"}
      [] OTHER                -> {adapter}

KnownHosts(adapter) ==
    CASE adapter = "github" -> GithubHosts
      [] adapter = "nuget"  -> NugetHosts
      [] adapter = "pub"    -> {Storage[3]}
      [] OTHER              -> {}

(* The first endpoints that an adapter may ask, and the adapters that      *)
(* replace the base path of their upstream.                                *)
EndpointsOf(adapter) ==
    {SelectUpstream(config.up[key]) : key \in KeysOf(adapter)}
        \cup {SelectUpstream(e.group) : e \in {e \in ToSet(config.extra) : adapter = "os"}}

Replacing == {"rubygems", "go", "npm", "composer", "crates", "nuget", "oci"}

(* A name that was encoded twice is still encoded when the path has been   *)
(* decoded, and passes the adapters' checks: dots among such names lead    *)
(* out of the base path, though not to another host.  GitHub's paths are   *)
(* not decoded.                                                            *)
Loose(adapter, p) == adapter # "github" /\ Encoded(Decoded(p))

(* No path becomes a URL of its own choosing: what is fetched is below an  *)
(* endpoint of the adapter that answered, at its host for loose paths and  *)
(* for the adapters that replace the base path, or at a host that the      *)
(* adapter knows.                                                          *)
Arbitrary(adapter, loose, url) ==
    /\ \A base \in EndpointsOf(adapter) :
           ~(IF loose \/ adapter \in Replacing THEN SameOrigin(base, url)
             ELSE BelowEndpoint(base, url))
    /\ url.scheme # "https" \/ url.host \notin KnownHosts(adapter)

(* The upstreams that stand in for a host. *)
StandIn(host) ==
    CASE host = "registry.npmjs.org" -> {"npm"}   [] host = "files.pythonhosted.org" -> {"pypi_files"}
      [] host = "github.com" -> {"github"}        [] host = "crates.io" -> {"crates_api"}
      [] host = "" -> {"pypi_files"}              [] OTHER -> {}

(* Where the resource of a link may be fetched: there, at the host it      *)
(* names under the scheme that is configured for it, or at what stands in  *)
(* for that host, in both cases with the path decoded perhaps; pages of    *)
(* the Hub, below the base path of the upstream.                           *)
Resource(l, url) ==
    \/ url.path \in {l.path, Decoded(l.path)} /\ url.host = l.host
    \/ \E key \in StandIn(l.host), path \in {l.path, Decoded(l.path)} :
          LET base == SelectUpstream(config.up[key])
          IN  SameOrigin(base, url) /\ url.path \in {path, TrimEnd(base.path) \o path}
    \/ /\ got.adapter = "huggingface"
       /\ LET base == SelectUpstream(config.up["huggingface"])
          IN  /\ BelowEndpoint(base, url)
              /\ \E k \in 1..Len(l.path) :
                    After(TrimEnd(base.path), url.path) = SubSeq(l.path, k, Len(l.path))

(* Links to a file of a known host, whose names are neither empty nor      *)
(* dots, nor encoded twice; and links to a host that is longer than one.   *)
Plausible(l) == l.path # <<>> /\ l.path[1] = "/" /\ SaneHubPath(Tail(l.path))

Longer(l) == /\ l.path # <<>> /\ Decoded(l.path)[1] # "/"
             /\ \E i \in DOMAIN l.path : Decoded(l.path)[i] = "/"

(* Links that are rewritten to where no adapter answers: those of Composer *)
(* that are not for GitHub's adapter, and a page of the Hub whose path     *)
(* begins with the base path in the middle of a name.                      *)
Dead(l) == \/ l.host = "repo.packagist.org" \/ (l.host \in GithubHosts /\ l.scheme # "https")
           \/ asked[2] = "huggingface" /\ asked[3] # "/"

Fetched == got.result = "fetch" /\ got.candidates # <<>> /\ shown = <<>>

NeverArbitrary == Fetched => ~Arbitrary(got.adapter, Loose(got.adapter, asked), got.url)

LinksLead ==
    /\ Fetched /\ reason = "link" /\ Plausible(link) => Resource(link, got.url)
    /\ reason = "link" /\ fresh /\ Plausible(link) /\ ~Dead(link) =>
          got.result \in {"fetch", "Disabled"}
    /\ reason = "link" /\ Longer(link) => got.result # "fetch"

CandidatesAgree == Fetched =>
    /\ got.candidates[1] = got.url
    /\ \A n \in DOMAIN got.candidates \ {1} :
          \E i \in DOMAIN Configured : \E k \in 0..Len(got.url.path) :
             LET rest == SubSeq(got.url.path, k + 1, Len(got.url.path))
                 At(m) == SetPath(Configured[i][m], TrimEnd(Configured[i][m].path) \o rest)
             IN  /\ n \in DOMAIN Configured[i]
                 /\ rest # <<>> => rest[1] = "/"
                 /\ got.url = At(1) /\ got.candidates[n] = At(n)

Accounted == got.adapter # "none" => /\ ProxyTargetForPath(asked) = got.adapter
                                     /\ IsProxyPath(asked)

(* Requests come out where they should (proxy/*.rs, main.rs, config.rs):   *)
(* a path never becomes an arbitrary URL: it leaves the base path of the   *)
(* upstream only with dots that were encoded twice, and its host never; a  *)
(* client that follows a rewritten link is given the resource the link     *)
(* named, or an error when the configuration has changed since, and        *)
(* nothing when the link was for a host whose name begins with a known     *)
(* one; the first candidate is the URL itself, and the others have the     *)
(* same path below another endpoint of a group the URL belongs to; and     *)
(* whatever an adapter answers is accounted under that adapter's name.     *)
RequestsLead == NeverArbitrary /\ LinksLead /\ CandidatesAgree /\ Accounted
=============================================================================
