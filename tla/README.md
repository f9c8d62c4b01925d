# MirrorProxy in TLA+

MirrorProxy is a caching reverse proxy for package registries with a
multi-user administration server (Rust, tokio, axum, SQLite). This directory
models the server and the files its client writes: the parts in which
concurrency, cancellation, crashes, bounds or the agreement of several tables
decide whether the code is right. The modules are checked with TLC on
small instances; all safety properties of the passing runs are also proved with
TLAPS, for every instance.

    tlc -workers 2 -config QuotaCaps.cfg MCTrafficQuota    # one run
    tlapm TrafficQuotaProofs.tla                           # the proofs of one part

`PROJECT.json` lists the components, the runs, a mutant for every property, the
source lines behind every definition, the findings, the hazards and the
theorems. All paths below are relative to `crates/server/src/` unless they name
the client.

## 1. The system

### 1.1 Components

| Component | State | Operations | Hard behaviour | Module |
|---|---|---|---|---|
| Traffic quotas (`traffic.rs`, `traffic_*` tables in `database.rs`, `rate_limit_middleware` in `main.rs`) | monthly rows `response_bytes`, `reserved_bytes` at the global, user and group scope; `quota_exceeded` flag; a guard per response | reserve, stream, settle, charge a download part, change caps, groups and profiles, public status | detached tasks outlive handlers; the client may go away during the reservation; month, group and caps change between reservation and settlement; crashes | `TrafficQuota`, abstractly `QuotaLedger` |
| Disk cache (`proxy/cache.rs`, `forward_request` in `proxy/mod.rs`) | `<key>.body` and `<key>.json`, `CAPACITY` | load, write, refresh on 304, evict, purge | no lock across the upstream round trip; two renames per entry; incremental accounting; stale size limits | `DiskCache` |
| Custom downloads (`download.rs`, `database/download.rs`) | `Runtime` (permits, hosts, cancellation senders), tokens, permissions, blocks, daily usage, throttle | authorise, acquire, follow redirects, deliver part by part, revoke, block, reconfigure, terminate | policy changes race with registered and not yet registered transfers; a lock held across a sleep; truncated bodies | `Downloads` |
| Upstream selection (`upstream_selection.rs`, failover loops of `proxy/mod.rs`) | health per endpoint, at most `MAX_ENDPOINTS` | rank, record success and failure, clear | shared by all requests while each fails over in the order it ranked once; answers that break off | `UpstreamSelector` |
| ACME and direct HTTPS (`acme.rs`, `run_https_listener` in `main.rs`) | certificate and key files, challenges, status, trigger and watch channels | trigger, check, issue, clean up, write, notify, reload | two files, two writers/readers, crashes between the writes, lost notifications; DNS records that cannot be removed | `Acme` |
| Runtime configuration (`main.rs`, `config.rs`, `database.rs`) | service file, row in the database, copy in memory, the upstream client, WebAuthn verifier and selector built from it | start, update, ACME section, rename of the administrator | the row, the copy and each object are written in steps of their own; disconnects drop the handler after the save | `RuntimeConfig`, abstractly `DurableConfig` |
| Administrator (`main.rs`, `database.rs`) | the account, sessions, passkeys, challenges | sign in, rename, change password, add and delete passkeys | requests that authenticated before a rename finish after it; read-then-write of the lockout counter | `AdminAccounts` |
| User accounts (`local_accounts.rs`, `database/local_accounts.rs`, `database.rs`) | users, hashes, locks, sessions, invitations, routing ids | register, sign in, change password, disable, delete, rotate | hashing takes place between the read and the write; one invitation, two registrations | `UserAccounts` |
| Sign-in by mail and provider (`email.rs`, `oauth.rs`, `database.rs`) | tokens, mail invitations, flows, providers, identities | request, consume, callback, link, unlink, invite, revoke, rename a provider | several statements per request, a round trip in between; duplicated callbacks; identities refer to slugs | `ExternalSignIn` |
| Outbox, source health, alerts (`email.rs`, `source_health.rs`, `alerts.rs`) | queued mails, results, cooldowns | enqueue, send, mark, check, evaluate, deliver | kill between send and mark; one channel failing, or never answering | `Notifications` |
| IP access policy (`main.rs`, `geoip.rs`) | rules in the database, compiled policy in memory | add, change, remove, refresh, decide | list-then-install races | `IpAccess` |
| GeoIP lookup (`geoip.rs`) | location file | search | bounds of a binary search | `GeoLookup` |
| Database restore (`main.rs`) | database, log, backup, kept copies | back up, stage, keep, rename | kill between two renames | `DatabaseFiles` |
| Request gate (middleware of `main.rs`) | request windows, sign-in attempts, teams, routing ids | route, limit, decide, record a failure | the clock is read before the lock; check long before record | `RequestGate` |
| Registry adapters (`proxy/*.rs`, `config.rs`) | none | path to URL, candidates, links | a rewritten link must lead back; prefixes of names; paths decoded twice | `PackageRequests` |
| Redirects (`proxy/mod.rs`, `oci.rs`, `huggingface.rs`) | the chain of one request | follow, ask for a token | name resolution changes between hops; what carries over to another origin | `Redirects` |
| Client (`crates/client/src`) | files of package managers and agents, records of originals | set, migrate, reset, setup, rollback | kills and failures between record, move and rename; edits by the user | `SourceFiles` |
| Billing reports, DNS providers, static assets, catalogue, installation, web console | none, or I/O only | | sequential | not modelled (section 7) |

### 1.2 How they interact

A proxied request first passes the layers of `RequestGate`: whose address and whose
subdomain it has, the requests per minute, the IP policy (`IpAccess`), the team's
targets. `rate_limit_middleware` then takes a snapshot of the configuration and
reserves quota (`TrafficQuota`); the adapter turns the path into a URL
(`PackageRequests`), ranks the upstream candidates (`UpstreamSelector`) and, for each
candidate, looks the cache up, asks the upstream, following its redirects
(`Redirects`), and writes or refreshes the entry (`DiskCache`). The
response body carries the quota guard, so settlement happens when the body is
finished or dropped. Custom downloads have a path of their own (`Downloads`) but
charge the monthly rows of `TrafficQuota` (`ChargeDownload` there) and a daily
budget (`Charge` in `Downloads`) in one transaction. All of them read the
configuration in memory, which administrators replace at any time: each module
has the update of its section as an action, and requests keep the snapshot they
took. How a change gets from a request to the row and to memory is `RuntimeConfig`,
which `AdminAccounts` extends, since renaming the administrator edits the document
and the document holds the passkey policy. `update_admin_config` clears the selector and signals the downloads before
it writes memory; both modules have these as separate steps. `Acme` is
independent of the request path except through its files and its watch channel.
`Notifications` composes the three background tasks that share the outbox and the
table of results. User accounts with a password, by mail and through providers
share only the rows of users; their properties do not tell these apart further
than `UserAccounts` and `ExternalSignIn` do.

### 1.3 What makes each part correct

* **Quota**: no interleaving admits beyond a cap at any scope; every reservation
  is released exactly once, where it was made; every byte is billed exactly once;
  a client that goes away leaves nothing reserved; the public banner agrees with
  what admission does.
* **Cache**: a body and its metadata describe one response, unless a write was cut
  short or a 304 came back for an entry replaced meanwhile; the count agrees with
  the files; the bodies fit the limit; eviction is least-recently-used; a client
  gets the variant it asked for, with the validators of the body it gets.
* **Downloads**: a block reaches every transfer; a revoked token or a disabled
  service delivers at most the part already on its way; the budget is never
  overspent; a truncated body never looks complete; every permit comes back.
* **Selector**: a request is refused only when every candidate failed; healthy
  endpoints come first.
* **ACME**: every challenge is cleaned up, whichever of the others cannot be; a
  complete pair is eventually served and never replaced by an older one.
* **Configuration**: nothing is in force that was not stored first; at rest, memory
  and everything built from it agree with the row.
* **Accounts**: a credential belongs to an account that exists, under its present
  name and password; a lock is set exactly at the limit; invitations, tokens and
  identities are used once, by one account.
* **Notifications**: a message is handed over twice only for a reported failure or a
  lost mark; a webhook that fails does not keep an alert from being mailed.
* **Gate, policy, adapters, redirects**: limits hold up to the requests that overlap;
  an answered change of the rules is in force; a path leads to the resource it
  names and never to a host of its own choosing; a chain of redirects never carries
  credentials, a scheme or a private address further than the operator configured,
  and a token is from the registry that asked or from a configured issuer.
* **Files**: whatever is interrupted, what the user wrote and what the database
  committed can be got back.

## 2. Modules

Each module has one action per step between two points at which another task can
run: an `await`, a release of a lock, a committed transaction. A SQL transaction
or a section under one lock is one action. Variables marked *history* exist only
for the properties.

### TrafficQuota and QuotaLedger

| In the model | In the code |
|---|---|
| `billed`, `reserved` (month, scope) | `response_bytes`, `reserved_bytes` of `traffic_monthly`, `user_traffic_monthly`, `group_traffic_monthly` |
| `flagged` | `traffic_monthly.quota_exceeded` |
| `req[r]` | the handler, its `ProxyTraffic` guard and its detached tasks; `phase` says which of them exists |
| `Start` | the snapshot at the top of `rate_limit_middleware` |
| `ReserveUser`, `ReserveAnonymous`, `ReserveExceeded`, `ReserveFails` | the spawned reservation, `try_reserve_hierarchical_bytes`, `try_reserve_monthly_bytes` |
| `Cancel` | the client goes away: the handler or the body is dropped |
| `Respond`, `StreamChunk`, `StreamEnd` | `track_proxy_response` and the wrapped body |
| `Settle`, `SettleFails` | the detached `record_proxy_response` |
| `ChargeDownload` | `charge_download` |
| `UpdateConfig`, `SetProfile`, `UpdateGroup`, `NextMonth` | administration and the calendar |
| `PublicStatus` | `public_quota_status` |

`granted` (history) is the widest cap that admitted traffic at a scope, `excess`
(history) what settlements billed beyond their reservation, `charged` (history)
what downloads paid. They let `AdmissionBound` say exactly by how much a scope
may exceed a cap: the code reserves a fixed amount and lets a longer response run
on, so only the excess is allowed above the cap.

`QuotaLedger` is what the three tables are for, said without counters: it has an
entry for every request (`new`, `asking` with what it read of the configuration,
`holding` a month, scopes and an amount, `over`) and the bytes paid. `Admit` compares
the limits with the bytes paid and the sum of *all* entries that hold, `Pay` ends a
hold where it was taken, `Charge` is a download's part, and `ChangePolicy` whatever
administrators and the calendar do. The mapping (`EntryOf`, `LimitsOf`, `SnapshotOf`,
end of `TrafficQuota`) does not read `reserved`: the refinement `LedgerKept` shows that
the counters, with their `MAX(0, ..)`, are worth the entries they replace.

### DiskCache

`body` and `meta` are the two files of each key, `older` says which of two bodies was
modified first, `capacity` is the static `CAPACITY`. `Begin`, `Load`, `Answer`,
`Refresh`, `PassOn`, `Write`, `Finish` are the steps of `forward_request` for one
candidate; `Load` runs under the read lock and `Write`, `Refresh` and `Purge` under
the write lock, and nothing is held over `Answer`. `MaintainCapacity` includes the
eviction, with removals that fail (`stuck`) and a directory that cannot be read,
which the code counts as empty (`drift` records both). `WriteTorn` and `Crash` stop a write
between the two renames. A response is a version (its bytes and its validators)
and a variant (the headers named by `Vary`). A client's own `If-None-Match` is
forwarded (`ClientEtags`): a 304 to it refreshes and serves whatever entry was loaded
(`Misled`). `crossed` (history) are the entries to which a refresh was applied that
revalidated another body, because the entry was replaced after it was loaded
(`overtaken`), or did not agree already, or the 304 was the client's; `odd` says of a
loaded or served entry that its files did not agree when it was read, or that its 304
was the client's. Only these, and the entries of writes cut short (`torn`), are exempt
from the properties. Not every failure point of a write
is a state of its own: a temporary file that cannot be written leaves both files
as they were and is `PassOn`.

### Downloads

`dl[d]` is a request handler and then the worker it spawns; `Active` is the map of
the `Runtime`. `Register` puts a host into the runtime before `CheckHost` asks the
database; administrators (`SetBlock`, `RevokeToken`, `SetPermission`, `SaveConfig`)
commit first and signal (`SignalTargets`, `CancelBeforeWrite`) in a later step, or
never, when their own client goes away during the commit (`Committed`; `silent` is
the history of blocks without a signal). The
worker's loop is `NextChunk`, `PartAuth`, `PartHost`, `HostsDone`, `TakePace`,
`GivePace`, `Reauth`, `Charge`, `Send`; `Abandon` is the `select!` that drops it, with
the throttle's lock if it holds it; `Close` stores the failure before the channel
closes. `late` (history) counts parts queued after the token was revoked or
downloads were turned off.

### UpstreamSelector

`health` and `seen` are the table and the order of `last_seen`; `Rank` keeps the
numbers of `endpoint_rank`, and `Place` is where the stable sort puts a candidate.
`Begin` ranks once, `Fail` records and moves on, `BeginWithBody` is a request that
may not be replayed. A success is recorded with the status: `Answer` leaves the body
to be read (`Deliver`, or `BodyBreaks`, when the client is given the error although
other candidates are left), `Revalidate` an entry to be refreshed (`RefreshLost` is the
cache's worker failing, with the same end). Such a request is `broken`, not `failed`.
`Configure` and `WriteConfig` are the two steps of an update.

### Acme

`TriggerCheck`, `TriggerSend`, `TriggerMark` are the three steps of `trigger_renewal`,
between which the status lock is free. `Order` to `Failed` are the worker's
`refresh` and `issue_certificate`; `Subscribe`, `ReadCert`, `ReadKey`, `Renewed` the
listener. `challenges` are the domains that are answered, by this process (`http-01`) or
by records at a DNS provider (`dns-01`); a provider's answer may be lost after it made
the record (`PresentLost`) and a removal may fail (`CleanupFails`), and a crash leaves
all records of the order. `leftover` (history) has these and no others. A write of the key that fails after its rename leaves the listener
without a notification (`silent`, history): such a pair is served only after a
restart or the next issuance, and `PairServed` leaves it out.

### RuntimeConfig and DurableConfig

`row` and `acmeRow` are the two rows, `memory`, `acme`, `mgmt`, `client`, `webauthn` and
`selector` what `AppState` holds. `UpdateConfig` to `WriteClient` are the steps of
`update_admin_config`; `SaveFails` and `Disconnect` end a handler before and after its
save; `SaveGlass` is the edit a rename makes; `Restart` is `build_application`.
`DurableConfig` is what this promises: `Store` before `Enforce`, a `Start` enforces
what is stored. The mapping takes `stored` from the row, `inForce` from memory and
`pending` from the handlers that have saved and not yet written memory
(`StoredThenInForce` is `Durable!DSpec`). The abstract specification does not order
two changes, because the code does not.

### AdminAccounts

Extends `RuntimeConfig`. A request authenticates (`Authenticate`), reads and then
writes in transactions of their own, so a rename may come in between; the
database's foreign keys and the conditions of each statement decide what then
happens. A server has one administrator: the functions that create or disable
others are compiled for tests only.

### UserAccounts, ExternalSignIn

`LoginRead` and `LoginSucceeds` (or `LoginFails`) are the two transactions around the
verification of a password; `Register`, `CreateUser` and `InsertSession` those of a
registration. In `ExternalSignIn` a request is a `call` that moves from statement to
statement: `RetireTokens`, `StoreToken` for a request of a login; `ConsumeToken` or
`UseInvitation`, `FindUser`, `CreateByMail`, `AcceptInvite`, `OpenSession` for its use;
`Callback`, `Claims`, `BindIdentity`, `Join` for a provider. A provider is a row with a
slug, and identities refer to the slug: `SaveProvider` is the transaction that may
give it another one and takes the identities along (`Renamed`), if no subject is taken
there (`Movable`). A flow and a call keep the slug they read.

### Notifications

`ReadOutbox`, `Send`, `MarkOutbox` are a round of the outbox task, `Evaluate`, `PostWebhook`,
`QueueAlert` one of the alert task. The webhook's client has no timeout: `WebhookHangs`
leaves the task with its post until `StopNotifications` kills the process. `sends` and
`lost` (history) count deliveries and missing marks.

### SourceFiles

A command is a record of its own progress: the files it plans, the set of those
left, what was moved aside. `SaveRecord`, `MoveAside`, `Install` are the steps of a write;
`InstallFails`, `StepFails`, `ChangedMeanwhile` and `Killed` what may happen instead;
`AfterError` the undoing of a setup. `mine` (history) is what the user last wrote.

### IpAccess, GeoLookup, DatabaseFiles

`IpAccess` keeps the real comparison of prefixes on addresses of `Width` bits: `Mask`
is the arithmetic of `mask_ip`, `Covers` compares bit by bit.
`GeoLookup` is the loop of `XdbReader::lookup` on every file of up to `MaxRecords`
records. `DatabaseFiles` knows versions of the database, a log that belongs to one
file, and the names under which a restore keeps what it replaces.

### RequestGate

`UserRouting`, `ReadClock`, `Check`, `Admit` are the middleware of one request;
`LoginLimited` and `LoginEnds` the sign-in of the administrator, for the cookie and
for a token. A window is the queue of the code: `OverBy` is the loop that drops
readings from its front, which stops at the first that is not over. `passed` and
`missed` (history) keep all readings of the clock.

### PackageRequests, Redirects

Paths are sequences of tokens, so that prefixes, separators and base paths matter
and spelling does not; a token may be an encoded dot, slash or backslash, and one
that is encoded twice. `Decoded` is what the router's extractor does to a path, once;
`SanitizeRepositoryPath` and `SaneHubPath` judge what comes out, and `Normalised` is what
the parser of URLs makes of it then, for which an encoded dot is a dot. Queries and
ports are left out. A link's host may be longer than a known one and go on in its
path (`HostEnds`): adapters strip a text, not a host. `Settings`, `Paths` and
`Links` are assumed to be what `Config::validate`, the router and the parsers of
documents let through. `Ask` sends a path through the router and its adapter, `Forward` lists the candidates
(the URL alone for a request with a body),
`Document` shows a client a rewritten link, `Follow` asks for it, perhaps after
`Reconfigure`. `Redirects` is one request: `Depart` resolves the endpoint and sends,
the upstream answers anything, `SendUpstreamRequest`, `HubRedirect` and
`SendWithPublicAuth` decide what happens next; `trail` is the list of requests made, and
`token` says which realm gave it, at whose request and how its name was resolved.

### MC modules

`MCTrafficQuota`, `MCDiskCache`, `MCDownloads`, `MCUpstreamSelector`, `MCAcme` and
`MCAdminAccounts` only declare model values and name the configurations and the
symmetry the `.cfg` files use. `MCAccounts` and `MCOperations` run modules that share
no state side by side: the variable `part` says which of them a behaviour
exercises, and some parts leave variables alone to keep the instance small (in
`MCAccounts` a provider gets another slug in a part of its own, without invitations).
None of them redefines anything.

## 3. Runs

| Run | Instance | Checks |
|---|---|---|
| `QuotaRollover` | 2 requests, 1 user, 2 groups, 2 months, configuration with and without bidirectional accounting | `ReservationsBalanced`, `BilledOnce`, `CancelledIsSettled` (liveness) |
| `QuotaCaps` | 3 requests, 1 user with default, custom, unlimited and disabled profiles, a group with and without a cap, a download | `AdmissionBound`, `StatusMatchesAdmission`, `LedgerKept` (refinement) |
| `CacheConcurrent` | 2 handlers on one key, 2 versions with validators, 2 variants, clients with and without a validator of their own, cache on and off | `PairsAgreeUnlessCrossed`, `AccountingAgrees`, `ResponseConsistent` |
| `CacheEviction` | 1 handler, 3 keys, limits of 2 and 1 bodies | `WithinLimit`, `EvictsOldest` |
| `DownloadParts` | 2 transfers, bodies of 2 parts, daily budget of 3 | `BudgetHeld`, `CleanEndIsComplete`, `PermitReleased` (liveness) |
| `DownloadPolicy` | 1 transfer, 2 administrators, downloads on and off, redirects | `BlockEnforced`, `WithdrawnStops` |
| `SelectorFailover` | 2 requests, 3 endpoints, table of 2, two configurations, responses of 20 s and of 1500 s | `FailureIsTotal`, `HealthyFirst` |
| `AcmeRenewal` | 1 administrator who triggers, 2 domains, http-01 and dns-01, 3 issuances, 1 crash | `ChallengesCleared`, `NeverOlder`, `PairServed` (liveness) |
| `AdminConsole` | 2 requests, 2 names, 2 passkeys, 1 session token, 1 challenge, limit of 2 failures | `CredentialsBelongToAdmin`, `LockedIffLimit`, `InForceAgrees`, `StoredThenInForce` (refinement) |
| `Accounts` | 2 requests, 2 accounts, 1 invitation of each kind, 1 token, 1 flow, 1 provider with 2 slugs | `InvitationMakesOneAccount`, `LoginSessionsCurrent`, `LockAtLimit`, `InvitedAndJoined`, `TokenOpensOnce`, `IdentityStays` |
| `Operations` | 12 parts, below | `MailAccounted`, `AlertMailed` (liveness), `FilesKept`, `PolicyInForce`, `LookupFinds`, `RestoreSafe`, `RequestsLead`, `RedirectsKept`, `GateKept` |
| `CacheStaleRefresh` | as `CacheConcurrent` | refutes `PairsAgree` (section 5) |

The parts of `Operations`: 3 mails in batches of 2 with 2 attempts and 1 kill or lost
mark; 2 alerts over 2 channels; 2 sources and 2 files of agents with 2 failures and 2
edits; 2 administrators on 2 rules over 2-bit addresses of 2 versions; all location
files of up to 4 records and 6 addresses; restores with 3 kills over 3 versions; the
paths and links of every adapter under 2 configurations; 5 sites and up to 3
redirects; 11 requests at the gate one at a time, and 4 overlapping requests or
sign-ins over 3 readings of the clock.

**Bounds.** Each is the smallest at which the case that could go wrong occurs.
Two requests are needed for a race, a third so that a reservation is refused
while two are outstanding (a cap of 4 holds two reservations of R = 2, or one of a
bidirectional request). A chunk of 3 exceeds a reservation of 2, so a response
outruns its reservation. Two months and two groups suffice for a settlement at
the wrong row. Bodies of size 1 and 2 make a rewrite change the total; three keys
under a limit of two make an eviction choose. Two administrators interleave two
policy changes, of which one may be a configuration update in three steps. A table
of two with three endpoints evicts. Three issuances let the listener be notified
while it loads and renew after a crash. Counters without a bound in the code
(issuances, crashes, months, bytes, consecutive failures) are bounded in the
guards by `MaxIssue`, `MaxCrashes`, `LastMonth`, `MaxBody`, `MaxCharged` and
`MaxFailures`, `MaxDrops`, `MaxMails`, `MaxFaults`, `MaxSetups`, `MaxEdits`,
`MaxVersion`, `MaxKills`, `EndOfTime`, `MaxVisits` and `MaxPassword`.
Two handlers suffice for every overlap of a read with another's write; one token
or invitation, since both compete for it; limits of 2, so that the step before the
limit and the limit itself differ; three readings of the clock, so that a reading
can be late for a window of two. Symmetry is used only in runs without liveness.

`CacheStaleRefresh` refutes `PairsAgree`; `CacheConcurrent` checks, on the same upstreams,
that the refreshes named above and writes cut short are the only causes.

**Fairness.**
* `TrafficQuota`: weak fairness of `Server(r)`, the steps of spawned tasks and of
  handlers that wait only for the database. The tokio runtime polls a spawned
  task whether or not its client lives; nothing is assumed of clients, upstreams
  or administrators. The settlement may still be lost to a crash or a failed
  transaction, which `CancelledIsSettled` names.
* `Downloads`: weak fairness of the server's own steps and of the deadline
  (`Refuse` while connecting, `Interrupted` in the worker), which is a `tokio` timer
  started with the request. Upstreams may hang and clients may stop reading.
* `Acme`: weak fairness of the worker and of the listener, each a task of its own.
  The certificate authority may refuse every order.
* `Notifications`: weak fairness of the alert task. Webhooks and mail servers may fail
  every time. That a post comes back is not assumed: `WebhookHangs` may happen instead,
  and then `AlertMailed` asks for nothing.

Deadlock is checked in every run but two. In `Accounts` the rows run out (accounts
deleted, invitations used) and in `Operations` a search or a restore ends, or a bound
is reached; the other runs never stop.

## 4. What is proved

Each theorem holds for every value of the constants that satisfies the named
assumption of its module; TLC evaluates these assumptions in the runs. Sets of
requests, users, hosts, keys and so on are arbitrary, finite only where something
is counted or summed over them. All proofs have one shape: an inductive
invariant, one lemma per action or kind of action, and a temporal conclusion.

| Module | Theorem | Property |
|---|---|---|
| `TrafficQuotaProofs` | `TypeCorrect`, `QuotaBalanced`, `QuotaBounded`, `QuotaBilled`, `StatusIsAdmission` | `TypeOK`, `ReservationsBalanced`, `AdmissionBound`, `BilledOnce`, `StatusMatchesAdmission` |
| | `CountersAreLedger` | `LedgerKept` (refinement of `QuotaLedger`) |
| `DiskCacheProofs` | `CacheTypeCorrect`, `CountIsRight`, `LimitHolds`, `EvictionIsLRU` | `TypeOK`, `AccountingAgrees`, `WithinLimit`, `EvictsOldest` |
| | `FilesDescribeOneResponse`, `ServedAsDescribed` | `PairsAgreeUnlessCrossed`, `ResponseConsistent` |
| `DownloadsProofs` | `DownloadsTypeCorrect`, `BlockIsEnforced`, `WithdrawalStops`, `CleanEndHasEveryPart`, `BudgetIsHeld` | `TypeOK`, `BlockEnforced`, `WithdrawnStops`, `CleanEndIsComplete`, `BudgetHeld` |
| `RequestProofs` | `RedirectsAreKept`, `FailureAfterAll`, `GateIsKept` | `RedirectsKept`, `FailureIsTotal`, `GateKept` |
| | `PackageInvariance`, `RequestsAlwaysLead` | `PackageInv`, `RequestsLead` |
| | `HealthyBeforeCooldown` | `HealthyFirst` |
| `AdminAccountsProofs` | `ConfigTypeCorrect`, `ConfigIsDurable`, `ServesWhatIsStored` | types, `StoredThenInForce` (refinement), `InForceAgrees` of `RuntimeConfig` |
| | `ConsoleImplementsConfig`, `AdminTypeCorrect`, `CredentialsFollowRename`, `LockAtFailureLimit`, `ConsoleServesWhatIsStored`, `ConsoleIsDurable` | `AdminSpec => ConfigSpec`, types, `CredentialsBelongToAdmin`, `LockedIffLimit`, and the above for the console |
| `AccountsProofs` | `UserTypeCorrect`, `OneAccountPerInvitation`, `SessionsFollowPassword`, `LockOfParallelAttempts` | types, `InvitationMakesOneAccount`, `LoginSessionsCurrent`, `LockAtLimit` |
| | `SignInTypeCorrect`, `JoinedByInvitation`, `TokenUsedOnce`, `IdentityKeepsOwner` | types, `InvitedAndJoined`, `TokenOpensOnce`, `IdentityStays` |
| `OperationsProofs` | `RestoreKeepsData`, `SearchIsComplete`, `DeliveriesAccounted`, `FilesAreKept` | `RestoreSafe`, `LookupFinds`, `MailAccounted`, `FilesKept` |
| | `PolicyFollowsTable`, `AddressesJudged` | `PolicyCurrent`, `PolicyInForce` |
| | `AcmeTypeCorrect`, `ChallengesAreCleared`, `ServesNoOlder` | types, `ChallengesCleared`, `NeverOlder` |

`SumProofs` holds what the others need of sums over finite sets: the sum of nothing,
without one element, and after a change at one. It rests on two forms of induction
that are stated with sets instead of predicates (4.3). Type invariants
are proved and not repeated in the runs.

### 4.1 The invariants

**Quota.** `IInv == TypeOK /\ Ungrouped /\ ReservationsBalanced /\ AdmissionBound`.
`ReservationsBalanced` expresses each `reserved` counter by the cardinality of the
sets of requests that hold a plain or a doubled reservation there. It needs
`Ungrouped` (a request that has not reserved yet has no group), since otherwise
the scopes at which a request is counted could differ from those at which it
reserves. `AdmissionBound` in turn needs `ReservationsBalanced`: a settlement
replaces a reservation by a bill, and only if the counter really covers the
reservation (`ShareCovered`) does `MAX(0, ..)` subtract all of it and the sum stay
within the cap and the excess. `BilledOnce` adds `BilledInv`, a sum over all requests.
The proofs use that requests are finite, R > 0 and that caps are natural numbers,
no relation between caps and R, no bound on months, and no restriction on when
administrators act. For the refinement (`CountersAreLedger`), `OpenIsReserved` turns
the two cardinalities into the ledger's sum over all entries (`CountedSum`); what is
left is one lemma, that a statement that admits finds room in the ledger
(`RoomToAdmit`), and a case per action, which is a step of the ledger or leaves it
alone.

**Cache.** `CacheInv`: the files are well formed and `older` is a strict total order of
the bodies there are; each handler carries what its phase needs; while `CAPACITY` is
known and nothing drifted, it is the sum of the sizes and within its limit. For
`PairsAgreeUnlessCrossed` and `ResponseConsistent`, `PairInv` adds what each handler
holds: an entry that agreed when it was read, unless it is odd (`Consistent`), and,
unless it was overtaken, the body that is still in place or gone (`InPlace`). So a
refresh of a handler that is neither overtaken nor odd writes the metadata of the body
it finds.

**Downloads.** `DownloadsInv`: each transfer is `Sound` (what was queued, received and
checked, by phase), the throttle's lock is held by a transfer that is pacing, and
every block is `Enforced`: on a registered transfer that passed the host, or still to
be signalled, or else its administrator's handler was dropped (`silent`). `Covered` adds that what a user's transfers have queued or are about to
is within what was charged.

**Selector and redirects.** `SelectorInv`: the order of a request has exactly the
endpoints of its candidates (`RankedIsPermutation`, about the stable sort), and it
has failed only at the last of them. `HealthyFirst` itself has the bound below which an
average stands behind a cooldown. `RedirectsInv` adds to
`RedirectsKept` that a trail begins at the endpoint in use, that each of its requests
went to an address the name led to, and that only registries have tokens, which keep
what was known of their realm (`TokenKept`).

**Gate.** The limiters forget readings, so their own windows do not bound what has
passed. `RateOK(k, t)` says of every moment t: either the limiter still holds all
readings inside the window of t, and then its length bounds them; or a request with a
later reading has been there, and then those inside and those that still wait with
an earlier reading are together at most the limit and one for each other request.
`TryOK` says the same of sign-ins, for which those that verify count as well: they
were admitted before the last failure was recorded. `Routed` is what the place of a
request in the middleware says about it. `ResolvedIsFirst` shows that the loop of
`resolve_client_ip` computes its declarative form, `FirstUntrusted`.

**Package requests.** `PackageInv`: an answer has the form its adapter gives it
(`Shaped`), is accounted to that adapter (`AccountedFor`), and has encoded dots left only
where the adapter lets them through (`Strict`). While the client is not
sent anywhere, the configuration is the one the answer was made with, so the URL is
not arbitrary and the candidates agree with it (`Kept`). A link that a document showed
is one of the eight forms that adapters write (`Written`), for NuGet with a host that
is listed as long as the configuration is the same, or that begins with a listed one;
what comes of following it is the resource the link named (`Led`), and nothing for the
longer host. The proof has three layers: what the operators on
paths do (the first token that is no slash, the n-th of a set of positions, splitting,
decoding; normalisation leaves paths without dots alone); what each adapter can answer;
and for each form of link, that the router and the adapter read back what was written.
The last is where a slash too many or a prefix taken for a name would show.

**Configuration.** `ConfigInv` is the types and `Carries`: a handler that saves or
writes holds the edit it stored. The mapping to `DurableConfig` takes `pending` from
these. `SettledInv` says that, unless updates overlapped, at most one handler is
`Halfway` and everything else agrees. The console's own steps are edits of
`RuntimeConfig` or leave it alone, so all of this carries over (`ConsoleIsDurable`).

**Accounts.** `AccountsInv`: credentials belong to the administrator there is, and
`OpOK` says what a request in flight may still rely on after a rename. `UserInv`:
`OneEach` (an invitation and the account it made, a registration in flight included)
and `LoginsHold` (a session by password is of the present hash). `SignInInv`: a call
refers only to an invitation that was `SentTo` its address, and where invitations are
needed one without is `Entitled` by an account that exists or did; `Forward` is what
no step takes back. `IdentityKeepsOwner` needs of it the types only: that a rename finds
no subject taken makes the new rows equal to the old. `Once` ties a token to the one call that
consumed it.

**Operations.** `DatabaseInv` says which files exist at each step of a restore.
`GeoInv` says that a record containing the address is inside the remaining range of
the search. `OutboxInv` counts, per message, the sends that are recorded, in flight
or lost. `PolicyInv` says that the policy in memory is the table's, or an editor
`WillRefresh` it; `AddressesJudged` adds the arithmetic of masks (`MaskIsPrefix`): that
halving a quotient doubles its divisor, by induction over the bits, with the doubling
of 2^n from the number of subsets of 1..n, since the provers know nothing of powers. For `Acme`, `Tracked` ties challenges to the order in progress or to a fault and
`Numbered` orders what is stored, read and served. `FilesInv` is about the records: that
of a migration is `Alone`, each has the user's text unless the file has (`Recorded`),
files of package managers without a record are `Untouched`, and `CommandOK` is what the
running command relies on.

### 4.2 What the proofs changed

The proofs made assumptions of the models explicit: for instance that
`source_config_path` gives each target a file of its own, or that no mirror is named
like a path of the console. `PackageRequests` got the assumptions on configurations,
paths and links that validation and parsing justify, and with them the normalisation
of paths, without which a link with dots would not have been followed as the code
does. One definition was wrong in a way that TLC does not show:
two arms of a `CASE` in `UserAccounts` overlapped, where TLC takes the first and TLA+
leaves the choice open. Orders that were sequences (`DiskCache`, `SourceFiles`,
`Notifications`) became relations or sets where the code depends on no more.

### 4.3 Only model-checked

* Liveness: `CancelledIsSettled`, `PermitReleased`, `PairServed`, `AlertMailed`. The
  prover does not handle fairness and `ENABLED`.
* Induction over data in general: the library's induction rules take an operator as
  a parameter, which the provers cannot instantiate. Where an induction was needed
  (the binary search, sums, bits of addresses, the least reading in a window, the loop
  over proxies, positions in a path) it is done with a set of numbers or sets and its least element.

## 5. Findings

One run refutes what a comment says.

* `CacheStaleRefresh` / `PairsAgree`. `proxy/cache.rs:14` says "Serialize writers so
  body/metadata pairs and incremental accounting agree." On a 304 the handler
  writes back the metadata it loaded *before* the round trip. If another handler
  stored a newer response meanwhile, the new body stays with the old metadata.

Observations that modelling brought up and no run states:

* Cache: a client's own `If-None-Match` is forwarded beside the cached entry's
  (`proxy/mod.rs:178`); a 304 meant for the client's newer version then revalidates
  the old body (`Misled`, which the properties exempt).
* Selector: the failure penalty outlives the cooldown (`upstream_selection.rs:246`),
  so an endpoint gets no request again while another answers within it, although
  the repository's README promises "circuit recovery". The penalty of a cooldown
  stands for 1000 seconds, and `timeout.request_secs` has no upper bound: with a
  longer timeout a slow healthy endpoint can rank after one in cooldown
  (`BelowPenalty`). A body that breaks off after a good status, and a cache worker
  that fails in a refresh, end the request although candidates are left
  (`proxy/mod.rs:248`, `215`).
* ACME: each of the two files is replaced atomically, the pair is not
  (`acme.rs:318`); `refresh` looks only at the certificate's expiry.
  `trigger_renewal` may set `running` after the worker has finished (`acme.rs:142`).
  DNS records are known only to the order that made them: those of a failed removal,
  a lost answer or a crash stay at the provider.
* Configuration: two overlapping updates may leave memory and row different until
  the next change or restart (`InForceAgrees` excludes exactly that); the downloads
  are signalled before the new configuration is in memory (`main.rs:5280`); an update
  that overlaps a rename can leave the passkey policy on for an administrator with
  fewer passkeys than it asks for. The address of the public listener is taken from
  the stored document (`main.rs:1885`, `653`), although
  `docs/wiki/Troubleshooting.md:146` says that "Listener settings come from service
  startup configuration"; that of the management listener does come from there.
* IP rules: of two overlapping changes the older list may be installed last
  (`PolicyInForce` excludes exactly that).
* Sign-in by mail: two uses of an invitation's link at the same time both open a
  session; two requests for a login may leave two live tokens; an expired
  invitation can be renewed, since its status stays pending. Unlinking checks the
  number of identities before it deletes, so two requests can remove the last.
  A callback that overlaps a change of the slug binds its identity to the old slug,
  where the next sign-in does not look.
* Alerts: an error while the quota's alert is delivered skips the source health
  alert of that round, and the webhook's client has no timeout (`alerts.rs:176`), so a
  webhook that never answers stops all alerts (`AlertMailed` excludes both).
* Gate: each limit may be passed by the number of other requests that overlap, the
  sign-in's by twice that. Below a user's subdomain the console is not served, but
  the token API of administrators is (`main.rs:2846`).
* Restore: one killed between its two renames leaves the old log, and the next does
  not look for it (`torn` in `DatabaseFiles`). Two GeoIP installations at the same
  time share one temporary path (`geoip.rs:160`).
* Client: an interrupted write leaves the file aside, so a reset needs `--force`.
* Adapters: `build_url` drops the base path of a configured upstream for npm,
  Composer, Go, NuGet, crates, RubyGems and OCI; Composer's metadata is fetched from
  the first endpoint only; Composer rewrites links to `repo.packagist.org` and to
  GitHub over http to paths that no adapter serves (`Dead` in `PackageRequests`).
  Paths are decoded once before they are checked, and the parser of URLs takes the
  dots that are still encoded for dots: a name of dots that was encoded twice leaves
  the base path of an endpoint, though not its host; Hugging Face's adapter
  refuses it (`Loose`). NuGet's index strips a known host as text, so a link to a host
  that begins like it is rewritten, and refused when it is followed (`Longer`). A
  private upstream configured by name cannot redirect to itself; one configured by
  address can.

## 6. Plan

Done: the request path, downloads, certificates, configuration, accounts,
notifications, adapters and redirects, the client's files; the proofs of section 4.
Next:

**A composition** of `TrafficQuota` and `Downloads` over the shared monthly rows;
with it, `QuotaLedger` could have the bytes of a body instead of any amount.

## 7. Not modelled

* Request events, geographic statistics, download events and billing reports are
  written in the transactions modelled here, or only read them, and carry no state
  that a decision reads.
* The address rules of downloads are stateless predicates over URLs and DNS answers;
  those of redirects are in `Redirects`.
* `secrets.rs`, the ACME protocol, the APIs of DNS providers (`acme_dns.rs`), WebAuthn, token validation of OpenID Connect, SMTP and message
  templates are libraries or HTTP clients. The limits on mails per address are left
  out; changes of the registration mode are not exercised.
* Validation of single configuration fields is abstracted to a set of valid
  documents. Queries, ports and the formats of rewritten documents are left out of
  `PackageRequests`; CSRF tokens and response headers out of `RequestGate`.
* Installing GeoIP files, migrations, installation, start and shutdown, observability
  and static assets are I/O or run once.
* Of the client, the detection of the system, the contents of the files and its
  network checks; two clients at the same time, or an edit inside the moment
  between its check and its write, are not modelled.
* The web console.
