------------------------------ MODULE DiskCache ------------------------------
(***************************************************************************)
(* The disk cache of proxied responses (proxy/cache.rs) and the part of    *)
(* forward_request (proxy/mod.rs) that uses it.  An entry is two files,    *)
(* <key>.body and <key>.json.  Loads run under the read lock of            *)
(* CACHE_FILES and writes, refreshes and purges under its write lock, so   *)
(* each is one step here; the upstream round trip between the load and the *)
(* write holds no lock.                                                    *)
(*                                                                         *)
(* A response is abstracted to the version of the upstream resource, which *)
(* stands for its bytes and for its validators (ETag, Last-Modified), and  *)
(* to the variant of the headers its Vary names.  The clock is abstracted  *)
(* to entries that expire.                                                 *)
(***************************************************************************)
EXTENDS Integers, FiniteSets, FiniteSetsExt

CONSTANTS
    Requests,     \* concurrent handlers, each serving one request at a time
    Keys,         \* candidate URLs (SHA-256 of the URL in the code)
    Variants,     \* values of the headers named by Vary
    MaxVersion,   \* bound: versions 1..MaxVersion of an upstream resource
    Configs,      \* cache configurations, records [enabled, max]
    ClientEtags,  \* validators a client may send itself (0: none)
    MaxTorn,      \* bound: entries of which the last write was cut short
    None

Versions == 1..MaxVersion
\* Bodies grow with the version, so that a rewrite changes the total.
SizeOf(version) == version
Body == [version : Versions, variant : Variants]
Meta == [version : Versions, variant : Variants, fresh : BOOLEAN]
\* DiskCacheEntry; odd (history) says that its files were torn or crossed when
\* it was loaded, or that it was revalidated for another response.
Entry == [body : Body, meta : Meta, odd : BOOLEAN]
Config == [enabled : BOOLEAN, max : Nat]

ASSUME CacheAssumption ==
    /\ IsFiniteSet(Keys) /\ MaxVersion \in Nat \ {0} /\ MaxTorn \in Nat
    /\ Configs \subseteq Config
    /\ ClientEtags \subseteq 0..MaxVersion
    /\ None \notin Body /\ None \notin Meta /\ None \notin {200, 304}

VARIABLES
    body,      \* the .body files
    meta,      \* the .json files
    older,     \* <<x, y>>: the body of x was last modified before that of y
    capacity,  \* CAPACITY: None, or the counted [max, bytes]
    cfg,       \* cache section of the configuration in memory
    upstream,  \* current version of each upstream resource
    req,       \* the handlers
    torn,      \* history: keys whose last write stopped between the renames
    crossed,   \* history: keys whose metadata was written back by a refresh
               \* that did not revalidate the body the key has
    overtaken, \* history: handlers whose entry was replaced since they read it
    drift      \* history, since the bodies were last counted: "torn", a write
               \* stopped between the renames; "stuck", a removal failed;
               \* "unread", the directory could not be read

files == <<body, meta, older>>
vars == <<body, meta, older, capacity, cfg, upstream, req, torn, crossed, overtaken, drift>>

Idle == [phase |-> "idle"]

\* load: about to look the cache up; send: awaiting the upstream; answered:
\* its response (status, version) is here; served: the client is given a
\* response from the cache.
Request ==
    {Idle} \cup
    [phase : {"load", "send", "answered"}, key : Keys, variant : Variants,
     etag : ClientEtags, config : Configs, cached : {None} \cup Entry,
     status : {None, 200, 304}, version : {None} \cup Versions]
    \cup [phase : {"served"}, variant : Variants, response : Entry]

Present(files_) == {k \in Keys : files_[k] # None}

\* The modification times of S are strictly ordered.
InOrder(order, S) ==
    /\ \A x \in S : <<x, x>> \notin order
    /\ \A x, y \in S : x # y => <<x, y>> \in order \/ <<y, x>> \in order
    /\ \A x, y, z \in S : <<x, y>> \in order /\ <<y, z>> \in order => <<x, z>> \in order

TypeOK ==
    /\ body \in [Keys -> {None} \cup Body]
    /\ meta \in [Keys -> {None} \cup Meta]
    /\ older \subseteq Present(body) \X Present(body) /\ InOrder(older, Present(body))
    /\ capacity \in {None} \cup [max : Nat, bytes : Nat]
    /\ cfg \in Configs
    /\ upstream \in [Keys -> Versions]
    /\ req \in [Requests -> Request]
    /\ torn \subseteq Keys /\ crossed \subseteq Keys /\ overtaken \subseteq Requests
    /\ drift \subseteq {"torn", "stuck", "unread"}

Init ==
    /\ body = [k \in Keys |-> None] /\ meta = [k \in Keys |-> None]
    /\ older = {}
    /\ capacity = None
    /\ cfg \in Configs
    /\ upstream = [k \in Keys |-> 1]
    /\ req = [r \in Requests |-> Idle]
    /\ torn = {} /\ crossed = {} /\ overtaken = {} /\ drift = {}

-----------------------------------------------------------------------------
(* Files and their accounting.                                              *)

Forget(order, gone) == {p \in order : p[1] \notin gone /\ p[2] \notin gone}

\* The body of k becomes the one modified last.
Touch(k) == Forget(older, {k}) \cup ((Present(body) \ {k}) \X {k})

BytesOf(file) == IF file = None THEN 0 ELSE SizeOf(file.version)

Total(bodies) == SumFunction([k \in Keys |-> BytesOf(bodies[k])])

Without(files_, gone) == [k \in Keys |-> IF k \in gone THEN None ELSE files_[k]]

\* Mutant: the newest bodies go first.
EvictedNewest(bodies, order, max, stuck) ==
    LET removable == Present(bodies) \ stuck
        After(k) == {x \in removable : <<k, x>> \in order}
    IN  {k \in removable : Total(Without(bodies, After(k))) > max}

\* evict_disk_cache: bodies are removed, oldest first, while the rest exceeds
\* the limit; one that cannot be removed is passed over.
Evicted(bodies, order, max, stuck) ==
    LET removable == Present(bodies) \ stuck
        Before(k) == {x \in removable : <<x, k>> \in order}
    IN  {k \in removable : Total(Without(bodies, Before(k))) > max}

\* Mutant: the replaced body is not subtracted.
CountedTwice(previous, written) == capacity.bytes + written

\* The count after a body of size previous was replaced (saturating_sub).
Counted(previous, written) == Max({capacity.bytes - previous, 0}) + written

\* Mutant: the count is not compared with the limit.
TrustedBlindly(c, previous, written, elapsed) ==
    capacity # None /\ capacity.max = c.max /\ ~elapsed

\* maintain_capacity: the count moves incrementally and is trusted while it is
\* within the limit and less than 30 seconds old; otherwise the bodies are
\* counted again, and evicted while they exceed the limit.  A directory that
\* cannot be read counts as empty.
Trusted(c, previous, written, elapsed) ==
    /\ capacity # None /\ capacity.max = c.max /\ ~elapsed
    /\ Counted(previous, written) <= c.max

\* Key k now has a body of size written instead of previous.  A metadata file
\* may outlive its evicted body: that removal's failure is ignored.
MaintainCapacity(k, c, bodies, metas, order, previous, written) ==
    \E elapsed \in BOOLEAN :
      IF Trusted(c, previous, written, elapsed)
      THEN /\ body' = bodies /\ meta' = metas /\ older' = order
           /\ capacity' = [capacity EXCEPT !.bytes = Counted(previous, written)]
           /\ torn' = torn \ {k} /\ crossed' = crossed \ {k}
           /\ UNCHANGED drift
      ELSE \/ \E stuck \in SUBSET Present(bodies) :
              LET gone == Evicted(bodies, order, c.max, stuck)
              IN  /\ body' = Without(bodies, gone)
                  /\ \E left \in SUBSET gone : meta' = Without(metas, gone \ left)
                  /\ older' = Forget(order, gone)
                  /\ capacity' = [max |-> c.max, bytes |-> Total(body')]
                  /\ torn' = torn \ (gone \cup {k}) /\ crossed' = crossed \ (gone \cup {k})
                  /\ drift' = IF stuck = {} THEN {} ELSE {"stuck"}
           \/ /\ body' = bodies /\ meta' = metas /\ older' = order
              /\ capacity' = [max |-> c.max, bytes |-> 0]
              /\ torn' = torn \ {k} /\ crossed' = crossed \ {k}
              /\ drift' = {"unread"}

-----------------------------------------------------------------------------
(* forward_request, for one candidate URL.                                  *)

\* A cacheable request (GET, without Authorization, Cookie or Range) takes
\* its snapshot of the configuration.
Begin(r, k, v, etag) ==
    /\ req[r] = Idle
    /\ req' = [req EXCEPT ![r] =
          [phase |-> "load", key |-> k, variant |-> v, etag |-> etag,
           config |-> cfg, cached |-> None, status |-> None,
           version |-> None]]
    /\ UNCHANGED <<files, capacity, cfg, upstream, torn, crossed, drift>>

Served(q, entry) ==
    [phase |-> "served", variant |-> q.variant, response |-> entry]

\* Mutant: the variant is not compared.
LoadAnyVariant(r) ==
    LET q == req[r]
        k == q.key
        entry == [body |-> body[k], meta |-> meta[k], odd |-> k \in torn \cup crossed]
    IN  /\ q.phase = "load"
        /\ IF q.config.enabled /\ meta[k] # None /\ body[k] # None
           THEN /\ older' = Touch(k)
                /\ req' = [req EXCEPT ![r] =
                     IF meta[k].fresh
                     THEN Served(q, entry)
                     ELSE [q EXCEPT !.phase = "send", !.cached = entry]]
           ELSE /\ req' = [req EXCEPT ![r].phase = "send"]
                /\ UNCHANGED older
        /\ UNCHANGED <<body, meta, capacity, cfg, upstream, torn, crossed, drift>>

\* load_disk_cache: both files must be there and the variant must match; a
\* fresh entry is the response.  Failing to set the body's time is ignored.
Load(r) ==
    LET q == req[r]
        k == q.key
        hit == /\ q.config.enabled /\ meta[k] # None /\ body[k] # None
               /\ meta[k].variant = q.variant
        entry == [body |-> body[k], meta |-> meta[k], odd |-> k \in torn \cup crossed]
    IN  /\ q.phase = "load"
        /\ IF hit
           THEN /\ older' \in {older, Touch(k)}
                /\ req' = [req EXCEPT ![r] =
                     IF meta[k].fresh
                     THEN Served(q, entry)
                     ELSE [q EXCEPT !.phase = "send", !.cached = entry]]
           ELSE /\ req' = [req EXCEPT ![r].phase = "send"]
                /\ UNCHANGED older
        /\ UNCHANGED <<body, meta, capacity, cfg, upstream, torn, crossed, drift>>

\* The validators sent upstream: the ones the client sent, forwarded with the
\* other request headers, and the cached entry's.
Conditions(q) ==
    {q.etag} \cup (IF q.cached = None THEN {} ELSE {q.cached.meta.version})

\* The upstream answers: 304 if it recognises a validator (it may have none),
\* else 200.
Answer(r) ==
    LET q == req[r]
        now == upstream[q.key]
    IN  /\ q.phase = "send"
        /\ \E status \in IF now \in Conditions(q) THEN {200, 304} ELSE {200} :
             req' = [req EXCEPT ![r] =
                       [q EXCEPT !.phase = "answered", !.version = now, !.status = status]]
        /\ UNCHANGED <<files, capacity, cfg, upstream, torn, crossed, drift>>

\* The upstream fails (or answers with another status): nothing is cached.
Fail(r) ==
    /\ req[r].phase = "send"
    /\ req' = [req EXCEPT ![r] = Idle]
    /\ UNCHANGED <<files, capacity, cfg, upstream, torn, crossed, drift>>

\* The client goes away while the handler waits.
Disconnect(r) ==
    /\ req[r].phase \in {"load", "answered"}
    /\ req' = [req EXCEPT ![r] = Idle]
    /\ UNCHANGED <<files, capacity, cfg, upstream, torn, crossed, drift>>

\* refresh_cache_metadata: the metadata that was LOADED, with the validators
\* and lifetime of the 304, is written back and served with the loaded body.
\* A 304 that forbids storing changes nothing; the file write may fail.
Refreshed(q) == [q.cached.meta EXCEPT !.version = q.version, !.fresh = TRUE]

\* The 304 answered the client's own validator, which names another response
\* than the entry's.
Misled(q) == q.version # q.cached.meta.version

Refresh(r) ==
    LET q == req[r]
        k == q.key
    IN  /\ q.phase = "answered" /\ q.status = 304 /\ q.cached # None
        /\ \/ /\ meta' = [meta EXCEPT ![k] = Refreshed(q)]
              /\ crossed' = IF r \in overtaken \/ q.cached.odd \/ Misled(q)
                            THEN crossed \cup ({k} \ torn) ELSE crossed
           \/ UNCHANGED <<meta, crossed>>
        /\ \/ req' = [req EXCEPT ![r] =
                Served(q, [q.cached EXCEPT !.meta = Refreshed(q), !.odd = @ \/ Misled(q)])]
           \/ meta' = meta /\ req' = [req EXCEPT ![r] = Served(q, q.cached)]
        /\ UNCHANGED <<body, older, capacity, cfg, upstream, torn, drift>>

\* A 304 to the client's own validators, with nothing cached, is passed on;
\* so is a 200 when the configuration or the response forbids storing it.
PassOn(r) ==
    /\ req[r].phase = "answered"
    /\ \/ req[r].status = 304 /\ req[r].cached = None
       \/ req[r].status = 200
    /\ req' = [req EXCEPT ![r] = Idle]
    /\ UNCHANGED <<files, capacity, cfg, upstream, torn, crossed, drift>>

\* Mutant: an entry that exists keeps its metadata.
WriteBodyOnly(r) ==
    LET q == req[r]
        k == q.key
        new == [version |-> q.version, variant |-> q.variant]
        described == IF meta[k] # None THEN meta[k]
                     ELSE [version |-> q.version, variant |-> q.variant, fresh |-> TRUE]
    IN  /\ q.phase = "answered" /\ q.status = 200 /\ q.config.enabled
        /\ MaintainCapacity(k, q.config,
               [body EXCEPT ![k] = new], [meta EXCEPT ![k] = described],
               Touch(k), BytesOf(body[k]), SizeOf(q.version))
        /\ req' = [req EXCEPT ![r] = Idle]
        /\ UNCHANGED <<cfg, upstream>>

\* write_disk_cache: the body is renamed into place, then the metadata, then
\* the capacity is maintained.
Write(r) ==
    LET q == req[r]
        k == q.key
        new == [version |-> q.version, variant |-> q.variant]
    IN  /\ q.phase = "answered" /\ q.status = 200 /\ q.config.enabled
        /\ MaintainCapacity(k, q.config,
               [body EXCEPT ![k] = new],
               [meta EXCEPT ![k] = [version |-> q.version,
                                    variant |-> q.variant, fresh |-> TRUE]],
               Touch(k), BytesOf(body[k]), SizeOf(q.version))
        /\ req' = [req EXCEPT ![r] = Idle]
        /\ UNCHANGED <<cfg, upstream>>

\* The body was renamed and the metadata was not: the second rename failed,
\* or the process stopped there (see Crash).
WriteTorn(r) ==
    LET q == req[r]
        k == q.key
    IN  /\ q.phase = "answered" /\ q.status = 200 /\ q.config.enabled
        /\ body' = [body EXCEPT ![k] = [version |-> q.version, variant |-> q.variant]]
        /\ older' = Touch(k)
        /\ Cardinality(torn \cup {k}) <= MaxTorn
        /\ torn' = torn \cup {k} /\ drift' = drift \cup {"torn"}
        /\ req' = [req EXCEPT ![r] = Idle]
        /\ UNCHANGED <<meta, capacity, cfg, upstream, crossed>>

Finish(r) ==
    /\ req[r].phase = "served"
    /\ req' = [req EXCEPT ![r] = Idle]
    /\ UNCHANGED <<files, capacity, cfg, upstream, torn, crossed, drift>>

-----------------------------------------------------------------------------
(* The environment and the administrator.                                   *)

\* expires_at passes.
Expire(k) ==
    /\ meta[k] # None /\ meta[k].fresh
    /\ meta' = [meta EXCEPT ![k].fresh = FALSE]
    /\ UNCHANGED <<body, older, capacity, cfg, upstream, req, torn, crossed, drift>>

\* A new version is published upstream.
Publish(k) ==
    /\ upstream[k] < MaxVersion
    /\ upstream' = [upstream EXCEPT ![k] = @ + 1]
    /\ UNCHANGED <<files, capacity, cfg, req, torn, crossed, drift>>

\* purge_disk_cache forgets the count, then removes what it can.
Purge ==
    /\ \E bodies \in SUBSET Present(body), metas \in SUBSET Present(meta) :
        /\ body' = Without(body, bodies) /\ meta' = Without(meta, metas)
        /\ older' = Forget(older, bodies)
        /\ torn' = torn \ bodies /\ crossed' = crossed \ bodies
    /\ capacity' = None /\ drift' = {}
    /\ UNCHANGED <<cfg, upstream, req>>

\* update_admin_config, the cache section: requests keep their snapshot.
UpdateConfig ==
    /\ cfg' \in Configs
    /\ UNCHANGED <<files, capacity, upstream, req, torn, crossed, drift>>

\* The process stops: the files stay, the count and the requests are gone.
Crash ==
    /\ req' = [r \in Requests |-> Idle]
    /\ capacity' = None /\ drift' = {}
    /\ UNCHANGED <<files, cfg, upstream, torn, crossed>>

Step ==
    \/ \E r \in Requests :
        \/ \E k \in Keys, v \in Variants, e \in ClientEtags : Begin(r, k, v, e)
        \/ Load(r) \/ Answer(r) \/ Fail(r) \/ Disconnect(r) \/ Refresh(r) \/ PassOn(r)
        \/ Write(r) \/ WriteTorn(r) \/ Finish(r)
    \/ \E k \in Keys : Expire(k) \/ Publish(k)
    \/ Purge \/ UpdateConfig \/ Crash

\* The handler read an entry that is not fresh, and has not used it yet.
Holds(q) == q.phase \in {"send", "answered"} /\ q.cached # None

\* History: the body of a handler's key is replaced while it holds the entry.
Overtakes ==
    overtaken' = {r \in Requests :
        /\ Holds(req'[r])
        /\ \/ r \in overtaken
           \/ Holds(req[r]) /\ body'[req[r].key] \notin {None, body[req[r].key]}}

Next == Step /\ Overtakes

Spec == Init /\ [][Next]_vars

-----------------------------------------------------------------------------
(* What the cache promises.                                                 *)

\* "Serialize writers so body/metadata pairs ... agree" (cache.rs:14): unless
\* a write was cut short, the two files of an entry describe one response.
PairsAgree ==
    \A k \in Keys \ torn :
        body[k] # None /\ meta[k] # None =>
            /\ body[k].version = meta[k].version
            /\ body[k].variant = meta[k].variant

\* The same, but for what a refresh may leave behind: a pair that no write was
\* cut short in, and that no 304 was applied to which revalidated another body
\* (one replaced since it was read, one that was odd already, or the one the
\* client's own validator names), describes one response, whatever expires, is
\* evicted, purged or answered out of order.
PairsAgreeUnlessCrossed ==
    \A k \in Keys \ (torn \cup crossed) :
        body[k] # None /\ meta[k] # None =>
            /\ body[k].version = meta[k].version
            /\ body[k].variant = meta[k].variant

\* "... and incremental accounting agree": the incremental count is the size
\* of the bodies on disk, through rewrites, evictions that pass over a body,
\* purges and requests that still carry an older limit, unless a write was
\* cut short since the last count or that count found no directory.
AccountingAgrees ==
    capacity # None /\ drift \subseteq {"stuck"} => capacity.bytes = Total(body)

\* While the count is kept, the bodies fit the limit it was made for, unless
\* a removal failed.
WithinLimit ==
    capacity # None /\ drift = {} => Total(body) <= capacity.max

\* A response served from the cache, fresh or revalidated, carries the body
\* that its validators describe, of the variant the client asked for, even if
\* the files were replaced while it was being revalidated.  The exceptions are
\* an entry whose files did not agree when it was read, and a 304 to another
\* validator that the client had sent itself.
ResponseConsistent ==
    \A r \in Requests :
        req[r].phase = "served" =>
            LET s == req[r].response
            IN  \/ s.odd
                \/ /\ s.body.version = s.meta.version
                   /\ s.body.variant = req[r].variant

\* Eviction is least-recently-used: a write that removes body x keeps y only
\* if y was modified (or read, which sets its time) after x, or y is what was
\* written (now the most recent).
\* A purge, which forgets the count, and failed removals are exempt.
EvictsOldest ==
    [][capacity' # None /\ "stuck" \notin drift' =>
         \A x, y \in Keys :
            /\ body[x] # None /\ body'[x] = None
            /\ body[y] # None /\ body'[y] # None /\ \E z \in Keys : <<y, z>> \in older'
            => <<x, y>> \in older]_vars
=============================================================================
