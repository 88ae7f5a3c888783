# OpenWeights: TLA+ models and proofs

OpenWeights stores model weights in the Xet format on the Sia network. Clients
upload content-addressed *xorbs* (chunk containers) and *shards* (the recipe of
a file as terms over xorbs) to a CAS server; a gateway serves xorb bytes from
Sia through a disk cache. This directory models the parts of that system whose
correctness depends on the order of events, checks them with TLC on small
instances, and proves the most important invariants with TLAPS for all
instances.

## The system

| Component | State | Operations | Talks to |
| --- | --- | --- | --- |
| Xorb upload (`handlers/xorbs.rs`) | row in `xorbs`, bytes in `xorb_bodies` | `upload_xorb` | Postgres, Sia, rate limiter |
| Shard upload (`handlers/shards.rs`) | row in `shards`, `reconstruction_files`, `reconstruction_terms` | `upload_shard` | Postgres, Sia, rate limiter |
| Reconciler (`reconciler.rs`) | none of its own; a batch in memory | one sweep every 60 s over both tables | Postgres, Sia |
| Reconstruction reads (`handlers/reconstruction*.rs`, `coalesce.rs`) | none | V1, V2 and batch reads | Postgres, URL signer |
| Gateway (`gateway/handlers.go`) | none | `ServeXorb` | verifier, Postgres, cache, Sia |
| Gateway cache (`gateway/cache.go`) | LRU index under a mutex, files on disk | `Open`, `Put`, eviction, `FetchAndCache` | file system, Sia |
| Miss coalescer (`gateway/singleflight.go`) | one flight per hash | `Do` | cache |
| Rate limiter (`rate_limit.rs`, `rate_limit.lua`) | a bucket and a timestamp per key in Redis | check-and-take | Redis |
| API keys, JWT, sessions (`auth.rs`, `xet_jwt.rs`, `session.rs`, `handlers/auth/`) | `api_keys`, `sessions`, `oauth_state`, an in-process key cache | authenticate, revoke, touch, consume | Postgres |
| Signed URLs (`signed_url.rs`, `gateway/signed_url.go`) | keys: current and previous | mint, verify | none |
| Hugging Face API (`handlers/hfapi.rs`) | repositories, commits, refs, files, LFS objects | create, preupload, commit, resolve | Postgres |
| Metering (`metering.rs`, `gateway/metering.go`) | `usage_log` | insert | Postgres |
| HF proxy, console, ops, bench, docs | none of interest | | |

What makes it hard:

* **The pin-state tables have several writers and no row locks.** A request
  that inserted a row keeps it for as long as its Sia call lasts; meanwhile the
  reconciler may select the same row and write to it from a snapshot that is a
  whole batch of Sia calls old. `set_pin_state` (requests) and `set_pinned_xorb`
  (reconciler) prefer different object ids; `orphan_xorb` tests no state.
* **Statements are separate.** A xorb's row and its body, a shard's cross-check
  and its transaction, the check that a repository name is free and its insert,
  are different statements; a crash, a dropped request future or a failing
  statement may come between any two.
* **Reads race with writes.** A file is answered from the terms whose xorb is
  pinned at that moment, and downloaded later; two shards may describe one file
  differently; a commit may land between the queries of one request.
* **Ranges change convention.** End-exclusive in the tables, end-inclusive in
  URLs and HTTP, unsigned, in chunk indices, serialised bytes or unpacked bytes.
* **The cache does its file I/O outside its mutex.** `Open` captures a path and
  opens it later, `Put` renames a file and indexes it later, eviction unlinks.
* **Coalesced requests share one result**, including the cancellation of one
  client that is not theirs.
* **Time is read in several places.** Rate-limit readings arrive late and out of
  order, key caches outlive a revocation, URLs outlive the key that signed them.

`PROJECT.json` lists these hazards one by one, each with the line where it bites
and the properties that would notice.

What makes each component correct, in short: an accepted shard is durable and a
pinned row names an object with its own bytes, whoever wrote last; a row is
given up only after failures that count; every row settles; a finished download
is the file; coalesced ranges cover exactly the bytes of their terms; no byte
outside a signed range is sent; the gateway sends only verified bytes, accounts
for its disk exactly, downloads once per miss and answers every request unless
the download behind it never ends; a
bucket grants no more than its rate, and its Retry-After is long enough; a
revoked key fades and an ended session stays ended; a right to upload has an
origin, whatever chain of tokens led to it; a rotation leaves no URL behind that an up-to-date gateway
refuses; the head of a branch is its last commit and every committed file can be
read.

## Modules

| Module | What it is |
| --- | --- |
| `PinState`, `MCPinState`, `PinStateProofs`, `PinBudgetProofs` | Write path: `upload_xorb`, `upload_shard`, the reconciler, and the rows they share |
| `ObjectLife` | Abstract specification of a row as its readers see it; `PinState` implements it |
| `Reconstruction`, `MCReconstruction`, `ReconstructionProofs` | Read path: shard rows, V1, V2 and batch answers, the bridge, range grants, the gateway's ranges, a client's assembly |
| `XorbCache`, `MCXorbCache`, `XorbCacheProofs` | Gateway: cache, coalescer and `getXorbSource` |
| `RateLimit`, `MCRateLimit`, `RateLimitProofs` | The token bucket: `rate_limit::check` and its Redis script |
| `Access`, `MCAccess`, `AccessProofs` | Sign-in, sessions, API keys and their per-process cache, tokens |
| `SignedUrls`, `MCSignedUrls`, `SignedUrlsProofs` | Minting and verifying URLs across key rotations |
| `Repos`, `MCRepos`, `ReposProofs` | Repositories, commits, refs and their reads |

How they compose. `PinState` has everything that writes a pin state;
`Reconstruction` has everything that reads one, and its `PinMoves` lets a xorb's
state move as `ObjectLife` does (every state of a row except back to absent,
nothing first but `pinning`), which is more than `PinState` ever does because
`PinState` implements `ObjectLife`. So what holds on the read path holds with
the real write path under it. `ServeXorb` is cut where its parts meet: the
verdict on a URL is in `SignedUrls`, grants and ranges in `Reconstruction`, where
the bytes come from in `XorbCache`. `Repos` takes from the others only that
content appears in `lfs_objects`, `reconstruction_files` and `xorbs` and never
disappears. The token a client needs comes from `Access`, and each endpoint that
is rate limited takes one from the bucket of `RateLimit`; the other modules have a
refusal by either among the reasons a request ends early.

A definition keeps the name of the function it models where there is one.
Operators marked "Mutant of" are plausible bugs of the definition below them;
they are used by no specification and serve to show that each property can fail
(`mutants` in `PROJECT.json`).

### PinState

`rows[i]` is the row of a xorb or shard: `pin_state`, `sia_object_id`,
`pin_attempts` and `last_pin_attempt_at`, the last abstracted to the three cases
the sweep's `WHERE` tells apart (NULL, older than `STUCK_THRESHOLD`, younger).
Only rows that the statements can make are in the type (`Row`): a row that was
never attempted has no attempts and is neither `pinned` nor `orphaned`.
The two tables are used alike, so one function holds both. `bodies` is
`xorb_bodies`; `objects` is what Sia holds. `up[h]` is the program counter of a
request, `sweep`, `queue` and `snap` are the reconciler's loop variables.

One SQL statement is one step. A Sia call is merged with the statement that
records its outcome: the call touches no shared row, so what happens during it
is what happens before the merged step.

| Code | Action |
| --- | --- |
| `upload_xorb` up to `insert_pending` | `InsertXorb`, `DedupXorb` |
| body insert, error ignored | `StoreBody` |
| Sia call and report | `SiaAccepts`, `SiaFails` |
| `upload_shard`: revive, cross-check, transaction | `ReviveOrphans`, `CrossCheck`, `CommitShard`, `DedupShard` |
| any early end of a request | `AbortUpload` |
| `fetch_stuck_xorbs`, `fetch_stuck_shards` | `FetchStuckXorbs`, `FetchStuckShards` |
| `reconcile_xorb_row`, `reconcile_shard_row` | `TakeRow`, then `OrphanRow`, `RepinRow`, `ReuploadRow`, `FailRow`, `LostRow` or `SkipRow` |
| end of the sweep | `EndSweep` |
| time, crash, end of an outage | `AttemptAges`, `Crash`, `Stabilise` |

`acked`, `worst` and `stable` are history and environment, not state of the
program. `BudgetBelowThreshold` says how the request budget relates to
`STUCK_THRESHOLD` (5 minutes): well below it in the Compose file (20 s), at or
above it with the default of the code (300 s) or a larger setting. If it is
below, no row becomes stale under a running request, which is the guard of
`AttemptAges`.

Left out: parsing and hashing of bodies (a rejected request changes nothing),
metering, counters, and the content of reconstruction rows (`Reconstruction`).

`ObjectLife` is what remains for a reader: a row is inserted as `pinning`, gets
pinned under an id whose bytes are its own, may go back to `pinning` or be given
up, and keeps its id through all of it. `ImplementsObjectLife` maps a row to its
state and id and `objects` to the content of ids.

### Reconstruction

A chunk is a model value with two lengths, serialised and unpacked, so that the
two kinds of offset cannot be confused unnoticed. `size` and `terms` are the rows
of `reconstruction_files` and `reconstruction_terms`; `dl[c]` is the answer a
client works from, which stays as it was while rows and pin states move; `wire`
is the last body the gateway sent.

| Code | Definition |
| --- | --- |
| serialised and unpacked offsets, the content of segments | `PrefixSum`, `Offset`, `Length`, `Chosen`, `Content` |
| `upload_shard` up to its commit, refused or not | `UploadShard`, `RefuseShard`, with `parse_and_validate`, `PhysicalRange`, `UnpackedSize`, `Merged` |
| the pinned-only join | `get_reconstruction` |
| `coalesce_terms_by_xorb`, `build_response` | `Spans`, `Sorted`, `MergeSpan`, `Merge`, `coalesce_terms`, `ChunkRange`, `FetchInfo`, `Urls` |
| V1, V2 and batch handlers, 416 | `QueryReconstruction`, `QueryPastEnd`, `QueryBatch` |
| `xet_file_serve` | `ServeFile` |
| `ParseRange`, `allRangesWithinAny`, the section readers | `ParseSpec`, `ParseRange`, `allRangesWithinAny`, `Body`, `ServeXorb` |
| hf_xet, from how `src/` answers it (external) | `Request`, `Fetch`, `FetchFails`, `Assemble`, `Leave` |

Byte ranges are computed modulo `U64`, as the code's unsigned ones are: a term
whose byte range is unknown is stored as (0, 0) and becomes a range whose last
byte is the largest number there is.

Loops over rows and chunks are recursive functions on their index, and the sort is
the ordered listing of the distinct spans: the code sorts by start alone, but spans
with one start merge into the same range in any order.

`DownloadIsExact` says two things of a finished download. From the bridge it is the
file. From an answer it is the file if the rows' lengths add up to the recorded size
and no row is missing between them. Both conditions are needed. When two shards cut a
file differently, the rows of the second that come after those of the first can have
just the length of a row that the join with the pinned xorbs left out, so that an
answer with the right length has the wrong content; the instance of `read_path` has
such a file.

### RateLimit

`bucket` holds the two Redis keys and their expiry; a check is one step, because
Redis runs a script atomically. What the model leaves open is time: `check(lag)`
is given a reading that is behind real time by any of `Lags`, so readings arrive
late and out of order. Tokens are in thousandths and rounded where the script and
`rate_limit.rs` round. `since`, `granted`, `slip` and `told` are history.

### Access

`callback`, `upsert_user` and `mint_session` are the statements of the GitHub
callback, `login` and `logout` the admin's. `touch_session` is the session
extractor; the console's handler runs as a later step (`create_key`,
`revoke_key`). A bearer key is found in the process's cache (`BearerHit`) or read
from Postgres and put there in two steps (`BearerMiss`, `BearerLoaded`), with time
passing and a revocation possible between. `OwnToken` and `HfToken` are the two
kinds of JWT, each with the handler behind it (`Serve`: a repository is created, a
token minted, or data moved). `Tick` ages everything, `Restart` empties a cache,
`Abandon` ends a handler anywhere.

`key` holds every row of `api_keys`, the ones `upsert_synthetic_api_key` inserts
for the users of tokens included (`kind`). The lookup of a bearer string goes by its
hash and has no condition on the label, so these rows are found, cached, accepted
and revoked like the others, with the two scopes they are always given. Each token
remembers what its chain of mints began with (`origin`): whether that credential, a
bearer key or a token of Hugging Face, may upload, and whether it was a synthetic
row. `UploadNeedsUpload` says that a token that may upload goes back to a credential
that may, or to a synthetic row: a row made for a token that may only read is the
one place where the code gives a right its origin lacked, and `NoRightIsGained` is
the property without that exception. All repositories are public here and a token
that Hugging Face issued is taken as it is, like in the code, which has no key to
verify it with.

### SignedUrls

A key is the number of the rotation that made it. `Rotate` and `ClearPrev` are
the operator's edits of the environment, as the two `.env.example` files
describe them; `RestartMinter` and `RestartGateway` take it up, in
any order. A URL is its key and the time it has left; `Verify` tries the current
key, then the previous one. The operator waits until every process has taken up
a key and the lifetime of a URL has passed (`Rolled`) before the next edit.

### Repos

`create_select` and `create_insert` are the two statements of `create_repo`.
`commit` is cut at its statements: `commit_begin`, `commit_check` for each entry,
`commit_parent`, `commit_insert`, `commit_upsert`, which waits for the row lock of
the ref, and `commit_commit`. Under READ COMMITTED the others see nothing of a
transaction before its last step. `Drop` ends a handler at any of them and rolls
back. `model_info`, `siblings`, `resolve_lookup` and `resolve_commit_sha` are the
queries of the reading endpoints. `Backend` is the decision tree that finds where
the content of an entry is. `log` is history.

A commit is its id. The SHA a listing gives is derived from it, so it stands for
the same thing, except where the code itself confuses the two (below).

### XorbCache

Each critical section under the cache's mutex and each file-system call is one
step; requests interleave between them. `req[r]` is the position of a request in
`getXorbSource` (`stage` tells which of its three `Open` calls it is in),
`writer[r]` the download goroutine of a leader, `flight[h]` the singleflight
call. `tmp[h]` remembers who wrote the temporary file, so that two writers would
corrupt it. `DiskFails` lets every file operation fail; `Restart` kills the
process and leaves the files. The byte count of a list is `SizeOf`, the number of
bytes in the files it names; `Without` takes an entry out of the list, and
`evictLocked` is the least number of tails after which the budget holds.

Left out: ranges and signed URLs (modules of their own), metering, the metrics, and the file
descriptor that the leader's re-check opens and never closes
(`gateway/handlers.go:495`).

## Runs

Bounds are chosen so that each race has its participants: a request, a second
request that dedups or uploads the referencing shard, and the reconciler; a
leader, a follower and a request that evicts; two shards that cut one file
differently and a pin state that moves during a download; two callbacks with one
nonce; two processes that are a rotation apart; two commits on one parent and a
reader between.

| Run | Instance | Shows |
| --- | --- | --- |
| `any_budget` | 2 requests, a xorb, its shard, a xorb found `uploading`, batch 1, cap 2, 3 object ids, any budget | Object ids name their own bytes and are kept; an accepted shard is durable; rows are orphaned only at the cap and only after failures that count; `ObjectLife` is implemented |
| `short_budget` | 1 request, a xorb and its shard, batch 1, cap 3, short budget, fairness | No `pinning` row is stranded at the cap; the reconciler never demotes; once failures stop every row settles and a xorb with a body is pinned |
| `read_path` | 3 xorbs (one without stored boundaries), 3 files, 3 shards, 1 client, 3 start offsets, 11 Range headers | Coalesced ranges are the maximal runs of needed bytes; each entry holds the chunks it announces; a finished download without missing rows is the file; nothing outside a signed range is sent |
| `cache` | 2 requests, 2 xorbs, room for 1, disk failures, restarts, fairness | Exact accounting, indexed files are verified, served bytes are verified, one download per hash, none for a cached xorb; a request that is never answered shares a download that never ends |
| `bucket` | capacity 2, 100 tokens a minute, readings 0 or 300 ms late, keys that expire | Grants are bounded; Retry-After is enough |
| `access` | 1 process, 2 requests, 2 sessions, 1 nonce, 2 `api_keys` rows, 1 token, lifetimes of 1 (the token's 0), cut by `Scenes` | A revoked key fades, a nonce signs in once, dead sessions stay dead, an upload right has an origin |
| `rotation` | 2 CAS processes, 2 gateways, 2 clients, 2 rotations, lifetime 2, fairness | Only a gateway that is behind refuses a URL; every client is served in the end |
| `repos` | 2 writers, 1 reader, 1 repository, 2 commits, 10 payloads, fairness | The head is the last commit, parents are older, committed files are stored, a resolve agrees with its listing, every request ends |

A cap of 2 or 3 instead of 5 keeps the instance small; a cap of 2 still leaves
one retry before giving up, and `PinningIsSwept` needs at least 3 (a request and
a sweep may each add one attempt nobody else sees). Three object ids are one
more than there are rows that can hold one. In `bucket` the ticks leave fractions
of a milli-token, so that rounding in the wrong direction shows. A third commit
(with the payloads of a real client) was checked as well and the properties hold. In
`cache` the second request is the follower, or the one whose xorb evicts the first's;
the theorems about `XorbCache` hold for any number. In `access` the constraint
`Scenes` cuts the search in two: two sessions, or two requests under way, with at
most one `api_keys` row and no token, and one of each with everything else. The
races between requests are about one nonce, one session or one row, and a chain of
tokens needs several rows and one request at a time; the theorems about `Access` hold
for any numbers and without the cut. The theorems remove the bounds of every run, for
safety. Symmetry is used only in runs without liveness, over requests, ids, processes
and names of rows.

Fairness. In `PinState`: the reconciler task, a request that has begun, the
passing of time, and the end of the outage. Tokio polls ready tasks, every Sia
call is bounded by a timeout, and time passes; that failures end is the
hypothesis of the liveness properties (`stable`). Clients owe nothing. In
`XorbCache`: goroutines run (`Proceed`), and a download that is being read ends once
the client of its leader has gone, because it has that request's context. Nothing
else bounds a download in the gateway, so nothing is assumed of one whose leader's
client stays, nor of one that is blocked on its pipe because `Put` returned early
(`PutDrainsSource`, below), nor of clients. `EveryRequestAnswered` is therefore
relative to the download: a request that waits for ever leads or follows one that
never ends (`HeldUp`). In `Repos`: a
handler that has begun is polled, and Postgres hands a row lock to a waiter when
its holder ends, which dropping a transaction guarantees. In `SignedUrls`: the
operator restarts every process after an edit, a client without a URL asks for
one, a refused client asks again (weak), and a client that can fetch again and
again does so once (strong, because URLs expire between attempts).

### Disagreements between text and code

Runs that end in a violation (quoted under `findings`):

| Run | The text says | The code |
| --- | --- | --- |
| `acked_lost` | 200 because the body is durable | the body's INSERT may have failed, its error is dropped |
| `outage_orphans` | transient failures do not count toward the cap, a passing outage cannot strand durable data | a Sia call on a xorb that times out counts (on a shard it does not), so timeouts alone orphan a xorb whose body is stored |
| `partial_file` | 404 on any reference that is not pinned | the terms of a pending xorb are dropped one by one, and the rest is answered with 200 |
| `lost_commit` | commits form a chain, no history truncation | two racing commits get the same parent, and one of them is no longer reachable from `main` |

Others that the modules state and no run is kept for. To see the trace, put the
property in place of those of the named configuration:

| Property | Configuration | The text says | The code |
| --- | --- | --- | --- |
| `PinnedIsFinal` | `MCPinState_any_budget` | no arrow leaves `pinned` (docs-site `write-path.mdx`) | a request that times out late sets a pinned row back to `pinning` |
| `AcceptedShardReachesSia` | `MCPinState_short_budget` | the reconciler retries the shard once contracts exist (`shards.rs`) | its bytes are kept nowhere; it is orphaned |
| `PinningIsSwept` | `MCPinState_any_budget`, cap 3 | after 5 failed attempts a row is orphaned (`reconciler.rs`) | with a long request budget it stays `pinning` at the cap, never selected again |
| `PutDrainsSource` | `MCXorbCache_cache` | `Put` drains its source (`cache.go`) | it returns early when the file cannot be written, and the flight hangs with every follower |
| `EmptyAnswerMeansGone` | `MCXorbCache_cache` | a follower of a canceled leader falls back to Sia or gets a 502; nothing is written only when the client is gone (`handlers.go`) | a follower whose client is there gets an empty 200 |
| `TermsTileTheFile` | `MCReconstruction_read_path` | rows that conflict are identical (`queries/shards.rs`) | two shards may cut one file differently, and their rows are mixed |
| `RangedAnswerStartsThere` | `MCReconstruction_read_path` | the answer is served from `start` (`reconstruction.rs`) | it starts at offset 0, and says so |
| `AtMostOneExtraGrant` | `MCRateLimit_bucket` with `Lags = {0, 1800}`, `MaxSlip = 6000` | a clock that is far behind yields one extra grant (`rate_limit.lua`) | it yields the refill of the time it is behind, up to a full bucket |
| `NoUrlIsOrphaned` | `MCSignedUrls_rotation` | a wide rotation orphans no URL (`signed_url.rs`) | a gateway not yet restarted refuses URLs of the new key |
| `RevokedWithinTtl` | `MCAccess_access` | a revoked key is stale for 5 s (`auth.rs`) | 5 s and the time of the SELECT that filled the cache |
| `MinterHadBothScopes` | `MCAccess_access` | who mints a write token had upload and download (`auth.rs`) | the upload scope alone mints one, and the token may download |
| `NoRightIsGained` | `MCAccess_access` | the synthetic row is a sentinel "so the FK holds" (`xet_jwt.rs`) | it has both scopes and the lookup of bearer keys finds it |

Read while modelling and stated by no property, because they are about one
request alone: model info by SHA is always 404; `x-repo-commit` is the hexadecimal
id of the head and not the SHA of the listing; a commit's manifest has only its
own files, so a second upload drops the earlier ones and a commit of deletions
empties `main`; an Xet hash that comes with a size is not looked up; the slower of
two racing `create_repo` calls gets 500 and not the idempotent answer; a revoked
synthetic row is never made anew, so later tokens of its user are attributed to a
revoked key; the path comparison in
`Open` cannot tell a stale entry from a newer one for the same hash;
`load_xorb_body` says row and body are inserted in one transaction;
`metering.go` promises exactly one row per request and drops it on error.

## Proofs

`PinStateProofs` proves, for any sets of xorbs, shards, requests and ids, any
cap, batch and budget (assumptions: `ItemsAssumption`, `NullAssumption`,
`BoundsAssumption`):

* `TypeCorrect`: the type invariant;
* `PinnedNamesItsObjectAlways`, `AcceptedShardIsDurableAlways`,
  `OrphanedMeansExhaustedAlways`, `OutageNeverOrphansAlways`: the invariants of
  `any_budget`;
* `ObjectIdIsKeptAlways`: its action property;
* `PinStateImplementsObjectLife`: the refinement.

None of the invariants is inductive alone. The inductive invariant is

    IInv == TypeOK /\ SweepInv /\ DurableInv /\ ObjectInv /\ OrphanInv

* `SweepInv` relates the reconciler's snapshot to the rows that have moved on: a
  row in the batch exists, is not orphaned, and has at least the attempts of its
  snapshot (`SnapshotsLagBehind`), because only the reconciler orphans and only
  an orphan's counter is reset. This is why testing the cap on the snapshot
  never orphans early.
* `DurableInv` says what a request in the middle of its handler knows: its row
  exists, and what the cross-check saw still holds when the transaction commits,
  because no statement deletes a row or a body.
* `ObjectInv` extends `PinnedNamesItsObject` to the ids in snapshots.
* `OrphanInv` is `OrphanedMeansExhausted` and `OutageNeverOrphans`.

The lemma `RowSteps` carries the argument: every step, of any actor, does one of
seven things to a given row (`RowKept`, `RowInserted`, `RowReported`,
`RowRevived`, `RowPinned`, `RowGivenUp`, `RowRetried`), and the last two
invariants and the action property follow from that list alone. The refinement
does too: each of the seven is a step or a stutter of `ObjectLife`, given that a
request or a sweep knows only ids that hold its own bytes (`ObjectInv`), and an
id that a row stores is never handed out again.

`RateLimitProofs` proves, for any capacity, any rate of at least a token a second
(`RateAssumption`; every class of `rate_limit.rs` has one), any expiry and any
delay of readings: `BucketTypeCorrect`, `BucketGrantsAreBounded` and
`RetryAfterHintIsKept`. The bound is inductive with the types. The hint is not:
the strengthening `DeadlineIsCovered` says that the milliseconds left until the
time the first denied caller was given are enough for its token even at one
milli-token each, which is what rounding down leaves of a rate of at least one
token a second, however often the bucket is polled. This is where the
assumption on the rate is needed.

`SignedUrlsProofs` proves, for any processes, clients, rotations and lifetime
(`UrlAssumption`): `RotationTypeCorrect` and `RotationOrphansNothingOld`. The
inductive invariant relates the environment to every process: a CAS process is at
most one key behind (`MinterInv`), a gateway is up to date, before the rotation or
before the clearing (`GatewayInv`), and a URL of the previous key either can still
be minted or expires before the rotation counts as over (`UrlInv`).

`PinBudgetProofs` proves `PinningIsSweptAlways` and
`ReconcilerNeverDemotesAlways`, under two hypotheses that a deployment has to
meet: the request budget is below `STUCK_THRESHOLD` (`BudgetBelowThreshold`; 20 s
against 5 min in the Compose file) and the cap is at least 3 (it is 5). TLC finds
`PinningIsSwept` violated without either: with a cap of 2, and with a long budget
at caps 3 and 5. The strengthening `HolderInv` counts who may still touch a row.
Only the request that won the insert reports on it (`OneHolder`); until it has,
the row cannot become stale, so the reconciler selects it at most once, as a NULL
timestamp, and it has at most one attempt (`HeldIsFresh`); a row of the batch is as
it was selected unless that request reported since, for the first time
(`BatchIsCurrent`). So a handler's increment and a sweep's, neither of which sees
the other, add up to two at most, and the cap is reached only by a sweep that
knows the count.

`XorbCacheProofs` proves, for any finite set of xorbs, any sizes and budget, any
number of requests, with and without disk failures: `TypeCorrect`,
`AccountingCorrect`, `IndexCorrect`, `BytesAreVerified`, `FetchesAreSingle` and the
action property `NothingCachedIsFetched`. The inductive invariant says what a
request may rely on at each point of its handler (`Knows`): who runs the function
of a flight is the leader the flight names, and conversely (`FlightInv`); a leader
past its re-check holds a hash nobody else can insert, so the xorb is still not
cached when its bytes are complete; the temporary file it writes is its own, what
it renames is verified, what it indexes is on disk. With that no eviction can
unlink a file between its rename and its indexing, and no file is ever bad. That
`evictLocked` ends, and at the right place, needs a least element
(`LeastNumber`, from the library's well-founded orders); that the count is exact
needs the cardinality of a disjoint union, for which `Hashes` is assumed finite.

`AccessProofs` proves, for any processes, requests, keys, sessions, nonces, tokens
and lifetimes (`AccessAssumption`): `TypeCorrect`, `RevocationFades`,
`NoncesSignInOnce`, `UploadHasAnOrigin` and the action property
`DeadSessionsStayDead`. `AgesAgree` carries the first: a cached row was active when
the SELECT behind it began, so a key has been revoked for at most the age of the
entry and the time of that SELECT; a row on its way was active when its own SELECT
began. `NoncesAreSingle` carries the second: a nonce is spent as soon as one
callback has it and is then with one request or one session, never with two.
`OriginsCover` carries the third: what is recorded of a chain's first credential is
true of it (a console key with the upload scope is recorded as one), each exchange
asks for the scope it hands on, and only the rows `upsert_synthetic_api_key` makes
have a scope that nobody asked for.

`ReposProofs` proves, for any repositories, requests (finitely many), readers,
payloads and number of commits (`ReposAssumption`): `TypeCorrect`, `HeadCorrect`,
`ParentsCorrect`, `FilesCorrect` and `ResolveCorrect`. The invariant says what a
commit knows after each of its statements (`RequestKnows`): its rows are those of the
entries checked so far and their content is still stored, because nothing deletes
it; its parent has been visible before; its id is nobody else's and not visible
yet. `ReaderKnows` says of a reader that what it holds is what its commit has,
because no statement changes a visible commit (`Persists`).

`ReconstructionProofs` proves, for any xorbs, chunk lengths, shards, files, Range
headers, clients and modulus: `TypeOKAlways`, `CoalescedIsMinimalCoverAlways`,
`EntriesFitTheirChunksAlways`, `DownloadIsExactAlways`, `ServedInsideGrantAlways`, the
action property `RowsOnlyGrowAlways` (no step rewrites a row or a size) and, from it,
`AnswersAreRowsAlways` (the rows a client works from are a subsequence of the file's
rows as they are now). The assumptions are `LengthsAssumption` (chunks are not empty, a xorb is smaller than the
modulus), `ShardsAssumption` (segments lie in their xorbs and, put together, are the
file) and `SpecsAssumption` (what `ParseRange` splits a header into).

What loops compute takes induction. The library's induction theorems have an operator
as a parameter and cannot be used, so the module states its own with sets in their
place: every nonempty set of numbers has a least one (`LeastNumber`), hence a set that
has 0 and with each number the next has all up to `N` (`Induction`), and a function
whose values follow each from the one before exists (`Recursion`). On these rest

* `SumFacts`, `SumGrows`, `SumConcat`, `OffsetOrder`: offsets are sums and, because
  chunks are not empty, strictly increasing, so that byte order is chunk order;
* `FlattenFacts`, `ContentLength`, `PrefixOfSize`: the length of some rows' content is
  the sum of their `unpacked`, and two prefixes of the rows with the same sum are the
  same prefix;
* `KeptLoop`, `KeptFacts`, `KeptIsSubsequence`: an answer is made of rows of the file,
  in order;
* `SortExists`, `MergeStep`, `MergeFacts`: the listing `Sorted` chooses exists, and the
  merge loop keeps that its ranges are in order with a gap before each, hold every span
  seen so far and no byte of none, and begin and end where some span does (`Covers`).
  From there `RunsFacts` (they are the maximal runs) and `EntryFacts` (the chunks that
  `build_response` recovers from a range are exactly its chunks: the first of the term
  that begins it up to the last of the term that ends it).

The inductive invariant is `IInv`. `FileInv` carries `DownloadIsExact`: the size of a
file is that of the rows of one shard, and these rows come first in the table, because
later shards only add after them; a prefix of the rows with that size is therefore
that shard's description. `FitRows` (a row's byte range is the one of its chunks, or
unknown) is what the entries need, and `ClientInv` says that the URLs a client holds
sign ordered ranges and that what it rebuilt is the content of its rows. Without the
order `ServedInsideGrant` would fail: without a Range header the grants are served as
they are, and a range that ended two bytes before its start would have a length that
wraps.

Assumptions on constants are in the modules that declare them, and every run
evaluates them. The ones that say `NULL` is no value of a table state what NULL
means. The inductive invariants were checked by TLC on the instances of the runs
before they were proved.

Only model-checked are the liveness properties (`EveryRowSettles`,
`DurableXorbReachesSia`, `EveryRequestAnswered`, `EveryRequestEnds`,
`EveryClientServed`): fairness is beyond the prover.

## Not modelled

* Merkle hashing and the decoding of a shard's bytes: byte-level codecs without
  state. A body that fails them is refused before anything is written; what a
  decoded shard says is in `Reconstruction`.
* Usage metering, `record_download`, metrics and health: single inserts or reads
  whose failure is ignored and that nothing reads back.
* Catalogue, statistics and listing reads of the Hugging Face and admin APIs,
  preupload and the LFS batch answer: queries that change nothing and that no
  later step trusts.
* Error mapping, boot configuration, the admin setup wizard, the proxy
  (stateless), the console, operations, benchmarks and the vendored SDK.

`PROJECT.json` gives the reason for each component.

## Plan

What is left: action properties of a rotation (`SignedUrls`) and of the bucket
(`RateLimit`), from the invariants that are proved, and proofs of the liveness
properties, should the prover learn fairness.
