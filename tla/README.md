# A TLA+ model of apt-blitz

apt-blitz is an HTTP forward proxy for APT clients.  It downloads one file
over several ranged requests at once, lets concurrent clients of one URL share
a download, and keeps the result in a disk cache indexed in SQLite.  This
directory holds TLA+ modules that model it, from the lock-free buffer to the
commands of the administration tool, TLC configurations that check them on small
instances, and TLAPS proofs about them.

## 1. Inventory of the system

Paths are relative to the repository's `src/`.

| component | state it keeps | operations | interacts with |
|---|---|---|---|
| segment buffer (`buffer.rs`) | claim cursor, vector of segments, `ready_count`, `all_assigned`, `failed`, sparse temporary file | `claim_range`, `write_data`, `mark_ready`, `all_completed`, `set_failed`, reads | workers write it, streams read it, the persistence task fails or syncs it |
| response streams (`proxy.rs`, `make_buffer_stream`) | current segment, offset in it, whether the error was sent | poll | reads a segment buffer without being notified reliably (100 ms polling) |
| downloader (`downloader.rs`) | active worker count, ready channel, join set, cancellation token; per worker: segment, attempt, offset | spawn, claim, request, write, retry, mark, abort | segment buffer, worker limiter, upstream bucket, upstream server |
| coalescer (`coalescer.rs`) | map from URL to Pending(waiters) or Downloading(buffer), map of failures by generation change | `register`, `attach_buffer`, `complete`, `fail`, `etag_failed_for` | requests (leader and followers), persistence task |
| request resolution (`proxy.rs`, `resolve_with_coalescing`, `handle_proxy_inner`) | per request: retry budgets, role | cache lookup, revalidation, registration, waiting, HEAD, start of a download | cache, coalescer, failure tracker, upstream |
| cache persistence (`proxy.rs`, `spawn_cache_persistence`) | none of its own | sync, xz check, store, complete or fail | downloader's result, cache, coalescer, failure tracker |
| failure tracker (`proxy.rs`, `FailureTracker`) | per URL: failures and time of the last | `record_failure`, `record_success`, `in_cooldown`, eviction | request resolution, persistence |
| disk cache (`cache.rs`) | SQLite rows, files | lookup, refresh, store with eviction, delete, clear | persistence, request resolution, `blitzctl` in another process |
| rate limiting (`rate_limit.rs`) | tokens and time of the last refill; per-IP semaphores; worker semaphore | `try_consume`, `wait_consume`, `acquire`, `sweep` | workers, streams, request handling |
| throttled bodies (`proxy.rs`, `ThrottledPermitStream`) | pending bytes, sleep | poll | per-IP bucket, IP permit |
| FTP (`ftp.rs`) | control connection, data connection | login, PASV, REST/RETR, multithreaded download | segment buffer; unreachable through `handle_proxy_inner` |
| CONNECT tunnel (`proxy.rs`) | none | read the head, choose a way by `no_proxy`, dial, SOCKS5/HTTP handshake, copy | upstream proxy |
| server life cycle (`lib.rs`) | connection tracker | accept, shut down, startup cleanup | everything |
| configuration (`config.rs`) | none | parse sizes, URL maps, precedence | everything at startup |
| cache administration (`bin/blitzctl`) | none | hosts, tree, find, info, cat, cp, rm, clear | the cache's database and files |

### Interactions

A request that reaches `handle_proxy_inner` looks in the cache and asks the
coalescer for a role.  A *leader* sends HEAD, makes a buffer, spawns
`download_multithreaded` and the persistence task, attaches the buffer to the
coalescer and answers with a body that streams from it.  A *waiting* follower
gets the same buffer through a oneshot channel; a *joining* one takes it from the
map.  The workers write the buffer, the bodies read it; nobody else knows both.
When the download task ends, the persistence task syncs, verifies and stores
the file, or fails the buffer, and only then takes the entry out of the
coalescer.  Everything is tokio tasks on several threads: what is between two
awaits is interleaved with other threads at the grain of the locks and atomics
it takes, and a handler is dropped at any await when its client goes away.

### What is hard, and what makes each component correct

The hazards of the code, each at its line, are in `PROJECT.json`.  In short:

* **buffer** - the cursor is lock-free, the vector has a lock, the counter
  is a third step.  Correct when claims partition the file, what is Ready is
  whole and final, and completeness is never claimed too early.
* **streams** - several reads of the buffer per decision, notifications that can
  be lost.  Correct when a body never repeats, never shows a hole, ends, and ends
  with an error when a range is lost; and, as the tests say, when it is the file.
* **downloader** - tasks counted by a counter, joined in another order, aborted
  at any await, sharing permits with other downloads; a mirror that republishes.
  Correct when Ok means one whole generation, when the driver stops only after
  the last write, and when it always stops.
* **coalescer and request flow** - a cache miss is stale by the time of the
  registration; a leader can vanish between registration and attachment; answers
  race timeouts; a full map.  Correct when no waiter is forgotten, downloads of a
  URL do not overlap, every request gets an answer, every entry leaves.
* **persistence** - each of its steps can fail after the download succeeded.
  Correct when each failure leaves the map, no kept file is out of sight, and
  only real failures count towards the cooldown.
* **disk cache** - file and row are two writes; revalidation, eviction and
  `blitzctl` interleave.  Correct when a served row has its own file, sizes
  are counted, eviction stays within the limit.
* **rate limiting** - lock-free tokens, integer rounding, permits outliving their
  map entry.  Correct when the rate is neither exceeded nor starved, no permit is lost
  and no body waits for tokens without a timer.
* **server life cycle and tunnels** - Ctrl+C in any turn of a biased loop, connections
  that end anywhere.  Correct when the service ends once told to, and a tunnel
  takes the way that `no_proxy` names.
* **FTP** - workers joined in the order of their spawning, replies that are not
  looked at.  Correct when Ok means a complete buffer and a kept file is the server's.
* **configuration and administration** - two programs read the same files with
  functions of their own; five views of one table with five algorithms.  Correct
  when they agree, and when what is shown can be named and what is removed is gone.

## 2. Plan

The most important behaviour first; each stage is one or more modules, their runs, their proofs.

| stage | modules | state |
|---|---|---|
| 1 | `SegmentsBuffer` implements `RangedDownload`; `BufferStream` composes it with readers | checked; safety and refinement proved |
| 2 | `Coalescer`; `RequestFlow` composes it with requests, persistence, cooldown | checked; safety proved |
| 3 | `Downloader` composes `SegmentsBuffer` with driver, attempts and server | checked; safety and refinement proved |
| 4 | `Cache`: store, lookup, serve, revalidation, eviction, `blitzctl rm/clear`, a crash between any two; `Freshness` | checked; safety proved |
| 5 | `TokenBucket`; `Throttle` composes it with bodies, workers and pass-through | checked; safety proved |
| 6 | `Server` composes the accept loop, the limits of `rate_limit.rs` and tunnels over `NoProxy` | checked; safety proved |
| 7 | `Ftp` composes `SegmentsBuffer` with the FTP workers and their request; `Addresses` | checked; safety and refinement proved |
| 8 | `Settings`, `Sizes`, `Views`; `Admin` composes them with a server and its rows | checked; safety proved |

Left: what a normalized path is, durations as opposed to sizes, whatever the assumptions of `MC_Admin` and `MC_Ftp`
compare beyond the theorems of section 6; the eviction of the failure tracker.

## 3. The modules and the code

`PROJECT.json` maps each definition to its lines.  Names follow the source
(`nextUnassigned` is `next_unassigned`, `Claim` and `Push` are the two halves of
`claim_range`).  An action is what runs between two points where another thread
or task can see or change shared state.

**`RangedDownload`** is the abstract promise of a buffer: a unit of the file is free,
then being fetched, then sealed, in this order only; units are handed out from
the front; sealed units have content and never change.

**`SegmentsBuffer`** (`buffer.rs`, and the worker as the buffer sees it).
`nextUnassigned`, `segments`, `readyCount`, `allAssigned`, `failed` and `file` are
the fields of `SegmentsBuffer`; `pc`, `lo`, `hi`, `seg` the locals of a worker.
`Claim` is the compare-exchange on the cursor, `Push` the critical section that
follows; `Mark` changes the state under the lock, `CountReady` adds to the
counter after it; `Spawn`, `WriteData` and `MarkReady` are what the buffer expects of its
callers: one worker more per Ready segment, writes inside the worker's own range, a mark of what is
whole.  The methods themselves check none of this; without these guards they are `Enlist`,
`Write` and `Mark`, which is what the modules of the callers use.  `Die` is a
worker that returns an error or is aborted, which leaves its range as it
is.  Offsets count units of the file (bytes in the code), and segments are numbered from 1.

**`BufferStream`** (`make_buffer_stream`) adds the bodies.  One action is one pass of
the polling loop; the end of the body is decided in two, `Poll` (reads
`num_segments`) and `Conclude` (reads `all_completed`), because the code reads them
apart.  `got` is a history of what the client was sent.

**`Coalescer`** (`coalescer.rs`) has the map and the failure flags; `Answer` is the
oneshot of a waiter.  `complete` and `fail` take two locks, so they are two operators
that `RequestFlow` puts into two actions.

**`RequestFlow`** (`resolve_with_coalescing`, `handle_proxy_inner`, `spawn_cache_persistence`).
`pc` follows a handler from await to await, `dl` a download with its persistence
task from `running` to `stored` or `lost`.  `Disconnect` drops a handler at any await.
`cached` is what the cache says of a URL: a fresh row, a stale one, none, or none any more
(`removed`).  `Store` inserts a row and evicts any rows, its own among them, as `evict_inner` may;
`Remove` is blitzctl or the store of another URL.  `etag` tells the 412 of which the persistence task was
told (`EtagChanged`) from one that the driver drained, which reaches it as any other failure.  A
buffer is named by the request that led its download, since a request leads at
most one.  Ages and cooldowns end at any time (`Age`, `CoolDown`).

**`Downloader`** (`download_multithreaded`, `download_worker`).  `driver`, `connections`,
`active`, `readyTold`, `cancelled` and `outcome` are the locals of the driver; `task`
follows each spawned task from the permit to the join, `finished` is the order in
which the JoinSet gives results back; `io`, `attempt`, `pos` and `body` are the locals
of a worker.  Of `SegmentsBuffer` the steps inside `claim_range` and the unguarded `Enlist`, `Write` and `Mark` are conjuncts of this
module's actions; when they happen is decided by what the code looks at: the messages of the
channel, `received` against the size of the range, the cut of a chunk at its end.  That the guards of the buffer
hold then is what `ImplementsBuffer` says.
Content is the generation of the file it came from; `upstream` is the
generation the mirror serves and `Publish` changes it at any time; `others` counts the
permits that other downloads hold.  `Precondition`
is a 412, `RangeIgnored` a 200 for part of the file, `Answers` a usable
response; `Retry` and `Fail` stand for every transient and permanent error.

**`Cache`** (`cache.rs`, with `serve_file` and the revalidation of `proxy.rs`).  `rows` is the table,
`files` what is at each final path, `temps` the temporary files; `store` is a
persistence task inside `store`, `lock` the mutex of the proxy's connection, `ctl` a
blitzctl, whose own connection does not know that mutex.  `Rename`, `Size`, `Insert` and the
eviction are separate actions, and so are the two halves of each removal.  `Crash`
drops what runs and keeps the disk, `Restart` is the startup cleanup.  `doubt` is a history:
the URLs of which a known cause (a crash or an error inside `store`, an eviction or a
blitzctl inside it, a late revalidation) took row and file apart.  **`Freshness`** has
`is_fresh` and `time_until_expiry`, with the casts from u64 to i64 of the code.

**`TokenBucket`** (`rate_limit.rs`).  A call goes through its compare-exchanges one by one;
time is relative to the last refill, so that the state space is finite, and `credit` is a
history of what the rate allows by now.  **`Throttle`** adds who calls: `body` is a
`ThrottledPermitStream` with its pending pieces and timer, `writer` a worker in `wait_consume` (which asks
for `Batch[w]`, 64 KiB in the units of the capacity of its bucket),
`passed` a body of `plain_proxy` or an FTP transfer, which do not wait.

**`Server`** (`lib.rs`, `IpRateLimiter`, `handle_connect_tunnel`).  `loop` and `signal` are the accept
loop, in which each turn listens for Ctrl+C anew; `at` is where a connection is.  Semaphores and
buckets of an address have generations, because the sweep takes them out of their tables while
requests still refer to them.  A tunnel is `dialing` its target or `agreeing`
with a proxy, HTTP or SOCKS5.  **`NoProxy`** has `no_proxy_match` on labels of hosts.

**`Ftp`** (`ftp.rs`, `handle_ftp_proxy`).  Its workers do the actions of `SegmentsBuffer`; `io` is where
the control connection is, `faults` what the server does amiss, `joined` how many
handles were awaited, in the order of spawning.  `SizeSpins`, `Spin` and `SpinAtQuit` are `read_response` on a
connection that the server closed, which asks again for ever: during SIZE, for a reply of a transfer up to
its 226, and for the reply to QUIT.  **`Addresses`** has `parse_ftp_url`,
`normalize_ftp_path` and `UpstreamProxy::parse`: addresses are sequences of tokens, the
separators tokens of their own.

**`Settings`** (`config.rs`) has what takes part in the value of an option for the server
(`Load`) and for blitzctl (`MaxCacheAgeOnly`, `LoadUrlMaps`, `CacheDirOnly`); **`Sizes`** has
`parse_bytes` and the `parse_size` and `parse_duration` of blitzctl; **`Views`** has
`resolve_url`, `reverse_resolve` and the commands of blitzctl as
functions of the rows: the ones that are chosen are a set of indices, and what a loop over
entries accumulates (`Tree`, `Hosts`, `Children`) is a recursive function of how many were seen.
`Matches` does what the regular expression of a wildcard does, from the end of the pattern to its
start.  **`Admin`** puts a server, its rows, a configuration that changes and blitzctl side by side.

## 4. Runs

| run | instance | asks |
|---|---|---|
| `streams` | 2 workers, 1 body, 3 units, ranges of 1 or 2, 2 contents, read errors | claims partition the file; complete means whole; refinement of `RangedDownload`; nothing sent twice, no hole sent; bodies end, a lost range is reported |
| `stream_body` | 2 workers, 1 body | *violated*: a body is the file |
| `flow_safety` | 3 requests, 2 URLs (one .xz), a map for 2 | entries owned, waiters never forgotten, no failure counted twice or that was told to be a change of the file |
| `flow_liveness` | 2 requests, 1 .xz URL, 1 retry, every initial row | downloads do not overlap, what is kept is in the map until it is in the cache, also if it is evicted at once; requests end, entries leave |
| `flow_dropped_leader` | 2 requests, 1 URL | *violated*: a waiter has a leader |
| `download` | 2 workers, 0 to 2 connections, 2 permits shared with other downloads, 3 units, 1 retry, 2 generations, strong ETag | Ok is one generation; drained is quiet; messages and byte counts keep to what `SegmentsBuffer` expects; the download returns |
| `download_generation` | 2 workers, no retry | *violated*: a 412 is reported as such |
| `cache` | 2 URLs, 2 generations of 1 and 2 units, room for 3, 1 reader, 1 blitzctl, crashes | row and file agree, the limit holds, bodies go with their headers, no temporary file is left |
| `throttle` | 2 bodies, 2 workers, a worker with a plain body or an FTP transfer, a worker whose batch is larger than the bucket; 2 tokens | the rate is kept, no wake-up is lost, what is written is paid, what is read is delivered, waiting ends where the bucket holds a batch |
| `server` | 2 connections of 1 address; limit of the address 1, or of the service 1 with an HTTP or a SOCKS5 proxy and 4 `no_proxy` rules | permits balanced, held exactly while serving, either proxy bypassed, the service ends |
| `ftp` | 0 to 2 workers, 3 units, servers with none or one of three faults, 2 URLs | Ok means complete, what is kept is the file, refinement of `SegmentsBuffer`, the request ends |
| `admin` | 6 configurations, 6 files over 4 hosts, up to 3 rows, 12 selectors | aliases are shown back, the views agree, what is shown can be named, blitzctl follows the server, what is removed is gone |

Every property of a passing run has a mutant of the code that violates it.

The parsers have no state of their own; `MC_Admin` and `MC_Ftp` compare them over bounded texts with
what they are for, in assumptions that TLC evaluates before it starts: `SizesMeanTheSame` (a
size that both programs read is the same number, and no product wraps), `ProxyIsReadBack` and `UrlIsReadBack`
(the parts of an address are those it was written with, and dots are resolved without
leaving the root).

### Bounds, and why they are enough

* *Workers*: two suffice for every race of the buffer (cursor, push, count).  *Units*: three, with
  ranges of one or two, give two segments of different sizes and a short last range; the
  proofs cover all sizes and any number of workers.
* *Bodies* do not touch the buffer, so one stands for all; the proofs cover any number.
* *Requests*: a leader, a follower that waits and one that joins or retries.  Two URLs
  and a map for two make the map full, as `len >= MAX_INFLIGHT` does at 1024.
* *Retries*: one; each retry starts from the same place with one less.
  `flow_safety` has none for ordinary failures and one for a changed generation, so both budgets, spent and not, occur.
* *CooldownAfter*: 1 or 2 instead of 3.
* *Permits* of the downloader: two, and other downloads may hold any of them at any time, so a worker may wait or
  not.  With three units claimed one by one, a second worker is spawned and both are in the middle
  of an exchange when one of them meets a 412.
* *Cache*: two files that fit only if one of them has its small generation, so a store evicts the
  other, itself, or nothing; a blitzctl removes one URL or all.
* *Bucket*: two tokens with one per tick; one user reads a chunk larger than the
  capacity, which is split or waited for in batches.  `MaxCallers` is two because two users
  share a bucket.  A third worker asks for more than its bucket holds, and waits for ever without being in
  anybody's way.  Periods of more than a tick are in `MC_Throttle_rounding.cfg` only: see section 8.
* *Server*: two connections compete for one permit, of the address or of the service; `Generations` has one name more than
  there can be semaphores in use.
* *Admin*: the configurations differ in file, environment, flags, overlapping and disjoint bases, and three
  do not load; the files share directories, names that begin others, and a path that is a file and a directory.
  Widths are small: 16 stands for 2^63 and for 2^64 of sizes, 2 and 3 for 1024 and 1000.
* `ftp` and `admin` check deadlock; in `ftp`, `Rest` is what follows the end.
  The other runs say `CHECK_DEADLOCK FALSE`: a download, a body, a request, a service ends, and
  nothing follows.

## 5. Fairness

* A **body** is polled at least every 100 ms (`proxy.rs:1025-1031`), so each takes its steps
  (weak fairness of `StreamStep`).  This assumes that the client reads.
* A **worker** goes on or fails: the client has a timeout of 300 s per request and
  10 s to connect (`lib.rs:43-46`), a body one of 30 s between chunks
  (`downloader.rs:25`), attempts are counted.  In `BufferStream` dying is never forced;
  in `Downloader` the task as a whole is weakly fair, and may go on by `Retry` or `Fail`.
  That tokens of the upstream bucket come is `WaitingEnds` of `Throttle`, if the bucket holds a batch.
* A **permit** that another download holds comes back (weak fairness of `TakeBack`), and who waits
  for one gets it at last (strong fairness of `Acquire`): tokio's semaphore serves in the order of arrival.
* The **driver** polls its select loop, and tokio runs what is woken (weak fairness of `DriverStep`).
* A **handler** and a **persistence task** run when they can (weak fairness of
  `RequestStep` and `DownloadStep`): HEAD and the download have timeouts, and a
  waiter has its own of 50 s.
* **Throttle**: time passes (`Tick`) and streams and workers take their steps; nobody has to
  cancel, and an inner stream may be pending again and again.
* **Server**: the loop takes its turns; what a connection waits for comes, one condition for
  its limits, its handler, its body and its tunnel; peers close at last (strong fairness of
  `Disconnect`), since nothing in the service does it for them.
* **Ftp**: the request, the driver and the workers go on; a server that does not close the control connection
  answers or fails.  The code has no timeout of its own here.
* Nobody has to disconnect, republish, let a row age, crash or die.  `Cache` and `Admin` state safety only.

## 6. Proofs

The proofs hold for every value of the constants under the named assumptions of
the modules: a finite set of workers, any file size, any set of positive range
sizes (`BufferAssumption`); finitely many URLs and a positive limit of the map
(`CoalescerAssumption`); any retry budgets and a cooldown after at least one
failure (`FlowAssumption`); any number of attempts, at least one permit, one first
worker (`DownloaderAssumption`); finitely many URLs, positive lengths, any limit of the
cache (`CacheAssumption`); any positive rate and capacity, finitely many users, any chunks, any
sets of users that share a bucket and fit `MaxCallers` (`BucketAssumption`, `ThrottleAssumption`);
finitely many connections, any addresses, limits and rules (`ServerAssumption`); workers numbered
from 1 and all spawned by the driver, whose limit is the number of workers configured, and any
of three faults of a server (`FtpAssumption`); any URL maps, configurations, files and selectors, with paths that
are empty or begin with a slash, hosts that are not a slash, and a default lifetime far from the width of a second (`AdminAssumption`).  That the content of a file is named by its
offsets, and that `None` is none of the values, are conventions of the models.

**`SegmentsBufferProofs`.**  None of the properties is inductive alone.  That
claims partition the file survives the next claim only because no range passes the
cursor (`RangesBelowCursor`); that `readyCount >= Len(segments)` means every segment is Ready
needs the counter to lag behind the Ready segments by exactly the workers between the two
steps of `mark_ready` (`CountLagsByCounting`); and a mark or a write concerns nobody else because a
worker's segment is its own and has the range it claimed (`FillersOwnSegments`).  These make
`Shape`, which each action preserves whatever is in the file.  `IInv` adds `ReadyIsFilled`,
which holds if workers mark only what they received whole.
From it: `ClaimsAlwaysPartition`, `ReadyAlwaysFilled`, `ReadyNeverChanges` and
`CompletionAlwaysSound`, where a finished buffer with no claim half way has all its
segments Ready, these cover the file, and so nothing is a hole.  `Refinement`: under `IInv` each
action maps to a step of `RangedDownload` or to a stutter; `Claim` takes the units between the old
cursor and the new one, `WriteData` fetches, `MarkReady` seals, all others stutter.

**`DownloadProofs`**, of bodies.  A step of a stream leaves the buffer alone and any other is one of it, so `IInv`
is free.  `SentBehind` says that what a body was sent lies in segments it has passed or in the
part of the current one behind its offset, all of them Ready; since Ready segments are disjoint
and never change, the next piece is new (`NeverSentTwice`), was downloaded (`NeverAHole`), and
what was sent stays what the file holds (`SentNeverChanges`).  None of this depends on the order
of the segments, which is why it holds while `BodyIsTheFile` does not.

The downloader, in the same module.  That it keeps to what the buffer expects is an invariant of its own
locals against the file and the counter.  The bytes an attempt counted are written (`Written`),
and stay so while others write, as ranges are disjoint; so who counted as many as the range is long
marks a whole one.  A chunk stays inside its range since ranges are not reversed (`RangesHeld`).
A message in the channel is a segment counted ready, so one worker is spawned for each (`SpawnsTold`).  With these in
`DownloaderInv` each step is one that `SegmentsBuffer` allows under its guards or a stutter
(`DownloaderRefinesBuffer`), and by that step `IInv` is preserved.  `DownloaderInv` also has:
a body being read has the pinned generation (`BodiesKnown`), hence so has the file
(`OneGeneration`); whoever is in the middle of a claim is a running task
(`ClaimersRun`, `NotSpawned`); `active` is the number of tasks that
wait for a permit or run (`ActiveCounts`), until a fatal error aborts them.  Then
`active = 0` means that nobody is at work (`DrainIsQuiet`), and when Ok is decided every task is joined, so no
claim is half way, `CompletionSound` applies and the file is whole (`OkIsOneGeneration`).

**`RequestFlowProofs`.**  Type correctness; `EntryOwned`; `WaiterListedOrAnswered`,
from `WaiterInv`, which adds that whoever is listed for a URL asked for it and that only
Pending entries list anybody; and that downloads of a URL never overlap, from `LeaderListed` (a
leader at work owns the Pending entry of its URL, a download under way the
Downloading one).  `NeverOutOfSight` follows from the same and `KeptIsCached`: the row was there
before the entry goes, whatever was evicted with or after it.  Both assume `Cardinality(Urls) < MaxInflight`: with a full map
the code makes leaders that are not listed, and the statements are false.
`CooldownIsEarned` holds without it; it speaks of what the persistence task is told, as a drained
412 does count (section 8).  It needs that a request downloads once, and that its buffer is
not failed before its persistence task is past the checks (`OnceEach`), so that no failure is counted
twice; and that the set of failed downloads stays finite, as there may be infinitely many requests.

**`CacheProofs`.**  `RowsAndFilesAgree` speaks of URLs that are not busy; `CacheInv` says what a step
that is under way has done so far.  A store that replaced a file still finds its own, of the
length it measured (`StoredAsMeasured`); what an eviction or a blitzctl is removing stays removed
unless a store comes between (`RemovedIsGone`), and `clear_all` listed all that is there
(`ClearSeesAll`); a request finds the file its row was of (`SeenIsThere`), so that a 304 renews the
row of that file and not of another.  `DiskWithinLimit` is the harder half of
"the cache fits": what the code sums is rows.  `RowsWithinLimit` says that rows fit whenever the mutex
is free, which `evict_inner` provides as it stops only once they do; by agreement, each unit of a
file in good standing is one of its row.  Sums are stated as cardinalities of sets of
units (`RowUnits`, `DiskUnits`), whose monotony the library proves; a fold would need induction.

**`ThrottleProofs`.**  `ThrottleInv` is an invariant of the bucket, one for each kind of user, and that only
users of the behaviour call.  For `RateKept` the time since the last refill is not enough: a
call that read the date and was overtaken must lose its compare-exchange, and one that wins may only
grant what no other call has granted (`CallsConsistent`).  The sums over calls under way, the rounding
of a division and the products of the period and the tokens are lemmas.  `SleepsOnATimer` needs `Timed`: where a body is tells whether it has something
pending and whether its timer is set, across every poll that comes early.  `BodyInOrder` needs that the
pieces pending follow each other from what was sent to what was got, none longer than the
capacity (`Queued`), and `WrittenIsPaid` that a worker which pays in batches has paid for the
chunk at hand less what remains (`Paying`).

**`ServerProofs`.**  Where a connection is tells which permits it has (`Placed`); free and held permits of a
semaphore add up to the limit as long as it is referred to, by the table or by a request that looked it
up before the sweep (`Balanced`, `Referred`).  This gives `PermitsBalanced` and `HeldWhileServed`; not that an address is limited, because a sweep
while permits are out gives it a second semaphore (section 8).  `Deserted`
gives the clean exit.  `ProxyIsBypassed` follows from a lemma about the operators of `NoProxy`:
a network of whole octets that contains an address, and any other rule that names a host, is
matched by `no_proxy_match`, and `DialProxy`, of either kind, is for hosts it does not match.  Other networks
are left out because the code compares them by whole octets (section 8).

**`FtpProofs`.**  The driver looks at no buffer: Ok is what the handles say.  `FtpInv` therefore follows the results
back: handles are joined in order, each of an ended task, an error sets the flag, and nobody
is cancelled without one (`Joins`); a task that ended well saw the end of the file, any other died with
its claim (`Placed`); a segment that is not Ready belongs to a worker at it or to one that died with it (`Owned`).
So with Ok nobody died, every segment is Ready, and the counter has caught up by `Shape`, which
holds also of a server that cuts bodies (`OkIsAllCompleted`).  `KeptIsAlwaysTheFile` adds
what a transfer wrote (`Transfer`, `Contents`, `WholeUnlessCut`), and `FtpUsesTheBuffer` maps each step
to one of the buffer, for servers that do not cut.

**`AdminProofs`.**  `AdminInv` is little: the server has what its configuration meant when it started, and rows are of
URLs.  The weight is in lemmas about the operators.  `FreshnessAgrees` compares `is_fresh`, which wraps an age, with
`time_until_expiry`, which saturates a date; with `SameOptions` (whatever wins in the server wins in blitzctl, if
it is not on the command line) it gives `CtlAlwaysFollowsServer`.  Components of a path are picked at
the positions where they start (`NthHasRank`, `PickedIs`), so a path that goes on with a slash keeps the
components it has (`PrefixComponents`).  `AliasAlwaysShown` follows: two bases above one URL would lie in each other
(`BaseInBase`), and maps that do not overlap have one base above it, that of the map that led there.
`RemovedAlwaysGone` compares two prefixes, with and without a slash behind them; `ShownAlwaysNamed` needs that trimming
is idempotent (`NothingToTrim`) and that the last component is what stands behind the last slash
(`LastComponent`), where `basename` cuts.

`ViewsAlwaysAgree` is the long one: five commands work out the same sums in different ways.  Each is given a closed form,
a sum over the set of rows that a node, an item or a host gets (`Part`), proved by induction over the rows
(`Induct`, an instance of the library's well-founded minimum on the set of row numbers
for which the claim fails): `TreeAfter`, `ItemsAfter`, `HostsAfter`.  What is left is that the sets are the
same: the root that `ls` compares as a text is the host and the components of the path, each behind a slash
(`TextBehind`), so that a text below another is a sequence of components with the other as a prefix.  The descent of
`ls -R` through the directories then reaches every node of the tree, by induction over the depth; `find` chooses among
its files by size; a wildcard in the last component matches the text of exactly the nodes one below (`Matches`
of a star is any text, of a text without wildcards itself).  It holds for hosts that are `Plain`: no two entries shown
alike, no path both a file and a folder, no folder whose name begins that of another beside it, no wildcards in a name; and for `TotalsAgree` of caches in which no
URL is itself the base of a map.  Section 8 says what happens otherwise.

The last three theorems are about the parsers: `SizesAlwaysMeanTheSame` for every number and unit;
`ProxyAlwaysReadBack` and `FtpUrlAlwaysReadBack` for addresses of any tokens, from what `find` and `rfind` make
of a text with a separator between two parts (`CutAt`, `CutParts`).

Only model-checked: liveness under fairness, which is out of the prover's reach (`StreamsFinish`,
`LostRangeIsReported`, `RequestsEnd`, `DownloadsLeave`, `DownloadReturns`, `ReadIsDelivered`, `WaitingEnds`,
`SignalEndsService`, `FtpReturns`), and what the assumptions of the MC modules evaluate of durations
(`parse_duration`) and of `normalize_ftp_path`.  Every invariant and every action property of the runs is
stated by a theorem, apart from those that a run shows to be violated.

## 7. What is not modelled, and assumptions

* The server honours `If-Match`, and its strong ETags tell generations apart.  A 206 is taken
  to carry the bytes of the range: the code checks their number, not `Content-Range`.
  With a weak or no ETag the file may mix generations; `OkMeansOneGeneration` then
  only says that it has no holes.
* A file of length 0: no range is ever pushed, and its body would poll for ever (`proxy.rs:1025`).  No instance has one.
* A bandwidth of the upstream below 64 KiB per second in `Downloader`: its workers get their tokens, which in
  `Throttle` a smaller bucket does not give (section 8).
* A panic of a task.  A panicking worker would not take itself off `active`; the driver then waits
  for `join_next` to return nothing.
* The choice of a segment size from the measured speed is a free choice; the waits between attempts
  take no time.
* The metadata of a buffer (set before anybody can reach it), the rewriting and storing of headers,
  error pages, logging.
* The eviction of the failure tracker beyond 10 000 URLs (`proxy.rs:79`): it only forgets cooldowns.
* `mark_all_ready` and `download_ftp_single`, which have no caller outside the tests; `migrate_schema`,
  which runs once, before anybody uses the table.
* Of `blitzctl`: sorting, columns, colours, dates, hash sums, `log`.  Filters of age in `find` compare like those of size.
  Patterns match whatever the case of the letters (`cache_cli.rs:642`), in the model only as written.
* The options that only go the way of `max_cache_age`.
* The TLS, HTTP and SQLite libraries; two proxies on one cache directory.

## 8. Findings

Disagreements shown by a run (quoted in `PROJECT.json`):

1. **Bodies are not the file** (`stream_body`).  `claim_range` takes its range and pushes the
   segment in two steps; two workers can push in the opposite order, and bodies are
   served by index.
2. **Waiters without a leader** (`flow_dropped_leader`).  A leader that fails at HEAD, or whose client
   leaves, does not take its Pending entry out; waiters time out with a 500, and so does every later
   request of the URL.
3. **Generation change counted as an outage** (`download_generation`).  The driver may leave its
   loop before it reads the 412 of a worker, and then reports an incomplete download.

Further ones, each with a configuration that shows it (they are not among the runs of `PROJECT.json`):

| configuration | module | violated | what the code does |
|---|---|---|---|
| `MC_Stream_short.cfg` | `MC_BufferStream` | `BodyIsTheFile` | one worker is enough for a short body: the stream reads `num_segments` and then `all_completed` (`proxy.rs:1023`), what is pushed and finished in between is skipped (`tests/stress_multithread.rs:16`) |
| `MC_Flow_etag.cfg` | `MC_RequestFlow` | `GenerationChangeIsRetried` | the retry budget of a 412 (`README.md:85`) is for requests that still wait for a buffer; those that have it get a broken body (`proxy.rs:184`) |
| `MC_Flow_second.cfg` | `MC_RequestFlow` | `NoSecondDownload` | the cache is not looked up again after the registration (`proxy.rs:256`; `README.md:10`) |
| `MC_Flow_cooldown.cfg` | `MC_RequestFlow` | `GenerationChangeNotCounted` | a 412 that the driver drained (finding 3) counts towards the cooldown of its URL, which "must not trip" by it (`proxy.rs:173-176`, `downloader.rs:238-252`) |
| `MC_Throttle_small.cfg` | `MC_Throttle` | `RefillEndsTheWait` | a worker "waits until refill" (`README.md:253`), but asks for 64 KiB (`rate_limit.rs:136`) of a bucket that holds `upstream_bandwidth` (`proxy.rs:437`), and waits for ever if that is less |
| `MC_Throttle_rounding.cfg` | `MC_Throttle` | `ReadIsDelivered` | a refill rounds its tokens down and moves the date to now (`rate_limit.rs:163`): two bodies that ask in turn, each sooner than a token is due, get none |
| `MC_Throttle_plain.cfg` | `MC_Throttle` | `ExcessIsBuffered` | the plain proxy ends a body with an error when the bucket is empty (`proxy.rs:1100`; `README.md:15`) |
| `MC_Server_ftp.cfg` | `MC_Server` | `FtpIsProxied` | `is_safe_upstream_url` refuses `ftp` before the FTP code is reached (`proxy.rs:740`; `README.md:11`) |
| `MC_Server_noproxy.cfg` | `MC_Server` | `OnlyNamedBypass` | networks are compared as texts: 100.1.2.3 bypasses the proxy for 10.0.0.0/8 (`proxy.rs:2646`) |
| `MC_Server_limit.cfg` | `MC_Server` | `AddressLimited` | the sweep drops the semaphore of an address whose permits are out, the next request gets a new one (`rate_limit.rs:283`; `README.md:75`) |
| `MC_Server_cidr.cfg` | `MC_Server` | `NetworkIsBypassed` | of a network only whole octets are compared: 172.31.255.254 goes to the proxy although 172.16.0.0/12 is in `no_proxy` (`proxy.rs:2645-2650`; `README.md:61`) |
| `MC_Admin_dir.cfg` | `MC_Admin` | `CtlUsesTheServersCache` | blitzctl asks the file before the environment for the cache directory, the server the other way round (`config.rs:387`; `README.md:157`) |

Met while reading:

* `README.md:128` says fresh files are served "without contacting upstream"; a URL in cooldown
  is rejected with a 503 before the cache is looked at (`proxy.rs:249`).
* `README.md:10` promises one download per URL; with 1024 URLs in the map nobody is listed (`coalescer.rs:48`).
* `README.md:254` describes a fallback of a failed multithreaded download to a plain GET into
  the same buffer; there is no such code.
* `README.md:69` has the bandwidth of a client apply to each response; the bucket is shared by all of its address.
* `--connections 0` is accepted: nobody is spawned, and every ranged download fails as incomplete;
  an FTP download would return Ok with an empty file.
* Rates above 10^9 bytes per second have a period of 0 and are not refilled at all (`rate_limit.rs:46`);
  from 5 * 10^8 on the truncated period gives up to twice the rate.
* A success is recorded before the integrity of an .xz file is checked (`proxy.rs:145` and `155`): a file
  that is corrupt at its source counts one failure each time and never gets to the cooldown.
* Tunnels take no permit (`proxy.rs:2660`), although `README.md:76` limits connections.
  The cancel token that bodies look at is never cancelled.  A signal between two turns of the accept loop is lost (`lib.rs:118`).
  Downloads and their persistence are not waited for at the end.
* A SOCKS5 proxy of the tunnel is dialled without the user and password that were configured (`proxy.rs:2746`).
* FTP: an early end of a data connection marks its range Ready, the reply to REST is not looked at, a closed
  control connection makes `read_response` spin, errors are seen in the order of spawning only.
* Views: `ls -R` takes `pool2` for a part of `pool`; `tree` hides what is below a path that is also a file; a URL that is
  itself the base of a map counts for its alias in `hosts`, but is a file of that name in `ls`, whose size replaces the
  sum (`cache_cli.rs:1258`); a star in a name that is typed is always a wildcard to `ls`;
  the alias of a map whose base lies within that of an earlier one is never shown; a path that ends with "/" cannot be
  named to `info`, `cat` and `cp`.
* `--config-file X` with a space and `PROXY_CONFIG_FILE` (`README.md:62`) are not seen by `Config::load`
  (`config.rs:326`); blitzctl ignores a broken file that the server refuses.

## 9. Running the checks

`tlc -config MC_Download.cfg MC_Downloader` and so on, as the `runs` of `PROJECT.json` pair them
(each under four minutes on two cores); `tlapm SegmentsBufferProofs.tla` and so on for the
eight proof modules.
