----------------------------- MODULE RequestFlow -----------------------------
(***************************************************************************)
(* From a client request to its response: resolve_with_coalescing and      *)
(* handle_proxy_inner of src/proxy.rs over the map of Coalescer, and the    *)
(* task of spawn_cache_persistence that ends each download.                *)
(*                                                                         *)
(* One action is what runs between two awaits, or less where the code      *)
(* takes two locks in a row.  The segments of a download are those of      *)
(* SegmentsBuffer; here a download is running until its task returns, and  *)
(* a body is whole or broken as its buffer is.                             *)
(***************************************************************************)
EXTENDS Coalescer

CONSTANTS
  XzUrls,          \* URLs for which is_xz_url holds
  MaxRetries,      \* coalesce_max_retries
  EtagMaxRetries,  \* coalesce_etag_max_retries
  CooldownAfter,   \* MAX_FAILURES_BEFORE_COOLDOWN
  RowsAtStart      \* what earlier runs may have left in the cache for a URL

ASSUME FlowAssumption ==
  /\ XzUrls \subseteq Urls
  /\ MaxRetries \in Nat
  /\ EtagMaxRetries \in Nat
  /\ CooldownAfter \in Nat \ {0}
  /\ RowsAtStart \subseteq {"none", "fresh", "stale"}

VARIABLES
  asked,      \* the URL of each request
  pc,         \* where its handler is
  retries,    \* its count of retries
  joined,     \* the buffer its body reads
  dl,         \* where the download it led is
  etag,       \* whether a 412 ended that download, and what its task was told
  bufFailed,  \* the failed flag of its buffer
  cached,     \* the cache's row of each URL; removed: none, but there was one
  failures,   \* FailureTracker: failures since the last success
  recent      \* FailureTracker: whether the last one is under a minute old

requestVars == <<pc, retries, joined>>
downloadVars == <<dl, etag, bufFailed>>
trackerVars == <<failures, recent>>
flowVars == <<coalescerVars, asked, requestVars, downloadVars, cached, trackerVars>>

Ended == {"served", "rejected", "forwarded", "whole", "broken",
          "timedout", "gaveup", "headfailed", "gone"}

PC == {"start", "lookup", "revalidating", "registering", "waiting", "leading",
       "completing", "following"} \cup Ended

\* The task of a download that has not left the map yet.
InMap == {"running", "syncing", "checking", "storing", "completing", "failing"}

DownloadState == {"none", "clearing", "flagging", "stored", "lost"} \cup InMap

(* A 412 that download_multithreaded returns as EtagChanged is told; one   *)
(* that it drains comes back as BufferFailed (downloader.rs:238-252).      *)
Etag == {"none", "told", "drained"}

Row == {"fresh", "stale"}

FlowTypeOK ==
  /\ CoalescerTypeOK
  /\ asked \in [Requests -> Urls]
  /\ pc \in [Requests -> PC]
  /\ retries \in [Requests -> Nat]
  /\ joined \in [Requests -> Requests \cup {None}]
  /\ dl \in [Requests -> DownloadState]
  /\ etag \in [Requests -> Etag]
  /\ bufFailed \in [Requests -> BOOLEAN]
  /\ cached \in [Urls -> Row \cup {"none", "removed"}]
  /\ failures \in [Urls -> 0 .. CooldownAfter + 1]
  /\ recent \in [Urls -> BOOLEAN]

\* The proxy has just started.
FlowInit ==
  /\ CoalescerInit
  /\ asked \in [Requests -> Urls]
  /\ pc = [r \in Requests |-> "start"]
  /\ retries = [r \in Requests |-> 0]
  /\ joined = [r \in Requests |-> None]
  /\ dl = [r \in Requests |-> "none"]
  /\ etag = [r \in Requests |-> "none"]
  /\ bufFailed = [r \in Requests |-> FALSE]
  /\ cached \in [Urls -> RowsAtStart]
  /\ failures = [u \in Urls |-> 0]
  /\ recent = [u \in Urls |-> FALSE]

-----------------------------------------------------------------------------
(* resolve_with_coalescing.                                                *)

Go(r, from, to) == pc[r] = from /\ pc' = [pc EXCEPT ![r] = to]

InCooldown(u) == failures[u] >= CooldownAfter /\ recent[u]

(* Only the handler of r moves; nothing it shares changes. *)
OnlyMoves == UNCHANGED <<coalescerVars, asked, retries, joined, downloadVars,
                         cached, trackerVars>>

Reject(r) == InCooldown(asked[r]) /\ Go(r, "start", "rejected") /\ OnlyMoves

Admit(r) == ~InCooldown(asked[r]) /\ Go(r, "start", "lookup") /\ OnlyMoves

\* lookup_entry: the row is read in a blocking thread, register comes later.
LookupFresh(r) ==
  cached[asked[r]] = "fresh" /\ Go(r, "lookup", "served") /\ OnlyMoves

LookupStale(r) ==
  cached[asked[r]] = "stale" /\ Go(r, "lookup", "revalidating") /\ OnlyMoves

LookupNothing(r) ==
  cached[asked[r]] \notin Row /\ Go(r, "lookup", "registering") /\ OnlyMoves

(* The conditional HEAD: unchanged upstream, refresh the row and serve it. *)
(* The row is fresh again unless refresh fails or the upstream's headers   *)
(* allow no age.  Refresh is an UPDATE: a row that is no more stays so.    *)
StillValid(r) ==
  /\ Go(r, "revalidating", "served")
  /\ \E row \in Row :
       cached' = [cached EXCEPT ![asked[r]] = IF @ \in Row THEN row ELSE @]
  /\ UNCHANGED <<coalescerVars, asked, retries, joined, downloadVars, trackerVars>>

Changed(r) == Go(r, "revalidating", "registering") /\ OnlyMoves

Unreachable(r) == Go(r, "revalidating", "served") /\ OnlyMoves

\* register
Lead(r) ==
  /\ Go(r, "registering", "leading")
  /\ RegisterLeader(r, asked[r]) \/ RegisterUnlisted(asked[r])
  /\ UNCHANGED <<asked, retries, joined, downloadVars, cached, trackerVars>>

Wait(r) ==
  /\ Go(r, "registering", "waiting")
  /\ RegisterFollower(r, asked[r])
  /\ UNCHANGED <<asked, retries, joined, downloadVars, cached, trackerVars>>

Join(r) ==
  /\ Go(r, "registering", "following")
  /\ RegisterJoin(asked[r])
  /\ joined' = [joined EXCEPT ![r] = inflight[asked[r]].buffer]
  /\ UNCHANGED <<asked, retries, downloadVars, cached, trackerVars>>

\* The oneshot channel of a waiting request.
Hang(r) == channel' = [channel EXCEPT ![r] = "idle"]

Receive(r) ==
  /\ channel[r] \in Requests
  /\ Go(r, "waiting", "following")
  /\ joined' = [joined EXCEPT ![r] = channel[r]]
  /\ Hang(r)
  /\ UNCHANGED <<inflight, etagFailed, asked, retries, downloadVars, cached, trackerVars>>

\* The flag is read when the request wakes, whatever closed its channel.
Budget(r) == IF etagFailed[asked[r]] THEN EtagMaxRetries ELSE MaxRetries

Dropped(r, to) ==
  /\ channel[r] = "closed"
  /\ Go(r, "waiting", to)
  /\ retries' = [retries EXCEPT ![r] = @ + 1]
  /\ Hang(r)
  /\ UNCHANGED <<inflight, etagFailed, asked, joined, downloadVars, cached, trackerVars>>

Retry(r) == retries[r] + 1 <= Budget(r) /\ Dropped(r, "start")

GiveUp(r) == retries[r] + 1 > Budget(r) /\ Dropped(r, "gaveup")

\* Mutant: the time is counted from the leader's answer.
TimeoutAfterAnswer(r) ==
  /\ channel[r] \in Requests
  /\ Go(r, "waiting", "timedout")
  /\ Hang(r)
  /\ UNCHANGED <<inflight, etagFailed, asked, retries, joined, downloadVars, cached, trackerVars>>

Timeout(r) ==
  /\ channel[r] = "open"
  /\ Go(r, "waiting", "timedout")
  /\ Hang(r)
  /\ UNCHANGED <<inflight, etagFailed, asked, retries, joined, downloadVars, cached, trackerVars>>

-----------------------------------------------------------------------------
(* handle_proxy_inner, for a leader.                                       *)

(* HEAD says ranges are accepted: the buffer is attached and the download  *)
(* and its persistence are spawned before the next await.                  *)
StartDownload(r) ==
  /\ Go(r, "leading", "following")
  /\ Attach(asked[r], r)
  /\ joined' = [joined EXCEPT ![r] = r]
  /\ dl' = [dl EXCEPT ![r] = "running"]
  /\ UNCHANGED <<asked, retries, etag, bufFailed, cached, trackerVars>>

(* Any other answer to HEAD: complete, then the answer or a plain GET is   *)
(* forwarded.                                                              *)
ForgoDownload(r) ==
  /\ Go(r, "leading", "completing")
  /\ RemoveEntry(asked[r])
  /\ UNCHANGED <<asked, retries, joined, downloadVars, cached, trackerVars>>

Forward(r) ==
  /\ Go(r, "completing", "forwarded")
  /\ SetEtagFailed(asked[r], FALSE)
  /\ UNCHANGED <<asked, retries, joined, downloadVars, cached, trackerVars>>

(* HEAD was not answered, or the temporary file could not be made: the `?` *)
(* leaves the entry where it is.                                           *)
HeadFails(r) == Go(r, "leading", "headfailed") /\ OnlyMoves

-----------------------------------------------------------------------------
(* The body, and a client that goes away.                                  *)

Downloaded(b) == dl[b] \notin {"none", "running"} /\ ~bufFailed[b]

EndBody(r) ==
  /\ Go(r, "following", "whole") /\ Downloaded(joined[r])
  /\ OnlyMoves

BreakBody(r) ==
  /\ Go(r, "following", "broken") /\ bufFailed[joined[r]]
  /\ OnlyMoves

(* hyper drops the handler's future, or the body, at an await. *)
Disconnect(r) ==
  /\ pc[r] \in {"lookup", "revalidating", "waiting", "leading", "following"}
  /\ pc' = [pc EXCEPT ![r] = "gone"]
  /\ Hang(r)
  /\ UNCHANGED <<inflight, etagFailed, asked, retries, joined, downloadVars, cached, trackerVars>>

-----------------------------------------------------------------------------
(* spawn_cache_persistence for the download of b.                          *)

Step(b, from, to) == dl[b] = from /\ dl' = [dl EXCEPT ![b] = to]

RecordFailure(u) ==
  /\ failures' = [failures EXCEPT ![u] = IF @ > CooldownAfter THEN @ ELSE @ + 1]
  /\ recent' = [recent EXCEPT ![u] = TRUE]

SetBufFailed(b) == bufFailed' = [bufFailed EXCEPT ![b] = TRUE]

DownloadDone(b) ==
  /\ Step(b, "running", "syncing")
  /\ failures' = [failures EXCEPT ![asked[b]] = 0]
  /\ recent' = [recent EXCEPT ![asked[b]] = FALSE]
  /\ UNCHANGED <<coalescerVars, asked, requestVars, etag, bufFailed, cached>>

OnlySteps == UNCHANGED <<coalescerVars, asked, requestVars, etag, bufFailed,
                         cached, trackerVars>>

\* is_xz_url, whatever the query of the URL
IsXz(u) == u \in XzUrls

Synced(b) ==
  Step(b, "syncing", IF IsXz(asked[b]) THEN "checking" ELSE "storing") /\ OnlySteps

\* Mutant: the entry is left to somebody else.
SyncFailsSilently(b) == Step(b, "syncing", "lost") /\ OnlySteps

\* The temporary file is removed; the bodies go on reading it.
SyncFails(b) == Step(b, "syncing", "failing") /\ OnlySteps

(* verify_xz_integrity: xz ran and found nothing.  That it could not run   *)
(* counts like a corrupt file.                                             *)
XzSound(b) == Step(b, "checking", "storing") /\ OnlySteps

XzCorrupt(b) ==
  /\ Step(b, "checking", "failing")
  /\ RecordFailure(asked[b])
  /\ SetBufFailed(b)
  /\ UNCHANGED <<coalescerVars, asked, requestVars, etag, cached>>

\* What the eviction at the end of every store takes away, or blitzctl.
Evict(rows, gone) == [u \in Urls |-> IF u \in gone /\ rows[u] \in Row THEN "removed" ELSE rows[u]]

\* Mutant: the result of store is not looked at.
StoreUnchecked(b) ==
  /\ Step(b, "storing", "completing")
  /\ \E row \in Row \cup {cached[asked[b]]}, gone \in SUBSET Urls :
       cached' = Evict([cached EXCEPT ![asked[b]] = row], gone)
  /\ UNCHANGED <<coalescerVars, asked, requestVars, etag, bufFailed, trackerVars>>

(* The row is inserted and evict_inner removes rows, of any URL, until the *)
(* cache is within its limit: a file larger than that goes at once with    *)
(* all others, and store still returns Ok.                                 *)
Store(b) ==
  /\ Step(b, "storing", "completing")
  /\ \E row \in Row, gone \in SUBSET Urls :
       cached' = Evict([cached EXCEPT ![asked[b]] = row], gone)
  /\ UNCHANGED <<coalescerVars, asked, requestVars, etag, bufFailed, trackerVars>>

StoreFails(b) == Step(b, "storing", "failing") /\ OnlySteps

EtagChanged(b) == etag[b] = "told"

\* Mutant: a 412 is counted like an outage.
DownloadFailsCounted(b) ==
  \E told \in Etag :
    /\ Step(b, "running", "failing")
    /\ RecordFailure(asked[b])
    /\ SetBufFailed(b)
    /\ etag' = [etag EXCEPT ![b] = told]
    /\ UNCHANGED <<coalescerVars, asked, requestVars, cached>>

(* An error or a panic of download_multithreaded.  Only what its task is   *)
(* told decides on the count.                                              *)
DownloadFails(b) ==
  \E told \in Etag :
    /\ Step(b, "running", "failing")
    /\ IF told = "told" THEN UNCHANGED trackerVars ELSE RecordFailure(asked[b])
    /\ SetBufFailed(b)
    /\ etag' = [etag EXCEPT ![b] = told]
    /\ UNCHANGED <<coalescerVars, asked, requestVars, cached>>

\* complete and fail, one lock after the other.
Leave(b) ==
  /\ Step(b, "completing", "clearing") \/ Step(b, "failing", "flagging")
  /\ RemoveEntry(asked[b])
  /\ UNCHANGED <<asked, requestVars, etag, bufFailed, cached, trackerVars>>

Clear(b) ==
  /\ Step(b, "clearing", "stored")
  /\ SetEtagFailed(asked[b], FALSE)
  /\ UNCHANGED <<asked, requestVars, etag, bufFailed, cached, trackerVars>>

Flag(b) ==
  /\ Step(b, "flagging", "lost")
  /\ SetEtagFailed(asked[b], EtagChanged(b))
  /\ UNCHANGED <<asked, requestVars, etag, bufFailed, cached, trackerVars>>

-----------------------------------------------------------------------------
(* Time and others: a row ages, or is removed by blitzctl or the store of  *)
(* a URL beyond these; a cooldown passes.                                  *)

Age(u) ==
  /\ cached[u] = "fresh"
  /\ cached' = [cached EXCEPT ![u] = "stale"]
  /\ UNCHANGED <<coalescerVars, asked, requestVars, downloadVars, trackerVars>>

Remove(u) ==
  /\ cached[u] \in Row
  /\ cached' = Evict(cached, {u})
  /\ UNCHANGED <<coalescerVars, asked, requestVars, downloadVars, trackerVars>>

CoolDown(u) ==
  /\ recent[u]
  /\ recent' = [recent EXCEPT ![u] = FALSE]
  /\ UNCHANGED <<coalescerVars, asked, requestVars, downloadVars, cached, failures>>

-----------------------------------------------------------------------------
RequestStep(r) ==
  \/ Reject(r) \/ Admit(r)
  \/ LookupFresh(r) \/ LookupStale(r) \/ LookupNothing(r)
  \/ StillValid(r) \/ Changed(r) \/ Unreachable(r)
  \/ Lead(r) \/ Wait(r) \/ Join(r)
  \/ Receive(r) \/ Retry(r) \/ GiveUp(r) \/ Timeout(r)
  \/ StartDownload(r) \/ ForgoDownload(r) \/ Forward(r) \/ HeadFails(r)
  \/ EndBody(r) \/ BreakBody(r)

DownloadStep(b) ==
  \/ DownloadDone(b) \/ Synced(b) \/ SyncFails(b)
  \/ XzSound(b) \/ XzCorrupt(b) \/ Store(b) \/ StoreFails(b)
  \/ DownloadFails(b) \/ Leave(b) \/ Clear(b) \/ Flag(b)

FlowNext ==
  \/ \E r \in Requests : RequestStep(r) \/ Disconnect(r) \/ DownloadStep(r)
  \/ \E u \in Urls : Age(u) \/ Remove(u) \/ CoolDown(u)

FlowSpec == FlowInit /\ [][FlowNext]_flowVars

(* A handler and a persistence task that can run do run: tokio polls what  *)
(* is woken, HEAD and the download's requests have timeouts of their own,  *)
(* and so has a waiting follower.  Nobody has to disconnect or to wait for *)
(* a row to age.                                                           *)
FairFlowSpec ==
  /\ FlowSpec
  /\ \A r \in Requests : WF_flowVars(RequestStep(r)) /\ WF_flowVars(DownloadStep(r))

-----------------------------------------------------------------------------
(* Properties.                                                             *)

Active(b) == dl[b] \in InMap

(* Coalescing does what it is for: no two requests have a download of the  *)
(* same URL under way (from attach_buffer until complete or fail takes the *)
(* entry out).                                                             *)
OneDownloadPerUrl ==
  \A a, b \in Requests :
    Active(a) /\ Active(b) /\ asked[a] = asked[b] => a = b

(* A Downloading entry is the entry of a download whose persistence task   *)
(* will still take it out.  A Pending one has a leader at work, unless the *)
(* leader lost its HEAD or its client: the only ways to leave one behind.  *)
EntryOwned ==
  \A u \in Urls :
    /\ Kind(u) = "downloading" =>
         LET b == inflight[u].buffer IN Active(b) /\ asked[b] = u
    /\ Kind(u) = "pending" =>
         LET r == inflight[u].owner IN
         /\ asked[r] = u
         /\ pc[r] \in {"leading", "headfailed", "gone"}

(* No lost wake-up: a waiting request is either listed in the Pending entry *)
(* of its URL or has its answer, a buffer of that URL or a closed channel.  *)
WaiterListedOrAnswered ==
  \A r \in Requests :
    pc[r] = "waiting" =>
      \/ channel[r] = "open" /\ Kind(asked[r]) = "pending"
                             /\ r \in inflight[asked[r]].waiters
      \/ channel[r] = "closed"
      \/ channel[r] \in Requests /\ asked[channel[r]] = asked[r]

(* A file that was downloaded and kept is in the map until it is in the    *)
(* cache, so a request that comes late joins the download or hits the row: *)
(* it downloads again only what was removed from the cache meanwhile       *)
(* (attach_buffer, store and complete, in this order).                     *)
NeverOutOfSight ==
  \A b \in Requests :
    /\ dl[b] \in {"running", "syncing", "checking", "storing"} =>
         inflight[asked[b]] = Downloading(b)
    /\ dl[b] \in {"completing", "clearing", "stored"} => cached[asked[b]] # "none"

(* What the tracker counts for a URL are downloads of it whose buffer was  *)
(* given up and that were not reported as a change of the file, each once, *)
(* even when a full map lets them run side by side (proxy.rs:155-189).     *)
CooldownIsEarned ==
  \A u \in Urls :
    failures[u] <= Cardinality({b \in Requests :
                      asked[b] = u /\ bufFailed[b] /\ ~EtagChanged(b)})

(* Every request gets its response: it never hangs on a leader that is no  *)
(* more, nor on the other waiters.                                         *)
RequestsEnd == \A r \in Requests : <>(pc[r] \in Ended)

(* Whatever step of the persistence fails, the download leaves the map.    *)
DownloadsLeave ==
  \A u \in Urls : Kind(u) = "downloading" ~> Kind(u) # "downloading"

-----------------------------------------------------------------------------
(* What the README says and the code does not do.                          *)

(* README.md:84: "Max retries when the leader drops the download before    *)
(* the follower can attach to the buffer": a request that waits has a      *)
(* leader, or is told to retry.                                            *)
WaiterHasLeader ==
  \A r \in Requests :
    pc[r] = "waiting" /\ channel[r] = "open" =>
      pc[inflight[asked[r]].owner] = "leading"

(* README.md:85: "the download retries with the new generation instead of  *)
(* being treated as an upstream outage": no body breaks by a 412.          *)
GenerationChangeIsRetried ==
  \A r \in Requests : pc[r] = "broken" => etag[joined[r]] = "none"

(* proxy.rs:173-176: "An upstream generation change mid-download [...]     *)
(* must not trip the failure cooldown": what is counted had another cause. *)
(* A drained 412 is counted.                                               *)
GenerationChangeNotCounted ==
  \A u \in Urls :
    failures[u] <= Cardinality({b \in Requests :
                      asked[b] = u /\ bufFailed[b] /\ etag[b] = "none"})

(* README.md:10: "When multiple clients request the same URL               *)
(* simultaneously, only one upstream download is made": no download starts *)
(* for a row that is fresh.                                                *)
NoSecondDownload ==
  [][\A b \in Requests :
       dl'[b] = "running" /\ dl[b] # "running" => cached[asked[b]] # "fresh"]_flowVars
=============================================================================
