----------------------------- MODULE Downloader -----------------------------
(***************************************************************************)
(* download_multithreaded and download_worker of src/downloader.rs over    *)
(* the buffer of SegmentsBuffer: the driver that spawns workers and joins  *)
(* their results, the attempts of a worker at a range, the permits all     *)
(* workers share, and the pinning of one generation of the file by         *)
(* If-Match.                                                               *)
(*                                                                         *)
(* The upstream server may at any time send errors, cut bodies short,      *)
(* ignore the Range header or serve a new generation of the file; it       *)
(* honours If-Match and its ETags tell generations apart.                  *)
(***************************************************************************)
EXTENDS SegmentsBuffer

CONSTANTS
  MaxSegmentRetries, \* MAX_SEGMENT_RETRIES
  Permits,           \* max_workers
  StrongEtag,        \* whether HEAD gave an ETag that may go in If-Match
  Never              \* no body yet

ASSUME DownloaderAssumption ==
  /\ MaxSegmentRetries \in Nat
  /\ Permits \in Nat \ {0}
  /\ StrongEtag \in BOOLEAN
  /\ InitialWorkers = 1
  /\ Never \notin Data

VARIABLES
  connections, \* num_connections
  driver,      \* where download_multithreaded is
  outcome,     \* what it returned
  cancelled,   \* its CancellationToken
  active,      \* the counter of tasks at work
  readyTold,   \* messages in the ready channel
  task,        \* where the task of each worker is
  finished,    \* tasks to be joined: a JoinSet gives them back as they end
  result,      \* what download_worker returned in it
  io,          \* where its exchange with the server is
  attempt,     \* its attempts at the current range
  pos,         \* file_offset
  body,        \* the generation of the body it reads
  upstream,    \* the generation the server has
  pinned,      \* the generation HEAD saw
  others       \* permits that other downloads hold

driverVars == <<connections, driver, outcome, cancelled, active, readyTold>>
exchangeVars == <<io, attempt, pos, body>>
outsideVars == <<upstream, pinned, others>>
downloadVars == <<vars, driverVars, task, finished, result, exchangeVars, outsideVars>>

\* none: not spawned   queued: waits for a permit   running: in download_worker
\* leaving: left it, permit still held   ended: to be joined   joined
Task == {"none", "queued", "running", "leaving", "ended", "joined"}

\* etag and range are EtagChanged and RangeUnsupported, which are fatal.
Result == {"none", "ok", "cancelled", "error", "etag", "range"}

Fatal == {"etag", "range"}

DownloaderTypeOK ==
  /\ TypeOK
  /\ connections \in Nat
  /\ driver \in {"running", "draining", "returned"}
  /\ outcome \in {"none", "ok", "incomplete"} \cup Fatal
  /\ cancelled \in BOOLEAN
  /\ active \in Int
  /\ readyTold \in Nat
  /\ task \in [Workers -> Task]
  /\ finished \in Seq(Workers)
  /\ result \in [Workers -> Result]
  /\ io \in [Workers -> {"none", "asking", "reading"}]
  /\ attempt \in [Workers -> 0 .. MaxSegmentRetries]
  /\ pos \in [Workers -> Nat]
  /\ body \in [Workers -> Data \cup {Never}]
  /\ upstream \in Data
  /\ pinned \in Data
  /\ others \in Nat

DownloaderInit ==
  /\ Init
  /\ connections \in 0 .. Cardinality(Workers)
  /\ driver = "running"
  /\ outcome = "none"
  /\ cancelled = FALSE
  /\ active = 0
  /\ readyTold = 0
  /\ task = [w \in Workers |-> "none"]
  /\ finished = <<>>
  /\ result = [w \in Workers |-> "none"]
  /\ io = [w \in Workers |-> "none"]
  /\ attempt = [w \in Workers |-> 0]
  /\ pos = [w \in Workers |-> 0]
  /\ body = [w \in Workers |-> Never]
  /\ upstream \in Data
  /\ pinned = upstream
  /\ others = 0

-----------------------------------------------------------------------------
(* download_worker.                                                        *)

Set(f, w, value) == [f EXCEPT ![w] = value]

Holders == {w \in Workers : task[w] \in {"running", "leaving"}}

PermitLeft == Cardinality(Holders) + others < Permits

Acquire(w) ==
  /\ task[w] = "queued"
  /\ PermitLeft
  /\ task' = Set(task, w, "running")
  /\ UNCHANGED <<vars, driverVars, finished, result, exchangeVars, outsideVars>>

WorkerRuns(w) ==
  /\ task[w] = "running"
  /\ UNCHANGED <<connections, driver, outcome, cancelled, finished, outsideVars>>

ClaimNext(w) ==
  /\ WorkerRuns(w)
  /\ ~cancelled
  /\ \E preferred \in Sizes : Claim(w, preferred)
  /\ UNCHANGED <<active, readyTold, task, result, exchangeVars>>

(* The claim ends, and the first attempt begins. *)
Begin(w) ==
  /\ WorkerRuns(w)
  /\ Push(w)
  /\ io' = Set(io, w, "asking")
  /\ attempt' = Set(attempt, w, 0)
  /\ UNCHANGED <<active, readyTold, task, result, pos, body>>

(* download_worker returns and its task takes itself off the count. *)
Return(w, value) ==
  /\ result' = Set(result, w, value)
  /\ task' = Set(task, w, "leaving")
  /\ active' = active - 1
  /\ io' = Set(io, w, "none")
  /\ UNCHANGED <<readyTold, attempt, pos, body>>

Finish(w) ==
  /\ WorkerRuns(w)
  /\ ~cancelled
  /\ Exhausted(w)
  /\ Return(w, "ok")

Asking(w) == WorkerRuns(w) /\ pc[w] = "filling" /\ io[w] = "asking" /\ ~cancelled

Current == ~StrongEtag \/ upstream = pinned

(* A 412 to If-Match. *)
Precondition(w) ==
  /\ Asking(w)
  /\ ~Current
  /\ Die(w)
  /\ Return(w, "etag")

WholeFile(w) == lo[w] = 0 /\ hi[w] = TotalSize

(* A 200 with the whole file, where the range is not the whole file. *)
RangeIgnored(w) ==
  /\ Asking(w)
  /\ Current
  /\ ~WholeFile(w)
  /\ Die(w)
  /\ Return(w, "range")

\* Mutant: the body is accepted whatever the server has.
AnswersUnpinned(w) ==
  /\ Asking(w)
  /\ io' = Set(io, w, "reading")
  /\ pos' = Set(pos, w, lo[w])
  /\ body' = Set(body, w, upstream)
  /\ UNCHANGED <<vars, active, readyTold, task, result, attempt>>

(* A 206, or a 200 that is the range: its body starts. *)
Answers(w) ==
  /\ Asking(w)
  /\ Current
  /\ io' = Set(io, w, "reading")
  /\ pos' = Set(pos, w, lo[w])
  /\ body' = Set(body, w, upstream)
  /\ UNCHANGED <<vars, active, readyTold, task, result, attempt>>

Reading(w) == WorkerRuns(w) /\ pc[w] = "filling" /\ io[w] = "reading"

(* file_offset after a chunk of n, of which only what is left of the range *)
(* is written: the server may send more.                                   *)
WrittenUpTo(w, n) == IF pos[w] + n < hi[w] THEN pos[w] + n ELSE hi[w]

(* One chunk; none is read once file_offset is at the end of the range.    *)
ReceiveChunk(w) ==
  /\ Reading(w)
  /\ ~cancelled
  /\ pos[w] < hi[w]
  /\ \E n \in 1 .. TotalSize :
       /\ Write(w, pos[w], WrittenUpTo(w, n), body[w])
       /\ pos' = Set(pos, w, WrittenUpTo(w, n))
  /\ UNCHANGED <<active, readyTold, task, result, io, attempt, body>>

\* The range is not complete, and the exchange has not been given up.
InExchange(w) == Asking(w) \/ (Reading(w) /\ pos[w] < hi[w])

\* Mutant: attempts are not counted.
RetryUncounted(w) ==
  /\ InExchange(w)
  /\ attempt' = Set(attempt, w, 0)
  /\ io' = Set(io, w, "asking")
  /\ UNCHANGED <<vars, active, readyTold, task, result, pos, body>>

\* Mutant: one attempt too many.
RetryOnceMore(w) ==
  /\ InExchange(w)
  /\ attempt[w] <= MaxSegmentRetries
  /\ attempt' = Set(attempt, w, attempt[w] + 1)
  /\ io' = Set(io, w, "asking")
  /\ UNCHANGED <<vars, active, readyTold, task, result, pos, body>>

(* A transient error, a timeout or a short body, and attempts left. *)
Retry(w) ==
  /\ InExchange(w)
  /\ attempt[w] < MaxSegmentRetries
  /\ attempt' = Set(attempt, w, attempt[w] + 1)
  /\ io' = Set(io, w, "asking")
  /\ UNCHANGED <<vars, active, readyTold, task, result, pos, body>>

(* Any other status or error, or the last attempt. *)
Fail(w) ==
  /\ InExchange(w)
  /\ Die(w)
  /\ Return(w, "error")

\* Mutant: what was received is not compared with the size of the range.
CompleteUnchecked(w) ==
  /\ Reading(w)
  /\ Mark(w)
  /\ UNCHANGED <<active, readyTold, task, result, exchangeVars>>

(* received = size: the bytes of this attempt are counted, what the file   *)
(* holds is not looked at.                                                 *)
Complete(w) ==
  /\ Reading(w)
  /\ pos[w] - lo[w] = hi[w] - lo[w]
  /\ Mark(w)
  /\ UNCHANGED <<active, readyTold, task, result, exchangeVars>>

(* The end of mark_ready, and the message to the driver. *)
Tell(w) ==
  /\ WorkerRuns(w)
  /\ CountReady(w)
  /\ readyTold' = readyTold + 1
  /\ io' = Set(io, w, "none")
  /\ UNCHANGED <<active, task, result, attempt, pos, body>>

(* The task is over: its permit is free, its result can be joined. *)
EndTask(w) ==
  /\ task[w] = "leaving"
  /\ task' = Set(task, w, "ended")
  /\ finished' = Append(finished, w)
  /\ UNCHANGED <<vars, driverVars, result, exchangeVars, outsideVars>>

\* Mutant: nothing is aborted, and the token is only seen between ranges.
AbortBetweenRanges(w) ==
  /\ driver = "returned"
  /\ \/ task[w] = "queued" /\ UNCHANGED vars
     \/ task[w] = "running" /\ pc[w] = "claiming" /\ Die(w)
  /\ task' = Set(task, w, "ended")
  /\ result' = Set(result, w, "cancelled")
  /\ io' = Set(io, w, "none")
  /\ UNCHANGED <<driverVars, finished, attempt, pos, body, outsideVars>>

(* The driver has returned and dropped its JoinSet: the task is aborted at *)
(* an await, or it sees the token first.                                   *)
Abort(w) ==
  /\ driver = "returned"
  /\ \/ task[w] = "queued" /\ UNCHANGED vars
     \/ task[w] = "running" /\ Die(w)
  /\ task' = Set(task, w, "ended")
  /\ result' = Set(result, w, "cancelled")
  /\ io' = Set(io, w, "none")
  /\ UNCHANGED <<driverVars, finished, attempt, pos, body, outsideVars>>

-----------------------------------------------------------------------------
(* download_multithreaded.                                                 *)

SpawnTask(w) ==
  /\ Enlist(w)
  /\ task' = Set(task, w, "queued")
  /\ active' = active + 1
  /\ UNCHANGED <<connections, driver, outcome, cancelled, finished, result, exchangeVars,
                 outsideVars>>

(* The workers spawned before the loop; nothing else can happen before. *)
SpawnFirst(w) ==
  /\ driver = "running"
  /\ Spawned = {} /\ connections > 0
  /\ SpawnTask(w)
  /\ UNCHANGED readyTold

(* The loop polls both its branches, in any order. *)
Polls == driver = "running" /\ (Spawned # {} \/ connections = 0)

SpawnMore(w) ==
  /\ Polls
  /\ readyTold > 0 /\ Cardinality(Spawned) < connections
  /\ SpawnTask(w)
  /\ readyTold' = readyTold - 1

SpawnedAll ==
  /\ Polls
  /\ readyTold > 0 /\ Cardinality(Spawned) >= connections
  /\ readyTold' = readyTold - 1
  /\ UNCHANGED <<vars, connections, driver, outcome, cancelled, active, task, finished,
                 result, exchangeVars, outsideVars>>

JoinTask(w) ==
  /\ finished # <<>> /\ w = Head(finished) /\ task[w] = "ended"
  /\ finished' = Tail(finished)
  /\ task' = Set(task, w, "joined")
  /\ UNCHANGED <<vars, connections, active, readyTold, result, exchangeVars, outsideVars>>

JoinFatal(w) ==
  /\ Polls
  /\ result[w] \in Fatal
  /\ JoinTask(w)
  /\ driver' = "returned"
  /\ outcome' = result[w]
  /\ cancelled' = TRUE

\* Mutant: any result of a worker ends the loop.
JoinAnyLast(w) ==
  /\ Polls
  /\ result[w] \notin Fatal
  /\ JoinTask(w)
  /\ driver' = "draining"
  /\ UNCHANGED <<outcome, cancelled>>

(* Any other result; the last task to leave ends the loop. *)
JoinPlain(w) ==
  /\ Polls
  /\ result[w] \notin Fatal
  /\ JoinTask(w)
  /\ driver' = IF active = 0 THEN "draining" ELSE "running"
  /\ UNCHANGED <<outcome, cancelled>>

AllJoined == \A w \in Workers : task[w] \in {"none", "joined"}

(* join_next has nothing to wait for. *)
JoinNothing ==
  /\ Polls /\ AllJoined
  /\ driver' = "draining"
  /\ UNCHANGED <<vars, connections, outcome, cancelled, active, readyTold, task,
                 finished, result, exchangeVars, outsideVars>>

(* After the loop every result left is logged, and no more. *)
Drain(w) ==
  /\ driver = "draining"
  /\ JoinTask(w)
  /\ UNCHANGED <<driver, outcome, cancelled>>

ConcludeDownload ==
  /\ driver = "draining" /\ AllJoined
  /\ driver' = "returned"
  /\ outcome' = IF AllCompleted THEN "ok" ELSE "incomplete"
  /\ cancelled' = ~AllCompleted
  /\ UNCHANGED <<vars, connections, active, readyTold, task, finished, result,
                 exchangeVars, outsideVars>>

-----------------------------------------------------------------------------
(* The persistence task fails the buffer of a download that failed. *)
FailBuffer ==
  /\ driver = "returned" /\ outcome # "ok"
  /\ SetFailed
  /\ UNCHANGED <<driverVars, task, finished, result, exchangeVars, outsideVars>>

(* The mirror synchronises. *)
Publish ==
  /\ upstream' \in Data \ {upstream}
  /\ UNCHANGED <<vars, driverVars, task, finished, result, exchangeVars, pinned, others>>

(* The workers of other downloads come and go. *)
LendPermit ==
  /\ PermitLeft
  /\ others' = others + 1
  /\ UNCHANGED <<vars, driverVars, task, finished, result, exchangeVars, upstream, pinned>>

TakeBack ==
  /\ others > 0
  /\ others' = others - 1
  /\ UNCHANGED <<vars, driverVars, task, finished, result, exchangeVars, upstream, pinned>>

Outside == Publish \/ LendPermit \/ TakeBack

TaskStep(w) ==
  \/ Acquire(w) \/ ClaimNext(w) \/ Begin(w) \/ Finish(w)
  \/ Precondition(w) \/ RangeIgnored(w) \/ Answers(w)
  \/ ReceiveChunk(w) \/ Retry(w) \/ Fail(w) \/ Complete(w) \/ Tell(w)
  \/ EndTask(w) \/ Abort(w)

DriverStep ==
  \/ \E w \in Workers :
       SpawnFirst(w) \/ SpawnMore(w) \/ JoinFatal(w) \/ JoinPlain(w) \/ Drain(w)
  \/ SpawnedAll \/ JoinNothing \/ ConcludeDownload \/ FailBuffer

DownloaderNext == Outside \/ DriverStep \/ \E w \in Workers : TaskStep(w)

DownloaderSpec == DownloaderInit /\ [][DownloaderNext]_downloadVars

(* The driver and every task run when they can: each exchange has timeouts *)
(* (30 s between chunks, 300 s in all), so it goes on or fails.  Other      *)
(* downloads give their permits back, and the semaphore serves those who   *)
(* wait in the order they came: nobody is overtaken for ever.              *)
FairDownloaderSpec ==
  /\ DownloaderSpec
  /\ WF_downloadVars(DriverStep)
  /\ WF_downloadVars(TakeBack)
  /\ \A w \in Workers : WF_downloadVars(TaskStep(w)) /\ SF_downloadVars(Acquire(w))

-----------------------------------------------------------------------------
(* Properties.                                                             *)

(* Ok is what moves the file into the cache (downloader.rs:249): it has no *)
(* hole then, and with a strong ETag it is one generation, the one whose   *)
(* headers the client was sent.                                            *)
OkMeansOneGeneration ==
  outcome = "ok" =>
    \A o \in Offset : file[o] # Hole /\ (StrongEtag => file[o] = pinned)

(* The loop ends by active = 0 only when no task will ever touch the buffer *)
(* again (downloader.rs:228): the counter is taken down inside the tasks,   *)
(* while new ones are spawned.                                              *)
DrainedIsQuiet ==
  driver = "draining" => \A w \in Workers : task[w] \notin {"queued", "running"}

(* The download keeps to what the buffer expects of its callers: a range is *)
(* marked only when the file holds all of it, though only the bytes of one  *)
(* attempt are counted (downloader.rs:483); a chunk lands inside the range  *)
(* of its worker, though the server may send more (413); and there is one   *)
(* worker, and one more per segment marked ready, though the driver knows   *)
(* them by its channel alone (192).  So what is proved of the buffer under  *)
(* its own guards holds of a download.                                      *)
ImplementsBuffer == Spec

(* download_multithreaded returns, however the server behaves.              *)
DownloadReturns == <>(driver = "returned")

(* After an abort nobody keeps a permit, which other downloads wait for     *)
(* (downloader.rs:113), and the streams are told.                           *)
AbortFreesPermits ==
  (driver = "returned") ~> (Holders = {} /\ (outcome = "ok" \/ failed))

-----------------------------------------------------------------------------
(* The inductive invariant behind the safety properties.                   *)

(* A body that is read has a generation: with a strong ETag the pinned one. *)
BodiesKnown ==
  \A w \in Workers : io[w] = "reading" =>
    body[w] \in Data /\ (StrongEtag => body[w] = pinned)

(* The range of a worker is not reversed and ends inside the file. *)
RangesHeld ==
  \A w \in Workers : pc[w] \in {"pushing", "filling", "counting"} =>
    lo[w] <= hi[w] /\ hi[w] <= TotalSize

(* file_offset stands for what an attempt wrote: from the start of the range *)
(* to it the file has no hole.                                               *)
Written ==
  \A w \in Workers : io[w] = "reading" =>
    /\ pc[w] \in {"filling", "counting"}
    /\ lo[w] <= pos[w] /\ pos[w] <= hi[w]
    /\ Filled(Units(lo[w], pos[w]))

(* A message in the channel is a segment counted as ready, and each worker *)
(* but the first was spawned for a message.                                *)
SpawnsTold ==
  /\ Spawned = {} => readyTold <= readyCount
  /\ Spawned # {} => Cardinality(Spawned) + readyTold <= 1 + readyCount

OneGeneration == StrongEtag => \A o \in Offset : file[o] \in {Hole, pinned}

(* Only a task at work is in the middle of a claim. *)
ClaimersRun == \A w \in Pushing : task[w] = "running"

NotSpawned == \A w \in Workers : pc[w] = "absent" => task[w] = "none"

AtWork == {w \in Workers : task[w] \in {"queued", "running"}}

(* The counter is exact until a fatal error aborts the tasks it counts. *)
ActiveCounts == driver # "returned" => active = Cardinality(AtWork)

DownloaderInv ==
  /\ IInv
  /\ DownloaderTypeOK
  /\ BodiesKnown
  /\ RangesHeld
  /\ Written
  /\ SpawnsTold
  /\ OneGeneration
  /\ ClaimersRun
  /\ NotSpawned
  /\ ActiveCounts
  /\ DrainedIsQuiet
  /\ OkMeansOneGeneration

-----------------------------------------------------------------------------
(* What a comment says and the code does not do.                           *)

(* proxy.rs:173-176: "An upstream generation change mid-download is a      *)
(* transient condition (mirror re-sync), not an upstream outage: it must   *)
(* not trip the failure cooldown": a download that a 412 ended reports it. *)
GenerationChangeReported ==
  (\E w \in Workers : result[w] = "etag") => outcome # "incomplete"
=============================================================================
