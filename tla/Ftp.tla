-------------------------------- MODULE Ftp --------------------------------
(***************************************************************************)
(* The FTP download of src/ftp.rs over the buffer of SegmentsBuffer, and   *)
(* the request that leads it (handle_ftp_proxy of src/proxy.rs).           *)
(*                                                                         *)
(* All workers are spawned at once and joined in the order of their        *)
(* spawning.  Each opens a control connection of its own and asks range    *)
(* by range: PASV, REST when the range does not start at 0, RETR.  A data  *)
(* connection that ends early ends the range, whole or not, and the        *)
(* replies to REST and to the end of the transfer are not looked at.       *)
(*                                                                         *)
(* Unit o of the file at the server has content o.                         *)
(***************************************************************************)
EXTENDS SegmentsBuffer, Addresses

CONSTANTS
  Permits,  \* max_workers
  FaultSets, \* what the server does amiss: sets of faults
  Replies,  \* replies to PASV: sequences of fields
  Urls      \* what clients ask for: addresses as texts

ASSUME FtpAssumption ==
  /\ Workers = 1 .. Cardinality(Workers)
  /\ InitialWorkers = Cardinality(Workers)
  /\ Permits \in Nat \ {0}
  /\ Data = Offset
  /\ FaultSets \subseteq SUBSET {"cuts", "ignores REST", "closes"}

VARIABLES
  faults,      \* of this server
  address,     \* what parse_ftp_url makes of the URL of this request
  connections, \* num_connections
  handler,     \* where handle_ftp_proxy is
  entry,       \* the entry of the coalescer for this URL
  kept,        \* whether the file went into the cache
  joined,      \* handles that download_ftp_multithreaded has awaited
  errors,      \* whether one of them brought an error
  cancelled,   \* its CancellationToken
  outcome,     \* what it returned
  task,        \* where the task of each worker is
  result,      \* what ftp_worker returned in it
  io,          \* where its control connection is
  pos,         \* offset + written of download_range
  sentFrom     \* where the transfer of the server starts

requestVars == <<faults, address, connections, handler, entry, kept>>
joinVars == <<joined, errors, cancelled, outcome>>
connectionVars == <<io, pos, sentFrom>>
ftpVars == <<vars, requestVars, joinVars, task, result, connectionVars>>

\* login: connect_and_login   idle: at the head of the loop
\* pasv, rest, retr: the reply to the command is awaited
\* reading: the data connection is open
\* spinning: read_response of a connection that the server closed
Io == {"none", "login", "idle", "pasv", "rest", "retr", "reading", "spinning"}

FtpTypeOK ==
  /\ TypeOK
  /\ faults \in FaultSets
  /\ connections \in Nat
  /\ address \in {ParseFtpUrl(url) : url \in Urls}
  /\ handler \in {"asking", "sizing", "spinning", "refused", "serving"}
  /\ entry \in {"leading", "buffered", "gone"}
  /\ kept \in BOOLEAN
  /\ joined \in Nat
  /\ errors \in BOOLEAN
  /\ cancelled \in BOOLEAN
  /\ outcome \in {"none", "ok", "failed"}
  /\ task \in [Workers -> {"none", "queued", "running", "ended"}]
  /\ result \in [Workers -> {"none", "ok", "cancelled", "error"}]
  /\ io \in [Workers -> Io]
  /\ pos \in [Workers -> Nat]
  /\ sentFrom \in [Workers -> Nat]

FtpInit ==
  /\ Init
  /\ faults \in FaultSets
  /\ address \in {ParseFtpUrl(url) : url \in Urls}
  /\ connections \in 0 .. Cardinality(Workers)
  /\ handler = "asking"
  /\ entry = "leading"
  /\ kept = FALSE
  /\ joined = 0
  /\ errors = FALSE
  /\ cancelled = FALSE
  /\ outcome = "none"
  /\ task = [w \in Workers |-> "none"]
  /\ result = [w \in Workers |-> "none"]
  /\ io = [w \in Workers |-> "none"]
  /\ pos = [w \in Workers |-> 0]
  /\ sentFrom = [w \in Workers |-> 0]

Set(f, w, value) == [f EXCEPT ![w] = value]

-----------------------------------------------------------------------------
(* handle_ftp_proxy, which leads the request.                              *)

Turn(from, to) ==
  /\ handler = from
  /\ handler' = to
  /\ UNCHANGED <<vars, faults, address, connections, kept, joinVars, task, result, connectionVars>>

Parsed == address # Refused

(* From here on the entry stays in the coalescer where the request fails.  *)
RefuseUrl == Turn("asking", "refused") /\ ~Parsed /\ UNCHANGED entry

(* check_ftp_size logs in on a connection of its own.                      *)
AskSize == Turn("asking", "sizing") /\ Parsed /\ UNCHANGED entry

\* Or the temporary file cannot be made.
SizeFails == Turn("sizing", "refused") /\ UNCHANGED entry

\* Its connection is closed where a reply is awaited, as those of workers are.
SizeSpins == "closes" \in faults /\ Turn("sizing", "spinning") /\ UNCHANGED entry

(* SIZE gave the length of the buffer; the download is spawned.            *)
Attach == Turn("sizing", "serving") /\ entry' = "buffered"

(* Mutant: a download that failed does not fail its entry. *)
PersistIfOk ==
  /\ entry = "buffered"
  /\ outcome = "ok"
  /\ entry' = "gone"
  /\ kept' = TRUE
  /\ UNCHANGED <<vars, faults, address, connections, handler, joinVars, task, result,
                 connectionVars>>

(* The persistence task, once the download has returned.                   *)
Persist ==
  /\ entry = "buffered"
  /\ outcome # "none"
  /\ entry' = "gone"
  /\ kept' = (outcome = "ok")
  /\ UNCHANGED <<vars, faults, address, connections, handler, joinVars, task, result,
                 connectionVars>>

-----------------------------------------------------------------------------
(* download_ftp_multithreaded.                                             *)

SpawnNext(w) ==
  /\ handler = "serving"
  /\ w <= connections
  /\ \A v \in 1 .. w - 1 : task[v] # "none"
  /\ Spawn(w)
  /\ task' = Set(task, w, "queued")
  /\ io' = Set(io, w, "login")
  /\ UNCHANGED <<requestVars, joinVars, result, pos, sentFrom>>

AllSpawned == handler = "serving" /\ \A w \in 1 .. connections : task[w] # "none"

(* Awaits the next handle; the token is cancelled by the first error.      *)
Join ==
  /\ AllSpawned
  /\ joined < connections
  /\ task[joined + 1] = "ended"
  /\ joined' = joined + 1
  /\ errors' = (errors \/ result[joined + 1] = "error")
  /\ cancelled' = (cancelled \/ result[joined + 1] = "error")
  /\ UNCHANGED <<vars, requestVars, outcome, task, result, connectionVars>>

(* Mutant: the first error ends the loop. *)
JoinedToTheFirstError == AllSpawned /\ (joined = connections \/ errors)

AllJoined == AllSpawned /\ joined = connections

(* Mutant: only the errors of workers that marked nothing count. *)
OkOfSome(anyError) == ~anyError \/ readyCount > 0

(* Whether the errors collected amount to a success. *)
Succeeded(anyError) == ~anyError

(* all_completed is not asked. *)
ReturnOk ==
  /\ AllJoined
  /\ outcome = "none"
  /\ Succeeded(errors)
  /\ outcome' = "ok"
  /\ UNCHANGED <<vars, requestVars, joined, errors, cancelled, task, result,
                 connectionVars>>

ReturnFailed ==
  /\ AllJoined
  /\ outcome = "none"
  /\ ~Succeeded(errors)
  /\ SetFailed
  /\ outcome' = "failed"
  /\ UNCHANGED <<requestVars, joined, errors, cancelled, task, result, connectionVars>>

-----------------------------------------------------------------------------
(* ftp_worker and download_range.                                          *)

Holders == {w \in Workers : task[w] = "running"}

Acquire(w) ==
  /\ task[w] = "queued"
  /\ Cardinality(Holders) < Permits
  /\ task' = Set(task, w, "running")
  /\ UNCHANGED <<vars, requestVars, joinVars, result, connectionVars>>

WorkerIs(w, where) ==
  /\ task[w] = "running"
  /\ io[w] = where
  /\ UNCHANGED <<requestVars, joinVars>>

(* connect_and_login; what USER, PASS and TYPE are answered is not looked at. *)
LogIn(w) ==
  /\ WorkerIs(w, "login")
  /\ io' = Set(io, w, "idle")
  /\ UNCHANGED <<vars, task, result, pos, sentFrom>>

(* The task ends and gives its permit back. *)
Return(w, value) ==
  /\ task' = Set(task, w, "ended")
  /\ result' = Set(result, w, value)
  /\ io' = Set(io, w, "none")
  /\ UNCHANGED <<pos, sentFrom>>

(* The token is looked at between two ranges only. *)
SeeCancelled(w) ==
  /\ WorkerIs(w, "idle")
  /\ pc[w] = "claiming"
  /\ cancelled
  /\ Die(w)
  /\ Return(w, "cancelled")

ClaimNext(w) ==
  /\ WorkerIs(w, "idle")
  /\ ~cancelled
  /\ \E preferred \in Sizes : Claim(w, preferred)
  /\ UNCHANGED <<task, result, connectionVars>>

Finish(w) ==
  /\ WorkerIs(w, "idle")
  /\ ~cancelled
  /\ Exhausted(w)
  /\ Return(w, "ok")

(* The claim ends, and PASV is sent. *)
SendPasv(w) ==
  /\ WorkerIs(w, "idle")
  /\ Push(w)
  /\ io' = Set(io, w, "pasv")
  /\ UNCHANGED <<task, result, pos, sentFrom>>

(* parse_pasv: fields that are not bytes and fewer than six are refused.   *)
Parses(reply) == Len(reply) >= 6 /\ \A i \in DOMAIN reply : reply[i] \in 0 .. 255

(* The port it connects to. *)
Port(reply) == 256 * reply[5] + reply[6]

(* Mutant: REST is sent for the ranges that begin the file. *)
RestartsBackwards(w) == lo[w] = 0

Restarts(w) == lo[w] > 0

PasvAnswered(w) ==
  /\ WorkerIs(w, "pasv")
  /\ \E reply \in Replies : Parses(reply) /\ Port(reply) > 0
  /\ io' = Set(io, w, IF Restarts(w) THEN "rest" ELSE "retr")
  /\ sentFrom' = Set(sentFrom, w, 0)
  /\ UNCHANGED <<vars, task, result, pos>>

(* Any reply will do; a server that does not know REST sends from 0. *)
RestAnswered(w) ==
  /\ WorkerIs(w, "rest")
  /\ io' = Set(io, w, "retr")
  /\ sentFrom' = Set(sentFrom, w, IF "ignores REST" \in faults THEN 0 ELSE lo[w])
  /\ UNCHANGED <<vars, task, result, pos>>

(* The data connection is open and 150 came. *)
RetrAnswered(w) ==
  /\ WorkerIs(w, "retr")
  /\ io' = Set(io, w, "reading")
  /\ pos' = Set(pos, w, lo[w])
  /\ UNCHANGED <<vars, task, result, sentFrom>>

(* One unit of the data connection goes to the file. *)
Read(w) ==
  /\ WorkerIs(w, "reading")
  /\ pos[w] < hi[w]
  /\ WriteData(w, pos[w], pos[w] + 1, sentFrom[w] + pos[w] - lo[w])
  /\ pos' = Set(pos, w, pos[w] + 1)
  /\ UNCHANGED <<task, result, io, sentFrom>>

(* Mutant: a range is given up for good after its first unit. *)
ReadEnough(w) == pos[w] > lo[w]

ReadAll(w) == pos[w] = hi[w]

(* download_range returns: the range was read, or the data connection      *)
(* ended before.  Either way the segment is marked Ready.                  *)
MarkRange(w) ==
  /\ WorkerIs(w, "reading")
  /\ ReadAll(w) \/ "cuts" \in faults
  /\ Mark(w)
  /\ io' = Set(io, w, "idle")
  /\ UNCHANGED <<task, result, pos, sentFrom>>

CountRange(w) ==
  /\ WorkerIs(w, "idle")
  /\ CountReady(w)
  /\ UNCHANGED <<task, result, connectionVars>>

AtTheServer(w) == io[w] \in {"login", "pasv", "rest", "retr", "reading"}

(* Mutant: the error of a range is logged and the worker ends as usual. *)
FailSilently(w) ==
  /\ AtTheServer(w)
  /\ WorkerIs(w, io[w])
  /\ Die(w)
  /\ Return(w, IF pc[w] = "claiming" THEN "error" ELSE "ok")

(* A connection, a command or a write fails, a reply is not what was asked *)
(* for, or the task panics on it.  The range stays claimed.                *)
Fail(w) ==
  /\ AtTheServer(w)
  /\ WorkerIs(w, io[w])
  /\ Die(w)
  /\ Return(w, "error")

AwaitsReply(w) ==
  \/ io[w] \in {"login", "pasv", "rest", "retr"}
  \/ io[w] = "reading" /\ (ReadAll(w) \/ "cuts" \in faults)

(* The server closes the control connection where a reply is awaited, be   *)
(* it the 226 behind a range: read_line gives empty lines from then on and *)
(* read_response asks again.                                               *)
Spin(w) ==
  /\ "closes" \in faults
  /\ AwaitsReply(w)
  /\ WorkerIs(w, io[w])
  /\ io' = Set(io, w, "spinning")
  /\ UNCHANGED <<vars, task, result, pos, sentFrom>>

(* It does so where the reply to QUIT is. *)
SpinAtQuit(w) ==
  /\ "closes" \in faults
  /\ WorkerIs(w, "idle")
  /\ ~cancelled
  /\ Exhausted(w)
  /\ io' = Set(io, w, "spinning")
  /\ UNCHANGED <<task, result, pos, sentFrom>>

(* It never leaves this loop. *)
ReadAgain(w) == WorkerIs(w, "spinning") /\ UNCHANGED <<vars, task, result, connectionVars>>

SizeReadAgain == handler = "spinning" /\ UNCHANGED ftpVars

WorkerAct(w) ==
  \/ LogIn(w) \/ SeeCancelled(w) \/ ClaimNext(w) \/ Finish(w) \/ SendPasv(w)
  \/ PasvAnswered(w) \/ RestAnswered(w) \/ RetrAnswered(w) \/ Read(w)
  \/ MarkRange(w) \/ CountRange(w) \/ Fail(w)

(* The download is over and persisted, or was never begun. *)
Over == handler = "refused" \/ entry = "gone"

Rest == Over /\ UNCHANGED ftpVars

Driver == Join \/ ReturnOk \/ ReturnFailed \/ Persist

FtpNext ==
  \/ RefuseUrl \/ AskSize \/ SizeFails \/ SizeSpins \/ Attach \/ Driver \/ Rest
  \/ \E w \in Workers : SpawnNext(w) \/ Acquire(w) \/ WorkerAct(w) \/ Spin(w) \/ SpinAtQuit(w)
                            \/ ReadAgain(w)
  \/ SizeReadAgain

FtpSpec == FtpInit /\ [][FtpNext]_ftpVars

(* Tokio runs every task that can run, the semaphore is fair, and a server *)
(* that does not close the control connection answers or fails: the code   *)
(* has no timeout of its own here.                                         *)
FairFtpSpec ==
  /\ FtpSpec
  /\ WF_ftpVars(RefuseUrl \/ AskSize \/ SizeFails \/ Attach)
  /\ WF_ftpVars(Driver)
  /\ \A w \in Workers :
       WF_ftpVars(SpawnNext(w)) /\ SF_ftpVars(Acquire(w)) /\ WF_ftpVars(WorkerAct(w))

-----------------------------------------------------------------------------
(* Properties *)

(* Ok is returned without asking all_completed (ftp.rs:318), and yet it    *)
(* means that every range was claimed, marked and counted: a worker that   *)
(* gives a range up brings an error, and one that was cancelled does so    *)
(* because another did.  With no connection at all it means nothing.       *)
OkMeansAllCompleted == outcome = "ok" /\ connections > 0 => AllCompleted

(* What goes into the cache is the file, from a server that sends whole    *)
(* bodies and knows REST; nothing in the code tells when it does not       *)
(* (ftp.rs:212, 233).                                                      *)
KeptIsTheFile ==
  kept /\ connections > 0 /\ faults \cap {"cuts", "ignores REST"} = {}
    => \A o \in Offset : file[o] = o

(* When the download returns no task of it is left (ftp.rs:300): none      *)
(* writes to a file that is being moved into the cache, none holds a       *)
(* permit, none is still to be cancelled.                                  *)
ReturnedIsQuiet ==
  outcome # "none" => \A w \in Workers : task[w] \in {"none", "ended"}

(* With a server that sends whole bodies the workers do to the buffer what *)
(* its own specification allows.                                           *)
UsesTheBuffer == Init /\ [][("cuts" \notin faults) => Next]_vars

(* The request is refused or its entry leaves the coalescer, whatever      *)
(* fails, unless the control connection is closed while a reply is awaited *)
(* (read_response, ftp.rs:103).                                            *)
FtpReturns == "closes" \notin faults ~> Over
=============================================================================
