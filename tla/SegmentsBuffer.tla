--------------------------- MODULE SegmentsBuffer ---------------------------
(***************************************************************************)
(* The disk-backed segment buffer of src/buffer.rs and the worker threads  *)
(* that fill it.                                                           *)
(*                                                                         *)
(* A file of TotalSize units (a unit stands for the 64 KiB that            *)
(* MIN_SEGMENT_SIZE makes the smallest preferred size) is claimed range by *)
(* range from a lock-free cursor, every claimed range is pushed on a       *)
(* vector of segments under a mutex, its bytes are written to one sparse   *)
(* file, and the segment is marked Ready and counted.                      *)
(*                                                                         *)
(* claim_range and mark_ready are not atomic: the compare-exchange of the  *)
(* cursor and the push are two steps (Claim, Push), and so are the state   *)
(* change of a segment and the increment of ready_count (MarkReady,        *)
(* CountReady).  Other threads run in between.  Segments are indexed from  *)
(* 1 here and from 0 in the code.                                          *)
(***************************************************************************)
EXTENDS Integers, FiniteSets, Sequences

CONSTANTS
  Workers,        \* download tasks of one download
  InitialWorkers, \* tasks spawned before any segment is ready
  TotalSize,      \* size of the file, from the Content-Length of HEAD
  Sizes,          \* values a worker's preferred_size takes
  Data,           \* contents a unit can be given (generations of the file)
  Hole            \* content of a unit that was never written

ASSUME BufferAssumption ==
  /\ IsFiniteSet(Workers)
  /\ InitialWorkers \in Nat
  /\ TotalSize \in Nat
  /\ Sizes \subseteq Nat \ {0}
  /\ Hole \notin Data

VARIABLES
  nextUnassigned, \* the claim cursor
  segments,       \* the vector of pushed segments
  readyCount,     \* segments counted as ready
  allAssigned,    \* set by a claim that found nothing left
  failed,         \* set_failed was called
  file,           \* content of the temporary file
  pc,             \* where each worker is
  lo, hi,         \* range held by each worker
  seg             \* index of the segment each worker holds

bufferVars == <<nextUnassigned, segments, readyCount, allAssigned, failed, file>>
workerVars == <<pc, lo, hi, seg>>
vars == <<nextUnassigned, segments, readyCount, allAssigned, failed, file,
          pc, lo, hi, seg>>

Offset == 0 .. TotalSize - 1

SegState == {"Downloading", "Ready"}

Segment == [start : Nat, end : Nat, state : SegState]

\* absent: not spawned   claiming: at the head of the loop of a worker
\* pushing: owns a range that is not in the vector yet
\* filling: downloading  counting: segment Ready, not yet in ready_count
\* done: claim returned None   dead: returned an error or was aborted
PC == {"absent", "claiming", "pushing", "filling", "counting", "done", "dead"}

TypeOK ==
  /\ nextUnassigned \in Nat
  /\ segments \in Seq(Segment)
  /\ readyCount \in Nat
  /\ allAssigned \in BOOLEAN
  /\ failed \in BOOLEAN
  /\ file \in [Offset -> Data \cup {Hole}]
  /\ pc \in [Workers -> PC]
  /\ lo \in [Workers -> Nat]
  /\ hi \in [Workers -> Nat]
  /\ seg \in [Workers -> Nat]

Init ==
  /\ nextUnassigned = 0
  /\ segments = <<>>
  /\ readyCount = 0
  /\ allAssigned = FALSE
  /\ failed = FALSE
  /\ file = [o \in Offset |-> Hole]
  /\ pc = [w \in Workers |-> "absent"]
  /\ lo = [w \in Workers |-> 0]
  /\ hi = [w \in Workers |-> 0]
  /\ seg = [w \in Workers |-> 0]

-----------------------------------------------------------------------------
(* Derived views of the buffer *)

Units(first, last) == first .. last - 1

Ids == 1 .. Len(segments)

ReadyIds == {i \in Ids : segments[i].state = "Ready"}

SegUnits(i) == Units(segments[i].start, segments[i].end)

Filled(U) == \A o \in U : file[o] # Hole

(* Mutant: forgets that ranges may still be unclaimed. *)
AllCompletedOfPushed == readyCount >= Len(segments)

(* all_completed: what the stream and the downloader ask of the buffer. *)
AllCompleted == allAssigned /\ readyCount >= Len(segments)

(* is_ready *)
IsReady(i) == i \in Ids /\ segments[i].state = "Ready"

-----------------------------------------------------------------------------
(* Spawning: INITIAL_WORKER_COUNT tasks at first, then one per segment that *)
(* was reported ready, up to the configured number.                         *)
Spawned == {w \in Workers : pc[w] # "absent"}

(* A task enters download_worker. *)
Enlist(w) ==
  /\ pc[w] = "absent"
  /\ pc' = [pc EXCEPT ![w] = "claiming"]
  /\ UNCHANGED <<bufferVars, lo, hi, seg>>

Spawn(w) == Cardinality(Spawned) < InitialWorkers + readyCount /\ Enlist(w)

(* Mutant: the operands of the length that is left are swapped. *)
RangeEndSwapped(preferred) ==
  LET left == nextUnassigned - TotalSize
  IN  nextUnassigned + (IF preferred < left THEN preferred ELSE left)

(* Where a range that starts at the cursor ends. *)
RangeEnd(preferred) ==
  LET left == TotalSize - nextUnassigned
  IN  nextUnassigned + (IF preferred < left THEN preferred ELSE left)

(* claim_range up to and including its compare-exchange. *)
Claim(w, preferred) ==
  /\ pc[w] = "claiming"
  /\ nextUnassigned < TotalSize
  /\ nextUnassigned' = RangeEnd(preferred)
  /\ lo' = [lo EXCEPT ![w] = nextUnassigned]
  /\ hi' = [hi EXCEPT ![w] = RangeEnd(preferred)]
  /\ pc' = [pc EXCEPT ![w] = "pushing"]
  /\ UNCHANGED <<segments, readyCount, allAssigned, failed, file, seg>>

(* claim_range that finds the cursor at the end of the file. *)
Exhausted(w) ==
  /\ pc[w] = "claiming"
  /\ nextUnassigned >= TotalSize
  /\ allAssigned' = TRUE
  /\ pc' = [pc EXCEPT ![w] = "done"]
  /\ UNCHANGED <<nextUnassigned, segments, readyCount, failed, file, lo, hi, seg>>

(* Mutant: the end of the range is read from the cursor again. *)
SegmentToCursor(w) == [start |-> lo[w], end |-> nextUnassigned, state |-> "Downloading"]

ClaimedSegment(w) == [start |-> lo[w], end |-> hi[w], state |-> "Downloading"]

(* The rest of claim_range: the claimed range enters the vector. *)
Push(w) ==
  /\ pc[w] = "pushing"
  /\ segments' = Append(segments, ClaimedSegment(w))
  /\ seg' = [seg EXCEPT ![w] = Len(segments) + 1]
  /\ pc' = [pc EXCEPT ![w] = "filling"]
  /\ UNCHANGED <<nextUnassigned, readyCount, allAssigned, failed, file, lo, hi>>

(* Mutant: a chunk is not cut at the end of the range. *)
UncutChunk(w, from, upto) == lo[w] <= from /\ from < upto /\ from < hi[w]

(* A chunk of the response lands at from and is cut at the end of the range. *)
Chunk(w, from, upto) == lo[w] <= from /\ from < upto /\ upto <= hi[w]

(* write_data itself, which asks nothing of where it writes. *)
Write(w, from, upto, d) ==
  /\ pc[w] = "filling"
  /\ file' = [o \in Offset |-> IF o \in Units(from, upto) THEN d ELSE file[o]]
  /\ UNCHANGED <<nextUnassigned, segments, readyCount, allAssigned, failed,
                 workerVars>>

(* write_data with one chunk of the response. *)
WriteData(w, from, upto, d) == Chunk(w, from, upto) /\ Write(w, from, upto, d)

(* Mutant: a body that was cut short is taken for the whole range. *)
ReceivedSome(w) == \E o \in Units(lo[w], hi[w]) : file[o] # Hole

(* As many bytes were received as the range has. *)
Received(w) == Filled(Units(lo[w], hi[w]))

(* mark_ready up to the end of its critical section. *)
Mark(w) ==
  /\ pc[w] = "filling"
  /\ segments' = [segments EXCEPT ![seg[w]].state = "Ready"]
  /\ pc' = [pc EXCEPT ![w] = "counting"]
  /\ UNCHANGED <<nextUnassigned, readyCount, allAssigned, failed, file, lo, hi, seg>>

(* The worker calls it when it has the whole range. *)
MarkReady(w) == Received(w) /\ Mark(w)

(* Mutant: the segment is counted twice. *)
CountTwice(w) ==
  /\ pc[w] = "counting"
  /\ readyCount' = readyCount + 2
  /\ pc' = [pc EXCEPT ![w] = "claiming"]
  /\ UNCHANGED <<nextUnassigned, segments, allAssigned, failed, file, lo, hi, seg>>

(* The rest of mark_ready, and back to the head of the worker's loop. *)
CountReady(w) ==
  /\ pc[w] = "counting"
  /\ readyCount' = readyCount + 1
  /\ pc' = [pc EXCEPT ![w] = "claiming"]
  /\ UNCHANGED <<nextUnassigned, segments, allAssigned, failed, file, lo, hi, seg>>

(* Mutant: the range of a failed worker is given back, the segment stays. *)
DieReleasing(w) ==
  /\ pc[w] = "filling"
  /\ pc' = [pc EXCEPT ![w] = "dead"]
  /\ nextUnassigned' = lo[w]
  /\ UNCHANGED <<segments, readyCount, allAssigned, failed, file, lo, hi, seg>>

(* The worker returns an error, is cancelled, or its task is aborted: only *)
(* where it awaits, so never between the two steps of a claim or of a mark. *)
(* Its range stays claimed for ever.                                       *)
Die(w) ==
  /\ pc[w] \in {"claiming", "filling"}
  /\ pc' = [pc EXCEPT ![w] = "dead"]
  /\ UNCHANGED <<bufferVars, lo, hi, seg>>

(* set_failed, called by the task that persists the result. *)
SetFailed ==
  /\ ~failed
  /\ failed' = TRUE
  /\ UNCHANGED <<nextUnassigned, segments, readyCount, allAssigned, file, workerVars>>

WorkerStep(w) ==
  \/ Spawn(w)
  \/ \E preferred \in Sizes : Claim(w, preferred)
  \/ Exhausted(w)
  \/ Push(w)
  \/ \E from, upto \in 0 .. TotalSize, d \in Data : WriteData(w, from, upto, d)
  \/ MarkReady(w)
  \/ CountReady(w)
  \/ Die(w)

Next == SetFailed \/ \E w \in Workers : WorkerStep(w)

Spec == Init /\ [][Next]_vars

-----------------------------------------------------------------------------
(* Properties *)

Counting == {w \in Workers : pc[w] = "counting"}

Pushing == {w \in Workers : pc[w] = "pushing"}

(* Every unit below the cursor belongs to exactly one claimed range: to one *)
(* pushed segment, or to one worker between the compare-exchange and the    *)
(* push (claim_range, buffer.rs:80).  No unit is fetched twice and none is  *)
(* skipped, whatever the interleaving of claims.                            *)
ClaimsPartition ==
  /\ \A i, j \in Ids : i # j => SegUnits(i) \cap SegUnits(j) = {}
  /\ \A v, w \in Pushing : v # w => Units(lo[v], hi[v]) \cap Units(lo[w], hi[w]) = {}
  /\ \A i \in Ids, w \in Pushing : SegUnits(i) \cap Units(lo[w], hi[w]) = {}
  /\ \A o \in Units(0, nextUnassigned) :
       (\E i \in Ids : o \in SegUnits(i)) \/ (\E w \in Pushing : o \in Units(lo[w], hi[w]))

(* A segment that a stream may read has no hole in it: the sparse file reads *)
(* as zeros where nothing was written (is_ready and read_data).              *)
ReadyIsFilled == \A i \in ReadyIds : Filled(SegUnits(i))

(* What download_multithreaded relies on when it returns Ok (downloader.rs:249) *)
(* and the file is moved into the cache: with no claim half way, all_completed  *)
(* means that no hole is left in the file.                                      *)
CompletionSound == AllCompleted /\ Pushing = {} => Filled(Offset)

(* A worker never writes into a segment that was marked Ready (its own or *)
(* another's): streams read Ready segments without a lock.                *)
ReadyIsStable ==
  [][\A i \in ReadyIds : \A o \in SegUnits(i) : file'[o] = file[o]]_vars

-----------------------------------------------------------------------------
(* The inductive invariant behind the properties above. *)

(* The cursor never passes the end of the file, no range passes the cursor, *)
(* and all_assigned is set only when nothing is left to claim.              *)
RangesBelowCursor ==
  /\ nextUnassigned <= TotalSize
  /\ allAssigned => nextUnassigned = TotalSize
  /\ \A i \in Ids : segments[i].end <= nextUnassigned
  /\ \A w \in Pushing : hi[w] <= nextUnassigned

(* A worker that downloads holds a segment of its own that is not Ready and *)
(* has the range of its claim.                                              *)
FillersOwnSegments ==
  /\ \A w \in Workers : pc[w] = "filling" =>
       /\ seg[w] \in Ids
       /\ segments[seg[w]] = [start |-> lo[w], end |-> hi[w], state |-> "Downloading"]
  /\ \A v, w \in Workers :
       pc[v] = "filling" /\ pc[w] = "filling" /\ v # w => seg[v] # seg[w]

(* ready_count lags behind the Ready segments by the workers that are between *)
(* the two steps of mark_ready.                                               *)
CountLagsByCounting == readyCount + Cardinality(Counting) = Cardinality(ReadyIds)

(* What the steps of the buffer preserve whatever is in the file.             *)
Shape ==
  /\ TypeOK
  /\ RangesBelowCursor
  /\ FillersOwnSegments
  /\ ClaimsPartition
  /\ CountLagsByCounting

(* With what workers write before they mark; completeness of a finished       *)
(* download follows from it.                                                  *)
IInv == Shape /\ ReadyIsFilled

-----------------------------------------------------------------------------
(* The buffer implements RangedDownload: Ready segments are sealed, and what *)
(* lies below the cursor outside of them is being fetched.                   *)
UnitPhase ==
  [o \in Offset |->
     IF \E i \in ReadyIds : o \in SegUnits(i) THEN "sealed"
     ELSE IF o < nextUnassigned THEN "fetching" ELSE "free"]

Ranged == INSTANCE RangedDownload WITH phase <- UnitPhase, content <- file

(* Whatever its threads do, the buffer is a download by ranges: units are    *)
(* handed out once and in order (claim_range), and what is_ready shows to    *)
(* the streams is final.                                                     *)
ImplementsRangedDownload == Ranged!Spec
=============================================================================
