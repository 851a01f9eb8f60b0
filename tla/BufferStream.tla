---------------------------- MODULE BufferStream ----------------------------
(***************************************************************************)
(* The response bodies that make_buffer_stream (src/proxy.rs) builds over a *)
(* SegmentsBuffer: the leader's and those of the followers.  Each stream   *)
(* walks the vector of segments by index and sleeps at most 100 ms when it *)
(* has nothing to send, so its progress does not rest on notifications,    *)
(* which are left out.                                                     *)
(*                                                                         *)
(* The end of the stream is decided by two reads of the buffer,            *)
(* num_segments and then all_completed, each under its own lock: Poll and  *)
(* Conclude, with the workers running in between.                          *)
(***************************************************************************)
EXTENDS SegmentsBuffer

CONSTANTS
  Streams,    \* response bodies being polled
  ReadErrors  \* whether read_data can fail (an I/O error on the file)

ASSUME StreamAssumption == ReadErrors \in BOOLEAN

VARIABLES
  state,  \* state of each stream
  cur,    \* current_segment, from 1
  off,    \* offset_in_segment
  got     \* the units sent to the client, in order

streamVars == <<state, cur, off, got>>
allVars == <<vars, streamVars>>

\* polling: at the head of the loop   concluding: past the last segment seen,
\* about to ask all_completed   ended: returned None   errored: sent an error
StreamState == {"polling", "concluding", "ended", "errored"}

StreamTypeOK ==
  /\ TypeOK
  /\ state \in [Streams -> StreamState]
  /\ cur \in [Streams -> Nat \ {0}]
  /\ off \in [Streams -> Nat]
  /\ got \in [Streams -> Seq(Offset)]

StreamInit ==
  /\ Init
  /\ state = [s \in Streams |-> "polling"]
  /\ cur = [s \in Streams |-> 1]
  /\ off = [s \in Streams |-> 0]
  /\ got = [s \in Streams |-> <<>>]

-----------------------------------------------------------------------------
Move(s, to) == state' = [state EXCEPT ![s] = to]

(* Mutant: the failure is looked at only when a segment is there to send. *)
SendErrorWithData(s) ==
  /\ state[s] = "polling"
  /\ failed /\ IsReady(cur[s])
  /\ Move(s, "errored")
  /\ UNCHANGED <<vars, cur, off, got>>

(* is_failed at the head of the loop: one error, then the body is over. *)
SendError(s) ==
  /\ state[s] = "polling"
  /\ failed
  /\ Move(s, "errored")
  /\ UNCHANGED <<vars, cur, off, got>>

(* current_segment is past every segment that num_segments counts.  With no *)
(* segment at all the stream sleeps whatever all_completed says.            *)
Poll(s) ==
  /\ state[s] = "polling"
  /\ ~failed
  /\ cur[s] > Len(segments)
  /\ Len(segments) > 0
  /\ Move(s, "concluding")
  /\ UNCHANGED <<vars, cur, off, got>>

(* Mutant: waits for one more ready segment than there are. *)
ConcludeStrict(s) ==
  /\ state[s] = "concluding"
  /\ Move(s, IF allAssigned /\ readyCount > Len(segments) THEN "ended" ELSE "polling")
  /\ UNCHANGED <<vars, cur, off, got>>

(* all_completed, asked after num_segments was read. *)
Conclude(s) ==
  /\ state[s] = "concluding"
  /\ Move(s, IF AllCompleted THEN "ended" ELSE "polling")
  /\ UNCHANGED <<vars, cur, off, got>>

(* Mutant: any pushed segment is read. *)
AtPushed(s) == state[s] = "polling" /\ ~failed /\ cur[s] \in Ids

AtReady(s) == state[s] = "polling" /\ ~failed /\ IsReady(cur[s])

Position(s) == segments[cur[s]].start + off[s]

(* Mutant: after a segment the stream starts again before the first one. *)
NextFromZero(s) ==
  /\ cur' = [cur EXCEPT ![s] = 0]
  /\ off' = [off EXCEPT ![s] = 0]
  /\ UNCHANGED <<vars, state, got>>

NextSegment(s) ==
  /\ cur' = [cur EXCEPT ![s] = cur[s] + 1]
  /\ off' = [off EXCEPT ![s] = 0]
  /\ UNCHANGED <<vars, state, got>>

SegmentEnd(s) ==
  /\ AtReady(s)
  /\ Position(s) >= segments[cur[s]].end
  /\ NextSegment(s)

(* Mutant: advances by one unit whatever was read. *)
SendAgain(s, n) ==
  /\ AtReady(s)
  /\ n > 0 /\ Position(s) + n <= segments[cur[s]].end
  /\ got' = [got EXCEPT ![s] = got[s] \o [i \in 1 .. n |-> Position(s) + i - 1]]
  /\ off' = [off EXCEPT ![s] = off[s] + 1]
  /\ UNCHANGED <<vars, state, cur>>

(* read_data may return fewer bytes than asked for. *)
SendData(s, n) ==
  /\ AtReady(s)
  /\ n > 0 /\ Position(s) + n <= segments[cur[s]].end
  /\ got' = [got EXCEPT ![s] = got[s] \o [i \in 1 .. n |-> Position(s) + i - 1]]
  /\ off' = [off EXCEPT ![s] = off[s] + n]
  /\ UNCHANGED <<vars, state, cur>>

(* read_data failed: the rest of the segment is skipped. *)
SkipSegment(s) ==
  /\ ReadErrors
  /\ AtReady(s)
  /\ Position(s) < segments[cur[s]].end
  /\ NextSegment(s)

StreamStep(s) ==
  \/ SendError(s)
  \/ Poll(s)
  \/ Conclude(s)
  \/ SegmentEnd(s)
  \/ \E n \in 1 .. TotalSize : SendData(s, n)
  \/ SkipSegment(s)

StreamNext ==
  \/ Next /\ UNCHANGED streamVars
  \/ \E s \in Streams : StreamStep(s)

StreamSpec == StreamInit /\ [][StreamNext]_allVars

(***************************************************************************)
(* Fairness.  A stream is polled again at most 100 ms after it slept.  A   *)
(* worker that does not die goes on: every request has a total timeout of  *)
(* 300 s (lib.rs), every read of its body one of its own, and attempts are  *)
(* bounded: it does not write the same bytes for ever.  The task that      *)
(* persists the result calls set_failed once the workers are gone and the  *)
(* buffer is not complete.  Dying is never forced.                         *)
(***************************************************************************)
FillsAHole == \E o \in Offset : file[o] = Hole /\ file'[o] # Hole

WorkerProgress(w) ==
  /\ WorkerStep(w)
  /\ ~Die(w)
  /\ file' = file \/ FillsAHole
  /\ UNCHANGED streamVars

WorkersGone == \A w \in Workers : pc[w] \in {"absent", "done", "dead"}

GiveUp == WorkersGone /\ ~AllCompleted /\ SetFailed /\ UNCHANGED streamVars

Fairness ==
  /\ \A s \in Streams : WF_allVars(StreamStep(s))
  /\ \A w \in Workers : WF_allVars(WorkerProgress(w))
  /\ WF_allVars(GiveUp)

FairStreamSpec == StreamSpec /\ Fairness

-----------------------------------------------------------------------------
(* Properties *)

Sent(s) == {got[s][i] : i \in 1 .. Len(got[s])}

(* No client is sent the same part of the file twice, although segments are *)
(* pushed by concurrent workers (proxy.rs:1013).                            *)
NothingSentTwice ==
  \A s \in Streams : Cardinality(Sent(s)) = Len(got[s])

(* Nothing is sent that was not downloaded: reads of the sparse file never  *)
(* return the zeros of a hole (proxy.rs:1056).                              *)
NoHoleSent == \A s \in Streams : Filled(Sent(s))

(* A body is a prefix of the file, and all of it when it ends without an    *)
(* error: stress_multithread.rs:16 and 19 assert the length and the digest  *)
(* of every body against those of the file.                                 *)
BodyIsTheFile ==
  \A s \in Streams :
    /\ \A i \in 1 .. Len(got[s]) : got[s][i] = i - 1
    /\ state[s] = "ended" => Len(got[s]) = TotalSize

(* Every body comes to an end, by its last byte or by an error, whatever   *)
(* dies on the way: no client hangs on a download that stopped.            *)
StreamsFinish == \A s \in Streams : <>(state[s] \in {"ended", "errored"})

(* When some part of the file was given to a worker that died with it, no  *)
(* body that is still open can go on waiting: it ends with the error.      *)
LostRangeIsReported ==
  \A s \in Streams, w \in Workers :
    (pc[w] = "dead" /\ seg[w] \in Ids /\ ~IsReady(seg[w]) /\ state[s] = "polling")
      ~> (state[s] = "errored")
=============================================================================
