--------------------------- MODULE DownloadProofs ---------------------------
(***************************************************************************)
(* Proofs about the two that share a segment buffer, the bodies that read  *)
(* it (BufferStream) and the downloader that fills it (Downloader), for    *)
(* every number of bodies and of workers and every file size.              *)
(*                                                                         *)
(* A body stays behind its position in the vector of segments, and what it *)
(* was sent lies in Ready segments: so it has no hole, no unit twice, and  *)
(* never changes.                                                          *)
(*                                                                         *)
(* The downloader marks by a count of bytes, writes what the server sends  *)
(* and spawns by messages: invariants of its own show that each of these   *)
(* is a step the buffer allows.  So the invariant of SegmentsBufferProofs  *)
(* holds of it; with the other invariants of the driver                    *)
(* and the exchanges it shows that a download that returns Ok is whole and *)
(* of one generation, and that the driver leaves its loop only when nobody *)
(* is at work any more.                                                    *)
(***************************************************************************)
EXTENDS BufferStream, Downloader, SegmentsBufferProofs, FunctionTheorems

-----------------------------------------------------------------------------
(* Bodies.                                                                 *)

(* What was sent of the file lies in segments that are Ready, none of them  *)
(* ahead of the stream, and in the one it is at before its offset.          *)
SentBehind ==
  \A s \in Streams : \A k \in 1 .. Len(got[s]) :
    \E i \in ReadyIds :
      /\ i <= cur[s]
      /\ got[s][k] \in SegUnits(i)
      /\ i = cur[s] => got[s][k] < Position(s)

NoRepeats ==
  \A s \in Streams : \A j, k \in 1 .. Len(got[s]) : j # k => got[s][j] # got[s][k]

StreamInv == IInv /\ StreamTypeOK /\ SentBehind /\ NoRepeats

-----------------------------------------------------------------------------
(* A step of a stream leaves the buffer alone, any other is one of it. *)
LEMMA StreamStepsRefine == [StreamNext]_allVars => [Next]_vars
BY DEF StreamNext, StreamStep, SendError, Poll, Conclude, SegmentEnd, SendData, SkipSegment,
       NextSegment, allVars

(* A Ready segment keeps its place, its range and its state. *)
LEMMA ReadyStays ==
  ASSUME IInv, [Next]_vars, NEW i \in ReadyIds
  PROVE  /\ i \in ReadyIds'
         /\ segments'[i].start = segments[i].start
         /\ segments'[i].end = segments[i].end
<1> USE DEF IInv, Shape
<1>1. i \in Ids /\ segments[i].state = "Ready"
  BY DEF ReadyIds
<1>2. CASE UNCHANGED segments
  BY <1>1, <1>2 DEF ReadyIds, Ids
<1>3. ASSUME NEW w \in Workers, Push(w)
      PROVE  /\ i \in ReadyIds'
             /\ segments'[i].start = segments[i].start
             /\ segments'[i].end = segments[i].end
  <2>1. /\ Len(segments') = Len(segments) + 1
        /\ Len(segments) \in Nat
        /\ \A k \in Ids : segments'[k] = segments[k]
    BY <1>3, PushAppends
  <2>2. i \in Ids' /\ segments'[i] = segments[i]
    BY <1>1, <2>1 DEF Ids
  <2>3. QED BY <1>1, <2>2 DEF ReadyIds
<1>4. ASSUME NEW w \in Workers, MarkReady(w)
      PROVE  /\ i \in ReadyIds'
             /\ segments'[i].start = segments[i].start
             /\ segments'[i].end = segments[i].end
  <2>1. /\ i \in Ids'
        /\ segments'[i].start = segments[i].start
        /\ segments'[i].end = segments[i].end
        /\ i # seg[w] => segments'[i] = segments[i]
        /\ segments'[seg[w]].state = "Ready"
    BY <1>1, <1>4, MarkChangesState DEF Ids, MarkReady
  <2>2. QED BY <1>1, <2>1 DEF ReadyIds
<1>5. QED
  BY <1>2, <1>3, <1>4 DEF Next, WorkerStep, SetFailed, Spawn, Enlist, Claim, Exhausted,
                          WriteData, Write, CountReady, Die, bufferVars, vars

(* What a stream is sent in one piece: the units from its position on, all  *)
(* of them of the Ready segment it is at.                                   *)
LEMMA PieceOfSegment ==
  ASSUME StreamInv, NEW s \in Streams, NEW n \in 1 .. TotalSize, SendData(s, n)
  PROVE  LET piece == [i \in 1 .. n |-> Position(s) + i - 1] IN
         /\ cur[s] \in ReadyIds
         /\ Position(s) \in Nat
         /\ piece \in Seq(Offset) /\ Len(piece) = n
         /\ got[s] \in Seq(Offset)
         /\ got'[s] = got[s] \o piece
         /\ off'[s] = off[s] + n /\ off[s] \in Nat
         /\ \A i \in 1 .. n : piece[i] \in SegUnits(cur[s])
<1> DEFINE piece == [i \in 1 .. n |-> Position(s) + i - 1]
<1> USE DEF StreamInv
<1>1. cur[s] \in ReadyIds
  BY DEF SendData, AtReady, IsReady, ReadyIds
<1>2. segments[cur[s]] \in Segment /\ SegUnits(cur[s]) \subseteq Offset
  BY <1>1, SegmentsInsideFile DEF ReadyIds, IInv
<1>3. off[s] \in Nat /\ got[s] \in Seq(Offset) /\ n \in Nat
  BY BufferAssumption DEF StreamTypeOK
<1>4. /\ Position(s) \in Nat
      /\ segments[cur[s]].start \in Nat /\ segments[cur[s]].end \in Nat
      /\ Position(s) >= segments[cur[s]].start
      /\ Position(s) + n <= segments[cur[s]].end
  BY <1>2, <1>3 DEF Segment, Position, SendData
<1>5. \A i \in 1 .. n : piece[i] \in SegUnits(cur[s])
  BY <1>3, <1>4 DEF SegUnits, Units
<1>6. \A i \in 1 .. n : piece[i] \in Offset
  BY <1>2, <1>5
<1>7. piece \in Seq(Offset) /\ Len(piece) = n
  <2>1. piece \in [1 .. n -> Offset]
    BY <1>6
  <2>2. piece \in Seq(Offset)
    BY <2>1, <1>3, IsASeq
  <2>3. DOMAIN piece = 1 .. n
    OBVIOUS
  <2>4. QED BY <2>2, <2>3, <1>3, LenProperties
<1>8. got'[s] = got[s] \o piece /\ off'[s] = off[s] + n
  BY DEF SendData, StreamTypeOK
<1>9. QED BY <1>1, <1>3, <1>4, <1>5, <1>7, <1>8

-----------------------------------------------------------------------------
(* Types. *)
LEMMA StreamTypes ==
  ASSUME StreamInv, TypeOK', NEW s \in Streams, StreamStep(s)
  PROVE  StreamTypeOK'
<1> USE DEF StreamInv, StreamTypeOK, StreamState, Move
<1>1. CASE SendError(s) \/ Poll(s) \/ Conclude(s)
  BY <1>1 DEF SendError, Poll, Conclude
<1>2. CASE SegmentEnd(s) \/ SkipSegment(s)
  <2>1. NextSegment(s)
    BY <1>2 DEF SegmentEnd, SkipSegment
  <2>2. cur[s] + 1 \in Nat \ {0}
    OBVIOUS
  <2>3. cur' \in [Streams -> Nat \ {0}] /\ off' \in [Streams -> Nat]
    BY <2>1, <2>2 DEF NextSegment
  <2>4. QED BY <2>1, <2>3 DEF NextSegment
<1>3. ASSUME NEW n \in 1 .. TotalSize, SendData(s, n)
      PROVE  StreamTypeOK'
  <2>1. got'[s] \in Seq(Offset) /\ off'[s] \in Nat
    <3>1. n \in Nat
      BY BufferAssumption
    <3>2. PICK piece : /\ piece \in Seq(Offset) /\ got[s] \in Seq(Offset)
                       /\ got'[s] = got[s] \o piece
                       /\ off'[s] = off[s] + n /\ off[s] \in Nat
      BY <1>3, PieceOfSegment
    <3>3. QED BY <3>1, <3>2, ConcatProperties
  <2>2. got' \in [Streams -> Seq(Offset)]
    <3>1. got' = [got EXCEPT ![s] = got'[s]]
      BY <1>3 DEF SendData
    <3>2. QED BY <2>1, <3>1
  <2>3. off' \in [Streams -> Nat]
    <3>1. off' = [off EXCEPT ![s] = off'[s]]
      BY <1>3 DEF SendData
    <3>2. QED BY <2>1, <3>1
  <2>4. QED BY <1>3, <2>2, <2>3 DEF SendData
<1>4. QED BY <1>1, <1>2, <1>3 DEF StreamStep

(* A stream that does not move keeps what it was sent behind it. *)
LEMMA BehindWhileResting ==
  ASSUME StreamInv, [Next]_vars, NEW s \in Streams,
         got'[s] = got[s], cur'[s] = cur[s], off'[s] = off[s],
         NEW k \in 1 .. Len(got'[s])
  PROVE  \E i \in ReadyIds' :
           /\ i <= cur'[s]
           /\ got'[s][k] \in SegUnits(i)'
           /\ i = cur'[s] => got'[s][k] < Position(s)'
<1>1. PICK i \in ReadyIds : /\ i <= cur[s]
                            /\ got[s][k] \in SegUnits(i)
                            /\ i = cur[s] => got[s][k] < Position(s)
  BY DEF StreamInv, SentBehind
<1>2. /\ i \in ReadyIds'
      /\ segments'[i].start = segments[i].start
      /\ segments'[i].end = segments[i].end
  BY ReadyStays DEF StreamInv
<1>3. SegUnits(i)' = SegUnits(i)
  BY <1>2 DEF SegUnits, Units
<1>4. i = cur[s] => Position(s)' = Position(s)
  BY <1>2 DEF Position
<1>5. QED BY <1>1, <1>2, <1>3, <1>4

(* Going on to the next segment leaves what was sent behind. *)
LEMMA BehindAfterSegment ==
  ASSUME StreamInv, NEW s \in Streams, UNCHANGED vars,
         got'[s] = got[s], cur'[s] = cur[s] + 1,
         NEW k \in 1 .. Len(got'[s])
  PROVE  \E i \in ReadyIds' :
           /\ i <= cur'[s]
           /\ got'[s][k] \in SegUnits(i)'
           /\ i = cur'[s] => got'[s][k] < Position(s)'
<1>1. PICK i \in ReadyIds : i <= cur[s] /\ got[s][k] \in SegUnits(i)
  BY DEF StreamInv, SentBehind
<1>2. i \in Nat /\ cur[s] \in Nat
  <2>1. Len(segments) \in Nat
    BY LenProperties DEF StreamInv, IInv, Shape, TypeOK
  <2>2. QED BY <2>1 DEF StreamInv, StreamTypeOK, ReadyIds, Ids
<1>3. i <= cur'[s] /\ i # cur'[s]
  BY <1>1, <1>2
<1>4. i \in ReadyIds' /\ SegUnits(i)' = SegUnits(i)
  BY DEF vars, ReadyIds, Ids, SegUnits, Units
<1>5. QED BY <1>1, <1>3, <1>4

(* What is sent of a segment ends where the stream then is in it. *)
LEMMA BehindAfterPiece ==
  ASSUME StreamInv, NEW s \in Streams, NEW n \in 1 .. TotalSize, SendData(s, n),
         NEW k \in 1 .. Len(got'[s])
  PROVE  \E i \in ReadyIds' :
           /\ i <= cur'[s]
           /\ got'[s][k] \in SegUnits(i)'
           /\ i = cur'[s] => got'[s][k] < Position(s)'
<1> DEFINE piece == [i \in 1 .. n |-> Position(s) + i - 1]
<1>1. /\ cur[s] \in ReadyIds
      /\ Position(s) \in Nat
      /\ piece \in Seq(Offset) /\ Len(piece) = n
      /\ got[s] \in Seq(Offset)
      /\ got'[s] = got[s] \o piece
      /\ off'[s] = off[s] + n /\ off[s] \in Nat
      /\ \A i \in 1 .. n : piece[i] \in SegUnits(cur[s])
  BY PieceOfSegment
<1>2. n \in Nat /\ Len(got[s]) \in Nat
  BY <1>1, BufferAssumption, LenProperties
<1>3. k \in 1 .. Len(got[s]) + n
  BY <1>1, ConcatProperties
<1>4. got'[s][k] = IF k <= Len(got[s]) THEN got[s][k] ELSE piece[k - Len(got[s])]
  BY <1>1, <1>3, ConcatProperties
<1>5. /\ cur' = cur
      /\ \A i \in ReadyIds : i \in ReadyIds' /\ SegUnits(i)' = SegUnits(i)
  BY DEF SendData, vars, ReadyIds, Ids, SegUnits, Units
<1>6. Position(s)' = Position(s) + n
  <2>1. segments' = segments /\ cur' = cur
    BY DEF SendData, vars
  <2>2. segments[cur[s]].start \in Nat
    BY <1>1, SegmentsInsideFile DEF StreamInv, IInv, ReadyIds, Segment
  <2>3. QED BY <1>1, <1>2, <2>1, <2>2 DEF Position
<1>7. cur[s] \in Nat
  BY DEF StreamInv, StreamTypeOK
<1>8. CASE k <= Len(got[s])
  <2>1. k \in 1 .. Len(got[s])
    BY <1>2, <1>3, <1>8
  <2>2. PICK i \in ReadyIds : /\ i <= cur[s]
                              /\ got[s][k] \in SegUnits(i)
                              /\ i = cur[s] => got[s][k] < Position(s)
    BY <2>1 DEF StreamInv, SentBehind
  <2>3. got[s][k] \in Int
    <3>1. got[s][k] \in Offset
      BY <1>1, <2>1, ElementOfSeq
    <3>2. QED BY <3>1, BufferAssumption DEF Offset
  <2>4. i = cur[s] => got[s][k] < Position(s) + n
    BY <1>1, <1>2, <2>2, <2>3
  <2>5. QED BY <1>4, <1>5, <1>6, <1>8, <2>2, <2>4
<1>9. CASE ~(k <= Len(got[s]))
  <2>1. k - Len(got[s]) \in 1 .. n
    BY <1>2, <1>3, <1>9
  <2>2. got'[s][k] = piece[k - Len(got[s])]
    BY <1>4, <1>9
  <2>3. got'[s][k] \in SegUnits(cur[s])
    BY <1>1, <2>1, <2>2
  <2>4. got'[s][k] < Position(s) + n
    BY <1>1, <1>2, <2>1, <2>2
  <2>5. cur[s] \in ReadyIds' /\ SegUnits(cur[s])' = SegUnits(cur[s]) /\ cur'[s] = cur[s]
    <3>1. segments' = segments /\ cur' = cur
      BY <1>5 DEF SendData, vars
    <3>2. QED BY <1>1, <3>1 DEF ReadyIds, Ids, SegUnits, Units
  <2>6. cur[s] <= cur'[s]
    BY <1>7, <2>5
  <2>7. got'[s][k] < Position(s)'
    BY <1>6, <2>4
  <2>8. QED BY <2>3, <2>5, <2>6, <2>7
<1>10. QED BY <1>8, <1>9

(* What is sent next was not sent before: it lies at the stream's position *)
(* or after it, or in another segment than what was.                       *)
LEMMA PieceIsNew ==
  ASSUME StreamInv, NEW s \in Streams, NEW n \in 1 .. TotalSize, SendData(s, n),
         NEW j \in 1 .. Len(got'[s]), NEW k \in 1 .. Len(got'[s]), j < k
  PROVE  got'[s][j] # got'[s][k]
<1> DEFINE piece == [i \in 1 .. n |-> Position(s) + i - 1]
<1>1. /\ cur[s] \in ReadyIds
      /\ Position(s) \in Nat
      /\ piece \in Seq(Offset) /\ Len(piece) = n
      /\ got[s] \in Seq(Offset)
      /\ got'[s] = got[s] \o piece
      /\ \A i \in 1 .. n : piece[i] \in SegUnits(cur[s])
  BY PieceOfSegment
<1>2. n \in Nat /\ Len(got[s]) \in Nat
  BY <1>1, BufferAssumption, LenProperties
<1>3. j \in 1 .. Len(got[s]) + n /\ k \in 1 .. Len(got[s]) + n
  BY <1>1, ConcatProperties
<1>4. /\ got'[s][j] = IF j <= Len(got[s]) THEN got[s][j] ELSE piece[j - Len(got[s])]
      /\ got'[s][k] = IF k <= Len(got[s]) THEN got[s][k] ELSE piece[k - Len(got[s])]
  BY <1>1, <1>3, ConcatProperties
<1>5. CASE k <= Len(got[s])
  <2>1. j \in 1 .. Len(got[s]) /\ k \in 1 .. Len(got[s]) /\ j # k /\ j <= Len(got[s])
    BY <1>2, <1>3, <1>5
  <2>2. QED BY <1>4, <1>5, <2>1 DEF StreamInv, NoRepeats
<1>6. CASE ~(k <= Len(got[s])) /\ ~(j <= Len(got[s]))
  <2>1. k - Len(got[s]) \in 1 .. n /\ j - Len(got[s]) \in 1 .. n
    BY <1>2, <1>3, <1>6
  <2>2. /\ got'[s][k] = Position(s) + (k - Len(got[s])) - 1
        /\ got'[s][j] = Position(s) + (j - Len(got[s])) - 1
    BY <1>4, <1>6, <2>1
  <2>3. Position(s) + (k - Len(got[s])) - 1 # Position(s) + (j - Len(got[s])) - 1
    BY <1>1, <1>2, <2>1
  <2>4. QED BY <2>2, <2>3
<1>7. CASE ~(k <= Len(got[s])) /\ j <= Len(got[s])
  <2>1. j \in 1 .. Len(got[s]) /\ k - Len(got[s]) \in 1 .. n
    BY <1>2, <1>3, <1>7
  <2>2. got'[s][j] = got[s][j] /\ got'[s][k] = Position(s) + (k - Len(got[s])) - 1
    BY <1>4, <1>7, <2>1
  <2>3. got'[s][k] \in SegUnits(cur[s]) /\ got'[s][k] >= Position(s)
    <3>1. got'[s][k] = piece[k - Len(got[s])]
      BY <1>4, <1>7
    <3>2. got'[s][k] \in SegUnits(cur[s])
      BY <1>1, <2>1, <3>1
    <3>3. Position(s) + (k - Len(got[s])) - 1 >= Position(s)
      BY <1>1, <1>2, <2>1
    <3>4. QED BY <2>2, <3>2, <3>3
  <2>4. PICK i \in ReadyIds : /\ i <= cur[s]
                              /\ got[s][j] \in SegUnits(i)
                              /\ i = cur[s] => got[s][j] < Position(s)
    BY <2>1 DEF StreamInv, SentBehind
  <2>5. CASE i = cur[s]
    <3>1. got[s][j] \in Int
      <4>1. got[s][j] \in Offset
        BY <1>1, <2>1, ElementOfSeq
      <4>2. QED BY <4>1, BufferAssumption DEF Offset
    <3>2. got[s][j] < Position(s)
      BY <2>4, <2>5
    <3>3. Position(s) + (k - Len(got[s])) - 1 >= Position(s)
      BY <1>1, <1>2, <2>1
    <3>4. Position(s) + (k - Len(got[s])) - 1 \in Int
      BY <1>1, <1>2, <2>1
    <3>5. Position(s) \in Int
      BY <1>1
    <3>6. got[s][j] # Position(s) + (k - Len(got[s])) - 1
      BY <3>1, <3>2, <3>3, <3>4, <3>5
    <3>7. QED BY <2>2, <3>6
  <2>6. CASE i # cur[s]
    <3>1. SegUnits(i) \cap SegUnits(cur[s]) = {}
      BY <1>1, <2>6 DEF StreamInv, IInv, Shape, ClaimsPartition, ReadyIds
    <3>2. QED BY <2>2, <2>3, <2>4, <3>1
  <2>7. QED BY <2>5, <2>6
<1>8. QED BY <1>5, <1>6, <1>7

-----------------------------------------------------------------------------
(* A step of the buffer moves no stream. *)
LEMMA BufferStep ==
  ASSUME StreamInv, IInv', [Next]_vars, UNCHANGED streamVars
  PROVE  StreamInv'
<1>1. StreamTypeOK'
  BY DEF StreamInv, StreamTypeOK, streamVars, IInv, Shape
<1>2. SentBehind'
  <2> SUFFICES ASSUME NEW s \in Streams, NEW k \in 1 .. Len(got'[s])
               PROVE  \E i \in ReadyIds' :
                        /\ i <= cur'[s]
                        /\ got'[s][k] \in SegUnits(i)'
                        /\ i = cur'[s] => got'[s][k] < Position(s)'
    BY DEF SentBehind
  <2>1. got'[s] = got[s] /\ cur'[s] = cur[s] /\ off'[s] = off[s]
    BY DEF streamVars
  <2>2. QED BY <2>1, BehindWhileResting
<1>3. NoRepeats'
  BY DEF StreamInv, NoRepeats, streamVars
<1>4. QED BY <1>1, <1>2, <1>3 DEF StreamInv

(* The step of one stream leaves the buffer and the other streams as they are. *)
LEMMA StreamMoves ==
  ASSUME StreamInv, IInv', NEW s \in Streams, StreamStep(s)
  PROVE  StreamInv'
<1>1. UNCHANGED vars /\ [Next]_vars
  BY DEF StreamStep, SendError, Poll, Conclude, SegmentEnd, SendData, SkipSegment, NextSegment
<1>2. StreamTypeOK'
  BY StreamTypes DEF IInv, Shape
<1>3. \A t \in Streams \ {s} : got'[t] = got[t] /\ cur'[t] = cur[t] /\ off'[t] = off[t]
  BY DEF StreamStep, SendError, Poll, Conclude, SegmentEnd, SendData, SkipSegment, NextSegment,
         StreamInv, StreamTypeOK
<1>4. \/ got'[s] = got[s] /\ cur'[s] = cur[s] /\ off'[s] = off[s]
      \/ got'[s] = got[s] /\ cur'[s] = cur[s] + 1
      \/ \E n \in 1 .. TotalSize : SendData(s, n)
  BY DEF StreamStep, SendError, Poll, Conclude, SegmentEnd, SkipSegment, NextSegment,
         StreamInv, StreamTypeOK
<1>5. SentBehind'
  <2> SUFFICES ASSUME NEW t \in Streams, NEW k \in 1 .. Len(got'[t])
               PROVE  \E i \in ReadyIds' :
                        /\ i <= cur'[t]
                        /\ got'[t][k] \in SegUnits(i)'
                        /\ i = cur'[t] => got'[t][k] < Position(t)'
    BY DEF SentBehind
  <2>1. CASE t # s
    BY <1>1, <1>3, <2>1, BehindWhileResting
  <2>2. CASE t = s
    BY <1>1, <1>4, <2>2, BehindWhileResting, BehindAfterSegment, BehindAfterPiece
  <2>3. QED BY <2>1, <2>2
<1>6. NoRepeats'
  <2> SUFFICES ASSUME NEW t \in Streams, NEW j \in 1 .. Len(got'[t]), NEW k \in 1 .. Len(got'[t]),
                      j # k
               PROVE  got'[t][j] # got'[t][k]
    BY DEF NoRepeats
  <2>1. CASE got'[t] = got[t]
    BY <2>1 DEF StreamInv, NoRepeats
  <2>2. ASSUME t = s, NEW n \in 1 .. TotalSize, SendData(s, n)
        PROVE  got'[t][j] # got'[t][k]
    <3>1. Len(got'[t]) \in Nat
      BY <1>2, LenProperties DEF StreamTypeOK
    <3>2. j < k \/ k < j
      BY <3>1
    <3>3. QED BY <2>2, <3>2, PieceIsNew
  <2>3. QED BY <1>3, <1>4, <2>1, <2>2
<1>7. QED BY <1>2, <1>5, <1>6 DEF StreamInv

LEMMA StreamInitInv == StreamInit => StreamInv
<1> SUFFICES ASSUME StreamInit PROVE StreamInv
  OBVIOUS
<1>1. IInv
  BY InitIInv DEF StreamInit
<1>2. StreamTypeOK
  <2>1. <<>> \in Seq(Offset)
    BY EmptySeq
  <2>2. QED BY <1>1, <2>1 DEF StreamInit, StreamTypeOK, StreamState, IInv, Shape
<1>3. \A s \in Streams : Len(got[s]) = 0
  BY EmptySeq DEF StreamInit
<1>4. SentBehind /\ NoRepeats
  BY <1>3 DEF SentBehind, NoRepeats
<1>5. QED BY <1>1, <1>2, <1>4 DEF StreamInv

LEMMA StreamNextInv == StreamInv /\ [StreamNext]_allVars => StreamInv'
<1> SUFFICES ASSUME StreamInv, [StreamNext]_allVars PROVE StreamInv'
  OBVIOUS
<1>1. [Next]_vars
  BY StreamStepsRefine
<1>2. IInv'
  BY <1>1, NextIInv DEF StreamInv
<1>3. CASE UNCHANGED streamVars
  BY <1>1, <1>2, <1>3, BufferStep
<1>4. ASSUME NEW s \in Streams, StreamStep(s) PROVE StreamInv'
  BY <1>2, <1>4, StreamMoves
<1>5. QED BY <1>3, <1>4 DEF StreamNext, allVars

-----------------------------------------------------------------------------
(* Every body stays behind its position, in Ready segments, whatever the    *)
(* workers do meanwhile (make_buffer_stream).                               *)
THEOREM StreamInvariant == StreamSpec => []StreamInv
<1>1. StreamInit => StreamInv
  BY StreamInitInv
<1>2. StreamInv /\ [StreamNext]_allVars => StreamInv'
  BY StreamNextInv
<1>3. QED BY <1>1, <1>2, PTL DEF StreamSpec

(* Every variable of the buffer, its workers and its bodies keeps its type: *)
(* in particular only units of the file are sent (make_buffer_stream).      *)
THEOREM StreamTypeCorrect == StreamSpec => []StreamTypeOK
<1>1. StreamInv => StreamTypeOK
  BY DEF StreamInv
<1>2. QED BY <1>1, StreamInvariant, PTL

(* No client is sent a part of the file twice (make_buffer_stream). *)
THEOREM NeverSentTwice == StreamSpec => []NothingSentTwice
<1>1. StreamInv => NothingSentTwice
  <2> SUFFICES ASSUME StreamInv, NEW s \in Streams
               PROVE  Cardinality(Sent(s)) = Len(got[s])
    BY DEF NothingSentTwice
  <2>1. got[s] \in Seq(Offset) /\ Len(got[s]) \in Nat
    BY LenProperties DEF StreamInv, StreamTypeOK
  <2>2. got[s] \in [1 .. Len(got[s]) -> Offset]
    BY <2>1, LenProperties
  <2>3. got[s] \in [1 .. Len(got[s]) -> Sent(s)]
    BY <2>2 DEF Sent
  <2>4. \A j, k \in 1 .. Len(got[s]) : got[s][j] = got[s][k] => j = k
    BY DEF StreamInv, NoRepeats
  <2>5. \A o \in Sent(s) : \E k \in 1 .. Len(got[s]) : got[s][k] = o
    BY DEF Sent
  <2>6. ExistsBijection(1 .. Len(got[s]), Sent(s))
    <3>1. got[s] \in Bijection(1 .. Len(got[s]), Sent(s))
      BY <2>3, <2>4, <2>5, Fun_IsBij
    <3>2. QED BY <3>1, Fun_ExistsBij
  <2>7. QED BY <2>1, <2>6, FS_CountingElements
<1>2. QED BY <1>1, StreamInvariant, PTL

(* Nothing is sent that was not downloaded (make_buffer_stream). *)
THEOREM NeverAHole == StreamSpec => []NoHoleSent
<1>1. StreamInv => NoHoleSent
  BY DEF StreamInv, SentBehind, IInv, Shape, ReadyIsFilled, Filled, NoHoleSent, Sent
<1>2. QED BY <1>1, StreamInvariant, PTL

(* What a client was sent is what the file has there for ever, and so what *)
(* the cache keeps if it keeps the file.                                   *)
SentIsFinal ==
  [][\A s \in Streams : \A o \in Sent(s) : file'[o] = file[o]]_allVars

(* The bytes of a body are final (make_buffer_stream, mark_ready). *)
THEOREM SentNeverChanges == StreamSpec => SentIsFinal
<1>1. StreamInv /\ [StreamNext]_allVars
        => [\A s \in Streams : \A o \in Sent(s) : file'[o] = file[o]]_allVars
  <2> SUFFICES ASSUME StreamInv, [StreamNext]_allVars, NEW s \in Streams, NEW o \in Sent(s)
               PROVE  file'[o] = file[o]
    OBVIOUS
  <2>1. PICK i \in ReadyIds : o \in SegUnits(i)
    BY DEF StreamInv, SentBehind, Sent
  <2>2. [\A r \in ReadyIds : \A u \in SegUnits(r) : file'[u] = file[u]]_vars
    BY StreamStepsRefine, StepKeepsReady DEF StreamInv
  <2>3. QED BY <2>1, <2>2 DEF vars
<1>2. QED BY <1>1, StreamInvariant, PTL DEF StreamSpec, SentIsFinal

-----------------------------------------------------------------------------
(* The downloader refines the buffer: what its own bookkeeping makes of    *)
(* ranges, counts and messages are steps that the buffer allows.           *)

(* A chunk is written by a worker that reads a body: from where it was to a *)
(* later place of its range.                                                *)
LEMMA ChunkInRange ==
  ASSUME DownloaderTypeOK, RangesHeld, BodiesKnown, Written, NEW w \in Workers, ReceiveChunk(w)
  PROVE  \E upto \in 0 .. TotalSize :
           /\ WriteData(w, pos[w], upto, body[w])
           /\ pos' = [pos EXCEPT ![w] = upto]
           /\ lo[w] <= pos[w] /\ pos[w] < upto /\ upto <= hi[w]
           /\ pos[w] \in 0 .. TotalSize /\ body[w] \in Data
<1>1. /\ pc[w] = "filling" /\ io[w] = "reading" /\ pos[w] < hi[w]
  BY DEF ReceiveChunk, Reading
<1>2. PICK n \in 1 .. TotalSize :
        /\ Write(w, pos[w], WrittenUpTo(w, n), body[w])
        /\ pos' = [pos EXCEPT ![w] = WrittenUpTo(w, n)]
  BY DEF ReceiveChunk, Set
<1>3. /\ lo[w] \in Nat /\ hi[w] \in Nat /\ TotalSize \in Nat /\ hi[w] <= TotalSize
      /\ pos[w] \in Nat /\ n \in Nat /\ n > 0
  BY <1>1, BufferAssumption DEF RangesHeld, DownloaderTypeOK, TypeOK
<1>4. lo[w] <= pos[w] /\ body[w] \in Data
  BY <1>1 DEF Written, BodiesKnown
<1>5. /\ pos[w] < WrittenUpTo(w, n) /\ WrittenUpTo(w, n) <= hi[w]
      /\ WrittenUpTo(w, n) \in 0 .. TotalSize /\ pos[w] \in 0 .. TotalSize
  BY <1>1, <1>3 DEF WrittenUpTo
<1>6. WriteData(w, pos[w], WrittenUpTo(w, n), body[w])
  BY <1>2, <1>4, <1>5 DEF WriteData, Chunk
<1>7. QED BY <1>2, <1>4, <1>5, <1>6

(* The count of the bytes of one attempt says that the range is in the file. *)
LEMMA CountedIsReceived ==
  ASSUME DownloaderTypeOK, Written, NEW w \in Workers, Complete(w)
  PROVE  MarkReady(w)
<1>1. pc[w] = "filling" /\ io[w] = "reading" /\ Mark(w)
  BY DEF Complete, Reading
<1>2. lo[w] \in Nat /\ hi[w] \in Nat /\ pos[w] \in Nat
  BY DEF DownloaderTypeOK, TypeOK
<1>3. pos[w] = hi[w]
  BY <1>2 DEF Complete
<1>4. Received(w)
  BY <1>1, <1>3 DEF Written, Received
<1>5. QED BY <1>1, <1>4 DEF MarkReady

LEMMA TaskStepRefines ==
  ASSUME DownloaderTypeOK, RangesHeld, BodiesKnown, Written, NEW w \in Workers, TaskStep(w)
  PROVE  [Next]_vars
<1>1. CASE Acquire(w) BY <1>1 DEF Acquire, vars
<1>2. CASE ClaimNext(w) BY <1>2 DEF ClaimNext, Next, WorkerStep
<1>3. CASE Begin(w) BY <1>3 DEF Begin, Next, WorkerStep
<1>4. CASE Finish(w) BY <1>4 DEF Finish, Next, WorkerStep
<1>5. CASE Precondition(w) BY <1>5 DEF Precondition, Next, WorkerStep
<1>6. CASE RangeIgnored(w) BY <1>6 DEF RangeIgnored, Next, WorkerStep
<1>7. CASE Answers(w) BY <1>7 DEF Answers, vars
<1>8. CASE ReceiveChunk(w) BY <1>8, ChunkInRange DEF Next, WorkerStep
<1>9. CASE Retry(w) BY <1>9 DEF Retry, vars
<1>10. CASE Fail(w) BY <1>10 DEF Fail, Next, WorkerStep
<1>11. CASE Complete(w) BY <1>11, CountedIsReceived DEF Next, WorkerStep
<1>12. CASE Tell(w) BY <1>12 DEF Tell, Next, WorkerStep
<1>13. CASE EndTask(w) BY <1>13 DEF EndTask, vars
<1>14. CASE Abort(w) BY <1>14 DEF Abort, Next, WorkerStep, vars
<1>15. QED
  BY <1>1, <1>2, <1>3, <1>4, <1>5, <1>6, <1>7, <1>8, <1>9, <1>10, <1>11, <1>12,
     <1>13, <1>14 DEF TaskStep

(* The first worker, and one for each message, are no more than the buffer *)
(* allows: one, and one for each segment counted as ready.                 *)
LEMMA SpawnAllowed ==
  ASSUME DownloaderTypeOK, SpawnsTold, NEW w \in Workers, SpawnFirst(w) \/ SpawnMore(w)
  PROVE  Spawn(w)
<1>1. Enlist(w)
  BY DEF SpawnFirst, SpawnMore, SpawnTask
<1>2. Cardinality(Spawned) \in Nat /\ readyTold \in Nat /\ readyCount \in Nat
  BY BufferAssumption, FS_Subset, FS_CardinalityType
     DEF Spawned, DownloaderTypeOK, TypeOK
<1>3. InitialWorkers = 1
  BY DownloaderAssumption
<1>4. Cardinality(Spawned) < InitialWorkers + readyCount
  <2>1. CASE Spawned = {}
    BY <1>2, <1>3, <2>1, FS_EmptySet
  <2>2. CASE Spawned # {}
    <3>1. readyTold > 0
      BY <2>2 DEF SpawnFirst, SpawnMore
    <3>2. QED BY <1>2, <1>3, <2>2, <3>1 DEF SpawnsTold
  <2>3. QED BY <2>1, <2>2
<1>5. QED BY <1>1, <1>4 DEF Spawn

LEMMA DriverStepRefines ==
  ASSUME DownloaderTypeOK, SpawnsTold, DriverStep
  PROVE  [Next]_vars
<1>1. ASSUME NEW w \in Workers, SpawnFirst(w) \/ SpawnMore(w)
      PROVE  [Next]_vars
  BY <1>1, SpawnAllowed DEF Next, WorkerStep
<1>2. ASSUME NEW w \in Workers, JoinFatal(w) \/ JoinPlain(w) \/ Drain(w)
      PROVE  [Next]_vars
  BY <1>2 DEF JoinFatal, JoinPlain, Drain, JoinTask, vars
<1>3. ASSUME SpawnedAll \/ JoinNothing \/ ConcludeDownload
      PROVE  [Next]_vars
  BY <1>3 DEF SpawnedAll, JoinNothing, ConcludeDownload, vars
<1>4. ASSUME FailBuffer PROVE [Next]_vars
  BY <1>4 DEF FailBuffer, Next
<1>5. QED BY <1>1, <1>2, <1>3, <1>4 DEF DriverStep

LEMMA StepRefines ==
  DownloaderTypeOK /\ RangesHeld /\ BodiesKnown /\ Written /\ SpawnsTold
    /\ [DownloaderNext]_downloadVars => [Next]_vars
<1>1. ASSUME Outside PROVE [Next]_vars
  BY <1>1 DEF Outside, Publish, LendPermit, TakeBack, vars
<1>2. ASSUME UNCHANGED downloadVars PROVE [Next]_vars
  BY <1>2 DEF downloadVars, vars
<1>3. QED BY <1>1, <1>2, TaskStepRefines, DriverStepRefines DEF DownloaderNext
-----------------------------------------------------------------------------
(* Types.                                                                  *)

(* What a return of download_worker changes is of its type. *)
LEMMA ReturnTypes ==
  ASSUME DownloaderTypeOK, NEW w \in Workers, NEW value \in Result, Return(w, value)
  PROVE  /\ task' \in [Workers -> Task]
         /\ result' \in [Workers -> Result]
         /\ active' \in Int
         /\ io' \in [Workers -> {"none", "asking", "reading"}]
         /\ UNCHANGED <<readyTold, attempt, pos, body>>
BY DEF DownloaderTypeOK, Return, Set, Task

LEMMA TaskTypes ==
  ASSUME DownloaderTypeOK, TypeOK', NEW w \in Workers, TaskStep(w)
  PROVE  DownloaderTypeOK'
<1> USE DEF DownloaderTypeOK
<1>1. CASE Acquire(w)
  BY <1>1 DEF Acquire, driverVars, exchangeVars, outsideVars, Set, Task
<1>2. CASE ClaimNext(w)
  BY <1>2 DEF ClaimNext, WorkerRuns, exchangeVars, outsideVars
<1>3. CASE Begin(w)
  BY <1>3, DownloaderAssumption DEF Begin, WorkerRuns, outsideVars, Set
<1>4. ASSUME NEW value \in Result, WorkerRuns(w), Return(w, value)
      PROVE  DownloaderTypeOK'
  BY <1>4, ReturnTypes DEF WorkerRuns, outsideVars
<1>5. CASE Finish(w) \/ Precondition(w) \/ RangeIgnored(w) \/ Fail(w)
  <2>1. WorkerRuns(w)
    BY <1>5 DEF Finish, Precondition, RangeIgnored, Fail, InExchange, Asking, Reading
  <2>2. \E value \in Result : Return(w, value)
    BY <1>5 DEF Finish, Precondition, RangeIgnored, Fail, Result
  <2>3. QED BY <1>4, <2>1, <2>2
<1>6. CASE Answers(w)
  <2>1. lo[w] \in Nat
    BY DEF TypeOK
  <2>2. QED
    BY <1>6, <2>1 DEF Answers, Asking, WorkerRuns, outsideVars, Set
<1>7. CASE ReceiveChunk(w)
  <2>1. PICK n \in 1 .. TotalSize : pos' = Set(pos, w, WrittenUpTo(w, n))
    BY <1>7 DEF ReceiveChunk
  <2>2. WrittenUpTo(w, n) \in Nat
    <3>1. pos[w] \in Nat /\ hi[w] \in Nat /\ n \in Nat
      BY BufferAssumption DEF TypeOK
    <3>2. QED BY <3>1 DEF WrittenUpTo
  <2>3. pos' \in [Workers -> Nat]
    BY <2>1, <2>2 DEF Set
  <2>4. QED
    BY <1>7, <2>3 DEF ReceiveChunk, Reading, WorkerRuns, outsideVars
<1>8. CASE Retry(w)
  <2>1. attempt[w] + 1 \in 0 .. MaxSegmentRetries
    BY <1>8, DownloaderAssumption DEF Retry
  <2>2. attempt' \in [Workers -> 0 .. MaxSegmentRetries]
    BY <1>8, <2>1 DEF Retry, Set
  <2>3. WorkerRuns(w)
    BY <1>8 DEF Retry, InExchange, Asking, Reading
  <2>4. QED
    BY <1>8, <2>2, <2>3 DEF Retry, WorkerRuns, outsideVars, Set
<1>9. CASE Complete(w)
  BY <1>9 DEF Complete, Reading, WorkerRuns, exchangeVars, outsideVars
<1>10. CASE Tell(w)
  BY <1>10 DEF Tell, WorkerRuns, outsideVars, Set
<1>11. CASE EndTask(w)
  <2>1. finished' \in Seq(Workers)
    BY <1>11 DEF EndTask
  <2>2. QED
    BY <1>11, <2>1 DEF EndTask, driverVars, exchangeVars, outsideVars, Set, Task
<1>12. CASE Abort(w)
  BY <1>12 DEF Abort, driverVars, outsideVars, Set, Task, Result
<1>13. QED
  BY <1>1, <1>2, <1>3, <1>5, <1>6, <1>7, <1>8, <1>9, <1>10, <1>11, <1>12 DEF TaskStep

(* A join takes the first finished task. *)
LEMMA JoinTypes ==
  ASSUME DownloaderTypeOK, NEW w \in Workers, JoinTask(w)
  PROVE  /\ finished' \in Seq(Workers)
         /\ task' \in [Workers -> Task]
         /\ UNCHANGED <<vars, connections, active, readyTold, result, exchangeVars,
                        outsideVars>>
<1>1. finished' \in Seq(Workers)
  BY DEF JoinTask, DownloaderTypeOK
<1>2. QED
  BY <1>1 DEF JoinTask, DownloaderTypeOK, Set, Task

LEMMA DriverTypes ==
  ASSUME DownloaderTypeOK, TypeOK', DriverStep
  PROVE  DownloaderTypeOK'
<1> USE DEF DownloaderTypeOK
<1>1. ASSUME NEW w \in Workers, SpawnFirst(w) \/ SpawnMore(w)
      PROVE  DownloaderTypeOK'
  <2>1. SpawnTask(w) /\ readyTold' \in Nat
    BY <1>1 DEF SpawnFirst, SpawnMore
  <2>2. QED
    BY <2>1 DEF SpawnTask, exchangeVars, outsideVars, Set, Task
<1>2. ASSUME NEW w \in Workers, JoinFatal(w) \/ JoinPlain(w) \/ Drain(w)
      PROVE  DownloaderTypeOK'
  <2>1. JoinTask(w)
    BY <1>2 DEF JoinFatal, JoinPlain, Drain
  <2>2. /\ driver' \in {"running", "draining", "returned"}
        /\ outcome' \in {"none", "ok", "incomplete"} \cup Fatal
        /\ cancelled' \in BOOLEAN
    BY <1>2 DEF JoinFatal, JoinPlain, Drain
  <2>3. QED
    BY <2>1, <2>2, JoinTypes DEF exchangeVars, outsideVars
<1>3. ASSUME SpawnedAll \/ JoinNothing \/ ConcludeDownload
      PROVE  DownloaderTypeOK'
  <2>1. /\ driver' \in {"running", "draining", "returned"}
        /\ outcome' \in {"none", "ok", "incomplete"} \cup Fatal
        /\ readyTold' \in Nat
    BY <1>3 DEF SpawnedAll, JoinNothing, ConcludeDownload
  <2>2. cancelled' \in BOOLEAN
    <3>1. AllCompleted \in BOOLEAN
      BY DEF AllCompleted
    <3>2. QED
      BY <1>3, <3>1 DEF SpawnedAll, JoinNothing, ConcludeDownload
  <2>3. QED
    BY <1>3, <2>1, <2>2
       DEF SpawnedAll, JoinNothing, ConcludeDownload, exchangeVars, outsideVars
<1>4. ASSUME FailBuffer PROVE DownloaderTypeOK'
  BY <1>4 DEF FailBuffer, driverVars, exchangeVars, outsideVars
<1>5. QED BY <1>1, <1>2, <1>3, <1>4 DEF DriverStep

LEMMA StepTypes ==
  DownloaderTypeOK /\ TypeOK' /\ [DownloaderNext]_downloadVars => DownloaderTypeOK'
<1>1. ASSUME DownloaderTypeOK, TypeOK', Outside PROVE DownloaderTypeOK'
  BY <1>1 DEF DownloaderTypeOK, Outside, Publish, LendPermit, TakeBack, driverVars, exchangeVars
<1>2. ASSUME DownloaderTypeOK, TypeOK', UNCHANGED downloadVars PROVE DownloaderTypeOK'
  BY <1>2 DEF DownloaderTypeOK, downloadVars, driverVars, exchangeVars, outsideVars
<1>3. QED BY <1>1, <1>2, TaskTypes, DriverTypes DEF DownloaderNext
-----------------------------------------------------------------------------
(* Generations.                                                            *)

(* Only Answers starts a body; the pinned generation never changes. *)
LEMMA BodiesStep ==
  ASSUME DownloaderTypeOK, BodiesKnown, [DownloaderNext]_downloadVars
  PROVE  BodiesKnown' /\ pinned' = pinned
<1> USE DEF DownloaderTypeOK, Set
<1>1. ASSUME NEW w \in Workers, TaskStep(w)
      PROVE  BodiesKnown' /\ pinned' = pinned
  <2>1. CASE Answers(w)
    <3>1. io' = Set(io, w, "reading") /\ body' = Set(body, w, upstream)
          /\ pinned' = pinned /\ (StrongEtag => upstream = pinned)
      BY <2>1 DEF Answers, Asking, WorkerRuns, Current, outsideVars
    <3>2. QED BY <3>1 DEF BodiesKnown
  <2>2. ASSUME ~Answers(w)
        PROVE  /\ pinned' = pinned /\ body' = body
               /\ \A v \in Workers : io'[v] = "reading" => io[v] = "reading"
    <3>1. CASE Acquire(w) \/ ClaimNext(w) \/ Complete(w) \/ EndTask(w)
      BY <3>1 DEF Acquire, ClaimNext, Complete, EndTask, Reading, WorkerRuns,
                  exchangeVars, outsideVars
    <3>2. CASE Begin(w) \/ Tell(w)
      BY <3>2 DEF Begin, Tell, WorkerRuns, outsideVars
    <3>3. CASE Finish(w) \/ Precondition(w) \/ RangeIgnored(w) \/ Fail(w)
      BY <3>3 DEF Finish, Precondition, RangeIgnored, Fail, Return, InExchange,
                  Asking, Reading, WorkerRuns, outsideVars
    <3>4. CASE ReceiveChunk(w)
      BY <3>4 DEF ReceiveChunk, Reading, WorkerRuns, outsideVars
    <3>5. CASE Retry(w)
      BY <3>5 DEF Retry, InExchange, Asking, Reading, WorkerRuns, outsideVars
    <3>6. CASE Abort(w)
      BY <3>6 DEF Abort, outsideVars
    <3>7. QED
      BY <1>1, <2>2, <3>1, <3>2, <3>3, <3>4, <3>5, <3>6 DEF TaskStep
  <2>3. QED BY <2>1, <2>2 DEF BodiesKnown
<1>2. ASSUME DriverStep \/ UNCHANGED downloadVars
      PROVE  UNCHANGED <<io, body, pinned>>
  BY <1>2 DEF DriverStep, SpawnFirst, SpawnMore, SpawnTask, JoinFatal, JoinPlain,
     Drain, JoinTask, SpawnedAll, JoinNothing, ConcludeDownload, FailBuffer,
     exchangeVars, outsideVars, downloadVars
<1>3. ASSUME Outside PROVE UNCHANGED <<io, body, pinned>>
  BY <1>3 DEF Outside, Publish, LendPermit, TakeBack, exchangeVars
<1>4. QED BY <1>1, <1>2, <1>3 DEF DownloaderNext, BodiesKnown

(* The file changes by chunks of known bodies only. *)
LEMMA FileStep ==
  ASSUME DownloaderTypeOK, RangesHeld, BodiesKnown, Written, [DownloaderNext]_downloadVars
  PROVE  \/ file' = file
         \/ \E d \in Data, U \in SUBSET Offset :
              /\ StrongEtag => d = pinned
              /\ file' = [o \in Offset |-> IF o \in U THEN d ELSE file[o]]
<1>1. ASSUME NEW w \in Workers, ReceiveChunk(w)
      PROVE  \E d \in Data, U \in SUBSET Offset :
              /\ StrongEtag => d = pinned
              /\ file' = [o \in Offset |-> IF o \in U THEN d ELSE file[o]]
  <2>1. PICK upto \in 0 .. TotalSize : WriteData(w, pos[w], upto, body[w])
    BY <1>1, ChunkInRange
  <2>2. body[w] \in Data /\ (StrongEtag => body[w] = pinned)
    BY <1>1 DEF ReceiveChunk, Reading, BodiesKnown
  <2> DEFINE U == Units(pos[w], upto) \cap Offset
  <2>3. file' = [o \in Offset |-> IF o \in U THEN body[w] ELSE file[o]]
    BY <2>1 DEF WriteData, Write
  <2>4. U \in SUBSET Offset
    OBVIOUS
  <2>5. QED BY <2>2, <2>3, <2>4
<1>2. ASSUME NEW w \in Workers, TaskStep(w), ~ReceiveChunk(w)
      PROVE  file' = file
  <2>1. CASE Acquire(w) \/ Answers(w) \/ Retry(w) \/ EndTask(w)
    BY <2>1 DEF Acquire, Answers, Retry, EndTask, vars
  <2>2. CASE ClaimNext(w) \/ Begin(w) \/ Finish(w) \/ Complete(w) \/ Tell(w)
    BY <2>2 DEF ClaimNext, Begin, Finish, Complete, Tell, Claim, Push, Exhausted,
                Mark, CountReady
  <2>3. CASE Precondition(w) \/ RangeIgnored(w) \/ Fail(w) \/ Abort(w)
    BY <2>3 DEF Precondition, RangeIgnored, Fail, Abort, Die, bufferVars, vars
  <2>4. QED BY <1>2, <2>1, <2>2, <2>3 DEF TaskStep
<1>3. ASSUME DriverStep \/ UNCHANGED downloadVars \/ Outside
      PROVE  file' = file
  BY <1>3 DEF DriverStep, SpawnFirst, SpawnMore, SpawnTask, Enlist, bufferVars,
     JoinFatal, JoinPlain, Drain, JoinTask, SpawnedAll, JoinNothing,
     ConcludeDownload, FailBuffer, SetFailed, vars, downloadVars, Outside, Publish,
     LendPermit, TakeBack
<1>4. QED BY <1>1, <1>2, <1>3 DEF DownloaderNext

LEMMA GenerationStep ==
  ASSUME DownloaderTypeOK, RangesHeld, BodiesKnown, Written, OneGeneration,
         [DownloaderNext]_downloadVars
  PROVE  OneGeneration'
<1>1. pinned' = pinned
  BY BodiesStep
<1>2. QED BY <1>1, FileStep DEF OneGeneration, DownloaderTypeOK, TypeOK
-----------------------------------------------------------------------------
(* Tasks.                                                                  *)

(* How a step of a task moves it, and what it leaves alone. *)
LEMMA TaskMoves ==
  ASSUME DownloaderTypeOK, NEW w \in Workers, TaskStep(w)
  PROVE  /\ UNCHANGED <<driver, outcome>>
         /\ \/ task' = task /\ active' = active /\ task[w] = "running"
            \/ /\ task[w] = "queued" /\ task' = [task EXCEPT ![w] = "running"]
               /\ active' = active /\ pc' = pc
            \/ /\ task[w] = "running" /\ task' = [task EXCEPT ![w] = "leaving"]
               /\ active' = active - 1 /\ pc[w] \in {"claiming", "filling"}
               /\ pc'[w] \in {"done", "dead"}
            \/ /\ task[w] = "leaving" /\ task' = [task EXCEPT ![w] = "ended"]
               /\ active' = active /\ pc' = pc
            \/ /\ driver = "returned" /\ task[w] \in {"queued", "running"}
               /\ task' = [task EXCEPT ![w] = "ended"] /\ active' = active
               /\ task[w] = "running" => pc'[w] = "dead"
               /\ task[w] = "queued" => pc' = pc
         /\ \A v \in Workers : v # w => pc'[v] = pc[v]
         /\ pc' \in [Workers -> PC]
         /\ pc'[w] = "absent" => pc[w] = "absent"
<1> USE DEF DownloaderTypeOK, TypeOK, Set
<1>1. CASE Acquire(w)
  BY <1>1 DEF Acquire, vars, driverVars
<1>2. CASE ClaimNext(w) \/ Begin(w) \/ ReceiveChunk(w) \/ Complete(w) \/ Tell(w)
  BY <1>2 DEF ClaimNext, Begin, ReceiveChunk, Complete, Tell, Reading, WorkerRuns,
              Claim, Push, Write, workerVars, Mark, CountReady, PC
<1>3. CASE Answers(w) \/ Retry(w)
  BY <1>3 DEF Answers, Retry, InExchange, Asking, Reading, WorkerRuns, vars
<1>4. CASE Finish(w)
  BY <1>4 DEF Finish, WorkerRuns, Exhausted, Return, PC
<1>5. CASE Precondition(w) \/ RangeIgnored(w) \/ Fail(w)
  BY <1>5 DEF Precondition, RangeIgnored, Fail, InExchange, Asking, Reading,
              WorkerRuns, Die, Return, PC
<1>6. CASE EndTask(w)
  BY <1>6 DEF EndTask, vars, driverVars
<1>7. CASE Abort(w)
  <2>1. UNCHANGED <<driver, outcome, active>> /\ driver = "returned"
        /\ task' = [task EXCEPT ![w] = "ended"]
    BY <1>7 DEF Abort, driverVars
  <2>2. CASE task[w] = "queued" /\ UNCHANGED vars
    BY <2>1, <2>2 DEF vars
  <2>3. CASE task[w] = "running" /\ Die(w)
    BY <2>1, <2>3 DEF Die, PC
  <2>4. QED BY <1>7, <2>2, <2>3 DEF Abort
<1>8. QED
  BY <1>1, <1>2, <1>3, <1>4, <1>5, <1>6, <1>7 DEF TaskStep

(* How a step of the driver moves the tasks. *)
LEMMA DriverMoves ==
  ASSUME DownloaderTypeOK, DriverStep
  PROVE  \/ \E w \in Workers :
              /\ driver = "running" /\ UNCHANGED <<driver, outcome>>
              /\ pc[w] = "absent" /\ pc' = [pc EXCEPT ![w] = "claiming"]
              /\ task' = [task EXCEPT ![w] = "queued"] /\ active' = active + 1
         \/ \E w \in Workers :
              /\ task[w] = "ended" /\ task' = [task EXCEPT ![w] = "joined"]
              /\ UNCHANGED <<pc, active>>
              /\ outcome' = "ok" => outcome = "ok"
              /\ driver' = "draining" /\ driver # "draining" => active = 0
         \/ /\ UNCHANGED <<task, pc, active>>
            /\ outcome' = "ok" => outcome = "ok" \/ (AllJoined /\ AllCompleted)
            /\ driver' = "draining" /\ driver # "draining" => AllJoined
<1>1. ASSUME NEW w \in Workers, SpawnFirst(w) \/ SpawnMore(w)
      PROVE  /\ driver = "running" /\ UNCHANGED <<driver, outcome>>
             /\ pc[w] = "absent" /\ pc' = [pc EXCEPT ![w] = "claiming"]
             /\ task' = [task EXCEPT ![w] = "queued"] /\ active' = active + 1
  BY <1>1 DEF SpawnFirst, SpawnMore, SpawnTask, Enlist, Polls, Set
<1>2. ASSUME NEW w \in Workers, JoinFatal(w) \/ JoinPlain(w) \/ Drain(w)
      PROVE  /\ task[w] = "ended" /\ task' = [task EXCEPT ![w] = "joined"]
             /\ UNCHANGED <<pc, active>>
             /\ outcome' = "ok" => outcome = "ok"
             /\ driver' = "draining" /\ driver # "draining" => active = 0
  BY <1>2 DEF JoinFatal, JoinPlain, Drain, JoinTask, vars, Fatal, Set
<1>3. ASSUME SpawnedAll \/ JoinNothing \/ ConcludeDownload
      PROVE  /\ UNCHANGED <<task, pc, active>>
             /\ outcome' = "ok" => outcome = "ok" \/ (AllJoined /\ AllCompleted)
             /\ driver' = "draining" /\ driver # "draining" => AllJoined
  BY <1>3 DEF SpawnedAll, JoinNothing, ConcludeDownload, vars
<1>4. ASSUME FailBuffer
      PROVE  UNCHANGED <<task, pc, active, driver, outcome>>
  BY <1>4 DEF FailBuffer, SetFailed, workerVars, driverVars
<1>5. QED BY <1>1, <1>2, <1>3, <1>4 DEF DriverStep

LEMMA IdleMoves ==
  ASSUME Outside \/ UNCHANGED downloadVars
  PROVE  UNCHANGED <<task, pc, active, driver, outcome>>
BY DEF Outside, Publish, LendPermit, TakeBack, downloadVars, driverVars, vars

LEMMA ClaimersStep ==
  ASSUME DownloaderTypeOK, ClaimersRun, NotSpawned, [DownloaderNext]_downloadVars
  PROVE  ClaimersRun' /\ NotSpawned'
<1> USE DEF DownloaderTypeOK, TypeOK, ClaimersRun, NotSpawned, Pushing
<1>1. ASSUME NEW w \in Workers, TaskStep(w)
      PROVE  ClaimersRun' /\ NotSpawned'
  <2>1. \A v \in Workers : v # w => pc'[v] = pc[v]
    BY <1>1, TaskMoves
  <2>2. \A v \in Workers : v # w => task'[v] = task[v]
    <3>1. task' = task \/ \E to \in Task : task' = [task EXCEPT ![w] = to]
      BY <1>1, TaskMoves DEF Task
    <3>2. QED BY <3>1
  <2>3. pc'[w] = "pushing" => task'[w] = "running"
    BY <1>1, TaskMoves
  <2>4. pc'[w] = "absent" => task'[w] = "none"
    BY <1>1, TaskMoves
  <2>5. QED BY <2>1, <2>2, <2>3, <2>4
<1>2. CASE DriverStep
  BY <1>2, DriverMoves
<1>3. CASE Outside \/ UNCHANGED downloadVars
  BY <1>3, IdleMoves
<1>4. QED BY <1>1, <1>2, <1>3 DEF DownloaderNext

(* The counter follows the tasks at work, one by one. *)
LEMMA ActiveStep ==
  ASSUME DownloaderTypeOK, NotSpawned, ActiveCounts, [DownloaderNext]_downloadVars
  PROVE  ActiveCounts'
<1> USE DEF DownloaderTypeOK, Task
<1>1. IsFiniteSet(AtWork)
  BY BufferAssumption, FS_Subset DEF AtWork
<1>2. ASSUME driver' # "returned", AtWork' = AtWork, active' = active,
             driver # "returned"
      PROVE  ActiveCounts'
  BY <1>2 DEF ActiveCounts
<1>3. ASSUME NEW w \in Workers, TaskStep(w) PROVE ActiveCounts'
  <2>1. CASE driver = "returned"
    BY <1>3, <2>1, TaskMoves DEF ActiveCounts
  <2>2. CASE driver # "returned" /\ task[w] = "running"
              /\ task' = [task EXCEPT ![w] = "leaving"] /\ active' = active - 1
    <3>1. w \in AtWork /\ AtWork' = AtWork \ {w}
      BY <2>2 DEF AtWork
    <3>2. Cardinality(AtWork') = Cardinality(AtWork) - 1
      BY <1>1, <3>1, FS_RemoveElement
    <3>3. QED BY <2>2, <3>2 DEF ActiveCounts
  <2>3. CASE driver # "returned" /\ active' = active
              /\ \/ task' = task
                 \/ task[w] = "queued" /\ task' = [task EXCEPT ![w] = "running"]
                 \/ task[w] = "leaving" /\ task' = [task EXCEPT ![w] = "ended"]
    <3>1. AtWork' = AtWork
      BY <2>3 DEF AtWork
    <3>2. QED BY <2>3, <3>1 DEF ActiveCounts
  <2>4. QED BY <1>3, <2>1, <2>2, <2>3, TaskMoves
<1>4. ASSUME NEW w \in Workers, driver = "running", driver' = driver,
             pc[w] = "absent", task' = [task EXCEPT ![w] = "queued"],
             active' = active + 1
      PROVE  ActiveCounts'
  <2>1. w \notin AtWork /\ AtWork' = AtWork \cup {w}
    BY <1>4 DEF NotSpawned, AtWork
  <2>2. Cardinality(AtWork') = Cardinality(AtWork) + 1
    BY <1>1, <2>1, FS_AddElement
  <2>3. QED BY <1>4, <2>2 DEF ActiveCounts
<1>5. CASE DriverStep
  <2>1. ASSUME NEW w \in Workers, task[w] = "ended",
               task' = [task EXCEPT ![w] = "joined"]
        PROVE  AtWork' = AtWork
    BY <2>1 DEF AtWork
  <2>2. task' = task => AtWork' = AtWork
    BY DEF AtWork
  <2>3. driver' # "returned" => driver # "returned"
    BY <1>5 DEF DriverStep, SpawnFirst, SpawnMore, JoinFatal, JoinPlain, Drain,
                SpawnedAll, JoinNothing, ConcludeDownload, FailBuffer, Polls, driverVars
  <2>4. QED BY <1>4, <1>5, <2>1, <2>2, <2>3, DriverMoves DEF ActiveCounts
<1>6. CASE Outside \/ UNCHANGED downloadVars
  BY <1>6, IdleMoves DEF ActiveCounts, AtWork
<1>7. QED BY <1>3, <1>5, <1>6 DEF DownloaderNext
-----------------------------------------------------------------------------
(* Ranges, bytes and messages.                                             *)

(* A step of the driver or of the world moves none of it, but for the worker *)
(* it enlists.                                                               *)
LEMMA RestOfDownload ==
  ASSUME DownloaderTypeOK, DriverStep \/ Outside \/ UNCHANGED downloadVars
  PROVE  /\ UNCHANGED <<lo, hi, io, pos, nextUnassigned>>
         /\ \/ UNCHANGED <<pc, segments, readyCount>>
            \/ \E w \in Workers : Enlist(w) /\ (SpawnFirst(w) \/ SpawnMore(w))
  BY DEF DriverStep, SpawnFirst, SpawnMore, SpawnTask, Enlist, bufferVars, exchangeVars,
     JoinFatal, JoinPlain, Drain, JoinTask, SpawnedAll, JoinNothing, ConcludeDownload,
     FailBuffer, SetFailed, workerVars, vars, downloadVars, Outside, Publish, LendPermit,
     TakeBack

(* The range of a worker is set by its claim, and then stays. *)
LEMMA RangesStep ==
  ASSUME DownloaderTypeOK, RangesHeld, [DownloaderNext]_downloadVars
  PROVE  RangesHeld'
<1> USE DEF DownloaderTypeOK, TypeOK, RangesHeld
<1>1. ASSUME NEW w \in Workers, TaskStep(w) PROVE RangesHeld'
  <2>1. CASE ClaimNext(w)
    <3>1. PICK preferred \in Sizes : Claim(w, preferred)
      BY <2>1 DEF ClaimNext
    <3>2. /\ nextUnassigned \in Nat /\ TotalSize \in Nat /\ preferred \in Nat
          /\ nextUnassigned < TotalSize
      BY <3>1, BufferAssumption DEF Claim
    <3>3. nextUnassigned <= RangeEnd(preferred) /\ RangeEnd(preferred) <= TotalSize
      BY <3>2 DEF RangeEnd
    <3>4. QED BY <3>1, <3>3 DEF Claim
  <2>2. CASE Begin(w) \/ Complete(w) \/ Tell(w) \/ Finish(w)
    BY <2>2 DEF Begin, Push, Complete, Reading, Mark, Tell, CountReady, Finish, Exhausted
  <2>3. CASE Precondition(w) \/ RangeIgnored(w) \/ Fail(w) \/ (Abort(w) /\ Die(w))
    BY <2>3 DEF Precondition, RangeIgnored, Fail, Die
  <2>4. CASE Acquire(w) \/ Answers(w) \/ Retry(w) \/ EndTask(w) \/ UNCHANGED vars
    BY <2>4 DEF Acquire, Answers, Retry, EndTask, vars
  <2>5. CASE ReceiveChunk(w)
    BY <2>5 DEF ReceiveChunk, Write, workerVars
  <2>6. QED
    BY <1>1, <2>1, <2>2, <2>3, <2>4, <2>5 DEF TaskStep, Abort
<1>2. CASE DriverStep \/ Outside \/ UNCHANGED downloadVars
  BY <1>2, RestOfDownload DEF Enlist
<1>3. QED BY <1>1, <1>2 DEF DownloaderNext

(* A task moves the exchange of its own worker only. *)
LEMMA TaskMovesItsOwn ==
  ASSUME DownloaderTypeOK, NEW w \in Workers, TaskStep(w), NEW v \in Workers, v # w
  PROVE  /\ pc'[v] = pc[v] /\ lo'[v] = lo[v] /\ hi'[v] = hi[v]
         /\ io'[v] = io[v] /\ pos'[v] = pos[v]
<1> USE DEF DownloaderTypeOK, TypeOK, Set
<1>1. CASE ClaimNext(w) \/ Begin(w) \/ Complete(w) \/ Tell(w)
  BY <1>1 DEF ClaimNext, Claim, Begin, Push, Complete, Reading, Mark, Tell, CountReady,
              exchangeVars
<1>2. CASE Finish(w) \/ Precondition(w) \/ RangeIgnored(w) \/ Fail(w)
  BY <1>2 DEF Finish, Exhausted, Precondition, RangeIgnored, Fail, Die, Return
<1>3. CASE Acquire(w) \/ Answers(w) \/ Retry(w) \/ EndTask(w)
  BY <1>3 DEF Acquire, Answers, Retry, EndTask, vars, exchangeVars
<1>4. CASE ReceiveChunk(w)
  BY <1>4 DEF ReceiveChunk, Write, workerVars
<1>5. CASE Abort(w)
  BY <1>5 DEF Abort, Die, vars
<1>6. QED
  BY <1>1, <1>2, <1>3, <1>4, <1>5 DEF TaskStep

(* What an attempt wrote stays written: no step makes a hole again. *)
LEMMA NoNewHole ==
  ASSUME DownloaderTypeOK, RangesHeld, BodiesKnown, Written, [DownloaderNext]_downloadVars
  PROVE  \A o \in Offset : file[o] # Hole => file'[o] # Hole
BY FileStep, BufferAssumption DEF DownloaderTypeOK, TypeOK

(* A body that is not read on keeps what it wrote. *)
LEMMA WrittenWhileResting ==
  ASSUME DownloaderTypeOK, RangesHeld, BodiesKnown, Written, [DownloaderNext]_downloadVars,
         NEW v \in Workers, io[v] = "reading", pc'[v] \in {"filling", "counting"},
         lo'[v] = lo[v], hi'[v] = hi[v], pos'[v] = pos[v]
  PROVE  /\ pc'[v] \in {"filling", "counting"}
         /\ lo'[v] <= pos'[v] /\ pos'[v] <= hi'[v]
         /\ Filled(Units(lo[v], pos[v]))'
<1>1. /\ pc[v] \in {"filling", "counting"} /\ lo[v] <= pos[v] /\ pos[v] <= hi[v]
      /\ Filled(Units(lo[v], pos[v]))
  BY DEF Written
<1>2. /\ hi[v] <= TotalSize /\ TotalSize \in Nat
      /\ lo[v] \in Nat /\ hi[v] \in Nat /\ pos[v] \in Nat
  BY <1>1, BufferAssumption DEF RangesHeld, DownloaderTypeOK, TypeOK
<1>3. Units(lo[v], pos[v]) \subseteq Offset
  BY <1>1, <1>2 DEF Units, Offset
<1>4. Units(lo[v], pos[v])' = Units(lo[v], pos[v])
  BY DEF Units
<1>5. \A o \in Units(lo[v], pos[v]) : file'[o] # Hole
  BY <1>1, <1>3, NoNewHole DEF Filled
<1>6. QED BY <1>1, <1>4, <1>5 DEF Filled

(* A chunk joins what the attempt wrote before. *)
LEMMA WrittenAfterChunk ==
  ASSUME DownloaderTypeOK, RangesHeld, BodiesKnown, Written, [DownloaderNext]_downloadVars,
         NEW w \in Workers, ReceiveChunk(w)
  PROVE  /\ pc'[w] \in {"filling", "counting"}
         /\ lo'[w] <= pos'[w] /\ pos'[w] <= hi'[w]
         /\ Filled(Units(lo[w], pos[w]))'
<1> USE DEF DownloaderTypeOK, TypeOK
<1>1. PICK upto \in 0 .. TotalSize :
        /\ WriteData(w, pos[w], upto, body[w])
        /\ pos' = [pos EXCEPT ![w] = upto]
        /\ lo[w] <= pos[w] /\ pos[w] < upto /\ upto <= hi[w]
        /\ pos[w] \in 0 .. TotalSize /\ body[w] \in Data
  BY ChunkInRange
<1>2. /\ pc' = pc /\ lo' = lo /\ hi' = hi /\ pos'[w] = upto /\ pc[w] = "filling"
      /\ file' = [o \in Offset |-> IF o \in Units(pos[w], upto) THEN body[w] ELSE file[o]]
  BY <1>1 DEF WriteData, Write, workerVars
<1>3. /\ TotalSize \in Nat /\ upto \in Nat /\ pos[w] \in Nat /\ lo[w] \in Nat
      /\ hi[w] \in Nat /\ upto <= TotalSize
  BY BufferAssumption
<1>4. Filled(Units(lo[w], pos[w]))
  BY DEF Written, ReceiveChunk, Reading
<1>5. ASSUME NEW o \in Units(lo[w], upto) PROVE file'[o] # Hole
  <2>1. o \in Int /\ lo[w] <= o /\ o < upto /\ o \in Offset
    BY <1>3, <1>5 DEF Units, Offset
  <2>2. CASE o \in Units(pos[w], upto)
    BY <1>1, <1>2, <2>1, <2>2, BufferAssumption
  <2>3. CASE o \notin Units(pos[w], upto)
    <3>1. o \in Units(lo[w], pos[w])
      BY <1>3, <2>1, <2>3 DEF Units
    <3>2. file'[o] = file[o]
      BY <1>2, <2>1, <2>3
    <3>3. QED BY <1>4, <3>1, <3>2 DEF Filled
  <2>4. QED BY <2>2, <2>3
<1>6. Units(lo[w], pos[w])' = Units(lo[w], upto)
  BY <1>2 DEF Units
<1>7. lo'[w] <= pos'[w] /\ pos'[w] <= hi'[w]
  BY <1>1, <1>2, <1>3
<1>8. QED BY <1>2, <1>5, <1>6, <1>7 DEF Filled

LEMMA WrittenStep ==
  ASSUME DownloaderTypeOK, RangesHeld, BodiesKnown, Written, [DownloaderNext]_downloadVars
  PROVE  Written'
<1> USE DEF DownloaderTypeOK, TypeOK, Set
<1> SUFFICES ASSUME NEW v \in Workers, io'[v] = "reading"
             PROVE  /\ pc'[v] \in {"filling", "counting"}
                    /\ lo'[v] <= pos'[v] /\ pos'[v] <= hi'[v]
                    /\ Filled(Units(lo[v], pos[v]))'
  BY DEF Written
<1>1. ASSUME NEW w \in Workers, TaskStep(w), w # v
      PROVE  io[v] = "reading" /\ pc'[v] = pc[v] /\ lo'[v] = lo[v] /\ hi'[v] = hi[v]
             /\ pos'[v] = pos[v] /\ pc'[v] \in {"filling", "counting"}
  BY <1>1, TaskMovesItsOwn DEF Written
<1>2. CASE DriverStep \/ Outside \/ UNCHANGED downloadVars
  <2>1. io[v] = "reading" /\ lo' = lo /\ hi' = hi /\ pos' = pos
    BY <1>2, RestOfDownload
  <2>2. pc[v] \in {"filling", "counting"}
    BY <2>1 DEF Written
  <2>3. pc'[v] = pc[v]
    BY <1>2, <2>2, RestOfDownload DEF Enlist
  <2>4. QED BY <2>1, <2>2, <2>3, WrittenWhileResting
<1>3. CASE TaskStep(v)
  <2>1. CASE Answers(v)
    <3>1. pc[v] = "filling" /\ pc' = pc /\ lo' = lo /\ hi' = hi /\ pos'[v] = lo[v]
      BY <2>1 DEF Answers, Asking, vars
    <3>2. lo[v] <= hi[v] /\ lo[v] \in Nat
      BY <3>1 DEF RangesHeld
    <3>3. Units(lo[v], pos[v])' = {}
      BY <3>1, <3>2 DEF Units
    <3>4. QED BY <3>1, <3>2, <3>3 DEF Filled
  <2>2. CASE ReceiveChunk(v)
    BY <2>2, WrittenAfterChunk
  <2>3. CASE Complete(v)
    <3>1. /\ io[v] = "reading" /\ pc'[v] = "counting" /\ lo' = lo /\ hi' = hi /\ pos' = pos
      BY <2>3 DEF Complete, Reading, Mark, exchangeVars
    <3>2. QED BY <3>1, WrittenWhileResting
  <2>4. CASE Acquire(v) \/ EndTask(v)
    <3>1. io[v] = "reading" /\ pc' = pc /\ lo' = lo /\ hi' = hi /\ pos' = pos
      BY <2>4 DEF Acquire, EndTask, vars, exchangeVars
    <3>2. pc'[v] \in {"filling", "counting"}
      BY <3>1 DEF Written
    <3>3. QED BY <3>1, <3>2, WrittenWhileResting
  <2>5. CASE ClaimNext(v)
    <3>1. io' = io /\ pc[v] = "claiming"
      BY <2>5 DEF ClaimNext, Claim, exchangeVars
    <3>2. QED BY <3>1 DEF Written
  <2>6. CASE Begin(v) \/ Tell(v) \/ Retry(v) \/ Abort(v)
    BY <2>6 DEF Begin, Tell, Retry, Abort
  <2>7. CASE Finish(v) \/ Precondition(v) \/ RangeIgnored(v) \/ Fail(v)
    BY <2>7 DEF Finish, Precondition, RangeIgnored, Fail, Return
  <2>8. QED
    BY <1>3, <2>1, <2>2, <2>3, <2>4, <2>5, <2>6, <2>7 DEF TaskStep
<1>4. QED BY <1>1, <1>2, <1>3, WrittenWhileResting DEF DownloaderNext

(* Each message is sent after a segment was counted, and each worker but *)
(* the first is spawned for one.                                         *)
LEMMA SpawnsToldStep ==
  ASSUME DownloaderTypeOK, SpawnsTold, NotSpawned, [DownloaderNext]_downloadVars
  PROVE  SpawnsTold'
<1> USE DEF DownloaderTypeOK, TypeOK
<1>1. IsFiniteSet(Spawned) /\ Cardinality(Spawned) \in Nat
  BY BufferAssumption, FS_Subset, FS_CardinalityType DEF Spawned
<1>2. ASSUME Spawned' = Spawned, readyCount' \in Nat,
             readyTold' - readyTold <= readyCount' - readyCount, readyTold' \in Nat
      PROVE  SpawnsTold'
  <2>1. Cardinality(Spawned') = Cardinality(Spawned)
    BY <1>2
  <2>2. readyTold \in Nat /\ readyCount \in Nat
    OBVIOUS
  <2> HIDE DEF DownloaderTypeOK, TypeOK
  <2>5. \A n, told, count, told2, count2 \in Nat :
          /\ n + told <= 1 + count /\ told2 - told <= count2 - count => n + told2 <= 1 + count2
          /\ told <= count /\ told2 - told <= count2 - count => told2 <= count2
    OBVIOUS
  <2>3. CASE Spawned = {}
    BY <1>2, <2>2, <2>3, <2>5, Zenon DEF SpawnsTold
  <2>4. CASE Spawned # {}
    <3>1. Cardinality(Spawned) + readyTold <= 1 + readyCount
      BY <2>4 DEF SpawnsTold
    <3>2. Cardinality(Spawned') + readyTold' <= 1 + readyCount'
      BY <1>1, <1>2, <2>1, <2>2, <2>5, <3>1, Zenon
    <3>3. QED BY <1>2, <2>4, <3>2 DEF SpawnsTold
  <2>6. QED BY <2>3, <2>4
<1>3. ASSUME NEW w \in Workers, SpawnFirst(w) \/ SpawnMore(w) PROVE SpawnsTold'
  <2>1. /\ pc[w] = "absent" /\ pc' = [pc EXCEPT ![w] = "claiming"] /\ readyCount' = readyCount
    BY <1>3 DEF SpawnFirst, SpawnMore, SpawnTask, Enlist, bufferVars
  <2>2. Spawned' = Spawned \cup {w} /\ w \notin Spawned
    BY <2>1 DEF Spawned
  <2>3. Cardinality(Spawned') = Cardinality(Spawned) + 1
    BY <1>1, <2>2, FS_AddElement
  <2>4. CASE SpawnFirst(w)
    <3>1. Spawned = {} /\ Cardinality(Spawned) = 0 /\ readyTold' = readyTold
      BY <2>4, FS_EmptySet DEF SpawnFirst
    <3>2. QED BY <2>1, <2>2, <2>3, <3>1 DEF SpawnsTold
  <2>5. CASE SpawnMore(w) /\ Spawned # {}
    <3>1. readyTold' = readyTold - 1
      BY <2>5 DEF SpawnMore
    <3>2. QED BY <1>1, <2>1, <2>2, <2>3, <2>5, <3>1 DEF SpawnsTold
  <2>6. CASE SpawnMore(w) /\ Spawned = {}
    <3>1. connections = 0 /\ Cardinality(Spawned) < connections
      BY <2>6 DEF SpawnMore, Polls
    <3>2. QED BY <1>1, <3>1
  <2>7. QED BY <1>3, <2>4, <2>5, <2>6
<1>4. ASSUME NEW w \in Workers, TaskStep(w) PROVE SpawnsTold'
  <2>1. Spawned' = Spawned
    <3>1. /\ \A v \in Workers : v # w => pc'[v] = pc[v]
          /\ pc'[w] = "absent" => pc[w] = "absent"
      BY <1>4, TaskMoves
    <3>2. pc[w] = "absent" => pc'[w] = "absent"
      <4>1. pc[w] = "absent" => task[w] = "none"
        BY DEF NotSpawned
      <4>2. task[w] # "none"
        BY <1>4 DEF TaskStep, Acquire, ClaimNext, Begin, Finish, Precondition, RangeIgnored,
           Answers, ReceiveChunk, Retry, Fail, Complete, Tell, EndTask, Abort, InExchange,
           Asking, Reading, WorkerRuns
      <4>3. QED BY <4>1, <4>2
    <3>3. QED BY <3>1, <3>2 DEF Spawned
  <2>2. CASE Tell(w)
    <3>1. readyTold' = readyTold + 1 /\ readyCount' = readyCount + 1
      BY <2>2 DEF Tell, CountReady
    <3>2. QED BY <1>2, <2>1, <3>1
  <2>3. CASE ~Tell(w)
    <3>1. readyTold' = readyTold /\ readyCount' = readyCount
      BY <1>4, <2>3 DEF TaskStep, Acquire, ClaimNext, Claim, Begin, Push, Finish, Exhausted,
         Precondition, RangeIgnored, Answers, ReceiveChunk, Write, Retry, Fail, Complete, Mark,
         EndTask, Abort, Die, Return, bufferVars, vars, driverVars
    <3>2. QED BY <1>2, <2>1, <3>1
  <2>4. QED BY <2>2, <2>3
<1>5. CASE /\ DriverStep \/ Outside \/ UNCHANGED downloadVars
           /\ ~ \E w \in Workers : SpawnFirst(w) \/ SpawnMore(w)
  <2>1. pc' = pc /\ readyCount' = readyCount
    BY <1>5, RestOfDownload
  <2>2. readyTold' = readyTold \/ (readyTold > 0 /\ readyTold' = readyTold - 1)
    BY <1>5 DEF DriverStep, JoinFatal, JoinPlain, Drain, JoinTask, SpawnedAll, JoinNothing,
       ConcludeDownload, FailBuffer, driverVars, downloadVars, Outside, Publish, LendPermit,
       TakeBack
  <2>3. Spawned' = Spawned
    BY <2>1 DEF Spawned
  <2>4. /\ readyTold' \in Nat /\ readyCount' \in Nat
        /\ readyTold' - readyTold <= readyCount' - readyCount
    BY <2>1, <2>2
  <2>5. QED BY <1>2, <2>3, <2>4
<1>6. QED BY <1>3, <1>4, <1>5 DEF DownloaderNext
-----------------------------------------------------------------------------
(* Results.                                                                *)

LEMMA QuietStep ==
  ASSUME DownloaderTypeOK, ActiveCounts, DrainedIsQuiet, [DownloaderNext]_downloadVars
  PROVE  DrainedIsQuiet'
<1> USE DEF DownloaderTypeOK, DrainedIsQuiet
<1>1. ASSUME NEW w \in Workers, TaskStep(w) PROVE DrainedIsQuiet'
  <2>1. driver' = driver
    BY <1>1, TaskMoves
  <2>2. SUFFICES ASSUME driver = "draining"
                 PROVE  \A v \in Workers : task'[v] \notin {"queued", "running"}
    BY <2>1
  <2>3. task' = [task EXCEPT ![w] = "ended"]
    BY <1>1, <2>2, TaskMoves
  <2>4. QED BY <2>2, <2>3
<1>2. active = 0 /\ driver # "returned" => AtWork = {}
  <2>1. IsFiniteSet(AtWork)
    BY BufferAssumption, FS_Subset DEF AtWork
  <2>2. QED BY <2>1, FS_EmptySet DEF ActiveCounts
<1>3. CASE DriverStep
  <2>1. ASSUME NEW w \in Workers, task[w] = "ended",
               task' = [task EXCEPT ![w] = "joined"],
               driver' = "draining" /\ driver # "draining" => active = 0,
               driver # "returned"
        PROVE  DrainedIsQuiet'
    BY <1>2, <2>1 DEF AtWork
  <2>2. ASSUME task' = task, driver' = "draining" /\ driver # "draining" => AllJoined
        PROVE  DrainedIsQuiet'
    BY <2>2 DEF AllJoined
  <2>3. ASSUME driver = "running", driver' = driver PROVE DrainedIsQuiet'
    BY <2>3
  <2>4. driver = "returned" => driver' = "returned"
    BY <1>3 DEF DriverStep, SpawnFirst, SpawnMore, JoinFatal, JoinPlain, Drain,
                SpawnedAll, JoinNothing, ConcludeDownload, FailBuffer, Polls, driverVars
  <2>5. QED BY <1>3, <2>1, <2>2, <2>3, <2>4, DriverMoves
<1>4. CASE Outside \/ UNCHANGED downloadVars
  BY <1>4, IdleMoves
<1>5. QED BY <1>1, <1>3, <1>4 DEF DownloaderNext

(* Ok is decided when every task was joined, so no claim is half way. *)
LEMMA OkStep ==
  ASSUME DownloaderInv, [DownloaderNext]_downloadVars
  PROVE  OkMeansOneGeneration'
<1> USE DEF DownloaderInv
<1>1. pinned' = pinned
  BY BodiesStep
<1>2. CASE outcome = "ok"
  BY <1>1, <1>2, FileStep, BufferAssumption
     DEF OkMeansOneGeneration, DownloaderTypeOK, TypeOK
<1>3. ASSUME outcome # "ok", outcome' = "ok"
      PROVE  \A o \in Offset : file[o] # Hole /\ (StrongEtag => file[o] = pinned)
  <2>1. DriverStep
    BY <1>3, TaskMoves, IdleMoves DEF DownloaderNext
  <2>2. AllJoined /\ AllCompleted
    BY <1>3, <2>1, DriverMoves
  <2>3. Pushing = {}
    BY <2>2 DEF AllJoined, ClaimersRun, Pushing
  <2>4. Filled(Offset)
    BY <2>2, <2>3, CompletedIsComplete DEF CompletionSound
  <2>5. QED BY <2>4 DEF Filled, OneGeneration
<1>4. ASSUME outcome # "ok", outcome' = "ok"
      PROVE  file' = file
  <2>1. DriverStep
    BY <1>4, TaskMoves, IdleMoves DEF DownloaderNext
  <2>2. QED
    BY <2>1 DEF DriverStep, SpawnFirst, SpawnMore, SpawnTask, Enlist, bufferVars,
       JoinFatal, JoinPlain, Drain, JoinTask, SpawnedAll, JoinNothing,
       ConcludeDownload, FailBuffer, SetFailed, vars
<1>5. QED BY <1>1, <1>2, <1>3, <1>4 DEF OkMeansOneGeneration

-----------------------------------------------------------------------------
LEMMA DownloaderInitInv == DownloaderInit => DownloaderInv
<1> SUFFICES ASSUME DownloaderInit PROVE DownloaderInv
  OBVIOUS
<1> USE DEF DownloaderInit
<1>1. IInv
  BY InitIInv
<1>2. DownloaderTypeOK
  <2>1. TypeOK
    BY <1>1 DEF IInv, Shape
  <2>2. connections \in Nat /\ active \in Int /\ readyTold \in Nat
    OBVIOUS
  <2>3. attempt \in [Workers -> 0 .. MaxSegmentRetries]
    BY DownloaderAssumption
  <2>4. finished \in Seq(Workers)
    OBVIOUS
  <2>5. body \in [Workers -> Data \cup {Never}]
    OBVIOUS
  <2>6. pos \in [Workers -> Nat] /\ upstream \in Data /\ pinned \in Data
        /\ others \in Nat
    OBVIOUS
  <2>7. task \in [Workers -> Task] /\ result \in [Workers -> Result]
    BY DEF Task, Result
  <2>8. QED
    BY <2>1, <2>2, <2>3, <2>4, <2>5, <2>6, <2>7 DEF DownloaderTypeOK
<1>3. /\ BodiesKnown /\ ClaimersRun /\ NotSpawned /\ DrainedIsQuiet
      /\ RangesHeld /\ Written /\ SpawnsTold
  BY DEF Init, RangesHeld, Written, SpawnsTold, Spawned, BodiesKnown, ClaimersRun, Pushing, NotSpawned, DrainedIsQuiet
<1>4. OneGeneration /\ OkMeansOneGeneration
  BY DEF Init, OneGeneration, OkMeansOneGeneration
<1>5. ActiveCounts
  <2>1. AtWork = {}
    BY DEF AtWork
  <2>2. QED BY <2>1, FS_EmptySet DEF ActiveCounts
<1>6. QED BY <1>1, <1>2, <1>3, <1>4, <1>5 DEF DownloaderInv

LEMMA DownloaderNextInv ==
  DownloaderInv /\ [DownloaderNext]_downloadVars => DownloaderInv'
<1> SUFFICES ASSUME DownloaderInv, [DownloaderNext]_downloadVars
             PROVE  DownloaderInv'
  OBVIOUS
<1>1. IInv'
  BY StepRefines, NextIInv DEF DownloaderInv
<1>2. DownloaderTypeOK'
  BY <1>1, StepTypes DEF DownloaderInv, IInv, Shape
<1>3. BodiesKnown' /\ OneGeneration' /\ RangesHeld' /\ Written' /\ SpawnsTold'
  BY BodiesStep, GenerationStep, RangesStep, WrittenStep, SpawnsToldStep DEF DownloaderInv
<1>4. ClaimersRun' /\ NotSpawned' /\ ActiveCounts' /\ DrainedIsQuiet'
  BY ClaimersStep, ActiveStep, QuietStep DEF DownloaderInv
<1>5. OkMeansOneGeneration'
  BY OkStep
<1>6. QED BY <1>1, <1>2, <1>3, <1>4, <1>5 DEF DownloaderInv

(* The invariant of download_multithreaded holds for any number of workers, *)
(* connections, permits and attempts.                                       *)
THEOREM DownloaderInvariant == DownloaderSpec => []DownloaderInv
<1>1. QED
  BY DownloaderInitInv, DownloaderNextInv, PTL DEF DownloaderSpec

(* Every variable of the driver and of the workers keeps its type; attempts *)
(* stay within MAX_SEGMENT_RETRIES.                                         *)
THEOREM DownloaderTypeCorrect == DownloaderSpec => []DownloaderTypeOK
<1>1. DownloaderInv => DownloaderTypeOK
  BY DEF DownloaderInv
<1>2. QED BY <1>1, DownloaderInvariant, PTL

(* A download that returns Ok has written every byte of the file, and with a *)
(* strong ETag all of them from the generation HEAD saw: what enters the     *)
(* cache is one file, whatever the server did meanwhile.                     *)
THEOREM OkIsOneGeneration == DownloaderSpec => []OkMeansOneGeneration
<1>1. DownloaderInv => OkMeansOneGeneration
  BY DEF DownloaderInv
<1>2. QED BY <1>1, DownloaderInvariant, PTL

(* When the driver leaves its loop because active is 0, no task is waiting  *)
(* for a permit or at work.                                                 *)
THEOREM DrainIsQuiet == DownloaderSpec => []DrainedIsQuiet
<1>1. DownloaderInv => DrainedIsQuiet
  BY DEF DownloaderInv
<1>2. QED BY <1>1, DownloaderInvariant, PTL

(* A download keeps to what the buffer expects: it marks by the bytes of one *)
(* attempt only what the file holds (downloader.rs:483), cuts what the       *)
(* server sends at the end of the range (413) and spawns by messages no more *)
(* than one worker and one per segment ready (192).  So all that is proved   *)
(* of the buffer holds of a download.                                        *)
THEOREM DownloaderRefinesBuffer == DownloaderSpec => ImplementsBuffer
<1>1. DownloaderInit => Init
  BY DEF DownloaderInit
<1>2. DownloaderInv /\ [DownloaderNext]_downloadVars => [Next]_vars
  BY StepRefines DEF DownloaderInv
<1>3. QED
  BY <1>1, <1>2, DownloaderInvariant, PTL DEF DownloaderSpec, ImplementsBuffer, Spec
=============================================================================
