------------------------ MODULE SegmentsBufferProofs ------------------------
(***************************************************************************)
(* Proofs about SegmentsBuffer, for every number of workers, file size and *)
(* set of preferred sizes.  IInv is inductive; type correctness, the       *)
(* partition of the file by claims, the absence of holes in Ready segments *)
(* and the completeness of a finished download follow from it, and so does *)
(* the refinement of RangedDownload.                                       *)
(***************************************************************************)
EXTENDS SegmentsBuffer, TLAPS, FiniteSetTheorems, SequenceTheorems

(* The sets whose sizes mark_ready balances are finite. *)
LEMMA FiniteViews ==
  ASSUME TypeOK
  PROVE  /\ IsFiniteSet(Ids) /\ Cardinality(Ids) = Len(segments)
         /\ IsFiniteSet(ReadyIds) /\ Cardinality(ReadyIds) \in Nat
         /\ IsFiniteSet(Counting) /\ Cardinality(Counting) \in Nat
<1>1. Len(segments) \in Nat
  BY LenProperties DEF TypeOK
<1>2. IsFiniteSet(Ids) /\ Cardinality(Ids) = Len(segments)
  <2>1. /\ IsFiniteSet(1 .. Len(segments))
        /\ Cardinality(1 .. Len(segments))
             = IF 1 > Len(segments) THEN 0 ELSE Len(segments) - 1 + 1
    BY <1>1, 1 \in Int, Len(segments) \in Int, FS_Interval, Zenon
  <2>2. QED BY <1>1, <2>1 DEF Ids
<1>3. IsFiniteSet(ReadyIds) /\ Cardinality(ReadyIds) \in Nat
  <2>1. ReadyIds \in SUBSET Ids
    BY DEF ReadyIds
  <2>2. QED BY <2>1, <1>2, FS_Subset, FS_CardinalityType
<1>4. IsFiniteSet(Counting) /\ Cardinality(Counting) \in Nat
  <2>1. Counting \in SUBSET Workers
    BY DEF Counting
  <2>2. QED BY <2>1, BufferAssumption, FS_Subset, FS_CardinalityType
<1>5. QED BY <1>2, <1>3, <1>4

(* Pushing a segment appends it and leaves the others as they are. *)
LEMMA PushAppends ==
  ASSUME TypeOK, NEW w \in Workers, Push(w)
  PROVE  /\ segments' \in Seq(Segment)
         /\ Len(segments') = Len(segments) + 1
         /\ Len(segments) \in Nat
         /\ \A i \in Ids : segments'[i] = segments[i]
         /\ segments'[Len(segments) + 1]
              = [start |-> lo[w], end |-> hi[w], state |-> "Downloading"]
BY DEF TypeOK, Push, ClaimedSegment, Segment, SegState, Ids

(* Marking a segment changes its state and nothing else. *)
LEMMA MarkChangesState ==
  ASSUME TypeOK, FillersOwnSegments, NEW w \in Workers, Mark(w)
  PROVE  /\ segments' \in Seq(Segment)
         /\ Len(segments') = Len(segments)
         /\ Len(segments) \in Nat
         /\ seg[w] \in Ids
         /\ \A i \in Ids : segments'[i].start = segments[i].start
                        /\ segments'[i].end = segments[i].end
         /\ \A i \in Ids : i # seg[w] => segments'[i] = segments[i]
         /\ segments'[seg[w]].state = "Ready"
<1>1. seg[w] \in Ids /\ segments \in Seq(Segment)
  BY DEF FillersOwnSegments, Mark, TypeOK
<1>2. segments[seg[w]] \in Segment
  BY <1>1, ElementOfSeq DEF Ids
<1>3. [segments[seg[w]] EXCEPT !.state = "Ready"] \in Segment
  BY <1>2 DEF Segment, SegState
<1>4. segments' = [segments EXCEPT ![seg[w]] = [segments[seg[w]] EXCEPT !.state = "Ready"]]
  BY DEF Mark
<1>5. \A i \in Ids : segments[i] \in Segment
  BY <1>1, ElementOfSeq DEF Ids
<1>6. QED
  BY <1>1, <1>2, <1>3, <1>4, <1>5, ExceptSeq, LenProperties DEF Ids, Segment

(* Units of segments are units of the file. *)
LEMMA SegmentsInsideFile ==
  ASSUME Shape
  PROVE  /\ \A i \in Ids : segments[i] \in Segment
         /\ \A i \in Ids : SegUnits(i) \subseteq Offset
         /\ \A i \in Ids : \A o \in SegUnits(i) : o < nextUnassigned
<1> USE DEF Shape
<1>1. \A i \in Ids : segments[i] \in Segment
  BY ElementOfSeq DEF TypeOK, Ids
<1>2. TotalSize \in Nat /\ nextUnassigned \in Nat /\ nextUnassigned <= TotalSize
  BY BufferAssumption DEF TypeOK, RangesBelowCursor
<1>3. \A i \in Ids : /\ segments[i].start \in Nat /\ segments[i].end \in Nat
                     /\ segments[i].end <= nextUnassigned
  BY <1>1 DEF Segment, RangesBelowCursor
<1>4. QED BY <1>1, <1>2, <1>3 DEF SegUnits, Units, Offset

(* The buffer starts empty. *)
LEMMA InitIInv == Init => IInv
<1> SUFFICES ASSUME Init PROVE IInv
  OBVIOUS
<1> USE DEF Init
<1>1. TypeOK
  <2>1. segments \in Seq(Segment)
    BY EmptySeq
  <2>2. QED BY <2>1, BufferAssumption DEF TypeOK, PC
<1>2. Ids = {} /\ Pushing = {} /\ Counting = {} /\ ReadyIds = {}
  BY DEF Ids, Pushing, Counting, ReadyIds
<1>3. RangesBelowCursor
  BY <1>2, BufferAssumption DEF RangesBelowCursor
<1>4. FillersOwnSegments
  BY DEF FillersOwnSegments
<1>5. ClaimsPartition
  BY <1>2 DEF ClaimsPartition, Units
<1>6. ReadyIsFilled
  BY <1>2 DEF ReadyIsFilled
<1>7. CountLagsByCounting
  BY <1>2, FS_EmptySet DEF CountLagsByCounting
<1>8. QED BY <1>1, <1>3, <1>4, <1>5, <1>6, <1>7 DEF IInv, Shape

-----------------------------------------------------------------------------
(* Spawn, Die and SetFailed touch neither segments nor ranges, and neither   *)
(* take a worker into nor out of a claim or a mark half way.                 *)
LEMMA SpawnStep ==
  ASSUME Shape, NEW w \in Workers, Spawn(w)
  PROVE  Shape' /\ (ReadyIsFilled => ReadyIsFilled')
<1> USE DEF Shape, Spawn, Enlist, bufferVars
<1>1. TypeOK'
  BY DEF TypeOK, PC
<1>2. /\ Ids' = Ids /\ ReadyIds' = ReadyIds /\ Pushing' = Pushing
      /\ Counting' = Counting
  BY DEF TypeOK, Ids, ReadyIds, Pushing, Counting
<1>3. RangesBelowCursor'
  BY <1>2 DEF RangesBelowCursor
<1>4. FillersOwnSegments'
  BY <1>2 DEF FillersOwnSegments, TypeOK
<1>5. ClaimsPartition'
  BY <1>2 DEF ClaimsPartition, SegUnits, Units
<1>6. ReadyIsFilled => ReadyIsFilled'
  BY <1>2 DEF ReadyIsFilled, Filled, SegUnits, Units
<1>7. CountLagsByCounting'
  BY <1>2 DEF CountLagsByCounting
<1>8. QED BY <1>1, <1>3, <1>4, <1>5, <1>6, <1>7

LEMMA DieStep ==
  ASSUME Shape, NEW w \in Workers, Die(w)
  PROVE  Shape' /\ (ReadyIsFilled => ReadyIsFilled')
<1> USE DEF Shape, Die, bufferVars
<1>1. TypeOK'
  BY DEF TypeOK, PC
<1>2. /\ Ids' = Ids /\ ReadyIds' = ReadyIds /\ Pushing' = Pushing
      /\ Counting' = Counting
  BY DEF TypeOK, Ids, ReadyIds, Pushing, Counting
<1>3. RangesBelowCursor'
  BY <1>2 DEF RangesBelowCursor
<1>4. FillersOwnSegments'
  BY <1>2 DEF FillersOwnSegments, TypeOK
<1>5. ClaimsPartition'
  BY <1>2 DEF ClaimsPartition, SegUnits, Units
<1>6. ReadyIsFilled => ReadyIsFilled'
  BY <1>2 DEF ReadyIsFilled, Filled, SegUnits, Units
<1>7. CountLagsByCounting'
  BY <1>2 DEF CountLagsByCounting
<1>8. QED BY <1>1, <1>3, <1>4, <1>5, <1>6, <1>7

(* A claim moves the cursor over exactly the range it hands out. *)
LEMMA ClaimStep ==
  ASSUME Shape, NEW w \in Workers, NEW preferred \in Sizes, Claim(w, preferred)
  PROVE  Shape' /\ (ReadyIsFilled => ReadyIsFilled')
<1> USE DEF Shape, Claim, RangeEnd
<1>1. /\ preferred \in Nat \ {0}
      /\ TotalSize \in Nat
      /\ nextUnassigned \in Nat
      /\ lo'[w] = nextUnassigned /\ hi'[w] = nextUnassigned'
      /\ nextUnassigned < nextUnassigned' /\ nextUnassigned' <= TotalSize
      /\ nextUnassigned' \in Nat
  BY BufferAssumption DEF TypeOK
<1>2. TypeOK'
  BY <1>1 DEF TypeOK, PC
<1>3. /\ Ids' = Ids /\ ReadyIds' = ReadyIds /\ Counting' = Counting
      /\ Pushing' = Pushing \cup {w} /\ w \notin Pushing
  BY DEF TypeOK, Ids, ReadyIds, Pushing, Counting
<1>4. \A v \in Pushing : lo'[v] = lo[v] /\ hi'[v] = hi[v]
  BY <1>3 DEF TypeOK, Pushing
<1>5. \A i \in Ids : segments[i].end \in Nat /\ segments[i].start \in Nat
  <2>1. \A i \in Ids : segments[i] \in Segment
    BY ElementOfSeq DEF TypeOK, Ids
  <2>2. QED BY <2>1 DEF Segment
<1>6. \A v \in Pushing : lo[v] \in Nat /\ hi[v] \in Nat
  BY DEF TypeOK, Pushing
<1>7. RangesBelowCursor'
  BY <1>1, <1>3, <1>4, <1>5, <1>6 DEF RangesBelowCursor
<1>8. FillersOwnSegments'
  BY <1>3 DEF FillersOwnSegments, TypeOK
<1>9. ClaimsPartition'
  <2>1. \A i \in Ids : SegUnits(i)' = SegUnits(i)
    BY DEF SegUnits, Units
  <2>2. \A v \in Pushing : Units(lo[v], hi[v])' = Units(lo[v], hi[v])
    BY <1>4 DEF Units
  <2>3. Units(lo[w], hi[w])' = nextUnassigned .. nextUnassigned' - 1
    BY <1>1 DEF Units
  <2>4. \A i \in Ids : SegUnits(i) \cap Units(lo[w], hi[w])' = {}
    BY <1>1, <1>5, <2>3 DEF SegUnits, Units, RangesBelowCursor
  <2>5. \A v \in Pushing : Units(lo[v], hi[v]) \cap Units(lo[w], hi[w])' = {}
    BY <1>1, <1>6, <2>3 DEF Units, RangesBelowCursor
  <2>6. Units(0, nextUnassigned)'
          = Units(0, nextUnassigned) \cup Units(lo[w], hi[w])'
    BY <1>1, <2>3 DEF Units
  <2>7. \A i, j \in Ids' : i # j => SegUnits(i)' \cap SegUnits(j)' = {}
    BY <1>3, <2>1 DEF ClaimsPartition
  <2>8. \A u, v \in Pushing' :
          u # v => Units(lo[u], hi[u])' \cap Units(lo[v], hi[v])' = {}
    BY <1>3, <2>2, <2>5, Zenon DEF ClaimsPartition
  <2>9. \A i \in Ids', v \in Pushing' : SegUnits(i)' \cap Units(lo[v], hi[v])' = {}
    BY <1>3, <2>1, <2>2, <2>4 DEF ClaimsPartition
  <2>10. \A o \in Units(0, nextUnassigned)' :
           (\E i \in Ids' : o \in SegUnits(i)')
             \/ (\E v \in Pushing' : o \in Units(lo[v], hi[v])')
    BY <1>3, <2>1, <2>2, <2>6 DEF ClaimsPartition
  <2>11. QED BY <2>7, <2>8, <2>9, <2>10 DEF ClaimsPartition
<1>10. ReadyIsFilled => ReadyIsFilled'
  BY <1>3 DEF ReadyIsFilled, Filled, SegUnits, Units
<1>11. CountLagsByCounting'
  BY <1>3 DEF CountLagsByCounting
<1>12. QED BY <1>2, <1>7, <1>8, <1>9, <1>10, <1>11

LEMMA ExhaustedStep ==
  ASSUME Shape, NEW w \in Workers, Exhausted(w)
  PROVE  Shape' /\ (ReadyIsFilled => ReadyIsFilled')
<1> USE DEF Shape, Exhausted
<1>1. TypeOK'
  BY DEF TypeOK, PC
<1>2. /\ Ids' = Ids /\ ReadyIds' = ReadyIds /\ Pushing' = Pushing
      /\ Counting' = Counting
  BY DEF TypeOK, Ids, ReadyIds, Pushing, Counting
<1>3. RangesBelowCursor'
  BY <1>2, BufferAssumption DEF RangesBelowCursor, TypeOK
<1>4. FillersOwnSegments'
  BY <1>2 DEF FillersOwnSegments, TypeOK
<1>5. ClaimsPartition'
  BY <1>2 DEF ClaimsPartition, SegUnits, Units
<1>6. ReadyIsFilled => ReadyIsFilled'
  BY <1>2 DEF ReadyIsFilled, Filled, SegUnits, Units
<1>7. CountLagsByCounting'
  BY <1>2 DEF CountLagsByCounting
<1>8. QED BY <1>1, <1>3, <1>4, <1>5, <1>6, <1>7

(* A push turns the range of a worker into the range of a segment. *)
LEMMA PushStep ==
  ASSUME Shape, NEW w \in Workers, Push(w)
  PROVE  Shape' /\ (ReadyIsFilled => ReadyIsFilled')
<1> USE DEF Shape
<1>0. PICK new : new = Len(segments) + 1
  OBVIOUS
<1>1. /\ segments' \in Seq(Segment)
      /\ Len(segments') = new
      /\ Len(segments) \in Nat
      /\ \A i \in Ids : segments'[i] = segments[i]
      /\ segments'[new] = [start |-> lo[w], end |-> hi[w], state |-> "Downloading"]
  BY <1>0, PushAppends
<1>2. TypeOK'
  BY <1>1 DEF TypeOK, PC, Push
<1>3. /\ Ids' = Ids \cup {new} /\ new \notin Ids
      /\ w \in Pushing /\ Pushing' = Pushing \ {w}
      /\ Counting' = Counting
  BY <1>0, <1>1 DEF Ids, Pushing, Counting, TypeOK, Push
<1>4. ReadyIds' = ReadyIds
  BY <1>1, <1>3 DEF ReadyIds
<1>5. RangesBelowCursor'
  <2>1. segments'[new].end = hi[w] /\ hi[w] <= nextUnassigned
    BY <1>1, <1>3 DEF RangesBelowCursor
  <2>2. \A i \in Ids : segments'[i].end <= nextUnassigned
    BY <1>1 DEF RangesBelowCursor
  <2>3. QED BY <1>3, <2>1, <2>2 DEF RangesBelowCursor, Push
<1>6. FillersOwnSegments'
  <2>1. /\ pc'[w] = "filling" /\ seg'[w] = new
        /\ \A v \in Workers : v # w => pc'[v] = pc[v] /\ seg'[v] = seg[v]
        /\ lo' = lo /\ hi' = hi
    BY <1>0 DEF Push, TypeOK
  <2>2. \A v \in Workers : pc[v] = "filling" =>
           /\ seg[v] \in Ids
           /\ segments'[seg[v]] = [start |-> lo[v], end |-> hi[v],
                                   state |-> "Downloading"]
    BY <1>1 DEF FillersOwnSegments
  <2>3. \A v \in Workers : pc'[v] = "filling" =>
           /\ seg'[v] \in Ids'
           /\ segments'[seg'[v]] = [start |-> lo'[v], end |-> hi'[v],
                                    state |-> "Downloading"]
    BY <1>1, <1>3, <2>1, <2>2
  <2>4. \A u, v \in Workers :
          pc'[u] = "filling" /\ pc'[v] = "filling" /\ u # v => seg'[u] # seg'[v]
    <3>1. \A u, v \in Workers :
            pc[u] = "filling" /\ pc[v] = "filling" /\ u # v => seg[u] # seg[v]
      BY DEF FillersOwnSegments
    <3>2. new \notin Ids /\ \A v \in Workers : pc[v] = "filling" => seg[v] \in Ids
      BY <1>3, <2>2
    <3>3. \A v \in Workers : v # w /\ pc[v] = "filling" => seg[v] # new
      BY <3>2
    <3>4. QED BY <2>1, <3>1, <3>3
  <2>5. QED BY <2>3, <2>4 DEF FillersOwnSegments
<1>7. ClaimsPartition'
  <2>1. \A i \in Ids : SegUnits(i)' = SegUnits(i)
    BY <1>1 DEF SegUnits, Units
  <2>2. SegUnits(new)' = Units(lo[w], hi[w])
    BY <1>1 DEF SegUnits, Units
  <2>3. \A v \in Workers : Units(lo[v], hi[v])' = Units(lo[v], hi[v])
    BY DEF Units, Push
  <2>4. Units(0, nextUnassigned)' = Units(0, nextUnassigned)
    BY DEF Units, Push
  <2>5. \A i, j \in Ids' : i # j => SegUnits(i)' \cap SegUnits(j)' = {}
    BY <1>3, <2>1, <2>2 DEF ClaimsPartition
  <2>6. \A u, v \in Pushing' :
          u # v => Units(lo[u], hi[u])' \cap Units(lo[v], hi[v])' = {}
    BY <1>3, <2>3 DEF ClaimsPartition, Pushing
  <2>7. \A i \in Ids', v \in Pushing' : SegUnits(i)' \cap Units(lo[v], hi[v])' = {}
    BY <1>3, <2>1, <2>2, <2>3 DEF ClaimsPartition, Pushing
  <2>8. \A o \in Units(0, nextUnassigned)' :
          (\E i \in Ids' : o \in SegUnits(i)')
            \/ (\E v \in Pushing' : o \in Units(lo[v], hi[v])')
    BY <1>3, <2>1, <2>2, <2>3, <2>4 DEF ClaimsPartition, Pushing
  <2>9. QED BY <2>5, <2>6, <2>7, <2>8 DEF ClaimsPartition
<1>8. ReadyIsFilled => ReadyIsFilled'
  <2>1. \A i \in ReadyIds : i \in Ids
    BY DEF ReadyIds
  <2>2. \A i \in ReadyIds : SegUnits(i)' = SegUnits(i)
    BY <1>1, <2>1 DEF SegUnits, Units
  <2>3. QED BY <1>4, <2>2 DEF ReadyIsFilled, Filled, Push
<1>9. CountLagsByCounting'
  BY <1>3, <1>4 DEF CountLagsByCounting, Push
<1>10. QED BY <1>2, <1>5, <1>6, <1>7, <1>8, <1>9

(* A worker writes real data, inside its own segment. *)
LEMMA WriteStep ==
  ASSUME Shape, NEW w \in Workers, NEW from \in 0 .. TotalSize,
         NEW upto \in 0 .. TotalSize, NEW d \in Data, WriteData(w, from, upto, d)
  PROVE  Shape' /\ (ReadyIsFilled => ReadyIsFilled')
<1> USE DEF Shape, WriteData, Write, Chunk, workerVars
<1>1. TypeOK'
  BY DEF TypeOK
<1>2. /\ Ids' = Ids /\ ReadyIds' = ReadyIds /\ Pushing' = Pushing
      /\ Counting' = Counting
  BY DEF TypeOK, Ids, ReadyIds, Pushing, Counting
<1>3. RangesBelowCursor'
  BY <1>2 DEF RangesBelowCursor
<1>4. FillersOwnSegments'
  BY <1>2 DEF FillersOwnSegments
<1>5. ClaimsPartition'
  BY <1>2 DEF ClaimsPartition, SegUnits, Units
<1>6. ReadyIsFilled => ReadyIsFilled'
  <2>1. \A o \in Offset : file[o] # Hole => file'[o] # Hole
    BY BufferAssumption DEF TypeOK
  <2>2. \A i \in ReadyIds : SegUnits(i) \subseteq Offset
    BY SegmentsInsideFile DEF ReadyIds
  <2>3. \A i \in ReadyIds : SegUnits(i)' = SegUnits(i)
    BY DEF SegUnits, Units
  <2>4. QED BY <1>2, <2>1, <2>2, <2>3 DEF ReadyIsFilled, Filled
<1>7. CountLagsByCounting'
  BY <1>2 DEF CountLagsByCounting
<1>8. QED BY <1>1, <1>3, <1>4, <1>5, <1>6, <1>7

(* Marking adds one Ready segment and one worker that has yet to count it. *)
LEMMA MarkStep ==
  ASSUME Shape, NEW w \in Workers, Mark(w)
  PROVE  Shape' /\ (ReadyIsFilled /\ Received(w) => ReadyIsFilled')
<1> USE DEF Shape
<1>1. /\ segments' \in Seq(Segment)
      /\ Len(segments') = Len(segments)
      /\ Len(segments) \in Nat
      /\ seg[w] \in Ids
      /\ \A i \in Ids : segments'[i].start = segments[i].start
                     /\ segments'[i].end = segments[i].end
      /\ \A i \in Ids : i # seg[w] => segments'[i] = segments[i]
      /\ segments'[seg[w]].state = "Ready"
  BY MarkChangesState
<1>2. TypeOK'
  BY <1>1 DEF TypeOK, PC, Mark
<1>3. /\ Ids' = Ids /\ Pushing' = Pushing
      /\ Counting' = Counting \cup {w} /\ w \notin Counting
  BY <1>1 DEF Ids, Pushing, Counting, TypeOK, Mark
<1>4. /\ seg[w] \notin ReadyIds
      /\ segments[seg[w]].start = lo[w] /\ segments[seg[w]].end = hi[w]
  <2>1. segments[seg[w]] = [start |-> lo[w], end |-> hi[w], state |-> "Downloading"]
    BY DEF FillersOwnSegments, Mark
  <2>2. QED BY <2>1 DEF ReadyIds
<1>5. ReadyIds' = ReadyIds \cup {seg[w]}
  BY <1>1, <1>3 DEF ReadyIds
<1>6. RangesBelowCursor'
  BY <1>1, <1>3 DEF RangesBelowCursor, Mark
<1>7. FillersOwnSegments'
  BY <1>1, <1>3 DEF FillersOwnSegments, Mark, TypeOK
<1>8. \A i \in Ids : SegUnits(i)' = SegUnits(i)
  BY <1>1 DEF SegUnits, Units
<1>9. ClaimsPartition'
  BY <1>3, <1>8 DEF ClaimsPartition, Units, Mark
<1>10. ASSUME ReadyIsFilled, Received(w) PROVE ReadyIsFilled'
  <2>1. Filled(SegUnits(seg[w]))
    BY <1>4, <1>10 DEF SegUnits, Received
  <2>2. \A i \in ReadyIds : Filled(SegUnits(i)) /\ i \in Ids
    BY <1>10 DEF ReadyIsFilled, ReadyIds
  <2>3. QED BY <1>1, <1>5, <1>8, <2>1, <2>2 DEF ReadyIsFilled, Filled, Mark
<1>11. CountLagsByCounting'
  <2>1. Cardinality(ReadyIds') = Cardinality(ReadyIds) + 1
    BY <1>4, <1>5, FiniteViews, FS_AddElement
  <2>2. Cardinality(Counting') = Cardinality(Counting) + 1
    BY <1>3, FiniteViews, FS_AddElement
  <2>3. QED
    BY <2>1, <2>2, FiniteViews DEF CountLagsByCounting, Mark, TypeOK
<1>12. QED BY <1>2, <1>6, <1>7, <1>9, <1>10, <1>11

(* Counting pays back what marking left open. *)
LEMMA CountStep ==
  ASSUME Shape, NEW w \in Workers, CountReady(w)
  PROVE  Shape' /\ (ReadyIsFilled => ReadyIsFilled')
<1> USE DEF Shape, CountReady
<1>1. TypeOK'
  BY DEF TypeOK, PC
<1>2. /\ Ids' = Ids /\ ReadyIds' = ReadyIds /\ Pushing' = Pushing
      /\ w \in Counting /\ Counting' = Counting \ {w}
  BY DEF TypeOK, Ids, ReadyIds, Pushing, Counting
<1>3. RangesBelowCursor'
  BY <1>2 DEF RangesBelowCursor
<1>4. FillersOwnSegments'
  BY <1>2 DEF FillersOwnSegments, TypeOK
<1>5. ClaimsPartition'
  BY <1>2 DEF ClaimsPartition, SegUnits, Units
<1>6. ReadyIsFilled => ReadyIsFilled'
  BY <1>2 DEF ReadyIsFilled, Filled, SegUnits, Units
<1>7. CountLagsByCounting'
  <2>1. Cardinality(Counting') = Cardinality(Counting) - 1
    BY <1>2, FiniteViews, FS_RemoveElement
  <2>2. QED BY <1>2, <2>1, FiniteViews DEF CountLagsByCounting, TypeOK
<1>8. QED BY <1>1, <1>3, <1>4, <1>5, <1>6, <1>7

LEMMA SetFailedStep ==
  ASSUME Shape, SetFailed
  PROVE  Shape' /\ (ReadyIsFilled => ReadyIsFilled')
<1> USE DEF Shape, SetFailed, workerVars
<1>1. TypeOK'
  BY DEF TypeOK
<1>2. /\ Ids' = Ids /\ ReadyIds' = ReadyIds /\ Pushing' = Pushing
      /\ Counting' = Counting
  BY DEF Ids, ReadyIds, Pushing, Counting
<1>3. RangesBelowCursor' /\ FillersOwnSegments' /\ CountLagsByCounting'
  BY <1>2 DEF RangesBelowCursor, FillersOwnSegments, CountLagsByCounting
<1>4. ClaimsPartition' /\ (ReadyIsFilled => ReadyIsFilled')
  BY <1>2 DEF ClaimsPartition, ReadyIsFilled, Filled, SegUnits, Units
<1>5. QED BY <1>1, <1>3, <1>4

-----------------------------------------------------------------------------
(* Every step of the buffer keeps its shape, and Ready segments filled. *)
LEMMA NextShape ==
  ASSUME Shape, [Next]_vars
  PROVE  Shape' /\ (ReadyIsFilled => ReadyIsFilled')
<1> DEFINE Kept == Shape' /\ (ReadyIsFilled => ReadyIsFilled')
<1>1. CASE SetFailed
  BY <1>1, SetFailedStep
<1>2. ASSUME NEW w \in Workers, WorkerStep(w) PROVE Kept
  <2>1. CASE Spawn(w)
    BY <2>1, SpawnStep
  <2>2. ASSUME NEW preferred \in Sizes, Claim(w, preferred) PROVE Kept
    BY <2>2, ClaimStep
  <2>3. CASE Exhausted(w)
    BY <2>3, ExhaustedStep
  <2>4. CASE Push(w)
    BY <2>4, PushStep
  <2>5. ASSUME NEW from \in 0 .. TotalSize, NEW upto \in 0 .. TotalSize,
               NEW d \in Data, WriteData(w, from, upto, d)
        PROVE  Kept
    BY <2>5, WriteStep
  <2>6. CASE MarkReady(w)
    BY <2>6, MarkStep DEF MarkReady
  <2>7. CASE CountReady(w)
    BY <2>7, CountStep
  <2>8. CASE Die(w)
    BY <2>8, DieStep
  <2>9. QED
    BY <1>2, <2>1, <2>2, <2>3, <2>4, <2>5, <2>6, <2>7, <2>8 DEF WorkerStep
<1>3. CASE UNCHANGED vars
  <2> USE <1>3 DEF vars, Shape
  <2>1. TypeOK'
    BY DEF TypeOK
  <2>2. Ids' = Ids /\ ReadyIds' = ReadyIds /\ Pushing' = Pushing /\ Counting' = Counting
    BY DEF Ids, ReadyIds, Pushing, Counting
  <2>3. RangesBelowCursor' /\ FillersOwnSegments' /\ CountLagsByCounting'
    BY <2>2 DEF RangesBelowCursor, FillersOwnSegments, CountLagsByCounting
  <2>4. ClaimsPartition' /\ (ReadyIsFilled => ReadyIsFilled')
    BY <2>2 DEF ClaimsPartition, ReadyIsFilled, Filled, SegUnits, Units
  <2>5. QED BY <2>1, <2>3, <2>4
<1>4. QED BY <1>1, <1>2, <1>3 DEF Next

LEMMA NextIInv == IInv /\ [Next]_vars => IInv'
BY NextShape DEF IInv

(* The strengthened invariant holds in every reachable state, for any number *)
(* of workers and any file (src/buffer.rs as a whole).                       *)
THEOREM InductiveInvariant == Spec => []IInv
<1>1. Init => IInv
  BY InitIInv
<1>2. IInv /\ [Next]_vars => IInv'
  BY NextIInv
<1>3. QED BY <1>1, <1>2, PTL DEF Spec

(* Every variable of the buffer keeps its type: in particular the index that *)
(* mark_ready is given always names a segment of the vector.                 *)
THEOREM TypeCorrect == Spec => []TypeOK
<1>1. IInv => TypeOK
  BY DEF IInv, Shape
<1>2. QED BY <1>1, InductiveInvariant, PTL

(* The claims of concurrent workers partition the file up to the cursor      *)
(* (claim_range): nothing is fetched twice, nothing is left out.             *)
THEOREM ClaimsAlwaysPartition == Spec => []ClaimsPartition
<1>1. IInv => ClaimsPartition
  BY DEF IInv, Shape
<1>2. QED BY <1>1, InductiveInvariant, PTL

(* A stream that reads a Ready segment never reads a hole of the sparse file. *)
THEOREM ReadyAlwaysFilled == Spec => []ReadyIsFilled
<1>1. IInv => ReadyIsFilled
  BY DEF IInv, Shape
<1>2. QED BY <1>1, InductiveInvariant, PTL

(* all_completed with no claim half way means that ready_count has reached   *)
(* the number of segments, so that every segment is Ready, the segments      *)
(* cover the file, and no hole is left: download_multithreaded may return Ok *)
(* and the file may enter the cache.                                         *)
LEMMA CompletedIsComplete == IInv => CompletionSound
<1> SUFFICES ASSUME IInv, AllCompleted, Pushing = {}
             PROVE  Filled(Offset)
  BY DEF CompletionSound
<1> USE DEF IInv, Shape
<1>1. ReadyIds = Ids
  <2>1. Cardinality(ReadyIds) >= Cardinality(Ids)
    BY FiniteViews DEF CountLagsByCounting, AllCompleted, TypeOK
  <2>2. ReadyIds \in SUBSET Ids
    BY DEF ReadyIds
  <2>3. Cardinality(ReadyIds) <= Cardinality(Ids)
    BY <2>2, FiniteViews, FS_Subset
  <2>4. Cardinality(ReadyIds) = Cardinality(Ids)
    BY <2>1, <2>3, FiniteViews, FS_CardinalityType
  <2>5. QED BY <2>2, <2>4, FiniteViews, FS_Subset
<1>2. nextUnassigned = TotalSize
  BY DEF AllCompleted, RangesBelowCursor
<1>3. \A o \in Offset : \E i \in Ids : o \in SegUnits(i)
  BY <1>2 DEF ClaimsPartition, Offset, Units
<1>4. QED BY <1>1, <1>3 DEF ReadyIsFilled, Filled

THEOREM CompletionAlwaysSound == Spec => []CompletionSound
<1>1. QED BY CompletedIsComplete, InductiveInvariant, PTL

(* No step changes a byte of a Ready segment: a writer is inside its own     *)
(* segment, which is not Ready, and segments do not overlap.                 *)
LEMMA StepKeepsReady ==
  IInv /\ [Next]_vars => [\A i \in ReadyIds : \A o \in SegUnits(i) : file'[o] = file[o]]_vars
<1> SUFFICES ASSUME IInv, Next,
                    NEW i \in ReadyIds, NEW o \in SegUnits(i)
             PROVE  file'[o] = file[o]
  BY DEF vars
<1> USE DEF IInv, Shape
<1>1. ASSUME NEW w \in Workers, NEW from \in 0 .. TotalSize,
             NEW upto \in 0 .. TotalSize, NEW d \in Data, WriteData(w, from, upto, d)
      PROVE  file'[o] = file[o]
  <2>1. /\ seg[w] \in Ids /\ seg[w] # i /\ i \in Ids
        /\ SegUnits(seg[w]) = Units(lo[w], hi[w])
    <3>1. segments[seg[w]] = [start |-> lo[w], end |-> hi[w], state |-> "Downloading"]
      BY <1>1 DEF FillersOwnSegments, WriteData, Write
    <3>2. QED BY <1>1, <3>1 DEF FillersOwnSegments, WriteData, Write, ReadyIds, SegUnits
  <2>2. o \notin Units(lo[w], hi[w])
    BY <2>1 DEF ClaimsPartition
  <2>3. o \notin Units(from, upto)
    <3>1. o \in Int /\ lo[w] \in Int /\ hi[w] \in Int
      <4>1. segments[i] \in Segment
        BY <2>1, ElementOfSeq DEF TypeOK, Ids
      <4>2. QED BY <4>1 DEF SegUnits, Units, Segment, TypeOK
    <3>2. QED BY <1>1, <2>2, <3>1 DEF Units, WriteData, Write, Chunk
  <2>4. o \in Offset
    <3>1. segments[i] \in Segment
      BY <2>1, ElementOfSeq DEF TypeOK, Ids
    <3>2. /\ segments[i].start \in Nat /\ segments[i].end \in Nat
          /\ segments[i].end <= nextUnassigned /\ nextUnassigned <= TotalSize
          /\ nextUnassigned \in Nat /\ TotalSize \in Nat
      BY <2>1, <3>1, BufferAssumption DEF RangesBelowCursor, Segment, TypeOK
    <3>3. o \in segments[i].start .. segments[i].end - 1
      BY DEF SegUnits, Units
    <3>4. QED BY <3>2, <3>3 DEF Offset
  <2>5. QED BY <1>1, <2>3, <2>4 DEF WriteData, Write
<1>2. CASE file' = file
  BY <1>2
<1>3. QED
  BY <1>1, <1>2 DEF Next, WorkerStep, SetFailed, Spawn, Enlist, Claim, Exhausted, Push,
                    MarkReady, Mark, CountReady, Die, bufferVars

(* Readers of Ready segments need no lock: what they read no longer changes. *)
THEOREM ReadyNeverChanges == Spec => ReadyIsStable
<1>1. QED BY InductiveInvariant, StepKeepsReady, PTL DEF Spec, ReadyIsStable

-----------------------------------------------------------------------------
(* The buffer implements RangedDownload: a claim is a Take of the range it   *)
(* moves the cursor over, a write is a Fetch, marking a segment is a Seal of *)
(* its units, and every other step stutters.                                 *)

LEMMA InitRefines == Init => Ranged!Init
<1> SUFFICES ASSUME Init PROVE Ranged!Init
  OBVIOUS
<1>1. ReadyIds = {}
  BY DEF Init, ReadyIds, Ids
<1>2. \A o \in Offset : ~(o < nextUnassigned)
  BY DEF Init, Offset
<1>3. UnitPhase = [o \in Offset |-> "free"]
  BY <1>1, <1>2 DEF UnitPhase
<1>4. QED BY <1>3 DEF Ranged!Init, Ranged!Offset, Offset, Init

(* A step that moves neither cursor nor Ready segments leaves phases alone. *)
LEMMA PhaseUnchanged ==
  ASSUME nextUnassigned' = nextUnassigned, ReadyIds' = ReadyIds,
         \A i \in ReadyIds : SegUnits(i)' = SegUnits(i)
  PROVE  UnitPhase' = UnitPhase
BY DEF UnitPhase, Offset

LEMMA ClaimRefines ==
  ASSUME IInv, NEW w \in Workers, NEW preferred \in Sizes, Claim(w, preferred)
  PROVE  Ranged!Next
<1> USE DEF IInv, Shape
<1>1. /\ nextUnassigned \in Nat /\ nextUnassigned' \in Nat /\ TotalSize \in Nat
      /\ nextUnassigned < nextUnassigned' /\ nextUnassigned' <= TotalSize
  BY BufferAssumption DEF Claim, RangeEnd, TypeOK
<1>0. PICK next : next = nextUnassigned'
  OBVIOUS
<1> DEFINE last == next - 1
<1>11. next \in Nat /\ nextUnassigned < next /\ next <= TotalSize /\ TotalSize \in Nat
  BY <1>0, <1>1
<1>2. ReadyIds' = ReadyIds /\ \A i \in ReadyIds : SegUnits(i)' = SegUnits(i)
  BY DEF Claim, ReadyIds, Ids, SegUnits, Units
<1>3. last \in Offset /\ nextUnassigned <= last
  BY <1>1, <1>11 DEF Offset
<1>4. \A o \in Offset : o < nextUnassigned' <=> o <= last
  <2>1. \A o \in Offset : o < next <=> o <= last
    BY <1>11 DEF Offset
  <2>2. QED BY <1>0, <2>1, Zenon
<1>5. \A i \in ReadyIds : \A o \in SegUnits(i) : o \in Offset /\ o < nextUnassigned
  BY SegmentsInsideFile DEF ReadyIds
<1>6. UnitPhase[last] = "free"
  <2>1. ~(last < nextUnassigned)
    BY <1>1, <1>3 DEF Offset
  <2>2. QED BY <1>3, <1>5, <2>1 DEF UnitPhase
<1>7. UnitPhase' = [o \in Offset |-> IF UnitPhase[o] = "free" /\ o <= last
                                     THEN "fetching" ELSE UnitPhase[o]]
  <2>1. \A o \in Offset :
          (IF \E i \in ReadyIds' : o \in SegUnits(i)' THEN "sealed"
           ELSE IF o < nextUnassigned' THEN "fetching" ELSE "free")
            = IF UnitPhase[o] = "free" /\ o <= last THEN "fetching" ELSE UnitPhase[o]
    <3> TAKE o \in Offset
    <3>1. UnitPhase[o] = IF \E i \in ReadyIds : o \in SegUnits(i) THEN "sealed"
                         ELSE IF o < nextUnassigned THEN "fetching" ELSE "free"
      BY DEF UnitPhase
    <3>2. o < nextUnassigned => o < nextUnassigned'
      BY <1>1 DEF Offset
    <3>3. QED BY <1>2, <1>4, <3>1, <3>2
  <2>2. QED BY <2>1 DEF UnitPhase, Offset
<1>8. file' = file
  BY DEF Claim
<1>9. QED
  BY <1>3, <1>6, <1>7, <1>8
     DEF Ranged!Next, Ranged!Take, Ranged!Offset, Offset

(* Writing fills units of the worker's own segment, which are being fetched. *)
LEMMA WriteRefines ==
  ASSUME IInv, NEW w \in Workers, NEW from \in 0 .. TotalSize,
         NEW upto \in 0 .. TotalSize, NEW d \in Data, WriteData(w, from, upto, d)
  PROVE  Ranged!Next
<1> USE DEF IInv, Shape
<1>1. ReadyIds' = ReadyIds /\ \A i \in ReadyIds : SegUnits(i)' = SegUnits(i)
  BY DEF WriteData, Write, ReadyIds, Ids, SegUnits, Units
<1>2. UnitPhase' = UnitPhase
  BY <1>1, PhaseUnchanged DEF WriteData, Write
<1>3. /\ seg[w] \in Ids /\ seg[w] \notin ReadyIds
      /\ SegUnits(seg[w]) = Units(lo[w], hi[w])
  <2>1. segments[seg[w]] = [start |-> lo[w], end |-> hi[w], state |-> "Downloading"]
    BY DEF FillersOwnSegments, WriteData, Write
  <2>2. QED BY <2>1 DEF FillersOwnSegments, WriteData, Write, ReadyIds, SegUnits
<1>4. Units(from, upto) \subseteq SegUnits(seg[w])
  BY <1>3 DEF Units, WriteData, Write, Chunk, TypeOK
<1>5. \A o \in Units(from, upto) : o \in Offset /\ o < nextUnassigned
  BY <1>3, <1>4, SegmentsInsideFile
<1>6. \A o \in Units(from, upto) : UnitPhase[o] = "fetching"
  <2> TAKE o \in Units(from, upto)
  <2>1. \A i \in ReadyIds : o \notin SegUnits(i)
    BY <1>3, <1>4 DEF ClaimsPartition, ReadyIds
  <2>2. QED BY <1>5, <2>1 DEF UnitPhase
<1>7. Units(from, upto) \in SUBSET Offset
  BY <1>5
<1>8. file' = [o \in Offset |-> IF o \in Units(from, upto) THEN d ELSE file[o]]
  BY DEF WriteData, Write
<1>9. Ranged!Fetch(Units(from, upto), d)
  BY <1>2, <1>6, <1>8 DEF Ranged!Fetch, Ranged!Offset, Offset
<1>10. QED BY <1>7, <1>9 DEF Ranged!Next, Ranged!Offset, Offset

(* Marking a segment seals its units. *)
LEMMA MarkRefines ==
  ASSUME IInv, NEW w \in Workers, MarkReady(w)
  PROVE  Ranged!Next
<1> USE DEF IInv, Shape
<1>1. /\ seg[w] \in Ids /\ seg[w] \notin ReadyIds
      /\ SegUnits(seg[w]) = Units(lo[w], hi[w])
  <2>1. segments[seg[w]] = [start |-> lo[w], end |-> hi[w], state |-> "Downloading"]
    BY DEF FillersOwnSegments, MarkReady, Mark
  <2>2. QED BY <2>1 DEF FillersOwnSegments, MarkReady, Mark, ReadyIds, SegUnits
<1>2. PICK units : units = SegUnits(seg[w])
  OBVIOUS
<1>3. \A o \in units : /\ o \in Offset /\ o < nextUnassigned /\ file[o] # Hole
                       /\ \A i \in ReadyIds : o \notin SegUnits(i)
  <2>1. \A o \in units : o \in Offset /\ o < nextUnassigned
    BY <1>1, <1>2, SegmentsInsideFile
  <2>2. \A o \in units : file[o] # Hole
    BY <1>1, <1>2 DEF MarkReady, Received, Filled
  <2>3. \A o \in units : \A i \in ReadyIds : o \notin SegUnits(i)
    BY <1>1, <1>2 DEF ClaimsPartition, ReadyIds
  <2>4. QED BY <2>1, <2>2, <2>3
<1>4. /\ ReadyIds' = ReadyIds \cup {seg[w]}
      /\ \A i \in Ids : SegUnits(i)' = SegUnits(i)
  <2>1. /\ Len(segments') = Len(segments)
        /\ \A i \in Ids : /\ segments'[i].start = segments[i].start
                          /\ segments'[i].end = segments[i].end
        /\ \A i \in Ids : i # seg[w] => segments'[i] = segments[i]
        /\ segments'[seg[w]].state = "Ready"
    BY MarkChangesState DEF MarkReady
  <2>2. Ids' = Ids
    BY <2>1 DEF Ids
  <2>3. ReadyIds' = ReadyIds \cup {seg[w]}
    BY <1>1, <2>1, <2>2 DEF ReadyIds
  <2>4. QED BY <2>1, <2>3 DEF SegUnits, Units
<1>5. \A o \in Offset : (\E i \in ReadyIds' : o \in SegUnits(i)')
                        <=> (\E i \in ReadyIds : o \in SegUnits(i)) \/ o \in units
  BY <1>1, <1>2, <1>4 DEF ReadyIds
<1>6. UnitPhase' = [o \in Offset |-> IF o \in units THEN "sealed" ELSE UnitPhase[o]]
  <2>1. nextUnassigned' = nextUnassigned
    BY DEF MarkReady, Mark
  <2>2. \A o \in Offset :
          (IF \E i \in ReadyIds' : o \in SegUnits(i)' THEN "sealed"
           ELSE IF o < nextUnassigned' THEN "fetching" ELSE "free")
            = IF o \in units THEN "sealed" ELSE UnitPhase[o]
    BY <1>5, <2>1 DEF UnitPhase
  <2>3. QED BY <2>2 DEF UnitPhase, Offset
<1>7. \A o \in units : UnitPhase[o] = "fetching"
  BY <1>3 DEF UnitPhase
<1>8. units \in SUBSET Offset
  BY <1>3
<1>9. Ranged!Seal(units)
  BY <1>3, <1>6, <1>7 DEF Ranged!Seal, Ranged!Offset, Offset, MarkReady, Mark
<1>10. QED BY <1>8, <1>9 DEF Ranged!Next, Ranged!Offset, Offset

(* A push adds a segment that is not Ready. *)
LEMMA PushStutters ==
  ASSUME IInv, NEW w \in Workers, Push(w)
  PROVE  UnitPhase' = UnitPhase
<1> USE DEF IInv, Shape
<1>1. PICK new : new = Len(segments) + 1
  OBVIOUS
<1>2. /\ Len(segments') = new /\ Len(segments) \in Nat
      /\ \A i \in Ids : segments'[i] = segments[i]
      /\ segments'[new].state = "Downloading"
  <2>1. segments'[new] = [start |-> lo[w], end |-> hi[w], state |-> "Downloading"]
    BY <1>1, PushAppends, Zenon
  <2>2. QED BY <1>1, <2>1, PushAppends
<1>3. Ids' = Ids \cup {new} /\ new \notin Ids
  BY <1>1, <1>2 DEF Ids
<1>4. ReadyIds' = ReadyIds
  BY <1>2, <1>3 DEF ReadyIds
<1>5. \A i \in ReadyIds : SegUnits(i)' = SegUnits(i)
  BY <1>2 DEF ReadyIds, SegUnits, Units
<1>6. QED BY <1>4, <1>5, PhaseUnchanged DEF Push

LEMMA NextRefines == IInv /\ [Next]_vars => [Ranged!Next]_(Ranged!vars)
<1> SUFFICES ASSUME IInv, [Next]_vars PROVE [Ranged!Next]_(Ranged!vars)
  OBVIOUS
<1>1. ASSUME nextUnassigned' = nextUnassigned, segments' = segments, file' = file
      PROVE  UNCHANGED Ranged!vars
  <2>1. ReadyIds' = ReadyIds /\ \A i \in ReadyIds : SegUnits(i)' = SegUnits(i)
    BY <1>1 DEF ReadyIds, Ids, SegUnits, Units
  <2>2. QED BY <1>1, <2>1, PhaseUnchanged DEF Ranged!vars
<1>2. CASE SetFailed \/ UNCHANGED vars
  BY <1>1, <1>2 DEF SetFailed, vars
<1>3. ASSUME NEW w \in Workers, WorkerStep(w) PROVE [Ranged!Next]_(Ranged!vars)
  <2>1. CASE Spawn(w) \/ Exhausted(w) \/ CountReady(w) \/ Die(w)
    BY <1>1, <2>1 DEF Spawn, Enlist, Exhausted, CountReady, Die, bufferVars
  <2>2. ASSUME NEW preferred \in Sizes, Claim(w, preferred) PROVE Ranged!Next
    BY <2>2, ClaimRefines
  <2>3. CASE Push(w)
    BY <2>3, PushStutters DEF Push, Ranged!vars
  <2>4. ASSUME NEW from \in 0 .. TotalSize, NEW upto \in 0 .. TotalSize,
               NEW d \in Data, WriteData(w, from, upto, d)
        PROVE  Ranged!Next
    BY <2>4, WriteRefines
  <2>5. CASE MarkReady(w)
    BY <2>5, MarkRefines
  <2>6. QED BY <1>3, <2>1, <2>2, <2>3, <2>4, <2>5 DEF WorkerStep
<1>4. QED BY <1>2, <1>3 DEF Next

(* The buffer of src/buffer.rs, with its lock-free claims and its two-step   *)
(* marks, implements the download by ranges for every number of workers.     *)
THEOREM Refinement == Spec => ImplementsRangedDownload
<1>1. QED
  BY InitRefines, NextRefines, InductiveInvariant, PTL
     DEF Spec, ImplementsRangedDownload, Ranged!Spec
=============================================================================
