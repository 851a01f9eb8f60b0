------------------------------ MODULE FtpProofs ------------------------------
(***************************************************************************)
(* Proofs about Ftp, for every number of workers, connections and permits, *)
(* every file size and every server: Ok means that all ranges are marked,  *)
(* what is kept is the file, nothing is left behind, and with a server     *)
(* that sends whole bodies every step is one of the segment buffer.        *)
(***************************************************************************)
EXTENDS Ftp, SegmentsBufferProofs

(* The driver has awaited the handles up to joined, all of them of tasks    *)
(* that ended; the token is cancelled by an error and by nothing else, and  *)
(* no task gives up for its sake before.                                    *)
Joins ==
  /\ connections <= Cardinality(Workers)
  /\ joined <= connections
  /\ errors = cancelled
  /\ \A w \in Workers :
       /\ w <= joined => task[w] = "ended" /\ (result[w] = "error" => errors)
       /\ result[w] = "cancelled" => cancelled

(* It returns after the last of them. *)
Outcomes ==
  /\ outcome # "none" => joined = connections
  /\ outcome = "ok" => ~errors
  /\ kept => outcome = "ok"

(* Where the task, the control connection and the claim of a worker can be  *)
(* at once.  A worker that ended as it should saw the end of the file.      *)
Placed(w) ==
  /\ w > connections => task[w] = "none"
  /\ task[w] = "none" => pc[w] = "absent" /\ io[w] = "none"
  /\ task[w] = "queued" => pc[w] = "claiming" /\ io[w] = "login"
  /\ task[w] = "running" =>
       \/ pc[w] = "claiming" /\ io[w] \in {"login", "idle", "spinning"}
       \/ pc[w] = "done" /\ io[w] = "spinning"
       \/ pc[w] \in {"pushing", "counting"} /\ io[w] = "idle"
       \/ pc[w] = "filling" /\ io[w] \in {"pasv", "rest", "retr", "reading", "spinning"}
  /\ task[w] = "ended" =>
       /\ io[w] = "none"
       /\ \/ pc[w] = "done" /\ result[w] = "ok" /\ allAssigned
          \/ pc[w] = "dead" /\ result[w] \in {"error", "cancelled"}

(* A segment that is not Ready is that of a worker which is at it, or was   *)
(* when it died.                                                            *)
Owned ==
  \A i \in Ids :
    \/ segments[i].state = "Ready"
    \/ \E w \in Workers : seg[w] = i /\ pc[w] \in {"filling", "dead"}

(* A range that was claimed has a unit to fetch. *)
NotEmpty(w) == pc[w] \in {"pushing", "filling"} => lo[w] < hi[w]

(* How far a transfer is: what lies behind pos is written, and REST made    *)
(* the server begin where the range begins, if it knows REST.               *)
Transfer(w) ==
  /\ io[w] \in {"retr", "reading"} =>
       /\ sentFrom[w] \in {0, lo[w]}
       /\ "ignores REST" \notin faults => sentFrom[w] = lo[w]
  /\ io[w] = "reading" =>
       /\ lo[w] <= pos[w] /\ pos[w] <= hi[w]
       /\ Filled(Units(lo[w], pos[w]))

(* What is in the file is what the server has at that place. *)
Contents == "ignores REST" \notin faults => \A o \in Offset : file[o] \in {Hole, o}

WholeUnlessCut == "cuts" \notin faults => ReadyIsFilled

FtpInv ==
  /\ FtpTypeOK
  /\ Shape
  /\ Joins
  /\ Outcomes
  /\ \A w \in Workers : Placed(w) /\ NotEmpty(w) /\ Transfer(w)
  /\ Owned
  /\ Contents
  /\ WholeUnlessCut

-----------------------------------------------------------------------------
(* Workers are numbered from 1. *)
LEMMA WorkersNumbered ==
  /\ Cardinality(Workers) \in Nat
  /\ Workers = 1 .. Cardinality(Workers)
  /\ \A w \in Workers : w \in Nat /\ w <= Cardinality(Workers)
<1>1. Cardinality(Workers) \in Nat
  BY BufferAssumption, FS_CardinalityType
<1>2. \A n \in Nat : \A w \in 1 .. n : w \in Nat /\ w <= n
  OBVIOUS
<1>3. Workers = 1 .. Cardinality(Workers)
  BY FtpAssumption, Zenon
<1> QED
  BY <1>1, <1>2, <1>3, Zenon

(* The steps by who takes them. *)

WorkerMove(w) == SpawnNext(w) \/ Acquire(w) \/ WorkerAct(w) \/ Spin(w) \/ SpinAtQuit(w) \/ ReadAgain(w)

RequestMove ==
  \/ RefuseUrl \/ AskSize \/ SizeFails \/ SizeSpins \/ Attach \/ Persist
  \/ Rest \/ SizeReadAgain \/ UNCHANGED ftpVars

LEMMA Moves ==
  ASSUME [FtpNext]_ftpVars
  PROVE  RequestMove \/ Join \/ ReturnOk \/ ReturnFailed \/ \E w \in Workers : WorkerMove(w)
BY DEF FtpNext, Driver, RequestMove, WorkerMove

(* Neither the request nor the driver touches a worker or its claim. *)
Still == UNCHANGED <<nextUnassigned, segments, readyCount, allAssigned, file, pc, lo, hi, seg,
                     task, result, io, pos, sentFrom>>

LEMMA RequestsTouchNoWorker ==
  ASSUME RequestMove \/ Join \/ ReturnOk \/ ReturnFailed
  PROVE  Still /\ UNCHANGED <<faults, address, connections>>
<1>1. CASE RequestMove
  BY <1>1 DEF RequestMove, RefuseUrl, AskSize, SizeFails, SizeSpins, Attach, Turn, Persist, Rest,
              SizeReadAgain, ftpVars, vars, requestVars, connectionVars, Still
<1>2. CASE Join \/ ReturnOk
  BY <1>2 DEF Join, ReturnOk, vars, requestVars, connectionVars, Still
<1>3. CASE ReturnFailed
  BY <1>3 DEF ReturnFailed, SetFailed, workerVars, requestVars, connectionVars, Still
<1> QED
  BY <1>1, <1>2, <1>3

(* A worker leaves the others, the request and the driver alone. *)
Others(w) ==
  \A v \in Workers \ {w} :
    /\ pc'[v] = pc[v] /\ lo'[v] = lo[v] /\ hi'[v] = hi[v] /\ seg'[v] = seg[v]
    /\ task'[v] = task[v] /\ result'[v] = result[v] /\ io'[v] = io[v]
    /\ pos'[v] = pos[v] /\ sentFrom'[v] = sentFrom[v]

LEMMA WorkersActAlone ==
  ASSUME FtpTypeOK, NEW w \in Workers, WorkerMove(w)
  PROVE  Others(w) /\ UNCHANGED <<requestVars, joinVars>>
<1> USE DEF FtpTypeOK, TypeOK, Set, Others, bufferVars, workerVars, connectionVars, WorkerIs, Return
<1>1. CASE SpawnNext(w) \/ Acquire(w) \/ Spin(w) \/ ReadAgain(w)
  BY <1>1 DEF SpawnNext, Spawn, Enlist, Acquire, Spin, ReadAgain, vars
<1>2. CASE LogIn(w) \/ PasvAnswered(w) \/ RestAnswered(w) \/ RetrAnswered(w)
  BY <1>2 DEF LogIn, PasvAnswered, RestAnswered, RetrAnswered, vars
<1>3. CASE SeeCancelled(w) \/ Fail(w)
  BY <1>3 DEF SeeCancelled, Fail, Die
<1>4. CASE ClaimNext(w)
  BY <1>4 DEF ClaimNext, Claim
<1>5. CASE Finish(w) \/ SpinAtQuit(w)
  BY <1>5 DEF Finish, SpinAtQuit, Exhausted
<1>6. CASE SendPasv(w)
  BY <1>6 DEF SendPasv, Push
<1>7. CASE Read(w)
  BY <1>7 DEF Read, WriteData, Write
<1>8. CASE MarkRange(w) \/ CountRange(w)
  BY <1>8 DEF MarkRange, Mark, CountRange, CountReady
<1> QED
  BY <1>1, <1>2, <1>3, <1>4, <1>5, <1>6, <1>7, <1>8 DEF WorkerMove, WorkerAct

-----------------------------------------------------------------------------
(* What the steps do to the buffer.                                          *)

(* The range of a worker that fills it lies in the file. *)
LEMMA RangeInFile ==
  ASSUME Shape, NEW w \in Workers, pc[w] = "filling"
  PROVE  /\ lo[w] \in Nat /\ hi[w] \in Nat /\ TotalSize \in Nat /\ hi[w] <= TotalSize
         /\ seg[w] \in Ids /\ segments[seg[w]].start = lo[w] /\ segments[seg[w]].end = hi[w]
<1>1. /\ seg[w] \in Ids
      /\ segments[seg[w]] = [start |-> lo[w], end |-> hi[w], state |-> "Downloading"]
  BY DEF Shape, FillersOwnSegments
<1>2. segments[seg[w]].start = lo[w] /\ segments[seg[w]].end = hi[w]
  BY <1>1
<1>3. /\ segments[seg[w]].end <= nextUnassigned /\ nextUnassigned <= TotalSize
      /\ nextUnassigned \in Nat /\ TotalSize \in Nat /\ lo[w] \in Nat /\ hi[w] \in Nat
  BY <1>1, BufferAssumption DEF Shape, TypeOK, RangesBelowCursor
<1> QED
  BY <1>1, <1>2, <1>3

(* A unit of a data connection is one of the file, which goes to its place. *)
LEMMA UnitsRead ==
  ASSUME FtpInv, NEW w \in Workers, Read(w)
  PROVE  LET unit == sentFrom[w] + pos[w] - lo[w] IN
         /\ pos[w] \in Nat /\ pos[w] + 1 \in Nat
         /\ pos[w] \in 0 .. TotalSize /\ pos[w] + 1 \in 0 .. TotalSize
         /\ unit \in Data
         /\ "ignores REST" \notin faults => unit = pos[w]
         /\ WriteData(w, pos[w], pos[w] + 1, unit)
<1>1. /\ io[w] = "reading" /\ pos[w] < hi[w] /\ pc[w] = "filling"
      /\ WriteData(w, pos[w], pos[w] + 1, sentFrom[w] + pos[w] - lo[w])
  BY DEF Read, WorkerIs, WriteData, Write
<1>2. /\ lo[w] \in Nat /\ hi[w] \in Nat /\ TotalSize \in Nat /\ hi[w] <= TotalSize
  BY <1>1, RangeInFile DEF FtpInv
<1>3. pos[w] \in Nat
  BY DEF FtpInv, FtpTypeOK
<1>4. Transfer(w)
  BY DEF FtpInv
<1>5. /\ sentFrom[w] \in {0, lo[w]} /\ lo[w] <= pos[w]
      /\ "ignores REST" \notin faults => sentFrom[w] = lo[w]
  BY <1>1, <1>4 DEF Transfer
<1>6. \A first, last, size, at \in Nat :
        first <= at /\ at < last /\ last <= size
          => /\ 0 + at - first \in 0 .. size - 1 /\ first + at - first \in 0 .. size - 1
             /\ at \in 0 .. size /\ at + 1 \in 0 .. size /\ first + at - first = at
  OBVIOUS
<1>7. /\ 0 + pos[w] - lo[w] \in Offset /\ lo[w] + pos[w] - lo[w] \in Offset
      /\ pos[w] \in 0 .. TotalSize /\ pos[w] + 1 \in 0 .. TotalSize
      /\ lo[w] + pos[w] - lo[w] = pos[w]
  <2>1. lo[w] <= pos[w] /\ pos[w] < hi[w] /\ hi[w] <= TotalSize
    BY <1>1, <1>2, <1>5, Zenon
  <2>2. lo[w] \in Nat /\ hi[w] \in Nat /\ TotalSize \in Nat
    BY <1>2
  <2> QED
    BY <1>3, <1>6, <2>1, <2>2, Zenon DEF Offset
<1>8. sentFrom[w] + pos[w] - lo[w] \in Data
  <2>1. sentFrom[w] = 0 \/ sentFrom[w] = lo[w]
    BY <1>5
  <2>2. Data = Offset
    BY FtpAssumption
  <2>3. CASE sentFrom[w] = 0
    BY <1>7, <2>2, <2>3, Zenon
  <2>4. CASE sentFrom[w] = lo[w]
    BY <1>7, <2>2, <2>4, Zenon
  <2> QED
    BY <2>1, <2>3, <2>4, Zenon
<1>9. "ignores REST" \notin faults => sentFrom[w] + pos[w] - lo[w] = pos[w]
  BY <1>5, <1>7, Zenon
<1>10. pos[w] + 1 \in Nat
  BY <1>3
<1>11. WriteData(w, pos[w], pos[w] + 1, sentFrom[w] + pos[w] - lo[w])
  BY <1>1, Zenon
<1> QED
  BY <1>3, <1>7, <1>8, <1>9, <1>10, <1>11, Zenon

(* A range that was read to its end is whole. *)
LEMMA ReadAllIsReceived ==
  ASSUME FtpInv, NEW w \in Workers, MarkRange(w), ReadAll(w)
  PROVE  Received(w)
BY DEF FtpInv, MarkRange, WorkerIs, ReadAll, Transfer, Received

(* Every step is one of the buffer, but for a range marked before its end. *)
LEMMA StepUsesBuffer ==
  ASSUME FtpInv, [FtpNext]_ftpVars
  PROVE  \/ [Next]_vars
         \/ "cuts" \in faults /\ \E w \in Workers : Mark(w) /\ MarkRange(w)
<1>1. CASE RequestMove \/ Join \/ ReturnOk
  <2>1. Still /\ failed' = failed
    BY <1>1, RequestsTouchNoWorker
       DEF RequestMove, RefuseUrl, AskSize, SizeFails, SizeSpins, Attach, Turn, Persist, Rest,
           SizeReadAgain, Join, ReturnOk, ftpVars, vars
  <2> QED
    BY <2>1 DEF Still, vars
<1>2. CASE ReturnFailed
  BY <1>2 DEF ReturnFailed, Next
<1>3. ASSUME NEW w \in Workers, WorkerMove(w)
      PROVE  \/ [Next]_vars
             \/ "cuts" \in faults /\ Mark(w) /\ MarkRange(w)
  <2>1. CASE \/ SpawnNext(w) \/ SeeCancelled(w) \/ Fail(w) \/ Finish(w) \/ SpinAtQuit(w)
             \/ SendPasv(w) \/ CountRange(w)
    BY <2>1 DEF SpawnNext, SeeCancelled, Fail, Finish, SpinAtQuit, SendPasv, CountRange, Next, WorkerStep
  <2>2. CASE ClaimNext(w)
    BY <2>2 DEF ClaimNext, Next, WorkerStep
  <2>3. CASE Read(w)
    BY <2>3, UnitsRead DEF Next, WorkerStep
  <2>4. CASE MarkRange(w)
    <3>1. Mark(w) /\ (ReadAll(w) \/ "cuts" \in faults)
      BY <2>4 DEF MarkRange
    <3>2. ReadAll(w) => MarkReady(w)
      BY <2>4, <3>1, ReadAllIsReceived DEF MarkReady
    <3> QED
      BY <2>4, <3>1, <3>2 DEF Next, WorkerStep
  <2>5. CASE Acquire(w) \/ Spin(w) \/ ReadAgain(w) \/ LogIn(w) \/ PasvAnswered(w) \/ RestAnswered(w)
             \/ RetrAnswered(w)
    BY <2>5 DEF Acquire, Spin, ReadAgain, LogIn, PasvAnswered, RestAnswered, RetrAnswered
  <2> QED
    BY <1>3, <2>1, <2>2, <2>3, <2>4, <2>5 DEF WorkerMove, WorkerAct
<1> QED
  BY <1>1, <1>2, <1>3, Moves

LEMMA BufferStays ==
  ASSUME FtpInv, [FtpNext]_ftpVars
  PROVE  Shape' /\ WholeUnlessCut'
<1>1. faults' = faults
  BY Moves, RequestsTouchNoWorker, WorkersActAlone DEF FtpInv, requestVars
<1>2. CASE [Next]_vars
  BY <1>1, <1>2, NextShape DEF FtpInv, WholeUnlessCut
<1>3. ASSUME "cuts" \in faults, NEW w \in Workers, Mark(w)
      PROVE  Shape' /\ WholeUnlessCut'
  BY <1>1, <1>3, MarkStep DEF FtpInv, WholeUnlessCut
<1> QED
  BY <1>2, <1>3, StepUsesBuffer

-----------------------------------------------------------------------------
(* The parts of the invariant, step by step.                                 *)

LEMMA TypesStay ==
  ASSUME FtpInv, [FtpNext]_ftpVars, TypeOK'
  PROVE  FtpTypeOK'
<1> USE DEF FtpInv, FtpTypeOK
<1>1. CASE RequestMove
  <2>1. Still /\ UNCHANGED <<faults, address, connections>>
    BY <1>1, RequestsTouchNoWorker
  <2>2. /\ UNCHANGED joinVars
        /\ handler' \in {"asking", "sizing", "spinning", "refused", "serving"}
        /\ entry' \in {"leading", "buffered", "gone"}
        /\ kept' \in BOOLEAN
    BY <1>1 DEF RequestMove, RefuseUrl, AskSize, SizeFails, SizeSpins, Attach, Turn, Persist, Rest,
                SizeReadAgain, ftpVars, requestVars
  <2> QED
    BY <2>1, <2>2 DEF Still, joinVars
<1>2. CASE Join
  <2>1. errors' \in BOOLEAN /\ cancelled' \in BOOLEAN /\ joined' \in Nat
    BY <1>2 DEF Join
  <2> QED
    BY <1>2, <2>1 DEF Join, requestVars, connectionVars
<1>3. CASE ReturnOk \/ ReturnFailed
  BY <1>3 DEF ReturnOk, ReturnFailed, requestVars, connectionVars
<1>4. ASSUME NEW w \in Workers, WorkerMove(w)
      PROVE  FtpTypeOK'
  <2>1. UNCHANGED <<requestVars, joinVars>>
    BY <1>4, WorkersActAlone
  <2>2. /\ task' \in [Workers -> {"none", "queued", "running", "ended"}]
        /\ result' \in [Workers -> {"none", "ok", "cancelled", "error"}]
        /\ io' \in [Workers -> Io]
    BY <1>4 DEF WorkerMove, WorkerAct, SpawnNext, Acquire, LogIn, SeeCancelled, ClaimNext, Finish, SpinAtQuit,
                SendPasv, PasvAnswered, RestAnswered, RetrAnswered, Read, MarkRange, CountRange, Fail,
                Spin, ReadAgain, Return, Set, Io, connectionVars
  <2>3. pos' \in [Workers -> Nat] /\ sentFrom' \in [Workers -> Nat]
    <3>1. CASE Read(w)
      <4>1. pos[w] + 1 \in Nat
        OBVIOUS
      <4> QED
        BY <3>1, <4>1 DEF Read, Set
    <3>2. CASE PasvAnswered(w) \/ RestAnswered(w) \/ RetrAnswered(w)
      <4>1. lo[w] \in Nat /\ 0 \in Nat
        BY DEF TypeOK
      <4>2. (IF "ignores REST" \in faults THEN 0 ELSE lo[w]) \in Nat
        BY <4>1
      <4> QED
        BY <3>2, <4>1, <4>2 DEF PasvAnswered, RestAnswered, RetrAnswered, Set
    <3>3. CASE UNCHANGED <<pos, sentFrom>>
      BY <3>3
    <3> QED
      BY <1>4, <3>1, <3>2, <3>3
         DEF WorkerMove, WorkerAct, SpawnNext, Acquire, LogIn, SeeCancelled, ClaimNext, Finish, SpinAtQuit,
             SendPasv, MarkRange, CountRange, Fail, Spin, ReadAgain, Return, connectionVars
  <2> QED
    BY <2>1, <2>2, <2>3 DEF requestVars, joinVars
<1> QED
  BY <1>1, <1>2, <1>3, <1>4, Moves

(* A worker that moves has not ended, and gives up for the token only when  *)
(* it is cancelled.                                                         *)
LEMMA MovesEnd ==
  ASSUME FtpInv, NEW w \in Workers, WorkerMove(w)
  PROVE  /\ task[w] # "ended"
         /\ result'[w] = "cancelled" => result[w] = "cancelled" \/ cancelled
<1> USE DEF FtpInv, FtpTypeOK, Set
<1>0. Placed(w)
  OBVIOUS
<1>1. CASE SpawnNext(w)
  <2>1. pc[w] = "absent" /\ result' = result
    BY <1>1 DEF SpawnNext, Spawn, Enlist
  <2> QED
    BY <1>0, <2>1 DEF Placed
<1>2. CASE Acquire(w)
  BY <1>2 DEF Acquire
<1>3. CASE UNCHANGED result /\ task[w] = "running"
  BY <1>3
<1>4. CASE SeeCancelled(w) \/ Finish(w) \/ SpinAtQuit(w) \/ Fail(w)
  BY <1>4 DEF SeeCancelled, Finish, SpinAtQuit, Fail, Return, WorkerIs
<1> QED
  BY <1>1, <1>2, <1>3, <1>4
     DEF WorkerMove, WorkerAct, LogIn, ClaimNext, SendPasv, PasvAnswered, RestAnswered, RetrAnswered,
         Read, MarkRange, CountRange, Spin, ReadAgain, WorkerIs

LEMMA JoinsStay ==
  ASSUME FtpInv, [FtpNext]_ftpVars
  PROVE  Joins' /\ Outcomes'
<1> USE DEF FtpInv
<1>1. CASE RequestMove
  <2>1. Still /\ connections' = connections /\ UNCHANGED joinVars /\ kept' \in {kept, outcome = "ok"}
    BY <1>1, RequestsTouchNoWorker
       DEF RequestMove, RefuseUrl, AskSize, SizeFails, SizeSpins, Attach, Turn, Persist, Rest,
           SizeReadAgain, ftpVars, requestVars
  <2>2. Joins'
    BY <2>1 DEF Joins, Still, joinVars
  <2> QED
    BY <2>1, <2>2 DEF Outcomes, joinVars
<1>2. CASE Join
  <2>1. /\ joined < connections /\ joined' = joined + 1 /\ outcome' = outcome
        /\ errors' = (errors \/ result[joined + 1] = "error")
        /\ cancelled' = (cancelled \/ result[joined + 1] = "error")
        /\ task[joined + 1] = "ended"
        /\ task' = task /\ result' = result /\ connections' = connections /\ kept' = kept
    BY <1>2 DEF Join, requestVars
  <2>2. joined \in Nat /\ connections \in Nat
    BY DEF FtpTypeOK
  <2>3. joined' <= connections
    BY <2>1, <2>2
  <2>4. errors' = cancelled'
    BY <2>1 DEF Joins
  <2>5. ASSUME NEW w \in Workers
        PROVE  /\ w <= joined + 1 => task[w] = "ended" /\ (result[w] = "error" => errors')
               /\ result[w] = "cancelled" => cancelled'
    <3>1. w <= joined + 1 => w <= joined \/ w = joined + 1
      <4>1. w \in Nat
        BY WorkersNumbered
      <4> QED
        BY <2>2, <4>1
    <3> QED
      BY <2>1, <3>1 DEF Joins
  <2>6. Joins'
    <3>1. connections' <= Cardinality(Workers)
      BY <2>1 DEF Joins
    <3>2. ASSUME NEW w \in Workers
          PROVE  /\ w <= joined' => task'[w] = "ended" /\ (result'[w] = "error" => errors')
                 /\ result'[w] = "cancelled" => cancelled'
      BY <2>1, <2>5, Zenon
    <3> QED
      BY <2>1, <2>3, <2>4, <3>1, <3>2, Zenon DEF Joins
  <2>7. outcome = "none"
    <3>1. joined # connections
      BY <2>1, <2>2
    <3> QED
      BY <3>1 DEF Outcomes
  <2> QED
    BY <2>1, <2>6, <2>7 DEF Outcomes
<1>3. CASE ReturnOk \/ ReturnFailed
  <2>1. /\ Still /\ joined = connections /\ UNCHANGED <<connections, kept, joined, errors, cancelled>>
        /\ outcome' = "ok" => ~errors
        /\ outcome = "none" /\ outcome' \in {"ok", "failed"}
    BY <1>3, RequestsTouchNoWorker DEF ReturnOk, ReturnFailed, AllJoined, Succeeded, requestVars
  <2>2. Joins'
    BY <2>1 DEF Joins, Still
  <2> QED
    BY <2>1, <2>2 DEF Outcomes
<1>4. ASSUME NEW w \in Workers, WorkerMove(w)
      PROVE  Joins' /\ Outcomes'
  <2>1. Others(w) /\ UNCHANGED <<connections, kept, joined, errors, cancelled, outcome>>
    BY <1>4, WorkersActAlone DEF requestVars, joinVars
  <2>2. task[w] # "ended" /\ (result'[w] = "cancelled" => result[w] = "cancelled" \/ cancelled)
    BY <1>4, MovesEnd
  <2>3. ASSUME NEW v \in Workers
        PROVE  /\ v <= joined => task'[v] = "ended" /\ (result'[v] = "error" => errors)
               /\ result'[v] = "cancelled" => cancelled
    BY <2>1, <2>2 DEF Joins, Others
  <2>4. Joins'
    BY <2>1, <2>3 DEF Joins
  <2> QED
    BY <2>1, <2>4 DEF Outcomes
<1> QED
  BY <1>1, <1>2, <1>3, <1>4, Moves

(* all_assigned stays, and so does the server. *)
LEMMA AssignedStays ==
  ASSUME FtpInv, [FtpNext]_ftpVars
  PROVE  (allAssigned => allAssigned') /\ faults' = faults /\ connections' = connections
<1>1. CASE RequestMove \/ Join \/ ReturnOk \/ ReturnFailed
  BY <1>1, RequestsTouchNoWorker DEF Still
<1>2. ASSUME NEW w \in Workers, WorkerMove(w)
      PROVE  (allAssigned => allAssigned') /\ faults' = faults /\ connections' = connections
  <2>1. faults' = faults /\ connections' = connections
    BY <1>2, WorkersActAlone DEF FtpInv, requestVars
  <2>2. allAssigned => allAssigned'
    BY <1>2 DEF WorkerMove, WorkerAct, SpawnNext, Spawn, Enlist, Acquire, LogIn, SeeCancelled, ClaimNext, Claim,
                Finish, SpinAtQuit, Exhausted, SendPasv, Push, PasvAnswered, RestAnswered, RetrAnswered, Read,
                WriteData, Write, MarkRange, Mark, CountRange, CountReady, Fail, Die, Spin, ReadAgain, vars,
                bufferVars
  <2> QED
    BY <2>1, <2>2
<1> QED
  BY <1>1, <1>2, Moves

LEMMA PlacedStays ==
  ASSUME FtpInv, [FtpNext]_ftpVars, NEW v \in Workers
  PROVE  Placed(v)'
<1> USE DEF FtpInv, FtpTypeOK, TypeOK, Placed
<1>1. /\ Placed(v) /\ (allAssigned => allAssigned') /\ connections' = connections
  BY AssignedStays
<1>2. CASE RequestMove \/ Join \/ ReturnOk \/ ReturnFailed
  <2>1. Still
    BY <1>2, RequestsTouchNoWorker
  <2> QED
    BY <1>1, <2>1 DEF Still
<1>3. ASSUME NEW w \in Workers, WorkerMove(w), w # v
      PROVE  Placed(v)'
  <2>1. Others(w)
    BY <1>3, WorkersActAlone
  <2> QED
    BY <1>1, <1>3, <2>1 DEF Others
<1>4. CASE WorkerMove(v)
  <2> USE <1>1 DEF Set
  <2>1. CASE SpawnNext(v)
    <3>1. v <= connections /\ pc[v] = "absent" /\ pc'[v] = "claiming" /\ task'[v] = "queued"
          /\ io'[v] = "login"
      BY <2>1 DEF SpawnNext, Spawn, Enlist
    <3> QED
      BY <3>1, WorkersNumbered
  <2>2. CASE Acquire(v)
    BY <2>2 DEF Acquire, vars, requestVars, connectionVars
  <2>3. CASE LogIn(v) \/ PasvAnswered(v) \/ RestAnswered(v) \/ RetrAnswered(v) \/ Spin(v)
    BY <2>3 DEF LogIn, PasvAnswered, RestAnswered, RetrAnswered, Spin, AwaitsReply, WorkerIs, vars, requestVars
  <2>4. CASE SeeCancelled(v) \/ Fail(v)
    BY <2>4 DEF SeeCancelled, Fail, Die, Return, WorkerIs, requestVars
  <2>5. CASE ClaimNext(v)
    BY <2>5 DEF ClaimNext, Claim, WorkerIs, requestVars, connectionVars
  <2>6. CASE Finish(v) \/ SpinAtQuit(v)
    BY <2>6 DEF Finish, SpinAtQuit, Exhausted, Return, WorkerIs, requestVars
  <2>7. CASE SendPasv(v)
    BY <2>7 DEF SendPasv, Push, WorkerIs, requestVars
  <2>8. CASE Read(v)
    BY <2>8 DEF Read, WriteData, Write, workerVars, WorkerIs, requestVars
  <2>9. CASE MarkRange(v)
    BY <2>9 DEF MarkRange, Mark, WorkerIs, requestVars
  <2>10. CASE CountRange(v)
    BY <2>10 DEF CountRange, CountReady, WorkerIs, requestVars, connectionVars
  <2>11. CASE ReadAgain(v)
    BY <2>11 DEF ReadAgain, WorkerIs, vars, requestVars, connectionVars
  <2> QED
    BY <1>4, <2>1, <2>2, <2>3, <2>4, <2>5, <2>6, <2>7, <2>8, <2>9, <2>10, <2>11
       DEF WorkerMove, WorkerAct
<1> QED
  BY <1>2, <1>3, <1>4, Moves

(* The units up to the next place. *)
LEMMA UnitsExtend ==
  ASSUME NEW n \in Nat
  PROVE  /\ Units(n, n + 1) = {n} /\ Units(n, n) = {}
         /\ \A first \in Nat : first <= n => Units(first, n + 1) = Units(first, n) \cup {n}
BY DEF Units

LEMMA UnitsInside ==
  ASSUME NEW first \in Nat, NEW last \in Nat, last <= TotalSize
  PROVE  Units(first, last) \subseteq Offset
BY BufferAssumption DEF Units, Offset

(* Only Read writes, one unit of the file and the right one.                *)
LEMMA FileSteps ==
  ASSUME FtpInv, [FtpNext]_ftpVars
  PROVE  /\ \A o \in Offset : file[o] # Hole => file'[o] # Hole
         /\ Contents'
<1>1. faults' = faults
  BY AssignedStays
<1>2. CASE file' = file
  BY <1>1, <1>2 DEF FtpInv, Contents
<1>3. ASSUME NEW w \in Workers, Read(w)
      PROVE  /\ \A o \in Offset : file[o] # Hole => file'[o] # Hole
             /\ Contents'
  <2>1. PICK unit : unit = sentFrom[w] + pos[w] - lo[w]
    OBVIOUS
  <2>2. /\ pos[w] \in Nat /\ unit \in Data /\ unit # Hole
        /\ "ignores REST" \notin faults => unit = pos[w]
        /\ WriteData(w, pos[w], pos[w] + 1, unit)
    BY <1>3, <2>1, UnitsRead, BufferAssumption, Zenon
  <2>3. file' = [o \in Offset |-> IF o \in Units(pos[w], pos[w] + 1) THEN unit ELSE file[o]]
    BY <2>2 DEF WriteData, Write
  <2>4. \A o \in Units(pos[w], pos[w] + 1) : o = pos[w]
    <3>1. Units(pos[w], pos[w] + 1) = {pos[w]}
      BY <2>2, UnitsExtend
    <3> QED
      BY <3>1
  <2>5. \A o \in Offset : file[o] # Hole => file'[o] # Hole
    <3> TAKE o \in Offset
    <3>1. file'[o] = unit \/ file'[o] = file[o]
      BY <2>3
    <3> QED
      BY <2>2, <3>1
  <2>6. ASSUME "ignores REST" \notin faults, NEW o \in Offset
        PROVE  file'[o] \in {Hole, o}
    <3>1. CASE o \in Units(pos[w], pos[w] + 1)
      BY <2>2, <2>3, <2>4, <2>6, <3>1, Zenon
    <3>2. CASE o \notin Units(pos[w], pos[w] + 1)
      BY <2>3, <2>6, <3>2 DEF FtpInv, Contents
    <3> QED
      BY <3>1, <3>2
  <2> QED
    BY <1>1, <2>5, <2>6 DEF Contents
<1>4. CASE RequestMove \/ Join \/ ReturnOk \/ ReturnFailed
  BY <1>2, <1>4, RequestsTouchNoWorker DEF Still
<1>5. ASSUME NEW w \in Workers, WorkerMove(w)
      PROVE  Read(w) \/ file' = file
  BY <1>5 DEF WorkerMove, WorkerAct, SpawnNext, Spawn, Enlist, Acquire, LogIn, SeeCancelled, ClaimNext, Claim,
              Finish, SpinAtQuit, Exhausted, SendPasv, Push, PasvAnswered, RestAnswered, RetrAnswered,
              MarkRange, Mark, CountRange, CountReady, Fail, Die, Spin, ReadAgain, vars, bufferVars
<1> QED
  BY <1>2, <1>3, <1>4, <1>5, Moves

LEMMA OwnedStays ==
  ASSUME FtpInv, [FtpNext]_ftpVars
  PROVE  Owned'
<1> USE DEF FtpInv
<1>1. ASSUME segments' = segments, seg' = seg,
             \A w \in Workers : pc[w] \in {"filling", "dead"} => pc'[w] \in {"filling", "dead"}
      PROVE  Owned'
  BY <1>1 DEF Owned, Ids
<1>2. CASE RequestMove \/ Join \/ ReturnOk \/ ReturnFailed
  BY <1>1, <1>2, RequestsTouchNoWorker DEF Still
<1>3. ASSUME NEW w \in Workers, WorkerMove(w)
      PROVE  Owned'
  <2>1. Others(w)
    BY <1>3, WorkersActAlone
  <2>2. CASE SendPasv(w)
    <3>1. Push(w) /\ pc[w] = "pushing"
      BY <2>2 DEF SendPasv, Push
    <3>2. PICK new : new = Len(segments) + 1
      OBVIOUS
    <3>3. /\ Len(segments') = new /\ Len(segments) \in Nat
          /\ \A i \in Ids : segments'[i] = segments[i]
      BY <3>1, <3>2, PushAppends DEF Shape
    <3>4. pc'[w] = "filling" /\ seg'[w] = new
      BY <3>1, <3>2 DEF Push, Shape, TypeOK
    <3>5. Ids' = Ids \cup {new}
      BY <3>2, <3>3 DEF Ids
    <3>6. ASSUME NEW i \in Ids, NEW v \in Workers, seg[v] = i, pc[v] \in {"filling", "dead"}
          PROVE  seg'[v] = i /\ pc'[v] \in {"filling", "dead"}
      BY <2>1, <3>1, <3>6 DEF Others
    <3>7. ASSUME NEW i \in Ids'
          PROVE  \/ segments'[i].state = "Ready"
                 \/ \E v \in Workers : seg'[v] = i /\ pc'[v] \in {"filling", "dead"}
      <4>1. CASE i = new
        BY <3>4, <4>1
      <4>2. CASE i \in Ids
        BY <3>3, <3>6, <4>2 DEF Owned
      <4> QED
        BY <3>5, <4>1, <4>2
    <3> QED
      BY <3>7 DEF Owned
  <2>3. CASE MarkRange(w)
    <3>1. Mark(w) /\ pc[w] = "filling" /\ seg' = seg
      BY <2>3 DEF MarkRange, Mark
    <3>2. /\ Len(segments') = Len(segments) /\ seg[w] \in Ids
          /\ \A i \in Ids : i # seg[w] => segments'[i] = segments[i]
          /\ segments'[seg[w]].state = "Ready"
      BY <3>1, MarkChangesState DEF Shape
    <3>3. Ids' = Ids
      BY <3>2 DEF Ids
    <3>4. ASSUME NEW i \in Ids, i # seg[w], NEW v \in Workers, seg[v] = i, pc[v] \in {"filling", "dead"}
          PROVE  seg'[v] = i /\ pc'[v] \in {"filling", "dead"}
      BY <2>1, <3>1, <3>4 DEF Others
    <3> QED
      BY <3>2, <3>3, <3>4 DEF Owned
  <2>4. CASE Read(w)
    <3>1. segments' = segments /\ seg' = seg /\ pc' = pc
      BY <2>4 DEF Read, WriteData, Write, workerVars
    <3> QED
      BY <1>1, <3>1
  <2>5. CASE SpawnNext(w)
    <3>1. pc[w] = "absent" /\ segments' = segments /\ seg' = seg
      BY <2>5 DEF SpawnNext, Spawn, Enlist, bufferVars
    <3> QED
      BY <1>1, <2>1, <3>1 DEF Others
  <2>6. CASE SeeCancelled(w) \/ Fail(w)
    <3>1. pc'[w] = "dead" /\ segments' = segments /\ seg' = seg
      BY <2>6 DEF SeeCancelled, Fail, Die, bufferVars, Shape, TypeOK
    <3> QED
      BY <1>1, <2>1, <3>1 DEF Others
  <2>7. CASE ClaimNext(w) \/ Finish(w) \/ SpinAtQuit(w) \/ CountRange(w)
    <3>1. pc[w] \in {"claiming", "counting"} /\ segments' = segments /\ seg' = seg
      BY <2>7 DEF ClaimNext, Claim, Finish, SpinAtQuit, Exhausted, CountRange, CountReady
    <3> QED
      BY <1>1, <2>1, <3>1 DEF Others
  <2>8. CASE UNCHANGED vars
    BY <1>1, <2>8 DEF vars
  <2> QED
    BY <1>3, <2>2, <2>3, <2>4, <2>5, <2>6, <2>7, <2>8
       DEF WorkerMove, WorkerAct, Acquire, LogIn, PasvAnswered, RestAnswered, RetrAnswered, Spin, ReadAgain
<1> QED
  BY <1>2, <1>3, Moves

LEMMA NotEmptyStays ==
  ASSUME FtpInv, [FtpNext]_ftpVars, NEW v \in Workers
  PROVE  NotEmpty(v)'
<1> USE DEF FtpInv, NotEmpty
<1>1. ASSUME lo'[v] = lo[v], hi'[v] = hi[v],
             pc'[v] \in {"pushing", "filling"} => pc[v] \in {"pushing", "filling"}
      PROVE  NotEmpty(v)'
  BY <1>1
<1>2. CASE RequestMove \/ Join \/ ReturnOk \/ ReturnFailed
  BY <1>1, <1>2, RequestsTouchNoWorker DEF Still
<1>3. ASSUME NEW w \in Workers, WorkerMove(w), w # v
      PROVE  NotEmpty(v)'
  BY <1>1, <1>3, WorkersActAlone DEF Others
<1>4. CASE WorkerMove(v)
  <2> USE DEF Shape, TypeOK
  <2>1. CASE ClaimNext(v)
    <3>1. PICK preferred \in Sizes : Claim(v, preferred)
      BY <2>1 DEF ClaimNext
    <3>2. /\ preferred \in Nat \ {0} /\ nextUnassigned \in Nat /\ TotalSize \in Nat
          /\ nextUnassigned < TotalSize
      BY <3>1, BufferAssumption DEF Claim
    <3>3. lo'[v] = nextUnassigned /\ hi'[v] = RangeEnd(preferred)
      BY <3>1 DEF Claim
    <3> QED
      BY <3>2, <3>3 DEF RangeEnd
  <2>2. CASE SendPasv(v)
    BY <1>1, <2>2 DEF SendPasv, Push
  <2>3. CASE Read(v)
    BY <1>1, <2>3 DEF Read, WriteData, Write, workerVars
  <2>4. CASE SpawnNext(v) \/ SeeCancelled(v) \/ Fail(v) \/ Finish(v) \/ SpinAtQuit(v)
    BY <1>1, <2>4 DEF SpawnNext, Spawn, Enlist, SeeCancelled, Fail, Die, Finish, SpinAtQuit, Exhausted
  <2>5. CASE MarkRange(v) \/ CountRange(v)
    BY <1>1, <2>5 DEF MarkRange, Mark, CountRange, CountReady, Set
  <2>6. CASE UNCHANGED vars
    BY <1>1, <2>6 DEF vars
  <2> QED
    BY <1>4, <2>1, <2>2, <2>3, <2>4, <2>5, <2>6
       DEF WorkerMove, WorkerAct, Acquire, LogIn, PasvAnswered, RestAnswered, RetrAnswered, Spin, ReadAgain
<1> QED
  BY <1>2, <1>3, <1>4, Moves

(* A worker is at its own range from PASV to the end of the transfer. *)
LEMMA TransferStays ==
  ASSUME FtpInv, [FtpNext]_ftpVars, NEW v \in Workers
  PROVE  Transfer(v)'
<1> USE DEF FtpInv, FtpTypeOK
<1>1. Transfer(v) /\ faults' = faults
  BY AssignedStays
<1>2. ASSUME io'[v] = io[v], sentFrom'[v] = sentFrom[v], pos'[v] = pos[v], lo'[v] = lo[v], hi'[v] = hi[v]
      PROVE  Transfer(v)'
  <2>1. CASE io[v] = "reading"
    <3>1. pc[v] = "filling"
      BY <2>1 DEF Placed
    <3>2. Units(lo[v], pos[v]) \subseteq Offset
      <4>1. /\ lo[v] \in Nat /\ hi[v] \in Nat /\ TotalSize \in Nat /\ hi[v] <= TotalSize
            /\ pos[v] \in Nat /\ pos[v] <= hi[v]
        BY <1>1, <2>1, <3>1, RangeInFile DEF Transfer
      <4>2. pos[v] <= TotalSize
        BY <4>1
      <4> QED
        BY <4>1, <4>2, UnitsInside
    <3>3. Filled(Units(lo[v], pos[v]))'
      BY <1>1, <1>2, <2>1, <3>2, FileSteps DEF Transfer, Filled, Units
    <3> QED
      BY <1>1, <1>2, <2>1, <3>3 DEF Transfer, Filled, Units
  <2>2. CASE io[v] # "reading"
    BY <1>1, <1>2, <2>2 DEF Transfer
  <2> QED
    BY <2>1, <2>2
<1>3. CASE RequestMove \/ Join \/ ReturnOk \/ ReturnFailed
  BY <1>2, <1>3, RequestsTouchNoWorker DEF Still
<1>4. ASSUME NEW w \in Workers, WorkerMove(w), w # v
      PROVE  Transfer(v)'
  BY <1>2, <1>4, WorkersActAlone DEF Others
<1>5. CASE WorkerMove(v)
  <2>1. ASSUME io'[v] \notin {"retr", "reading"}
        PROVE  Transfer(v)'
    BY <2>1 DEF Transfer
  <2>2. CASE \/ SpawnNext(v) \/ LogIn(v) \/ SeeCancelled(v) \/ Finish(v) \/ SpinAtQuit(v) \/ SendPasv(v)
             \/ MarkRange(v) \/ Fail(v) \/ Spin(v)
    BY <2>1, <2>2 DEF SpawnNext, LogIn, SeeCancelled, Finish, SpinAtQuit, SendPasv, MarkRange, Fail,
       Spin, Return, Set
  <2>3. CASE ClaimNext(v) \/ CountRange(v)
    BY <2>1, <2>3 DEF ClaimNext, CountRange, WorkerIs, connectionVars
  <2>4. CASE Acquire(v) \/ ReadAgain(v)
    BY <1>2, <2>4 DEF Acquire, ReadAgain, connectionVars, vars
  <2>5. CASE PasvAnswered(v)
    <3>1. lo[v] \in Nat /\ lo' = lo
      BY <2>5 DEF PasvAnswered, vars, Shape, TypeOK
    <3>2. io'[v] \in {"rest", "retr"} /\ (io'[v] = "retr" => lo[v] = 0) /\ sentFrom'[v] = 0
      BY <2>5, <3>1 DEF PasvAnswered, Restarts, Set
    <3> QED
      BY <3>1, <3>2 DEF Transfer
  <2>6. CASE RestAnswered(v)
    <3>1. /\ io'[v] = "retr" /\ lo' = lo /\ lo[v] \in Nat
          /\ sentFrom'[v] = IF "ignores REST" \in faults THEN 0 ELSE lo[v]
      BY <2>6 DEF RestAnswered, vars, Set, Shape, TypeOK
    <3> QED
      BY <1>1, <3>1 DEF Transfer
  <2>7. CASE RetrAnswered(v)
    <3>1. /\ io[v] = "retr" /\ io'[v] = "reading" /\ pos'[v] = lo[v] /\ sentFrom' = sentFrom
          /\ lo' = lo /\ hi' = hi /\ lo[v] \in Nat /\ hi[v] \in Nat
      BY <2>7 DEF RetrAnswered, WorkerIs, vars, Set, Shape, TypeOK
    <3>2. lo[v] <= hi[v]
      <4>1. lo[v] < hi[v]
        BY <3>1 DEF Placed, NotEmpty
      <4> QED
        BY <3>1, <4>1
    <3>3. Filled(Units(lo[v], pos[v]))'
      <4>1. Units(lo[v], pos[v])' = Units(lo[v], lo[v])
        BY <3>1 DEF Units
      <4> QED
        BY <3>1, <4>1, UnitsExtend DEF Filled
    <3>4. /\ sentFrom'[v] \in {0, lo'[v]}
          /\ "ignores REST" \notin faults' => sentFrom'[v] = lo'[v]
      BY <1>1, <3>1 DEF Transfer
    <3>5. lo'[v] <= pos'[v] /\ pos'[v] <= hi'[v]
      BY <3>1, <3>2
    <3> QED
      BY <3>3, <3>4, <3>5, Zenon DEF Transfer
  <2>8. CASE Read(v)
    <3>1. /\ io[v] = "reading" /\ io' = io /\ sentFrom' = sentFrom /\ pos'[v] = pos[v] + 1
          /\ lo' = lo /\ hi' = hi /\ pos[v] < hi[v]
          /\ lo[v] \in Nat /\ hi[v] \in Nat /\ pos[v] \in Nat
      BY <2>8 DEF Read, WorkerIs, WriteData, Write, workerVars, Set, Shape, TypeOK
    <3>2. lo[v] <= pos[v] /\ Filled(Units(lo[v], pos[v])) /\ hi[v] <= TotalSize /\ TotalSize \in Nat
      <4>1. pc[v] = "filling"
        BY <2>8 DEF Read, WriteData, Write
      <4> QED
        BY <1>1, <3>1, <4>1, RangeInFile DEF Transfer
    <3>3. \A first, last, size, at \in Nat :
            first <= at /\ at < last /\ last <= size
              => first <= at + 1 /\ at + 1 <= last /\ at \in 0 .. size - 1
      OBVIOUS
    <3>4. /\ lo[v] <= pos[v] + 1 /\ pos[v] + 1 <= hi[v] /\ pos[v] \in Offset
          /\ Units(pos[v], pos[v] + 1) = {pos[v]}
          /\ Units(lo[v], pos[v] + 1) = Units(lo[v], pos[v]) \cup {pos[v]}
          /\ Units(lo[v], pos[v]) \subseteq Offset
      <4>1. lo[v] <= pos[v] + 1 /\ pos[v] + 1 <= hi[v] /\ pos[v] \in Offset
        BY <3>1, <3>2, <3>3, Zenon DEF Offset
      <4>2. /\ Units(pos[v], pos[v] + 1) = {pos[v]}
            /\ Units(lo[v], pos[v] + 1) = Units(lo[v], pos[v]) \cup {pos[v]}
        BY <3>1, <3>2, UnitsExtend, Zenon
      <4>3. pos[v] <= TotalSize
        BY <3>1, <3>2
      <4>4. Units(lo[v], pos[v]) \subseteq Offset
        BY <3>1, <4>3, UnitsInside
      <4> QED
        BY <4>1, <4>2, <4>4
    <3>5. file'[pos[v]] # Hole
      <4>1. PICK unit : unit = sentFrom[v] + pos[v] - lo[v]
        OBVIOUS
      <4>2. unit # Hole /\ WriteData(v, pos[v], pos[v] + 1, unit)
        BY <2>8, <4>1, UnitsRead, BufferAssumption, Zenon
      <4> QED
        BY <3>4, <4>2 DEF WriteData, Write
    <3>6. \A o \in Units(lo[v], pos[v] + 1) : file'[o] # Hole
      BY <3>2, <3>4, <3>5, FileSteps DEF Filled
    <3>7. Filled(Units(lo[v], pos[v]))'
      <4>1. Units(lo[v], pos[v])' = Units(lo[v], pos[v] + 1)
        BY <3>1 DEF Units
      <4> QED
        BY <3>6, <4>1 DEF Filled
    <3>8. lo'[v] <= pos'[v] /\ pos'[v] <= hi'[v]
      BY <3>1, <3>4
    <3>9. /\ sentFrom'[v] \in {0, lo'[v]}
          /\ "ignores REST" \notin faults' => sentFrom'[v] = lo'[v]
      BY <1>1, <3>1 DEF Transfer
    <3> QED
      BY <3>7, <3>8, <3>9, Zenon DEF Transfer
  <2> QED
    BY <1>5, <2>2, <2>3, <2>4, <2>5, <2>6, <2>7, <2>8 DEF WorkerMove, WorkerAct
<1> QED
  BY <1>3, <1>4, <1>5, Moves

-----------------------------------------------------------------------------
LEMMA InitFtpInv == FtpInit => FtpInv
<1> SUFFICES ASSUME FtpInit PROVE FtpInv
  OBVIOUS
<1>1. Shape /\ ReadyIsFilled
  BY InitIInv DEF FtpInit, IInv
<1>2. FtpTypeOK
  <2>1. connections \in Nat
    <3>1. \A n \in Nat : 0 .. n \subseteq Nat
      OBVIOUS
    <3> QED
      BY <3>1, WorkersNumbered DEF FtpInit
  <2> QED
    BY <1>1, <2>1 DEF FtpInit, Shape, FtpTypeOK, Io
<1>3. Joins
  <2>1. connections <= Cardinality(Workers) /\ 0 <= connections
    <3>1. \A n \in Nat : \A k \in 0 .. n : k <= n /\ 0 <= k
      OBVIOUS
    <3> QED
      BY <3>1, WorkersNumbered DEF FtpInit
  <2>2. \A w \in Workers : ~(w <= 0)
    <3>1. \A n \in Nat : \A w \in 1 .. n : ~(w <= 0)
      OBVIOUS
    <3> QED
      BY <3>1, WorkersNumbered, Zenon
  <2> QED
    BY <2>1, <2>2 DEF FtpInit, Joins
<1>4. Outcomes
  BY DEF FtpInit, Outcomes
<1>5. \A w \in Workers : Placed(w) /\ NotEmpty(w) /\ Transfer(w)
  BY DEF FtpInit, Init, Placed, NotEmpty, Transfer
<1>6. Owned
  BY DEF FtpInit, Init, Owned, Ids
<1>7. Contents
  BY DEF FtpInit, Init, Contents
<1> QED
  BY <1>1, <1>2, <1>3, <1>4, <1>5, <1>6, <1>7 DEF FtpInv, WholeUnlessCut

LEMMA NextFtpInv == FtpInv /\ [FtpNext]_ftpVars => FtpInv'
<1> SUFFICES ASSUME FtpInv, [FtpNext]_ftpVars PROVE FtpInv'
  OBVIOUS
<1>1. Shape' /\ WholeUnlessCut'
  BY BufferStays
<1>2. FtpTypeOK'
  BY <1>1, TypesStay DEF Shape
<1>3. Joins' /\ Outcomes' /\ Owned' /\ Contents'
  BY JoinsStay, OwnedStays, FileSteps
<1>4. \A w \in Workers : Placed(w)' /\ NotEmpty(w)' /\ Transfer(w)'
  BY PlacedStays, NotEmptyStays, TransferStays
<1> QED
  BY <1>1, <1>2, <1>3, <1>4 DEF FtpInv

(* The invariant that the guarantees below follow from holds whatever the   *)
(* server does amiss and whichever worker fails.                            *)
THEOREM FtpInvariant == FtpSpec => []FtpInv
<1> QED
  BY InitFtpInv, NextFtpInv, PTL DEF FtpSpec

(* Every variable of the request, the driver and the workers keeps its type. *)
THEOREM FtpTypeCorrect == FtpSpec => []FtpTypeOK
<1>1. FtpInv => FtpTypeOK
  BY DEF FtpInv
<1> QED
  BY <1>1, FtpInvariant, PTL

(* Once the driver returned, every worker up to the number of connections   *)
(* has ended, and the others never were.                                    *)
LEMMA ReturnedEnded ==
  ASSUME FtpInv, outcome # "none", NEW w \in Workers
  PROVE  task[w] = IF w <= connections THEN "ended" ELSE "none"
<1>1. joined = connections
  BY DEF FtpInv, Outcomes
<1>2. Placed(w) /\ connections \in Nat /\ w \in Nat
  BY WorkersNumbered DEF FtpInv, FtpTypeOK
<1>3. CASE w <= connections
  BY <1>1, <1>3 DEF FtpInv, Joins
<1>4. CASE ~(w <= connections)
  <2>1. w > connections
    BY <1>2, <1>4
  <2> QED
    BY <1>2, <1>4, <2>1 DEF Placed
<1> QED
  BY <1>3, <1>4

(* The driver awaits every handle, so that nothing writes to the file while *)
(* it is moved into the cache (download_ftp_multithreaded).                 *)
THEOREM ReturnIsQuiet == FtpSpec => []ReturnedIsQuiet
<1>1. FtpInv => ReturnedIsQuiet
  BY ReturnedEnded DEF ReturnedIsQuiet
<1> QED
  BY <1>1, FtpInvariant, PTL

(* Ok without an error leaves no worker that gave up: all of them saw the   *)
(* end of the file, and no segment is without an owner.                     *)
LEMMA OkIsCompleted ==
  ASSUME FtpInv, outcome = "ok", connections > 0
  PROVE  AllCompleted /\ Pushing = {}
<1>1. /\ connections \in Nat /\ connections <= Cardinality(Workers) /\ ~errors /\ ~cancelled
      /\ joined = connections /\ Shape
  BY DEF FtpInv, FtpTypeOK, Joins, Outcomes
<1>2. ASSUME NEW w \in Workers
      PROVE  IF w <= connections THEN pc[w] = "done" /\ allAssigned ELSE pc[w] = "absent"
  <2>1. task[w] = IF w <= connections THEN "ended" ELSE "none"
    BY ReturnedEnded
  <2>2. Placed(w)
    BY DEF FtpInv
  <2>3. w <= connections => result[w] \notin {"error", "cancelled"}
    BY <1>1 DEF FtpInv, Joins
  <2> QED
    BY <2>1, <2>2, <2>3 DEF Placed
<1>3. allAssigned
  <2>1. 1 \in Workers /\ 1 <= connections
    <3>1. \A n, k \in Nat : 0 < k /\ k <= n => 1 \in 1 .. n /\ 1 <= k
      OBVIOUS
    <3>2. 0 < connections
      BY <1>1
    <3> QED
      BY <1>1, <3>1, <3>2, WorkersNumbered, Zenon
  <2> QED
    BY <1>2, <2>1
<1>4. Pushing = {} /\ Counting = {}
  BY <1>2 DEF Pushing, Counting
<1>5. ReadyIds = Ids
  BY <1>2 DEF FtpInv, Owned, ReadyIds
<1>6. readyCount = Len(segments)
  <2>1. Cardinality(Counting) = 0
    BY <1>4, FS_EmptySet
  <2>2. readyCount + Cardinality(Counting) = Cardinality(ReadyIds) /\ TypeOK
    BY <1>1 DEF Shape, CountLagsByCounting
  <2> QED
    BY <1>5, <2>1, <2>2, FiniteViews DEF TypeOK
<1>7. readyCount >= Len(segments)
  BY <1>1, <1>6, FiniteViews DEF Shape, TypeOK
<1> QED
  BY <1>3, <1>4, <1>7 DEF AllCompleted

(* download_ftp_multithreaded does not ask all_completed and need not: with *)
(* a connection at all, Ok means that every range was claimed, marked and   *)
(* counted.                                                                 *)
THEOREM OkIsAllCompleted == FtpSpec => []OkMeansAllCompleted
<1>1. FtpInv => OkMeansAllCompleted
  BY OkIsCompleted DEF OkMeansAllCompleted
<1> QED
  BY <1>1, FtpInvariant, PTL

(* The persistence task keeps the file of the server, if that sends whole   *)
(* bodies and knows REST (download_range).                                  *)
THEOREM KeptIsAlwaysTheFile == FtpSpec => []KeptIsTheFile
<1>1. ASSUME FtpInv, kept, connections > 0, faults \cap {"cuts", "ignores REST"} = {},
             NEW o \in Offset
      PROVE  file[o] = o
  <2>1. outcome = "ok" /\ "cuts" \notin faults /\ "ignores REST" \notin faults
    BY <1>1 DEF FtpInv, Outcomes
  <2>2. AllCompleted /\ Pushing = {}
    BY <1>1, <2>1, OkIsCompleted
  <2>3. IInv
    BY <1>1, <2>1 DEF FtpInv, WholeUnlessCut, IInv
  <2>4. file[o] # Hole
    BY <2>2, <2>3, CompletedIsComplete DEF CompletionSound, Filled
  <2> QED
    BY <1>1, <2>1, <2>4 DEF FtpInv, Contents
<1>2. FtpInv => KeptIsTheFile
  BY <1>1 DEF KeptIsTheFile
<1> QED
  BY <1>2, FtpInvariant, PTL

(* FTP workers use the buffer as the buffer's own specification says, so    *)
(* the theorems about it hold of an FTP download from a server that sends   *)
(* whole bodies (ftp_worker, download_range).                               *)
THEOREM FtpUsesTheBuffer == FtpSpec => UsesTheBuffer
<1>1. FtpInit => Init
  BY DEF FtpInit
<1>2. FtpInv /\ [FtpNext]_ftpVars => [("cuts" \notin faults) => Next]_vars
  <2> SUFFICES ASSUME FtpInv, [FtpNext]_ftpVars
               PROVE  [("cuts" \notin faults) => Next]_vars
    OBVIOUS
  <2> QED
    BY StepUsesBuffer
<1> QED
  BY <1>1, <1>2, FtpInvariant, PTL DEF FtpSpec, UsesTheBuffer
=============================================================================
