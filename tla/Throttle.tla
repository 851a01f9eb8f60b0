------------------------------ MODULE Throttle ------------------------------
(***************************************************************************)
(* Who takes tokens from a bucket, and how they wait for them:             *)
(*   - the response bodies of one client address, from the bucket of that  *)
(*     address (ThrottledPermitStream of src/proxy.rs);                    *)
(*   - the workers of downloads, from the upstream bucket (wait_consume of *)
(*     src/rate_limit.rs, called by download_worker);                      *)
(*   - bodies that are passed through (plain_proxy of src/proxy.rs) and    *)
(*     the data connections of FTP (src/ftp.rs), from the upstream bucket. *)
(* A behaviour is about the users of one bucket, one member of Sharing.    *)
(* A token stands for as many bytes as the size of that bucket makes it:   *)
(* the 64 KiB batch of a worker is more tokens than a small bucket holds.  *)
(* A tick is the millisecond of the timers.  Nothing in the program ever   *)
(* cancels the token the response bodies look at.                          *)
(***************************************************************************)
EXTENDS TokenBucket, Sequences, SequencesExt

CONSTANTS
  Bodies, Writers, Plains, Ftps,
  Sharing,   \* sets of users that share one bucket
  Cuts,      \* where the chunks end that each user reads from upstream
  Batch,     \* the batch of wait_consume, 64 KiB, in tokens of each worker's bucket
  MaxDelay   \* its longest delay, 100 ms

ASSUME ThrottleAssumption ==
  /\ Users = Bodies \cup Writers \cup Plains \cup Ftps
  /\ Bodies \cap Writers = {} /\ (Bodies \cup Writers) \cap (Plains \cup Ftps) = {}
  /\ \A present \in Sharing :
       present \subseteq Users /\ Cardinality(present) <= MaxCallers
  /\ Cuts \in [Users -> SUBSET (Nat \ {0})]
  /\ \A u \in Users : Cuts[u] # {} /\ IsFiniteSet(Cuts[u])
  /\ Batch \in [Writers -> Nat \ {0}] /\ MaxDelay \in Nat \ {0}
  /\ \A present \in Sharing : \A v, w \in present \cap Writers : Batch[v] = Batch[w]

VARIABLES
  body,     \* the stream of each response body
  writer,   \* the chunk each worker waits to write
  passed,   \* the bodies and data connections that do not wait
  cancelled \* workers whose download is cancelled

throttleVars == <<bucketVars, body, writer, passed, cancelled>>

\* The end of the chunk that u reads after from, and of all it reads.
Cut(u, from) == Min({c \in Cuts[u] : c > from})
Length(u) == Max(Cuts[u])

\* No timer is set.
NoTimer == -1

Piece == [from : Nat, to : Nat]

(* absent: of another behaviour   ready: to be polled   trying, estimating: *)
(* in a call of the bucket   asleep: the poll returned Pending.  got: what *)
(* was read of the inner stream; sent: what was delivered.                 *)
Body ==
  [at : {"absent", "ready", "trying", "estimating", "asleep", "ended", "failed"},
   state : {"idle", "waiting"}, timer : {NoTimer} \cup Nat,
   pending : Seq(Piece), got : Nat, sent : Nat]

\* whole: in the first try_consume   batch: in that of a batch
Writer ==
  [at : {"absent", "reading", "whole", "sleeping", "batch", "done", "cancelled"},
   chunk : Nat, remaining : Nat, delay : 1 .. MaxDelay,
   timer : 0 .. MaxDelay, paid : Nat, written : Nat]

Passed == [at : {"absent", "reading", "trying", "done", "failed"},
           chunk : Nat, sent : Nat]

ThrottleTypeOK ==
  /\ BucketTypeOK
  /\ body \in [Bodies -> Body]
  /\ writer \in [Writers -> Writer]
  /\ passed \in [Plains \cup Ftps -> Passed]
  /\ cancelled \subseteq Writers

ThrottleInit ==
  /\ BucketInit
  /\ \E present \in Sharing :
       /\ body = [b \in Bodies |->
            [at |-> IF b \in present THEN "ready" ELSE "absent", state |-> "idle",
             timer |-> NoTimer, pending |-> <<>>, got |-> 0, sent |-> 0]]
       /\ writer = [w \in Writers |->
            [at |-> IF w \in present THEN "reading" ELSE "absent", chunk |-> 0,
             remaining |-> 0, delay |-> 1, timer |-> 0, paid |-> 0, written |-> 0]]
       /\ passed = [p \in Plains \cup Ftps |->
            [at |-> IF p \in present THEN "reading" ELSE "absent", chunk |-> 0, sent |-> 0]]
  /\ cancelled = {}

-----------------------------------------------------------------------------
(* ThrottledPermitStream.                                                  *)

OnlyBodies == UNCHANGED <<writer, passed, cancelled>>

Change(b, stream) == body' = [body EXCEPT ![b] = stream]

Goes(b, to) == Change(b, [body[b] EXCEPT !.at = to])

Quiet(b) == /\ OnlyBodies /\ UNCHANGED bucketVars

Polled(b) == body[b].at = "ready"

\* try_deliver: the first pending piece is tried for.
Try(b, stream) ==
  /\ Change(b, [stream EXCEPT !.at = "trying"])
  /\ call' = Begun(b)
  /\ OnlyBodies /\ UNCHANGED <<tokens, since, credit>>

DeliverPending(b) ==
  /\ Polled(b) /\ body[b].state = "idle" /\ body[b].pending # <<>>
  /\ Try(b, body[b])

\* The inner stream is asked only when nothing is pending.
PollInner(b) == Polled(b) /\ body[b].state = "idle" /\ body[b].pending = <<>>

\* Mutant: the last piece is of full length.
PiecesUncut(from, to) ==
  [i \in 1 .. (to - from + MaxTokens - 1) \div MaxTokens |->
     [from |-> from + (i - 1) * MaxTokens, to |-> from + i * MaxTokens]]

\* Mutant: a chunk is queued as it comes.
PiecesWhole(from, to) == <<[from |-> from, to |-> to]>>

\* enqueue_chunk: no piece is longer than the bucket holds.
Pieces(from, to) ==
  [i \in 1 .. (to - from + MaxTokens - 1) \div MaxTokens |->
     [from |-> from + (i - 1) * MaxTokens, to |-> AtMost(from + i * MaxTokens, to)]]

ReadChunk(b) ==
  /\ PollInner(b) /\ body[b].got < Length(b)
  /\ LET end == Cut(b, body[b].got) IN
     Try(b, [body[b] EXCEPT !.pending = Pieces(body[b].got, end), !.got = end])

InnerPending(b) ==
  /\ PollInner(b) /\ body[b].got < Length(b)
  /\ Goes(b, "asleep") /\ Quiet(b)

InnerEnds(b) ==
  /\ PollInner(b) /\ body[b].got = Length(b)
  /\ Goes(b, "ended") /\ Quiet(b)

InnerFails(b) ==
  /\ PollInner(b) /\ body[b].got < Length(b)
  /\ Goes(b, "failed") /\ Quiet(b)

PollTimer(b) ==
  /\ Polled(b) /\ body[b].state = "waiting"
  /\ IF body[b].timer > 0
     THEN Goes(b, "asleep") /\ Quiet(b)
     ELSE IF body[b].pending # <<>> THEN Try(b, [body[b] EXCEPT !.timer = NoTimer])
     ELSE /\ Change(b, [body[b] EXCEPT !.at = "asleep", !.state = "idle", !.timer = NoTimer])
          /\ Quiet(b)

First(b) == LET piece == Head(body[b].pending) IN piece.to - piece.from

Delivered(b) ==
  /\ body[b].at = "trying" /\ call[b].at = "taking"
  /\ Taken(First(b))
  /\ Change(b, [body[b] EXCEPT !.at = "ready", !.state = "idle", !.pending = Tail(@),
                                !.sent = Head(body[b].pending).to])
  /\ call' = Answered(b)
  /\ OnlyBodies

\* It waits; schedule_wake asks the bucket what is available.
Withheld(b) ==
  /\ body[b].at = "trying" /\ call[b].at = "taking"
  /\ Refused(First(b))
  /\ Change(b, [body[b] EXCEPT !.at = "estimating", !.state = "waiting"])
  /\ call' = Begun(b)
  /\ OnlyBodies

Outstanding(b) == body[b].got - body[b].sent

\* Mutant: no timer if what is pending is available by now.
ScheduleIfShort(b) ==
  /\ body[b].at = "estimating" /\ call[b].at = "taking"
  /\ LET wait == WaitTime(Outstanding(b)) IN
     Change(b, [body[b] EXCEPT !.at = "asleep", !.timer = IF wait = 0 THEN NoTimer ELSE wait])
  /\ call' = Answered(b)
  /\ OnlyBodies /\ UNCHANGED <<tokens, since, credit>>

\* For all that is pending, a millisecond at least.
ScheduleWake(b) ==
  /\ body[b].at = "estimating" /\ call[b].at = "taking"
  /\ LET wait == WaitTime(Outstanding(b)) IN
     Change(b, [body[b] EXCEPT !.at = "asleep", !.timer = IF wait = 0 THEN 1 ELSE wait])
  /\ call' = Answered(b)
  /\ OnlyBodies /\ UNCHANGED <<tokens, since, credit>>

\* The task is polled when its timer has fired, or the inner stream has more.
TimerFires(b) ==
  /\ body[b].at = "asleep" /\ body[b].timer = 0
  /\ Goes(b, "ready") /\ Quiet(b)

InnerWakes(b) ==
  /\ body[b].at = "asleep" /\ body[b].state = "idle"
  /\ Goes(b, "ready") /\ Quiet(b)

\* The task is polled for another reason, its connection's.
PolledEarly(b) ==
  /\ body[b].at = "asleep" /\ body[b].timer > 0
  /\ Goes(b, "ready") /\ Quiet(b)

-----------------------------------------------------------------------------
(* wait_consume, for each chunk that a worker writes.                      *)

OnlyWriters == UNCHANGED <<body, passed, cancelled>>

Update(w, worker) == writer' = [writer EXCEPT ![w] = worker]

ReadToWrite(w) ==
  /\ writer[w].at = "reading"
  /\ LET n == Cut(w, writer[w].written) - writer[w].written IN
     Update(w, [writer[w] EXCEPT !.at = "whole", !.chunk = n, !.remaining = n])
  /\ call' = Begun(w)
  /\ OnlyWriters /\ UNCHANGED <<tokens, since, credit>>

\* Consumed, and written.
Write(w, n) ==
  LET written == writer[w].written + writer[w].chunk IN
  Update(w, [writer[w] EXCEPT !.at = IF written = Length(w) THEN "done" ELSE "reading",
                              !.written = written, !.paid = @ + n,
                              !.delay = 1, !.remaining = 0])

TakeWhole(w) ==
  /\ writer[w].at = "whole" /\ call[w].at = "taking"
  /\ Taken(writer[w].chunk)
  /\ Write(w, writer[w].chunk)
  /\ call' = Answered(w)
  /\ OnlyWriters

\* The loop: a look at the token, then a sleep.
Sleep(w, worker) ==
  Update(w, IF w \in cancelled THEN [worker EXCEPT !.at = "cancelled"]
            ELSE [worker EXCEPT !.at = "sleeping", !.timer = worker.delay])

WaitForWhole(w) ==
  /\ writer[w].at = "whole" /\ call[w].at = "taking"
  /\ Refused(writer[w].chunk)
  /\ Sleep(w, [writer[w] EXCEPT !.delay = 1])
  /\ call' = Answered(w)
  /\ OnlyWriters

\* Mutant: all that remains is one batch.
WholeRemainder(w) == writer[w].remaining

NextBatch(w) == AtMost(writer[w].remaining, Batch[w])

Wake(w) ==
  /\ writer[w].at = "sleeping" /\ writer[w].timer = 0
  /\ Update(w, [writer[w] EXCEPT !.at = "batch"])
  /\ call' = Begun(w)
  /\ OnlyWriters /\ UNCHANGED <<tokens, since, credit>>

\* Mutant: a batch counts for the whole chunk.
TakeOneBatch(w) ==
  /\ writer[w].at = "batch" /\ call[w].at = "taking"
  /\ Taken(NextBatch(w))
  /\ Write(w, NextBatch(w))
  /\ call' = Answered(w)
  /\ OnlyWriters

TakeBatch(w) ==
  /\ writer[w].at = "batch" /\ call[w].at = "taking"
  /\ Taken(NextBatch(w))
  /\ LET left == writer[w].remaining - NextBatch(w) IN
     IF left = 0 THEN Write(w, NextBatch(w))
     ELSE Sleep(w, [writer[w] EXCEPT !.remaining = left, !.delay = 1, !.paid = @ + NextBatch(w)])
  /\ call' = Answered(w)
  /\ OnlyWriters

WaitForBatch(w) ==
  /\ writer[w].at = "batch" /\ call[w].at = "taking"
  /\ Refused(NextBatch(w))
  /\ Sleep(w, [writer[w] EXCEPT !.delay = AtMost(2 * @, MaxDelay)])
  /\ call' = Answered(w)
  /\ OnlyWriters

\* The driver of the download cancels its workers (Downloader).
Cancel(w) ==
  /\ writer[w].at \notin {"absent", "done", "cancelled"}
  /\ cancelled' = cancelled \cup {w}
  /\ UNCHANGED <<bucketVars, body, writer, passed>>

-----------------------------------------------------------------------------
(* Those who take tokens without waiting for them.                         *)

OnlyPassed == UNCHANGED <<body, writer, cancelled>>

Forward(p, stream) == passed' = [passed EXCEPT ![p] = stream]

ReadToPass(p) ==
  /\ passed[p].at = "reading"
  /\ Forward(p, [passed[p] EXCEPT !.at = "trying", !.chunk = Cut(p, passed[p].sent) - passed[p].sent])
  /\ call' = Begun(p)
  /\ OnlyPassed /\ UNCHANGED <<tokens, since, credit>>

PassOn(p) ==
  LET sent == passed[p].sent + passed[p].chunk IN
  Forward(p, [passed[p] EXCEPT !.at = IF sent = Length(p) THEN "done" ELSE "reading", !.sent = sent])

PaidFor(p) ==
  /\ passed[p].at = "trying" /\ call[p].at = "taking"
  /\ Taken(passed[p].chunk)
  /\ PassOn(p)
  /\ call' = Answered(p)
  /\ OnlyPassed

\* plain_proxy ends the body with an error; download_range goes on.
NotPaidFor(p) ==
  /\ passed[p].at = "trying" /\ call[p].at = "taking"
  /\ Refused(passed[p].chunk)
  /\ IF p \in Plains THEN Forward(p, [passed[p] EXCEPT !.at = "failed"]) ELSE PassOn(p)
  /\ call' = Answered(p)
  /\ OnlyPassed

-----------------------------------------------------------------------------
\* A millisecond passes, for the timers too.
Tick ==
  /\ Pass
  /\ body' = [b \in Bodies |-> [body[b] EXCEPT !.timer = IF @ > 0 THEN @ - 1 ELSE @]]
  /\ writer' = [w \in Writers |-> [writer[w] EXCEPT !.timer = IF @ > 0 THEN @ - 1 ELSE @]]
  /\ UNCHANGED <<passed, cancelled>>

Refill(u) == Refilling(u) /\ UNCHANGED <<body, writer, passed, cancelled>>

BodyStep(b) ==
  \/ DeliverPending(b) \/ ReadChunk(b) \/ InnerPending(b)
  \/ InnerEnds(b) \/ InnerFails(b) \/ PollTimer(b) \/ Delivered(b) \/ Withheld(b)
  \/ ScheduleWake(b) \/ TimerFires(b) \/ InnerWakes(b) \/ Refill(b)

WriterStep(w) ==
  \/ ReadToWrite(w) \/ TakeWhole(w) \/ WaitForWhole(w) \/ Wake(w)
  \/ TakeBatch(w) \/ WaitForBatch(w) \/ Refill(w)

PassStep(p) ==
  ReadToPass(p) \/ PaidFor(p) \/ NotPaidFor(p) \/ Refill(p)

ThrottleNext ==
  \/ \E b \in Bodies : BodyStep(b) \/ PolledEarly(b)
  \/ \E w \in Writers : WriterStep(w) \/ Cancel(w)
  \/ \E p \in Plains \cup Ftps : PassStep(p)
  \/ Tick

ThrottleSpec == ThrottleInit /\ [][ThrottleNext]_throttleVars

(* Time passes, and the tasks of the runtime that can run do.  An inner    *)
(* stream may be pending again and again, or fail.                         *)
FairThrottleSpec ==
  /\ ThrottleSpec
  /\ WF_throttleVars(Tick)
  /\ \A b \in Bodies : WF_throttleVars(BodyStep(b))
  /\ \A w \in Writers : WF_throttleVars(WriterStep(w))

-----------------------------------------------------------------------------
(* Properties.                                                             *)

(* Whatever is split, pending, withheld and delivered, a body is delivered *)
(* in order and without a gap, in pieces the bucket can pay for, and ends  *)
(* or fails only after all that was read of it (ThrottledPermitStream).    *)
BodyInOrder ==
  \A b \in Bodies :
    LET s == body[b]
        n == Len(s.pending) IN
    /\ IF n = 0 THEN s.got = s.sent
       ELSE s.pending[1].from = s.sent /\ s.pending[n].to = s.got
    /\ \A i \in 1 .. n :
         /\ s.pending[i].to - s.pending[i].from \in 1 .. MaxTokens
         /\ i < n => s.pending[i].to = s.pending[i + 1].from
    /\ s.at = "ended" => s.sent = Length(b)

(* No wake-up is lost: a stream that sleeps on bytes it could not deliver  *)
(* has a timer, and no timer without them (poll_next and schedule_wake).   *)
SleepsOnATimer ==
  \A b \in Bodies :
    body[b].at = "asleep" =>
      (body[b].pending # <<>> <=> body[b].state = "waiting" /\ body[b].timer # NoTimer)

(* A chunk is written once all of its bytes are paid for, in one go or in  *)
(* batches, and nothing is paid twice (wait_consume).                      *)
WrittenIsPaid ==
  \A w \in Writers :
    LET s == writer[w] IN
    s.paid = s.written + IF s.at \in {"whole", "sleeping", "batch", "cancelled"}
                         THEN s.chunk - s.remaining ELSE 0

(* What was read for a client is delivered to it in the end, whoever       *)
(* shares its bucket (schedule_wake).                                      *)
ReadIsDelivered ==
  \A b \in Bodies : body[b].pending # <<>> ~> body[b].pending = <<>>

Waits(w) == writer[w].at \in {"whole", "sleeping", "batch"}

\* The bucket can pay for the batches of the chunk at all.
Payable(w) == AtMost(writer[w].chunk, Batch[w]) <= MaxTokens

(* A worker that waits for tokens gets them, whoever shares its bucket, if *)
(* the bucket can pay for its batches at all; and however small the bucket *)
(* is, it sees that its download is cancelled (wait_consume).              *)
WaitingEnds ==
  \A w \in Writers : Waits(w) /\ (Payable(w) \/ w \in cancelled) ~> ~Waits(w)

(* "if tokens are unavailable, it waits until refill" (README.md:253): the *)
(* wait of a worker ends.  proxy.rs:437 builds buckets of less than 64 KiB, *)
(* in which rate_limit.rs:136 asks for more than there can ever be.        *)
RefillEndsTheWait == \A w \in Writers : Waits(w) ~> ~Waits(w)

(* "excess data is buffered until tokens become available" (README.md:15): *)
(* a body that is passed through does not fail for want of tokens.         *)
ExcessIsBuffered == \A p \in Plains : passed[p].at # "failed"

=============================================================================
