------------------------------ MODULE Coalescer ------------------------------
(***************************************************************************)
(* src/coalescer.rs: the map of in-flight downloads, one entry per URL,    *)
(* and the flags of failures by a change of the file.  Every operation     *)
(* takes the lock of a map once; complete and fail take two locks one      *)
(* after the other, so each of them is two operations here.  The requests  *)
(* that call them are in RequestFlow.                                      *)
(***************************************************************************)
EXTENDS Naturals, FiniteSets

CONSTANTS
  Urls,         \* URLs that are asked for
  Requests,     \* client requests; a buffer is named after the leader that made it
  MaxInflight,  \* MAX_INFLIGHT
  None          \* no request, no buffer

ASSUME CoalescerAssumption ==
  /\ IsFiniteSet(Urls)
  /\ MaxInflight \in Nat \ {0}
  /\ None \notin Requests

VARIABLES
  inflight,    \* the entry of each URL
  etagFailed,  \* whether the last failure of a URL was a 412
  channel      \* the oneshot channel of each waiting request

coalescerVars == <<inflight, etagFailed, channel>>

Absent == [kind |-> "absent", waiters |-> {}, buffer |-> None, owner |-> None]

(* The code does not store who inserted an entry; owner is kept for the    *)
(* properties only.                                                        *)
Pending(r, waiters) ==
  [kind |-> "pending", waiters |-> waiters, buffer |-> None, owner |-> r]

Downloading(b) ==
  [kind |-> "downloading", waiters |-> {}, buffer |-> b, owner |-> b]

Entry == [kind : {"absent", "pending", "downloading"}, waiters : SUBSET Requests,
          buffer : Requests \cup {None}, owner : Requests \cup {None}]

\* idle: never waited   open: no answer yet   closed: the sender was dropped
\* a request name: the buffer that was sent
Channel == {"idle", "open", "closed"} \cup Requests

CoalescerTypeOK ==
  /\ inflight \in [Urls -> Entry]
  /\ etagFailed \in [Urls -> BOOLEAN]
  /\ channel \in [Requests -> Channel]

CoalescerInit ==
  /\ inflight = [u \in Urls |-> Absent]
  /\ etagFailed = [u \in Urls |-> FALSE]
  /\ channel = [r \in Requests |-> "idle"]

-----------------------------------------------------------------------------
Kind(u) == inflight[u].kind

MapFull == Cardinality({u \in Urls : Kind(u) # "absent"}) >= MaxInflight

(* register: a full map makes a leader that is not in the map, even for a  *)
(* URL that is.                                                            *)
RegisterUnlisted(u) ==
  /\ MapFull
  /\ UNCHANGED coalescerVars

\* Mutant: the entry is looked at in one lock and inserted in another.
RegisterLeaderBlindly(r, u) ==
  /\ ~MapFull
  /\ inflight' = [inflight EXCEPT ![u] = Pending(r, {})]
  /\ UNCHANGED <<etagFailed, channel>>

RegisterLeader(r, u) ==
  /\ ~MapFull /\ Kind(u) = "absent"
  /\ inflight' = [inflight EXCEPT ![u] = Pending(r, {})]
  /\ UNCHANGED <<etagFailed, channel>>

RegisterFollower(r, u) ==
  /\ ~MapFull /\ Kind(u) = "pending"
  /\ inflight' = [inflight EXCEPT ![u].waiters = @ \cup {r}]
  /\ channel' = [channel EXCEPT ![r] = "open"]
  /\ UNCHANGED etagFailed

RegisterJoin(u) ==
  /\ ~MapFull /\ Kind(u) = "downloading"
  /\ UNCHANGED coalescerVars

(* Every open channel of the entry of u gets a value. *)
Answer(u, value) ==
  [r \in Requests |-> IF r \in inflight[u].waiters /\ channel[r] = "open"
                      THEN value ELSE channel[r]]

(* Mutant: the waiters are kept in the entry but not told. *)
AttachSilently(u, b) ==
  /\ inflight' = [inflight EXCEPT ![u] = IF Kind(u) = "pending"
                                         THEN Downloading(b) ELSE Absent]
  /\ UNCHANGED <<etagFailed, channel>>

(* attach_buffer takes whatever entry the URL has out of the map, and puts  *)
(* the download in only if it was Pending.                                  *)
Attach(u, b) ==
  /\ inflight' = [inflight EXCEPT ![u] = IF Kind(u) = "pending"
                                         THEN Downloading(b) ELSE Absent]
  /\ channel' = Answer(u, b)
  /\ UNCHANGED etagFailed

\* Mutant: only an entry that still waits for its buffer is taken out.
RemovePending(u) ==
  /\ inflight' = [inflight EXCEPT ![u] = IF Kind(u) = "pending" THEN Absent ELSE @]
  /\ channel' = Answer(u, "closed")
  /\ UNCHANGED etagFailed

(* complete and fail, first lock: the entry goes, and its senders with it.  *)
RemoveEntry(u) ==
  /\ inflight' = [inflight EXCEPT ![u] = Absent]
  /\ channel' = Answer(u, "closed")
  /\ UNCHANGED etagFailed

(* complete and fail, second lock. *)
SetEtagFailed(u, value) ==
  /\ etagFailed' = [etagFailed EXCEPT ![u] = value]
  /\ UNCHANGED <<inflight, channel>>
=============================================================================
