-------------------------- MODULE RequestFlowProofs --------------------------
(***************************************************************************)
(* What RequestFlow promises for any number of requests, URLs and retries. *)
(* The map may be full or not, except where a theorem says otherwise.      *)
(***************************************************************************)
EXTENDS RequestFlow, FiniteSetTheorems, TLAPS

-----------------------------------------------------------------------------
(* Types.                                                                  *)

LEMMA RegisterTypes ==
  ASSUME FlowTypeOK, NEW r \in Requests, NEW u \in Urls,
         \/ RegisterUnlisted(u) \/ RegisterLeader(r, u)
         \/ RegisterFollower(r, u) \/ RegisterJoin(u)
  PROVE  CoalescerTypeOK'
<1> USE DEF FlowTypeOK, CoalescerTypeOK, Entry, Channel, coalescerVars
<1>1. CASE RegisterUnlisted(u) \/ RegisterJoin(u)
  BY <1>1 DEF RegisterUnlisted, RegisterJoin
<1>2. CASE RegisterLeader(r, u)
  BY <1>2 DEF RegisterLeader, Pending
<1>3. CASE RegisterFollower(r, u)
  <2>1. inflight[u] \in Entry
    OBVIOUS
  <2>2. [inflight[u] EXCEPT !.waiters = @ \cup {r}] \in Entry
    BY <2>1
  <2>3. inflight' \in [Urls -> Entry]
    BY <2>2, <1>3 DEF RegisterFollower
  <2>4. channel' \in [Requests -> Channel] /\ etagFailed' \in [Urls -> BOOLEAN]
    BY <1>3 DEF RegisterFollower
  <2> QED
    BY <2>3, <2>4
<1> QED
  BY <1>1, <1>2, <1>3

LEMMA AnswerTypes ==
  ASSUME CoalescerTypeOK, NEW u \in Urls, NEW value \in {"closed"} \cup Requests
  PROVE  Answer(u, value) \in [Requests -> Channel]
BY DEF Answer, CoalescerTypeOK, Channel

LEMMA AttachTypes ==
  ASSUME CoalescerTypeOK, NEW u \in Urls, NEW b \in Requests, Attach(u, b)
  PROVE  CoalescerTypeOK'
BY AnswerTypes DEF Attach, CoalescerTypeOK, Entry, Downloading, Absent

LEMMA RemoveTypes ==
  ASSUME CoalescerTypeOK, NEW u \in Urls, RemoveEntry(u)
  PROVE  CoalescerTypeOK'
BY AnswerTypes DEF RemoveEntry, CoalescerTypeOK, Entry, Absent

LEMMA TypeStep ==
  FlowTypeOK /\ [FlowNext]_flowVars => FlowTypeOK'
<1> SUFFICES ASSUME FlowTypeOK, [FlowNext]_flowVars PROVE FlowTypeOK'
  OBVIOUS
<1> USE FlowAssumption
<1>1. CoalescerTypeOK
  BY DEF FlowTypeOK
<1>2. CASE \E r \in Requests : RequestStep(r) \/ Disconnect(r)
  <2> PICK r \in Requests : RequestStep(r) \/ Disconnect(r)
    BY <1>2
  <2>1. asked[r] \in Urls /\ retries[r] + 1 \in Nat
    BY DEF FlowTypeOK
  <2>2. CASE OnlyMoves /\ \E from, to \in PC : Go(r, from, to)
    BY <2>2 DEF OnlyMoves, Go, FlowTypeOK, CoalescerTypeOK, coalescerVars, downloadVars, trackerVars
  <2>3. CASE StillValid(r)
    BY <2>3, <2>1 DEF StillValid, Row, Go, PC, Ended, FlowTypeOK, CoalescerTypeOK, coalescerVars, downloadVars, trackerVars
  <2>4. CASE Lead(r) \/ Wait(r)
    BY <2>4, <2>1, RegisterTypes DEF Lead, Wait, Go, PC, FlowTypeOK, downloadVars, trackerVars
  <2>5. CASE Join(r)
    <3>1. inflight[asked[r]].buffer \in Requests \cup {None}
      BY <2>1, <1>1 DEF CoalescerTypeOK, Entry
    <3> QED
      BY <3>1, <2>5, <2>1, RegisterTypes DEF Join, Go, PC, FlowTypeOK, downloadVars, trackerVars
  <2>6. CASE Receive(r) \/ Timeout(r) \/ Disconnect(r)
    BY <2>6 DEF Receive, Timeout, Disconnect, Hang, Go, PC, Ended, Channel, FlowTypeOK, CoalescerTypeOK, downloadVars, trackerVars
  <2>7. CASE Retry(r) \/ GiveUp(r)
    BY <2>7, <2>1 DEF Retry, GiveUp, Dropped, Hang, Go, PC, Ended, Channel, FlowTypeOK, CoalescerTypeOK, downloadVars, trackerVars
  <2>8. CASE StartDownload(r)
    BY <2>8, <2>1, <1>1, AttachTypes DEF StartDownload, Go, PC, DownloadState, InMap, FlowTypeOK, trackerVars
  <2>9. CASE ForgoDownload(r)
    BY <2>9, <2>1, <1>1, RemoveTypes DEF ForgoDownload, Go, PC, FlowTypeOK, downloadVars, trackerVars
  <2>10. CASE Forward(r)
    BY <2>10, <2>1 DEF Forward, SetEtagFailed, Go, PC, Ended, FlowTypeOK, CoalescerTypeOK, downloadVars, trackerVars
  <2>11. CASE \/ Reject(r) \/ Admit(r) \/ LookupFresh(r) \/ LookupStale(r)
              \/ LookupNothing(r) \/ Changed(r) \/ Unreachable(r)
              \/ HeadFails(r) \/ EndBody(r) \/ BreakBody(r)
    BY <2>11, <2>2 DEF Reject, Admit, LookupFresh, LookupStale, LookupNothing, Changed,
                       Unreachable, HeadFails, EndBody, BreakBody, PC, Ended
  <2> QED
    BY <2>3, <2>4, <2>5, <2>6, <2>7, <2>8, <2>9, <2>10, <2>11 DEF RequestStep
<1>3. CASE \E b \in Requests : DownloadStep(b)
  <2> PICK b \in Requests : DownloadStep(b)
    BY <1>3
  <2>1. asked[b] \in Urls
    BY DEF FlowTypeOK
  <2> USE DEF Step, DownloadState, InMap, FlowTypeOK, requestVars, trackerVars
  <2>2. CASE OnlySteps /\ \E from, to \in DownloadState : Step(b, from, to)
    BY <2>2 DEF OnlySteps, CoalescerTypeOK, coalescerVars
  <2>3. CASE Synced(b) \/ SyncFails(b) \/ XzSound(b) \/ StoreFails(b)
    BY <2>3, <2>2 DEF Synced, SyncFails, XzSound, StoreFails
  <2>4. CASE DownloadDone(b)
    BY <2>4, <2>1 DEF DownloadDone, CoalescerTypeOK, coalescerVars
  <2>5. CASE XzCorrupt(b)
    BY <2>5, <2>1 DEF XzCorrupt, RecordFailure, SetBufFailed, CoalescerTypeOK, coalescerVars
  <2>6. CASE Store(b)
    BY <2>6, <2>1 DEF Store, Evict, Row, CoalescerTypeOK, coalescerVars
  <2>7. CASE DownloadFails(b)
    <3>1. failures' \in [Urls -> 0 .. CooldownAfter + 1] /\ recent' \in [Urls -> BOOLEAN]
      <4>1. CASE RecordFailure(asked[b])
        BY <4>1, <2>1 DEF RecordFailure
      <4>2. CASE UNCHANGED trackerVars
        BY <4>2
      <4> QED
        BY <4>1, <4>2, <2>7 DEF DownloadFails
    <3> QED
      BY <3>1, <2>7 DEF DownloadFails, SetBufFailed, CoalescerTypeOK, coalescerVars
  <2>8. CASE Leave(b)
    BY <2>8, <2>1, <1>1, RemoveTypes DEF Leave
  <2>9. CASE Clear(b) \/ Flag(b)
    BY <2>9, <2>1 DEF Clear, Flag, EtagChanged, SetEtagFailed, CoalescerTypeOK
  <2> QED
    BY <2>3, <2>4, <2>5, <2>6, <2>7, <2>8, <2>9 DEF DownloadStep
<1>4. CASE \E u \in Urls : Age(u) \/ Remove(u) \/ CoolDown(u)
  BY <1>4 DEF Age, Remove, Evict, Row, CoolDown, FlowTypeOK, CoalescerTypeOK, coalescerVars, requestVars, downloadVars, trackerVars
<1>5. CASE UNCHANGED flowVars
  BY <1>5 DEF flowVars, FlowTypeOK, CoalescerTypeOK, coalescerVars, requestVars, downloadVars, trackerVars
<1> QED
  BY <1>2, <1>3, <1>4, <1>5 DEF FlowNext

(* Every variable keeps its type; the failures of a URL are capped, as     *)
(* record_failure does with min.                                           *)
THEOREM FlowTypeCorrect == FlowSpec => []FlowTypeOK
<1>1. FlowInit => FlowTypeOK
  <2> SUFFICES ASSUME FlowInit PROVE FlowTypeOK
    OBVIOUS
  <2>1. CoalescerTypeOK
    BY DEF FlowInit, CoalescerInit, CoalescerTypeOK, Absent, Entry, Channel
  <2>2. cached \in [Urls -> Row \cup {"none", "removed"}]
    BY FlowAssumption DEF FlowInit, Row
  <2>3. /\ pc \in [Requests -> PC]
        /\ dl \in [Requests -> DownloadState]
        /\ failures \in [Urls -> 0 .. CooldownAfter + 1]
        /\ etag \in [Requests -> Etag]
    BY FlowAssumption DEF FlowInit, PC, Ended, DownloadState, Etag
  <2> QED
    BY <2>1, <2>2, <2>3 DEF FlowInit, FlowTypeOK
<1> QED
  BY <1>1, TypeStep, PTL DEF FlowSpec

-----------------------------------------------------------------------------
(* Entries have owners.                                                    *)

(* A request never changes its URL. *)
LEMMA AskedStays == [FlowNext]_flowVars => asked' = asked
<1> SUFFICES ASSUME [FlowNext]_flowVars PROVE asked' = asked
  OBVIOUS
<1>1. ASSUME NEW r \in Requests, RequestStep(r) \/ Disconnect(r) PROVE asked' = asked
  BY <1>1 DEF RequestStep, Reject, Admit, LookupFresh, LookupStale, LookupNothing, Changed,
     Unreachable, HeadFails, EndBody, BreakBody, OnlyMoves, StillValid, Lead, Wait, Join,
     Receive, Retry, GiveUp, Dropped, Timeout, StartDownload, ForgoDownload, Forward, Disconnect
<1>2. ASSUME NEW b \in Requests, DownloadStep(b) PROVE asked' = asked
  BY <1>2 DEF DownloadStep, DownloadDone, Synced, SyncFails, XzSound, XzCorrupt, Store,
     StoreFails, DownloadFails, Leave, Clear, Flag, OnlySteps
<1>3. ASSUME NEW u \in Urls, Age(u) \/ Remove(u) \/ CoolDown(u) PROVE asked' = asked
  BY <1>3 DEF Age, Remove, CoolDown
<1> QED
  BY <1>1, <1>2, <1>3 DEF FlowNext, flowVars

LEMMA OwnedStep ==
  FlowTypeOK /\ EntryOwned /\ [FlowNext]_flowVars => EntryOwned'
<1> SUFFICES ASSUME FlowTypeOK, EntryOwned, [FlowNext]_flowVars,
                    NEW u \in Urls
             PROVE  /\ inflight'[u].kind = "downloading" =>
                         /\ dl'[inflight'[u].buffer] \in InMap
                         /\ asked'[inflight'[u].buffer] = u
                    /\ inflight'[u].kind = "pending" =>
                         /\ asked'[inflight'[u].owner] = u
                         /\ pc'[inflight'[u].owner] \in {"leading", "headfailed", "gone"}
  BY DEF EntryOwned, Kind, Active
<1> USE DEF Kind, Active, InMap
<1>0. /\ inflight \in [Urls -> Entry] /\ channel \in [Requests -> Channel]
      /\ asked \in [Requests -> Urls] /\ pc \in [Requests -> PC]
      /\ dl \in [Requests -> DownloadState]
  BY DEF FlowTypeOK, CoalescerTypeOK
<1>1. asked' = asked
  BY AskedStays
<1>2. CASE \E r \in Requests : RequestStep(r) \/ Disconnect(r)
  <2> PICK r \in Requests : RequestStep(r) \/ Disconnect(r)
    BY <1>2
  <2>1. CASE /\ UNCHANGED <<inflight, dl>>
             /\ \E to \in PC : /\ pc' = [pc EXCEPT ![r] = to]
                               /\ pc[r] = "leading" => to \in {"headfailed", "gone"}
                               /\ pc[r] \notin {"headfailed", "gone"}
    BY <2>1, <1>0, <1>1 DEF EntryOwned
  <2>2. CASE Lead(r)
    BY <2>2, <1>0, <1>1 DEF EntryOwned, Lead, Go, RegisterLeader, RegisterUnlisted, Pending,
                            coalescerVars, downloadVars
  <2>3. CASE Wait(r)
    BY <2>3, <1>0, <1>1 DEF EntryOwned, Wait, Go, RegisterFollower, downloadVars
  <2>4. CASE StartDownload(r)
    BY <2>4, <1>0, <1>1 DEF EntryOwned, StartDownload, Go, Attach, Downloading, Absent
  <2>5. CASE ForgoDownload(r)
    BY <2>5, <1>0, <1>1 DEF EntryOwned, ForgoDownload, Go, RemoveEntry, Absent, downloadVars
  <2>6. CASE \/ Reject(r) \/ Admit(r) \/ LookupFresh(r) \/ LookupStale(r)
             \/ LookupNothing(r) \/ Changed(r) \/ Unreachable(r)
             \/ HeadFails(r) \/ EndBody(r) \/ BreakBody(r) \/ StillValid(r) \/ Join(r)
             \/ Receive(r) \/ Retry(r) \/ GiveUp(r) \/ Timeout(r) \/ Forward(r) \/ Disconnect(r)
    BY <2>6, <2>1 DEF Reject, Admit, LookupFresh, LookupStale, LookupNothing, Changed,
       Unreachable, HeadFails, EndBody, BreakBody, StillValid, Join, Receive, Retry, GiveUp,
       Dropped, Timeout, Forward, Disconnect, OnlyMoves, Go, RegisterJoin, SetEtagFailed,
       coalescerVars, downloadVars, PC, Ended
  <2> QED
    BY <2>2, <2>3, <2>4, <2>5, <2>6 DEF RequestStep
<1>3. CASE \E b \in Requests : DownloadStep(b)
  <2> PICK b \in Requests : DownloadStep(b)
    BY <1>3
  <2>1. CASE Leave(b)
    <3>1. PICK to : dl' = [dl EXCEPT ![b] = to]
      BY <2>1 DEF Leave, Step
    <3>2. inflight' = [inflight EXCEPT ![asked[b]] = Absent] /\ pc' = pc
      BY <2>1 DEF Leave, RemoveEntry, requestVars
    <3>3. CASE u = asked[b]
      BY <3>2, <3>3, <1>0 DEF Absent
    <3>4. CASE u # asked[b]
      BY <3>1, <3>2, <3>4, <1>0, <1>1 DEF EntryOwned
    <3> QED
      BY <3>3, <3>4
  <2>2. CASE /\ UNCHANGED <<inflight, pc>>
             /\ \E to \in DownloadState : /\ dl' = [dl EXCEPT ![b] = to]
                                          /\ dl[b] \in InMap => to \in InMap
    BY <2>2, <1>0, <1>1 DEF EntryOwned
  <2>3. CASE ~Leave(b)
    BY <2>3, <2>2 DEF DownloadStep, DownloadDone, Synced, SyncFails, XzSound, XzCorrupt, Store,
       StoreFails, DownloadFails, Clear, Flag, OnlySteps, Step, SetEtagFailed, coalescerVars,
       requestVars, DownloadState
  <2> QED
    BY <2>1, <2>3
<1>4. CASE UNCHANGED <<inflight, pc, dl>>
  BY <1>4, <1>1, <1>0 DEF EntryOwned
<1> QED
  BY <1>2, <1>3, <1>4 DEF FlowNext, Age, Remove, CoolDown, flowVars, coalescerVars, requestVars, downloadVars

(* Nobody's entry is left behind except by a leader that lost its HEAD or  *)
(* its client: even when leaders that are not in a full map remove and     *)
(* replace the entries of others.                                          *)
THEOREM EntriesAlwaysOwned == FlowSpec => []EntryOwned
<1>1. FlowInit => EntryOwned
  BY DEF FlowInit, CoalescerInit, EntryOwned, Kind, Absent
<1> QED
  BY <1>1, FlowTypeCorrect, OwnedStep, PTL DEF FlowSpec

-----------------------------------------------------------------------------
(* No waiter is forgotten.                                                 *)

(* The senders of an entry belong to requests of its URL, and only an      *)
(* entry that is Pending has any.                                          *)
WaitersAsked ==
  \A u \in Urls :
    /\ Kind(u) # "pending" => inflight[u].waiters = {}
    /\ \A r \in inflight[u].waiters : asked[r] = u

WaiterInv == WaitersAsked /\ WaiterListedOrAnswered

LEMMA WaiterStep ==
  FlowTypeOK /\ EntryOwned /\ WaiterInv /\ [FlowNext]_flowVars => WaiterInv'
<1> SUFFICES ASSUME FlowTypeOK, EntryOwned, WaiterInv, [FlowNext]_flowVars PROVE WaiterInv'
  OBVIOUS
<1> USE DEF Kind
<1>0. /\ inflight \in [Urls -> Entry] /\ channel \in [Requests -> Channel]
      /\ asked \in [Requests -> Urls] /\ pc \in [Requests -> PC]
  BY DEF FlowTypeOK, CoalescerTypeOK
<1>1. asked' = asked
  BY AskedStays
<1>2. CASE \E r \in Requests : RequestStep(r) \/ Disconnect(r)
  <2> PICK r \in Requests : RequestStep(r) \/ Disconnect(r)
    BY <1>2
  <2>1. CASE /\ inflight' = inflight
             /\ \A w \in Requests \ {r} : channel'[w] = channel[w] /\ pc'[w] = pc[w]
             /\ pc'[r] # "waiting"
    BY <2>1, <1>0, <1>1 DEF WaiterInv, WaitersAsked, WaiterListedOrAnswered, Entry, Channel
  <2>2. CASE Lead(r)
    BY <2>2, <1>0, <1>1 DEF WaiterInv, WaitersAsked, WaiterListedOrAnswered, Lead, Go,
       RegisterLeader, RegisterUnlisted, Pending, coalescerVars
  <2>3. CASE Wait(r)
    BY <2>3, <1>0, <1>1 DEF WaiterInv, WaitersAsked, WaiterListedOrAnswered, Wait, Go,
       RegisterFollower, Entry
  <2>4. CASE StartDownload(r)
    BY <2>4, <1>0, <1>1 DEF WaiterInv, WaitersAsked, WaiterListedOrAnswered, StartDownload, Go,
       Attach, Answer, Downloading, Absent, Entry, Channel
  <2>5. CASE ForgoDownload(r)
    BY <2>5, <1>0, <1>1 DEF WaiterInv, WaitersAsked, WaiterListedOrAnswered, ForgoDownload, Go,
       RemoveEntry, Answer, Absent, Entry, Channel
  <2>6. CASE \/ Reject(r) \/ Admit(r) \/ LookupFresh(r) \/ LookupStale(r)
             \/ LookupNothing(r) \/ Changed(r) \/ Unreachable(r)
             \/ HeadFails(r) \/ EndBody(r) \/ BreakBody(r) \/ StillValid(r) \/ Join(r)
             \/ Receive(r) \/ Retry(r) \/ GiveUp(r) \/ Timeout(r) \/ Forward(r) \/ Disconnect(r)
    BY <2>6, <2>1, <1>0 DEF Reject, Admit, LookupFresh, LookupStale, LookupNothing, Changed,
       Unreachable, HeadFails, EndBody, BreakBody, StillValid, Join, Receive, Retry, GiveUp,
       Dropped, Timeout, Forward, Disconnect, OnlyMoves, Go, Hang, RegisterJoin, SetEtagFailed,
       coalescerVars
  <2> QED
    BY <2>2, <2>3, <2>4, <2>5, <2>6 DEF RequestStep
<1>3. CASE UNCHANGED <<inflight, channel, pc>>
  BY <1>3, <1>1, <1>0 DEF WaiterInv, WaitersAsked, WaiterListedOrAnswered
<1>4. CASE \E b \in Requests : DownloadStep(b)
  <2> PICK b \in Requests : DownloadStep(b)
    BY <1>4
  <2>1. CASE Leave(b)
    BY <2>1, <1>0, <1>1 DEF WaiterInv, WaitersAsked, WaiterListedOrAnswered, Leave,
       RemoveEntry, Answer, Absent, Entry, Channel, requestVars
  <2>2. CASE ~Leave(b)
    BY <2>2, <1>3 DEF DownloadStep, DownloadDone, Synced, SyncFails, XzSound, XzCorrupt, Store,
       StoreFails, DownloadFails, Clear, Flag, OnlySteps, SetEtagFailed, coalescerVars,
       requestVars
  <2> QED
    BY <2>1, <2>2
<1> QED
  BY <1>2, <1>3, <1>4 DEF FlowNext, Age, Remove, CoolDown, flowVars, coalescerVars, requestVars

(* No wake-up is lost, whoever attaches, completes or fails an entry, and  *)
(* also when the map is full.                                              *)
THEOREM WaitersNeverForgotten == FlowSpec => []WaiterListedOrAnswered
<1>1. FlowInit => WaiterInv
  BY DEF FlowInit, CoalescerInit, WaiterInv, WaitersAsked, WaiterListedOrAnswered, Kind, Absent
<1>2. WaiterInv => WaiterListedOrAnswered
  BY DEF WaiterInv
<1> QED
  BY <1>1, <1>2, FlowTypeCorrect, EntriesAlwaysOwned, WaiterStep, PTL DEF FlowSpec

-----------------------------------------------------------------------------
(* One download for each URL, as long as the map cannot be full.           *)

LEMMA NeverFull ==
  ASSUME Cardinality(Urls) < MaxInflight
  PROVE  ~MapFull
<1> DEFINE listed == {u \in Urls : Kind(u) # "absent"}
<1>1. listed \in SUBSET Urls
  OBVIOUS
<1>2. /\ IsFiniteSet(listed)
      /\ Cardinality(listed) <= Cardinality(Urls)
  BY <1>1, CoalescerAssumption, FS_Subset
<1>3. Cardinality(listed) \in Nat /\ Cardinality(Urls) \in Nat
  BY <1>2, CoalescerAssumption, FS_CardinalityType
<1> HIDE DEF listed
<1>4. ~(Cardinality(listed) >= MaxInflight)
  BY <1>2, <1>3, CoalescerAssumption
<1> QED
  BY <1>4 DEF MapFull, listed

(* A request downloads nothing before it leads, the entry of a leader at   *)
(* work is its own, and that of a download under way too.                  *)
LeaderListed ==
  \A r \in Requests :
    /\ pc[r] \in {"start", "lookup", "revalidating", "registering", "waiting", "leading"}
         => dl[r] = "none"
    /\ pc[r] = "leading" => /\ Kind(asked[r]) = "pending"
                            /\ inflight[asked[r]].owner = r
    /\ Active(r) => inflight[asked[r]] = Downloading(r)

LEMMA LeaderStep ==
  ASSUME Cardinality(Urls) < MaxInflight
  PROVE  FlowTypeOK /\ LeaderListed /\ [FlowNext]_flowVars => LeaderListed'
<1> SUFFICES ASSUME FlowTypeOK, LeaderListed, [FlowNext]_flowVars,
                    NEW q \in Requests
             PROVE  /\ pc'[q] \in {"start", "lookup", "revalidating", "registering", "waiting", "leading"}
                         => dl'[q] = "none"
                    /\ pc'[q] = "leading" => /\ inflight'[asked'[q]].kind = "pending"
                                             /\ inflight'[asked'[q]].owner = q
                    /\ dl'[q] \in InMap => inflight'[asked'[q]] = Downloading(q)
  BY DEF LeaderListed, Kind, Active, Downloading
<1> USE DEF Kind, Active, InMap, Downloading
<1>0. /\ inflight \in [Urls -> Entry]
      /\ asked \in [Requests -> Urls] /\ pc \in [Requests -> PC]
      /\ dl \in [Requests -> DownloadState]
  BY DEF FlowTypeOK, CoalescerTypeOK
<1>1. asked' = asked
  BY AskedStays
<1>2. CASE \E r \in Requests : RequestStep(r) \/ Disconnect(r)
  <2> PICK r \in Requests : RequestStep(r) \/ Disconnect(r)
    BY <1>2
  <2>1. CASE /\ UNCHANGED <<inflight, dl>>
             /\ \E to \in PC : /\ pc' = [pc EXCEPT ![r] = to]
                               /\ to # "leading"
                               /\ to \in {"start", "lookup", "revalidating", "registering", "waiting"} =>
                                    pc[r] \in {"start", "lookup", "revalidating", "registering", "waiting"}
    BY <2>1, <1>0, <1>1 DEF LeaderListed
  <2>2. CASE Lead(r)
    BY <2>2, <1>0, <1>1, NeverFull DEF LeaderListed, Lead, Go, RegisterLeader,
       RegisterUnlisted, Pending, downloadVars
  <2>3. CASE Wait(r)
    BY <2>3, <1>0, <1>1 DEF LeaderListed, Wait, Go, RegisterFollower, downloadVars
  <2>4. CASE StartDownload(r) \/ ForgoDownload(r)
    <3>1. /\ pc[r] = "leading" /\ dl[r] = "none"
          /\ inflight[asked[r]].kind = "pending" /\ inflight[asked[r]].owner = r
      BY <2>4 DEF StartDownload, ForgoDownload, Go, LeaderListed
    <3>2. PICK new : inflight' = [inflight EXCEPT ![asked[r]] = new]
      BY <2>4 DEF StartDownload, ForgoDownload, Attach, RemoveEntry
    <3>3. CASE q = r /\ StartDownload(r)
      BY <3>1, <3>3, <1>0, <1>1 DEF StartDownload, Go, Attach
    <3>4. CASE q = r /\ ForgoDownload(r)
      BY <3>1, <3>4, <1>0, <1>1 DEF ForgoDownload, Go, downloadVars
    <3>5. CASE q # r
      <4>1. pc'[q] = pc[q] /\ dl'[q] = dl[q]
        BY <2>4, <3>5, <1>0 DEF StartDownload, ForgoDownload, Go, downloadVars
      <4>2. CASE asked[q] = asked[r]
        <5>1. pc[q] # "leading"
          BY <3>1, <3>5, <4>2 DEF LeaderListed
        <5>2. ~Active(q)
          <6>1. Active(q) => inflight[asked[q]] = Downloading(q)
            BY DEF LeaderListed
          <6>2. Downloading(q).kind = "downloading"
            OBVIOUS
          <6> QED
            BY <6>1, <6>2, <3>1, <4>2, Zenon
        <5> QED
          BY <5>1, <5>2, <4>1 DEF LeaderListed
      <4>3. CASE asked[q] # asked[r]
        BY <4>1, <4>3, <3>2, <1>0, <1>1 DEF LeaderListed
      <4> QED
        BY <4>2, <4>3
    <3> QED
      BY <2>4, <3>3, <3>4, <3>5
  <2>5. CASE \/ Reject(r) \/ Admit(r) \/ LookupFresh(r) \/ LookupStale(r)
             \/ LookupNothing(r) \/ Changed(r) \/ Unreachable(r)
             \/ HeadFails(r) \/ EndBody(r) \/ BreakBody(r) \/ StillValid(r) \/ Join(r)
             \/ Receive(r) \/ Retry(r) \/ GiveUp(r) \/ Timeout(r) \/ Forward(r) \/ Disconnect(r)
    BY <2>5, <2>1 DEF Reject, Admit, LookupFresh, LookupStale, LookupNothing, Changed,
       Unreachable, HeadFails, EndBody, BreakBody, StillValid, Join, Receive, Retry, GiveUp,
       Dropped, Timeout, Forward, Disconnect, OnlyMoves, Go, RegisterJoin, SetEtagFailed,
       coalescerVars, downloadVars, PC, Ended
  <2> QED
    BY <2>2, <2>3, <2>4, <2>5 DEF RequestStep
<1>3. CASE \E b \in Requests : DownloadStep(b)
  <2> PICK b \in Requests : DownloadStep(b)
    BY <1>3
  <2>1. CASE Leave(b)
    <3>1. PICK to \in {"clearing", "flagging"} : dl' = [dl EXCEPT ![b] = to]
      BY <2>1 DEF Leave, Step
    <3>2. inflight' = [inflight EXCEPT ![asked[b]] = Absent] /\ pc' = pc
      BY <2>1 DEF Leave, RemoveEntry, requestVars
    <3>3. Active(b) /\ inflight[asked[b]] = Downloading(b)
      BY <2>1 DEF Leave, Step, LeaderListed
    <3>4. CASE asked[q] = asked[b]
      <4>1. pc[q] # "leading"
        <5>1. inflight[asked[q]].kind = "downloading"
          BY <3>3, <3>4
        <5> QED
          BY <5>1 DEF LeaderListed
      <4>2. Active(q) => q = b
        <5>1. Active(q) => Downloading(q) = Downloading(b)
          BY <3>3, <3>4 DEF LeaderListed
        <5> QED
          BY <5>1 DEF Downloading
      <4>3. dl'[b] \notin InMap /\ dl'[b] # "none" /\ dl[b] # "none"
        BY <3>1, <3>3, <1>0
      <4>4. q # b => dl'[q] = dl[q]
        BY <3>1, <1>0
      <4> QED
        BY <4>1, <4>2, <4>3, <4>4, <3>2 DEF LeaderListed
    <3>5. CASE asked[q] # asked[b]
      BY <3>5, <3>1, <3>2, <1>0, <1>1 DEF LeaderListed
    <3> QED
      BY <3>4, <3>5
  <2>2. CASE /\ UNCHANGED <<inflight, pc>>
             /\ \E to \in DownloadState : /\ dl' = [dl EXCEPT ![b] = to]
                                          /\ to \in InMap => dl[b] \in InMap
                                          /\ dl[b] # "none"
    BY <2>2, <1>0, <1>1 DEF LeaderListed
  <2>3. CASE ~Leave(b)
    BY <2>3, <2>2 DEF DownloadStep, DownloadDone, Synced, SyncFails, XzSound, XzCorrupt, Store,
       StoreFails, DownloadFails, Clear, Flag, OnlySteps, Step, SetEtagFailed, coalescerVars,
       requestVars, DownloadState
  <2> QED
    BY <2>1, <2>3
<1>4. CASE UNCHANGED <<inflight, pc, dl>>
  BY <1>4, <1>1, <1>0 DEF LeaderListed
<1> QED
  BY <1>2, <1>3, <1>4 DEF FlowNext, Age, Remove, CoolDown, flowVars, coalescerVars, requestVars, downloadVars

(* As long as fewer URLs are asked for than the map takes, two leaders     *)
(* never download the same URL side by side (Coalescer::register): beyond  *)
(* that many, a leader without an entry does so by design.                 *)
THEOREM OneDownloadAtATime ==
  ASSUME Cardinality(Urls) < MaxInflight
  PROVE  FlowSpec => []OneDownloadPerUrl
<1>1. FlowInit => LeaderListed
  BY DEF FlowInit, LeaderListed, Active, InMap
<1>2. LeaderListed => OneDownloadPerUrl
  <2> SUFFICES ASSUME LeaderListed, NEW a \in Requests, NEW b \in Requests,
                      Active(a), Active(b), asked[a] = asked[b]
               PROVE  a = b
    BY DEF OneDownloadPerUrl
  <2>1. Downloading(a) = Downloading(b)
    BY DEF LeaderListed
  <2>2. Downloading(a).buffer = a /\ Downloading(b).buffer = b
    BY DEF Downloading
  <2> QED
    BY <2>1, <2>2
<1>3. FlowTypeOK /\ LeaderListed /\ [FlowNext]_flowVars => LeaderListed'
  BY LeaderStep
<1> QED
  BY <1>1, <1>2, <1>3, FlowTypeCorrect, PTL DEF FlowSpec
-----------------------------------------------------------------------------
(* What was downloaded is found.                                           *)

KeptIsCached ==
  \A b \in Requests : dl[b] \in {"completing", "clearing", "stored"} => cached[asked[b]] # "none"

LEMMA KeptStep ==
  FlowTypeOK /\ KeptIsCached /\ [FlowNext]_flowVars => KeptIsCached'
<1> SUFFICES ASSUME FlowTypeOK, KeptIsCached, [FlowNext]_flowVars, NEW b \in Requests,
                    dl'[b] \in {"completing", "clearing", "stored"}
             PROVE  cached'[asked'[b]] # "none"
  BY DEF KeptIsCached
<1>0. /\ asked \in [Requests -> Urls] /\ dl \in [Requests -> DownloadState]
      /\ cached \in [Urls -> Row \cup {"none", "removed"}]
  BY DEF FlowTypeOK
<1>1. asked' = asked
  BY AskedStays
<1>2. \A u \in Urls : cached[u] # "none" => cached'[u] # "none"
  <2>1. CASE \E r \in Requests : StillValid(r)
    BY <2>1, <1>0 DEF StillValid, Row
  <2>2. CASE \E r \in Requests : Store(r)
    BY <2>2, <1>0 DEF Store, Evict, Row
  <2>3. CASE \E u \in Urls : Age(u) \/ Remove(u)
    BY <2>3, <1>0 DEF Age, Remove, Evict, Row
  <2>4. CASE UNCHANGED cached
    BY <2>4
  <2> QED
    BY <2>1, <2>2, <2>3, <2>4 DEF FlowNext, RequestStep, DownloadStep, CoolDown, Disconnect,
       Reject, Admit, LookupFresh, LookupStale, LookupNothing, Changed, Unreachable, Lead, Wait,
       Join, Receive, Retry, GiveUp, Dropped, Timeout, StartDownload, ForgoDownload, Forward,
       HeadFails, EndBody, BreakBody, DownloadDone, Synced, SyncFails, XzSound, XzCorrupt,
       StoreFails, DownloadFails, Leave, Clear, Flag, OnlyMoves, OnlySteps, flowVars
<1>3. CASE dl'[b] = dl[b]
  BY <1>0, <1>1, <1>2, <1>3 DEF KeptIsCached
<1>4. CASE \E r \in Requests : Store(r)
  BY <1>4, <1>0, <1>1, <1>2 DEF Store, Step, Evict, Row, KeptIsCached
<1>5. CASE \E r \in Requests : StartDownload(r)
  BY <1>5, <1>0, <1>3 DEF StartDownload
<1>6. CASE \E r \in Requests : DownloadStep(r) /\ ~Store(r)
  <2> PICK r \in Requests : DownloadStep(r) /\ ~Store(r)
    BY <1>6
  <2>1. dl'[b] = dl[b] \/ dl[b] \in {"completing", "clearing", "stored"}
    BY <1>0 DEF DownloadStep, DownloadDone, Synced, SyncFails, XzSound, XzCorrupt,
       StoreFails, DownloadFails, Leave, Clear, Flag, Step
  <2> QED
    BY <2>1, <1>0, <1>1, <1>2 DEF KeptIsCached
<1>7. CASE UNCHANGED dl
  BY <1>3, <1>7
<1> QED
  BY <1>4, <1>5, <1>6, <1>7 DEF FlowNext, RequestStep, CoolDown, Age, Remove, Disconnect,
     Reject, Admit, LookupFresh, LookupStale, LookupNothing, StillValid, Changed, Unreachable,
     Lead, Wait, Join, Receive, Retry, GiveUp, Dropped, Timeout, ForgoDownload, Forward,
     HeadFails, EndBody, BreakBody, OnlyMoves, downloadVars, flowVars

(* A download that is kept is in the map until it is in the cache: a       *)
(* request that comes late joins it or hits the row, or the row was taken  *)
(* away, at once by the eviction of its own store or later (attach_buffer, *)
(* store and complete, in this order), as long as the map cannot be full.  *)
THEOREM DownloadsStayInSight ==
  ASSUME Cardinality(Urls) < MaxInflight
  PROVE  FlowSpec => []NeverOutOfSight
<1>1. FlowInit => LeaderListed /\ KeptIsCached
  BY DEF FlowInit, LeaderListed, KeptIsCached, Active, InMap
<1>2. FlowTypeOK /\ LeaderListed /\ [FlowNext]_flowVars => LeaderListed'
  BY LeaderStep
<1>3. LeaderListed /\ KeptIsCached => NeverOutOfSight
  BY DEF LeaderListed, KeptIsCached, NeverOutOfSight, Active, InMap
<1> QED
  BY <1>1, <1>2, <1>3, KeptStep, FlowTypeCorrect, PTL DEF FlowSpec

-----------------------------------------------------------------------------
(* The cooldown.                                                           *)

\* The downloads of u given up for anything but an EtagChanged.
Outages(u) == {b \in Requests : asked[b] = u /\ bufFailed[b] /\ ~EtagChanged(b)}

(* A request downloads once, so that its failure is counted once.          *)
OnceEach ==
  \A r \in Requests :
    /\ pc[r] \in {"start", "lookup", "revalidating", "registering", "waiting", "leading"}
         => dl[r] = "none"
    /\ dl[r] \in {"none", "running", "syncing", "checking"} => ~bufFailed[r] /\ ~EtagChanged(r)

(* However many requests there are, the failed ones are finitely many.     *)
CooldownInv ==
  /\ OnceEach
  /\ \A u \in Urls : IsFiniteSet(Outages(u)) /\ failures[u] <= Cardinality(Outages(u))

LEMMA OnceStep == FlowTypeOK /\ OnceEach /\ [FlowNext]_flowVars => OnceEach'
<1> SUFFICES ASSUME FlowTypeOK, OnceEach, [FlowNext]_flowVars PROVE OnceEach'
  OBVIOUS
<1>0. /\ pc \in [Requests -> PC] /\ dl \in [Requests -> DownloadState]
      /\ etag \in [Requests -> Etag] /\ bufFailed \in [Requests -> BOOLEAN]
  BY DEF FlowTypeOK
<1>1. CASE \E r \in Requests : RequestStep(r) \/ Disconnect(r)
  <2> PICK r \in Requests : RequestStep(r) \/ Disconnect(r)
    BY <1>1
  <2>1. CASE StartDownload(r)
    BY <2>1, <1>0 DEF StartDownload, Go, OnceEach, EtagChanged
  <2>2. CASE /\ UNCHANGED downloadVars
             /\ \E to \in PC : /\ pc' = [pc EXCEPT ![r] = to]
                               /\ to \in {"start", "lookup", "revalidating", "registering", "waiting", "leading"} =>
                                    pc[r] \in {"start", "lookup", "revalidating", "registering", "waiting"}
    BY <2>2, <1>0 DEF OnceEach, EtagChanged, downloadVars
  <2> QED
    BY <2>1, <2>2 DEF RequestStep, Disconnect, Reject, Admit, LookupFresh, LookupStale,
       LookupNothing, StillValid, Changed, Unreachable, Lead, Wait, Join, Receive, Retry, GiveUp,
       Dropped, Timeout, ForgoDownload, Forward, HeadFails, EndBody, BreakBody, OnlyMoves, Go,
       PC, Ended
<1>2. CASE \E b \in Requests : DownloadStep(b)
  <2> PICK b \in Requests : DownloadStep(b)
    BY <1>2
  <2> USE DEF Step
  <2>1. CASE DownloadFails(b) \/ XzCorrupt(b)
    BY <2>1, <1>0 DEF OnceEach, EtagChanged, DownloadFails, XzCorrupt, SetBufFailed, requestVars
  <2>2. CASE /\ UNCHANGED <<pc, etag, bufFailed>>
             /\ dl[b] # "none"
             /\ \E to \in DownloadState :
                  /\ dl' = [dl EXCEPT ![b] = to]
                  /\ to \in {"none", "running", "syncing", "checking"}
                       => dl[b] \in {"running", "syncing", "checking"}
    BY <2>2, <1>0 DEF OnceEach, EtagChanged
  <2>3. CASE Synced(b)
    <3>1. dl' = [dl EXCEPT ![b] = "checking"] \/ dl' = [dl EXCEPT ![b] = "storing"]
      BY <2>3 DEF Synced
    <3> QED
      BY <3>1, <2>2, <2>3 DEF Synced, OnlySteps, requestVars, DownloadState, InMap
  <2>4. CASE Store(b) \/ Leave(b)
    BY <2>4, <2>2 DEF Store, Leave, requestVars, DownloadState, InMap
  <2> QED
    BY <2>1, <2>2, <2>3, <2>4 DEF DownloadStep, DownloadDone, SyncFails, XzSound, StoreFails,
       Clear, Flag, OnlySteps, requestVars, DownloadState, InMap
<1>3. CASE UNCHANGED <<pc, downloadVars>>
  BY <1>3 DEF OnceEach, EtagChanged, downloadVars
<1> QED
  BY <1>1, <1>2, <1>3 DEF FlowNext, Age, Remove, CoolDown, flowVars, requestVars

(* A failure that is counted adds its download to the outages of its URL.  *)
LEMMA CountedStep ==
  ASSUME FlowTypeOK, CooldownInv, NEW b \in Requests, asked' = asked,
         ~bufFailed[b], ~EtagChanged(b), \A r \in Requests : EtagChanged(r)' = EtagChanged(r),
         RecordFailure(asked[b]), SetBufFailed(b), NEW u \in Urls
  PROVE  IsFiniteSet(Outages(u)') /\ failures'[u] <= Cardinality(Outages(u)')
<1>0. /\ bufFailed \in [Requests -> BOOLEAN] /\ failures \in [Urls -> 0 .. CooldownAfter + 1]
      /\ asked \in [Requests -> Urls]
  BY DEF FlowTypeOK
<1>1. IsFiniteSet(Outages(u)) /\ failures[u] <= Cardinality(Outages(u))
  BY DEF CooldownInv
<1>2. CASE asked[b] = u
  <2>1. Outages(u)' = Outages(u) \cup {b} /\ b \notin Outages(u)
    BY <1>0, <1>2 DEF Outages, SetBufFailed
  <2>2. failures'[u] <= failures[u] + 1
    BY <1>0, <1>2, FlowAssumption DEF RecordFailure
  <2>3. IsFiniteSet(Outages(u)') /\ Cardinality(Outages(u)') = Cardinality(Outages(u)) + 1
    BY <2>1, <1>1, FS_AddElement
  <2>4. Cardinality(Outages(u)) \in Nat /\ failures[u] \in Nat /\ failures'[u] \in Nat
    BY <1>0, <1>1, <1>2, FS_CardinalityType, FlowAssumption DEF RecordFailure
  <2> QED
    BY <2>2, <2>3, <2>4, <1>1
<1>3. CASE asked[b] # u
  BY <1>0, <1>1, <1>3 DEF Outages, SetBufFailed, RecordFailure
<1> QED
  BY <1>2, <1>3

LEMMA CooldownStep ==
  FlowTypeOK /\ CooldownInv /\ [FlowNext]_flowVars => CooldownInv'
<1> SUFFICES ASSUME FlowTypeOK, CooldownInv, [FlowNext]_flowVars PROVE CooldownInv'
  OBVIOUS
<1>0. /\ dl \in [Requests -> DownloadState] /\ failures \in [Urls -> 0 .. CooldownAfter + 1]
      /\ etag \in [Requests -> Etag] /\ bufFailed \in [Requests -> BOOLEAN]
      /\ asked \in [Requests -> Urls]
  BY DEF FlowTypeOK
<1>1. asked' = asked
  BY AskedStays
<1>2. OnceEach'
  BY OnceStep DEF CooldownInv
<1> SUFFICES ASSUME NEW u \in Urls
             PROVE  IsFiniteSet(Outages(u)') /\ failures'[u] <= Cardinality(Outages(u)')
  BY <1>2 DEF CooldownInv, Outages
<1>3. IsFiniteSet(Outages(u)) /\ failures[u] <= Cardinality(Outages(u))
  BY DEF CooldownInv
<1>4. Cardinality(Outages(u)) \in Nat
  BY <1>3, FS_CardinalityType
<1>5. CASE UNCHANGED <<bufFailed, etag, failures>>
  BY <1>1, <1>3, <1>5 DEF Outages, EtagChanged
<1>6. CASE \E b \in Requests : DownloadDone(b)
  <2>1. Outages(u)' = Outages(u)
    BY <1>1, <1>6 DEF Outages, EtagChanged, DownloadDone
  <2>2. failures'[u] = failures[u] \/ failures'[u] = 0
    BY <1>0, <1>6 DEF DownloadDone
  <2> QED
    BY <2>1, <2>2, <1>3, <1>4
<1>7. CASE \E b \in Requests : XzCorrupt(b)
  <2> PICK b \in Requests : XzCorrupt(b)
    BY <1>7
  <2>1. ~bufFailed[b] /\ ~EtagChanged(b)
    BY DEF XzCorrupt, Step, CooldownInv, OnceEach
  <2>2. \A r \in Requests : EtagChanged(r)' = EtagChanged(r)
    BY DEF XzCorrupt, EtagChanged
  <2> QED
    BY <2>1, <2>2, <1>1, CountedStep DEF XzCorrupt
<1>8. CASE \E b \in Requests : DownloadFails(b)
  <2> PICK b \in Requests, told \in Etag :
        /\ Step(b, "running", "failing")
        /\ IF told = "told" THEN UNCHANGED trackerVars ELSE RecordFailure(asked[b])
        /\ SetBufFailed(b)
        /\ etag' = [etag EXCEPT ![b] = told]
    BY <1>8 DEF DownloadFails
  <2>1. ~bufFailed[b] /\ ~EtagChanged(b)
    BY DEF Step, CooldownInv, OnceEach
  <2>2. CASE told = "told"
    <3>1. Outages(u)' = Outages(u)
      BY <2>1, <2>2, <1>0, <1>1 DEF Outages, SetBufFailed, EtagChanged
    <3> QED
      BY <3>1, <2>2, <1>3 DEF trackerVars
  <2>3. CASE told # "told"
    <3>1. \A r \in Requests : EtagChanged(r)' = EtagChanged(r)
      BY <2>1, <2>3, <1>0 DEF EtagChanged
    <3> QED
      BY <3>1, <2>1, <2>3, <1>1, CountedStep
  <2> QED
    BY <2>2, <2>3
<1> QED
  BY <1>5, <1>6, <1>7, <1>8 DEF FlowNext, RequestStep, DownloadStep, CoolDown, Age, Remove, Disconnect,
     Reject, Admit, LookupFresh, LookupStale, LookupNothing, StillValid, Changed, Unreachable,
     Lead, Wait, Join, Receive, Retry, GiveUp, Dropped, Timeout, StartDownload, ForgoDownload,
     Forward, HeadFails, EndBody, BreakBody, Synced, SyncFails, XzSound, Store, StoreFails,
     Leave, Clear, Flag, OnlyMoves, OnlySteps, downloadVars, trackerVars, flowVars

(* What the tracker counts for a URL are downloads of it that were given   *)
(* up and not reported as a change of the file: an EtagChanged never trips *)
(* the cooldown, and nothing is counted twice (spawn_cache_persistence).   *)
(* A 412 that comes back as another error is counted like one.             *)
THEOREM CooldownAlwaysEarned == FlowSpec => []CooldownIsEarned
<1>1. FlowInit => CooldownInv
  <2> SUFFICES ASSUME FlowInit PROVE CooldownInv
    OBVIOUS
  <2>1. \A u \in Urls : Outages(u) = {} /\ failures[u] = 0
    BY DEF FlowInit, Outages
  <2>2. OnceEach
    BY DEF FlowInit, OnceEach, EtagChanged
  <2> QED
    BY <2>1, <2>2, FS_EmptySet DEF CooldownInv
<1>2. CooldownInv => CooldownIsEarned
  BY DEF CooldownInv, CooldownIsEarned, Outages
<1> QED
  BY <1>1, <1>2, CooldownStep, FlowTypeCorrect, PTL DEF FlowSpec
=============================================================================
