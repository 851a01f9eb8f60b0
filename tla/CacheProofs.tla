----------------------------- MODULE CacheProofs -----------------------------
(***************************************************************************)
(* What the disk cache promises for any number of URLs, requests and       *)
(* lengths and any limit: whatever the proxy, blitzctl and crashes do      *)
(* between each other's statements, rows and files part only where a known *)
(* cause struck.                                                           *)
(***************************************************************************)
EXTENDS Cache, FiniteSetTheorems, TLAPS

-----------------------------------------------------------------------------
(* The inductive invariant.                                                *)

\* A store has replaced the file of u and not yet the row.
Storing(u) == store[u].at \in {"renamed", "sized"}

(* The mutex is held while a row is being evicted, and a command of        *)
(* blitzctl has files removed only while it runs, one at a time if it      *)
(* removes URLs one by one.                                                *)
Held ==
  /\ victim # None => lock # None
  /\ ctl.at \in {"idle", "cleared"} => ctl.removed = {}
  /\ ctl.at = "deleting" => \A u, v \in ctl.removed : u = v

(* Nobody but a store makes a file: it is that of its generation, whose    *)
(* length is what was measured, until somebody removes it.                 *)
StoredAsMeasured ==
  \A u \in Urls :
    /\ Storing(u) => files[u] \in {None, store[u].gen}
    /\ store[u].at = "sized" => store[u].size = store[u].gen

\* What is being removed stays removed, unless a store comes between.
RemovedIsGone ==
  \A u \in Urls :
    u = victim \/ u \in ctl.removed => files[u] = None \/ u \in doubt \/ Storing(u)

\* clear_all leaves no file behind that it did not list, except new ones.
ClearSeesAll ==
  ctl.at = "clearing" =>
    \A u \in Urls \ ctl.left : files[u] = None \/ u \in doubt \/ Storing(u)

(* Until its row is replaced, a request finds the file that the row it     *)
(* looked up is of, or none, and that row, or none.                        *)
SeenIsThere ==
  \A r \in Readers :
    LET u == reader[r].url IN
    reader[r].at \in {"asking", "confirmed", "opening"} =>
      /\ u \in Urls
      /\ ~reader[r].late =>
           /\ files[u] \in {None, reader[r].head}
           /\ rows[u] # None /\ u \notin doubt => rows[u].etag = reader[r].head

\* Rows above the limit are evicted before the mutex is free again.
RowsWithinLimit == lock = None /\ ~cut => Total <= MaxSize

CacheInvButLimit ==
  /\ CacheTypeOK
  /\ Held
  /\ StoredAsMeasured
  /\ RemovedIsGone
  /\ ClearSeesAll
  /\ SeenIsThere
  /\ RowsAndFilesAgree
  /\ TempsOwned

CacheInv == CacheInvButLimit /\ RowsWithinLimit

-----------------------------------------------------------------------------
(* The steps.                                                              *)

\* Nothing under way is of the types that are declared.
LEMMA NothingTyped == NoReader \in Reader /\ NoStore \in Store /\ NoCtl \in Ctl
<1>1. AnyGen \in Gens
  BY CacheAssumption DEF AnyGen
<1> QED
  BY <1>1 DEF NoReader, NoStore, NoCtl, Reader, Store, Ctl

\* Nor does a request, or a store, that goes on change its type.
LEMMA MovedTyped ==
  ASSUME CacheTypeOK
  PROVE  /\ \A r \in Readers, to \in {"idle", "asking", "confirmed", "opening"} :
              [reader EXCEPT ![r].at = to] \in [Readers -> Reader]
         /\ \A u \in Urls : Overtaken(u) \in [Readers -> Reader]
         /\ \A u \in Urls : [store EXCEPT ![u].at = "renamed"] \in [Urls -> Store]
         /\ \A u \in Urls : files[u] # None =>
              [store EXCEPT ![u].at = "sized", ![u].size = files[u]] \in [Urls -> Store]
<1>1. ASSUME NEW r \in Readers, NEW to \in {"idle", "asking", "confirmed", "opening"}
      PROVE  [reader EXCEPT ![r].at = to] \in [Readers -> Reader]
  <2>1. [reader[r] EXCEPT !.at = to] \in Reader
    BY DEF CacheTypeOK, Reader
  <2> QED
    BY <2>1 DEF CacheTypeOK
<1>2. ASSUME NEW u \in Urls
      PROVE  Overtaken(u) \in [Readers -> Reader]
  <2>1. \A r \in Readers : [reader[r] EXCEPT !.late = TRUE] \in Reader
    BY DEF CacheTypeOK, Reader
  <2> QED
    BY <2>1 DEF CacheTypeOK, Overtaken
<1>3. ASSUME NEW u \in Urls
      PROVE  [store EXCEPT ![u].at = "renamed"] \in [Urls -> Store]
  <2>1. [store[u] EXCEPT !.at = "renamed"] \in Store
    BY DEF CacheTypeOK, Store
  <2> QED
    BY <2>1 DEF CacheTypeOK
<1>4. ASSUME NEW u \in Urls, files[u] # None
      PROVE  [store EXCEPT ![u].at = "sized", ![u].size = files[u]] \in [Urls -> Store]
  <2>1. files[u] \in Gens
    BY <1>4 DEF CacheTypeOK
  <2>2. [store[u] EXCEPT !.at = "sized", !.size = files[u]] \in Store
    BY <2>1 DEF CacheTypeOK, Store
  <2>3. [store EXCEPT ![u].at = "sized", ![u].size = files[u]]
          = [store EXCEPT ![u] = [store[u] EXCEPT !.at = "sized", !.size = files[u]]]
    BY DEF CacheTypeOK
  <2> QED
    BY <2>2, <2>3 DEF CacheTypeOK
<1> QED
  BY <1>1, <1>2, <1>3, <1>4

LEMMA LookupHitStep ==
  ASSUME CacheInv, NEW r \in Readers, NEW u \in Urls, NEW fresh \in BOOLEAN, LookupHit(r, u, fresh)
  PROVE  CacheInvButLimit'
<1> USE CacheAssumption DEF CacheInv, CacheInvButLimit, outside, disk, stores
<1>1. CacheTypeOK'
  BY DEF LookupHit, CacheTypeOK, Reader, Row
<1>2. SeenIsThere'
  <2>1. /\ reader' = [reader EXCEPT ![r] =
             [at |-> IF fresh THEN "opening" ELSE "asking", url |-> u, head |-> rows[u].etag,
              late |-> u \in doubt \/ store[u].at \in {"renamed", "sized"}]]
        /\ rows[u] # None /\ files[u] # None /\ lock = None /\ UNCHANGED <<rows, files, doubt>>
    BY DEF LookupHit, Connected
  <2>2. u \notin doubt /\ store[u].at \notin {"renamed", "sized"}
          => files[u] = rows[u].etag
    BY <2>1 DEF RowsAndFilesAgree, Busy, RemovedIsGone, Held, Storing
  <2> SUFFICES ASSUME NEW q \in Readers, reader'[q].at \in {"asking", "confirmed", "opening"}
               PROVE  /\ reader'[q].url \in Urls
                      /\ ~reader'[q].late =>
                           /\ files[reader'[q].url] \in {None, reader'[q].head}
                           /\ rows[reader'[q].url] # None /\ reader'[q].url \notin doubt
                                => rows[reader'[q].url].etag = reader'[q].head
    BY <2>1 DEF SeenIsThere
  <2>3. CASE q = r
    BY <2>1, <2>2, <2>3 DEF CacheTypeOK
  <2>4. CASE q # r
    BY <2>1, <2>4 DEF SeenIsThere, CacheTypeOK
  <2> QED
    BY <2>3, <2>4
<1>3. Held' /\ StoredAsMeasured' /\ RemovedIsGone' /\ ClearSeesAll' /\ RowsAndFilesAgree' /\ TempsOwned'
  BY DEF LookupHit, Held, StoredAsMeasured, Storing, RemovedIsGone, ClearSeesAll,
         RowsAndFilesAgree, Busy, TempsOwned
<1> QED
  BY <1>1, <1>2, <1>3

LEMMA LookupDanglingStep ==
  ASSUME CacheInv, NEW r \in Readers, NEW u \in Urls, LookupDangling(r, u)
  PROVE  CacheInvButLimit'
<1> USE CacheAssumption DEF CacheInv, CacheInvButLimit, outside, disk, stores
<1>1. CacheTypeOK'
  BY DEF LookupDangling, CacheTypeOK
<1>2. SeenIsThere'
  BY DEF LookupDangling, SeenIsThere, CacheTypeOK
<1>3. RowsAndFilesAgree'
  BY DEF LookupDangling, RowsAndFilesAgree, Busy, CacheTypeOK
<1>4. Held' /\ StoredAsMeasured' /\ RemovedIsGone' /\ ClearSeesAll' /\ TempsOwned'
  BY DEF LookupDangling, Held, StoredAsMeasured, Storing, RemovedIsGone, ClearSeesAll, TempsOwned
<1> QED
  BY <1>1, <1>2, <1>3, <1>4

LEMMA ConfirmStep ==
  ASSUME CacheInv, NEW r \in Readers, NEW status, NEW etag, Confirm(r, status, etag)
  PROVE  CacheInvButLimit'
<1> USE CacheAssumption DEF CacheInv, CacheInvButLimit, outside, disk, stores
<1>1. CacheTypeOK'
  BY MovedTyped DEF Confirm, CacheTypeOK
<1>2. SeenIsThere'
  BY DEF Confirm, SeenIsThere, CacheTypeOK
<1>3. Held' /\ StoredAsMeasured' /\ RemovedIsGone' /\ ClearSeesAll' /\ RowsAndFilesAgree' /\ TempsOwned'
  BY DEF Confirm, Held, StoredAsMeasured, Storing, RemovedIsGone, ClearSeesAll,
         RowsAndFilesAgree, Busy, TempsOwned
<1> QED
  BY <1>1, <1>2, <1>3

LEMMA RefreshStep ==
  ASSUME CacheInv, NEW r \in Readers, Refresh(r)
  PROVE  CacheInvButLimit'
<1> USE CacheAssumption DEF CacheInv, CacheInvButLimit, outside, disk, stores
<1>1. CacheTypeOK'
  <2>1. reader' \in [Readers -> Reader]
    BY MovedTyped DEF Refresh
  <2>2. rows' \in [Urls -> Row \cup {None}]
    <3> DEFINE u == reader[r].url
    <3>1. u \in Urls /\ reader[r].head \in Gens
      BY DEF Refresh, SeenIsThere, CacheTypeOK, Reader
    <3>2. CASE rows[u] = None
      BY <3>2 DEF Refresh, CacheTypeOK
    <3>3. CASE rows[u] # None
      <4>1. [rows[u] EXCEPT !.etag = reader[r].head] \in Row
        BY <3>1, <3>3 DEF CacheTypeOK, Row
      <4>2. rows' = [rows EXCEPT ![u] = [rows[u] EXCEPT !.etag = reader[r].head]]
        BY <3>3 DEF Refresh
      <4> QED
        BY <3>1, <4>1, <4>2 DEF CacheTypeOK
    <3> QED
      BY <3>2, <3>3
  <2>3. doubt' \subseteq Urls
    BY DEF Refresh, SeenIsThere, CacheTypeOK
  <2> QED
    BY <2>1, <2>2, <2>3 DEF Refresh, CacheTypeOK
<1>2. RemovedIsGone'
  BY DEF Refresh, RemovedIsGone, Storing, CacheTypeOK
<1>3. ClearSeesAll'
  BY DEF Refresh, ClearSeesAll, Storing, CacheTypeOK
<1>4. SeenIsThere'
  BY DEF Refresh, SeenIsThere, CacheTypeOK
<1>5. RowsAndFilesAgree'
  <2> DEFINE u == reader[r].url
  <2> SUFFICES ASSUME NEW v \in Urls, v \notin doubt', ~Busy(v)'
               PROVE  /\ rows'[v] = None <=> files[v] = None
                      /\ rows'[v] # None => rows'[v].etag = files[v] /\ rows'[v].size = files[v]
    BY DEF RowsAndFilesAgree, Refresh
  <2>1. v \notin doubt /\ ~Busy(v)
    BY DEF Refresh, Busy
  <2>2. rows'[v] = rows[v]
    <3>1. CASE v # u \/ rows[u] = None
      BY <3>1 DEF Refresh, CacheTypeOK
    <3>2. CASE v = u /\ rows[u] # None
      <4>1. rows[u].etag = reader[r].head
        BY <2>1, <3>2 DEF Refresh, SeenIsThere
      <4>2. rows'[u] = [rows[u] EXCEPT !.etag = reader[r].head]
        BY <3>2 DEF Refresh, CacheTypeOK
      <4>3. [rows[u] EXCEPT !.etag = reader[r].head] = rows[u]
        BY <4>1, <3>2 DEF CacheTypeOK, Row
      <4> QED
        BY <4>2, <4>3, <3>2
    <3> QED
      BY <3>1, <3>2
  <2> QED
    BY <2>1, <2>2 DEF RowsAndFilesAgree
<1>6. Held' /\ StoredAsMeasured' /\ TempsOwned'
  BY DEF Refresh, Held, StoredAsMeasured, Storing, TempsOwned
<1> QED
  BY <1>1, <1>2, <1>3, <1>4, <1>5, <1>6

LEMMA ServeStaleStep ==
  ASSUME CacheInv, NEW r \in Readers, ServeStale(r)
  PROVE  CacheInvButLimit'
<1> USE CacheAssumption DEF CacheInv, CacheInvButLimit, outside, disk, stores
<1>1. CacheTypeOK'
  BY MovedTyped DEF ServeStale, CacheTypeOK
<1>2. SeenIsThere'
  BY DEF ServeStale, SeenIsThere, CacheTypeOK
<1>3. Held' /\ StoredAsMeasured' /\ RemovedIsGone' /\ ClearSeesAll' /\ RowsAndFilesAgree' /\ TempsOwned'
  BY DEF ServeStale, Held, StoredAsMeasured, Storing, RemovedIsGone, ClearSeesAll,
         RowsAndFilesAgree, Busy, TempsOwned
<1> QED
  BY <1>1, <1>2, <1>3

LEMMA CloseStep ==
  ASSUME CacheInv, NEW r \in Readers, Open(r) \/ Leave(r)
  PROVE  CacheInvButLimit'
<1> USE CacheAssumption DEF CacheInv, CacheInvButLimit, outside, disk, stores
<1>1. CacheTypeOK'
  BY NothingTyped DEF Open, Leave, CacheTypeOK
<1>2. SeenIsThere'
  BY DEF Open, Leave, SeenIsThere, NoReader, CacheTypeOK
<1>3. Held' /\ StoredAsMeasured' /\ RemovedIsGone' /\ ClearSeesAll' /\ RowsAndFilesAgree' /\ TempsOwned'
  BY DEF Open, Leave, Held, StoredAsMeasured, Storing, RemovedIsGone, ClearSeesAll,
         RowsAndFilesAgree, Busy, TempsOwned
<1> QED
  BY <1>1, <1>2, <1>3

LEMMA DownloadStep ==
  ASSUME CacheInv, NEW u \in Urls, NEW g \in Gens, Download(u, g)
  PROVE  CacheInvButLimit'
<1> USE CacheAssumption DEF CacheInv, CacheInvButLimit, outside, disk, stores
<1>1. CacheTypeOK'
  <2>1. [at |-> "temp", gen |-> g, size |-> AnyGen] \in Store
    BY DEF Store, AnyGen
  <2> QED
    BY <2>1 DEF Download, CacheTypeOK
<1>2. StoredAsMeasured'
  BY DEF Download, StoredAsMeasured, Storing, CacheTypeOK
<1>3. RemovedIsGone'
  BY DEF Download, RemovedIsGone, Storing, CacheTypeOK
<1>4. ClearSeesAll'
  BY DEF Download, ClearSeesAll, Storing, CacheTypeOK
<1>5. RowsAndFilesAgree'
  BY DEF Download, RowsAndFilesAgree, Busy, CacheTypeOK
<1>6. TempsOwned'
  BY DEF Download, TempsOwned, CacheTypeOK
<1>7. Held' /\ SeenIsThere'
  BY DEF Download, Held, SeenIsThere
<1> QED
  BY <1>1, <1>2, <1>3, <1>4, <1>5, <1>6, <1>7

LEMMA GiveUpStep ==
  ASSUME CacheInv, NEW u \in Urls, GiveUp(u)
  PROVE  CacheInvButLimit'
<1> USE CacheAssumption DEF CacheInv, CacheInvButLimit, outside, disk, stores
<1>1. CacheTypeOK'
  BY NothingTyped DEF GiveUp, CacheTypeOK
<1>2. StoredAsMeasured'
  BY DEF GiveUp, StoredAsMeasured, Storing, NoStore, CacheTypeOK
<1>3. RemovedIsGone'
  BY DEF GiveUp, RemovedIsGone, Storing, NoStore, CacheTypeOK
<1>4. ClearSeesAll'
  BY DEF GiveUp, ClearSeesAll, Storing, NoStore, CacheTypeOK
<1>5. SeenIsThere'
  BY DEF GiveUp, SeenIsThere, NoStore, CacheTypeOK
<1>6. RowsAndFilesAgree'
  BY DEF GiveUp, RowsAndFilesAgree, Busy, NoStore, CacheTypeOK
<1>7. TempsOwned'
  BY DEF GiveUp, TempsOwned, NoStore, CacheTypeOK
<1>8. Held'
  BY DEF GiveUp, Held
<1> QED
  BY <1>1, <1>2, <1>3, <1>4, <1>5, <1>6, <1>7, <1>8

LEMMA RenameStep ==
  ASSUME CacheInv, NEW u \in Urls, Rename(u)
  PROVE  CacheInvButLimit'
<1> USE CacheAssumption DEF CacheInv, CacheInvButLimit, outside, disk, stores
<1>1. CacheTypeOK'
  <2>1. store' \in [Urls -> Store] /\ reader' \in [Readers -> Reader]
    BY MovedTyped DEF Rename
  <2>2. files' \in [Urls -> Gens \cup {None}]
    BY DEF Rename, CacheTypeOK, Store
  <2> QED
    BY <2>1, <2>2 DEF Rename, CacheTypeOK
<1>2. StoredAsMeasured'
  BY DEF Rename, Overtaken, StoredAsMeasured, Storing, CacheTypeOK
<1>3. RemovedIsGone'
  BY DEF Rename, Overtaken, RemovedIsGone, Storing, CacheTypeOK
<1>4. ClearSeesAll'
  BY DEF Rename, Overtaken, ClearSeesAll, Storing, CacheTypeOK
<1>5. SeenIsThere'
  BY DEF Rename, Overtaken, SeenIsThere, CacheTypeOK
<1>6. RowsAndFilesAgree'
  BY DEF Rename, Overtaken, RowsAndFilesAgree, Busy, CacheTypeOK
<1>7. TempsOwned'
  BY DEF Rename, Overtaken, TempsOwned, CacheTypeOK
<1>8. Held'
  BY DEF Rename, Held
<1> QED
  BY <1>1, <1>2, <1>3, <1>4, <1>5, <1>6, <1>7, <1>8

LEMMA SizeStep ==
  ASSUME CacheInv, NEW u \in Urls, Size(u)
  PROVE  CacheInvButLimit'
<1> USE CacheAssumption DEF CacheInv, CacheInvButLimit, outside, disk, stores
<1>1. CacheTypeOK'
  BY MovedTyped DEF Size, CacheTypeOK
<1>2. StoredAsMeasured'
  BY DEF Size, StoredAsMeasured, Storing, CacheTypeOK
<1>3. RemovedIsGone'
  BY DEF Size, RemovedIsGone, Storing, CacheTypeOK
<1>4. ClearSeesAll'
  BY DEF Size, ClearSeesAll, Storing, CacheTypeOK
<1>5. RowsAndFilesAgree'
  BY DEF Size, RowsAndFilesAgree, Busy, CacheTypeOK
<1>6. TempsOwned'
  BY DEF Size, TempsOwned, CacheTypeOK
<1>7. Held' /\ SeenIsThere'
  BY DEF Size, Held, SeenIsThere
<1> QED
  BY <1>1, <1>2, <1>3, <1>4, <1>5, <1>6, <1>7

LEMMA InsertStep ==
  ASSUME CacheInv, NEW u \in Urls, Insert(u)
  PROVE  CacheInvButLimit'
<1> USE CacheAssumption DEF CacheInv, CacheInvButLimit, outside, disk, stores
<1>1. CacheTypeOK'
  <2>1. NewRow(u) \in Row
    BY DEF CacheTypeOK, Store, Row, NewRow
  <2>2. rows' \in [Urls -> Row \cup {None}]
    BY <2>1 DEF Insert, CacheTypeOK
  <2>3. reader' \in [Readers -> Reader] /\ store' \in [Urls -> Store]
    BY MovedTyped, NothingTyped DEF Insert, CacheTypeOK
  <2> QED
    BY <2>2, <2>3 DEF Insert, CacheTypeOK
<1>2. Held'
  BY DEF Insert, Overtaken, NewRow, AboutToDelete, Connected, Held, NoStore, CacheTypeOK
<1>3. StoredAsMeasured'
  BY DEF Insert, Overtaken, NewRow, AboutToDelete, Connected, StoredAsMeasured, Storing, NoStore,
         CacheTypeOK
<1>4. RemovedIsGone'
  <2> SUFFICES ASSUME NEW v \in Urls, v = victim' \/ v \in ctl.removed
               PROVE  files[v] = None \/ v \in doubt' \/ Storing(v)'
    BY DEF Insert, RemovedIsGone
  <2>1. victim = None /\ victim' = None /\ v \in ctl.removed
    BY DEF Insert, Connected, Held
  <2>2. AboutToDelete(v)
    BY <2>1 DEF Held, AboutToDelete, CacheTypeOK, Ctl
  <2>3. CASE v = u
    BY <2>2, <2>3 DEF Insert
  <2>4. CASE v # u
    BY <2>1, <2>4 DEF Insert, RemovedIsGone, Storing, CacheTypeOK
  <2> QED
    BY <2>3, <2>4
<1>5. ClearSeesAll'
  BY DEF Insert, Overtaken, NewRow, AboutToDelete, Connected, ClearSeesAll, Storing, NoStore,
         CacheTypeOK
<1>6. SeenIsThere'
  BY DEF Insert, Overtaken, NewRow, AboutToDelete, Connected, SeenIsThere, NoStore, CacheTypeOK
<1>7. RowsAndFilesAgree'
  <2> SUFFICES ASSUME NEW v \in Urls, v \notin doubt', ~Busy(v)'
               PROVE  /\ rows'[v] = None <=> files[v] = None
                      /\ rows'[v] # None => rows'[v].etag = files[v] /\ rows'[v].size = files[v]
    BY DEF RowsAndFilesAgree, Insert
  <2>1. CASE v = u
    <3>1. files[u] # None /\ files[u] = store[u].gen /\ store[u].size = store[u].gen
      BY <2>1 DEF Insert, StoredAsMeasured, Storing
    <3>2. rows'[u] = NewRow(u) /\ NewRow(u) # None
      BY DEF Insert, CacheTypeOK, NewRow, Store
    <3> QED
      BY <2>1, <3>1, <3>2 DEF NewRow
  <2>2. CASE v # u
    <3>1. v \notin doubt /\ ~Busy(v) /\ rows'[v] = rows[v]
      BY <2>2 DEF Insert, Busy, CacheTypeOK
    <3> QED
      BY <3>1 DEF RowsAndFilesAgree
  <2> QED
    BY <2>1, <2>2
<1>8. TempsOwned'
  BY DEF Insert, Overtaken, NewRow, AboutToDelete, Connected, TempsOwned, NoStore, CacheTypeOK
<1> QED
  BY <1>1, <1>2, <1>3, <1>4, <1>5, <1>6, <1>7, <1>8

LEMMA RemoveVictimStep ==
  ASSUME CacheInv, NEW u \in Urls, RemoveVictim(u)
  PROVE  CacheInvButLimit'
<1> USE CacheAssumption DEF CacheInv, CacheInvButLimit, outside, disk, stores
<1>1. CacheTypeOK'
  BY DEF RemoveVictim, Evicting, CacheTypeOK
<1>2. Held'
  BY DEF RemoveVictim, Evicting, Held, CacheTypeOK
<1>3. StoredAsMeasured'
  BY DEF RemoveVictim, Evicting, StoredAsMeasured, Storing, CacheTypeOK
<1>4. RemovedIsGone'
  BY DEF RemoveVictim, Evicting, RemovedIsGone, Storing, CacheTypeOK
<1>5. ClearSeesAll'
  BY DEF RemoveVictim, Evicting, ClearSeesAll, Storing, CacheTypeOK
<1>6. SeenIsThere'
  BY DEF RemoveVictim, Evicting, SeenIsThere, CacheTypeOK
<1>7. RowsAndFilesAgree'
  BY DEF RemoveVictim, Evicting, RowsAndFilesAgree, Busy, CacheTypeOK
<1>8. TempsOwned'
  BY DEF RemoveVictim, TempsOwned
<1> QED
  BY <1>1, <1>2, <1>3, <1>4, <1>5, <1>6, <1>7, <1>8

LEMMA DropVictimStep ==
  ASSUME CacheInv, DropVictim
  PROVE  CacheInvButLimit'
<1> USE CacheAssumption DEF CacheInv, CacheInvButLimit, outside, disk, stores
<1>1. CacheTypeOK'
  BY DEF DropVictim, CacheTypeOK
<1>2. Held'
  BY DEF DropVictim, Held, CacheTypeOK
<1>3. RemovedIsGone'
  BY DEF DropVictim, RemovedIsGone, Storing, CacheTypeOK
<1>4. SeenIsThere'
  BY DEF DropVictim, SeenIsThere, CacheTypeOK
<1>5. RowsAndFilesAgree'
  <2> SUFFICES ASSUME NEW v \in Urls, v \notin doubt', ~Busy(v)'
               PROVE  /\ rows'[v] = None <=> files[v] = None
                      /\ rows'[v] # None => rows'[v].etag = files[v] /\ rows'[v].size = files[v]
    BY DEF RowsAndFilesAgree, DropVictim
  <2>1. CASE v = victim
    BY <2>1 DEF DropVictim, RemovedIsGone, Storing, Busy, CacheTypeOK
  <2>2. CASE v # victim
    BY <2>2 DEF DropVictim, RowsAndFilesAgree, Busy, CacheTypeOK
  <2> QED
    BY <2>1, <2>2
<1>6. StoredAsMeasured' /\ ClearSeesAll' /\ TempsOwned'
  BY DEF DropVictim, StoredAsMeasured, Storing, ClearSeesAll, TempsOwned
<1> QED
  BY <1>1, <1>2, <1>3, <1>4, <1>5, <1>6

LEMMA StoredStep ==
  ASSUME CacheInv, Stored
  PROVE  CacheInvButLimit'
<1> USE CacheAssumption DEF CacheInv, CacheInvButLimit, outside, disk, stores
<1>1. CacheTypeOK'
  BY DEF Stored, Evicting, CacheTypeOK
<1>2. Held'
  BY DEF Stored, Evicting, Held, CacheTypeOK
<1>3. StoredAsMeasured' /\ RemovedIsGone' /\ ClearSeesAll' /\ SeenIsThere' /\ RowsAndFilesAgree' /\ TempsOwned'
  BY DEF Stored, StoredAsMeasured, Storing, RemovedIsGone, ClearSeesAll, SeenIsThere,
         RowsAndFilesAgree, Busy, TempsOwned
<1> QED
  BY <1>1, <1>2, <1>3

LEMMA BeginDeleteStep ==
  ASSUME CacheInv, NEW S \in SUBSET Urls, BeginDelete(S)
  PROVE  CacheInvButLimit'
<1> USE CacheAssumption DEF CacheInv, CacheInvButLimit, outside, disk, stores
<1>1. CacheTypeOK'
  BY DEF BeginDelete, Begin, Cached, CacheTypeOK, Ctl
<1>2. Held'
  BY DEF BeginDelete, Begin, Cached, Held, CacheTypeOK
<1>3. RemovedIsGone'
  BY DEF BeginDelete, Begin, Cached, RemovedIsGone, Storing, CacheTypeOK
<1>4. ClearSeesAll'
  BY DEF BeginDelete, Begin, Cached, ClearSeesAll, Storing, CacheTypeOK
<1>5. RowsAndFilesAgree'
  <2> SUFFICES ASSUME NEW v \in Urls, v \notin doubt', ~Busy(v)'
               PROVE  /\ rows'[v] = None <=> files[v] = None
                      /\ rows'[v] # None => rows'[v].etag = files[v] /\ rows'[v].size = files[v]
    BY DEF RowsAndFilesAgree, BeginDelete, Begin
  <2>1. ctl.removed = {}
    BY DEF BeginDelete, Begin, Held
  <2>2. v \notin doubt /\ ~Busy(v) /\ rows' = rows
    BY <2>1 DEF BeginDelete, Begin, Busy
  <2> QED
    BY <2>2 DEF RowsAndFilesAgree
<1>6. StoredAsMeasured' /\ SeenIsThere' /\ TempsOwned'
  BY DEF BeginDelete, Begin, StoredAsMeasured, Storing, SeenIsThere, TempsOwned
<1> QED
  BY <1>1, <1>2, <1>3, <1>4, <1>5, <1>6

LEMMA BeginClearStep ==
  ASSUME CacheInv, BeginClear
  PROVE  CacheInvButLimit'
<1> USE CacheAssumption DEF CacheInv, CacheInvButLimit, outside, disk, stores
<1>1. CacheTypeOK'
  BY DEF BeginClear, Begin, Cached, CacheTypeOK, Ctl
<1>2. Held'
  BY DEF BeginClear, Begin, Cached, Held, CacheTypeOK
<1>3. RemovedIsGone'
  BY DEF BeginClear, Begin, Cached, RemovedIsGone, Storing, CacheTypeOK
<1>4. ClearSeesAll'
  <2>1. ctl.removed = {}
    BY DEF BeginClear, Begin, Held
  <2> SUFFICES ASSUME NEW u \in Urls, rows[u] = None
               PROVE  files[u] = None \/ u \in doubt \/ Storing(u)
    BY DEF BeginClear, Begin, ClearSeesAll, Storing, Cached
  <2> QED
    BY <2>1 DEF RemovedIsGone, RowsAndFilesAgree, Busy, Storing
<1>5. RowsAndFilesAgree'
  <2> SUFFICES ASSUME NEW v \in Urls, v \notin doubt', ~Busy(v)'
               PROVE  /\ rows'[v] = None <=> files[v] = None
                      /\ rows'[v] # None => rows'[v].etag = files[v] /\ rows'[v].size = files[v]
    BY DEF RowsAndFilesAgree, BeginClear, Begin
  <2>1. ctl.removed = {}
    BY DEF BeginClear, Begin, Held
  <2>2. v \notin doubt /\ ~Busy(v) /\ rows' = rows
    BY <2>1 DEF BeginClear, Begin, Busy
  <2> QED
    BY <2>2 DEF RowsAndFilesAgree
<1>6. StoredAsMeasured' /\ SeenIsThere' /\ TempsOwned'
  BY DEF BeginClear, Begin, StoredAsMeasured, Storing, SeenIsThere, TempsOwned
<1> QED
  BY <1>1, <1>2, <1>3, <1>4, <1>5, <1>6

LEMMA CtlRemoveStep ==
  ASSUME CacheInv, NEW u \in Urls, CtlRemove(u)
  PROVE  CacheInvButLimit'
<1> USE CacheAssumption DEF CacheInv, CacheInvButLimit, outside, disk, stores
<1>1. CacheTypeOK'
  BY DEF CtlRemove, CacheTypeOK, Ctl
<1>2. Held'
  BY DEF CtlRemove, Held, CacheTypeOK
<1>3. StoredAsMeasured'
  BY DEF CtlRemove, StoredAsMeasured, Storing, CacheTypeOK
<1>4. RemovedIsGone'
  BY DEF CtlRemove, RemovedIsGone, Storing, CacheTypeOK
<1>5. ClearSeesAll'
  BY DEF CtlRemove, ClearSeesAll, Storing, CacheTypeOK
<1>6. SeenIsThere'
  BY DEF CtlRemove, SeenIsThere, CacheTypeOK
<1>7. RowsAndFilesAgree'
  BY DEF CtlRemove, RowsAndFilesAgree, Busy, CacheTypeOK
<1>8. TempsOwned'
  BY DEF CtlRemove, TempsOwned
<1> QED
  BY <1>1, <1>2, <1>3, <1>4, <1>5, <1>6, <1>7, <1>8

LEMMA CtlSkipStep ==
  ASSUME CacheInv, NEW u \in Urls, CtlSkip(u)
  PROVE  CacheInvButLimit'
<1> USE CacheAssumption DEF CacheInv, CacheInvButLimit, outside, disk, stores
<1>1. CacheTypeOK'
  BY DEF CtlSkip, CacheTypeOK, Ctl
<1>2. Held'
  BY DEF CtlSkip, Held, CacheTypeOK
<1>3. RemovedIsGone'
  BY DEF CtlSkip, RemovedIsGone, Storing, CacheTypeOK
<1>4. ClearSeesAll'
  BY DEF CtlSkip, ClearSeesAll, Storing, CacheTypeOK
<1>5. RowsAndFilesAgree'
  BY DEF CtlSkip, RowsAndFilesAgree, Busy, CacheTypeOK
<1>6. StoredAsMeasured' /\ SeenIsThere' /\ TempsOwned'
  BY DEF CtlSkip, StoredAsMeasured, Storing, SeenIsThere, TempsOwned
<1> QED
  BY <1>1, <1>2, <1>3, <1>4, <1>5, <1>6

LEMMA CtlDropRowStep ==
  ASSUME CacheInv, NEW u \in Urls, CtlDropRow(u)
  PROVE  CacheInvButLimit'
<1> USE CacheAssumption DEF CacheInv, CacheInvButLimit, outside, disk, stores
<1>1. CacheTypeOK'
  BY DEF CtlDropRow, CacheTypeOK, Ctl
<1>2. Held'
  BY DEF CtlDropRow, Held, CacheTypeOK
<1>3. RemovedIsGone'
  BY DEF CtlDropRow, RemovedIsGone, Storing, CacheTypeOK
<1>4. ClearSeesAll'
  BY DEF CtlDropRow, ClearSeesAll, Storing, CacheTypeOK
<1>5. SeenIsThere'
  BY DEF CtlDropRow, SeenIsThere, CacheTypeOK
<1>6. RowsAndFilesAgree'
  <2> SUFFICES ASSUME NEW v \in Urls, v \notin doubt', ~Busy(v)'
               PROVE  /\ rows'[v] = None <=> files[v] = None
                      /\ rows'[v] # None => rows'[v].etag = files[v] /\ rows'[v].size = files[v]
    BY DEF RowsAndFilesAgree, CtlDropRow
  <2>1. CASE v = u
    BY <2>1 DEF CtlDropRow, RemovedIsGone, Storing, Busy, CacheTypeOK
  <2>2. CASE v # u
    <3>1. v \notin ctl.removed
      BY <2>2 DEF CtlDropRow, Held
    <3> QED
      BY <2>2, <3>1 DEF CtlDropRow, RowsAndFilesAgree, Busy
  <2> QED
    BY <2>1, <2>2
<1>7. StoredAsMeasured' /\ TempsOwned'
  BY DEF CtlDropRow, StoredAsMeasured, Storing, TempsOwned
<1> QED
  BY <1>1, <1>2, <1>3, <1>4, <1>5, <1>6, <1>7

LEMMA CtlDropAllStep ==
  ASSUME CacheInv, CtlDropAll
  PROVE  CacheInvButLimit'
<1> USE CacheAssumption DEF CacheInv, CacheInvButLimit, outside, disk, stores
<1>1. CacheTypeOK'
  BY DEF CtlDropAll, CacheTypeOK, Ctl
<1>2. Held'
  BY DEF CtlDropAll, Held, CacheTypeOK
<1>3. RemovedIsGone'
  BY DEF CtlDropAll, RemovedIsGone, Storing, CacheTypeOK
<1>4. ClearSeesAll'
  BY DEF CtlDropAll, ClearSeesAll, Storing, CacheTypeOK
<1>5. SeenIsThere'
  BY DEF CtlDropAll, SeenIsThere, CacheTypeOK
<1>6. RowsAndFilesAgree'
  <2> SUFFICES ASSUME NEW v \in Urls, v \notin doubt', ~Busy(v)'
               PROVE  /\ rows'[v] = None <=> files[v] = None
                      /\ rows'[v] # None => rows'[v].etag = files[v] /\ rows'[v].size = files[v]
    BY DEF RowsAndFilesAgree, CtlDropAll
  <2>1. rows'[v] = None /\ files[v] = None
    BY DEF CtlDropAll, ClearSeesAll, Storing, Busy
  <2> QED
    BY <2>1
<1>7. StoredAsMeasured' /\ TempsOwned'
  BY DEF CtlDropAll, StoredAsMeasured, Storing, TempsOwned
<1> QED
  BY <1>1, <1>2, <1>3, <1>4, <1>5, <1>6, <1>7

LEMMA CtlDropTempsStep ==
  ASSUME CacheInv, CtlDropTemps
  PROVE  CacheInvButLimit'
<1> USE CacheAssumption DEF CacheInv, CacheInvButLimit, outside, disk, stores
<1>1. CacheTypeOK'
  BY DEF CtlDropTemps, CacheTypeOK, NoCtl, Ctl
<1>2. Held'
  BY DEF CtlDropTemps, Held, NoCtl, CacheTypeOK
<1>3. RemovedIsGone'
  BY DEF CtlDropTemps, RemovedIsGone, Storing, NoCtl, CacheTypeOK
<1>4. ClearSeesAll'
  BY DEF CtlDropTemps, ClearSeesAll, Storing, NoCtl, CacheTypeOK
<1>5. RowsAndFilesAgree'
  <2> SUFFICES ASSUME NEW v \in Urls, v \notin doubt', ~Busy(v)'
               PROVE  /\ rows'[v] = None <=> files[v] = None
                      /\ rows'[v] # None => rows'[v].etag = files[v] /\ rows'[v].size = files[v]
    BY DEF RowsAndFilesAgree, CtlDropTemps
  <2>1. v \notin doubt /\ ~Busy(v) /\ rows' = rows
    BY DEF CtlDropTemps, Busy, Held
  <2> QED
    BY <2>1 DEF RowsAndFilesAgree
<1>6. TempsOwned'
  BY DEF CtlDropTemps, TempsOwned, NoCtl, CacheTypeOK
<1>7. StoredAsMeasured' /\ SeenIsThere'
  BY DEF CtlDropTemps, StoredAsMeasured, Storing, SeenIsThere
<1> QED
  BY <1>1, <1>2, <1>3, <1>4, <1>5, <1>6, <1>7

LEMMA CtlEndsStep ==
  ASSUME CacheInv, CtlEnds
  PROVE  CacheInvButLimit'
<1> USE CacheAssumption DEF CacheInv, CacheInvButLimit, outside, disk, stores
<1>1. CacheTypeOK'
  BY DEF CtlEnds, CacheTypeOK, NoCtl, Ctl
<1>2. Held'
  BY DEF CtlEnds, Held, NoCtl, CacheTypeOK
<1>3. RemovedIsGone'
  BY DEF CtlEnds, RemovedIsGone, Storing, NoCtl, CacheTypeOK
<1>4. ClearSeesAll'
  BY DEF CtlEnds, ClearSeesAll, Storing, NoCtl, CacheTypeOK
<1>5. RowsAndFilesAgree'
  BY DEF CtlEnds, RowsAndFilesAgree, Busy, NoCtl, CacheTypeOK
<1>6. StoredAsMeasured' /\ SeenIsThere' /\ TempsOwned'
  BY DEF CtlEnds, StoredAsMeasured, Storing, SeenIsThere, TempsOwned
<1> QED
  BY <1>1, <1>2, <1>3, <1>4, <1>5, <1>6

LEMMA CtlKilledStep ==
  ASSUME CacheInv, CtlKilled
  PROVE  CacheInvButLimit'
<1> USE CacheAssumption DEF CacheInv, CacheInvButLimit, outside, disk, stores
<1>1. CacheTypeOK'
  BY DEF CtlKilled, CacheTypeOK, NoCtl, Ctl
<1>2. Held'
  BY DEF CtlKilled, Held, NoCtl, CacheTypeOK
<1>3. RemovedIsGone'
  BY DEF CtlKilled, RemovedIsGone, Storing, NoCtl, CacheTypeOK
<1>4. ClearSeesAll'
  BY DEF CtlKilled, ClearSeesAll, Storing, NoCtl, CacheTypeOK
<1>5. SeenIsThere'
  BY DEF CtlKilled, SeenIsThere, NoCtl, CacheTypeOK
<1>6. RowsAndFilesAgree'
  BY DEF CtlKilled, RowsAndFilesAgree, Busy, NoCtl, CacheTypeOK
<1>7. StoredAsMeasured' /\ TempsOwned'
  BY DEF CtlKilled, StoredAsMeasured, Storing, TempsOwned
<1> QED
  BY <1>1, <1>2, <1>3, <1>4, <1>5, <1>6, <1>7

LEMMA CrashStep ==
  ASSUME CacheInv, Crash
  PROVE  CacheInvButLimit'
<1> USE CacheAssumption DEF CacheInv, CacheInvButLimit, outside, disk, stores
<1>1. CacheTypeOK'
  BY NothingTyped DEF Crash, CacheTypeOK
<1>2. Held'
  BY DEF Crash, Held, NoStore, NoReader, CacheTypeOK
<1>3. StoredAsMeasured'
  BY DEF Crash, StoredAsMeasured, Storing, NoStore, NoReader, CacheTypeOK
<1>4. RemovedIsGone'
  BY DEF Crash, RemovedIsGone, Storing, NoStore, NoReader, CacheTypeOK
<1>5. ClearSeesAll'
  BY DEF Crash, ClearSeesAll, Storing, NoStore, NoReader, CacheTypeOK
<1>6. SeenIsThere'
  BY DEF Crash, SeenIsThere, NoStore, NoReader, CacheTypeOK
<1>7. RowsAndFilesAgree'
  BY DEF Crash, RowsAndFilesAgree, Busy, NoStore, NoReader, CacheTypeOK
<1>8. TempsOwned'
  BY DEF Crash, TempsOwned, NoStore, NoReader, CacheTypeOK
<1> QED
  BY <1>1, <1>2, <1>3, <1>4, <1>5, <1>6, <1>7, <1>8

LEMMA RestartStep ==
  ASSUME CacheInv, Restart
  PROVE  CacheInvButLimit'
<1> USE CacheAssumption DEF CacheInv, CacheInvButLimit, outside, disk, stores
<1>1. CacheTypeOK'
  BY DEF Restart, CacheTypeOK
<1>2. TempsOwned'
  BY DEF Restart, TempsOwned, CacheTypeOK
<1>3. Held' /\ StoredAsMeasured' /\ RemovedIsGone' /\ ClearSeesAll' /\ SeenIsThere' /\ RowsAndFilesAgree'
  BY DEF Restart, Held, StoredAsMeasured, Storing, RemovedIsGone, ClearSeesAll, SeenIsThere,
         RowsAndFilesAgree, Busy
<1> QED
  BY <1>1, <1>2, <1>3

\* Every step keeps rows and files in order.
LEMMA NextKeeps ==
  ASSUME CacheInv, CacheNext
  PROVE  CacheInvButLimit'
<1>1. CASE \E r \in Readers : ReaderStep(r)
  BY <1>1, LookupHitStep, LookupDanglingStep, ConfirmStep, RefreshStep, ServeStaleStep, CloseStep
     DEF ReaderStep
<1>2. CASE \E u \in Urls : StoreStep(u)
  BY <1>2, DownloadStep, GiveUpStep, RenameStep, SizeStep, InsertStep, RemoveVictimStep
     DEF StoreStep
<1>3. CASE CtlStep
  BY <1>3, BeginDeleteStep, BeginClearStep, CtlRemoveStep, CtlSkipStep, CtlDropRowStep,
     CtlDropAllStep, CtlDropTempsStep, CtlEndsStep, CtlKilledStep
     DEF CtlStep
<1> QED
  BY <1>1, <1>2, <1>3, DropVictimStep, StoredStep, CrashStep, RestartStep DEF CacheNext

-----------------------------------------------------------------------------
(* What is counted.                                                        *)

LEMMA UnitsFinite ==
  ASSUME CacheTypeOK
  PROVE  IsFiniteSet(RowUnits) /\ Total \in Nat
<1> DEFINE UnitsOf(u) == {u} \X (1 .. rows[u].size)
<1>1. IsFiniteSet(Cached)
  BY CacheAssumption, FS_Subset DEF Cached
<1>2. IsFiniteSet({UnitsOf(u) : u \in Cached})
  <2>1. [u \in Cached |-> UnitsOf(u)] \in Surjection(Cached, {UnitsOf(u) : u \in Cached})
    BY DEF Surjection
  <2> QED
    BY <2>1, <1>1, FS_Surjection
<1>3. \A u \in Cached : IsFiniteSet(UnitsOf(u))
  <2> TAKE u \in Cached
  <2>1. rows[u].size \in Nat
    BY CacheAssumption DEF Cached, CacheTypeOK, Row
  <2>2. IsFiniteSet(1 .. rows[u].size) /\ IsFiniteSet({u})
    <3>1. 1 \in Int /\ rows[u].size \in Int
      BY <2>1
    <3>2. IsFiniteSet(1 .. rows[u].size)
      BY <3>1, FS_Interval
    <3> QED
      BY <3>2, FS_Singleton
  <2> QED
    BY <2>2, FS_Product
<1>4. IsFiniteSet(RowUnits)
  BY <1>2, <1>3, FS_UNION DEF RowUnits
<1> QED
  BY <1>4, FS_CardinalityType DEF Total

\* Rows that only go, or change but for their length, take no more.
LEMMA FewerUnits ==
  ASSUME CacheTypeOK, CacheTypeOK',
         \A u \in Urls : rows'[u] = None \/ (rows[u] # None /\ rows'[u].size = rows[u].size)
  PROVE  Total \in Nat /\ Total' \in Nat /\ Total' <= Total
<1>1. RowUnits' \subseteq RowUnits
  BY DEF RowUnits, Cached
<1>2. IsFiniteSet(RowUnits) /\ Total \in Nat
  BY UnitsFinite
<1>3. IsFiniteSet(RowUnits')
  BY <1>1, <1>2, FS_Subset
<1> QED
  BY <1>1, <1>2, <1>3, FS_Subset, FS_CardinalityType DEF Total

LEMMA LimitKept ==
  ASSUME CacheInv, CacheNext, CacheTypeOK'
  PROVE  RowsWithinLimit'
<1> USE CacheAssumption DEF outside, disk, stores
<1>1. CASE \E u \in Urls : Insert(u)
  BY <1>1 DEF Insert, RowsWithinLimit
<1>2. CASE Stored
  BY <1>2 DEF Stored, RowsWithinLimit, Total, RowUnits, Cached
<1>3. CASE Crash
  BY <1>3 DEF Crash, CacheInv, RowsWithinLimit, Total, RowUnits, Cached
<1> DEFINE Shrunk ==
             \A u \in Urls : rows'[u] = None \/ (rows[u] # None /\ rows'[u].size = rows[u].size)
<1>4. rows \in [Urls -> Row \cup {None}] /\ CacheTypeOK
  BY DEF CacheInv, CacheInvButLimit, CacheTypeOK
<1>5. CASE UNCHANGED <<lock, cut>> /\ Shrunk
  <2>1. Total \in Nat /\ Total' \in Nat /\ Total' <= Total
    BY <1>4, <1>5, FewerUnits
  <2> HIDE DEF Shrunk
  <2> QED
    BY <2>1, <1>5 DEF CacheInv, RowsWithinLimit
<1>6. CASE UNCHANGED <<lock, cut>> /\ \A v \in Urls : rows'[v] \in {None, rows[v]}
  <2>1. ASSUME NEW v \in Urls, rows'[v] # None
        PROVE  rows[v] # None /\ rows'[v].size = rows[v].size
    <3>1. rows'[v] = rows[v]
      BY <2>1, <1>6
    <3> QED
      BY <2>1, <3>1, Zenon
  <2> QED
    <3>1. Shrunk
      BY <2>1, Zenon
    <3> HIDE DEF Shrunk
    <3> QED
      BY <3>1, <1>6, <1>5
<1>7. CASE \E r \in Readers : ReaderStep(r)
  <2> PICK r \in Readers : ReaderStep(r)
    BY <1>7
  <2>1. UNCHANGED <<lock, cut>>
    BY DEF ReaderStep, LookupHit, LookupDangling, Confirm, Refresh, ServeStale, Open, Leave
  <2>2. CASE \E u \in Urls : LookupDangling(r, u)
    <3>1. \A v \in Urls : rows'[v] \in {None, rows[v]}
      BY <2>2, <1>4 DEF LookupDangling
    <3> QED
      BY <2>1, <3>1, <1>6
  <2>3. CASE Refresh(r)
    <3> DEFINE u == reader[r].url
    <3>1. CASE rows[u] = None
      BY <2>1, <2>3, <3>1, <1>5 DEF Refresh
    <3>2. CASE rows[u] # None
      <4>1. rows' = [rows EXCEPT ![u].etag = reader[r].head]
        BY <2>3, <3>2 DEF Refresh
      <4>2. ASSUME NEW v \in Urls, rows[v] # None
            PROVE  rows'[v].size = rows[v].size
        <5>1. rows[v] \in Row
          BY <4>2, <1>4
        <5> QED
          BY <4>1, <5>1, <1>4 DEF Row
      <4>3. ASSUME NEW v \in Urls, rows[v] = None
            PROVE  rows'[v] = None
        BY <3>2, <4>1, <4>3, <1>4
      <4> QED
        BY <2>1, <4>2, <4>3, <1>5
    <3> QED
      BY <3>1, <3>2
  <2>4. CASE rows' = rows
    BY <2>1, <2>4, <1>5
  <2> QED
    BY <2>2, <2>3, <2>4
       DEF ReaderStep, LookupHit, Confirm, ServeStale, Open, Leave
<1>8. CASE \E u \in Urls : StoreStep(u)
  BY <1>1, <1>5, <1>8 DEF StoreStep, Download, GiveUp, Rename, Size, RemoveVictim
<1>9. CASE CtlStep
  <2>1. UNCHANGED <<lock, cut>>
    BY <1>9 DEF CtlStep, BeginDelete, BeginClear, Begin, CtlRemove, CtlSkip, CtlDropRow,
       CtlDropAll, CtlDropTemps, CtlEnds, CtlKilled
  <2>2. CASE CtlDropAll \/ \E u \in Urls : CtlDropRow(u)
    <3>1. \A v \in Urls : rows'[v] \in {None, rows[v]}
      BY <2>2, <1>4 DEF CtlDropAll, CtlDropRow
    <3> QED
      BY <2>1, <3>1, <1>6
  <2>3. CASE rows' = rows
    BY <2>1, <2>3, <1>5
  <2> QED
    BY <1>9, <2>2, <2>3 DEF CtlStep, BeginDelete, BeginClear, Begin, CtlRemove, CtlSkip,
       CtlDropTemps, CtlEnds, CtlKilled
<1>10. CASE DropVictim \/ Restart
  <2>1. \A v \in Urls : rows'[v] \in {None, rows[v]}
    BY <1>10, <1>4 DEF DropVictim, Restart
  <2>2. UNCHANGED <<lock, cut>>
    BY <1>10 DEF DropVictim, Restart
  <2> QED
    BY <2>1, <2>2, <1>6
<1> QED
  BY <1>2, <1>3, <1>7, <1>8, <1>9, <1>10 DEF CacheNext

-----------------------------------------------------------------------------
LEMMA CacheInitInv == CacheInit => CacheInv
<1> SUFFICES ASSUME CacheInit PROVE CacheInv
  OBVIOUS
<1>1. CacheTypeOK
  BY NothingTyped, CacheAssumption DEF CacheInit, CacheTypeOK
<1>2. Held /\ StoredAsMeasured /\ RemovedIsGone /\ ClearSeesAll /\ SeenIsThere
  BY CacheAssumption DEF CacheInit, Held, StoredAsMeasured, Storing, RemovedIsGone, ClearSeesAll,
     SeenIsThere, NoReader, NoStore, NoCtl
<1>3. RowsAndFilesAgree /\ TempsOwned
  BY DEF CacheInit, RowsAndFilesAgree, TempsOwned
<1>4. RowsWithinLimit
  <2>1. RowUnits = {}
    BY DEF CacheInit, RowUnits, Cached
  <2> QED
    BY <2>1, FS_EmptySet, CacheAssumption DEF RowsWithinLimit, Total
<1> QED
  BY <1>1, <1>2, <1>3, <1>4 DEF CacheInv, CacheInvButLimit

LEMMA CacheStutters ==
  ASSUME CacheInv, UNCHANGED cacheVars
  PROVE  CacheInv'
<1>1. CacheInvButLimit'
  BY DEF CacheInv, CacheInvButLimit, cacheVars, CacheTypeOK, Held, StoredAsMeasured, Storing,
     RemovedIsGone, ClearSeesAll, SeenIsThere, RowsAndFilesAgree, Busy, TempsOwned
<1>2. RowsWithinLimit'
  BY DEF CacheInv, RowsWithinLimit, Total, RowUnits, Cached, cacheVars
<1> QED
  BY <1>1, <1>2 DEF CacheInv

(* The invariant that the guarantees below follow from holds through every *)
(* interleaving of the requests, the stores, blitzctl and crashes.         *)
THEOREM CacheInvariant == CacheSpec => []CacheInv
<1>1. CacheInv /\ [CacheNext]_cacheVars => CacheInv'
  <2> SUFFICES ASSUME CacheInv, [CacheNext]_cacheVars PROVE CacheInv'
    OBVIOUS
  <2>1. CASE CacheNext
    <3>1. CacheInvButLimit'
      BY <2>1, NextKeeps
    <3>2. RowsWithinLimit'
      BY <2>1, <3>1, LimitKept DEF CacheInvButLimit
    <3> QED
      BY <3>1, <3>2 DEF CacheInv
  <2> QED
    BY <2>1, CacheStutters
<1> QED
  BY <1>1, CacheInitInv, PTL DEF CacheSpec

-----------------------------------------------------------------------------
(* What follows from the invariant.                                        *)

(* The row of a URL and its file are there together, and the row tells the *)
(* file's generation and length, wherever no step is under way and none of *)
(* the known causes struck (store, evict_inner, refresh, delete_by_urls,   *)
(* clear_all, lookup_entry).                                               *)
THEOREM RowsAndFilesAlwaysAgree == CacheSpec => []RowsAndFilesAgree
<1>1. CacheInv => RowsAndFilesAgree
  BY DEF CacheInv, CacheInvButLimit
<1> QED
  BY <1>1, CacheInvariant, PTL

(* The files in good standing fit in max_cache_size whenever the mutex is  *)
(* free and no crash cut an eviction short: they are no longer than the    *)
(* rows say, and evict_inner stops only once those fit.                    *)
THEOREM DiskAlwaysWithinLimit == CacheSpec => []DiskWithinLimit
<1>1. ASSUME CacheInv, lock = None, ~cut
      PROVE  Cardinality(DiskUnits) <= MaxSize
  <2>1. DiskUnits \subseteq RowUnits
    BY <1>1 DEF CacheInv, CacheInvButLimit, RowsAndFilesAgree, DiskUnits, RowUnits, Cached
  <2>2. IsFiniteSet(RowUnits) /\ Total \in Nat
    BY <1>1, UnitsFinite DEF CacheInv, CacheInvButLimit
  <2>3. Cardinality(DiskUnits) \in Nat /\ Cardinality(DiskUnits) <= Total
    BY <2>1, <2>2, FS_Subset, FS_CardinalityType DEF Total
  <2>4. Total <= MaxSize
    BY <1>1 DEF CacheInv, RowsWithinLimit
  <2> QED
    BY <2>2, <2>3, <2>4, CacheAssumption
<1>2. CacheInv => DiskWithinLimit
  BY <1>1 DEF DiskWithinLimit
<1> QED
  BY <1>2, CacheInvariant, PTL

(* A request that nothing overtook opens the file whose headers it has, or *)
(* none: what may be sent under other headers is a file that was replaced  *)
(* since lookup_entry (serve_file).                                        *)
THEOREM AlwaysServedWithItsHeaders == CacheSpec => []ServedWithItsHeaders
<1>1. CacheInv => ServedWithItsHeaders
  BY DEF CacheInv, CacheInvButLimit, SeenIsThere, ServedWithItsHeaders
<1> QED
  BY <1>1, CacheInvariant, PTL

(* While the proxy runs, every temporary file is that of a running         *)
(* download (spawn_cache_persistence, and the cleanup of run_proxy).       *)
THEOREM TempsAlwaysOwned == CacheSpec => []TempsOwned
<1>1. CacheInv => TempsOwned
  BY DEF CacheInv, CacheInvButLimit
<1> QED
  BY <1>1, CacheInvariant, PTL

=============================================================================
