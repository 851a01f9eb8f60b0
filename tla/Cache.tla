-------------------------------- MODULE Cache --------------------------------
(***************************************************************************)
(* The disk cache of src/cache.rs: rows in SQLite, files beside them, and  *)
(* nothing that keeps the two together but the order of the statements.    *)
(*                                                                         *)
(* The actors are the proxy's requests (lookup, revalidation, serve_file), *)
(* its persistence tasks (store and the eviction in it), blitzctl, which   *)
(* is another process with a connection of its own, and crashes.  One      *)
(* action is one SQL statement or one operation on a file, or several that *)
(* the mutex of the proxy's connection keeps from everybody who could see  *)
(* the difference.                                                         *)
(*                                                                         *)
(* A generation of a file is named by the file's length, so a size read    *)
(* from the disk tells which generation was there.  There is no clock:     *)
(* whether a row is still fresh (Freshness) and which row was used least   *)
(* recently are free choices here.                                         *)
(***************************************************************************)
EXTENDS Integers, FiniteSets

CONSTANTS
  Urls, Readers, None,
  Gens,        \* generations an upstream may have, by their length
  MaxSize,     \* max_cache_size
  MaxTargets   \* bound on the URLs of one blitzctl cache rm

ASSUME CacheAssumption ==
  /\ Gens \subseteq Nat \ {0} /\ Gens # {}
  /\ MaxSize \in Nat /\ MaxTargets \in Nat
  /\ IsFiniteSet(Urls)
  /\ None \notin Gens \cup Urls \cup [etag : Gens, size : Gens]

VARIABLES
  up,             \* whether the proxy runs
  rows, files,    \* the table, and the file at each final path
  temps,          \* URLs with a tmp/*.download file
  store,          \* the persistence task of each URL
  lock, victim,   \* the store that holds the connection; the row it evicts
  reader,         \* the request of each reader
  ctl,            \* the command blitzctl runs
  doubt,          \* history: URLs whose row and file may have come apart
  cut             \* history: whether a crash cut the last eviction short

cacheVars == <<up, rows, files, temps, store, lock, victim,
               reader, ctl, doubt, cut>>

Row == [etag : Gens, size : Gens]

Store == [at : {"none", "temp", "renamed", "sized"}, gen : Gens, size : Gens]

Reader == [at : {"idle", "asking", "confirmed", "opening"}, url : Urls \cup {None},
           head : Gens, late : BOOLEAN]

Ctl == [at : {"idle", "deleting", "clearing", "cleared"}, left : SUBSET Urls,
        removed : SUBSET Urls]

CacheTypeOK ==
  /\ up \in BOOLEAN
  /\ rows \in [Urls -> Row \cup {None}]
  /\ files \in [Urls -> Gens \cup {None}]
  /\ temps \subseteq Urls
  /\ store \in [Urls -> Store]
  /\ lock \in Urls \cup {None} /\ victim \in Urls \cup {None}
  /\ reader \in [Readers -> Reader]
  /\ ctl \in Ctl
  /\ doubt \subseteq Urls /\ cut \in BOOLEAN

AnyGen == CHOOSE g \in Gens : TRUE
NoReader == [at |-> "idle", url |-> None, head |-> AnyGen, late |-> FALSE]
NoStore == [at |-> "none", gen |-> AnyGen, size |-> AnyGen]
NoCtl == [at |-> "idle", left |-> {}, removed |-> {}]

\* decide_revalidate: 304, or a success that names the etag of the row.
Confirms(status, head, etag) == status = "not-modified" \/ (status = "ok" /\ etag = head)

CacheInit ==
  /\ up = TRUE
  /\ rows = [u \in Urls |-> None]
  /\ files = [u \in Urls |-> None]
  /\ temps = {}
  /\ store = [u \in Urls |-> NoStore]
  /\ lock = None /\ victim = None
  /\ reader = [r \in Readers |-> NoReader]
  /\ ctl = NoCtl
  /\ doubt = {} /\ cut = FALSE

disk == <<rows, files, temps>>
stores == <<store, lock, victim>>
outside == <<up, cut>>

Cached == {u \in Urls : rows[u] # None}

(* SUM(size): lengths are added by counting the units of all of them.      *)
RowUnits == UNION {{u} \X (1 .. rows[u].size) : u \in Cached}

Total == Cardinality(RowUnits)

(* The requests that looked the row of u up before it was replaced.        *)
Overtaken(u) ==
  [r \in Readers |-> IF reader[r].url = u /\ reader[r].at \in {"asking", "confirmed", "opening"}
                     THEN [reader[r] EXCEPT !.late = TRUE] ELSE reader[r]]

-----------------------------------------------------------------------------
(* lookup_entry and what the request does with its answer.                 *)

Idle(r) == up /\ reader[r].at = "idle"

\* The mutex of the connection is free.
Connected == up /\ lock = None

LookupHit(r, u, fresh) ==
  /\ Idle(r) /\ Connected
  /\ rows[u] # None /\ files[u] # None
  /\ reader' = [reader EXCEPT ![r] =
       [at |-> IF fresh THEN "opening" ELSE "asking", url |-> u, head |-> rows[u].etag,
        late |-> u \in doubt \/ store[u].at \in {"renamed", "sized"}]]
  /\ UNCHANGED <<outside, disk, stores, ctl, doubt>>

\* A row without its file is deleted where it is found.
LookupDangling(r, u) ==
  /\ Idle(r) /\ Connected
  /\ rows[u] # None /\ files[u] = None
  /\ rows' = [rows EXCEPT ![u] = None]
  /\ UNCHANGED <<outside, files, temps, stores, reader, ctl, doubt>>

(* The conditional HEAD, answered by an upstream whose file has the        *)
(* generation etag: 304 only if that is the one asked about.  The headers  *)
(* that are kept then are those of the row that was looked up.             *)
Confirm(r, status, etag) ==
  /\ up /\ reader[r].at = "asking"
  /\ status = "not-modified" => etag = reader[r].head
  /\ Confirms(status, reader[r].head, etag)
  /\ reader' = [reader EXCEPT ![r].at = "confirmed"]
  /\ UNCHANGED <<outside, disk, stores, ctl, doubt>>

(* refresh: headers and date, by URL.  A row that is gone stays gone.  The *)
(* statement does not ask which generation the row is of by now.           *)
Refresh(r) ==
  /\ Connected /\ reader[r].at = "confirmed"
  /\ LET u == reader[r].url IN
     /\ rows' = IF rows[u] = None THEN rows
                ELSE [rows EXCEPT ![u].etag = reader[r].head]
     /\ doubt' = IF reader[r].late THEN doubt \cup {u} ELSE doubt
  /\ reader' = [reader EXCEPT ![r].at = "opening"]
  /\ UNCHANGED <<outside, files, temps, stores, ctl>>

\* The UPDATE fails, or HEAD was not answered: the stale copy is served.
ServeStale(r) ==
  /\ up /\ reader[r].at \in {"asking", "confirmed"}
  /\ reader' = [reader EXCEPT ![r].at = "opening"]
  /\ UNCHANGED <<outside, disk, stores, ctl, doubt>>

(* serve_file opens the path again and sends whatever is there by now, or  *)
(* answers 500 if nothing is; any request may also end early (a changed    *)
(* upstream, which leads to a Download, or a client that goes away).       *)
Open(r) ==
  /\ up /\ reader[r].at = "opening"
  /\ reader' = [reader EXCEPT ![r] = NoReader]
  /\ UNCHANGED <<outside, disk, stores, ctl, doubt>>

Leave(r) ==
  /\ up /\ reader[r].at \in {"asking", "confirmed"}
  /\ reader' = [reader EXCEPT ![r] = NoReader]
  /\ UNCHANGED <<outside, disk, stores, ctl, doubt>>

-----------------------------------------------------------------------------
(* store, called by the persistence task of a download.  The coalescer     *)
(* keeps the downloads of one URL apart (OneDownloadPerUrl of RequestFlow). *)

(* A download, led by a request that found nothing or a changed file, of   *)
(* the generation the upstream has by now.                                 *)
Download(u, g) ==
  /\ up /\ store[u].at = "none" /\ lock # u
  /\ store' = [store EXCEPT ![u] = [at |-> "temp", gen |-> g, size |-> AnyGen]]
  /\ temps' = temps \cup {u}
  /\ UNCHANGED <<outside, rows, files, lock, victim, reader, ctl, doubt>>

\* Mutant: the temporary file is left where it is.
GiveUpLeavingTemp(u) ==
  /\ up /\ store[u].at # "none"
  /\ store' = [store EXCEPT ![u] = NoStore]
  /\ doubt' = IF store[u].at = "temp" THEN doubt ELSE doubt \cup {u}
  /\ UNCHANGED <<outside, rows, files, temps, lock, victim, reader, ctl>>

(* The download, or any step of store, fails: spawn_cache_persistence      *)
(* removes the temporary file.  What was renamed already stays.            *)
GiveUp(u) ==
  /\ up /\ store[u].at # "none"
  /\ store' = [store EXCEPT ![u] = NoStore]
  /\ temps' = temps \ {u}
  /\ doubt' = IF store[u].at = "temp" THEN doubt ELSE doubt \cup {u}
  /\ UNCHANGED <<outside, rows, files, lock, victim, reader, ctl>>

\* fs::rename, in place of the file the old row describes.
Rename(u) ==
  /\ up /\ store[u].at = "temp" /\ u \in temps
  /\ files' = [files EXCEPT ![u] = store[u].gen]
  /\ temps' = temps \ {u}
  /\ store' = [store EXCEPT ![u].at = "renamed"]
  /\ reader' = Overtaken(u)
  /\ UNCHANGED <<outside, rows, lock, victim, ctl, doubt>>

\* Mutant: the length is taken as it comes, of a file that is gone too.
SizeUnchecked(u) ==
  /\ up /\ store[u].at = "renamed"
  /\ store' = [store EXCEPT ![u].at = "sized", ![u].size = files[u]]
  /\ UNCHANGED <<outside, disk, lock, victim, reader, ctl, doubt>>

\* fs::metadata
Size(u) ==
  /\ up /\ store[u].at = "renamed" /\ files[u] # None
  /\ store' = [store EXCEPT ![u].at = "sized", ![u].size = files[u]]
  /\ UNCHANGED <<outside, disk, lock, victim, reader, ctl, doubt>>

NewRow(u) == [etag |-> store[u].gen, size |-> store[u].size]

\* A command of blitzctl that will still delete the row of u, not its file.
AboutToDelete(u) ==
  \/ ctl.at = "deleting" /\ u \in ctl.removed
  \/ ctl.at = "clearing"

\* Mutant: the row is inserted without a look at the file.
InsertAtOnce(u) ==
  /\ Connected /\ store[u].at = "temp"
  /\ rows' = [rows EXCEPT ![u] = [NewRow(u) EXCEPT !.size = store[u].gen]]
  /\ store' = [store EXCEPT ![u] = NoStore]
  /\ lock' = u
  /\ doubt' = doubt \ {u}
  /\ reader' = Overtaken(u)
  /\ UNCHANGED <<outside, files, temps, victim, ctl>>

\* INSERT OR REPLACE; the mutex is kept for the eviction.
Insert(u) ==
  /\ Connected /\ store[u].at = "sized"
  /\ rows' = [rows EXCEPT ![u] = NewRow(u)]
  /\ store' = [store EXCEPT ![u] = NoStore]
  /\ lock' = u
  /\ doubt' = IF AboutToDelete(u) \/ files[u] = None THEN doubt \cup {u} ELSE doubt \ {u}
  /\ reader' = Overtaken(u)
  /\ UNCHANGED <<outside, files, temps, victim, ctl>>

\* evict_inner: any row may be the least recently used, the new one too.
Evicting == up /\ lock # None /\ victim = None

RemoveVictim(u) ==
  /\ Evicting /\ Total > MaxSize /\ rows[u] # None
  /\ files' = [files EXCEPT ![u] = None]
  /\ victim' = u
  /\ UNCHANGED <<outside, rows, temps, store, lock, reader, ctl, doubt>>

\* Mutant: the row of an evicted file is left.
DropVictimFileOnly ==
  /\ up /\ victim # None
  /\ victim' = None
  /\ UNCHANGED <<outside, disk, store, lock, reader, ctl, doubt>>

DropVictim ==
  /\ up /\ victim # None
  /\ rows' = [rows EXCEPT ![victim] = None]
  /\ victim' = None
  /\ UNCHANGED <<outside, files, temps, store, lock, reader, ctl, doubt>>

\* Mutant: one entry is evicted at most.
StoredAfterOne ==
  /\ Evicting
  /\ lock' = None /\ cut' = FALSE
  /\ UNCHANGED <<up, disk, store, victim, reader, ctl, doubt>>

Stored ==
  /\ Evicting /\ Total <= MaxSize
  /\ lock' = None /\ cut' = FALSE
  /\ UNCHANGED <<up, disk, store, victim, reader, ctl, doubt>>

-----------------------------------------------------------------------------
(* blitzctl cache rm: a connection of its own, so its statements run       *)
(* between those of the proxy, whoever holds the proxy's mutex.            *)

Begin(at, S) ==
  /\ ctl.at = "idle"
  /\ ctl' = [at |-> at, left |-> S, removed |-> {}]
  /\ UNCHANGED <<outside, disk, stores, reader, doubt>>

\* delete_by_urls, of URLs that list_all found; clear_all, of every row.
BeginDelete(S) ==
  S # {} /\ S \subseteq Cached /\ Cardinality(S) <= MaxTargets /\ Begin("deleting", S)
BeginClear == Begin("clearing", Cached)

(* Per URL: the row is selected and the file removed, then the row.        *)
CtlRemove(u) ==
  /\ ctl.at \in {"deleting", "clearing"} /\ u \in ctl.left
  /\ ctl.at = "deleting" => rows[u] # None /\ ctl.removed = {}
  /\ files' = [files EXCEPT ![u] = None]
  /\ ctl' = [ctl EXCEPT !.left = @ \ {u}, !.removed = @ \cup {u}]
  /\ UNCHANGED <<outside, rows, temps, stores, reader, doubt>>

CtlSkip(u) ==
  /\ ctl.at = "deleting" /\ u \in ctl.left /\ rows[u] = None /\ ctl.removed = {}
  /\ ctl' = [ctl EXCEPT !.left = @ \ {u}]
  /\ UNCHANGED <<outside, disk, stores, reader, doubt>>

CtlDropRow(u) ==
  /\ ctl.at = "deleting" /\ u \in ctl.removed
  /\ rows' = [rows EXCEPT ![u] = None]
  /\ ctl' = [ctl EXCEPT !.removed = {}]
  /\ UNCHANGED <<outside, files, temps, stores, reader, doubt>>

\* DELETE of all rows, those stored since the files were listed included.
CtlDropAll ==
  /\ ctl.at = "clearing" /\ ctl.left = {}
  /\ rows' = [u \in Urls |-> None]
  /\ ctl' = [ctl EXCEPT !.at = "cleared", !.removed = {}]
  /\ UNCHANGED <<outside, files, temps, stores, reader, doubt>>

\* tmp/*.download, those of running downloads included.
CtlDropTemps ==
  /\ ctl.at = "cleared"
  /\ temps' = {}
  /\ ctl' = NoCtl
  /\ UNCHANGED <<outside, rows, files, stores, reader, doubt>>

\* The command is interrupted between two of its steps.
CtlKilled ==
  /\ ctl.at # "idle"
  /\ ctl' = NoCtl
  /\ doubt' = doubt \cup ctl.removed
  /\ UNCHANGED <<outside, disk, stores, reader>>

CtlEnds ==
  /\ ctl.at = "deleting" /\ ctl.left = {} /\ ctl.removed = {}
  /\ ctl' = NoCtl
  /\ UNCHANGED <<outside, disk, stores, reader, doubt>>

-----------------------------------------------------------------------------
(* The proxy dies at any moment; its files and rows stay as they are.      *)

Crash ==
  /\ up /\ up' = FALSE
  /\ reader' = [r \in Readers |-> NoReader]
  /\ store' = [u \in Urls |-> NoStore]
  /\ lock' = None /\ victim' = None
  /\ doubt' = doubt \cup {u \in Urls : store[u].at \in {"renamed", "sized"}}
                    \cup ({victim} \ {None})
  /\ cut' = (cut \/ lock # None)
  /\ UNCHANGED <<disk, ctl>>

\* Mutant: tmp/ is not looked at.
RestartUncleaned ==
  /\ ~up /\ up' = TRUE
  /\ UNCHANGED <<cut, disk, stores, reader, ctl, doubt>>

\* run_proxy opens the database and removes tmp/*.download before it serves.
Restart ==
  /\ ~up /\ up' = TRUE
  /\ temps' = {}
  /\ UNCHANGED <<cut, rows, files, stores, reader, ctl, doubt>>

-----------------------------------------------------------------------------
ReaderStep(r) ==
  \/ \E u \in Urls : LookupDangling(r, u) \/ \E fresh \in BOOLEAN : LookupHit(r, u, fresh)
  \/ \E status \in {"not-modified", "ok"}, etag \in Gens : Confirm(r, status, etag)
  \/ Refresh(r) \/ ServeStale(r) \/ Open(r) \/ Leave(r)

StoreStep(u) ==
  \/ \E g \in Gens : Download(u, g)
  \/ GiveUp(u) \/ Rename(u) \/ Size(u)
  \/ Insert(u)
  \/ RemoveVictim(u)

CtlStep ==
  \/ \E S \in SUBSET Urls : BeginDelete(S)
  \/ BeginClear \/ CtlDropAll \/ CtlDropTemps \/ CtlEnds \/ CtlKilled
  \/ \E u \in Urls : CtlRemove(u) \/ CtlSkip(u) \/ CtlDropRow(u)

CacheNext ==
  \/ \E r \in Readers : ReaderStep(r)
  \/ \E u \in Urls : StoreStep(u)
  \/ DropVictim \/ Stored
  \/ CtlStep
  \/ Crash \/ Restart

CacheSpec == CacheInit /\ [][CacheNext]_cacheVars

-----------------------------------------------------------------------------
(* Properties.                                                             *)

(* A step of store or of a removal is under way for u.                     *)
Busy(u) == store[u].at \in {"renamed", "sized"} \/ u = victim \/ u \in ctl.removed

(* The row and the file of a URL are there together, the row has the etag  *)
(* of the file and its length, except while a step is under way and where  *)
(* one of the known causes struck: a crash or an error in the middle of    *)
(* store, an eviction or blitzctl in the middle of store, a revalidation   *)
(* answered late.  (store, evict_inner, refresh, delete_by_urls, clear_all *)
(* and lookup_entry together.)                                             *)
RowsAndFilesAgree ==
  \A u \in Urls :
    u \notin doubt /\ ~Busy(u) =>
      /\ rows[u] = None <=> files[u] = None
      /\ rows[u] # None => rows[u].etag = files[u] /\ rows[u].size = files[u]

\* The units of the files in good standing.
DiskUnits ==
  UNION {{u} \X (1 .. files[u]) :
           u \in {v \in Urls : files[v] # None /\ v \notin doubt /\ ~Busy(v)}}

(* The limit is about the disk, but what store counts are rows: files in   *)
(* good standing never take more than max_cache_size, restarts and removals *)
(* by blitzctl included (evict_inner).                                     *)
DiskWithinLimit ==
  lock = None /\ ~cut => Cardinality(DiskUnits) <= MaxSize

(* Between lookup_entry and the open of serve_file nothing holds the file:  *)
(* a body goes with the headers of another generation only if the file was *)
(* replaced in that time, or was in doubt before.                          *)
ServedWithItsHeaders ==
  \A r \in Readers :
    LET file == files[reader[r].url] IN
    reader[r].at = "opening" /\ ~reader[r].late /\ file # None => file = reader[r].head

(* No temporary file outlives its download: after a crash the next start   *)
(* removes it, after an error spawn_cache_persistence does.                *)
TempsOwned == up => \A u \in temps : store[u].at = "temp"

=============================================================================
