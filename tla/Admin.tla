------------------------------- MODULE Admin -------------------------------
(***************************************************************************)
(* A server, its cache and blitzctl at one site: the server is configured, *)
(* started and stopped, stores what clients ask for, and blitzctl lists    *)
(* and removes entries of the same cache under its own reading of the      *)
(* configuration.  Both work on the database side by side; what they do to *)
(* rows and files step by step is in Cache.                                *)
(***************************************************************************)
EXTENDS Views, Settings, Freshness

CONSTANTS
  Sites,     \* configurations the site goes through
  Files,     \* what clients ask for: a URL and the size of the file
  Selectors, \* of rm and ls: a host and a path, without a slash at its end
  MaxRows    \* bound on the rows of the cache

\* What is said of a URL: its path is empty or begins with a slash.
Location == [scheme : STRING, host : STRING \ {Slash}, path : Seq(STRING)]

Rooted(url) == url \in Location /\ (url.path # <<>> => url.path[1] = Slash)

Row == {r \in [asked : Location, url : Location, size : Nat] : Rooted(r.asked) /\ Rooted(r.url)}

UrlMap == {m \in [fake : STRING \ {Slash}, base : Location] : Rooted(m.base)}

TypedOptions(options) ==
  /\ options["url_map"] \in {Unset} \cup Seq(UrlMap)
  /\ options["max_cache_age"] \in {Unset} \cup 0 .. 2 * Wrap - 1

TypedFile(file) == file \in {NoFile, Unreadable} \/ TypedOptions(file)

(* Seconds are far from overflow in the lifetime that is the default.      *)
ASSUME AdminAssumption ==
  /\ DefaultAge + 2 < Wrap
  /\ \A f \in Files : Rooted(f.asked) /\ f.size \in Nat
  /\ \A s \in Selectors : s.path \in Seq(STRING)
  /\ \A s \in Sites :
       /\ TypedOptions(s.flags) /\ TypedOptions(s.env) /\ TypedFile(s.explicit)
       /\ s.files \in Seq(Range(s.files)) /\ \A f \in Range(s.files) : TypedFile(f)

VARIABLES
  site,    \* the files, the environment and the server's flags now
  loaded,  \* the site as the running server found it, or NoFile
  serving, \* its Config, or NoFile
  rows     \* the rows of the cache, in their order

adminVars == <<site, loaded, serving, rows>>

Running == loaded # NoFile

AdminInit ==
  /\ site \in Sites
  /\ loaded = NoFile
  /\ serving = NoFile
  /\ rows = <<>>

(* The administrator changes files, environment or command line. *)
Configure ==
  /\ site' \in Sites
  /\ UNCHANGED <<loaded, serving, rows>>

(* Config::load, once at the start. *)
Start ==
  /\ ~Running
  /\ Loads(site)
  /\ loaded' = site
  /\ serving' = Load(site)
  /\ UNCHANGED <<site, rows>>

Stop ==
  /\ Running
  /\ loaded' = NoFile
  /\ serving' = NoFile
  /\ UNCHANGED <<site, rows>>

(* A client's file is stored under the URL that its map leads to; a row of *)
(* that URL is replaced and comes last.                                    *)
Store(f) ==
  LET url == Resolve(f.asked, serving["url_map"])
      others == Picked(rows, {i \in DOMAIN rows : rows[i].url # url})
  IN  /\ Len(others) < MaxRows
      /\ rows' = Append(others, [asked |-> f.asked, url |-> url, size |-> f.size])
      /\ UNCHANGED <<site, loaded, serving>>

(* cmd_rm with a target. *)
Rm(s) ==
  /\ UNCHANGED <<site, loaded, serving>>
  /\ LET maps == LoadUrlMaps(site)
     IN  rows' = Picked(rows, {i \in DOMAIN rows : ~Removes(rows[i], s.host, s.path, maps)})
  /\ rows' # rows

(* cmd_rm without one. *)
RmAll ==
  /\ rows # <<>>
  /\ rows' = <<>>
  /\ UNCHANGED <<site, loaded, serving>>

AdminNext ==
  \/ Configure \/ Start \/ Stop \/ RmAll
  \/ Running /\ \E f \in Files : Store(f)
  \/ \E s \in Selectors : Rm(s)

AdminSpec == AdminInit /\ [][AdminNext]_adminVars

-----------------------------------------------------------------------------
(* Properties *)

AdminTypeOK ==
  /\ site \in Sites
  /\ loaded \in Sites \cup {NoFile}
  /\ Running => TypedOptions(serving)
  /\ rows \in Seq(Row)

Maps == LoadUrlMaps(site)

HostsKnown ==
  {r.url.host : r \in Range(rows)} \cup {Maps[i].fake : i \in DOMAIN Maps}

\* No base lies in another and no fake host has two.
Apart(maps) ==
  \A i, j \in DOMAIN maps :
    i # j => LET a == maps[i].base
                 b == maps[j].base
             IN  /\ maps[i].fake # maps[j].fake
                 /\ a.host = b.host => ~IsPrefix(Components(a.path), Components(b.path))

(* With the maps that the server stored it by, an entry is shown under the *)
(* host and path that the client asked for, unless the maps overlap        *)
(* (resolve_url, proxy.rs:379, and reverse_resolve, cache_cli.rs:300).     *)
AliasIsShown ==
  Apart(Maps) =>
    \A r \in Range(rows) :
      Mapping(r.asked, Maps) # 0 /\ Resolve(r.asked, Maps) = r.url
        => ReverseResolve(r.url, Maps) = [host |-> r.asked.host, path |-> r.asked.path]

(* After rm with a selector, ls with the same host and path shows nothing: *)
(* what one of them compares as text the other compares by components      *)
(* (cache_cli.rs:1165 and 1529).                                           *)
RemovedIsGone ==
  [][\A s \in Selectors : Rm(s) =>
       \A r \in Range(rows') : ~InScope(r, s.host, s.path, Maps)]_adminVars

PathShown(r, host) == Shown(r.url, host, Maps).path

(* Paths without empty components of which none is below another, and no   *)
(* directory whose name begins that of its neighbour: tree hides what is   *)
(* below a file, and ls -R takes pool2 for a part of pool.                 *)
Tidy(paths) ==
  /\ \A p \in paths : p # <<>> /\ p = FolderText(Components(p), Len(Components(p)))
  /\ \A p, q \in paths :
       LET c == Components(p)
           d == Components(q)
       IN  /\ p # q => ~IsPrefix(c, d)
           /\ \A k \in 1 .. Len(c) - 1 :
                /\ k <= Len(d)
                /\ SubSeq(c, 1, k - 1) = SubSeq(d, 1, k - 1)
                /\ c[k] # d[k]
                => ~IsPrefix(c[k], d[k])

(* Whether every entry is shown with the host that was typed, each with a  *)
(* path of its own, and the paths are tidy and without wildcards.          *)
Plain(host) ==
  LET own == OfHost(rows, host, Maps)
  IN  /\ \A i \in own : Shown(rows[i].url, host, Maps).host = host
      /\ \A i, j \in own : PathShown(rows[i], host) = PathShown(rows[j], host) => i = j
      /\ Tidy({PathShown(rows[i], host) : i \in own})
      /\ host \notin Wild /\ \A i \in own : Range(PathShown(rows[i], host)) \cap Wild = {}

TreeOf(host) == Tree(rows, host, <<>>, Maps)

\* The nodes of a tree that are printed, and the files among them.
FilesIn(tree) == {n \in Printed(tree) : ~tree[n].dir}
FoldersIn(tree) == {n \in Printed(tree) : tree[n].dir}

(* The lines of ls -R of a host as nodes of its tree. *)
ListedNodes(host) ==
  {<<Append(Components(Tail(l.base)), l.name), l.item>> : l \in Ls(rows, host, <<>>, Maps)}

ListingIsTree(host) ==
  LET tree == TreeOf(host)
  IN  ListedNodes(host) = {<<n, tree[n]>> : n \in Printed(tree)}

\* "1k" and "3"
OneUnit == [plus |-> FALSE, number |-> 1, unit |-> <<"k">>]
ThreeBytes == [plus |-> FALSE, number |-> 3, unit |-> <<>>]

(* find by size: the files of the tree that have it and the folders above. *)
FoundIsTree(host) ==
  LET tree == TreeOf(host)
      found == Find(rows, host, <<"*">>, OneUnit, ThreeBytes, Maps)
      middling == {f \in FilesIn(tree) : /\ ParseBytes(OneUnit) <= tree[f].size
                                         /\ tree[f].size <= ParseBytes(ThreeBytes)}
  IN  /\ found.files = {FolderText(n, Len(n)) : n \in middling}
      /\ found.folders = {n \in FoldersIn(tree) : \E f \in middling : IsPrefix(n, f)}

(* ls with a wildcard, in each folder: the nodes of the tree one below. *)
GlobIsTree(host) ==
  LET tree == TreeOf(host)
  IN  \A n \in {<<>>} \cup FoldersIn(tree) :
        {<<l.name, l.item>> :
           l \in LsGlob(rows, <<host>> \o FolderText(n, Len(n)) \o <<Slash, "*">>, Maps)}
          = {<<Last(m), tree[m]>> : m \in {k \in Printed(tree) : Front(k) = n}}

HostIsRoot(host) ==
  LET root == TreeOf(host)[<<>>]
  IN  Hosts(rows, Maps)[host] = [size |-> root.size, files |-> root.files]

(* ls without a host and hosts, unless a URL is itself the base of a map,  *)
(* which is a file of ls and an entry of a host.                           *)
TotalsAgree ==
  (\A i \in DOMAIN rows : ReverseResolve(rows[i].url, Maps).path # <<>>) =>
    LET hosts == Hosts(rows, Maps)
    IN  \A l \in LsAll(rows, Maps) : l.base = <<>> =>
          LET total == hosts[l.name[1]]
          IN  l.item.size = total.size /\ l.item.files = total.files

(* tree, find, ls -R, ls with a wildcard and hosts, each with an algorithm *)
(* of its own, agree on the directories and files of a host and on how     *)
(* many bytes and files each directory holds, and ls without a host shows  *)
(* the totals of hosts; the sizes that find is given are those that the    *)
(* configuration of the server would mean (cache_cli.rs:660, config.rs:14). *)
ViewsAgree ==
  /\ TotalsAgree
  /\ \A host \in HostsKnown : Plain(host) /\ OfHost(rows, host, Maps) # {} =>
       /\ ListingIsTree(host)
       /\ FoundIsTree(host)
       /\ GlobIsTree(host)
       /\ IsAlias(host, Maps) => HostIsRoot(host)

(* An entry that is shown can be named to info, cat and cp by its host and *)
(* path, typed without the slash in front, and is copied under the name it *)
(* is shown with, unless another entry has the same host and path (two     *)
(* schemes) or the path ends with a slash (cache_cli.rs:1117).             *)
ShownCanBeNamed ==
  \A host \in HostsKnown : \A i \in DOMAIN rows :
    LET shown == PathShown(rows[i], host)
        name == TrimStart(shown)
        own == {j \in DOMAIN rows : HostMatches(rows[j].url, host, Maps)}
    IN  i \in own /\ name # <<>> /\ Last(name) # Slash =>
          /\ i \in Info(rows, host, name, Maps)
          /\ \/ Cp(rows, host, name, [name |-> <<>>, taken |-> {}], FALSE, Maps)
                  = [from |-> i, to |-> Basename(shown)]
             \/ \E j \in own \ {i} : TrimStart(PathShown(rows[j], host)) = name

(* blitzctl works with the URL maps of the running server, and what it     *)
(* shows with time left is what the server serves without asking upstream, *)
(* as long as the configuration is the one the server found and not on its *)
(* command line (config.rs:398, 422).                                      *)
CtlFollowsServer ==
  Running /\ loaded = site /\ site.explicit = NoFile =>
    /\ ~Set(site.flags["url_map"]) => Maps = serving["url_map"]
    /\ ~Set(site.flags["max_cache_age"]) =>
         \A life \in {[kind |-> "unsaid"], [kind |-> "age", secs |-> 2],
                      [kind |-> "age", secs |-> Wrap], [kind |-> "until", date |-> 3]},
            cachedAt, now \in 0 .. DefaultAge + 1 :
           TimeLeft(life, cachedAt, now, MaxCacheAgeOnly(site)) > 0
             <=> IsFresh(life, cachedAt, now, serving["max_cache_age"])

(* README.md:157 has it that blitzctl finds the cache directory as the     *)
(* server does; cache_dir_only asks the file before the environment.       *)
CtlUsesTheServersCache ==
  Running /\ loaded = site /\ site.explicit = NoFile /\ ~Set(site.flags["cache_dir"])
    => CacheDirOnly(site) = serving["cache_dir"]
=============================================================================
