------------------------------- MODULE Views -------------------------------
(***************************************************************************)
(* What blitzctl shows of the cache and which entries its selectors mean   *)
(* (src/bin/blitzctl/cache_cli.rs), and the URL maps of the server         *)
(* (resolve_url of src/proxy.rs), whose inverse it shows.                  *)
(*                                                                         *)
(* A host is one token and a path a sequence of tokens, "/" among them; a  *)
(* component of a path may be several tokens long, so that one name can    *)
(* begin another.  Entries come in the order of their rows.                *)
(***************************************************************************)
EXTENDS Addresses, Sizes, FiniteSets, FiniteSetsExt, Functions

\* What is left of a text behind one of its prefixes.
After(s, prefix) == From(s, Len(prefix) + 1)

\* trim_start_matches('/')
TrimStart(s) == LET i == SelectInSeq(s, LAMBDA t : t # Slash)
                IN  IF i = 0 THEN <<>> ELSE From(s, i)

TrimEnd(s) == Reverse(TrimStart(Reverse(s)))

-----------------------------------------------------------------------------
(* URL maps: a fake host for a base, the base without a slash at its end.  *)

(* Mutant: the base may end within a component. *)
WithinBase(url, base) ==
  url.scheme = base.scheme /\ url.host = base.host /\ IsPrefix(base.path, url.path)

UnderBase(url, base) ==
  /\ url.scheme = base.scheme
  /\ url.host = base.host
  /\ IsPrefix(base.path, url.path)
  /\ LET rest == After(url.path, base.path) IN rest = <<>> \/ rest[1] = Slash

(* resolve_url: the first map of this host that is asked for over http or  *)
(* ftp.                                                                    *)
Mapping(url, maps) ==
  SelectInSeq(maps, LAMBDA m : url.scheme \in {"http", "ftp"} /\ m.fake = url.host)

Resolve(url, maps) ==
  LET i == Mapping(url, maps)
  IN  IF i = 0 THEN url ELSE [maps[i].base EXCEPT !.path = @ \o url.path]

HostAndPath(url) == [host |-> url.host, path |-> IF url.path = <<>> THEN <<Slash>> ELSE url.path]

\* reverse_resolve
ReverseResolve(url, maps) ==
  LET i == SelectInSeq(maps, LAMBDA m : UnderBase(url, m.base))
  IN  IF i = 0 THEN HostAndPath(url)
      ELSE [host |-> maps[i].fake, path |-> After(url.path, maps[i].base.path)]

IsAlias(host, maps) == \E i \in DOMAIN maps : maps[i].fake = host

(* The form in which an entry is shown to a user who typed this host.      *)
Shown(url, host, maps) ==
  IF IsAlias(host, maps) THEN ReverseResolve(url, maps) ELSE HostAndPath(url)

(* host_matches: either form will do. *)
HostMatches(url, host, maps) ==
  host \in {HostAndPath(url).host, ReverseResolve(url, maps).host}

Root(url, host, maps) == <<Shown(url, host, maps).host>> \o Shown(url, host, maps).path

OfHost(rows, host, maps) == {i \in DOMAIN rows : HostMatches(rows[i].url, host, maps)}

-----------------------------------------------------------------------------
(* Selectors: a host and the beginning of a path, or no path (<<>>).       *)

(* Mutant: the path is compared with the one in the cache. *)
RemovesReal(r, host, path, maps) ==
  HostMatches(r.url, host, maps) /\ IsPrefix(path, HostAndPath(r.url).path)

(* rm and tree: the path begins so, if within a component. *)
Removes(r, host, path, maps) ==
  HostMatches(r.url, host, maps) /\ IsPrefix(path, Shown(r.url, host, maps).path)

(* ls without a pattern: the entry itself, or one below it. *)
InScope(r, host, path, maps) ==
  /\ HostMatches(r.url, host, maps)
  /\ LET base == <<host>> \o path
         root == Root(r.url, host, maps)
     IN  path = <<>> \/ root = base \/ IsPrefix(Append(base, Slash), root)

(* Mutant: the path is compared as it was typed. *)
InfoUntrimmed(rows, host, path, maps) ==
  {i \in DOMAIN rows : /\ HostMatches(rows[i].url, host, maps)
                       /\ Shown(rows[i].url, host, maps).path = path}

(* info_matches: the slashes that were typed around the path and those in  *)
(* front of the entry's do not matter.                                     *)
InfoMatches(rows, host, path, maps) ==
  {i \in DOMAIN rows : /\ HostMatches(rows[i].url, host, maps)
                       /\ TrimStart(Shown(rows[i].url, host, maps).path)
                            = TrimEnd(TrimStart(path))}

(* resolve_unique, for cat and cp: the index of the one entry, or 0. *)
ResolveUnique(rows, host, path, maps) ==
  LET found == InfoMatches(rows, host, path, maps)
  IN  IF Cardinality(found) = 1 THEN CHOOSE i \in found : TRUE ELSE 0

(* cmd_info, which wants a path: the entries it describes.                 *)
Info(rows, host, path, maps) == IF path = <<>> THEN {} ELSE InfoMatches(rows, host, path, maps)

(* cp: into a directory the file goes under the name the path ends with;   *)
(* what is in taken is there already and overwritten only with --force.    *)
ResolveDest(dest, path) ==
  IF dest.name # <<>> THEN dest.name
  ELSE IF Components(path) = <<>> THEN <<>> ELSE Last(Components(path))

CopySource(from, to, taken, force) ==
  IF from = 0 \/ to = <<>> \/ (to \in taken /\ ~force) THEN [from |-> 0, to |-> <<>>]
  ELSE [from |-> from, to |-> to]

Cp(rows, host, path, dest, force, maps) ==
  CopySource(ResolveUnique(rows, host, path, maps), ResolveDest(dest, path), dest.taken, force)

-----------------------------------------------------------------------------
(* tree: nodes by the components that lead to them.                        *)

NewNode == [dir |-> TRUE, size |-> 0, files |-> 0]

(* Mutant: a directory is counted when it is made, not afterwards. *)
InsertCountingOnce(tree, r) ==
  [n \in DOMAIN tree \cup {SubSeq(r.comps, 1, k) : k \in 0 .. Len(r.comps)} |->
     IF ~IsPrefix(n, r.comps) THEN tree[n]
     ELSE IF n \in DOMAIN tree THEN tree[n]
     ELSE [dir |-> n # r.comps \/ n = <<>>, size |-> r.size, files |-> 1]]

(* TreeNode::insert: every node on the way counts the file; the last one   *)
(* becomes a file and the others directories, whatever they were.          *)
Insert(tree, r) ==
  [n \in DOMAIN tree \cup {SubSeq(r.comps, 1, k) : k \in 0 .. Len(r.comps)} |->
     IF ~IsPrefix(n, r.comps) THEN tree[n]
     ELSE LET old == IF n \in DOMAIN tree THEN tree[n] ELSE NewNode
          IN  [dir |-> n # r.comps \/ n = <<>>,
               size |-> old.size + r.size, files |-> old.files + 1]]

(* cmd_tree: the root of what was selected and the nodes below it. *)
Tree(rows, host, path, maps) ==
  LET after[n \in 0 .. Len(rows)] ==
        IF n = 0 THEN [root \in {<<>>} |-> NewNode]
        ELSE IF ~Removes(rows[n], host, path, maps) THEN after[n - 1]
        ELSE Insert(after[n - 1], [size |-> rows[n].size,
                                   comps |-> Components(Shown(rows[n].url, host, maps).path)])
  IN  after[Len(rows)]

(* print_tree: a node is printed when all above it are directories. *)
Printed(tree) ==
  {n \in DOMAIN tree \ {<<>>} : \A k \in 1 .. Len(n) - 1 : tree[SubSeq(n, 1, k)].dir}

-----------------------------------------------------------------------------
(* hosts: size and number of files by displayed host. *)

CountHost(hosts, host, size) ==
  LET old == IF host \in DOMAIN hosts THEN hosts[host] ELSE [size |-> 0, files |-> 0]
  IN  [h \in DOMAIN hosts \cup {host} |->
         IF h = host THEN [size |-> old.size + size, files |-> old.files + 1] ELSE hosts[h]]

Hosts(rows, maps) ==
  LET after[n \in 0 .. Len(rows)] ==
        IF n = 0 THEN [h \in {} |-> 0]
        ELSE CountHost(after[n - 1], ReverseResolve(rows[n].url, maps).host, rows[n].size)
  IN  after[Len(rows)]

-----------------------------------------------------------------------------
(* find: patterns with "*" and "?", that match anywhere in a text. *)

(* The positions of the text from which the rest of the pattern matches. *)
Matches(pattern, text) ==
  LET from[p \in 1 .. Len(pattern) + 1] ==
        {t \in 1 .. Len(text) + 1 :
           \/ p > Len(pattern)
           \/ pattern[p] = "*" /\ \E n \in from[p + 1] : t <= n
           \/ t <= Len(text) /\ pattern[p] \in {"?", text[t]} /\ t + 1 \in from[p + 1]}
  IN  from[1] # {}

Basename(path) == LET ends == {i \in DOMAIN path : path[i] = Slash}
                  IN  IF ends = {} THEN path ELSE From(path, Max(ends) + 1)

\* The text of the folder that the first n components lead to.
FolderText(comps, n) ==
  LET text[k \in 0 .. n] == IF k = 0 THEN <<>> ELSE text[k - 1] \o <<Slash>> \o comps[k]
  IN  text[n]

(* FindFilter: the limits are part of what passes.  Those of age are       *)
(* compared in the same way.                                               *)
Passing(rows, minSize, maxSize) ==
  {i \in DOMAIN rows : minSize <= rows[i].size /\ rows[i].size <= maxSize}

(* find_matches: with a "/" in the query the whole path is looked at,      *)
(* without one the name.                                                   *)
FoundFiles(rows, passing, host, query, maps) ==
  {Shown(rows[i].url, host, maps).path :
     i \in {j \in passing \cap OfHost(rows, host, maps) :
              LET path == Shown(rows[j].url, host, maps).path
              IN  Matches(query, IF Contains(query, Slash) THEN path ELSE Basename(path))}}

FoundFolders(rows, passing, host, query, maps) ==
  UNION {LET comps == Components(Shown(rows[i].url, host, maps).path)
         IN  {SubSeq(comps, 1, n) : n \in
                {k \in 1 .. Len(comps) - 1 :
                   \/ Matches(query, comps[k])
                   \/ Contains(query, Slash) /\ Matches(query, FolderText(comps, k))}}
         : i \in passing \cap OfHost(rows, host, maps)}

(* cmd_find: sizes, as they were typed, are a condition on the entries, so  *)
(* folders without an entry that passes are not found.                     *)
Find(rows, host, query, minSize, maxSize, maps) ==
  LET passing == Passing(rows, ParseSize(minSize), ParseSize(maxSize))
  IN  [files |-> FoundFiles(rows, passing, host, query, maps),
       folders |-> FoundFolders(rows, passing, host, query, maps)]

-----------------------------------------------------------------------------
(* ls: the lines of a listing, each with the directory it is listed under. *)
(* The roots are those of the rows that were selected, by their indices.   *)

(* What is left of the root of an entry below a base. *)
Relative(root, base) == TrimStart(After(root, base))

RelativeName(rel) == Components(rel)[1]

(* collect_children: a base is compared as text. *)
Below(roots, base) ==
  {i \in DOMAIN roots : IsPrefix(base, roots[i].root) /\ Relative(roots[i].root, base) # <<>>}

IsExact(roots, base) ==
  \E i \in DOMAIN roots : IsPrefix(base, roots[i].root) /\ Relative(roots[i].root, base) = <<>>

(* A file replaces what a file of its name counted, a directory counts all *)
(* of its files, and a name that is both counts the one on top of the      *)
(* other.                                                                  *)
CountChild(items, rel, size) ==
  LET name == RelativeName(rel)
      old == IF name \in DOMAIN items THEN items[name]
             ELSE [dir |-> FALSE, size |-> 0, files |-> 0]
      new == IF Contains(rel, Slash)
             THEN [dir |-> TRUE, size |-> old.size + size, files |-> old.files + 1]
             ELSE [dir |-> old.dir, size |-> size, files |-> 1]
  IN  [n \in DOMAIN items \cup {name} |-> IF n = name THEN new ELSE items[n]]

(* The items of one directory. *)
Children(roots, base) ==
  LET last == Max({0} \cup DOMAIN roots)
      below == Below(roots, base)
      after[n \in 0 .. last] ==
        IF n = 0 THEN [name \in {} |-> 0]
        ELSE IF n \notin below THEN after[n - 1]
        ELSE CountChild(after[n - 1], Relative(roots[n].root, base), roots[n].size)
  IN  after[last]

(* render_level: the lines of one directory; a base that is itself an      *)
(* entry is shown alone.                                                   *)
Level(roots, base) ==
  IF IsExact(roots, base) THEN {[base |-> base, name |-> <<>>, item |-> <<>>]}
  ELSE LET items == Children(roots, base)
       IN  {[base |-> base, name |-> n, item |-> items[n]] : n \in DOMAIN items}

Directories(roots, base) ==
  {IF base = <<>> THEN l.name ELSE base \o <<Slash>> \o l.name :
     l \in {k \in Level(roots, base) : k.name # <<>> /\ k.item.dir}}

(* With -R, the directories below it too, none of which is deeper than the *)
(* entries.                                                                *)
Render(roots, base) ==
  LET deepest == Max({0} \cup {Len(Components(roots[i].root)) : i \in DOMAIN roots})
      within[depth \in 0 .. deepest] ==
        IF depth = 0 THEN {base}
        ELSE {base} \cup UNION {Directories(roots, b) : b \in within[depth - 1]}
  IN  UNION {Level(roots, b) : b \in within[deepest]}

(* cmd_ls for a host and a path without a pattern. *)
Ls(rows, host, path, maps) ==
  Render([i \in {j \in DOMAIN rows : InScope(rows[j], host, path, maps)} |->
            [root |-> Root(rows[i].url, host, maps), size |-> rows[i].size]],
         <<host>> \o path)

\* The root of an entry whose host was not typed.
AliasRoot(url, maps) == <<ReverseResolve(url, maps).host>> \o ReverseResolve(url, maps).path

(* Without a host everything is shown by its alias. *)
LsAll(rows, maps) ==
  Render([i \in DOMAIN rows |-> [root |-> AliasRoot(rows[i].url, maps), size |-> rows[i].size]],
         <<>>)

Wild == {"*", "?"}

(* glob_base: up to the last "/" in front of the first wildcard.           *)
GlobBase(target) ==
  LET first == SelectInSeq(target, LAMBDA t : t \in Wild)
      slashes == {i \in 1 .. first - 1 : target[i] = Slash}
  IN  IF slashes = {} THEN <<>> ELSE SubSeq(target, 1, Max(slashes))

(* A pattern with a "/" is matched with all that follows the base, one     *)
(* without it with the next component, and one without a host with the     *)
(* only component of a path.                                               *)
GlobMatches(root, base, pattern) ==
  /\ IsPrefix(base, root)
  /\ LET rel == Relative(root, base)
         comps == Components(root)
     IN  IF Contains(pattern, Slash) THEN Matches(pattern, rel)
         ELSE IF base # <<>> THEN rel # <<>> /\ Matches(pattern, RelativeName(rel))
         ELSE Len(comps) = 2 /\ Matches(pattern, comps[2])

(* cmd_ls for a host and a path with a wildcard.                           *)
LsGlob(rows, target, maps) ==
  LET base == GlobBase(target)
      pattern == After(target, base)
      root(url) == IF base = <<>> THEN AliasRoot(url, maps) ELSE Root(url, base[1], maps)
      chosen == {i \in DOMAIN rows :
                   /\ base # <<>> => HostMatches(rows[i].url, base[1], maps)
                   /\ GlobMatches(root(rows[i].url), base, pattern)}
  IN  Level([i \in chosen |-> [root |-> root(rows[i].url), size |-> rows[i].size]], base)

=============================================================================
