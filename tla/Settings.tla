------------------------------ MODULE Settings ------------------------------
(***************************************************************************)
(* Where the options of the server and of blitzctl come from (src/config.rs *)
(* and the entry points of both programs).                                 *)
(*                                                                         *)
(* The server copies the options of its YAML file into the environment,    *)
(* where the environment has none, and parses its command line over that.  *)
(* blitzctl has a command line of its own and reads three of the options   *)
(* with three functions of their own.  The other options of the server go  *)
(* the way of max_cache_age.                                               *)
(*                                                                         *)
(* A site is what both programs find when they start: the files at the     *)
(* places that are searched, in their order, the environment and the       *)
(* server's command line.                                                  *)
(***************************************************************************)
EXTENDS Addresses

CONSTANTS
  Unset,    \* an option that a source does not give
  NoFile,   \* no file at that place
  Unreadable, \* a file that is no YAML of this shape
  DefaultDir \* /var/cache/apt-blitz

Keys == {"cache_dir", "max_cache_age", "url_map", "upstream_proxy"}

DefaultAge == 4 \* 86400

(* UrlMap::parse takes a fake host and a base with one of four schemes.    *)
ParsesMap(m) == m.fake # "" /\ m.base.scheme \in {"http", "https", "ftp", "ftps"}

ParsesMaps(maps) == \A i \in DOMAIN maps : ParsesMap(maps[i])

(* discover: the first place that has a file, whatever is in it.           *)
Discover(files) == LET i == SelectInSeq(files, LAMBDA f : f # NoFile)
                   IN  IF i = 0 THEN NoFile ELSE files[i]

Set(value) == value # Unset

\* Mutant: the file overrides what the environment has.
BridgeOver(yaml, env) == [k \in Keys |-> IF Set(yaml[k]) THEN yaml[k] ELSE env[k]]

(* apply_env: the environment the command line is parsed in.               *)
Bridge(yaml, env) == [k \in Keys |-> IF Set(env[k]) THEN env[k] ELSE yaml[k]]

Default == [k \in Keys |-> CASE k = "cache_dir" -> DefaultDir
                             [] k = "max_cache_age" -> DefaultAge
                             [] k = "url_map" -> <<>>
                             [] k = "upstream_proxy" -> Unset]

(* What clap makes of the flags, the environment and the defaults.         *)
Parsed(flags, env) ==
  [k \in Keys |-> CASE Set(flags[k]) -> flags[k]
                    [] ~Set(flags[k]) /\ Set(env[k]) -> env[k]
                    [] OTHER -> Default[k]]

(* The file of --config-file=, which only the command line can name, or    *)
(* the one that is discovered.                                             *)
ConfigFile(site) == IF site.explicit # NoFile THEN site.explicit ELSE Discover(site.files)

\* Config::load
Load(site) ==
  IF ConfigFile(site) = NoFile THEN Parsed(site.flags, site.env)
  ELSE Parsed(site.flags, Bridge(ConfigFile(site), site.env))

ParsesUpstream(proxy) == Set(proxy) => ParseProxy(proxy) # Refused

(* It refuses a file it cannot read and a map or a proxy it cannot parse.  *)
Loads(site) ==
  /\ ConfigFile(site) # Unreadable
  /\ ParsesMaps(Load(site)["url_map"])
  /\ ParsesUpstream(Load(site)["upstream_proxy"])

(* What blitzctl reads of a discovered file: nothing of a broken one.      *)
FromFile(site, k) ==
  IF Discover(site.files) \in {NoFile, Unreadable} THEN Unset ELSE Discover(site.files)[k]

FirstSet(a, b, otherwise) == IF Set(a) THEN a ELSE IF Set(b) THEN b ELSE otherwise

(* cache_dir_only: the file comes first.                                   *)
CacheDirOnly(site) == FirstSet(FromFile(site, "cache_dir"), site.env["cache_dir"], DefaultDir)

\* Mutant: the order of cache_dir_only.
MaxCacheAgeFileFirst(site) ==
  FirstSet(FromFile(site, "max_cache_age"), site.env["max_cache_age"], DefaultAge)

\* max_cache_age_only
MaxCacheAgeOnly(site) ==
  FirstSet(site.env["max_cache_age"], FromFile(site, "max_cache_age"), DefaultAge)

(* load_url_maps; main of blitzctl takes no maps for maps it cannot parse. *)
LoadUrlMaps(site) ==
  LET maps == FirstSet(site.env["url_map"], FromFile(site, "url_map"), <<>>)
  IN  IF ParsesMaps(maps) THEN maps ELSE <<>>

=============================================================================
