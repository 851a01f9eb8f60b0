------------------------------ MODULE MC_Admin ------------------------------
(* A mirror with two fake hosts, one base within the other at some of the  *)
(* sites, and files with and without directories in common.                *)
EXTENDS Admin

CONSTANTS defaultDir, dirA, dirB

Url(scheme, host, path) == [scheme |-> scheme, host |-> host, path |-> path]

Map(fake, scheme, path) == [fake |-> fake, base |-> Url(scheme, "mirror", path)]

Main == Map("main", "https", <<"/", "deb">>)
Plus == Map("plus", "https", <<"/", "deb", "2">>)
Inner == Map("inner", "https", <<"/", "deb", "/", "a">>)
Wrong == Map("wrong", "file", <<"/">>)

Options(dir, age, maps) ==
  [k \in Keys |-> CASE k = "cache_dir" -> dir [] k = "max_cache_age" -> age
                    [] k = "url_map" -> maps [] k = "upstream_proxy" -> Unset]

With(options, proxy) == [options EXCEPT !["upstream_proxy"] = proxy]

Proxy(rest) == [scheme |-> "socks5", rest |-> rest]

\* A port that is no number.
NoProxyAt == Proxy(<<"squid", ":", "squid">>)

Nothing == Options(Unset, Unset, Unset)

Site(files, env, flags, explicit) ==
  [files |-> files, env |-> env, flags |-> flags, explicit |-> explicit]

Apart2 == Options(Unset, 2, <<Main, Plus>>)

SitesOfTests ==
  {Site(<<NoFile, NoFile>>, Nothing, Nothing, NoFile),
   Site(<<Options(dirA, 1, <<Main, Plus>>), Apart2>>, Options(dirB, 3, Unset), Nothing, NoFile),
   Site(<<Apart2, NoFile>>, Options(Unset, Unset, <<Main, Inner>>),
        Options(dirB, Unset, Unset), NoFile),
   Site(<<Unreadable, Apart2>>, Options(Unset, 0, <<Main, Plus>>), Nothing, NoFile),
   Site(<<With(Apart2, NoProxyAt), NoFile>>, Options(dirB, Unset, <<Main, Wrong>>),
        Nothing, NoFile),
   Site(<<NoFile, NoFile>>, With(Nothing, Proxy(<<"u", "@", "squid">>)),
        Options(Unset, 1, <<Plus>>), With(Apart2, NoProxyAt))}

AskedFiles ==
  {[asked |-> Url("http", "main", <<"/", "a", "/", "x">>), size |-> 1],
   [asked |-> Url("http", "main", <<"/", "a", "/", "b", "/", "y">>), size |-> 2],
   [asked |-> Url("http", "plus", <<"/", "a", "/", "x">>), size |-> 4],
   [asked |-> Url("http", "mirror", <<"/", "a", "2", "/", "x">>), size |-> 1],
   [asked |-> Url("http", "mirror", <<"/", "a">>), size |-> 2],
   [asked |-> Url("https", "mirror", <<"/", "deb", "/", "a", "/", "z">>), size |-> 3]}

SelectorsTyped ==
  [host : {"main", "plus", "mirror"},
   path : {<<>>, <<"/", "a">>, <<"/", "a", "/", "x">>, <<"/", "deb">>}]

PortTokens == {"21", "990", "1080", "3128"}

PortsGiven == [s \in {"proxy", "ftp", "ftps"} |->
                 CASE s = "proxy" -> "1080" [] s = "ftp" -> "21" [] s = "ftps" -> "990"]

-----------------------------------------------------------------------------
(* Functions without state, compared with what they are for.               *)

SizeTexts ==
  [plus : BOOLEAN, number : 0 .. Limit + 1,
   unit : {<<>>, <<"b">>} \cup {<<l>> : l \in Range(Letters)} \cup {<<l, "b">> : l \in Range(Letters)}]

(* A size that both programs read is the same number for both, a binary    *)
(* unit is read as its power, and a product that is no u64 is refused      *)
(* rather than wrapped (config.rs:49, cache_cli.rs:673).                   *)
SizesMeanTheSame ==
  \A text \in SizeTexts :
    LET server == ParseBytes(text)
        ctl == ParseSize(text)
    IN  /\ server # NoSize /\ ctl # NoSize => server = ctl
        /\ \A i \in DOMAIN Letters :
             text.unit = <<Letters[i]>> /\ ~text.plus =>
               server = IF text.number < Limit /\ text.number * Kibi ^ i < Limit
                        THEN text.number * Kibi ^ i ELSE NoSize
        /\ ctl # NoSize /\ server = NoSize => text.plus
        /\ FromYaml([kind |-> "text"] @@ text) = server

ASSUME SizesMeanTheSame

Words(tokens) == UNION {[1 .. n -> tokens] : n \in 1 .. 3}

ProxiesGiven ==
  [scheme : {"http", "socks5"}, user : {Absent} \cup Words({"u", "@"}),
   password : {Absent} \cup Words({"p", ":", "@", "/"}), host : {<<"squid">>},
   port : {"3128"}, path : {<<>>}]

(* The parts of an upstream proxy are those it was written with, whatever  *)
(* separators its password contains (config.rs:130).                       *)
ProxyIsReadBack ==
  \A a \in ProxiesGiven : (a.user = Absent => a.password = Absent) => ParseProxy(Written(a)) = a

ASSUME ProxyIsReadBack
=============================================================================
