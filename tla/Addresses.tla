----------------------------- MODULE Addresses -----------------------------
(***************************************************************************)
(* How addresses are taken apart: UpstreamProxy::parse of src/config.rs,   *)
(* parse_ftp_url and normalize_ftp_path of src/ftp.rs.                     *)
(*                                                                         *)
(* An address has a scheme and a rest, a sequence of tokens: the           *)
(* separators "@", ":" and "/" are tokens of their own, and so are words,  *)
(* "." and "..".  A part may be several tokens long.                       *)
(***************************************************************************)
EXTENDS Integers, Sequences, SequencesExt

CONSTANTS
  Refused,  \* what is not an address
  Absent,   \* a user or password that is not given
  Ports,    \* the tokens that are read as a u16
  PortOf    \* the port of a proxy or a scheme when none is given

ASSUME AddressesAssumption == PortOf \in [{"proxy", "ftp", "ftps"} -> Ports]

Slash == "/"

From(s, n) == SubSeq(s, n, Len(s))

\* find and rfind: where a token is, or 0.
Find1(s, token) == SelectInSeq(s, LAMBDA t : t = token)
FindLast(s, token) == SelectLastInSeq(s, LAMBDA t : t = token)

\* What is in front of position i, and what is behind it.
Before(s, i) == SubSeq(s, 1, i - 1)
Behind(s, i) == From(s, i + 1)

\* The n-th of a set of positions.
Nth(S, n) == CHOOSE i \in S : Cardinality({j \in S : j <= i}) = n

\* What s has at them, in the order of s.
Picked(s, S) == [n \in 1 .. Cardinality(S) |-> s[Nth(S, n)]]

\* split('/'), the empty components filtered out
Separates(path, i) == i \notin DOMAIN path \/ path[i] = Slash

Starts(path) == {i \in DOMAIN path : ~Separates(path, i) /\ Separates(path, i - 1)}

End(path, i) == Min({j \in i .. Len(path) : Separates(path, j + 1)})

Components(path) ==
  Picked([i \in Starts(path) |-> SubSeq(path, i, End(path, i))], Starts(path))

(* User and password are split at the first ":".                           *)
Credentials(userinfo) ==
  LET colon == Find1(userinfo, ":") IN
  IF colon = 0 THEN [user |-> userinfo, password |-> Absent]
  ELSE [user |-> Before(userinfo, colon), password |-> Behind(userinfo, colon)]

Nobody == [user |-> Absent, password |-> Absent]

IsPort(text) == Len(text) = 1 /\ text[1] \in Ports

(* Host and port are split at the given colon, if there is one.            *)
HostAndPort(hostport, colon, default) ==
  IF colon = 0 THEN [host |-> hostport, port |-> <<default>>]
  ELSE [host |-> Before(hostport, colon), port |-> Behind(hostport, colon)]

Address(scheme, credentials, endpoint, path) ==
  IF ~IsPort(endpoint.port) \/ endpoint.host = <<>> THEN Refused
  ELSE [scheme |-> scheme, user |-> credentials.user, password |-> credentials.password,
        host |-> endpoint.host, port |-> endpoint.port[1], path |-> path]

(* UpstreamProxy::parse: the last "@" and the last ":" behind it decide.   *)
ParseProxy(text) ==
  LET at == FindLast(text.rest, "@")
      hostport == Behind(text.rest, at)
  IN  IF text.scheme \notin {"http", "https", "socks5"} THEN Refused
      ELSE Address(text.scheme,
                   IF at = 0 THEN Nobody ELSE Credentials(Before(text.rest, at)),
                   HostAndPort(hostport, FindLast(hostport, ":"), PortOf["proxy"]),
                   <<>>)

(* normalize_ftp_path: as components.                                      *)
NormalizePath(path) ==
  FoldLeft(LAMBDA cs, c :
             CASE c = <<".">> -> cs
               [] c = <<"..">> -> IF cs = <<>> THEN cs ELSE Front(cs)
               [] OTHER -> Append(cs, c),
           <<>>, Components(path))

(* parse_ftp_url: the last "@" in front of the first "/", and the first    *)
(* ":" behind it.  An empty userinfo is nobody.                            *)
ParseFtpUrl(text) ==
  LET slash == Find1(text.rest, Slash)
      at == FindLast(IF slash = 0 THEN text.rest ELSE Before(text.rest, slash), "@")
      behind == Behind(text.rest, at)
      root == Find1(behind, Slash)
      hostport == IF root = 0 THEN behind ELSE Before(behind, root)
  IN  IF text.scheme \notin {"ftp", "ftps"} THEN Refused
      ELSE Address(text.scheme,
                   IF at <= 1 THEN Nobody ELSE Credentials(Before(text.rest, at)),
                   HostAndPort(hostport, Find1(hostport, ":"), PortOf[text.scheme]),
                   NormalizePath(IF root = 0 THEN <<>> ELSE From(behind, root)))

-----------------------------------------------------------------------------
(* What the parts mean, for the instances to compare with.                 *)

\* The text of an address.
Written(a) ==
  [scheme |-> a.scheme,
   rest |-> (IF a.user = Absent THEN <<>>
             ELSE a.user \o (IF a.password = Absent THEN <<>> ELSE <<":">> \o a.password)
                         \o <<"@">>)
            \o a.host \o <<":", a.port>> \o a.path]

\* A component stays unless it is a dot or some ".." behind it takes it back.
Stays(cs, i) ==
  /\ cs[i] \notin {<<".">>, <<"..">>}
  /\ \A j \in i + 1 .. Len(cs) :
       LET named(k) == cs[k] \notin {<<".">>, <<"..">>}
       IN  Cardinality({k \in i + 1 .. j : cs[k] = <<"..">>})
             <= Cardinality({k \in i + 1 .. j : named(k)})

=============================================================================
