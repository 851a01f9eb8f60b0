------------------------------- MODULE MC_Ftp -------------------------------
(* Up to two connections and a file of three units. *)
EXTENDS Ftp

FaultsOfServers == {{}, {"cuts"}, {"ignores REST"}, {"closes"}}

PasvReplies == {<<10, 0, 0, 1, 4, 1>>, <<10, 0, 0, 1, 4>>, <<10, 0, 0, 1, 4, 256>>}

TwoWorkers == 1 .. 2

FileUnits == 0 .. TotalSize - 1

PortTokens == {"21", "990", "1080", "2121"}

PortsGiven == [s \in {"proxy", "ftp", "ftps"} |->
                 CASE s = "proxy" -> "1080" [] s = "ftp" -> "21" [] s = "ftps" -> "990"]

Url(rest) == [scheme |-> "ftp", rest |-> rest]

\* The second has a word for a port.
UrlsAsked == {Url(<<"user", ":", "p", "@", "mirror", "/", "pool", "/", "x">>),
              Url(<<"mirror", ":", "pool", "/", "x">>)}

-----------------------------------------------------------------------------
(* parse_ftp_url, compared with what it is for.                            *)

Words(tokens, n) == UNION {[1 .. k -> tokens] : k \in 1 .. n}

UrlsGiven ==
  [scheme : {"ftp", "ftps"}, user : {Absent} \cup Words({"u", "@"}, 2),
   password : {Absent} \cup Words({"p", ":", "@"}, 2), host : {<<"mirror">>},
   port : {"2121"}, path : [1 .. 1 -> {Slash}]]

(* The parts of an FTP URL are those it was written with, as long as its   *)
(* user and password have no "/", and its path is what is left of it when  *)
(* the dots are resolved, never above the root (ftp.rs:24, 36).            *)
UrlIsReadBack ==
  /\ \A a \in UrlsGiven :
       (a.user = Absent => a.password = Absent)
         => ParseFtpUrl(Written(a)) = [a EXCEPT !.path = <<>>]
  /\ \A path \in Words({Slash, ".", "..", "x"}, 5) :
       LET cs == Components(path)
           left == {i \in DOMAIN cs : Stays(cs, i)}
       IN  NormalizePath(path) = Picked(cs, left)

ASSUME UrlIsReadBack
=============================================================================
