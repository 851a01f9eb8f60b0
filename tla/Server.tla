------------------------------- MODULE Server -------------------------------
(***************************************************************************)
(* The life of the service and of its connections: the accept loop of      *)
(* run_proxy (src/lib.rs) with its Ctrl+C, the two kinds of connections,   *)
(* the limits of IpRateLimiter (src/rate_limit.rs) that requests take      *)
(* permits of, and the tunnels of handle_connect_tunnel (src/proxy.rs).    *)
(*                                                                         *)
(* What a request does between its permit and its response is RequestFlow, *)
(* how its body waits for tokens is Throttle.  A permit is an owned value: *)
(* it is given back where the handler returns without it, when the body    *)
(* that holds it ends, and when the connection drops either of them.       *)
(***************************************************************************)
EXTENDS NoProxy, FiniteSets

CONSTANTS
  Conns, Ips, None,
  Configs,     \* configurations: max_connections_per_ip (0 for no limit),
               \*   max_total_connections (or UNLIMITED), upstream_proxy and
               \*   the rules of no_proxy
  Targets,     \* names for the hosts that tunnels are asked for
  Labels,      \* the labels of each of them
  Generations  \* names for the successive semaphores of an address

ASSUME ServerAssumption ==
  /\ IsFiniteSet(Conns)
  /\ None \notin Conns \cup Ips
  /\ Configs \subseteq [perIp : Nat, total : Nat, upstream : {"none", "socks5", "http"},
                       noProxy : SUBSET [kind : {"all", "suffix", "host"}, labels : Seq(Nat),
                                         bits : {NoBits} \cup 0 .. 255]]
  /\ Labels \in [Targets -> Seq(Nat)]
  /\ None \notin Generations

VARIABLES
  config,        \* the configuration, which does not change
  loop, signal,  \* the accept loop; Ctrl+C
  at, ip,        \* where each connection is; the address of its peer
  global,        \* free permits of the global semaphore
  holds,         \* connections whose request has a global permit
  entry, free,   \* the semaphore of each address in per_ip; the free permits
                 \*   of those and of the ones requests still refer to
  sem,           \* the semaphore the request of a connection refers to
  bucket,        \* the bucket of each address in per_ip_buckets
  pace,          \* the bucket the body of a connection is paced by
  unused,        \* addresses nobody came from for MAP_ENTRY_TTL
  asked, answer  \* the request of a connection; the status of its answer

limiterVars == <<global, holds, entry, free, sem, bucket, pace, unused>>
requestVars == <<asked, answer>>
serverVars == <<config, loop, signal, at, ip, limiterVars, requestVars>>

PerIpLimit == config.perIp
GlobalLimit == config.total

(* closed   peeking   idle: an HTTP connection between two requests        *)
(* acquiring: with a global permit   trying: with the semaphore, without   *)
(* its permit   pacing: before its bucket   handling: in the handler       *)
(* sending: a body that holds the permits   replying: a response that      *)
(* holds none   reading, dialing, agreeing, refusing, connected, tunnel:   *)
(* a CONNECT.                                                              *)
Http == {"idle", "acquiring", "trying", "pacing", "handling", "sending", "replying"}
Tunnelled == {"reading", "dialing", "agreeing", "refusing", "connected", "tunnel"}

\* The method, and for GET whether the URL is one of HTTP (or HTTPS); for a
\* CONNECT its target.
Requests == {"GET", "HEAD", "GET ftp"}

Answers == {"none", "ok", "upstream", "bad request", "too many", "bad gateway"}

ServerTypeOK ==
  /\ config \in Configs
  /\ loop \in {"registering", "selecting", "draining", "exited"}
  /\ signal \in {"none", "sent", "heard"}
  /\ at \in [Conns -> {"closed", "peeking"} \cup Http \cup Tunnelled]
  /\ ip \in [Conns -> Ips]
  /\ global \in 0 .. GlobalLimit
  /\ holds \subseteq Conns
  /\ entry \in [Ips -> Generations \cup {None}]
  /\ free \in [Ips -> [Generations -> 0 .. PerIpLimit]]
  /\ sem \in [Conns -> Generations \cup {None}]
  /\ bucket \in [Ips -> Generations \cup {None}]
  /\ pace \in [Conns -> Generations \cup {None}]
  /\ unused \subseteq Ips
  /\ asked \in [Conns -> Requests \cup Targets]
  /\ answer \in [Conns -> Answers]

AnyAsked == "GET"

ServerInit ==
  /\ config \in Configs
  /\ loop = "registering" /\ signal = "none"
  /\ at = [c \in Conns |-> "closed"]
  /\ ip \in [Conns -> Ips]
  /\ global = GlobalLimit
  /\ holds = {}
  /\ entry = [i \in Ips |-> None]
  /\ free = [i \in Ips |-> [g \in Generations |-> PerIpLimit]]
  /\ sem = [c \in Conns |-> None]
  /\ bucket = [i \in Ips |-> None]
  /\ pace = [c \in Conns |-> None]
  /\ unused = {}
  /\ asked = [c \in Conns |-> AnyAsked]
  /\ answer = [c \in Conns |-> "none"]

Set(f, x, value) == [f EXCEPT ![x] = value]

Open == {c \in Conns : at[c] # "closed"}

-----------------------------------------------------------------------------
(* The loop.  Each turn makes a new ctrl_c future, which listens from its  *)
(* first poll on.                                                          *)

LoopOnly == UNCHANGED <<config, at, ip, limiterVars, requestVars>>

Register ==
  /\ loop = "registering" /\ loop' = "selecting"
  /\ UNCHANGED signal /\ LoopOnly

\* A signal between two turns is not heard by either.
Signal ==
  /\ loop \in {"registering", "selecting"} /\ signal = "none"
  /\ signal' = IF loop = "selecting" THEN "sent" ELSE "none"
  /\ UNCHANGED loop /\ LoopOnly

\* The branch of the signal is looked at first.
Hear ==
  /\ loop = "selecting" /\ signal = "sent"
  /\ loop' = "draining" /\ signal' = "heard"
  /\ LoopOnly

\* Mutant: whichever branch is ready first.
AcceptUnbiased(c) ==
  /\ loop = "selecting" /\ at[c] = "closed"
  /\ loop' = "registering"
  /\ at' = Set(at, c, "peeking")
  /\ \E i \in Ips : ip' = Set(ip, c, i)
  /\ UNCHANGED <<config, signal, limiterVars, requestVars>>

Accept(c) ==
  /\ loop = "selecting" /\ signal # "sent"
  /\ at[c] = "closed"
  /\ loop' = "registering"
  /\ at' = Set(at, c, "peeking")
  /\ \E i \in Ips : ip' = Set(ip, c, i)
  /\ UNCHANGED <<config, signal, limiterVars, requestVars>>

AcceptFails ==
  /\ loop = "selecting" /\ signal # "sent"
  /\ loop' = "registering"
  /\ UNCHANGED signal /\ LoopOnly

\* join_next until none is left
Exit ==
  /\ loop = "draining" /\ Open = {}
  /\ loop' = "exited"
  /\ UNCHANGED signal /\ LoopOnly

-----------------------------------------------------------------------------
(* A connection, and the requests on it, one after another.                *)

ConnOnly == UNCHANGED <<config, loop, signal, ip>>

Go(c, from, to) == at[c] = from /\ at' = Set(at, c, to)

Quietly == ConnOnly /\ UNCHANGED <<limiterVars, requestVars>>

Peek(c) == (Go(c, "peeking", "idle") \/ Go(c, "peeking", "reading")) /\ Quietly

\* Nothing is asked on c any more.
Cleared(c) == answer' = Set(answer, c, "none") /\ asked' = Set(asked, c, AnyAsked)

Answered(c, status) == answer' = Set(answer, c, status) /\ UNCHANGED asked

(* What the request of c holds is dropped.                                 *)
Returned(c) ==
  IF sem[c] = None THEN free ELSE [free EXCEPT ![ip[c]][sem[c]] = @ + 1]

Drop(c) ==
  /\ global' = IF c \in holds THEN global + 1 ELSE global
  /\ holds' = holds \ {c}
  /\ free' = Returned(c)
  /\ sem' = Set(sem, c, None)
  /\ pace' = Set(pace, c, None)

Acquire(c, request) ==
  /\ at[c] = "idle" /\ global > 0
  /\ at' = Set(at, c, IF PerIpLimit = 0 THEN "pacing" ELSE "acquiring")
  /\ global' = global - 1
  /\ holds' = holds \cup {c}
  /\ asked' = Set(asked, c, request)
  /\ ConnOnly /\ UNCHANGED <<answer, entry, free, sem, bucket, pace, unused>>

NoneLeft(c, request) ==
  /\ global = 0
  /\ Go(c, "idle", "replying")
  /\ asked' = Set(asked, c, request) /\ answer' = Set(answer, c, "too many")
  /\ ConnOnly /\ UNCHANGED limiterVars

\* An authority nobody named: neither an absolute URI nor a Host header.
NoHost(c) ==
  /\ Go(c, "idle", "replying")
  /\ Answered(c, "bad request")
  /\ ConnOnly /\ UNCHANGED limiterVars

(* Names that nothing of an address refers to, in its table or a request.  *)
Fresh(i, table, refs) ==
  {g \in Generations : table[i] # g /\ \A c \in Conns : ip[c] = i => refs[c] # g}

\* or_insert_with, under the lock: a new semaphore if there is no entry.
Semaphore(c) ==
  /\ Go(c, "acquiring", "trying")
  /\ LET i == ip[c]
         new == CHOOSE g \in Fresh(i, entry, sem) : TRUE IN
     IF entry[i] # None
     THEN sem' = Set(sem, c, entry[i]) /\ UNCHANGED <<entry, free>>
     ELSE /\ Fresh(i, entry, sem) # {}
          /\ entry' = Set(entry, i, new) /\ sem' = Set(sem, c, new)
          /\ free' = [free EXCEPT ![i][new] = PerIpLimit]
  /\ unused' = unused \ {ip[c]}
  /\ ConnOnly /\ UNCHANGED <<requestVars, global, holds, bucket, pace>>

TakePermit(c) ==
  /\ at[c] = "trying" /\ free[ip[c]][sem[c]] > 0
  /\ at' = Set(at, c, "pacing")
  /\ free' = [free EXCEPT ![ip[c]][sem[c]] = @ - 1]
  /\ ConnOnly /\ UNCHANGED <<requestVars, global, holds, entry, sem, bucket, pace, unused>>

\* Mutant: the global permit is kept.
NoPermitKept(c) ==
  /\ at[c] = "trying" /\ free[ip[c]][sem[c]] = 0
  /\ at' = Set(at, c, "replying")
  /\ sem' = Set(sem, c, None)
  /\ Answered(c, "too many")
  /\ ConnOnly /\ UNCHANGED <<global, holds, entry, free, bucket, pace, unused>>

\* The global permit is dropped with the answer.
NoPermit(c) ==
  /\ at[c] = "trying" /\ free[ip[c]][sem[c]] = 0
  /\ at' = Set(at, c, "replying")
  /\ sem' = Set(sem, c, None)
  /\ global' = global + 1 /\ holds' = holds \ {c}
  /\ Answered(c, "too many")
  /\ ConnOnly /\ UNCHANGED <<entry, free, bucket, pace, unused>>

\* get_or_create_bucket
Pace(c) ==
  /\ Go(c, "pacing", "handling")
  /\ LET i == ip[c]
         new == CHOOSE g \in Fresh(i, bucket, pace) : TRUE IN
     IF bucket[i] # None
     THEN pace' = Set(pace, c, bucket[i]) /\ UNCHANGED bucket
     ELSE /\ Fresh(i, bucket, pace) # {}
          /\ bucket' = Set(bucket, i, new) /\ pace' = Set(pace, c, new)
  /\ unused' = unused \ {ip[c]}
  /\ ConnOnly /\ UNCHANGED <<requestVars, global, holds, entry, free, sem>>

\* is_safe_upstream_url, after url_maps
Safe(request) == request # "GET ftp"

(* handle_proxy_inner: the responses without a permit, which are the       *)
(* errors, those of unsafe URLs among them, and the answers to HEAD.       *)
Reject(c) ==
  /\ Go(c, "handling", "replying")
  /\ ~Safe(asked[c])
  /\ Answered(c, "bad request")
  /\ Drop(c)
  /\ ConnOnly /\ UNCHANGED <<entry, bucket, unused>>

ReplyBare(c, status) ==
  /\ Go(c, "handling", "replying")
  /\ Safe(asked[c])
  /\ status = "ok" => asked[c] = "HEAD"
  /\ Answered(c, status)
  /\ Drop(c)
  /\ ConnOnly /\ UNCHANGED <<entry, bucket, unused>>

\* wrap_response_with_permit: the body takes the permit.
Serve(c) ==
  /\ Go(c, "handling", "sending")
  /\ Safe(asked[c]) /\ asked[c] = "GET"
  /\ Answered(c, "ok")
  /\ ConnOnly /\ UNCHANGED limiterVars

BodyEnds(c) ==
  /\ Go(c, "sending", "idle")
  /\ Drop(c)
  /\ Cleared(c) /\ ConnOnly /\ UNCHANGED <<entry, bucket, unused>>

Replied(c) ==
  /\ Go(c, "replying", "idle")
  /\ Cleared(c) /\ ConnOnly /\ UNCHANGED limiterVars

(* The peer goes away, or the connection fails: what runs for it is        *)
(* dropped where it waits, which it does not between its semaphore and its *)
(* permit.                                                                 *)
Disconnect(c) ==
  /\ at[c] \in Http \cup {"peeking"} /\ at[c] # "trying"
  /\ at' = Set(at, c, "closed")
  /\ Drop(c)
  /\ Cleared(c) /\ ConnOnly /\ UNCHANGED <<entry, bucket, unused>>

-----------------------------------------------------------------------------
(* The sweep.  What requests refer to stays alive without its entry.       *)

Age(i) ==
  /\ unused' = unused \cup {i}
  /\ UNCHANGED <<config, loop, signal, at, ip, requestVars, global, holds, entry, free, sem, bucket, pace>>

\* Mutant: the permits of a swept semaphore are free again.
SweepAndReset ==
  /\ \E i \in unused : entry[i] # None
  /\ entry' = [i \in Ips |-> IF i \in unused THEN None ELSE entry[i]]
  /\ free' = [i \in Ips |-> IF i \in unused THEN [g \in Generations |-> PerIpLimit] ELSE free[i]]
  /\ UNCHANGED <<config, loop, signal, at, ip, requestVars, global, holds, sem, bucket, pace, unused>>

SweepSemaphores ==
  /\ \E i \in unused : entry[i] # None
  /\ entry' = [i \in Ips |-> IF i \in unused THEN None ELSE entry[i]]
  /\ UNCHANGED <<config, loop, signal, at, ip, requestVars, global, holds, free, sem, bucket, pace, unused>>

SweepBuckets ==
  /\ \E i \in unused : bucket[i] # None
  /\ bucket' = [i \in Ips |-> IF i \in unused THEN None ELSE bucket[i]]
  /\ UNCHANGED <<config, loop, signal, at, ip, requestVars, global, holds, entry, free, sem, pace, unused>>

-----------------------------------------------------------------------------
(* handle_connect_tunnel.  It asks for no permit.                          *)

\* The head is complete; or too long, or not to be parsed.
HeadRead(c) ==
  /\ Go(c, "reading", "dialing")
  /\ \E target \in Targets : asked' = Set(asked, c, target)
  /\ ConnOnly /\ UNCHANGED <<limiterVars, answer>>

Refuse(c, from, status) ==
  /\ Go(c, from, "refusing")
  /\ Answered(c, status)
  /\ ConnOnly /\ UNCHANGED limiterVars

HeadRefused(c) == Refuse(c, "reading", "bad request")

DialFails(c) == Refuse(c, "dialing", "bad gateway")

(* The target itself, if there is no proxy or its host is to bypass it.    *)
DialTarget(c) ==
  /\ Go(c, "dialing", "connected") /\ Quietly
  /\ config.upstream = "none" \/ Bypasses(Labels[asked[c]], config.noProxy)

(* The proxy, which is then asked for the target: by the CONNECT for one   *)
(* of HTTP, within Socks5Stream::connect for one of SOCKS5.                *)
DialProxy(c) ==
  /\ Go(c, "dialing", "agreeing") /\ Quietly
  /\ config.upstream # "none" /\ ~Bypasses(Labels[asked[c]], config.noProxy)

\* Its status line, if it sent one; a SOCKS5 proxy's reply.
ProxyAgrees(c) == Go(c, "agreeing", "connected") /\ Quietly

ProxyRefuses(c) == Refuse(c, "agreeing", "bad gateway")

\* The answer is written; then bytes are copied both ways.
Established(c) ==
  /\ Go(c, "connected", "tunnel")
  /\ Answered(c, "ok")
  /\ ConnOnly /\ UNCHANGED limiterVars

\* The end of the tunnel, of the refusal, or of the peer.
TunnelEnds(c) ==
  /\ \E from \in {"reading", "refusing", "connected", "tunnel"} : Go(c, from, "closed")
  /\ Cleared(c) /\ ConnOnly /\ UNCHANGED limiterVars

-----------------------------------------------------------------------------
Limited(c) == Semaphore(c) \/ TakePermit(c) \/ NoPermit(c) \/ Pace(c)

Handled(c) ==
  \/ Reject(c) \/ Serve(c)
  \/ \E status \in {"ok", "upstream", "bad gateway"} : ReplyBare(c, status)

\* handle_proxy
Asks(c) == NoHost(c) \/ \E request \in Requests : Acquire(c, request) \/ NoneLeft(c, request)

TunnelStep(c) ==
  \/ HeadRead(c) \/ HeadRefused(c) \/ DialFails(c) \/ DialTarget(c) \/ DialProxy(c)
  \/ ProxyAgrees(c) \/ ProxyRefuses(c) \/ Established(c) \/ TunnelEnds(c)

LoopStep == Register \/ Hear \/ Exit

ServerNext ==
  \/ LoopStep \/ Signal \/ AcceptFails
  \/ \E c \in Conns :
       \/ Accept(c) \/ Peek(c) \/ Asks(c) \/ Limited(c) \/ Handled(c) \/ BodyEnds(c)
       \/ Replied(c) \/ Disconnect(c) \/ TunnelStep(c)
  \/ \E i \in Ips : Age(i)
  \/ SweepSemaphores \/ SweepBuckets

ServerSpec == ServerInit /\ [][ServerNext]_serverVars

(* Tasks that can run do.  A handler ends (RequestFlow), a body does, and  *)
(* a peer closes its connection at last: nothing in the service does that. *)
FairServerSpec ==
  /\ ServerSpec
  /\ WF_serverVars(LoopStep)
  /\ \A c \in Conns :
       /\ WF_serverVars(Limited(c) \/ Handled(c) \/ BodyEnds(c) \/ TunnelStep(c))
       /\ SF_serverVars(Disconnect(c))

-----------------------------------------------------------------------------
(* Properties.                                                             *)

WithPermit(i, g) == {c \in Conns : ip[c] = i /\ sem[c] = g /\ at[c] # "trying"}

(* No permit is lost or given back twice, however a request ends and       *)
(* whatever the sweep removes meanwhile: those that are free and those     *)
(* that are held make the limit, of the service and of each semaphore that *)
(* is listed or referred to (acquire, ThrottledPermitStream, sweep).       *)
PermitsBalanced ==
  /\ global + Cardinality(holds) = GlobalLimit
  /\ \A i \in Ips, g \in Generations :
       entry[i] = g \/ (\E c \in Conns : ip[c] = i /\ sem[c] = g)
         => free[i][g] + Cardinality(WithPermit(i, g)) = PerIpLimit

(* A request holds its permits from acquire to the end of its body, and    *)
(* nothing else does: an answer without a body, an idle connection or a    *)
(* tunnel never keeps anybody out (handle_proxy_inner).                    *)
HeldWhileServed ==
  \A c \in Conns :
    /\ c \in holds <=> at[c] \in {"acquiring", "trying", "pacing", "handling", "sending"}
    /\ PerIpLimit > 0 /\ at[c] \in {"pacing", "handling", "sending"} => sem[c] # None

(* "Max concurrent downloads per client IP" (README.md:75): of one address *)
(* no more bodies are sent at once than it may have.  The sweep drops a    *)
(* semaphore whose permits are out, and the next request of its address    *)
(* gets a new one (sweep_stale_entries_at).                                *)
AddressLimited ==
  PerIpLimit > 0 =>
    \A i \in Ips : Cardinality({c \in Conns : ip[c] = i /\ at[c] = "sending"}) <= PerIpLimit

(* Nothing is cut off: the service ends after its connections, and then    *)
(* all permits are back (run_proxy).                                       *)
ExitIsClean == loop = "exited" => Open = {} /\ global = GlobalLimit

(* Once Ctrl+C is received the service ends, provided its peers close      *)
(* their connections (the biased select of run_proxy).                     *)
SignalEndsService == signal = "sent" ~> loop = "exited"

(* A proxy of either kind is never asked for a host that a rule of         *)
(* no_proxy names, if its networks are of whole octets (no_proxy_match).   *)
ProxyIsBypassed ==
  \A c \in Conns :
    at[c] = "agreeing" =>
      ~\E rule \in config.noProxy : (rule.bits = NoBits \/ rule.bits % 8 = 0) /\ Names(Labels[asked[c]], rule)

(* The same of every network: "supports `*`, suffix `.local`, CIDR"        *)
(* (README.md:61), but of 172.16.0.0/12 the code compares two octets.      *)
NetworkIsBypassed ==
  \A c \in Conns :
    at[c] = "agreeing" => ~\E rule \in config.noProxy : Names(Labels[asked[c]], rule)

(* And no other host bypasses it: of 10.0.0.0/8 the comment says "check if *)
(* host starts with "10."" (proxy.rs:2646), and the code asks for "10".    *)
OnlyNamedBypass ==
  [][\A c \in Conns :
       DialTarget(c) /\ config.upstream # "none"
         => \E rule \in config.noProxy : Names(Labels[asked[c]], rule)]_serverVars

(* "FTP support - Proxies FTP URLs" (README.md:11).                        *)
FtpIsProxied ==
  \A c \in Conns : asked[c] = "GET ftp" => answer[c] # "bad request"

=============================================================================
