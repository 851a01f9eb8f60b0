----------------------------- MODULE ServerProofs -----------------------------
(***************************************************************************)
(* What Server promises for any number of connections, addresses and       *)
(* targets and any limits: the permits of the limiter are conserved and    *)
(* held by nobody who is not served, all are back at the end, and hosts    *)
(* that no_proxy names are not asked of the proxy.                         *)
(***************************************************************************)
EXTENDS Server, FiniteSetTheorems, SequenceTheorems, TLAPS

-----------------------------------------------------------------------------
(* The inductive invariant.                                                *)

Holders == {"acquiring", "trying", "pacing", "handling", "sending"}

(* Where a connection is tells what its request holds: the global permit   *)
(* among Holders, a semaphore from its lookup to the end of the body.      *)
Placed ==
  \A c \in Conns :
    /\ c \in holds <=> at[c] \in Holders
    /\ sem[c] # None => at[c] \in {"trying", "pacing", "handling", "sending"}
    /\ at[c] = "trying" => sem[c] # None
    /\ PerIpLimit > 0 /\ at[c] \in {"pacing", "handling", "sending"} => sem[c] # None

\* Somebody may still ask the semaphore g of i for a permit, or return one.
Referred(i, g) == entry[i] = g \/ \E c \in Conns : ip[c] = i /\ sem[c] = g

Balanced(i, g) ==
  Referred(i, g) => free[i][g] + Cardinality(WithPermit(i, g)) = PerIpLimit

GlobalBalanced == global + Cardinality(holds) = GlobalLimit

\* Nobody comes once the loop has exited.
Deserted == loop = "exited" => Open = {}

\* Who waits for the proxy named a host that is not to bypass it.
AskedRightly ==
  \A c \in Conns :
    /\ at[c] \in {"dialing", "agreeing"} => asked[c] \in Targets
    /\ at[c] = "agreeing" => ~Bypasses(Labels[asked[c]], config.noProxy)

Limits ==
  /\ Placed
  /\ GlobalBalanced
  /\ \A i \in Ips, g \in Generations : Balanced(i, g)

ServerInv ==
  /\ ServerTypeOK
  /\ Limits
  /\ Deserted
  /\ AskedRightly

-----------------------------------------------------------------------------
(* What is counted is finite.                                              *)

LEMMA Counted ==
  ASSUME ServerTypeOK, NEW i, NEW g
  PROVE  /\ IsFiniteSet(holds) /\ Cardinality(holds) \in Nat
         /\ IsFiniteSet(WithPermit(i, g)) /\ Cardinality(WithPermit(i, g)) \in Nat
<1>1. WithPermit(i, g) \in SUBSET Conns /\ holds \in SUBSET Conns
  BY DEF WithPermit, ServerTypeOK
<1> QED
  BY <1>1, ServerAssumption, FS_Subset, FS_CardinalityType

LEMMA LimitTypes ==
  ASSUME ServerTypeOK
  PROVE  /\ PerIpLimit \in Nat /\ GlobalLimit \in Nat
         /\ config.noProxy \subseteq [kind : {"all", "suffix", "host"}, labels : Seq(Nat),
                                      bits : {NoBits} \cup 0 .. 255]
BY ServerAssumption DEF ServerTypeOK, PerIpLimit, GlobalLimit

-----------------------------------------------------------------------------
(* The steps.                                                              *)

(* Most steps only move a connection, and among places where its request   *)
(* holds the same.                                                         *)
LEMMA MoveStep ==
  ASSUME ServerInv, NEW c \in Conns, NEW to,
         at' = [at EXCEPT ![c] = to], UNCHANGED <<config, limiterVars>>,
         to \in {"peeking"} \cup Http \cup Tunnelled \cup {"closed"},
         \/ at[c] \notin Holders /\ to \notin Holders
         \/ at[c] = "handling" /\ to = "sending",
         \/ UNCHANGED ip
         \/ at[c] = "closed" /\ \E i \in Ips : ip' = [ip EXCEPT ![c] = i]
  PROVE  Limits'
<1> USE DEF Limits
<1>0. /\ at \in [Conns -> {"closed", "peeking"} \cup Http \cup Tunnelled]
      /\ ip \in [Conns -> Ips] /\ sem \in [Conns -> Generations \cup {None}]
      /\ None \notin Generations
  BY ServerAssumption DEF ServerInv, ServerTypeOK
<1>1. Placed'
  BY <1>0 DEF ServerInv, Placed, Holders, limiterVars, PerIpLimit
<1>2. GlobalBalanced'
  BY DEF ServerInv, GlobalBalanced, GlobalLimit, limiterVars
<1>3. ASSUME NEW i \in Ips, NEW g \in Generations
      PROVE  Balanced(i, g)'
  <2>1. at[c] = "closed" => sem[c] = None
    BY DEF ServerInv, Placed
  <2>2. \A d \in Conns : sem[d] = g => ip'[d] = ip[d]
    BY <2>1, <1>0
  <2>3. at[c] = "trying" => to = "trying"
    BY DEF Holders
  <2>4. \A d \in Conns : sem[d] = g => (at'[d] = "trying" <=> at[d] = "trying")
    BY <2>3, <1>0 DEF Holders, ServerInv, Placed
  <2>5. WithPermit(i, g)' = WithPermit(i, g)
    BY <2>2, <2>4, <2>1, <1>0 DEF WithPermit, limiterVars
  <2>6. Referred(i, g)' = Referred(i, g)
    BY <2>2, <2>1, <1>0 DEF Referred, limiterVars
  <2> QED
    BY <2>5, <2>6 DEF ServerInv, Balanced, PerIpLimit, limiterVars
<1> QED
  BY <1>1, <1>2, <1>3

LEMMA AcquireStep ==
  ASSUME ServerInv, NEW c \in Conns, NEW request \in Requests, Acquire(c, request)
  PROVE  ServerTypeOK' /\ Limits'
<1> USE DEF Limits
<1>0. /\ at \in [Conns -> {"closed", "peeking"} \cup Http \cup Tunnelled]
      /\ sem \in [Conns -> Generations \cup {None}]
      /\ global \in Nat /\ GlobalLimit \in Nat /\ global <= GlobalLimit
      /\ None \notin Generations
  BY ServerAssumption, LimitTypes DEF ServerInv, ServerTypeOK
<1>1. sem[c] = None /\ c \notin holds
  BY DEF ServerInv, Placed, Acquire, Holders
<1>2. /\ at[c] = "idle"
      /\ \/ at' = [at EXCEPT ![c] = "pacing"] /\ PerIpLimit = 0
         \/ at' = [at EXCEPT ![c] = "acquiring"]
  BY DEF Acquire, Set
<1>3. ServerTypeOK'
  BY <1>0 DEF ServerInv, ServerTypeOK, Acquire, ConnOnly, Set, Http, GlobalLimit, PerIpLimit
<1>4. Placed'
  <2>1. holds' = holds \cup {c} /\ sem' = sem /\ config' = config
    BY DEF Acquire, ConnOnly
  <2>2. PerIpLimit' = PerIpLimit
    BY <2>1 DEF PerIpLimit
  <2> QED
    BY <1>0, <1>1, <1>2, <2>1, <2>2 DEF ServerInv, Placed, Holders
<1>5. GlobalBalanced'
  <2>1. Cardinality(holds') = Cardinality(holds) + 1
    BY <1>1, Counted, FS_AddElement DEF ServerInv, Acquire
  <2> QED
    BY <2>1, <1>0, Counted DEF ServerInv, GlobalBalanced, Acquire, ConnOnly, GlobalLimit
<1>6. ASSUME NEW i \in Ips, NEW g \in Generations
      PROVE  Balanced(i, g)'
  <2>1. WithPermit(i, g)' = WithPermit(i, g) /\ Referred(i, g)' = Referred(i, g)
    BY <1>0, <1>1, <1>2 DEF WithPermit, Referred, Acquire, ConnOnly
  <2> QED
    BY <2>1 DEF ServerInv, Balanced, Acquire, ConnOnly, PerIpLimit
<1> QED
  BY <1>3, <1>4, <1>5, <1>6

(* A semaphore that is new has all its permits: nobody refers to it.       *)
LEMMA SemaphoreStep ==
  ASSUME ServerInv, NEW c \in Conns, Semaphore(c)
  PROVE  ServerTypeOK' /\ Limits'
<1> USE DEF Limits
<1> DEFINE i == ip[c]
           new == CHOOSE g \in Fresh(i, entry, sem) : TRUE
<1>0. /\ at \in [Conns -> {"closed", "peeking"} \cup Http \cup Tunnelled]
      /\ sem \in [Conns -> Generations \cup {None}]
      /\ entry \in [Ips -> Generations \cup {None}]
      /\ ip \in [Conns -> Ips]
      /\ free \in [Ips -> [Generations -> 0 .. PerIpLimit]]
      /\ PerIpLimit \in Nat /\ None \notin Generations
  BY ServerAssumption, LimitTypes DEF ServerInv, ServerTypeOK
<1>1. at[c] = "acquiring" /\ sem[c] = None /\ at' = [at EXCEPT ![c] = "trying"]
  BY DEF Semaphore, Go, Set, ServerInv, Placed
<1>2. PICK g \in Generations :
        /\ sem' = [sem EXCEPT ![c] = g]
        /\ \/ entry[i] = g /\ UNCHANGED <<entry, free>>
           \/ /\ \A d \in Conns : ip[d] = i => sem[d] # g
              /\ entry[i] = None
              /\ entry' = [entry EXCEPT ![i] = g]
              /\ free' = [free EXCEPT ![i][g] = PerIpLimit]
  <2>1. CASE entry[i] # None
    BY <2>1, <1>0 DEF Semaphore, Set
  <2>2. CASE entry[i] = None
    <3>1. new \in Fresh(i, entry, sem)
      BY <2>2 DEF Semaphore
    <3>2. new \in Generations /\ \A d \in Conns : ip[d] = i => sem[d] # new
      BY <3>1 DEF Fresh
    <3> QED
      BY <3>2, <2>2 DEF Semaphore, Set
  <2> QED
    BY <2>1, <2>2
<1>3. UNCHANGED <<config, loop, signal, ip, asked, answer, global, holds, bucket, pace>>
      /\ unused' \subseteq unused
  BY DEF Semaphore, ConnOnly, requestVars
<1>4. /\ free' \in [Ips -> [Generations -> 0 .. PerIpLimit]]
      /\ sem' \in [Conns -> Generations \cup {None}]
      /\ entry' \in [Ips -> Generations \cup {None}]
      /\ at' \in [Conns -> {"closed", "peeking"} \cup Http \cup Tunnelled]
  <2>1. free' \in [Ips -> [Generations -> 0 .. PerIpLimit]]
    <3>1. [free[i] EXCEPT ![g] = PerIpLimit] \in [Generations -> 0 .. PerIpLimit]
      BY <1>0
    <3>2. [free EXCEPT ![i] = [free[i] EXCEPT ![g] = PerIpLimit]]
            \in [Ips -> [Generations -> 0 .. PerIpLimit]]
      BY <3>1, <1>0
    <3> QED
      BY <3>2, <1>0, <1>2
  <2>2. sem' \in [Conns -> Generations \cup {None}] /\ entry' \in [Ips -> Generations \cup {None}]
    BY <1>0, <1>2
  <2>3. at' \in [Conns -> {"closed", "peeking"} \cup Http \cup Tunnelled]
    BY <1>0, <1>1 DEF Http
  <2> QED
    BY <2>1, <2>2, <2>3
<1>5. ServerTypeOK'
  BY <1>3, <1>4 DEF ServerInv, ServerTypeOK, PerIpLimit, GlobalLimit
<1>6. Placed'
  BY <1>0, <1>1, <1>2, <1>3 DEF ServerInv, Placed, Holders, PerIpLimit
<1>7. GlobalBalanced'
  BY <1>3 DEF ServerInv, GlobalBalanced, GlobalLimit
<1>8. ASSUME NEW j \in Ips, NEW h \in Generations
      PROVE  Balanced(j, h)'
  <2>1. WithPermit(j, h)' = WithPermit(j, h)
    BY <1>0, <1>1, <1>2, <1>3 DEF WithPermit
  <2>2. CASE free'[j][h] = free[j][h] /\ (Referred(j, h)' => Referred(j, h))
    BY <2>1, <2>2, <1>3 DEF ServerInv, Balanced, PerIpLimit
  <2>3. CASE j = i /\ h = g /\ entry[i] = None
    <3>1. WithPermit(j, h) = {}
      BY <2>3, <1>2, <1>0 DEF WithPermit
    <3>2. free'[j][h] = PerIpLimit
      BY <2>3, <1>2, <1>0
    <3> QED
      BY <3>1, <3>2, <2>1, <1>0, <1>3, FS_EmptySet DEF Balanced, PerIpLimit
  <2>4. CASE ~(j = i /\ h = g /\ entry[i] = None)
    BY <2>2, <2>4, <1>0, <1>1, <1>2, <1>3 DEF Referred
  <2> QED
    BY <2>3, <2>4
<1> QED
  BY <1>5, <1>6, <1>7, <1>8

LEMMA TakeStep ==
  ASSUME ServerInv, NEW c \in Conns, TakePermit(c)
  PROVE  ServerTypeOK' /\ Limits'
<1> USE DEF Limits
<1> DEFINE i == ip[c]
           g == sem[c]
<1>0. /\ at \in [Conns -> {"closed", "peeking"} \cup Http \cup Tunnelled]
      /\ sem \in [Conns -> Generations \cup {None}]
      /\ ip \in [Conns -> Ips]
      /\ free \in [Ips -> [Generations -> 0 .. PerIpLimit]]
      /\ PerIpLimit \in Nat
  BY LimitTypes DEF ServerInv, ServerTypeOK
<1>1. /\ at[c] = "trying" /\ g \in Generations /\ free[i][g] > 0
      /\ at' = [at EXCEPT ![c] = "pacing"]
      /\ free' = [free EXCEPT ![i][g] = @ - 1]
  BY <1>0 DEF TakePermit, Set, ServerInv, Placed
<1>2. UNCHANGED <<config, loop, signal, ip, asked, answer, global, holds, entry, sem, bucket,
                  pace, unused>>
  BY DEF TakePermit, ConnOnly, requestVars
<1>3. free' \in [Ips -> [Generations -> 0 .. PerIpLimit]]
  BY <1>0, <1>1
<1>4. ServerTypeOK'
  BY <1>0, <1>1, <1>2, <1>3 DEF ServerInv, ServerTypeOK, Http, PerIpLimit, GlobalLimit
<1>5. Placed'
  BY <1>0, <1>1, <1>2 DEF ServerInv, Placed, Holders, PerIpLimit
<1>6. GlobalBalanced'
  BY <1>2 DEF ServerInv, GlobalBalanced, GlobalLimit
<1>7. ASSUME NEW j \in Ips, NEW h \in Generations
      PROVE  Balanced(j, h)'
  <2>1. Referred(j, h)' = Referred(j, h)
    BY <1>2 DEF Referred
  <2>2. CASE j = i /\ h = g
    <3>1. WithPermit(j, h)' = WithPermit(j, h) \cup {c} /\ c \notin WithPermit(j, h)
      BY <2>2, <1>0, <1>1, <1>2 DEF WithPermit
    <3>2. Cardinality(WithPermit(j, h)') = Cardinality(WithPermit(j, h)) + 1
      BY <3>1, Counted, FS_AddElement DEF ServerInv
    <3>3. free'[j][h] = free[j][h] - 1
      BY <2>2, <1>0, <1>1
    <3>4. free[j][h] \in Nat /\ Cardinality(WithPermit(j, h)) \in Nat
      BY <1>0, Counted DEF ServerInv
    <3>5. Balanced(j, h) /\ Referred(j, h)
      BY <2>2 DEF ServerInv, Referred
    <3> QED
      BY <3>2, <3>3, <3>4, <3>5, <1>0, <1>2 DEF Balanced, PerIpLimit
  <2>3. CASE ~(j = i /\ h = g)
    <3>1. WithPermit(j, h)' = WithPermit(j, h)
      BY <2>3, <1>0, <1>1, <1>2 DEF WithPermit
    <3>2. free'[j][h] = free[j][h]
      BY <2>3, <1>0, <1>1
    <3> QED
      BY <2>1, <3>1, <3>2, <1>2 DEF ServerInv, Balanced, PerIpLimit
  <2> QED
    BY <2>2, <2>3
<1> QED
  BY <1>4, <1>5, <1>6, <1>7

LEMMA PaceStep ==
  ASSUME ServerInv, NEW c \in Conns, Pace(c)
  PROVE  ServerTypeOK' /\ Limits'
<1> USE DEF Limits
<1>0. /\ at \in [Conns -> {"closed", "peeking"} \cup Http \cup Tunnelled]
      /\ sem \in [Conns -> Generations \cup {None}]
      /\ ip \in [Conns -> Ips]
      /\ bucket \in [Ips -> Generations \cup {None}]
      /\ pace \in [Conns -> Generations \cup {None}]
  BY DEF ServerInv, ServerTypeOK
<1>1. at[c] = "pacing" /\ at' = [at EXCEPT ![c] = "handling"]
  BY DEF Pace, Go, Set
<1>2. UNCHANGED <<config, loop, signal, ip, asked, answer, global, holds, entry, free, sem>>
      /\ unused' \subseteq unused
  BY DEF Pace, ConnOnly, requestVars
<1>3. bucket' \in [Ips -> Generations \cup {None}] /\ pace' \in [Conns -> Generations \cup {None}]
  <2>1. CASE bucket[ip[c]] # None
    BY <2>1, <1>0 DEF Pace, Set
  <2>2. CASE bucket[ip[c]] = None
    <3> DEFINE new == CHOOSE g \in Fresh(ip[c], bucket, pace) : TRUE
    <3>1. new \in Fresh(ip[c], bucket, pace)
      BY <2>2 DEF Pace
    <3>2. new \in Generations
      BY <3>1 DEF Fresh
    <3> QED
      BY <3>2, <2>2, <1>0 DEF Pace, Set
  <2> QED
    BY <2>1, <2>2
<1>4. ServerTypeOK'
  BY <1>0, <1>1, <1>2, <1>3 DEF ServerInv, ServerTypeOK, Http, PerIpLimit, GlobalLimit
<1>5. Placed' /\ GlobalBalanced'
  BY <1>0, <1>1, <1>2 DEF ServerInv, Placed, Holders, GlobalBalanced, PerIpLimit, GlobalLimit
<1>6. ASSUME NEW i \in Ips, NEW g \in Generations
      PROVE  Balanced(i, g)'
  <2>1. WithPermit(i, g)' = WithPermit(i, g) /\ Referred(i, g)' = Referred(i, g)
    BY <1>0, <1>1, <1>2 DEF WithPermit, Referred
  <2> QED
    BY <2>1, <1>2 DEF ServerInv, Balanced, PerIpLimit
<1> QED
  BY <1>4, <1>5, <1>6

(* The limit of an address is reached: what the request has is the global  *)
(* permit, and it refers to a semaphore.                                   *)
LEMMA NoPermitStep ==
  ASSUME ServerInv, NEW c \in Conns, NoPermit(c)
  PROVE  ServerTypeOK' /\ Limits'
<1> USE DEF Limits
<1>0. /\ at \in [Conns -> {"closed", "peeking"} \cup Http \cup Tunnelled]
      /\ sem \in [Conns -> Generations \cup {None}]
      /\ global \in Nat /\ GlobalLimit \in Nat /\ None \notin Generations
  BY ServerAssumption, LimitTypes DEF ServerInv, ServerTypeOK
<1>1. /\ at[c] = "trying" /\ at' = [at EXCEPT ![c] = "replying"]
      /\ sem' = [sem EXCEPT ![c] = None]
      /\ holds' = holds \ {c}
      /\ answer' = [answer EXCEPT ![c] = "too many"]
  BY DEF NoPermit, Set, Answered
<1>2. global' = global + 1
  BY DEF NoPermit
<1>3. UNCHANGED <<config, loop, signal, ip, asked, entry, free, bucket, pace, unused>>
  BY DEF NoPermit, ConnOnly, Answered
<1>4. c \in holds
  BY <1>1 DEF ServerInv, Placed, Holders
<1>5. Cardinality(holds') = Cardinality(holds) - 1 /\ Cardinality(holds') \in Nat
  <2>1. Cardinality(holds') = Cardinality(holds) - 1 /\ IsFiniteSet(holds')
    BY <1>1, <1>4, Counted, FS_RemoveElement DEF ServerInv
  <2> QED
    BY <2>1, FS_CardinalityType
<1>6. Cardinality(holds) \in Nat /\ global + Cardinality(holds) = GlobalLimit
  BY Counted DEF ServerInv, GlobalBalanced
<1>7. GlobalBalanced' /\ global' \in 0 .. GlobalLimit
  <2>1. global' + Cardinality(holds') = GlobalLimit
    BY <1>0, <1>2, <1>5, <1>6
  <2>2. GlobalBalanced'
    BY <2>1, <1>3 DEF GlobalBalanced, GlobalLimit
  <2>3. global' \in Nat
    BY <1>0, <1>2
  <2> QED
    BY <2>1, <2>2, <2>3, <1>0, <1>5
<1>8. ServerTypeOK'
  BY <1>0, <1>1, <1>3, <1>7 DEF ServerInv, ServerTypeOK, Http, Answers, PerIpLimit, GlobalLimit
<1>9. Placed'
  BY <1>0, <1>1, <1>3 DEF ServerInv, Placed, Holders, PerIpLimit
<1>10. ASSUME NEW i \in Ips, NEW g \in Generations
      PROVE  Balanced(i, g)'
  <2>1. WithPermit(i, g)' = WithPermit(i, g) /\ (Referred(i, g)' => Referred(i, g))
    BY <1>0, <1>1, <1>3 DEF WithPermit, Referred
  <2> QED
    BY <2>1, <1>3 DEF ServerInv, Balanced, PerIpLimit
<1> QED
  BY <1>7, <1>8, <1>9, <1>10

(* Everywhere else what a request holds is one permit of each kind, or of  *)
(* neither.                                                                *)
LEMMA DropStep ==
  ASSUME ServerInv, NEW c \in Conns, NEW to \in {"idle", "replying", "closed"},
         at[c] # "trying", at' = [at EXCEPT ![c] = to],
         Drop(c), UNCHANGED <<config, ip, entry>>
  PROVE  /\ Limits'
         /\ global' \in 0 .. GlobalLimit
         /\ holds' \subseteq Conns
         /\ free' \in [Ips -> [Generations -> 0 .. PerIpLimit]]
         /\ sem' \in [Conns -> Generations \cup {None}]
         /\ pace' \in [Conns -> Generations \cup {None}]
<1> USE DEF Limits
<1> DEFINE i == ip[c]
           g == sem[c]
<1>0. /\ at \in [Conns -> {"closed", "peeking"} \cup Http \cup Tunnelled]
      /\ sem \in [Conns -> Generations \cup {None}]
      /\ pace \in [Conns -> Generations \cup {None}]
      /\ ip \in [Conns -> Ips]
      /\ free \in [Ips -> [Generations -> 0 .. PerIpLimit]]
      /\ PerIpLimit \in Nat /\ GlobalLimit \in Nat
      /\ global \in 0 .. GlobalLimit /\ None \notin Generations
  BY ServerAssumption, LimitTypes DEF ServerInv, ServerTypeOK
<1>1. /\ sem' = [sem EXCEPT ![c] = None] /\ pace' = [pace EXCEPT ![c] = None]
      /\ holds' = holds \ {c}
  BY DEF Drop, Set
<1>2. GlobalBalanced' /\ global' \in 0 .. GlobalLimit
  <2>1. CASE c \in holds
    <3>1. Cardinality(holds') = Cardinality(holds) - 1 /\ IsFiniteSet(holds')
      BY <1>1, <2>1, Counted, FS_RemoveElement DEF ServerInv
    <3>2. Cardinality(holds') \in Nat
      BY <3>1, FS_CardinalityType
    <3>3. global' = global + 1
      BY <2>1 DEF Drop
    <3>4. Cardinality(holds) \in Nat /\ global + Cardinality(holds) = GlobalLimit
      BY Counted DEF ServerInv, GlobalBalanced
    <3> QED
      BY <3>1, <3>2, <3>3, <3>4, <1>0 DEF GlobalBalanced, GlobalLimit
  <2>2. CASE c \notin holds
    <3>1. holds' = holds /\ global' = global
      BY <2>2, <1>1 DEF Drop
    <3> QED
      BY <3>1, <1>0 DEF ServerInv, GlobalBalanced, GlobalLimit
  <2> QED
    BY <2>1, <2>2
<1>3. Placed'
  BY <1>0, <1>1 DEF ServerInv, Placed, Holders, PerIpLimit
<1>4. sem' \in [Conns -> Generations \cup {None}] /\ pace' \in [Conns -> Generations \cup {None}]
  BY <1>0, <1>1
<1>5. CASE g = None
  <2>1. free' = free
    BY <1>5 DEF Drop, Returned
  <2>2. ASSUME NEW j \in Ips, NEW h \in Generations
        PROVE  Balanced(j, h)'
    <3>1. WithPermit(j, h)' = WithPermit(j, h) /\ Referred(j, h)' = Referred(j, h)
      BY <1>0, <1>1, <1>5 DEF WithPermit, Referred
    <3> QED
      BY <3>1, <2>1 DEF ServerInv, Balanced, PerIpLimit
  <2> QED
    BY <2>1, <2>2, <1>0, <1>1, <1>2, <1>3, <1>4 DEF ServerInv, ServerTypeOK
<1>6. CASE g # None
  <2>1. g \in Generations /\ i \in Ips
    BY <1>0, <1>6
  <2>2. free' = [free EXCEPT ![i][g] = @ + 1]
    BY <1>6 DEF Drop, Returned
  <2>3. c \in WithPermit(i, g) /\ Referred(i, g)
    BY <2>1 DEF WithPermit, Referred
  <2>4. free[i][g] + Cardinality(WithPermit(i, g)) = PerIpLimit
    BY <2>1, <2>3 DEF ServerInv, Balanced
  <2>5. /\ Cardinality(WithPermit(i, g) \ {c}) = Cardinality(WithPermit(i, g)) - 1
        /\ Cardinality(WithPermit(i, g) \ {c}) \in Nat
    <3>1. /\ IsFiniteSet(WithPermit(i, g) \ {c})
          /\ Cardinality(WithPermit(i, g) \ {c}) = Cardinality(WithPermit(i, g)) - 1
      BY <2>3, Counted, FS_RemoveElement DEF ServerInv
    <3> QED
      BY <3>1, FS_CardinalityType
  <2>6. free[i][g] + 1 \in 0 .. PerIpLimit
    BY <2>1, <2>4, <2>5, <1>0, Counted DEF ServerInv
  <2>7. free' \in [Ips -> [Generations -> 0 .. PerIpLimit]]
    <3>1. [free[i] EXCEPT ![g] = @ + 1] \in [Generations -> 0 .. PerIpLimit]
      BY <2>1, <2>6, <1>0
    <3>2. free' = [free EXCEPT ![i] = [free[i] EXCEPT ![g] = @ + 1]]
      BY <2>2
    <3> QED
      BY <3>1, <3>2, <1>0
  <2>8. ASSUME NEW j \in Ips, NEW h \in Generations
        PROVE  Balanced(j, h)'
    <3>1. CASE j = i /\ h = g
      <4>1. WithPermit(j, h)' = WithPermit(j, h) \ {c}
        BY <3>1, <1>0, <1>1, <2>1 DEF WithPermit
      <4>2. free'[j][h] = free[j][h] + 1
        BY <3>1, <2>1, <2>2, <1>0
      <4> QED
        BY <3>1, <4>1, <4>2, <2>4, <2>5, <2>1, <1>0, Counted DEF ServerInv, Balanced, PerIpLimit
    <3>2. CASE ~(j = i /\ h = g)
      <4>1. WithPermit(j, h)' = WithPermit(j, h)
        BY <3>2, <1>0, <1>1 DEF WithPermit
      <4>2. free'[j][h] = free[j][h]
        BY <3>2, <2>1, <2>2, <1>0
      <4>3. Referred(j, h)' => Referred(j, h)
        BY <1>0, <1>1 DEF Referred
      <4> QED
        BY <4>1, <4>2, <4>3 DEF ServerInv, Balanced, PerIpLimit
    <3> QED
      BY <3>1, <3>2
  <2> QED
    BY <2>7, <2>8, <1>1, <1>2, <1>3, <1>4 DEF ServerInv, ServerTypeOK
<1> QED
  BY <1>5, <1>6

\* A semaphore that is swept is balanced as long as it is referred to.
LEMMA SweepStep ==
  ASSUME ServerInv, SweepSemaphores
  PROVE  ServerTypeOK' /\ Limits'
<1> USE DEF Limits
<1>1. /\ entry' = [i \in Ips |-> IF i \in unused THEN None ELSE entry[i]]
      /\ UNCHANGED <<config, loop, signal, at, ip, asked, answer, global, holds, free, sem, bucket,
                     pace, unused>>
  BY DEF SweepSemaphores, requestVars
<1>2. ServerTypeOK'
  BY <1>1 DEF ServerInv, ServerTypeOK, PerIpLimit, GlobalLimit
<1>3. Placed' /\ GlobalBalanced'
  BY <1>1 DEF ServerInv, Placed, GlobalBalanced, PerIpLimit, GlobalLimit
<1>4. ASSUME NEW i \in Ips, NEW g \in Generations
      PROVE  Balanced(i, g)'
  <2>1. WithPermit(i, g)' = WithPermit(i, g)
    BY <1>1 DEF WithPermit
  <2>2. Referred(i, g)' => Referred(i, g)
    BY <1>1, ServerAssumption DEF Referred
  <2> QED
    BY <1>1, <2>1, <2>2 DEF ServerInv, Balanced, PerIpLimit
<1> QED
  BY <1>2, <1>3, <1>4

LEMMA InitInv == ServerInit => ServerInv
<1> SUFFICES ASSUME ServerInit PROVE ServerInv
  OBVIOUS
<1>1. ServerTypeOK
  <2>1. config \in Configs
    BY DEF ServerInit
  <2>2. PerIpLimit \in Nat /\ GlobalLimit \in Nat
    BY <2>1, ServerAssumption DEF PerIpLimit, GlobalLimit
  <2> QED
    BY <2>1, <2>2 DEF ServerInit, ServerTypeOK, AnyAsked, Requests, Answers
<1>2. Placed
  BY DEF ServerInit, Placed, Holders
<1>3. GlobalBalanced
  BY <1>1, FS_EmptySet, LimitTypes DEF ServerInit, GlobalBalanced
<1>4. \A i \in Ips, g \in Generations : Balanced(i, g)
  BY ServerAssumption DEF ServerInit, Balanced, Referred
<1>5. Deserted /\ AskedRightly
  BY DEF ServerInit, Deserted, AskedRightly
<1> QED
  BY <1>1, <1>2, <1>3, <1>4, <1>5 DEF ServerInv, Limits

\* The loop, and everything that leaves the connections alone.
LEMMA LoopKeeps ==
  ASSUME ServerInv, UNCHANGED <<config, at, ip, asked, answer, global, holds, free, sem, pace>>,
         \/ /\ Register \/ Hear \/ Exit \/ Signal \/ AcceptFails
            /\ UNCHANGED <<entry, bucket, unused>>
         \/ (\E i \in Ips : Age(i)) \/ SweepBuckets
         \/ UNCHANGED <<loop, signal, entry, bucket, unused>>
  PROVE  ServerInv'
<1>1. ServerTypeOK'
  BY DEF ServerInv, ServerTypeOK, Register, Hear, Exit, Signal, AcceptFails, Age, SweepBuckets,
         PerIpLimit, GlobalLimit
<1>2. entry' = entry
  BY DEF Age, SweepBuckets
<1>3. Limits'
  BY <1>2 DEF ServerInv, Limits, Placed, GlobalBalanced, Balanced, Referred, WithPermit,
              PerIpLimit, GlobalLimit
<1>4. Deserted'
  BY DEF ServerInv, Deserted, Open, Register, Hear, Exit, Signal, AcceptFails, Age, SweepBuckets
<1>5. AskedRightly'
  BY DEF ServerInv, AskedRightly
<1> QED
  BY <1>1, <1>3, <1>4, <1>5 DEF ServerInv

\* The steps of a connection that change no permits.
Moves(c) ==
  \/ Peek(c) \/ NoHost(c) \/ Serve(c) \/ Replied(c) \/ TunnelStep(c)
  \/ \E request \in Requests : NoneLeft(c, request)

\* Those that give permits back.
Drops(c) ==
  \/ Reject(c) \/ BodyEnds(c) \/ Disconnect(c)
  \/ \E status \in {"ok", "upstream", "bad gateway"} : ReplyBare(c, status)

LEMMA MovesKeep ==
  ASSUME ServerInv, NEW c \in Conns, Moves(c)
  PROVE  ServerTypeOK' /\ Limits'
<1>1. /\ ConnOnly /\ UNCHANGED limiterVars
      /\ \E to \in {"peeking"} \cup Http \cup Tunnelled \cup {"closed"} :
           /\ at' = [at EXCEPT ![c] = to]
           /\ \/ at[c] \notin Holders /\ to \notin Holders
              \/ at[c] = "handling" /\ to = "sending"
  <2>0. ConnOnly /\ UNCHANGED limiterVars
    BY DEF Moves, Peek, NoHost, Serve, Replied, TunnelStep, NoneLeft, HeadRead, HeadRefused,
       DialFails, DialTarget, DialProxy, ProxyAgrees, ProxyRefuses, Established, TunnelEnds,
       Refuse, Quietly
  <2> DEFINE Quiet(from, to) ==
               /\ at[c] = from /\ at' = [at EXCEPT ![c] = to]
               /\ from \notin Holders /\ to \notin Holders
               /\ to \in {"peeking"} \cup Http \cup Tunnelled \cup {"closed"}
  <2>1. CASE Serve(c)
    BY <2>0, <2>1 DEF Serve, Go, Set, Http
  <2>2. CASE Peek(c)
    <3>1. Quiet("peeking", "idle") \/ Quiet("peeking", "reading")
      BY <2>2 DEF Peek, Go, Set, Http, Tunnelled, Holders
    <3> QED
      BY <2>0, <3>1
  <2>3. CASE NoHost(c) \/ Replied(c) \/ \E request \in Requests : NoneLeft(c, request)
    <3>1. Quiet("idle", "replying") \/ Quiet("replying", "idle")
      BY <2>3 DEF NoHost, Replied, NoneLeft, Go, Set, Http, Holders
    <3> QED
      BY <2>0, <3>1
  <2>4. CASE HeadRead(c) \/ HeadRefused(c) \/ DialFails(c) \/ ProxyRefuses(c)
    <3>1. \/ Quiet("reading", "dialing") \/ Quiet("reading", "refusing")
          \/ Quiet("dialing", "refusing") \/ Quiet("agreeing", "refusing")
      BY <2>4 DEF HeadRead, HeadRefused, DialFails, ProxyRefuses, Refuse, Go, Set, Tunnelled, Holders
    <3> QED
      BY <2>0, <3>1
  <2>5. CASE DialTarget(c) \/ DialProxy(c) \/ ProxyAgrees(c) \/ Established(c)
    <3>1. \/ Quiet("dialing", "connected") \/ Quiet("dialing", "agreeing")
          \/ Quiet("agreeing", "connected") \/ Quiet("connected", "tunnel")
      BY <2>5 DEF DialTarget, DialProxy, ProxyAgrees, Established, Go, Set, Tunnelled, Holders
    <3> QED
      BY <2>0, <3>1
  <2>6. CASE TunnelEnds(c)
    <3>1. \E from \in {"reading", "refusing", "connected", "tunnel"} : Quiet(from, "closed")
      BY <2>6 DEF TunnelEnds, Go, Set, Holders
    <3> QED
      BY <2>0, <3>1
  <2> QED
    BY <2>1, <2>2, <2>3, <2>4, <2>5, <2>6 DEF Moves, TunnelStep
<1>2. asked' \in [Conns -> Requests \cup Targets] /\ answer' \in [Conns -> Answers]
  BY DEF Moves, Peek, NoHost, Serve, Replied, TunnelStep, NoneLeft, HeadRead, HeadRefused,
     DialFails, DialTarget, DialProxy, ProxyAgrees, ProxyRefuses, Established, TunnelEnds, Refuse,
     Set, Quietly, Answered, Cleared, AnyAsked, Requests, Answers, requestVars,
     ServerInv, ServerTypeOK
<1>3. Limits'
  BY <1>1, MoveStep DEF ConnOnly
<1>4. ServerTypeOK'
  BY <1>1, <1>2 DEF ServerInv, ServerTypeOK, ConnOnly, limiterVars, PerIpLimit, GlobalLimit
<1> QED
  BY <1>3, <1>4

LEMMA AcceptKeeps ==
  ASSUME ServerInv, NEW c \in Conns, Accept(c)
  PROVE  ServerTypeOK' /\ Limits'
<1>1. /\ at[c] = "closed" /\ at' = [at EXCEPT ![c] = "peeking"]
      /\ \E i \in Ips : ip' = [ip EXCEPT ![c] = i]
      /\ UNCHANGED <<config, limiterVars, asked, answer, signal>> /\ loop' = "registering"
  BY DEF Accept, Set, requestVars
<1>2. Limits'
  BY <1>1, MoveStep DEF Holders
<1>3. ServerTypeOK'
  BY <1>1 DEF ServerInv, ServerTypeOK, limiterVars, PerIpLimit, GlobalLimit
<1> QED
  BY <1>2, <1>3

LEMMA DropsKeep ==
  ASSUME ServerInv, NEW c \in Conns, Drops(c)
  PROVE  ServerTypeOK' /\ Limits'
<1>1. /\ ConnOnly /\ Drop(c) /\ UNCHANGED <<entry, bucket, unused>>
      /\ at[c] # "trying"
      /\ \E to \in {"idle", "replying", "closed"} : at' = [at EXCEPT ![c] = to]
  BY DEF Drops, Reject, BodyEnds, Disconnect, ReplyBare, Go, Set
<1>2. asked' \in [Conns -> Requests \cup Targets] /\ answer' \in [Conns -> Answers]
  BY DEF Drops, Reject, BodyEnds, Disconnect, ReplyBare, Set, Answered, Cleared, AnyAsked,
     Requests, Answers, ServerInv, ServerTypeOK
<1>3. at' \in [Conns -> {"closed", "peeking"} \cup Http \cup Tunnelled]
  BY <1>1 DEF ServerInv, ServerTypeOK, Http
<1>4. /\ Limits'
      /\ global' \in 0 .. GlobalLimit
      /\ holds' \subseteq Conns
      /\ free' \in [Ips -> [Generations -> 0 .. PerIpLimit]]
      /\ sem' \in [Conns -> Generations \cup {None}]
      /\ pace' \in [Conns -> Generations \cup {None}]
  BY <1>1, DropStep DEF ConnOnly
<1>5. ServerTypeOK'
  BY <1>1, <1>2, <1>3, <1>4 DEF ServerInv, ServerTypeOK, ConnOnly, PerIpLimit, GlobalLimit
<1> QED
  BY <1>4, <1>5

\* All the steps of a connection after it was accepted.
ConnStep(c) ==
  \/ Peek(c) \/ Asks(c) \/ Limited(c) \/ Handled(c) \/ BodyEnds(c)
  \/ Replied(c) \/ Disconnect(c) \/ TunnelStep(c)

LEMMA ConnKeeps ==
  ASSUME ServerInv, NEW c \in Conns, ConnStep(c)
  PROVE  ServerTypeOK' /\ Limits'
BY MovesKeep, DropsKeep, AcquireStep, SemaphoreStep, TakeStep, NoPermitStep, PaceStep
   DEF ConnStep, Asks, Limited, Handled, Moves, Drops

\* Only who has a connection moves.
LEMMA ConnAlive ==
  ASSUME ServerInv, NEW c \in Conns, ConnStep(c)
  PROVE  at[c] # "closed" /\ loop' = loop /\ config' = config
BY DEF ConnStep, Peek, Asks, NoHost, Acquire, NoneLeft, Limited, Semaphore, TakePermit, NoPermit,
   Pace, Handled, Reject, Serve, ReplyBare, BodyEnds, Replied, Disconnect, TunnelStep, HeadRead,
   HeadRefused, DialFails, DialTarget, DialProxy, ProxyAgrees, ProxyRefuses, Established,
   TunnelEnds, Refuse, Go, Quietly, ConnOnly, Http

LEMMA AskedStep ==
  ASSUME ServerInv, NEW c \in Conns, ConnStep(c)
  PROVE  AskedRightly'
<1>0. /\ at \in [Conns -> {"closed", "peeking"} \cup Http \cup Tunnelled]
      /\ asked \in [Conns -> Requests \cup Targets]
  BY DEF ServerInv, ServerTypeOK
<1>1. config' = config
  BY ConnAlive
<1>2. CASE HeadRead(c)
  BY <1>0, <1>1, <1>2 DEF HeadRead, Go, Set, ServerInv, AskedRightly
<1>3. CASE DialProxy(c)
  BY <1>0, <1>1, <1>3 DEF DialProxy, Quietly, requestVars, Go, Set, ServerInv, AskedRightly
<1>4. CASE /\ \E to : /\ at' = [at EXCEPT ![c] = to]
                      /\ to \notin {"dialing", "agreeing"}
           /\ \A d \in Conns \ {c} : asked'[d] = asked[d]
  BY <1>0, <1>1, <1>4 DEF ServerInv, AskedRightly
<1>5. CASE ~HeadRead(c) /\ ~DialProxy(c)
  <2> DEFINE Leaves == \E to : at' = [at EXCEPT ![c] = to] /\ to \notin {"dialing", "agreeing"}
  <2>1. Leaves
    <3>1. CASE Peek(c) \/ Replied(c) \/ BodyEnds(c) \/ Disconnect(c)
      <4>1. \E to \in {"idle", "reading", "closed"} : at' = [at EXCEPT ![c] = to]
        BY <3>1 DEF Peek, Replied, BodyEnds, Disconnect, Go, Set
      <4> QED
        BY <4>1
    <3>2. CASE Asks(c)
      <4>1. \E to \in {"replying", "pacing", "acquiring"} : at' = [at EXCEPT ![c] = to]
        BY <3>2 DEF Asks, NoHost, Acquire, NoneLeft, Go, Set
      <4> QED
        BY <4>1
    <3>3. CASE Limited(c)
      <4>1. \E to \in {"trying", "pacing", "replying", "handling"} : at' = [at EXCEPT ![c] = to]
        BY <3>3 DEF Limited, Semaphore, TakePermit, NoPermit, Pace, Go, Set
      <4> QED
        BY <4>1
    <3>4. CASE Handled(c)
      <4>1. \E to \in {"replying", "sending"} : at' = [at EXCEPT ![c] = to]
        BY <3>4 DEF Handled, Reject, Serve, ReplyBare, Go, Set
      <4> QED
        BY <4>1
    <3>5. CASE TunnelStep(c)
      <4>1. \E to \in {"refusing", "connected", "tunnel", "closed"} : at' = [at EXCEPT ![c] = to]
        BY <3>5, <1>5 DEF TunnelStep, HeadRefused, DialFails, DialTarget, ProxyAgrees,
           ProxyRefuses, Established, TunnelEnds, Refuse, Go, Set
      <4> QED
        BY <4>1
    <3> QED
      BY <3>1, <3>2, <3>3, <3>4, <3>5 DEF ConnStep
  <2>2. \A d \in Conns \ {c} : asked'[d] = asked[d]
    BY <1>5, <1>0 DEF ConnStep, Peek, Asks, NoHost, Acquire, NoneLeft, Limited, Semaphore,
       TakePermit, NoPermit, Pace, Handled, Reject, Serve, ReplyBare, BodyEnds, Replied,
       Disconnect, TunnelStep, HeadRefused, DialFails, DialTarget, ProxyAgrees, ProxyRefuses,
       Established, TunnelEnds, Refuse, Set, Quietly, ConnOnly, Answered, Cleared, requestVars
  <2> QED
    BY <1>4, <2>1, <2>2
<1> QED
  BY <1>2, <1>3, <1>5

LEMMA NextInv == ServerInv /\ [ServerNext]_serverVars => ServerInv'
<1> SUFFICES ASSUME ServerInv, [ServerNext]_serverVars PROVE ServerInv'
  OBVIOUS
<1>1. CASE \E c \in Conns : ConnStep(c)
  <2> PICK c \in Conns : ConnStep(c)
    BY <1>1
  <2>1. Deserted'
    BY ConnAlive DEF ServerInv, Deserted, Open
  <2> QED
    BY <2>1, ConnKeeps, AskedStep DEF ServerInv
<1>2. CASE \E c \in Conns : Accept(c)
  <2> PICK c \in Conns : Accept(c)
    BY <1>2
  <2>1. Deserted'
    BY DEF Accept, Deserted
  <2>2. AskedRightly'
    BY DEF Accept, Set, requestVars, ServerInv, ServerTypeOK, AskedRightly
  <2> QED
    BY <2>1, <2>2, AcceptKeeps DEF ServerInv
<1>3. CASE SweepSemaphores
  <2>1. Deserted' /\ AskedRightly'
    BY <1>3 DEF SweepSemaphores, requestVars, ServerInv, Deserted, Open, AskedRightly
  <2> QED
    BY <1>3, <2>1, SweepStep DEF ServerInv
<1>4. CASE LoopStep \/ Signal \/ AcceptFails
  BY <1>4, LoopKeeps DEF LoopStep, Signal, AcceptFails, Register, Hear, Exit, LoopOnly,
     limiterVars, requestVars
<1>5. CASE (\E i \in Ips : Age(i)) \/ SweepBuckets
  BY <1>5, LoopKeeps DEF Age, SweepBuckets, requestVars
<1>6. CASE UNCHANGED serverVars
  BY <1>6, LoopKeeps DEF serverVars, limiterVars, requestVars
<1> QED
  BY <1>1, <1>2, <1>3, <1>4, <1>5, <1>6 DEF ServerNext, ConnStep

(* Whatever is accepted, asked, dropped, swept or signalled, the state is  *)
(* typed and what a connection holds is told by where it is (handle_proxy, *)
(* IpRateLimiter::acquire, ThrottledPermitStream, run_proxy).              *)
THEOREM ServerInvariant == ServerSpec => []ServerInv
BY InitInv, NextInv, PTL DEF ServerSpec

-----------------------------------------------------------------------------
(* What follows from the invariant.                                        *)

(* The state of the service stays one that the code can represent: no      *)
(* semaphore has more permits than it was made with (Semaphore::new in     *)
(* IpRateLimiter), and only who asked has an answer.                       *)
THEOREM ServerTypeCorrect == ServerSpec => []ServerTypeOK
<1>1. ServerInv => ServerTypeOK
  BY DEF ServerInv
<1> QED
  BY <1>1, ServerInvariant, PTL

(* No permit is lost or given back twice, however requests end and         *)
(* whatever the sweep removes (acquire, ThrottledPermitStream,             *)
(* sweep_stale_entries_at).                                                *)
THEOREM PermitsAlwaysBalanced == ServerSpec => []PermitsBalanced
<1>1. ServerInv => PermitsBalanced
  BY DEF ServerInv, Limits, GlobalBalanced, Balanced, Referred, PermitsBalanced
<1> QED
  BY <1>1, ServerInvariant, PTL

(* Who sends a body has a global permit and, if addresses are limited, one *)
(* of a semaphore; who waits for its next request, has an answer without a *)
(* body or is a tunnel has none (handle_proxy_inner).                      *)
THEOREM HeldOnlyWhileServed == ServerSpec => []HeldWhileServed
<1>1. ServerInv => HeldWhileServed
  BY DEF ServerInv, Limits, Placed, Holders, HeldWhileServed
<1> QED
  BY <1>1, ServerInvariant, PTL

(* The service ends with no connection left and every global permit back   *)
(* (the JoinSet of run_proxy).                                             *)
THEOREM ExitAlwaysClean == ServerSpec => []ExitIsClean
<1>1. ASSUME ServerInv, loop = "exited"
      PROVE  Open = {} /\ global = GlobalLimit
  <2>1. Open = {}
    BY <1>1 DEF ServerInv, Deserted
  <2>2. holds = {}
    BY <1>1, <2>1 DEF Open, Holders, ServerInv, ServerTypeOK, Limits, Placed
  <2>3. Cardinality(holds) = 0
    BY <2>2, FS_EmptySet
  <2>4. global + Cardinality(holds) = GlobalLimit /\ global \in 0 .. GlobalLimit
    BY <1>1 DEF ServerInv, ServerTypeOK, Limits, GlobalBalanced
  <2>5. GlobalLimit \in Nat
    BY <1>1, LimitTypes DEF ServerInv
  <2> QED
    BY <2>1, <2>3, <2>4, <2>5
<1>2. ServerInv => ExitIsClean
  BY <1>1 DEF ExitIsClean
<1> QED
  BY <1>2, ServerInvariant, PTL

-----------------------------------------------------------------------------
(* The rules of no_proxy.                                                  *)

LEMMA WholeOctets ==
  ASSUME NEW bits \in Nat, bits % 8 = 0
  PROVE  bits \div 8 \in Nat /\ (bits + 7) \div 8 = bits \div 8
<1>1. bits \div 8 \in Nat /\ bits = 8 * (bits \div 8)
  BY Z3
<1> QED
  BY <1>1, Z3

(* A rule that names a host matches it, unless it is a network that ends   *)
(* within an octet: the octets that are compared are those of the network, *)
(* as texts, and equal texts begin alike (no_proxy_match).                 *)
LEMMA NamedMatches ==
  ASSUME NEW rule \in [kind : {"all", "suffix", "host"}, labels : Seq(Nat),
                       bits : {NoBits} \cup 0 .. 255],
         NEW host \in Seq(Nat),
         Names(host, rule), rule.bits = NoBits \/ rule.bits % 8 = 0
  PROVE  RuleMatches(host, rule)
<1>1. CASE rule.kind = "all"
  BY <1>1 DEF RuleMatches
<1>2. CASE rule.kind = "suffix"
  BY <1>2 DEF Names, RuleMatches
<1>3. CASE rule.kind = "host" /\ rule.bits = NoBits
  BY <1>3 DEF Names, RuleMatches
<1>4. CASE rule.kind = "host" /\ rule.bits # NoBits
  <2> DEFINE whole == rule.bits \div 8
             n == Min({Octets(rule.bits), Len(rule.labels)})
             prefix == SubSeq(rule.labels, 1, n)
  <2>1. /\ Len(host) = 4 /\ Len(rule.labels) = 4
        /\ SubSeq(host, 1, whole) = SubSeq(rule.labels, 1, whole)
    BY <1>4 DEF Names
  <2>2. rule.bits \in Nat /\ rule.bits % 8 = 0
    <3>1. rule.bits \in 0 .. 255
      BY <1>4
    <3>2. \A k \in 0 .. 255 : k \in Nat
      OBVIOUS
    <3>3. rule.bits \in Nat
      BY <3>1, <3>2, Zenon
    <3> QED
      BY <3>3, <1>4
  <2>3. whole \in Nat /\ Octets(rule.bits) = whole
    <3>1. Octets(rule.bits) = (rule.bits + 7) \div 8
      BY <1>4 DEF Octets
    <3> QED
      BY <3>1, <2>2, WholeOctets
  <2> HIDE DEF whole
  <2>4. n \in Nat /\ n <= 4 /\ n <= whole
    <3>1. CASE whole <= 4
      <4>1. n = whole
        BY <3>1, <2>1, <2>3 DEF Min
      <4> QED
        BY <4>1, <3>1, <2>3
    <3>2. CASE whole > 4
      <4>1. n = 4
        BY <3>2, <2>1, <2>3 DEF Min
      <4> QED
        BY <4>1, <3>2, <2>3
    <3> QED
      BY <3>1, <3>2, <2>3
  <2> HIDE DEF n
  <2>5. \A k \in 1 .. n : host[k] = rule.labels[k]
    <3> SUFFICES ASSUME NEW k \in 1 .. n PROVE host[k] = rule.labels[k]
      OBVIOUS
    <3>1. k \in 1 .. whole
      BY <2>3, <2>4
    <3>2. SubSeq(host, 1, whole)[k] = host[k] /\ SubSeq(rule.labels, 1, whole)[k] = rule.labels[k]
      BY <3>1, <2>3
    <3> QED
      BY <3>2, <2>1
  <2>6. Len(prefix) = n /\ \A k \in 1 .. n : prefix[k] = rule.labels[k]
    BY <2>1, <2>4
  <2>7. n > 0 => /\ SubSeq(host, 1, n - 1) = SubSeq(prefix, 1, n - 1)
                 /\ host[n] = prefix[n]
    <3> SUFFICES ASSUME n > 0
                 PROVE  SubSeq(host, 1, n - 1) = SubSeq(prefix, 1, n - 1) /\ host[n] = prefix[n]
      OBVIOUS
    <3>1. host[n] = prefix[n]
      BY <2>4, <2>5, <2>6
    <3>2. prefix \in Seq(Nat)
      BY <2>1, <2>4
    <3>3. SubSeq(host, 1, n - 1) = [k \in 1 .. n - 1 |-> host[k]]
      BY <2>1, <2>4
    <3>4. SubSeq(prefix, 1, n - 1) = [k \in 1 .. n - 1 |-> prefix[k]]
      BY <3>2, <2>4, <2>6
    <3>5. \A k \in 1 .. n - 1 : host[k] = prefix[k]
      BY <2>4, <2>5, <2>6
    <3> QED
      BY <3>1, <3>3, <3>4, <3>5
  <2>8. StartsWith(host, prefix)
    BY <2>1, <2>4, <2>6, <2>7 DEF StartsWith, BeginsWith
  <2> QED
    BY <2>1, <2>8, <1>4 DEF RuleMatches, n
<1> QED
  BY <1>1, <1>2, <1>3, <1>4

(* Neither an HTTP nor a SOCKS5 proxy is ever asked for a host that a rule *)
(* of no_proxy names, if its networks are of whole octets                  *)
(* (handle_connect_tunnel, no_proxy_match).  Of other networks it does not *)
(* hold (NetworkIsBypassed).                                               *)
THEOREM ProxyAlwaysBypassed == ServerSpec => []ProxyIsBypassed
<1>1. ASSUME ServerInv, NEW c \in Conns, at[c] = "agreeing", NEW rule \in config.noProxy,
             rule.bits = NoBits \/ rule.bits % 8 = 0, Names(Labels[asked[c]], rule)
      PROVE  FALSE
  <2>1. Labels[asked[c]] \in Seq(Nat)
    BY <1>1, ServerAssumption DEF ServerInv, AskedRightly
  <2>2. RuleMatches(Labels[asked[c]], rule)
    BY <1>1, <2>1, LimitTypes, NamedMatches DEF ServerInv
  <2> QED
    BY <1>1, <2>2 DEF ServerInv, AskedRightly, Bypasses
<1>2. ServerInv => ProxyIsBypassed
  BY <1>1 DEF ProxyIsBypassed
<1> QED
  BY <1>2, ServerInvariant, PTL

=============================================================================
