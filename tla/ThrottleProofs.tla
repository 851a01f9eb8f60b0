--------------------------- MODULE ThrottleProofs ---------------------------
(***************************************************************************)
(* What the token bucket and its users promise for any number of users,    *)
(* any rate and any chunks: the rate is kept although refills and takes    *)
(* interleave, a body is delivered in order and never sleeps without a     *)
(* timer, and a worker writes what it paid for.                            *)
(***************************************************************************)
EXTENDS Throttle, FiniteSetTheorems, WellFoundedInduction, TLAPS

-----------------------------------------------------------------------------
(* Numbers.                                                                *)

LEMMA LeastElement ==
  ASSUME NEW S \in SUBSET Nat, S # {}
  PROVE  Min(S) \in S /\ \A x \in S : Min(S) <= x
<1>1. PICK least \in S : \A x \in S : ~(<<x, least>> \in OpToRel(<, Nat))
  BY NatLessThanWellFounded, WFMin
<1>2. ASSUME NEW x \in S
      PROVE  least <= x
  <2>1. ~(x < least)
    BY <1>1 DEF OpToRel
  <2> QED
    BY <2>1
<1> QED
  BY <1>2 DEF Min

(* By the least number of elements of a set that has none.                 *)
LEMMA GreatestElement ==
  ASSUME NEW S \in SUBSET Nat, S # {}, IsFiniteSet(S)
  PROVE  Max(S) \in S /\ \A x \in S : x <= Max(S)
<1> DEFINE Bounded(T) == \E m \in T : \A x \in T : x <= m
           Bad == {n \in Nat : \E T \in SUBSET S : T # {} /\ Cardinality(T) = n /\ ~Bounded(T)}
<1>1. Bad = {}
  <2> SUFFICES ASSUME Bad # {} PROVE FALSE
    OBVIOUS
  <2>1. Bad \in SUBSET Nat
    OBVIOUS
  <2>2. PICK least \in Bad : \A n \in Bad : least <= n
    BY <2>1, LeastElement
  <2>3. PICK T \in SUBSET S : T # {} /\ Cardinality(T) = least /\ ~Bounded(T)
    BY <2>2
  <2>4. PICK t \in T : TRUE
    BY <2>3
  <2>5. IsFiniteSet(T) /\ Cardinality(T) \in Nat
    BY <2>3, FS_Subset, FS_CardinalityType
  <2>6. IsFiniteSet(T \ {t}) /\ Cardinality(T \ {t}) = Cardinality(T) - 1
    BY <2>4, <2>5, FS_RemoveElement
  <2>7. Cardinality(T \ {t}) \in Nat
    BY <2>6, FS_CardinalityType
  <2>8. T \ {t} # {}
    BY <2>3, <2>4
  <2>9. Cardinality(T \ {t}) \notin Bad
    <3> HIDE DEF Bad
    <3>1. Cardinality(T \ {t}) < least /\ least \in Nat
      BY <2>3, <2>5, <2>6, <2>7
    <3> QED
      BY <3>1, <2>2, <2>7
  <2>10. Bounded(T \ {t})
    BY <2>3, <2>7, <2>8, <2>9
  <2>11. PICK m \in T \ {t} : \A x \in T \ {t} : x <= m
    BY <2>10
  <2>12. T \in SUBSET Nat
    BY <2>3
  <2>13. Bounded(T)
    <3>1. CASE t <= m
      BY <3>1, <2>11, <2>12
    <3>2. CASE m <= t
      BY <3>2, <2>4, <2>11, <2>12
    <3> QED
      BY <3>1, <3>2, <2>4, <2>11, <2>12
  <2> QED
    BY <2>3, <2>13
<1>2. Cardinality(S) \in Nat
  BY FS_CardinalityType
<1>3. Bounded(S)
  BY <1>1, <1>2
<1> QED
  BY <1>3 DEF Max

(* Chunks follow one another up to the length of what is read.             *)
LEMMA Cutting ==
  ASSUME NEW u \in Users
  PROVE  /\ Length(u) \in Nat \ {0}
         /\ \A from \in Nat : from < Length(u) =>
              /\ Cut(u, from) \in Nat
              /\ from < Cut(u, from) /\ Cut(u, from) <= Length(u)
<1>1. Cuts[u] \in SUBSET Nat /\ Cuts[u] # {} /\ IsFiniteSet(Cuts[u]) /\ 0 \notin Cuts[u]
  BY ThrottleAssumption
<1>2. Length(u) \in Cuts[u] /\ \A c \in Cuts[u] : c <= Length(u)
  BY <1>1, GreatestElement DEF Length
<1>3. ASSUME NEW from \in Nat, from < Length(u)
      PROVE  /\ Cut(u, from) \in Nat
             /\ from < Cut(u, from) /\ Cut(u, from) <= Length(u)
  <2> DEFINE after == {c \in Cuts[u] : c > from}
  <2>1. after \in SUBSET Nat /\ Length(u) \in after
    BY <1>1, <1>2, <1>3
  <2>2. Min(after) \in after
    BY <2>1, LeastElement
  <2> QED
    BY <2>2, <1>1, <1>2 DEF Cut
<1> QED
  BY <1>1, <1>2, <1>3

LEMMA Products ==
  ASSUME NEW p \in Nat
  PROVE  /\ \A a \in Nat : p * a \in Nat
         /\ \A a, b \in Int : p * (a + b) = p * a + p * b
         /\ \A a, b \in Int : p * (a - b) = p * a - p * b
         /\ \A a, b \in Nat : a <= b => p * a <= p * b
<1>1. \A a \in Nat : p * a \in Nat
  BY Z3
<1>2. \A a, b \in Int : p * (a + b) = p * a + p * b
  BY Z3
<1>3. \A a, b \in Int : p * (a - b) = p * a - p * b
  BY Z3
<1>4. \A a, b \in Nat : a <= b => p * a <= p * b
  BY Z3
<1> QED
  BY <1>1, <1>2, <1>3, <1>4

LEMMA Division ==
  ASSUME NEW p \in Nat \ {0}, NEW t \in Nat
  PROVE  t \div p \in Nat /\ p * (t \div p) <= t
<1>1. t \div p \in Nat
  BY Z3
<1>2. p * (t \div p) <= t
  BY Z3
<1> QED
  BY <1>1, <1>2

-----------------------------------------------------------------------------
(* The bucket.                                                             *)

Calling == {u \in Users : call[u].at # "none"}

(* What one call has at hand.  A refill that will win the date is worth no *)
(* more than the time it read off, to which the time since then is added.  *)
CallsConsistent ==
  \A u \in Users :
    /\ call[u].grant > 0 => call[u].at = "granting"
    /\ Period = 0 => call[u].at \in {"none", "taking"}
    /\ call[u].current =>
         /\ call[u].at = "dating"
         /\ Period * (tokens + InFlight) + call[u].elapsed + call[u].lag <= credit

BucketInv ==
  /\ BucketTypeOK
  /\ CallsConsistent
  /\ RateKept

LEMMA BucketNumbers ==
  /\ MaxTokens \in Nat \ {0} /\ Period \in Nat /\ Full \in Nat
  /\ Ceiling = Full + Full + MaxCallers * Full /\ Ceiling \in Nat
<1>1. MaxTokens \in Nat \ {0}
  BY BucketAssumption DEF MaxTokens
<1>2. Period \in Nat
  BY BucketAssumption, Division DEF Period
<1>3. Full \in Nat
  BY <1>1, <1>2, Products DEF Full
<1>4. (MaxCallers + 2) * Full = Full + Full + MaxCallers * Full /\ MaxCallers * Full \in Nat
  <2>1. \A m, f \in Nat : (m + 2) * f = f + f + m * f /\ m * f \in Nat
    BY Z3
  <2> QED
    BY <1>3, <2>1, BucketAssumption
<1> QED
  BY <1>1, <1>2, <1>3, <1>4 DEF Ceiling

(* The tokens in flight are those of the calls, added.                     *)
GrantOf(u) == {u} \X (1 .. call[u].grant)

LEMMA GrantCounted ==
  ASSUME NEW u, NEW n \in Nat
  PROVE  IsFiniteSet({u} \X (1 .. n)) /\ Cardinality({u} \X (1 .. n)) = n
<1>1. IsFiniteSet(1 .. n) /\ Cardinality(1 .. n) = n
  <2>1. n \in Int /\ 1 \in Int /\ n - 1 + 1 = n /\ (1 > n => n = 0)
    OBVIOUS
  <2> QED
    BY <2>1, FS_Interval
<1>2. IsFiniteSet({u}) /\ Cardinality({u}) = 1
  BY FS_Singleton
<1>3. IsFiniteSet({u} \X (1 .. n)) /\ Cardinality({u} \X (1 .. n)) = 1 * n
  BY <1>1, <1>2, FS_Product
<1> QED
  BY <1>3

LEMMA InFlightFinite ==
  ASSUME BucketTypeOK
  PROVE  IsFiniteSet(GrantedTokens) /\ InFlight \in Nat
<1>1. ASSUME NEW u \in Users
      PROVE  IsFiniteSet(GrantOf(u))
  <2>1. call[u].grant \in Nat
    BY BucketNumbers DEF BucketTypeOK, Call
  <2> QED
    BY <2>1, GrantCounted DEF GrantOf
<1>2. GrantedTokens = UNION {GrantOf(u) : u \in Users}
  BY DEF GrantedTokens, GrantOf
<1>3. IsFiniteSet({GrantOf(u) : u \in Users})
  <2>1. [u \in Users |-> GrantOf(u)] \in Surjection(Users, {GrantOf(u) : u \in Users})
    BY DEF Surjection
  <2> QED
    BY <2>1, FS_Surjection, BucketAssumption
<1>4. IsFiniteSet(GrantedTokens)
  BY <1>1, <1>2, <1>3, FS_UNION
<1> QED
  BY <1>1, <1>4, FS_CardinalityType DEF InFlight

\* One call is granted n tokens more, or adds those it was granted.
LEMMA InFlightChanges ==
  ASSUME BucketTypeOK, BucketTypeOK', NEW u \in Users,
         \A v \in Users \ {u} : call'[v].grant = call[v].grant
  PROVE  InFlight' + call[u].grant = InFlight + call'[u].grant /\ InFlight' \in Nat
<1> DEFINE others == UNION {GrantOf(v) : v \in Users \ {u}}
<1>1. others' = others
  BY DEF GrantOf
<1>2. /\ GrantedTokens = others \cup GrantOf(u) /\ others \cap GrantOf(u) = {}
      /\ GrantedTokens' = others \cup GrantOf(u)' /\ others \cap GrantOf(u)' = {}
  BY DEF GrantedTokens, GrantOf
<1>3. /\ call[u].grant \in Nat /\ call'[u].grant \in Nat
      /\ IsFiniteSet(GrantedTokens)
  BY BucketNumbers, InFlightFinite DEF BucketTypeOK, Call
<1>4. /\ IsFiniteSet(GrantOf(u)) /\ Cardinality(GrantOf(u)) = call[u].grant
      /\ IsFiniteSet(GrantOf(u)') /\ Cardinality(GrantOf(u)') = call'[u].grant
  BY <1>3, GrantCounted DEF GrantOf
<1>5. IsFiniteSet(others) /\ Cardinality(others) \in Nat
  BY <1>2, <1>3, FS_Subset, FS_CardinalityType
<1>6. /\ InFlight = Cardinality(others) + call[u].grant
      /\ InFlight' = Cardinality(others) + call'[u].grant
  <2> HIDE DEF others
  <2>1. Cardinality(others \cup GrantOf(u)) = Cardinality(others) + call[u].grant - 0
    BY <1>2, <1>4, <1>5, FS_Union, FS_EmptySet
  <2>2. Cardinality(others \cup GrantOf(u)') = Cardinality(others) + call'[u].grant - 0
    BY <1>2, <1>4, <1>5, FS_Union, FS_EmptySet
  <2> QED
    BY <1>2, <1>3, <1>5, <2>1, <2>2 DEF InFlight
<1> QED
  BY <1>3, <1>5, <1>6

\* A call begins, looks and finds no time passed, or ends with n tokens.
LEMMA CallMoves ==
  ASSUME BucketInv, NEW u \in Users, NEW n \in Nat, NEW to \in {"none", "looking", "taking"},
         call[u].at # "granting", to = "looking" => Period # 0,
         call' = [call EXCEPT ![u] = Stage(to, 0, 0, FALSE)],
         n <= tokens, tokens' = tokens - n, credit' = credit - n * Period, since' = since
  PROVE  BucketInv'
<1>1. MaxTokens \in Nat /\ Period \in Nat /\ Full \in Nat
  BY BucketNumbers
<1>2. tokens \in 0 .. MaxTokens /\ credit \in Int /\ since \in 0 .. Full /\ call \in [Users -> Call]
  BY DEF BucketInv, BucketTypeOK
<1>3. Stage(to, 0, 0, FALSE) \in Call
  <2>1. 0 \in 0 .. Full /\ 0 \in 0 .. MaxTokens
    BY <1>1
  <2> QED
    BY <2>1 DEF Stage, Call
<1>4. tokens' \in 0 .. MaxTokens /\ n * Period = Period * n /\ Period * n \in Nat
  <2>1. n * Period = Period * n /\ Period * n \in Nat
    BY <1>1, Z3
  <2> QED
    BY <2>1, <1>1, <1>2
<1>5. BucketTypeOK'
  <2> DEFINE fresh == Stage(to, 0, 0, FALSE)
  <2>1. call' = [call EXCEPT ![u] = fresh] /\ fresh \in Call
    BY <1>3
  <2> HIDE DEF fresh
  <2>2. call' \in [Users -> Call]
    BY <1>2, <2>1
  <2>3. credit' \in Int
    BY <1>2, <1>4
  <2>4. since' \in 0 .. Full
    BY <1>2
  <2> QED
    BY <1>4, <2>2, <2>3, <2>4 DEF BucketTypeOK
<1>6. InFlight' = InFlight /\ InFlight \in Nat
  <2>1. InFlight \in Nat
    BY InFlightFinite DEF BucketInv
  <2>2. call[u].grant = 0 /\ call'[u].grant = 0
    <3>1. call[u].grant = 0
      BY <1>2, <1>1 DEF BucketInv, CallsConsistent, Call
    <3>2. call'[u] = Stage(to, 0, 0, FALSE)
      BY <1>2
    <3> QED
      BY <3>1, <3>2 DEF Stage
  <2>3. \A v \in Users \ {u} : call'[v].grant = call[v].grant
    BY <1>2
  <2>4. \A v \in Users : call'[v].grant = call[v].grant
    BY <2>2, <2>3
  <2>5. GrantedTokens' = GrantedTokens
    BY <2>4 DEF GrantedTokens
  <2> QED
    BY <2>1, <2>5 DEF InFlight
<1>7. Period * (tokens' + InFlight') = Period * (tokens + InFlight) - Period * n
  <2>1. tokens' + InFlight' = (tokens + InFlight) - n /\ tokens + InFlight \in Int
    BY <1>2, <1>6
  <2> QED
    BY <1>1, <2>1, Products
<1>8. Period * (tokens + InFlight) \in Nat
  <2>1. tokens + InFlight \in Nat
    BY <1>1, <1>2, <1>6
  <2> QED
    BY <1>1, <2>1, Products
<1>9. RateKept'
  BY <1>1, <1>2, <1>4, <1>7, <1>8 DEF BucketInv, RateKept
<1>10. CallsConsistent'
  <2> SUFFICES ASSUME NEW v \in Users
               PROVE  /\ call'[v].grant > 0 => call'[v].at = "granting"
                      /\ Period = 0 => call'[v].at \in {"none", "taking"}
                      /\ call'[v].current =>
                           /\ call'[v].at = "dating"
                           /\ Period * (tokens' + InFlight') + call'[v].elapsed + call'[v].lag
                                <= credit'
    BY DEF CallsConsistent, Period
  <2>1. CASE v = u
    BY <2>1, <1>2 DEF Stage
  <2>2. CASE v # u
    <3>1. call'[v] = call[v]
      BY <2>2, <1>2
    <3>2. call[v].elapsed \in Nat /\ call[v].lag \in Nat
      BY <1>1, <1>2 DEF Call
    <3>3. /\ call[v].grant > 0 => call[v].at = "granting"
          /\ Period = 0 => call[v].at \in {"none", "taking"}
          /\ call[v].current =>
               /\ call[v].at = "dating"
               /\ Period * (tokens + InFlight) + call[v].elapsed + call[v].lag <= credit
      BY DEF BucketInv, CallsConsistent
    <3>4. call[v].current =>
            Period * (tokens' + InFlight') + call[v].elapsed + call[v].lag <= credit'
      BY <3>2, <3>3, <1>2, <1>4, <1>7, <1>8
    <3> QED
      BY <3>1, <3>3, <3>4
  <2> QED
    BY <2>1, <2>2
<1> QED
  BY <1>5, <1>9, <1>10 DEF BucketInv

LEMMA WorthIsLess ==
  ASSUME NEW time \in Nat, Period # 0
  PROVE  Worth(time) \in 0 .. MaxTokens /\ Period * Worth(time) <= time
<1>1. Period \in Nat \ {0} /\ MaxTokens \in Nat
  BY BucketNumbers
<1>2. time \div Period \in Nat /\ Period * (time \div Period) <= time
  BY <1>1, Division
<1> DEFINE quotient == time \div Period
<1> HIDE DEF quotient
<1>3. Worth(time) \in Nat /\ Worth(time) <= MaxTokens /\ Worth(time) <= quotient
  BY <1>1, <1>2 DEF Worth, AtMost, quotient
<1>4. Period * Worth(time) <= Period * quotient
  BY <1>1, <1>2, <1>3, Products DEF quotient
<1>5. Period * Worth(time) \in Nat /\ Period * quotient \in Nat
  BY <1>1, <1>2, <1>3, Products DEF quotient
<1> QED
  BY <1>2, <1>3, <1>4, <1>5, <1>1 DEF quotient

\* Whoever wins the date is granted no more than the time it read off.
LEMMA DateStep ==
  ASSUME BucketInv, NEW u \in Users, Date(u)
  PROVE  BucketInv'
<1>1. MaxTokens \in Nat /\ Period \in Nat /\ Full \in Nat
  BY BucketNumbers
<1>2. tokens \in 0 .. MaxTokens /\ credit \in Int /\ since \in 0 .. Full /\ call \in [Users -> Call]
  BY DEF BucketInv, BucketTypeOK
<1>3. CASE ~call[u].current
  <2>1. call' = [call EXCEPT ![u] = Stage("taking", 0, 0, FALSE)]
    BY <1>3 DEF Date, AtTaking
  <2>2. call[u].at # "granting" /\ UNCHANGED <<tokens, since, credit>>
    BY <1>3 DEF Date
  <2>3. 0 \in Nat /\ 0 <= tokens /\ tokens' = tokens - 0 /\ credit' = credit - 0 * Period
    BY <2>2, <1>1, <1>2
  <2> QED
    BY <2>1, <2>2, <2>3, CallMoves
<1>4. CASE call[u].current
  <2> DEFINE g == Worth(call[u].elapsed)
  <2>1. /\ call' = [v \in Users |-> IF v = u THEN Granted(u) ELSE [call[v] EXCEPT !.current = FALSE]]
        /\ since' = call[u].lag /\ UNCHANGED <<tokens, credit>>
    BY <1>4 DEF Date
  <2>2. /\ Period # 0 /\ call[u].grant = 0
        /\ Period * (tokens + InFlight) + call[u].elapsed + call[u].lag <= credit
    <3>1. call[u].at = "dating"
      BY DEF Date
    <3> QED
      BY <3>1, <1>4, <1>1, <1>2 DEF BucketInv, CallsConsistent, Call
  <2>3. call[u].elapsed \in Nat /\ call[u].lag \in 0 .. Full
    BY <1>1, <1>2 DEF Call
  <2>4. g \in 0 .. MaxTokens /\ Period * g <= call[u].elapsed
    BY <2>2, <2>3, WorthIsLess
  <2> HIDE DEF g
  <2>5. /\ Granted(u) \in Call /\ Granted(u).grant = g /\ ~Granted(u).current
        /\ g > 0 => Granted(u).at = "granting"
    <3>1. 0 \in 0 .. Full /\ 0 \in 0 .. MaxTokens
      BY <1>1
    <3>2. CASE g = 0
      <4>1. Granted(u) = [at |-> "taking", elapsed |-> 0, lag |-> 0, grant |-> 0, current |-> FALSE]
        BY <3>2 DEF Granted, AtTaking, Stage, g
      <4> QED
        BY <4>1, <3>1, <3>2 DEF Call
    <3>3. CASE g # 0
      <4>1. Granted(u) = [at |-> "granting", elapsed |-> 0, lag |-> 0, grant |-> g, current |-> FALSE]
        BY <3>3 DEF Granted, Stage, g
      <4> QED
        BY <4>1, <3>1, <2>4 DEF Call
    <3> QED
      BY <3>2, <3>3
  <2>6. BucketTypeOK'
    <3>1. \A v \in Users : [call[v] EXCEPT !.current = FALSE] \in Call
      BY <1>2 DEF Call
    <3>2. call' \in [Users -> Call]
      BY <2>1, <2>5, <3>1
    <3> QED
      BY <1>2, <2>1, <2>3, <3>2 DEF BucketTypeOK
  <2>7. \A v \in Users \ {u} : /\ call'[v].grant = call[v].grant /\ call'[v].at = call[v].at
                               /\ ~call'[v].current
    BY <2>1, <1>2 DEF Call
  <2>8. InFlight' = InFlight + g /\ InFlight \in Nat
    <3>1. InFlight' + call[u].grant = InFlight + call'[u].grant /\ InFlight' \in Nat
      BY <2>6, <2>7, InFlightChanges DEF BucketInv
    <3>2. InFlight \in Nat
      BY InFlightFinite DEF BucketInv
    <3>3. call'[u].grant = g
      BY <2>1, <2>5
    <3>4. call[u].grant = 0 /\ g \in Nat
      BY <2>2, <2>4, <1>1
    <3>5. InFlight' + 0 = InFlight + g
      BY <3>1, <3>3, <3>4
    <3>6. InFlight' \in Int /\ InFlight \in Int /\ g \in Int
      BY <3>1, <3>2, <3>4
    <3>7. \A m, n, k \in Int : m + 0 = n + k => m = n + k
      OBVIOUS
    <3> QED
      BY <3>2, <3>5, <3>6, <3>7
  <2>9. RateKept'
    <3>1. tokens + InFlight \in Nat /\ g \in Nat
      BY <2>4, <2>8, <1>1, <1>2
    <3>2. Period * ((tokens + InFlight) + g) = Period * (tokens + InFlight) + Period * g
      BY <3>1, <1>1, Products
    <3>3. Period * (tokens + InFlight) \in Nat /\ Period * g \in Nat
      BY <3>1, <1>1, Products
    <3>4. tokens' + InFlight' = (tokens + InFlight) + g
      BY <2>1, <2>8, <3>1, <1>2
    <3>5. Period * (tokens' + InFlight') + since' <= credit'
      BY <3>2, <3>3, <3>4, <2>1, <2>2, <2>3, <2>4, <1>1, <1>2
    <3> QED
      BY <3>5 DEF RateKept, Period
  <2>10. CallsConsistent'
    <3>1. /\ call'[u].grant > 0 => call'[u].at = "granting"
          /\ ~call'[u].current
      BY <2>1, <2>5
    <3> QED
      BY <3>1, <2>2, <2>7 DEF BucketInv, CallsConsistent, Period
  <2> QED
    BY <2>6, <2>9, <2>10 DEF BucketInv
<1> QED
  BY <1>3, <1>4

LEMMA GrantStep ==
  ASSUME BucketInv, NEW u \in Users, Grant(u)
  PROVE  BucketInv'
<1> DEFINE g == call[u].grant
<1>1. MaxTokens \in Nat /\ Period \in Nat /\ Full \in Nat
  BY BucketNumbers
<1>2. tokens \in 0 .. MaxTokens /\ credit \in Int /\ since \in 0 .. Full /\ call \in [Users -> Call]
  BY DEF BucketInv, BucketTypeOK
<1>3. g \in 0 .. MaxTokens
  BY <1>2 DEF Call
<1>4. call' = [call EXCEPT ![u] = AtTaking] /\ UNCHANGED <<since, credit>>
  BY DEF Grant
<1>5. tokens' \in 0 .. MaxTokens /\ tokens' <= tokens + g
  BY <1>1, <1>2, <1>3 DEF Grant, AtMost
<1>6. AtTaking = [at |-> "taking", elapsed |-> 0, lag |-> 0, grant |-> 0, current |-> FALSE]
  BY DEF AtTaking, Stage
<1>7. BucketTypeOK'
  <2>1. 0 \in 0 .. Full /\ 0 \in 0 .. MaxTokens
    BY <1>1
  <2>2. AtTaking \in Call
    BY <1>6, <2>1 DEF Call
  <2> QED
    BY <1>2, <1>4, <1>5, <2>2 DEF BucketTypeOK
<1>8. InFlight \in Nat /\ InFlight' \in Nat /\ InFlight' + g = InFlight
  <2>1. \A v \in Users \ {u} : call'[v].grant = call[v].grant
    BY <1>2, <1>4
  <2>2. InFlight' + g = InFlight + call'[u].grant /\ InFlight' \in Nat
    BY <1>7, <2>1, InFlightChanges DEF BucketInv
  <2>3. InFlight \in Nat
    BY InFlightFinite DEF BucketInv
  <2>4. call'[u].grant = 0
    BY <1>2, <1>4, <1>6
  <2>5. InFlight' + g = InFlight + 0
    BY <2>2, <2>4
  <2> QED
    BY <2>2, <2>3, <2>5
<1> HIDE DEF g
<1>9. /\ tokens' + InFlight' \in Nat /\ tokens + InFlight \in Nat
      /\ tokens' + InFlight' <= tokens + InFlight
  <2>1. tokens \in Nat /\ tokens' \in Nat /\ g \in Nat
    BY <1>1, <1>2, <1>3, <1>5
  <2>2. tokens' <= tokens + g
    BY <1>5
  <2>3. \A t, f, n, i, j \in Nat :
          n <= t + f /\ j + f = i => n + j \in Nat /\ t + i \in Nat /\ n + j <= t + i
    OBVIOUS
  <2> QED
    BY <1>8, <2>1, <2>2, <2>3
<1>10. /\ Period * (tokens' + InFlight') <= Period * (tokens + InFlight)
       /\ Period * (tokens' + InFlight') \in Nat /\ Period * (tokens + InFlight) \in Nat
  BY <1>1, <1>9, Products
<1>11. RateKept'
  BY <1>1, <1>2, <1>4, <1>10 DEF BucketInv, RateKept, Period
<1>12. CallsConsistent'
  <2> SUFFICES ASSUME NEW v \in Users
               PROVE  /\ call'[v].grant > 0 => call'[v].at = "granting"
                      /\ Period = 0 => call'[v].at \in {"none", "taking"}
                      /\ call'[v].current =>
                           /\ call'[v].at = "dating"
                           /\ Period * (tokens' + InFlight') + call'[v].elapsed + call'[v].lag
                                <= credit'
    BY DEF CallsConsistent, Period
  <2>1. CASE v = u
    BY <2>1, <1>2, <1>4, <1>6
  <2>2. CASE v # u
    <3>1. call'[v] = call[v]
      BY <2>2, <1>2, <1>4
    <3>2. call[v].elapsed \in Nat /\ call[v].lag \in Nat
      BY <1>1, <1>2 DEF Call
    <3>3. /\ call[v].grant > 0 => call[v].at = "granting"
          /\ Period = 0 => call[v].at \in {"none", "taking"}
          /\ call[v].current =>
               /\ call[v].at = "dating"
               /\ Period * (tokens + InFlight) + call[v].elapsed + call[v].lag <= credit
      BY DEF BucketInv, CallsConsistent
    <3>4. call[v].current =>
            Period * (tokens' + InFlight') + call[v].elapsed + call[v].lag <= credit'
      BY <3>2, <3>3, <1>2, <1>4, <1>10
    <3> QED
      BY <3>1, <3>3, <3>4
  <2> QED
    BY <2>1, <2>2
<1> QED
  BY <1>7, <1>11, <1>12 DEF BucketInv

LEMMA LookStep ==
  ASSUME BucketInv, NEW u \in Users, Look(u)
  PROVE  BucketInv'
<1>1. MaxTokens \in Nat /\ Period \in Nat /\ Full \in Nat
  BY BucketNumbers
<1>2. tokens \in 0 .. MaxTokens /\ credit \in Int /\ since \in 0 .. Full /\ call \in [Users -> Call]
  BY DEF BucketInv, BucketTypeOK
<1>3. call[u].at = "looking" /\ UNCHANGED <<tokens, since, credit>>
  BY DEF Look
<1>4. CASE since = 0
  <2>1. call' = [call EXCEPT ![u] = Stage("taking", 0, 0, FALSE)]
    BY <1>4 DEF Look, AtTaking
  <2>2. 0 \in Nat /\ 0 <= tokens /\ tokens' = tokens - 0 /\ credit' = credit - 0 * Period
    BY <1>1, <1>2, <1>3
  <2> QED
    BY <1>3, <2>1, <2>2, CallMoves
<1>5. CASE since # 0
  <2> DEFINE read == [at |-> "dating", elapsed |-> since, lag |-> 0, grant |-> 0, current |-> TRUE]
  <2>1. call' = [call EXCEPT ![u] = read]
    BY <1>5 DEF Look, Stage
  <2>2. BucketTypeOK'
    <3>1. 0 \in 0 .. Full /\ 0 \in 0 .. MaxTokens
      BY <1>1
    <3>2. read \in Call
      BY <3>1, <1>2 DEF Call
    <3> QED
      BY <1>2, <1>3, <2>1, <3>2 DEF BucketTypeOK
  <2>3. call[u].grant = 0 /\ Period # 0
    BY <1>1, <1>2, <1>3 DEF BucketInv, CallsConsistent, Call
  <2>4. InFlight' = InFlight
    <3>1. \A v \in Users : call'[v].grant = call[v].grant
      BY <1>2, <2>1, <2>3
    <3>2. GrantedTokens' = GrantedTokens
      BY <3>1 DEF GrantedTokens
    <3> QED
      BY <3>2 DEF InFlight
  <2>5. RateKept'
    BY <1>3, <2>4 DEF BucketInv, RateKept, Period
  <2>6. Period * (tokens + InFlight) \in Nat
    <3>1. InFlight \in Nat
      BY InFlightFinite DEF BucketInv
    <3>2. tokens + InFlight \in Nat
      BY <3>1, <1>1, <1>2
    <3> QED
      BY <1>1, <3>2, Products
  <2>7. CallsConsistent'
    <3> SUFFICES ASSUME NEW v \in Users
                 PROVE  /\ call'[v].grant > 0 => call'[v].at = "granting"
                        /\ Period = 0 => call'[v].at \in {"none", "taking"}
                        /\ call'[v].current =>
                             /\ call'[v].at = "dating"
                             /\ Period * (tokens + InFlight) + call'[v].elapsed + call'[v].lag
                                  <= credit
      BY <1>3, <2>4 DEF CallsConsistent, Period
    <3>1. CASE v = u
      <4>1. call'[v] = read
        BY <3>1, <1>2, <2>1
      <4>2. Period * (tokens + InFlight) + since + 0 <= credit
        BY <2>6, <1>1, <1>2 DEF BucketInv, RateKept
      <4> QED
        BY <4>1, <4>2, <2>3
    <3>2. CASE v # u
      BY <3>2, <1>2, <2>1 DEF BucketInv, CallsConsistent
    <3> QED
      BY <3>1, <3>2
  <2> QED
    BY <2>2, <2>5, <2>7 DEF BucketInv
<1> QED
  BY <1>4, <1>5

LEMMA RefillStep ==
  ASSUME BucketInv, NEW u \in Users, Refilling(u)
  PROVE  BucketInv'
BY LookStep, DateStep, GrantStep DEF Refilling

\* What is left and in flight, if no other users than S have tokens in flight.
LEMMA InFlightBound ==
  ASSUME BucketInv, NEW S \in SUBSET Users, \A u \in Users : call[u].grant > 0 => u \in S
  PROVE  /\ Cardinality(S) \in Nat /\ Period * (tokens + InFlight) \in Nat
         /\ Period * (tokens + InFlight) <= Full + Cardinality(S) * Full
<1>1. MaxTokens \in Nat /\ Period \in Nat /\ Full = MaxTokens * Period /\ Full \in Nat
  BY BucketNumbers DEF Full
<1>2. BucketTypeOK
  BY DEF BucketInv
<1>3. IsFiniteSet(S) /\ Cardinality(S) \in Nat
  BY FS_Subset, FS_CardinalityType, BucketAssumption
<1>4. IsFiniteSet(1 .. MaxTokens) /\ Cardinality(1 .. MaxTokens) = MaxTokens
  <2>1. MaxTokens \in Int /\ 1 \in Int /\ MaxTokens - 1 + 1 = MaxTokens /\ (1 > MaxTokens => MaxTokens = 0)
    BY <1>1
  <2> QED
    BY <2>1, FS_Interval
<1>5. /\ IsFiniteSet(S \X (1 .. MaxTokens))
      /\ Cardinality(S \X (1 .. MaxTokens)) = Cardinality(S) * MaxTokens
  BY <1>3, <1>4, FS_Product
<1>6. GrantedTokens \in SUBSET (S \X (1 .. MaxTokens))
  <2> SUFFICES ASSUME NEW u \in Users, NEW n \in 1 .. call[u].grant
               PROVE  <<u, n>> \in S \X (1 .. MaxTokens)
    BY DEF GrantedTokens
  <2>1. call[u].grant \in 0 .. MaxTokens
    BY <1>2 DEF BucketTypeOK, Call
  <2>2. call[u].grant > 0 /\ n \in 1 .. MaxTokens
    BY <2>1, <1>1
  <2> QED
    BY <2>2
<1>7. InFlight <= Cardinality(S) * MaxTokens
  BY <1>5, <1>6, FS_Subset DEF InFlight
<1>8. InFlight \in Nat /\ tokens \in Nat /\ tokens <= MaxTokens
  BY <1>1, <1>2, InFlightFinite DEF BucketTypeOK
<1>9. /\ Period * tokens <= Period * MaxTokens /\ Period * tokens \in Nat
      /\ Period * InFlight <= Period * (Cardinality(S) * MaxTokens) /\ Period * InFlight \in Nat
  <2>1. Cardinality(S) * MaxTokens \in Nat
    BY <1>1, <1>3, Products
  <2> QED
    BY <2>1, <1>1, <1>7, <1>8, Products
<1>10. /\ Period * MaxTokens = Full /\ Period * (Cardinality(S) * MaxTokens) = Cardinality(S) * Full
       /\ Cardinality(S) * Full \in Nat
  <2>1. \A p, m, n \in Nat : p * m = m * p /\ p * (n * m) = n * (m * p) /\ n * (m * p) \in Nat
    BY Z3
  <2> QED
    BY <2>1, <1>1, <1>3
<1>11. Period * (tokens + InFlight) = Period * tokens + Period * InFlight
  BY <1>1, <1>8, Products
<1> QED
  BY <1>1, <1>3, <1>9, <1>10, <1>11

LEMMA AtMostIs ==
  ASSUME NEW n \in Int, NEW limit \in Int
  PROVE  /\ AtMost(n, limit) \in Int /\ AtMost(n, limit) <= n /\ AtMost(n, limit) <= limit
         /\ \A m \in Int : m <= n /\ m <= limit => m <= AtMost(n, limit)
BY DEF AtMost

(* As time passes, everyone who calls holds less than the capacity, so the *)
(* credit is not cut before it is enough for all of them.                  *)
LEMMA TimePasses ==
  ASSUME BucketInv, Cardinality(Calling) <= MaxCallers, Pass
  PROVE  BucketInv'
<1> DEFINE worth == Period * (tokens + InFlight)
<1>1. MaxTokens \in Nat /\ Period \in Nat /\ Full \in Nat /\ MaxCallers * Full \in Nat /\ MaxCallers \in Nat
  BY BucketNumbers, Products, BucketAssumption
<1>2. Ceiling = Full + Full + MaxCallers * Full /\ Ceiling \in Nat
  BY BucketNumbers
<1>3. tokens \in 0 .. MaxTokens /\ credit \in Int /\ since \in 0 .. Full /\ call \in [Users -> Call]
  BY DEF BucketInv, BucketTypeOK
<1>4. /\ since' = AtMost(since + 1, Full) /\ credit' = AtMost(credit + 1, Ceiling) /\ tokens' = tokens
      /\ call' = [u \in Users |-> IF call[u].at = "dating"
                                  THEN [call[u] EXCEPT !.lag = AtMost(@ + 1, Full)] ELSE call[u]]
  BY DEF Pass
<1>5. /\ since' \in 0 .. Full /\ since' <= since + 1
      /\ credit' \in Int /\ \A m \in Int : m <= credit + 1 /\ m <= Ceiling => m <= credit'
  <2>1. since + 1 \in Int /\ credit + 1 \in Int /\ since + 1 >= 0
    BY <1>1, <1>3
  <2>2. since' \in 0 .. Full /\ since' <= since + 1
    BY <2>1, <1>1, <1>3, <1>4 DEF AtMost
  <2> QED
    BY <2>1, <2>2, <1>2, <1>4, AtMostIs
<1>6. ASSUME NEW u \in Users
      PROVE  /\ call'[u] \in Call
             /\ call'[u].at = call[u].at /\ call'[u].grant = call[u].grant
             /\ call'[u].current = call[u].current /\ call'[u].elapsed = call[u].elapsed
             /\ call[u].at = "dating" => call'[u].lag = AtMost(call[u].lag + 1, Full)
  <2>1. call[u].lag \in 0 .. Full /\ call[u] \in Call
    BY <1>3 DEF Call
  <2>2. AtMost(call[u].lag + 1, Full) \in 0 .. Full
    BY <2>1, <1>1 DEF AtMost
  <2> DEFINE later == AtMost(call[u].lag + 1, Full)
  <2>3. call'[u] = IF call[u].at = "dating" THEN [call[u] EXCEPT !.lag = later] ELSE call[u]
    BY <1>4
  <2>4. later \in 0 .. Full
    BY <2>2
  <2> HIDE DEF later
  <2> QED
    BY <2>1, <2>3, <2>4 DEF Call, later
<1>7. BucketTypeOK'
  <2>1. call' \in [Users -> Call]
    BY <1>4, <1>6
  <2>2. tokens' \in 0 .. MaxTokens
    BY <1>3, <1>4
  <2> QED
    BY <1>5, <2>1, <2>2 DEF BucketTypeOK
<1>8. InFlight' = InFlight
  <2>1. \A u \in Users : call'[u].grant = call[u].grant
    BY <1>6
  <2>2. GrantedTokens' = GrantedTokens
    BY <2>1 DEF GrantedTokens
  <2> QED
    BY <2>2 DEF InFlight
<1>9. ASSUME NEW S \in SUBSET Users, \A u \in Users : call[u].grant > 0 => u \in S
      PROVE  Cardinality(S) \in Nat /\ worth \in Nat /\ worth <= Full + Cardinality(S) * Full
  BY <1>9, InFlightBound
<1>10. IsFiniteSet(Calling) /\ Cardinality(Calling) \in Nat /\ Calling \in SUBSET Users
  BY FS_Subset, FS_CardinalityType, BucketAssumption DEF Calling
<1>11. \A u \in Users : call[u].grant > 0 => u \in Calling /\ call[u].at = "granting"
  BY <1>3 DEF BucketInv, CallsConsistent, Calling, Call
<1>12. worth \in Nat /\ worth <= Full + MaxCallers * Full
  <2>1. worth \in Nat /\ worth <= Full + Cardinality(Calling) * Full
    BY <1>9, <1>10, <1>11
  <2>2. Cardinality(Calling) * Full <= MaxCallers * Full /\ Cardinality(Calling) * Full \in Nat
    <3>1. \A m, n, f \in Nat : m <= n => m * f <= n * f /\ m * f \in Nat
      BY Z3
    <3> QED
      BY <3>1, <1>1, <1>10
  <2> HIDE DEF worth
  <2> QED
    BY <2>1, <2>2, <1>1
<1> HIDE DEF worth
<1>13. RateKept'
  <2>1. worth + since <= credit
    BY DEF BucketInv, RateKept, worth
  <2>2. since' \in Nat /\ since \in Nat /\ since' <= Full
    BY <1>1, <1>3, <1>5
  <2> DEFINE others == MaxCallers * Full
  <2>3. others \in Nat /\ worth <= Full + others /\ Ceiling = Full + Full + others
    BY <1>1, <1>2, <1>12
  <2>4. worth \in Nat /\ credit \in Int /\ Full \in Nat /\ since' <= since + 1
    BY <1>1, <1>3, <1>5, <1>12
  <2> HIDE DEF others
  <2>5. worth + since' <= Ceiling
    <3>1. \A w, t, f, o \in Nat : w <= f + o /\ t <= f => w + t <= f + f + o
      OBVIOUS
    <3> QED
      BY <3>1, <2>2, <2>3, <2>4
  <2>6. worth + since' \in Int /\ worth + since' <= credit + 1
    <3>1. \A w, t, n \in Nat : \A c \in Int :
            w + t <= c /\ n <= t + 1 => w + n \in Int /\ w + n <= c + 1
      OBVIOUS
    <3> QED
      BY <3>1, <2>1, <2>2, <2>4
  <2>7. worth + since' <= credit'
    BY <2>5, <2>6, <1>5
  <2> QED
    BY <2>7, <1>4, <1>8 DEF RateKept, worth, Period
<1>14. CallsConsistent'
  <2> SUFFICES ASSUME NEW v \in Users
               PROVE  /\ call'[v].grant > 0 => call'[v].at = "granting"
                      /\ Period = 0 => call'[v].at \in {"none", "taking"}
                      /\ call'[v].current =>
                           call'[v].at = "dating" /\ worth + call'[v].elapsed + call'[v].lag <= credit'
    BY <1>4, <1>8 DEF CallsConsistent, Period, worth
  <2>1. ASSUME call[v].current
        PROVE  call'[v].at = "dating" /\ worth + call'[v].elapsed + call'[v].lag <= credit'
    <3>1. /\ call[v].at = "dating" /\ call[v].grant = 0
          /\ worth + call[v].elapsed + call[v].lag <= credit
      <4>1. call[v].at = "dating" /\ worth + call[v].elapsed + call[v].lag <= credit
        BY <2>1 DEF BucketInv, CallsConsistent, worth
      <4> QED
        BY <4>1, <1>1, <1>3 DEF BucketInv, CallsConsistent, Call
    <3>2. /\ call[v].elapsed \in Nat /\ call[v].elapsed <= Full
          /\ call[v].lag \in Nat
          /\ call'[v].elapsed = call[v].elapsed
          /\ call'[v].lag \in Nat /\ call'[v].lag <= Full /\ call'[v].lag <= call[v].lag + 1
      <4>1. call[v].elapsed \in 0 .. Full /\ call[v].lag \in 0 .. Full
        BY <1>3 DEF Call
      <4>2. call'[v].lag = AtMost(call[v].lag + 1, Full)
        BY <1>6, <3>1
      <4>3. call[v].elapsed \in Nat /\ call[v].elapsed <= Full /\ call[v].lag \in Nat
        BY <4>1, <1>1
      <4>4. AtMost(call[v].lag + 1, Full) \in Nat
        BY <4>3, <1>1 DEF AtMost
      <4>5. /\ AtMost(call[v].lag + 1, Full) <= Full
            /\ AtMost(call[v].lag + 1, Full) <= call[v].lag + 1
        <5>1. call[v].lag + 1 \in Int /\ Full \in Int
          BY <4>3, <1>1
        <5> QED
          BY <5>1, AtMostIs
      <4>6. call'[v].lag \in Nat /\ call'[v].lag <= Full /\ call'[v].lag <= call[v].lag + 1
        BY <4>2, <4>4, <4>5
      <4> QED
        BY <4>3, <4>6, <1>6
    <3>3. worth <= MaxCallers * Full
      <4>1. v \in Calling
        BY <3>1 DEF Calling
      <4>2. Cardinality(Calling \ {v}) = Cardinality(Calling) - 1 /\ Calling \ {v} \in SUBSET Users
        BY <4>1, <1>10, FS_RemoveElement
      <4>3. \A u \in Users : call[u].grant > 0 => u \in Calling \ {v}
        BY <1>11, <3>1
      <4>4. /\ Cardinality(Calling \ {v}) \in Nat
            /\ worth <= Full + Cardinality(Calling \ {v}) * Full
        BY <1>9, <4>2, <4>3
      <4>5. Full + Cardinality(Calling \ {v}) * Full <= MaxCallers * Full
        <5>1. \A m, n, f \in Nat : m + 1 <= n => f + m * f <= n * f
          BY Z3
        <5>2. Cardinality(Calling \ {v}) + 1 <= MaxCallers
          BY <4>2, <4>4, <1>1, <1>10
        <5> QED
          BY <5>1, <5>2, <4>4, <1>1
      <4>6. Full + Cardinality(Calling \ {v}) * Full \in Nat
        BY <4>4, <1>1, Products
      <4> QED
        BY <4>4, <4>5, <4>6, <1>1, <1>12
    <3>4. /\ worth + call'[v].elapsed + call'[v].lag \in Int
          /\ worth + call'[v].elapsed + call'[v].lag <= credit + 1
          /\ worth + call'[v].elapsed + call'[v].lag <= Ceiling
      BY <3>1, <3>2, <3>3, <1>1, <1>2, <1>3, <1>12
    <3> QED
      BY <3>1, <3>4, <1>5, <1>6
  <2> QED
    BY <2>1, <1>6 DEF BucketInv, CallsConsistent
<1> QED
  BY <1>7, <1>13, <1>14 DEF BucketInv

-----------------------------------------------------------------------------
(* The users of the bucket.                                                *)

\* What is pending of a response body follows what was sent, up to got.
Queued(b, s) ==
  LET n == Len(s.pending) IN
  /\ IF n = 0 THEN s.got = s.sent ELSE s.pending[1].from = s.sent /\ s.pending[n].to = s.got
  /\ \A i \in 1 .. n :
       /\ s.pending[i].to - s.pending[i].from \in 1 .. MaxTokens
       /\ i < n => s.pending[i].to = s.pending[i + 1].from
       /\ s.pending[i].to <= s.got
  /\ s.got <= Length(b)

(* A timer is set from a piece withheld to the next try, and as long as it *)
(* is, or a call is under way, there is a piece.                           *)
Timed(b, s) ==
  /\ s.timer # NoTimer => s.state = "waiting" /\ s.at \in {"ready", "asleep"}
  /\ s.state = "waiting" => s.pending # <<>>
  /\ s.state = "waiting" /\ s.at \in {"ready", "asleep"} => s.timer # NoTimer
  /\ s.state = "idle" /\ s.at = "asleep" => s.pending = <<>>
  /\ s.at \in {"trying", "estimating"} => s.pending # <<>>
  /\ s.at = "estimating" => s.state = "waiting"
  /\ s.at = "ended" => s.sent = Length(b)

BodyCalls(s) == s.at \in {"trying", "estimating"}

\* What a worker has left to pay for is of the chunk at hand.
Paying(w, s) ==
  /\ s.paid = s.written + IF s.at \in {"whole", "sleeping", "batch", "cancelled"}
                          THEN s.chunk - s.remaining ELSE 0
  /\ s.at \in {"whole", "sleeping", "batch", "cancelled"} =>
       s.remaining <= s.chunk /\ s.written + s.chunk <= Length(w)
  /\ s.at = "whole" => s.remaining = s.chunk
  /\ s.at = "reading" => s.written < Length(w)

WriterCalls(s) == s.at \in {"whole", "batch"}

Passing(p, s) ==
  /\ s.at = "reading" => s.sent < Length(p)
  /\ s.at = "trying" => s.sent + s.chunk <= Length(p)

PassedCalls(s) == s.at = "trying"

Present ==
  {b \in Bodies : body[b].at # "absent"} \cup {w \in Writers : writer[w].at # "absent"}
    \cup {p \in Plains \cup Ftps : passed[p].at # "absent"}

BodiesInv ==
  /\ body \in [Bodies -> Body]
  /\ \A b \in Bodies : /\ Queued(b, body[b]) /\ Timed(b, body[b])
                       /\ call[b].at # "none" => BodyCalls(body[b])

WritersInv ==
  /\ writer \in [Writers -> Writer] /\ cancelled \subseteq Writers
  /\ \A w \in Writers : /\ Paying(w, writer[w])
                        /\ call[w].at # "none" => WriterCalls(writer[w])

PassedInv ==
  /\ passed \in [Plains \cup Ftps -> Passed]
  /\ \A p \in Plains \cup Ftps : /\ Passing(p, passed[p])
                                 /\ call[p].at # "none" => PassedCalls(passed[p])

(* The inductive invariant: the bucket's, one for each kind of users, and  *)
(* that nobody calls who is not of the behaviour.                          *)
ThrottleInv ==
  /\ BucketInv
  /\ Present \in Sharing
  /\ BodiesInv
  /\ WritersInv
  /\ PassedInv

-----------------------------------------------------------------------------
(* What the steps of users have in common.                                 *)

LEMMA Begins ==
  ASSUME BucketInv, NEW u \in Users, call[u].at # "granting",
         call' = Begun(u), UNCHANGED <<tokens, since, credit>>
  PROVE  BucketInv' /\ \A v \in Users \ {u} : call'[v] = call[v]
<1>1. MaxTokens \in Nat /\ Period \in Nat
  BY BucketNumbers
<1>2. tokens \in 0 .. MaxTokens /\ credit \in Int /\ call \in [Users -> Call]
  BY DEF BucketInv, BucketTypeOK
<1>3. 0 \in Nat /\ 0 <= tokens /\ tokens' = tokens - 0 /\ credit' = credit - 0 * Period /\ since' = since
  BY <1>1, <1>2
<1>4. CASE Period = 0
  <2>1. call' = [call EXCEPT ![u] = Stage("taking", 0, 0, FALSE)]
    BY <1>4 DEF Begun, AtTaking
  <2> QED
    BY <2>1, <1>2, <1>3, CallMoves
<1>5. CASE Period # 0
  <2>1. call' = [call EXCEPT ![u] = Stage("looking", 0, 0, FALSE)]
    BY <1>5 DEF Begun
  <2> QED
    BY <2>1, <1>2, <1>3, <1>5, CallMoves
<1> QED
  BY <1>4, <1>5

LEMMA Ends ==
  ASSUME BucketInv, NEW u \in Users, NEW n \in Nat, call[u].at = "taking", call' = Answered(u),
         Taken(n) \/ Refused(n) \/ UNCHANGED <<tokens, since, credit>>
  PROVE  /\ BucketInv' /\ call'[u].at = "none"
         /\ \A v \in Users \ {u} : call'[v] = call[v]
<1>1. MaxTokens \in Nat /\ Period \in Nat
  BY BucketNumbers
<1>2. tokens \in 0 .. MaxTokens /\ credit \in Int /\ call \in [Users -> Call]
  BY DEF BucketInv, BucketTypeOK
<1>3. call' = [call EXCEPT ![u] = Stage("none", 0, 0, FALSE)]
  BY DEF Answered, NoCall
<1>4. BucketInv'
  <2>1. CASE Taken(n)
    <3>1. n <= tokens /\ tokens' = tokens - n /\ credit' = credit - n * Period /\ since' = since
      BY <2>1, <1>2 DEF Taken
    <3> QED
      BY <3>1, <1>3, CallMoves
  <2>2. CASE UNCHANGED <<tokens, since, credit>>
    <3>1. 0 \in Nat /\ 0 <= tokens /\ tokens' = tokens - 0 /\ credit' = credit - 0 * Period /\ since' = since
      BY <2>2, <1>1, <1>2
    <3> QED
      BY <3>1, <1>3, CallMoves
  <2> QED
    BY <2>1, <2>2 DEF Refused
<1>5. call'[u].at = "none"
  <2>1. call'[u] = Stage("none", 0, 0, FALSE)
    BY <1>2, <1>3
  <2> QED
    BY <2>1 DEF Stage
<1> QED
  BY <1>2, <1>3, <1>4, <1>5

\* A refill neither begins nor ends a call.
LEMMA RefillCalls ==
  ASSUME BucketInv, NEW u \in Users, Refilling(u), NEW v \in Users
  PROVE  call'[v].at = "none" <=> call[v].at = "none"
<1>1. call \in [Users -> Call] /\ \A k \in Users : call[k] \in Call
  BY DEF BucketInv, BucketTypeOK
<1>2. /\ AtTaking.at = "taking" /\ Stage("dating", since, 0, TRUE).at = "dating"
      /\ Granted(u).at \in {"taking", "granting"}
  BY DEF AtTaking, Granted, Stage
<1>3. CASE Look(u)
  <2> DEFINE next == IF since = 0 THEN AtTaking ELSE Stage("dating", since, 0, TRUE)
  <2>1. next.at # "none"
    BY <1>2
  <2>2. call' = [call EXCEPT ![u] = next] /\ call[u].at = "looking"
    BY <1>3 DEF Look
  <2> HIDE DEF next
  <2> QED
    BY <2>1, <2>2, <1>1
<1>4. CASE Date(u)
  <2>1. CASE call[u].current
    <3>1. /\ call[u].at = "dating"
          /\ call' = [w \in Users |-> IF w = u THEN Granted(u) ELSE [call[w] EXCEPT !.current = FALSE]]
      BY <1>4, <2>1 DEF Date
    <3>2. CASE v = u
      BY <3>1, <3>2, <1>2
    <3>3. CASE v # u
      <4>1. call'[v] = [call[v] EXCEPT !.current = FALSE]
        BY <3>1, <3>3
      <4> QED
        BY <4>1, <1>1 DEF Call
    <3> QED
      BY <3>2, <3>3
  <2>2. CASE ~call[u].current
    <3>1. call' = [call EXCEPT ![u] = AtTaking] /\ call[u].at = "dating"
      BY <1>4, <2>2 DEF Date
    <3> QED
      BY <3>1, <1>1, <1>2
  <2> QED
    BY <2>1, <2>2
<1>5. CASE Grant(u)
  <2>1. call' = [call EXCEPT ![u] = AtTaking] /\ call[u].at = "granting"
    BY <1>5 DEF Grant
  <2> QED
    BY <2>1, <1>1, <1>2
<1> QED
  BY <1>3, <1>4, <1>5 DEF Refilling

LEMMA Kinds ==
  /\ Bodies \subseteq Users /\ Writers \subseteq Users /\ Plains \cup Ftps \subseteq Users
  /\ Bodies \cap Writers = {} /\ Bodies \cap (Plains \cup Ftps) = {}
  /\ Writers \cap (Plains \cup Ftps) = {}
BY ThrottleAssumption

LEMMA BodyMoves ==
  ASSUME ThrottleInv, NEW b \in Bodies, NEW s \in Body, Change(b, s), OnlyBodies, BucketInv',
         \A v \in Users \ {b} : call'[v] = call[v],
         Queued(b, s), Timed(b, s), s.at = "absent" <=> body[b].at = "absent",
         call'[b].at # "none" => BodyCalls(s)
  PROVE  ThrottleInv'
<1>1. body' = [body EXCEPT ![b] = s] /\ body \in [Bodies -> Body]
  BY DEF Change, ThrottleInv, BodiesInv
<1>2. writer' = writer /\ passed' = passed /\ cancelled' = cancelled
  BY DEF OnlyBodies
<1>3. \A a \in Bodies : a # b => body'[a] = body[a] /\ call'[a] = call[a]
  BY <1>1, Kinds
<1>4. body'[b] = s
  BY <1>1
<1>5. Present' = Present
  <2>1. \A a \in Bodies : body'[a].at = "absent" <=> body[a].at = "absent"
    BY <1>3, <1>4
  <2> QED
    BY <2>1, <1>2 DEF Present
<1>6. BodiesInv'
  <2>1. body' \in [Bodies -> Body]
    BY <1>1
  <2>2. \A a \in Bodies : /\ Queued(a, body'[a]) /\ Timed(a, body'[a])
                          /\ call'[a].at # "none" => BodyCalls(body'[a])
    BY <1>3, <1>4 DEF ThrottleInv, BodiesInv
  <2> QED
    BY <2>1, <2>2 DEF BodiesInv
<1>7. WritersInv' /\ PassedInv'
  <2>1. /\ \A w \in Writers : call'[w] = call[w]
        /\ \A p \in Plains \cup Ftps : call'[p] = call[p]
    BY Kinds
  <2> QED
    BY <2>1, <1>2 DEF ThrottleInv, WritersInv, PassedInv
<1> QED
  BY <1>5, <1>6, <1>7 DEF ThrottleInv

LEMMA WriterMoves ==
  ASSUME ThrottleInv, NEW w \in Writers, NEW s \in Writer, Update(w, s), OnlyWriters, BucketInv',
         \A v \in Users \ {w} : call'[v] = call[v],
         Paying(w, s), s.at = "absent" <=> writer[w].at = "absent",
         call'[w].at # "none" => WriterCalls(s)
  PROVE  ThrottleInv'
<1>1. writer' = [writer EXCEPT ![w] = s] /\ writer \in [Writers -> Writer]
  BY DEF Update, ThrottleInv, WritersInv
<1>2. body' = body /\ passed' = passed /\ cancelled' = cancelled
  BY DEF OnlyWriters
<1>3. \A a \in Writers : a # w => writer'[a] = writer[a] /\ call'[a] = call[a]
  BY <1>1, Kinds
<1>4. writer'[w] = s
  BY <1>1
<1>5. Present' = Present
  <2>1. \A a \in Writers : writer'[a].at = "absent" <=> writer[a].at = "absent"
    BY <1>3, <1>4
  <2> QED
    BY <2>1, <1>2 DEF Present
<1>6. WritersInv'
  <2>1. writer' \in [Writers -> Writer]
    BY <1>1
  <2>2. \A a \in Writers : /\ Paying(a, writer'[a])
                           /\ call'[a].at # "none" => WriterCalls(writer'[a])
    BY <1>3, <1>4 DEF ThrottleInv, WritersInv
  <2> QED
    BY <2>1, <2>2, <1>2 DEF WritersInv, ThrottleInv
<1>7. BodiesInv' /\ PassedInv'
  <2>1. /\ \A b \in Bodies : call'[b] = call[b]
        /\ \A p \in Plains \cup Ftps : call'[p] = call[p]
    BY Kinds
  <2> QED
    BY <2>1, <1>2 DEF ThrottleInv, BodiesInv, PassedInv
<1> QED
  BY <1>5, <1>6, <1>7 DEF ThrottleInv

LEMMA PassedMoves ==
  ASSUME ThrottleInv, NEW p \in Plains \cup Ftps, NEW s \in Passed, Forward(p, s), OnlyPassed,
         BucketInv', \A v \in Users \ {p} : call'[v] = call[v],
         Passing(p, s), s.at = "absent" <=> passed[p].at = "absent",
         call'[p].at # "none" => PassedCalls(s)
  PROVE  ThrottleInv'
<1>1. passed' = [passed EXCEPT ![p] = s] /\ passed \in [Plains \cup Ftps -> Passed]
  BY DEF Forward, ThrottleInv, PassedInv
<1>2. body' = body /\ writer' = writer /\ cancelled' = cancelled
  BY DEF OnlyPassed
<1>3. \A a \in Plains \cup Ftps : a # p => passed'[a] = passed[a] /\ call'[a] = call[a]
  BY <1>1, Kinds
<1>4. passed'[p] = s
  BY <1>1
<1>5. Present' = Present
  <2>1. \A a \in Plains \cup Ftps : passed'[a].at = "absent" <=> passed[a].at = "absent"
    BY <1>3, <1>4
  <2> QED
    BY <2>1, <1>2 DEF Present
<1>6. PassedInv'
  <2>1. passed' \in [Plains \cup Ftps -> Passed]
    BY <1>1
  <2>2. \A a \in Plains \cup Ftps : /\ Passing(a, passed'[a])
                                    /\ call'[a].at # "none" => PassedCalls(passed'[a])
    BY <1>3, <1>4 DEF ThrottleInv, PassedInv
  <2> QED
    BY <2>1, <2>2 DEF PassedInv
<1>7. BodiesInv' /\ WritersInv'
  <2>1. /\ \A b \in Bodies : call'[b] = call[b]
        /\ \A w \in Writers : call'[w] = call[w]
    BY Kinds
  <2> QED
    BY <2>1, <1>2 DEF ThrottleInv, BodiesInv, WritersInv
<1> QED
  BY <1>5, <1>6, <1>7 DEF ThrottleInv

-----------------------------------------------------------------------------
(* The response bodies.                                                    *)

\* The pieces of a chunk follow one another, and none is too long.
LEMMA PiecesFill ==
  ASSUME NEW from \in Nat, NEW to \in Nat, from < to
  PROVE  /\ Pieces(from, to) \in Seq(Piece) /\ Pieces(from, to) # <<>>
         /\ Len(Pieces(from, to)) \in Nat \ {0}
         /\ Pieces(from, to)[1].from = from
         /\ Pieces(from, to)[Len(Pieces(from, to))].to = to
         /\ \A i \in 1 .. Len(Pieces(from, to)) :
              /\ Pieces(from, to)[i].to - Pieces(from, to)[i].from \in 1 .. MaxTokens
              /\ i < Len(Pieces(from, to)) => Pieces(from, to)[i].to = Pieces(from, to)[i + 1].from
              /\ Pieces(from, to)[i].to <= to
<1> DEFINE n == (to - from + MaxTokens - 1) \div MaxTokens
           low(i) == from + (i - 1) * MaxTokens
           high(i) == AtMost(from + i * MaxTokens, to)
<1>1. MaxTokens \in Nat \ {0} /\ to - from \in Nat \ {0} /\ to - from + MaxTokens - 1 \in Nat
  BY BucketNumbers
<1>2. /\ n \in Nat /\ n * MaxTokens >= to - from
      /\ n * MaxTokens <= to - from + MaxTokens - 1
  <2>1. \A m \in Nat \ {0} : \A d \in Nat \ {0} :
          /\ (d + m - 1) \div m \in Nat
          /\ ((d + m - 1) \div m) * m >= d
          /\ ((d + m - 1) \div m) * m <= d + m - 1
    BY Z3
  <2> QED
    BY <2>1, <1>1
<1>3. n >= 1
  <2>1. \A m, d \in Nat \ {0} : \A k \in Nat : k * m >= d => k >= 1
    BY Z3
  <2> QED
    BY <2>1, <1>1, <1>2
<1>4. Pieces(from, to) = [i \in 1 .. n |-> [from |-> low(i), to |-> high(i)]]
  BY DEF Pieces
<1> HIDE DEF n
<1>5. ASSUME NEW i \in 1 .. n
      PROVE  /\ (i - 1) * MaxTokens \in Nat /\ (i - 1) * MaxTokens < to - from
             /\ i * MaxTokens = (i - 1) * MaxTokens + MaxTokens
             /\ i < n => i * MaxTokens < to - from
  <2>1. \A m, d \in Nat \ {0} : \A k \in Nat : \A j \in Nat \ {0} :
          j <= k /\ k * m <= d + m - 1 =>
            /\ (j - 1) * m \in Nat /\ (j - 1) * m < d /\ j * m = (j - 1) * m + m
    BY Z3
  <2>2. \A m, d \in Nat \ {0} : \A k \in Nat : \A j \in Nat \ {0} :
          j < k /\ k * m <= d + m - 1 => j * m < d
    BY Z3
  <2>3. i \in Nat \ {0} /\ i <= n
    BY <1>2
  <2> QED
    BY <2>1, <2>2, <2>3, <1>1, <1>2
<1>6. ASSUME NEW i \in 1 .. n
      PROVE  /\ low(i) \in Nat /\ high(i) \in Nat /\ high(i) <= to
             /\ high(i) - low(i) \in 1 .. MaxTokens
             /\ i < n => high(i) = low(i + 1)
             /\ i = n => high(i) = to
  <2> DEFINE before == (i - 1) * MaxTokens
             after == i * MaxTokens
  <2>1. /\ before \in Nat /\ before < to - from /\ after = before + MaxTokens
        /\ i < n => after < to - from
        /\ i = n => after >= to - from
    BY <1>2, <1>5
  <2>2. low(i) = from + before /\ high(i) = IF from + after < to THEN from + after ELSE to
    BY DEF AtMost
  <2>3. low(i + 1) = from + after
    <3>1. i \in Nat /\ (i + 1) - 1 = i
      BY <1>2
    <3> QED
      BY <3>1
  <2> HIDE DEF before, after, low, high
  <2>4. after \in Nat /\ from + before \in Nat /\ from + before < to
    BY <1>1, <2>1
  <2>5. CASE from + after < to
    <3>1. high(i) = from + after /\ high(i) - low(i) = MaxTokens
      BY <2>1, <2>2, <2>4, <2>5, <1>1
    <3>2. i # n
      BY <2>1, <2>4, <2>5
    <3> QED
      BY <3>1, <3>2, <2>2, <2>3, <2>4, <2>5, <1>1
  <2>6. CASE ~(from + after < to)
    <3>1. high(i) = to /\ low(i) \in Nat
      BY <2>2, <2>4, <2>6
    <3>2. to - low(i) >= 1 /\ to - low(i) <= MaxTokens
      BY <2>1, <2>2, <2>4, <2>6, <1>1
    <3>3. ~(i < n)
      BY <2>1, <2>4, <2>6
    <3> QED
      BY <3>1, <3>2, <3>3, <1>1
  <2> QED
    BY <2>5, <2>6
<1> HIDE DEF low, high
<1>7. /\ Pieces(from, to) \in Seq(Piece) /\ Len(Pieces(from, to)) = n
      /\ \A i \in 1 .. n : Pieces(from, to)[i].from = low(i) /\ Pieces(from, to)[i].to = high(i)
  <2>1. \A i \in 1 .. n : [from |-> low(i), to |-> high(i)] \in Piece
    BY <1>6 DEF Piece
  <2> DEFINE piece(i) == [from |-> low(i), to |-> high(i)]
  <2>2. \A i \in 1 .. n : piece(i) \in Piece
    BY <2>1
  <2>3. \A i \in 1 .. n : piece(i).from = low(i) /\ piece(i).to = high(i)
    OBVIOUS
  <2>4. Pieces(from, to) = [i \in 1 .. n |-> piece(i)]
    BY <1>4
  <2> HIDE DEF piece
  <2>5. Pieces(from, to) \in [1 .. n -> Piece]
    BY <2>2, <2>4
  <2> QED
    BY <2>3, <2>4, <2>5, <1>2
<1>8. low(1) = from
  <2>1. (1 - 1) * MaxTokens = 0
    BY <1>1
  <2> QED
    BY <2>1 DEF low
<1>9. 1 \in 1 .. n /\ n \in 1 .. n /\ \A i \in 1 .. n : i < n => i + 1 \in 1 .. n
  BY <1>2, <1>3
<1>10. Pieces(from, to) # <<>>
  BY <1>3, <1>7
<1> DEFINE p == Pieces(from, to)
<1>11. p \in Seq(Piece) /\ p # <<>> /\ Len(p) = n /\ n \in Nat \ {0}
  BY <1>2, <1>3, <1>7, <1>10
<1>12. p[1].from = from /\ p[n].to = to
  BY <1>6, <1>7, <1>8, <1>9
<1>13. ASSUME NEW i \in 1 .. n
       PROVE  /\ p[i].to - p[i].from \in 1 .. MaxTokens /\ p[i].to <= to
              /\ i < n => p[i].to = p[i + 1].from
  <2>1. p[i].from = low(i) /\ p[i].to = high(i)
    BY <1>7
  <2>2. i < n => p[i + 1].from = low(i + 1)
    BY <1>7, <1>9
  <2> HIDE DEF p
  <2> QED
    BY <2>1, <2>2, <1>6
<1> QED
  BY <1>11, <1>12, <1>13

LEMMA HeadAndTail ==
  ASSUME NEW S, NEW q \in Seq(S), q # <<>>
  PROVE  /\ Len(q) \in Nat \ {0} /\ Head(q) = q[1] /\ q[1] \in S
         /\ Tail(q) \in Seq(S) /\ Len(Tail(q)) = Len(q) - 1
         /\ \A i \in 1 .. Len(q) - 1 : Tail(q)[i] = q[i + 1]
<1>1. Len(q) \in Nat \ {0} /\ Head(q) = q[1]
  OBVIOUS
<1>2. q[1] \in S
  BY <1>1
<1>3. Tail(q) \in Seq(S) /\ Len(Tail(q)) = Len(q) - 1
  OBVIOUS
<1>4. \A i \in 1 .. Len(q) - 1 : Tail(q)[i] = q[i + 1]
  BY <1>1
<1> QED
  BY <1>1, <1>2, <1>3, <1>4

LEMMA BodyFacts ==
  ASSUME ThrottleInv, NEW b \in Bodies
  PROVE  /\ BucketInv /\ b \in Users
         /\ body[b] \in Body /\ Queued(b, body[b]) /\ Timed(b, body[b])
         /\ call[b].at # "none" => BodyCalls(body[b])
BY Kinds DEF ThrottleInv, BodiesInv

LEMMA BucketStays ==
  ASSUME BucketInv, UNCHANGED bucketVars
  PROVE  BucketInv'
<1>1. tokens' = tokens /\ since' = since /\ call' = call /\ credit' = credit
  BY DEF bucketVars
<1>2. InFlight' = InFlight
  BY <1>1 DEF InFlight, GrantedTokens
<1> QED
  BY <1>1, <1>2 DEF BucketInv, BucketTypeOK, CallsConsistent, RateKept

\* A poll that does not look at the bucket, and the wake-ups.
LEMMA BodyGoes ==
  ASSUME ThrottleInv, NEW b \in Bodies, NEW to \in {"ready", "asleep", "ended", "failed"},
         Goes(b, to), Quiet(b), body[b].at \in {"ready", "asleep"},
         to \in {"ended", "failed"} \/ (to = "asleep" /\ body[b].at = "ready") =>
           body[b].state = "waiting" \/ body[b].pending = <<>>,
         to \in {"ended", "failed"} => body[b].state = "idle",
         to = "ended" => body[b].got = Length(b)
  PROVE  ThrottleInv'
<1> DEFINE s == [body[b] EXCEPT !.at = to]
<1>1. /\ BucketInv /\ body[b] \in Body /\ Queued(b, body[b]) /\ Timed(b, body[b])
      /\ call[b].at # "none" => BodyCalls(body[b])
  BY BodyFacts
<1>2. /\ s \in Body /\ s.at = to /\ s.state = body[b].state /\ s.timer = body[b].timer
      /\ s.pending = body[b].pending /\ s.got = body[b].got /\ s.sent = body[b].sent
  BY <1>1 DEF Body
<1>3. Change(b, s)
  BY DEF Goes
<1>4. OnlyBodies /\ UNCHANGED bucketVars
  BY DEF Quiet
<1> HIDE DEF s
<1>5. BucketInv' /\ \A v \in Users \ {b} : call'[v] = call[v]
  BY <1>1, <1>4, BucketStays DEF bucketVars
<1>6. call'[b].at = "none"
  BY <1>1, <1>4 DEF bucketVars, BodyCalls
<1>7. Queued(b, s)
  BY <1>1, <1>2 DEF Queued
<1>8. Timed(b, s)
  <2>1. CASE to \in {"ready", "asleep"}
    BY <2>1, <1>1, <1>2 DEF Timed
  <2>2. CASE to \in {"ended", "failed"}
    <3>1. s.state = "idle" /\ s.timer = NoTimer /\ s.pending = <<>>
      BY <2>2, <1>1, <1>2 DEF Timed
    <3>2. s.got = s.sent
      BY <3>1, <1>7 DEF Queued
    <3> QED
      BY <3>1, <3>2, <2>2, <1>2 DEF Timed
  <2> QED
    BY <2>1, <2>2
<1> QED
  BY <1>2, <1>3, <1>4, <1>5, <1>6, <1>7, <1>8, BodyMoves

LEMMA BodyTries ==
  ASSUME ThrottleInv, NEW b \in Bodies, NEW s \in Body, Try(b, s), Polled(b),
         Queued(b, s), s.timer = NoTimer, s.pending # <<>>
  PROVE  ThrottleInv'
<1> DEFINE t == [s EXCEPT !.at = "trying"]
<1>1. /\ BucketInv /\ b \in Users /\ body[b].at = "ready"
      /\ call[b].at # "none" => BodyCalls(body[b])
  BY BodyFacts DEF Polled
<1>2. /\ t \in Body /\ t.at = "trying" /\ t.timer = s.timer
      /\ t.pending = s.pending /\ t.got = s.got /\ t.sent = s.sent
  BY DEF Body
<1>3. Change(b, t) /\ OnlyBodies
  BY DEF Try
<1> HIDE DEF t
<1>4. BucketInv' /\ \A v \in Users \ {b} : call'[v] = call[v]
  BY <1>1, Begins DEF Try, BodyCalls
<1>5. Queued(b, t) /\ Timed(b, t) /\ BodyCalls(t)
  BY <1>2 DEF Queued, Timed, BodyCalls
<1> QED
  BY <1>1, <1>2, <1>3, <1>4, <1>5, BodyMoves

LEMMA DeliverPendingStep ==
  ASSUME ThrottleInv, NEW b \in Bodies, DeliverPending(b)
  PROVE  ThrottleInv'
<1>1. body[b] \in Body /\ Queued(b, body[b]) /\ Timed(b, body[b])
  BY BodyFacts
<1>2. body[b].pending # <<>> /\ body[b].timer = NoTimer /\ Polled(b) /\ Try(b, body[b])
  BY <1>1 DEF DeliverPending, Timed
<1> QED
  BY <1>1, <1>2, BodyTries

LEMMA ReadChunkStep ==
  ASSUME ThrottleInv, NEW b \in Bodies, ReadChunk(b)
  PROVE  ThrottleInv'
<1> DEFINE end == Cut(b, body[b].got)
           pieces == Pieces(body[b].got, end)
           s == [body[b] EXCEPT !.pending = pieces, !.got = end]
<1>1. body[b] \in Body /\ Queued(b, body[b]) /\ Timed(b, body[b]) /\ b \in Users
  BY BodyFacts
<1>2. /\ body[b].pending = <<>> /\ body[b].timer = NoTimer /\ Polled(b)
      /\ body[b].got \in Nat /\ body[b].got < Length(b) /\ Try(b, s)
  BY <1>1 DEF ReadChunk, PollInner, Timed, Body
<1>3. end \in Nat /\ body[b].got < end /\ end <= Length(b)
  BY <1>1, <1>2, Cutting
<1>4. body[b].got = body[b].sent
  BY <1>1, <1>2 DEF Queued
<1> HIDE DEF end
<1>5. /\ pieces \in Seq(Piece) /\ pieces # <<>> /\ Len(pieces) \in Nat \ {0}
      /\ pieces[1].from = body[b].got /\ pieces[Len(pieces)].to = end
      /\ \A i \in 1 .. Len(pieces) :
           /\ pieces[i].to - pieces[i].from \in 1 .. MaxTokens
           /\ i < Len(pieces) => pieces[i].to = pieces[i + 1].from
           /\ pieces[i].to <= end
  BY <1>2, <1>3, PiecesFill
<1> HIDE DEF pieces
<1>6. /\ s \in Body /\ s.timer = body[b].timer /\ s.pending = pieces /\ s.got = end
      /\ s.sent = body[b].sent
  BY <1>1, <1>3, <1>5 DEF Body
<1> HIDE DEF s
<1>7. Queued(b, s)
  BY <1>3, <1>4, <1>5, <1>6 DEF Queued
<1> QED
  BY <1>2, <1>5, <1>6, <1>7, BodyTries

LEMMA PollTimerStep ==
  ASSUME ThrottleInv, NEW b \in Bodies, PollTimer(b)
  PROVE  ThrottleInv'
<1>1. body[b] \in Body /\ Queued(b, body[b]) /\ Timed(b, body[b])
  BY BodyFacts
<1>2. body[b].at = "ready" /\ Polled(b) /\ body[b].state = "waiting" /\ body[b].pending # <<>>
  BY <1>1 DEF PollTimer, Polled, Timed
<1>3. CASE body[b].timer > 0
  <2>1. Goes(b, "asleep") /\ Quiet(b)
    BY <1>3 DEF PollTimer
  <2> QED
    BY <2>1, <1>2, BodyGoes
<1>4. CASE ~(body[b].timer > 0)
  <2> DEFINE s == [body[b] EXCEPT !.timer = NoTimer]
  <2>1. Try(b, s)
    BY <1>2, <1>4 DEF PollTimer
  <2>2. /\ s \in Body /\ s.timer = NoTimer /\ s.pending = body[b].pending /\ s.got = body[b].got
        /\ s.sent = body[b].sent
    BY <1>1 DEF Body
  <2> HIDE DEF s
  <2>3. Queued(b, s)
    BY <1>1, <2>2 DEF Queued
  <2> QED
    BY <2>1, <2>2, <2>3, <1>2, BodyTries
<1> QED
  BY <1>3, <1>4

\* The first piece is delivered; what is left still follows it.
LEMMA DeliveredStep ==
  ASSUME ThrottleInv, NEW b \in Bodies, Delivered(b)
  PROVE  ThrottleInv'
<1> DEFINE q == body[b].pending
           s == [body[b] EXCEPT !.at = "ready", !.state = "idle", !.pending = Tail(@),
                                !.sent = Head(body[b].pending).to]
<1>1. /\ BucketInv /\ b \in Users /\ body[b] \in Body /\ Queued(b, body[b]) /\ Timed(b, body[b])
  BY BodyFacts
<1>2. body[b].at = "trying" /\ call[b].at = "taking" /\ Taken(First(b)) /\ call' = Answered(b)
  BY DEF Delivered
<1>3. Change(b, s) /\ OnlyBodies
  BY DEF Delivered
<1>4. q \in Seq(Piece) /\ q # <<>> /\ body[b].timer = NoTimer /\ body[b].got \in Nat
  BY <1>1, <1>2 DEF Body, Timed
<1>5. /\ Len(q) \in Nat \ {0} /\ Head(q) = q[1] /\ q[1] \in Piece /\ q[1].to \in Nat
      /\ Tail(q) \in Seq(Piece) /\ Len(Tail(q)) = Len(q) - 1
      /\ \A i \in 1 .. Len(q) - 1 : Tail(q)[i] = q[i + 1]
  <2> HIDE DEF q
  <2>1. q[1] \in Piece => q[1].to \in Nat
    BY DEF Piece
  <2> QED
    BY <2>1, <1>4, HeadAndTail
<1>6. /\ q[Len(q)].to = body[b].got /\ body[b].got <= Length(b)
      /\ \A i \in 1 .. Len(q) :
           /\ q[i].to - q[i].from \in 1 .. MaxTokens
           /\ i < Len(q) => q[i].to = q[i + 1].from
           /\ q[i].to <= body[b].got
  BY <1>1, <1>5 DEF Queued
<1>7. First(b) \in Nat
  <2>1. 1 \in 1 .. Len(q)
    BY <1>5
  <2>2. q[1].to - q[1].from \in 1 .. MaxTokens /\ First(b) = q[1].to - q[1].from
    BY <2>1, <1>5, <1>6 DEF First
  <2> QED
    BY <2>2, BucketNumbers
<1>8. /\ BucketInv' /\ call'[b].at = "none" /\ \A v \in Users \ {b} : call'[v] = call[v]
  BY <1>1, <1>2, <1>7, Ends
<1>9. /\ s \in Body /\ s.at = "ready" /\ s.state = "idle" /\ s.timer = NoTimer
      /\ s.pending = Tail(q) /\ s.got = body[b].got /\ s.sent = q[1].to
  <2> DEFINE tail == Tail(q)
             to == q[1].to
  <2>1. s = [body[b] EXCEPT !.at = "ready", !.state = "idle", !.pending = tail, !.sent = to]
    BY <1>5
  <2>2. tail \in Seq(Piece) /\ to \in Nat
    BY <1>5
  <2> HIDE DEF tail, to
  <2>3. [body[b] EXCEPT !.at = "ready", !.state = "idle", !.pending = tail, !.sent = to] \in Body
    BY <2>2, <1>1 DEF Body
  <2>4. /\ s.at = "ready" /\ s.state = "idle" /\ s.timer = body[b].timer
        /\ s.pending = tail /\ s.got = body[b].got /\ s.sent = to
    BY <2>1, <1>1 DEF Body
  <2> QED
    BY <2>1, <2>3, <2>4, <1>4 DEF tail, to
<1> DEFINE rest == Tail(q)
<1>10. /\ Len(rest) = 0 => q[1].to = body[b].got
       /\ Len(rest) # 0 => rest[1].from = q[1].to /\ rest[Len(rest)].to = body[b].got
  <2> HIDE DEF q
  <2>1. CASE Len(q) = 1
    <3>1. Len(rest) = 0 /\ q[1].to = body[b].got
      BY <2>1, <1>5, <1>6
    <3> QED
      BY <3>1
  <2>2. CASE Len(q) # 1
    <3>1. 1 \in 1 .. Len(q) - 1 /\ 1 \in 1 .. Len(q) /\ 1 < Len(q) /\ Len(q) - 1 \in 1 .. Len(q) - 1
      BY <2>2, <1>5
    <3>2. rest[1] = q[1 + 1] /\ q[1].to = q[1 + 1].from
      BY <3>1, <1>5, <1>6
    <3>3. rest[Len(rest)] = q[(Len(q) - 1) + 1] /\ (Len(q) - 1) + 1 = Len(q)
      BY <3>1, <1>5
    <3> QED
      BY <3>2, <3>3, <1>5, <1>6, <2>2
  <2> QED
    BY <2>1, <2>2
<1>11. ASSUME NEW i \in 1 .. Len(rest)
       PROVE  /\ rest[i].to - rest[i].from \in 1 .. MaxTokens
              /\ i < Len(rest) => rest[i].to = rest[i + 1].from
              /\ rest[i].to <= body[b].got
  <2>1. i \in 1 .. Len(q) - 1 /\ i + 1 \in 1 .. Len(q) /\ rest[i] = q[i + 1]
    BY <1>5
  <2>2. i < Len(rest) => /\ i + 1 < Len(q) /\ i + 1 \in 1 .. Len(q) - 1
                         /\ rest[i + 1] = q[(i + 1) + 1]
    BY <1>5
  <2> HIDE DEF q, rest
  <2> QED
    BY <2>1, <2>2, <1>6
<1> HIDE DEF s, rest
<1>12. Queued(b, s)
  <2>1. s.pending = rest
    BY <1>9 DEF rest
  <2> QED
    BY <2>1, <1>6, <1>9, <1>10, <1>11 DEF Queued
<1>13. Timed(b, s)
  BY <1>9 DEF Timed
<1> QED
  BY <1>2, <1>3, <1>8, <1>9, <1>12, <1>13, BodyMoves

LEMMA WithheldStep ==
  ASSUME ThrottleInv, NEW b \in Bodies, Withheld(b)
  PROVE  ThrottleInv'
<1> DEFINE s == [body[b] EXCEPT !.at = "estimating", !.state = "waiting"]
<1>1. /\ BucketInv /\ b \in Users /\ body[b] \in Body /\ Queued(b, body[b]) /\ Timed(b, body[b])
  BY BodyFacts
<1>2. body[b].at = "trying" /\ call[b].at = "taking" /\ call' = Begun(b) /\ UNCHANGED <<tokens, since, credit>>
  BY DEF Withheld, Refused
<1>3. Change(b, s) /\ OnlyBodies
  BY DEF Withheld
<1>4. /\ s \in Body /\ s.at = "estimating" /\ s.state = "waiting" /\ s.timer = body[b].timer
      /\ s.pending = body[b].pending /\ s.got = body[b].got /\ s.sent = body[b].sent
  BY <1>1 DEF Body
<1> HIDE DEF s
<1>5. BucketInv' /\ \A v \in Users \ {b} : call'[v] = call[v]
  BY <1>1, <1>2, Begins
<1>6. Queued(b, s)
  BY <1>1, <1>4 DEF Queued
<1>7. Timed(b, s) /\ BodyCalls(s)
  BY <1>1, <1>2, <1>4 DEF Timed, BodyCalls
<1> QED
  BY <1>2, <1>3, <1>4, <1>5, <1>6, <1>7, BodyMoves

\* Less was sent than was read as long as something is pending.
LEMMA ScheduleWakeStep ==
  ASSUME ThrottleInv, NEW b \in Bodies, ScheduleWake(b)
  PROVE  ThrottleInv'
<1> DEFINE wait == WaitTime(Outstanding(b))
           timer == IF wait = 0 THEN 1 ELSE wait
           s == [body[b] EXCEPT !.at = "asleep", !.timer = timer]
<1>1. /\ BucketInv /\ b \in Users /\ body[b] \in Body /\ Queued(b, body[b]) /\ Timed(b, body[b])
  BY BodyFacts
<1>2. body[b].at = "estimating" /\ call[b].at = "taking" /\ call' = Answered(b) /\ UNCHANGED <<tokens, since, credit>>
  BY DEF ScheduleWake
<1>3. Change(b, s) /\ OnlyBodies
  BY DEF ScheduleWake
<1>4. wait \in Nat
  <2>1. tokens \in Nat /\ Period \in Nat
    BY <1>1, BucketNumbers DEF BucketInv, BucketTypeOK
  <2>2. Outstanding(b) \in Int
    BY <1>1 DEF Outstanding, Body
  <2>3. CASE tokens >= Outstanding(b)
    BY <2>3 DEF WaitTime
  <2>4. CASE ~(tokens >= Outstanding(b))
    <3>1. Outstanding(b) - tokens \in Nat
      BY <2>1, <2>2, <2>4
    <3>2. \A m, n \in Nat : m * n \in Nat
      BY Z3
    <3>3. (Outstanding(b) - tokens) * Period \in Nat
      BY <3>1, <3>2, <2>1
    <3> QED
      BY <3>3, <2>4 DEF WaitTime
  <2> QED
    BY <2>3, <2>4
<1>5. timer \in Nat /\ timer # NoTimer
  BY <1>4 DEF NoTimer
<1> HIDE DEF timer
<1>6. /\ s \in Body /\ s.at = "asleep" /\ s.state = body[b].state /\ s.timer = timer
      /\ s.pending = body[b].pending /\ s.got = body[b].got /\ s.sent = body[b].sent
  BY <1>1, <1>5 DEF Body
<1> HIDE DEF s
<1>7. BucketInv' /\ call'[b].at = "none" /\ \A v \in Users \ {b} : call'[v] = call[v]
  <2>1. 0 \in Nat
    OBVIOUS
  <2> QED
    BY <2>1, <1>1, <1>2, Ends
<1>8. Queued(b, s)
  BY <1>1, <1>6 DEF Queued
<1>9. Timed(b, s)
  BY <1>1, <1>2, <1>5, <1>6 DEF Timed
<1> QED
  BY <1>2, <1>3, <1>6, <1>7, <1>8, <1>9, BodyMoves

\* A refill is of a call under way, whoever's.
LEMMA RefillOfUser ==
  ASSUME ThrottleInv, NEW u \in Users, Refill(u)
  PROVE  ThrottleInv'
<1>1. BucketInv /\ Refilling(u) /\ UNCHANGED <<body, writer, passed, cancelled>>
  BY DEF Refill, ThrottleInv
<1>2. BucketInv'
  BY <1>1, RefillStep
<1>3. \A v \in Users : call'[v].at = "none" <=> call[v].at = "none"
  BY <1>1, RefillCalls
<1>4. Present' = Present
  BY <1>1 DEF Present
<1>5. BodiesInv'
  BY <1>1, <1>3, Kinds DEF ThrottleInv, BodiesInv
<1>6. WritersInv' /\ PassedInv'
  BY <1>1, <1>3, Kinds DEF ThrottleInv, WritersInv, PassedInv
<1> QED
  BY <1>2, <1>4, <1>5, <1>6 DEF ThrottleInv

LEMMA BodyInvariant ==
  ASSUME ThrottleInv, NEW b \in Bodies, BodyStep(b) \/ PolledEarly(b)
  PROVE  ThrottleInv'
<1>1. /\ body[b] \in Body /\ Timed(b, body[b]) /\ b \in Users
  BY BodyFacts
<1>2. CASE InnerPending(b)
  <2>1. /\ body[b].at = "ready" /\ body[b].pending = <<>>
        /\ Goes(b, "asleep") /\ Quiet(b)
    BY <1>2 DEF InnerPending, PollInner, Polled
  <2> QED
    BY <2>1, BodyGoes
<1>3. CASE InnerEnds(b)
  <2>1. /\ body[b].at = "ready" /\ body[b].state = "idle" /\ body[b].pending = <<>>
        /\ body[b].got = Length(b) /\ Goes(b, "ended") /\ Quiet(b)
    BY <1>3 DEF InnerEnds, PollInner, Polled
  <2> QED
    BY <2>1, BodyGoes
<1>4. CASE InnerFails(b)
  <2>1. /\ body[b].at = "ready" /\ body[b].state = "idle" /\ body[b].pending = <<>>
        /\ Goes(b, "failed") /\ Quiet(b)
    BY <1>4 DEF InnerFails, PollInner, Polled
  <2> QED
    BY <2>1, BodyGoes
<1>5. CASE TimerFires(b) \/ InnerWakes(b) \/ PolledEarly(b)
  <2>1. body[b].at = "asleep" /\ Goes(b, "ready") /\ Quiet(b)
    BY <1>5 DEF TimerFires, InnerWakes, PolledEarly
  <2> QED
    BY <2>1, BodyGoes
<1>6. CASE DeliverPending(b)
  BY <1>6, DeliverPendingStep
<1>7. CASE ReadChunk(b)
  BY <1>7, ReadChunkStep
<1>8. CASE PollTimer(b)
  BY <1>8, PollTimerStep
<1>9. CASE Delivered(b)
  BY <1>9, DeliveredStep
<1>10. CASE Withheld(b)
  BY <1>10, WithheldStep
<1>11. CASE ScheduleWake(b)
  BY <1>11, ScheduleWakeStep
<1>12. CASE Refill(b)
  BY <1>1, <1>12, RefillOfUser
<1> QED
  BY <1>2, <1>3, <1>4, <1>5, <1>6, <1>7, <1>8, <1>9, <1>10, <1>11, <1>12 DEF BodyStep

-----------------------------------------------------------------------------
(* The workers.                                                            *)

LEMMA WriterFacts ==
  ASSUME ThrottleInv, NEW w \in Writers
  PROVE  /\ BucketInv /\ w \in Users /\ writer[w] \in Writer /\ Paying(w, writer[w])
         /\ call[w].at # "none" => WriterCalls(writer[w])
BY Kinds DEF ThrottleInv, WritersInv

LEMMA ReadToWriteStep ==
  ASSUME ThrottleInv, NEW w \in Writers, ReadToWrite(w)
  PROVE  ThrottleInv'
<1> DEFINE n == Cut(w, writer[w].written) - writer[w].written
           s == [writer[w] EXCEPT !.at = "whole", !.chunk = n, !.remaining = n]
<1>1. /\ BucketInv /\ w \in Users /\ writer[w] \in Writer /\ Paying(w, writer[w])
      /\ call[w].at # "none" => WriterCalls(writer[w])
  BY WriterFacts
<1>2. /\ writer[w].at = "reading" /\ Update(w, s) /\ OnlyWriters
      /\ call' = Begun(w) /\ UNCHANGED <<tokens, since, credit>>
  BY DEF ReadToWrite
<1>3. /\ writer[w].written \in Nat /\ writer[w].paid = writer[w].written + 0
      /\ writer[w].written < Length(w)
  BY <1>1, <1>2 DEF Writer, Paying
<1>4. n \in Nat /\ writer[w].written + n <= Length(w)
  <2>1. /\ Cut(w, writer[w].written) \in Nat /\ writer[w].written < Cut(w, writer[w].written)
        /\ Cut(w, writer[w].written) <= Length(w)
    BY <1>1, <1>3, Cutting
  <2> QED
    BY <2>1, <1>3
<1> HIDE DEF n
<1>5. /\ s \in Writer /\ s.at = "whole" /\ s.chunk = n /\ s.remaining = n
      /\ s.paid = writer[w].paid /\ s.written = writer[w].written
  BY <1>1, <1>4 DEF Writer
<1> HIDE DEF s
<1>6. BucketInv' /\ \A v \in Users \ {w} : call'[v] = call[v]
  <2>1. call[w].at # "granting"
    BY <1>1, <1>2 DEF WriterCalls
  <2> QED
    BY <2>1, <1>1, <1>2, Begins
<1>7. Paying(w, s) /\ WriterCalls(s)
  BY <1>3, <1>4, <1>5 DEF Paying, WriterCalls
<1> QED
  BY <1>2, <1>5, <1>6, <1>7, WriterMoves

\* The last of a chunk is paid for, and it is written.
LEMMA Writes ==
  ASSUME ThrottleInv, NEW w \in Writers, NEW n \in Nat, Write(w, n), OnlyWriters, Taken(n),
         writer[w].at \in {"whole", "batch"}, call[w].at = "taking", call' = Answered(w),
         n = writer[w].remaining
  PROVE  ThrottleInv'
<1> DEFINE written == writer[w].written + writer[w].chunk
           paid == writer[w].paid + n
           to == IF written = Length(w) THEN "done" ELSE "reading"
           s == [writer[w] EXCEPT !.at = to, !.written = written, !.paid = paid,
                                  !.delay = 1, !.remaining = 0]
<1>1. BucketInv /\ w \in Users /\ writer[w] \in Writer /\ Paying(w, writer[w])
  BY WriterFacts
<1>2. Update(w, s)
  BY DEF Write
<1>3. /\ writer[w].written \in Nat /\ writer[w].chunk \in Nat /\ writer[w].paid \in Nat
      /\ writer[w].remaining \in Nat
  BY <1>1 DEF Writer
<1>4. /\ writer[w].paid = writer[w].written + (writer[w].chunk - writer[w].remaining)
      /\ written <= Length(w)
  BY <1>1 DEF Paying
<1>5. Length(w) \in Nat /\ 1 \in 1 .. MaxDelay
  BY <1>1, Cutting, ThrottleAssumption
<1>6. written \in Nat /\ paid = written
  BY <1>3, <1>4
<1>7. to \in {"done", "reading"} /\ (to = "reading" => written < Length(w))
  BY <1>4, <1>5, <1>6
<1> HIDE DEF written, paid, to
<1>8. /\ s \in Writer /\ s.at = to /\ s.written = written /\ s.paid = paid
  BY <1>1, <1>5, <1>6, <1>7 DEF Writer
<1> HIDE DEF s
<1>9. Paying(w, s)
  BY <1>6, <1>7, <1>8 DEF Paying
<1>10. BucketInv' /\ call'[w].at = "none" /\ \A v \in Users \ {w} : call'[v] = call[v]
  BY <1>1, Ends
<1> QED
  BY <1>2, <1>7, <1>8, <1>9, <1>10, WriterMoves

(* It goes on to wait, or sees that its download is cancelled: what it has *)
(* paid for of the chunk is no longer among what remains.                  *)
LEMMA Sleeps ==
  ASSUME ThrottleInv, NEW w \in Writers, NEW s \in Writer, Sleep(w, s), OnlyWriters,
         BucketInv', call'[w].at = "none", \A v \in Users \ {w} : call'[v] = call[v],
         writer[w].at \in {"whole", "batch"}, s.at \in {"whole", "batch"},
         s.paid = s.written + (s.chunk - s.remaining), s.remaining <= s.chunk,
         s.written + s.chunk <= Length(w)
  PROVE  ThrottleInv'
<1> DEFINE asleep == [s EXCEPT !.at = "sleeping", !.timer = s.delay]
           stopped == [s EXCEPT !.at = "cancelled"]
<1>1. CASE w \in cancelled
  <2>1. Update(w, stopped)
    BY <1>1 DEF Sleep
  <2>2. /\ stopped \in Writer /\ stopped.at = "cancelled" /\ stopped.paid = s.paid
        /\ stopped.written = s.written /\ stopped.chunk = s.chunk /\ stopped.remaining = s.remaining
    BY DEF Writer
  <2> HIDE DEF stopped
  <2>3. Paying(w, stopped)
    BY <2>2 DEF Paying
  <2> QED
    BY <2>1, <2>2, <2>3, WriterMoves
<1>2. CASE w \notin cancelled
  <2>1. Update(w, asleep)
    BY <1>2 DEF Sleep
  <2>2. /\ asleep \in Writer /\ asleep.at = "sleeping" /\ asleep.paid = s.paid
        /\ asleep.written = s.written /\ asleep.chunk = s.chunk /\ asleep.remaining = s.remaining
    <3>1. s.delay \in 1 .. MaxDelay /\ \A d \in 1 .. MaxDelay : d \in 0 .. MaxDelay
      BY ThrottleAssumption DEF Writer
    <3>2. s.delay \in 0 .. MaxDelay
      BY <3>1
    <3> QED
      BY <3>2 DEF Writer
  <2> HIDE DEF asleep
  <2>3. Paying(w, asleep)
    BY <2>2 DEF Paying
  <2> QED
    BY <2>1, <2>2, <2>3, WriterMoves
<1> QED
  BY <1>1, <1>2

LEMMA TakeWholeStep ==
  ASSUME ThrottleInv, NEW w \in Writers, TakeWhole(w)
  PROVE  ThrottleInv'
<1>1. writer[w] \in Writer /\ Paying(w, writer[w])
  BY WriterFacts
<1>2. /\ writer[w].at = "whole" /\ call[w].at = "taking" /\ Taken(writer[w].chunk)
      /\ Write(w, writer[w].chunk) /\ call' = Answered(w) /\ OnlyWriters
  BY DEF TakeWhole
<1>3. writer[w].chunk \in Nat /\ writer[w].chunk = writer[w].remaining
  BY <1>1, <1>2 DEF Paying, Writer
<1> QED
  BY <1>2, <1>3, Writes

LEMMA WaitForWholeStep ==
  ASSUME ThrottleInv, NEW w \in Writers, WaitForWhole(w)
  PROVE  ThrottleInv'
<1> DEFINE s == [writer[w] EXCEPT !.delay = 1]
<1>1. BucketInv /\ w \in Users /\ writer[w] \in Writer /\ Paying(w, writer[w])
  BY WriterFacts
<1>2. /\ writer[w].at = "whole" /\ call[w].at = "taking" /\ Refused(writer[w].chunk)
      /\ Sleep(w, s) /\ call' = Answered(w) /\ OnlyWriters
  BY DEF WaitForWhole
<1>3. writer[w].chunk \in Nat /\ 1 \in 1 .. MaxDelay
  BY <1>1, ThrottleAssumption DEF Writer
<1>4. /\ s \in Writer /\ s.at = writer[w].at /\ s.paid = writer[w].paid
      /\ s.written = writer[w].written /\ s.chunk = writer[w].chunk
      /\ s.remaining = writer[w].remaining
  BY <1>1, <1>3 DEF Writer
<1> HIDE DEF s
<1>5. /\ s.paid = s.written + (s.chunk - s.remaining) /\ s.remaining <= s.chunk
      /\ s.written + s.chunk <= Length(w)
  BY <1>1, <1>2, <1>4 DEF Paying
<1>6. BucketInv' /\ call'[w].at = "none" /\ \A v \in Users \ {w} : call'[v] = call[v]
  BY <1>1, <1>2, <1>3, Ends
<1> QED
  BY <1>2, <1>4, <1>5, <1>6, Sleeps

LEMMA WakeStep ==
  ASSUME ThrottleInv, NEW w \in Writers, Wake(w)
  PROVE  ThrottleInv'
<1> DEFINE s == [writer[w] EXCEPT !.at = "batch"]
<1>1. /\ BucketInv /\ w \in Users /\ writer[w] \in Writer /\ Paying(w, writer[w])
      /\ call[w].at # "none" => WriterCalls(writer[w])
  BY WriterFacts
<1>2. /\ writer[w].at = "sleeping" /\ Update(w, s) /\ OnlyWriters
      /\ call' = Begun(w) /\ UNCHANGED <<tokens, since, credit>>
  BY DEF Wake
<1>3. /\ s \in Writer /\ s.at = "batch" /\ s.paid = writer[w].paid
      /\ s.written = writer[w].written /\ s.chunk = writer[w].chunk
      /\ s.remaining = writer[w].remaining
  BY <1>1 DEF Writer
<1> HIDE DEF s
<1>4. Paying(w, s) /\ WriterCalls(s)
  BY <1>1, <1>2, <1>3 DEF Paying, WriterCalls
<1>5. BucketInv' /\ \A v \in Users \ {w} : call'[v] = call[v]
  <2>1. call[w].at # "granting"
    BY <1>1, <1>2 DEF WriterCalls
  <2> QED
    BY <2>1, <1>1, <1>2, Begins
<1> QED
  BY <1>2, <1>3, <1>4, <1>5, WriterMoves

LEMMA BatchIsLess ==
  ASSUME NEW w \in Writers, writer[w] \in Writer
  PROVE  NextBatch(w) \in Nat /\ NextBatch(w) <= writer[w].remaining
<1>1. writer[w].remaining \in Nat /\ Batch[w] \in Nat
  BY ThrottleAssumption DEF Writer
<1> QED
  BY <1>1 DEF NextBatch, AtMost

LEMMA TakeBatchStep ==
  ASSUME ThrottleInv, NEW w \in Writers, TakeBatch(w)
  PROVE  ThrottleInv'
<1> DEFINE n == NextBatch(w)
           left == writer[w].remaining - n
           paid == writer[w].paid + n
           s == [writer[w] EXCEPT !.remaining = left, !.delay = 1, !.paid = paid]
<1>1. BucketInv /\ w \in Users /\ writer[w] \in Writer /\ Paying(w, writer[w])
  BY WriterFacts
<1>2. /\ writer[w].at = "batch" /\ call[w].at = "taking" /\ Taken(n)
      /\ IF left = 0 THEN Write(w, n) ELSE Sleep(w, s)
      /\ call' = Answered(w) /\ OnlyWriters
  BY DEF TakeBatch
<1>3. n \in Nat /\ n <= writer[w].remaining
  BY <1>1, BatchIsLess
<1> HIDE DEF n
<1>4. /\ writer[w].written \in Nat /\ writer[w].chunk \in Nat /\ writer[w].paid \in Nat
      /\ writer[w].remaining \in Nat /\ 1 \in 1 .. MaxDelay
  BY <1>1, ThrottleAssumption DEF Writer
<1>5. /\ writer[w].paid = writer[w].written + (writer[w].chunk - writer[w].remaining)
      /\ writer[w].remaining <= writer[w].chunk
      /\ writer[w].written + writer[w].chunk <= Length(w)
  BY <1>1, <1>2 DEF Paying
<1>6. CASE left = 0
  <2>1. n = writer[w].remaining
    BY <1>3, <1>4, <1>6
  <2> QED
    BY <2>1, <1>2, <1>3, <1>6, Writes
<1>7. CASE left # 0
  <2>1. left \in Nat /\ paid \in Nat
    BY <1>3, <1>4
  <2>2. paid = writer[w].written + (writer[w].chunk - left) /\ left <= writer[w].chunk
    BY <1>3, <1>4, <1>5
  <2> HIDE DEF left, paid
  <2>3. /\ s \in Writer /\ s.at = writer[w].at /\ s.paid = paid
        /\ s.written = writer[w].written /\ s.chunk = writer[w].chunk /\ s.remaining = left
    BY <1>1, <1>4, <2>1 DEF Writer
  <2> HIDE DEF s
  <2>4. /\ s.paid = s.written + (s.chunk - s.remaining) /\ s.remaining <= s.chunk
        /\ s.written + s.chunk <= Length(w)
    BY <1>5, <2>2, <2>3
  <2>5. BucketInv' /\ call'[w].at = "none" /\ \A v \in Users \ {w} : call'[v] = call[v]
    BY <1>1, <1>2, <1>3, Ends
  <2> QED
    BY <2>3, <2>4, <2>5, <1>2, <1>7, Sleeps
<1> QED
  BY <1>6, <1>7

LEMMA WaitForBatchStep ==
  ASSUME ThrottleInv, NEW w \in Writers, WaitForBatch(w)
  PROVE  ThrottleInv'
<1> DEFINE delay == AtMost(2 * writer[w].delay, MaxDelay)
           s == [writer[w] EXCEPT !.delay = delay]
<1>1. BucketInv /\ w \in Users /\ writer[w] \in Writer /\ Paying(w, writer[w])
  BY WriterFacts
<1>2. /\ writer[w].at = "batch" /\ call[w].at = "taking" /\ Refused(NextBatch(w))
      /\ Sleep(w, s) /\ call' = Answered(w) /\ OnlyWriters
  BY DEF WaitForBatch
<1>3. NextBatch(w) \in Nat
  BY <1>1, BatchIsLess
<1>4. delay \in 1 .. MaxDelay
  <2>1. writer[w].delay \in 1 .. MaxDelay /\ MaxDelay \in Nat \ {0}
    BY <1>1, ThrottleAssumption DEF Writer
  <2> QED
    BY <2>1 DEF AtMost
<1> HIDE DEF delay
<1>5. /\ s \in Writer /\ s.at = writer[w].at /\ s.paid = writer[w].paid
      /\ s.written = writer[w].written /\ s.chunk = writer[w].chunk
      /\ s.remaining = writer[w].remaining
  BY <1>1, <1>4 DEF Writer
<1> HIDE DEF s
<1>6. /\ s.paid = s.written + (s.chunk - s.remaining) /\ s.remaining <= s.chunk
      /\ s.written + s.chunk <= Length(w)
  BY <1>1, <1>2, <1>5 DEF Paying
<1>7. BucketInv' /\ call'[w].at = "none" /\ \A v \in Users \ {w} : call'[v] = call[v]
  BY <1>1, <1>2, <1>3, Ends
<1> QED
  BY <1>2, <1>5, <1>6, <1>7, Sleeps

LEMMA CancelStep ==
  ASSUME ThrottleInv, NEW w \in Writers, Cancel(w)
  PROVE  ThrottleInv'
<1>1. UNCHANGED <<bucketVars, body, writer, passed>> /\ cancelled' = cancelled \cup {w}
  BY DEF Cancel
<1>2. BucketInv' /\ call' = call
  BY <1>1, BucketStays DEF bucketVars, ThrottleInv
<1>3. Present' = Present
  BY <1>1 DEF Present
<1>4. BodiesInv' /\ PassedInv'
  BY <1>1, <1>2 DEF ThrottleInv, BodiesInv, PassedInv
<1>5. WritersInv'
  BY <1>1, <1>2 DEF ThrottleInv, WritersInv
<1> QED
  BY <1>2, <1>3, <1>4, <1>5 DEF ThrottleInv

LEMMA WriterInvariant ==
  ASSUME ThrottleInv, NEW w \in Writers, WriterStep(w) \/ Cancel(w)
  PROVE  ThrottleInv'
BY ReadToWriteStep, TakeWholeStep, WaitForWholeStep, WakeStep, TakeBatchStep, WaitForBatchStep,
   CancelStep, RefillOfUser, WriterFacts DEF WriterStep

-----------------------------------------------------------------------------
(* Those who do not wait, and the clock.                                   *)

LEMMA PassedFacts ==
  ASSUME ThrottleInv, NEW p \in Plains \cup Ftps
  PROVE  /\ BucketInv /\ p \in Users /\ passed[p] \in Passed /\ Passing(p, passed[p])
         /\ call[p].at # "none" => PassedCalls(passed[p])
BY Kinds DEF ThrottleInv, PassedInv

LEMMA ReadToPassStep ==
  ASSUME ThrottleInv, NEW p \in Plains \cup Ftps, ReadToPass(p)
  PROVE  ThrottleInv'
<1> DEFINE n == Cut(p, passed[p].sent) - passed[p].sent
           s == [passed[p] EXCEPT !.at = "trying", !.chunk = n]
<1>1. /\ BucketInv /\ p \in Users /\ passed[p] \in Passed /\ Passing(p, passed[p])
      /\ call[p].at # "none" => PassedCalls(passed[p])
  BY PassedFacts
<1>2. /\ passed[p].at = "reading" /\ Forward(p, s) /\ OnlyPassed
      /\ call' = Begun(p) /\ UNCHANGED <<tokens, since, credit>>
  BY DEF ReadToPass
<1>3. passed[p].sent \in Nat /\ passed[p].sent < Length(p)
  BY <1>1, <1>2 DEF Passed, Passing
<1>4. n \in Nat /\ passed[p].sent + n <= Length(p)
  <2>1. /\ Cut(p, passed[p].sent) \in Nat /\ passed[p].sent < Cut(p, passed[p].sent)
        /\ Cut(p, passed[p].sent) <= Length(p)
    BY <1>1, <1>3, Cutting
  <2> QED
    BY <2>1, <1>3
<1> HIDE DEF n
<1>5. s \in Passed /\ s.at = "trying" /\ s.chunk = n /\ s.sent = passed[p].sent
  BY <1>1, <1>4 DEF Passed
<1> HIDE DEF s
<1>6. BucketInv' /\ \A v \in Users \ {p} : call'[v] = call[v]
  <2>1. call[p].at # "granting"
    BY <1>1, <1>2 DEF PassedCalls
  <2> QED
    BY <2>1, <1>1, <1>2, Begins
<1>7. Passing(p, s) /\ PassedCalls(s)
  BY <1>4, <1>5 DEF Passing, PassedCalls
<1> QED
  BY <1>2, <1>5, <1>6, <1>7, PassedMoves

LEMMA PassesOn ==
  ASSUME ThrottleInv, NEW p \in Plains \cup Ftps, PassOn(p), OnlyPassed, passed[p].at = "trying",
         BucketInv', call'[p].at = "none", \A v \in Users \ {p} : call'[v] = call[v]
  PROVE  ThrottleInv'
<1> DEFINE sent == passed[p].sent + passed[p].chunk
           to == IF sent = Length(p) THEN "done" ELSE "reading"
           s == [passed[p] EXCEPT !.at = to, !.sent = sent]
<1>1. passed[p] \in Passed /\ Passing(p, passed[p]) /\ Length(p) \in Nat
  BY PassedFacts, Cutting
<1>2. Forward(p, s)
  BY DEF PassOn
<1>3. sent \in Nat /\ sent <= Length(p)
  BY <1>1 DEF Passed, Passing
<1>4. to \in {"done", "reading"} /\ (to = "reading" => sent < Length(p))
  BY <1>1, <1>3
<1> HIDE DEF sent, to
<1>5. s \in Passed /\ s.at = to /\ s.sent = sent
  BY <1>1, <1>3, <1>4 DEF Passed
<1> HIDE DEF s
<1>6. Passing(p, s)
  BY <1>4, <1>5 DEF Passing
<1> QED
  BY <1>2, <1>4, <1>5, <1>6, PassedMoves

LEMMA PassedInvariant ==
  ASSUME ThrottleInv, NEW p \in Plains \cup Ftps, PassStep(p)
  PROVE  ThrottleInv'
<1>1. BucketInv /\ p \in Users /\ passed[p] \in Passed /\ passed[p].chunk \in Nat
  BY PassedFacts DEF Passed
<1>2. CASE PaidFor(p)
  <2>1. /\ passed[p].at = "trying" /\ call[p].at = "taking" /\ Taken(passed[p].chunk)
        /\ PassOn(p) /\ call' = Answered(p) /\ OnlyPassed
    BY <1>2 DEF PaidFor
  <2>2. BucketInv' /\ call'[p].at = "none" /\ \A v \in Users \ {p} : call'[v] = call[v]
    BY <1>1, <2>1, Ends
  <2> QED
    BY <2>1, <2>2, PassesOn
<1>3. CASE NotPaidFor(p)
  <2> DEFINE s == [passed[p] EXCEPT !.at = "failed"]
  <2>1. /\ passed[p].at = "trying" /\ call[p].at = "taking" /\ Refused(passed[p].chunk)
        /\ call' = Answered(p) /\ OnlyPassed
        /\ Forward(p, s) \/ PassOn(p)
    BY <1>3 DEF NotPaidFor
  <2>2. BucketInv' /\ call'[p].at = "none" /\ \A v \in Users \ {p} : call'[v] = call[v]
    BY <1>1, <2>1, Ends
  <2>3. s \in Passed /\ s.at = "failed"
    BY <1>1 DEF Passed
  <2> HIDE DEF s
  <2>4. Passing(p, s)
    BY <2>3 DEF Passing
  <2> QED
    BY <2>1, <2>2, <2>3, <2>4, PassesOn, PassedMoves
<1> QED
  BY <1>1, <1>2, <1>3, ReadToPassStep, RefillOfUser DEF PassStep

\* At most MaxCallers call at once: only those present do.
LEMMA CallersFew ==
  ASSUME ThrottleInv
  PROVE  Cardinality(Calling) <= MaxCallers
<1>1. Calling \subseteq Present
  <2> SUFFICES ASSUME NEW u \in Users, call[u].at # "none"
               PROVE  u \in Present
    BY DEF Calling
  <2>1. CASE u \in Bodies
    BY <2>1 DEF ThrottleInv, BodiesInv, BodyCalls, Present
  <2>2. CASE u \in Writers
    BY <2>2 DEF ThrottleInv, WritersInv, WriterCalls, Present
  <2>3. CASE u \in Plains \cup Ftps
    BY <2>3 DEF ThrottleInv, PassedInv, PassedCalls, Present
  <2> QED
    BY <2>1, <2>2, <2>3, ThrottleAssumption
<1>2. Present \subseteq Users /\ Cardinality(Present) <= MaxCallers
  BY ThrottleAssumption DEF ThrottleInv
<1>3. IsFiniteSet(Present) /\ Cardinality(Present) \in Nat
  BY <1>2, FS_Subset, FS_CardinalityType, BucketAssumption
<1>4. Cardinality(Calling) \in Nat /\ Cardinality(Calling) <= Cardinality(Present)
  BY <1>1, <1>3, FS_Subset, FS_CardinalityType
<1> QED
  BY <1>2, <1>3, <1>4, BucketAssumption

LEMMA TickStep ==
  ASSUME ThrottleInv, Tick
  PROVE  ThrottleInv'
<1>1. /\ body' = [b \in Bodies |-> [body[b] EXCEPT !.timer = IF @ > 0 THEN @ - 1 ELSE @]]
      /\ writer' = [w \in Writers |-> [writer[w] EXCEPT !.timer = IF @ > 0 THEN @ - 1 ELSE @]]
      /\ UNCHANGED <<passed, cancelled>> /\ Pass
  BY DEF Tick
<1>2. BucketInv'
  BY <1>1, CallersFew, TimePasses DEF ThrottleInv
<1>3. \A u \in Users : call'[u].at = call[u].at
  <2> SUFFICES ASSUME NEW u \in Users
               PROVE  call'[u].at = call[u].at
    OBVIOUS
  <2>1. call[u] \in Call
    BY DEF ThrottleInv, BucketInv, BucketTypeOK
  <2>2. call'[u] = IF call[u].at = "dating"
                   THEN [call[u] EXCEPT !.lag = AtMost(@ + 1, Full)] ELSE call[u]
    BY <1>1 DEF Pass
  <2> QED
    BY <2>1, <2>2 DEF Call
<1>4. ASSUME NEW b \in Bodies
      PROVE  /\ body'[b] \in Body /\ Queued(b, body'[b]) /\ Timed(b, body'[b])
             /\ call'[b].at # "none" => BodyCalls(body'[b])
             /\ body'[b].at = body[b].at
  <2> DEFINE timer == IF body[b].timer > 0 THEN body[b].timer - 1 ELSE body[b].timer
             s == [body[b] EXCEPT !.timer = timer]
  <2>1. /\ body[b] \in Body /\ Queued(b, body[b]) /\ Timed(b, body[b]) /\ b \in Users
        /\ call[b].at # "none" => BodyCalls(body[b])
    BY BodyFacts
  <2>2. body'[b] = s
    BY <1>1
  <2>3. body[b].timer \in {NoTimer} \cup Nat
    BY <2>1 DEF Body
  <2>4. timer \in {NoTimer} \cup Nat /\ (timer = NoTimer <=> body[b].timer = NoTimer)
    BY <2>3 DEF NoTimer
  <2> HIDE DEF timer
  <2>5. /\ s \in Body /\ s.at = body[b].at /\ s.state = body[b].state /\ s.timer = timer
        /\ s.pending = body[b].pending /\ s.got = body[b].got /\ s.sent = body[b].sent
    BY <2>1, <2>4 DEF Body
  <2> HIDE DEF s
  <2>6. Queued(b, s)
    BY <2>1, <2>5 DEF Queued
  <2>7. Timed(b, s)
    BY <2>1, <2>4, <2>5 DEF Timed
  <2>8. call'[b].at # "none" => BodyCalls(s)
    BY <2>1, <2>5, <1>3 DEF BodyCalls
  <2> QED
    BY <2>2, <2>5, <2>6, <2>7, <2>8
<1>5. ASSUME NEW w \in Writers
      PROVE  /\ writer'[w] \in Writer /\ Paying(w, writer'[w])
             /\ call'[w].at # "none" => WriterCalls(writer'[w])
             /\ writer'[w].at = writer[w].at
  <2> DEFINE timer == IF writer[w].timer > 0 THEN writer[w].timer - 1 ELSE writer[w].timer
             s == [writer[w] EXCEPT !.timer = timer]
  <2>1. /\ writer[w] \in Writer /\ Paying(w, writer[w]) /\ w \in Users
        /\ call[w].at # "none" => WriterCalls(writer[w])
    BY WriterFacts
  <2>2. writer'[w] = s
    BY <1>1
  <2>3. timer \in 0 .. MaxDelay
    <3>1. writer[w].timer \in 0 .. MaxDelay /\ MaxDelay \in Nat
      BY <2>1, ThrottleAssumption DEF Writer
    <3> QED
      BY <3>1
  <2> HIDE DEF timer
  <2>4. /\ s \in Writer /\ s.at = writer[w].at /\ s.paid = writer[w].paid
        /\ s.written = writer[w].written /\ s.chunk = writer[w].chunk
        /\ s.remaining = writer[w].remaining
    BY <2>1, <2>3 DEF Writer
  <2> HIDE DEF s
  <2>5. Paying(w, s)
    BY <2>1, <2>4 DEF Paying
  <2>6. call'[w].at # "none" => WriterCalls(s)
    BY <2>1, <2>4, <1>3 DEF WriterCalls
  <2> QED
    BY <2>2, <2>4, <2>5, <2>6
<1>6. Present' = Present
  BY <1>1, <1>4, <1>5 DEF Present
<1>7. BodiesInv'
  BY <1>1, <1>4 DEF BodiesInv
<1>8. WritersInv'
  BY <1>1, <1>5 DEF ThrottleInv, WritersInv
<1>9. PassedInv'
  BY <1>1, <1>3, Kinds DEF ThrottleInv, PassedInv
<1> QED
  BY <1>2, <1>6, <1>7, <1>8, <1>9 DEF ThrottleInv

-----------------------------------------------------------------------------
(* The theorems.                                                           *)

LEMMA ThrottleStarts ==
  ASSUME ThrottleInit
  PROVE  ThrottleInv
<1>1. MaxTokens \in Nat \ {0} /\ Period \in Nat /\ Full \in Nat
  BY BucketNumbers
<1>2. tokens = MaxTokens /\ since = 0 /\ call = [u \in Users |-> NoCall] /\ credit = Full
  BY DEF ThrottleInit, BucketInit
<1>3. /\ NoCall.at = "none" /\ NoCall.grant = 0 /\ NoCall.current = FALSE /\ NoCall \in Call
  <2>1. 0 \in 0 .. Full /\ 0 \in 0 .. MaxTokens
    BY <1>1
  <2> QED
    BY <2>1 DEF NoCall, Stage, Call
<1>4. BucketInv
  <2>1. BucketTypeOK
    <3>1. call \in [Users -> Call]
      BY <1>2, <1>3
    <3>2. MaxTokens \in 0 .. MaxTokens /\ 0 \in 0 .. Full /\ Full \in Int
      BY <1>1
    <3> QED
      BY <3>1, <3>2, <1>2 DEF BucketTypeOK
  <2>2. InFlight = 0
    <3>1. \A u \in Users : call[u].grant = 0
      BY <1>2, <1>3
    <3>2. 1 .. 0 = {}
      OBVIOUS
    <3>3. GrantedTokens = {}
      BY <3>1, <3>2 DEF GrantedTokens
    <3> QED
      BY <3>3, FS_EmptySet DEF InFlight
  <2>3. RateKept
    <3>1. tokens + InFlight = MaxTokens
      BY <2>2, <1>1, <1>2
    <3>2. Period * MaxTokens = Full
      BY <1>1 DEF Full
    <3> QED
      BY <3>1, <3>2, <1>1, <1>2 DEF RateKept
  <2>4. CallsConsistent
    BY <1>2, <1>3 DEF CallsConsistent
  <2> QED
    BY <2>1, <2>3, <2>4 DEF BucketInv
<1>5. PICK present \in Sharing :
       /\ body = [b \in Bodies |->
            [at |-> IF b \in present THEN "ready" ELSE "absent", state |-> "idle",
             timer |-> NoTimer, pending |-> <<>>, got |-> 0, sent |-> 0]]
       /\ writer = [w \in Writers |->
            [at |-> IF w \in present THEN "reading" ELSE "absent", chunk |-> 0,
             remaining |-> 0, delay |-> 1, timer |-> 0, paid |-> 0, written |-> 0]]
       /\ passed = [p \in Plains \cup Ftps |->
            [at |-> IF p \in present THEN "reading" ELSE "absent", chunk |-> 0, sent |-> 0]]
  BY DEF ThrottleInit
<1>6. Present = present
  <2>1. /\ {b \in Bodies : body[b].at # "absent"} = Bodies \cap present
        /\ {w \in Writers : writer[w].at # "absent"} = Writers \cap present
        /\ {p \in Plains \cup Ftps : passed[p].at # "absent"} = (Plains \cup Ftps) \cap present
    BY <1>5
  <2>2. present \subseteq Bodies \cup Writers \cup Plains \cup Ftps
    BY ThrottleAssumption
  <2> QED
    BY <2>1, <2>2 DEF Present
<1>7. \A u \in Users : Length(u) \in Nat \ {0} /\ call[u].at = "none"
  BY <1>2, <1>3, Cutting
<1>8. BodiesInv
  <2> SUFFICES ASSUME NEW b \in Bodies
               PROVE  body[b] \in Body /\ Queued(b, body[b]) /\ Timed(b, body[b])
    BY <1>5, <1>7, Kinds DEF BodiesInv
  <2>1. /\ body[b].at \in {"ready", "absent"} /\ body[b].state = "idle" /\ body[b].timer = NoTimer
        /\ body[b].pending = <<>> /\ body[b].got = 0 /\ body[b].sent = 0
    BY <1>5
  <2>2. body[b] \in Body
    <3>1. <<>> \in Seq(Piece)
      OBVIOUS
    <3> QED
      BY <3>1, <1>5 DEF Body
  <2>3. Queued(b, body[b])
    <3>1. Len(<<>>) = 0 /\ 0 <= Length(b)
      BY <1>7, Kinds
    <3> QED
      BY <3>1, <2>1 DEF Queued
  <2> QED
    BY <2>1, <2>2, <2>3 DEF Timed
<1>9. WritersInv
  <2> SUFFICES ASSUME NEW w \in Writers
               PROVE  writer[w] \in Writer /\ Paying(w, writer[w])
    BY <1>5, <1>7, Kinds DEF WritersInv, ThrottleInit
  <2>1. /\ writer[w].at \in {"reading", "absent"} /\ writer[w].paid = 0 /\ writer[w].written = 0
    BY <1>5
  <2>2. writer[w] \in Writer
    <3>1. 1 \in 1 .. MaxDelay /\ 0 \in 0 .. MaxDelay
      BY ThrottleAssumption
    <3> QED
      BY <3>1, <1>5 DEF Writer
  <2>3. 0 < Length(w)
    BY <1>7, Kinds
  <2> QED
    BY <2>1, <2>2, <2>3 DEF Paying
<1>10. PassedInv
  <2> SUFFICES ASSUME NEW p \in Plains \cup Ftps
               PROVE  passed[p] \in Passed /\ Passing(p, passed[p])
    BY <1>5, <1>7, Kinds DEF PassedInv
  <2>1. passed[p].at \in {"reading", "absent"} /\ passed[p].sent = 0
    BY <1>5
  <2>2. passed[p] \in Passed
    BY <1>5 DEF Passed
  <2>3. 0 < Length(p)
    BY <1>7, Kinds
  <2> QED
    BY <2>1, <2>2, <2>3 DEF Passing
<1> QED
  BY <1>4, <1>6, <1>8, <1>9, <1>10 DEF ThrottleInv

(* The invariant of the bucket and its users is inductive.                 *)
THEOREM ThrottleInvariant == ThrottleSpec => []ThrottleInv
<1>1. ThrottleInit => ThrottleInv
  BY ThrottleStarts
<1>2. ThrottleInv /\ [ThrottleNext]_throttleVars => ThrottleInv'
  <2> SUFFICES ASSUME ThrottleInv, [ThrottleNext]_throttleVars
               PROVE  ThrottleInv'
    OBVIOUS
  <2>1. CASE UNCHANGED throttleVars
    <3>1. UNCHANGED bucketVars /\ UNCHANGED <<body, writer, passed, cancelled>>
      BY <2>1 DEF throttleVars
    <3>2. BucketInv' /\ call' = call
      BY <3>1, BucketStays DEF bucketVars, ThrottleInv
    <3> QED
      BY <3>1, <3>2 DEF ThrottleInv, Present, BodiesInv, WritersInv, PassedInv
  <2>2. CASE ThrottleNext
    BY <2>2, BodyInvariant, WriterInvariant, PassedInvariant, TickStep DEF ThrottleNext
  <2> QED
    BY <2>1, <2>2
<1> QED
  BY <1>1, <1>2, PTL DEF ThrottleSpec

(* The states of the bucket and of its users have their types.             *)
THEOREM ThrottleTypeCorrect == ThrottleSpec => []ThrottleTypeOK
<1>1. ThrottleInv => ThrottleTypeOK
  BY DEF ThrottleInv, BucketInv, BodiesInv, WritersInv, PassedInv, ThrottleTypeOK
<1> QED
  BY <1>1, ThrottleInvariant, PTL

(* Whoever shares a bucket, however their refills and takes interleave,    *)
(* never is more taken than the rate allows (refill, try_consume).         *)
THEOREM RateAlwaysKept == ThrottleSpec => []RateKept
<1>1. ThrottleInv => RateKept
  BY DEF ThrottleInv, BucketInv
<1> QED
  BY <1>1, ThrottleInvariant, PTL

(* No response body sleeps on a piece it withheld without a timer          *)
(* (poll_next and schedule_wake of ThrottledPermitStream).                 *)
THEOREM AlwaysSleepsOnATimer == ThrottleSpec => []SleepsOnATimer
<1>1. ThrottleInv => SleepsOnATimer
  BY DEF ThrottleInv, BodiesInv, Body, Timed, SleepsOnATimer
<1> QED
  BY <1>1, ThrottleInvariant, PTL

(* A response body is delivered in order, without a gap and in pieces the  *)
(* bucket can pay for, for any chunks and any capacity (enqueue_chunk).    *)
THEOREM BodyAlwaysInOrder == ThrottleSpec => []BodyInOrder
<1>1. ThrottleInv => BodyInOrder
  BY DEF ThrottleInv, BodiesInv, Queued, Timed, BodyInOrder
<1> QED
  BY <1>1, ThrottleInvariant, PTL

(* A worker writes a chunk once all of its bytes are paid for, and pays    *)
(* for none of them twice (wait_consume).                                  *)
THEOREM WrittenIsAlwaysPaid == ThrottleSpec => []WrittenIsPaid
<1>1. ThrottleInv => WrittenIsPaid
  BY DEF ThrottleInv, WritersInv, Paying, WrittenIsPaid
<1> QED
  BY <1>1, ThrottleInvariant, PTL

=============================================================================
