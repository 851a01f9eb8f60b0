---------------------------- MODULE AdminProofs ----------------------------
(***************************************************************************)
(* Proofs about Admin, for all configurations, URL maps, files and         *)
(* selectors: blitzctl reads of the configuration what the server reads of *)
(* it, two computations of one expiry agree, aliases are shown back, what  *)
(* is shown can be named, what is removed is gone, and the views of the    *)
(* cache agree.  At the end what sizes and addresses are read as.          *)
(***************************************************************************)
EXTENDS Admin, FiniteSetTheorems, SequenceTheorems, TLAPS

-----------------------------------------------------------------------------
(* Positions.                                                              *)

\* That of an element among those of a set.
Rank(S, i) == Cardinality({j \in S : j <= i})

LEMMA Least ==
  ASSUME NEW S \in SUBSET Nat, S # {}
  PROVE  Min(S) \in S /\ \A x \in S : Min(S) <= x
<1>1. PICK least \in S : \A x \in S : ~(<<x, least>> \in OpToRel(<, Nat))
  BY NatLessThanWellFounded, WFMin
<1>2. ASSUME NEW x \in S
      PROVE  least <= x
  <2>1. ~(x < least)
    BY <1>1 DEF OpToRel
  <2> QED
    BY <2>1
<1> QED
  BY <1>2 DEF Min

LEMMA RankType ==
  ASSUME NEW S \in SUBSET Nat, IsFiniteSet(S), NEW i \in S
  PROVE  Rank(S, i) \in 1 .. Cardinality(S)
<1> DEFINE below == {j \in S : j <= i}
<1>1. below \in SUBSET S /\ i \in below
  <2>1. i \in Nat
    OBVIOUS
  <2> QED
    BY <2>1
<1>2. IsFiniteSet(below) /\ Cardinality(below) <= Cardinality(S)
  BY <1>1, FS_Subset
<1>3. Cardinality(below) \in Nat /\ Cardinality(S) \in Nat
  BY <1>2, FS_CardinalityType
<1>4. Cardinality(below) # 0
  BY <1>1, <1>2, FS_EmptySet
<1> QED
  BY <1>2, <1>3, <1>4 DEF Rank

LEMMA RankGrows ==
  ASSUME NEW S \in SUBSET Nat, IsFiniteSet(S), NEW i \in S, NEW k \in S, i < k
  PROVE  Rank(S, i) < Rank(S, k)
<1> DEFINE below(n) == {j \in S : j <= n}
<1>0. i \in Nat /\ k \in Nat /\ \A j \in S : j \in Nat
  OBVIOUS
<1>1. below(i) \in SUBSET below(k) /\ below(k) \in SUBSET S
  <2>1. \A j \in S : j <= i => j <= k
    BY <1>0
  <2> QED
    BY <2>1
<1>2. k \in below(k) /\ k \notin below(i)
  BY <1>0
<1>3. IsFiniteSet(below(k))
  BY <1>1, FS_Subset
<1>4. IsFiniteSet(below(i)) /\ Cardinality(below(i)) <= Cardinality(below(k))
  BY <1>1, <1>3, FS_Subset
<1>5. Cardinality(below(i)) # Cardinality(below(k))
  BY <1>1, <1>2, <1>3, FS_Subset
<1>6. Cardinality(below(i)) \in Nat /\ Cardinality(below(k)) \in Nat
  BY <1>3, <1>4, FS_CardinalityType
<1> HIDE DEF below
<1>7. Cardinality(below(i)) < Cardinality(below(k))
  BY <1>4, <1>5, <1>6
<1> QED
  BY <1>7 DEF Rank, below

(* The ranks of n elements are n numbers up to n, hence all of them.       *)
LEMMA NthHasRank ==
  ASSUME NEW S \in SUBSET Nat, IsFiniteSet(S), NEW n \in 1 .. Cardinality(S)
  PROVE  Nth(S, n) \in S /\ Rank(S, Nth(S, n)) = n
<1> DEFINE ranks == [i \in S |-> Rank(S, i)]
<1>1. Cardinality(S) \in Nat
  BY FS_CardinalityType
<1>2. ranks \in [S -> 1 .. Cardinality(S)]
  BY RankType
<1>3. ASSUME NEW i \in S, NEW k \in S, ranks[i] = ranks[k]
      PROVE  i = k
  <2>1. Rank(S, i) = Rank(S, k) /\ Rank(S, i) \in 1 .. Cardinality(S)
    BY <1>3, RankType
  <2>2. ~(i < k) /\ ~(k < i)
    BY <2>1, RankGrows, <1>1
  <2> QED
    BY <2>2
<1>4. ranks \in Injection(S, 1 .. Cardinality(S))
  BY <1>2, <1>3 DEF Injection, IsInjective
<1>5. IsFiniteSet(1 .. Cardinality(S)) /\ Cardinality(1 .. Cardinality(S)) = Cardinality(S)
  BY <1>1, FS_Interval
<1>6. ranks \in Surjection(S, 1 .. Cardinality(S))
  BY <1>4, <1>5, FS_Injection
<1>7. \E i \in S : ranks[i] = n
  BY <1>6 DEF Surjection
<1> QED
  BY <1>7 DEF Nth, Rank

LEMMA NthIs ==
  ASSUME NEW S \in SUBSET Nat, IsFiniteSet(S), NEW i \in S
  PROVE  Nth(S, Rank(S, i)) = i
<1>1. Rank(S, i) \in 1 .. Cardinality(S)
  BY RankType
<1> DEFINE k == Nth(S, Rank(S, i))
<1>2. k \in S /\ Rank(S, k) = Rank(S, i)
  BY <1>1, NthHasRank
<1> HIDE DEF k
<1>3. Cardinality(S) \in Nat
  BY FS_CardinalityType
<1>4. ~(i < k) /\ ~(k < i)
  BY <1>1, <1>2, <1>3, RankGrows
<1>5. i \in Nat /\ k \in Nat
  BY <1>2
<1>6. k = i
  BY <1>4, <1>5
<1> QED
  BY <1>6 DEF k

\* What is picked is there, each at its place.
LEMMA PickedIs ==
  ASSUME NEW S \in SUBSET Nat, IsFiniteSet(S), NEW s
  PROVE  /\ DOMAIN Picked(s, S) = 1 .. Cardinality(S) /\ Len(Picked(s, S)) = Cardinality(S)
         /\ \A n \in DOMAIN Picked(s, S) : Nth(S, n) \in S /\ Picked(s, S)[n] = s[Nth(S, n)]
         /\ \A T : (\A i \in S : s[i] \in T) => Picked(s, S) \in Seq(T)
<1>1. Cardinality(S) \in Nat
  BY FS_CardinalityType
<1>2. DOMAIN Picked(s, S) = 1 .. Cardinality(S)
  BY DEF Picked
<1>3. \A n \in DOMAIN Picked(s, S) : Nth(S, n) \in S /\ Picked(s, S)[n] = s[Nth(S, n)]
  BY NthHasRank DEF Picked
<1>4. ASSUME NEW T, \A i \in S : s[i] \in T
      PROVE  Picked(s, S) \in Seq(T)
  <2>1. \A n \in 1 .. Cardinality(S) : s[Nth(S, n)] \in T
    BY <1>4, NthHasRank
  <2>2. Picked(s, S) \in [1 .. Cardinality(S) -> T]
    BY <2>1 DEF Picked
  <2> QED
    BY <1>1, <2>2
<1>5. Len(Picked(s, S)) = Cardinality(S)
  <2>1. Picked(s, S) \in Seq({s[i] : i \in S})
    BY <1>4
  <2> QED
    BY <1>1, <1>2, <2>1
<1> QED
  BY <1>2, <1>3, <1>4, <1>5

(* A set whose other elements all come later begins alike.                 *)
LEMMA NthBegins ==
  ASSUME NEW S \in SUBSET Nat, IsFiniteSet(S), NEW R \in SUBSET S,
         \A r \in R, t \in S \ R : r < t
  PROVE  /\ IsFiniteSet(R) /\ Cardinality(R) <= Cardinality(S)
         /\ \A n \in 1 .. Cardinality(R) : Nth(R, n) = Nth(S, n)
<1>1. IsFiniteSet(R) /\ Cardinality(R) <= Cardinality(S)
  BY FS_Subset
<1>2. Cardinality(R) \in Nat /\ Cardinality(S) \in Nat
  BY <1>1, FS_CardinalityType
<1>3. ASSUME NEW n \in 1 .. Cardinality(R)
      PROVE  Nth(R, n) = Nth(S, n)
  <2> DEFINE i == Nth(R, n)
  <2>1. i \in R /\ Rank(R, i) = n
    BY <1>1, NthHasRank
  <2> HIDE DEF i
  <2>2. \A j \in S : j <= i => j \in R
    <3> SUFFICES ASSUME NEW j \in S, j <= i, j \notin R PROVE FALSE
      OBVIOUS
    <3>1. i < j /\ i \in Nat /\ j \in Nat
      BY <2>1
    <3> QED
      BY <3>1
  <2>3. {j \in S : j <= i} = {j \in R : j <= i}
    BY <2>2
  <2>4. Rank(S, i) = n
    BY <2>1, <2>3 DEF Rank
  <2>5. Nth(S, Rank(S, i)) = i
    BY <2>1, NthIs
  <2> QED
    BY <2>4, <2>5 DEF i
<1> QED
  BY <1>1, <1>3

-----------------------------------------------------------------------------
(* Sequences.                                                              *)

LEMMA SubSeqIs ==
  ASSUME NEW T, NEW s \in Seq(T), NEW m \in Nat \ {0}, NEW n \in Nat, n <= Len(s)
  PROVE  /\ SubSeq(s, m, n) = [k \in 1 .. (n - m + 1) |-> s[m + k - 1]]
         /\ SubSeq(s, m, n) \in Seq(T)
         /\ Len(SubSeq(s, m, n)) = IF m <= n THEN n - m + 1 ELSE 0
<1>1. SubSeq(s, m, n) = [k \in 1 .. (n - m + 1) |-> s[m + k - 1]]
  OBVIOUS
<1> DEFINE length == IF m <= n THEN n - m + 1 ELSE 0
<1>2. length \in Nat /\ 1 .. (n - m + 1) = 1 .. length
  OBVIOUS
<1>3. \A k \in 1 .. length : m + k - 1 \in 1 .. Len(s)
  OBVIOUS
<1>4. \A k \in 1 .. Len(s) : s[k] \in T
  OBVIOUS
<1>5. SubSeq(s, m, n) = [k \in 1 .. length |-> s[m + k - 1]]
  BY <1>1, <1>2
<1> HIDE DEF length
<1>6. SubSeq(s, m, n) \in [1 .. length -> T]
  BY <1>3, <1>4, <1>5
<1>7. SubSeq(s, m, n) \in Seq(T) /\ Len(SubSeq(s, m, n)) = length
  BY <1>2, <1>5, <1>6
<1> QED
  BY <1>1, <1>7 DEF length

LEMMA ConcatIs ==
  ASSUME NEW T, NEW p \in Seq(T), NEW q \in Seq(T)
  PROVE  /\ \A k \in 1 .. Len(p) : (p \o q)[k] = p[k]
         /\ \A k \in 1 .. Len(q) : (p \o q)[Len(p) + k] = q[k]
OBVIOUS

(* IsPrefix, element by element.                                           *)
LEMMA PrefixIs ==
  ASSUME NEW T, NEW p \in Seq(T), NEW q \in Seq(T)
  PROVE  IsPrefix(p, q) <=> Len(p) <= Len(q) /\ \A k \in 1 .. Len(p) : p[k] = q[k]
<1>1. SubSeq(p, 1, Len(p)) = p
  OBVIOUS
<1>2. ASSUME Len(p) <= Len(q)
      PROVE  SubSeq(q, 1, Len(p)) = [k \in 1 .. Len(p) |-> q[k]]
  BY <1>2
<1>3. p = [k \in 1 .. Len(p) |-> p[k]]
  OBVIOUS
<1> QED
  BY <1>1, <1>2, <1>3 DEF IsPrefix

-----------------------------------------------------------------------------
(* Components of paths.                                                    *)

LEMMA StartsType ==
  ASSUME NEW T, NEW path \in Seq(T)
  PROVE  Starts(path) \in SUBSET (1 .. Len(path)) /\ Starts(path) \in SUBSET Nat /\ IsFiniteSet(Starts(path))
<1>1. DOMAIN path = 1 .. Len(path) /\ Len(path) \in Nat
  OBVIOUS
<1>2. Starts(path) \in SUBSET (1 .. Len(path))
  BY <1>1 DEF Starts
<1>3. IsFiniteSet(1 .. Len(path))
  BY <1>1, FS_Interval
<1> QED
  BY <1>1, <1>2, <1>3, FS_Subset

LEMMA EndIs ==
  ASSUME NEW T, NEW path \in Seq(T), NEW i \in 1 .. Len(path)
  PROVE  /\ End(path, i) \in i .. Len(path)
         /\ Separates(path, End(path, i) + 1)
         /\ \A j \in i .. Len(path) : Separates(path, j + 1) => End(path, i) <= j
<1> DEFINE ends == {j \in i .. Len(path) : Separates(path, j + 1)}
<1>1. Len(path) \in i .. Len(path) /\ Len(path) + 1 \notin DOMAIN path
  OBVIOUS
<1>2. Len(path) \in ends
  BY <1>1 DEF Separates
<1>3. ends \in SUBSET Nat
  OBVIOUS
<1>4. Min(ends) \in ends /\ \A j \in ends : Min(ends) <= j
  BY <1>2, <1>3, Least
<1> HIDE DEF ends
<1>5. End(path, i) = Min(ends)
  BY DEF End, ends
<1> QED
  BY <1>4, <1>5 DEF ends

LEMMA ComponentsType ==
  ASSUME NEW T, NEW path \in Seq(T)
  PROVE  /\ Components(path) \in Seq(Seq(T))
         /\ Len(Components(path)) = Cardinality(Starts(path))
         /\ \A n \in 1 .. Cardinality(Starts(path)) :
              /\ Nth(Starts(path), n) \in Starts(path)
              /\ Components(path)[n]
                   = SubSeq(path, Nth(Starts(path), n), End(path, Nth(Starts(path), n)))
<1> DEFINE names == [i \in Starts(path) |-> SubSeq(path, i, End(path, i))]
<1>1. /\ Starts(path) \in SUBSET (1 .. Len(path)) /\ Starts(path) \in SUBSET Nat
      /\ IsFiniteSet(Starts(path))
  BY StartsType
<1>2. ASSUME NEW i \in Starts(path)
      PROVE  names[i] \in Seq(T)
  <2>1. i \in 1 .. Len(path) /\ End(path, i) \in i .. Len(path)
    BY <1>1, EndIs
  <2>2. i \in Nat \ {0} /\ End(path, i) \in Nat /\ End(path, i) <= Len(path)
    BY <2>1
  <2> QED
    BY <2>2, SubSeqIs
<1>3. Components(path) = Picked(names, Starts(path))
  BY DEF Components
<1>4. names = [i \in Starts(path) |-> SubSeq(path, i, End(path, i))]
  OBVIOUS
<1> HIDE DEF names
<1>5. /\ DOMAIN Picked(names, Starts(path)) = 1 .. Cardinality(Starts(path))
      /\ Len(Picked(names, Starts(path))) = Cardinality(Starts(path))
      /\ \A n \in DOMAIN Picked(names, Starts(path)) :
           /\ Nth(Starts(path), n) \in Starts(path)
           /\ Picked(names, Starts(path))[n] = names[Nth(Starts(path), n)]
      /\ Picked(names, Starts(path)) \in Seq(Seq(T))
  BY <1>1, <1>2, PickedIs
<1> QED
  BY <1>3, <1>4, <1>5

(* A path that ends at a component of another one has the first of its     *)
(* components.                                                             *)
LEMMA PrefixComponents ==
  ASSUME NEW T, NEW p \in Seq(T), NEW q \in Seq(T),
         IsPrefix(p, q), Len(p) = Len(q) \/ q[Len(p) + 1] = Slash
  PROVE  IsPrefix(Components(p), Components(q))
<1> DEFINE m == Len(p)
           n == Len(q)
<1>1. /\ m \in Nat /\ n \in Nat /\ m <= n
      /\ DOMAIN p = 1 .. m /\ DOMAIN q = 1 .. n
      /\ \A k \in 1 .. m : p[k] = q[k]
      /\ m = n \/ q[m + 1] = Slash
  BY PrefixIs
<1>2. /\ Starts(p) \in SUBSET (1 .. m) /\ Starts(p) \in SUBSET Nat /\ IsFiniteSet(Starts(p))
      /\ Starts(q) \in SUBSET (1 .. n) /\ Starts(q) \in SUBSET Nat /\ IsFiniteSet(Starts(q))
  BY StartsType
<1>3. \A i \in 1 .. m :
        /\ End(p, i) \in i .. m /\ Separates(p, End(p, i) + 1)
        /\ \A j \in i .. m : Separates(p, j + 1) => End(p, i) <= j
  BY EndIs
<1>4. \A i \in 1 .. n :
        /\ End(q, i) \in i .. n /\ Separates(q, End(q, i) + 1)
        /\ \A j \in i .. n : Separates(q, j + 1) => End(q, i) <= j
  BY EndIs
<1>5. ASSUME NEW i \in Starts(p), End(p, i) = End(q, i), End(p, i) \in Nat,
             End(p, i) <= m, End(q, i) <= n, i \in Nat \ {0}
      PROVE  /\ SubSeq(p, i, End(p, i)) = [k \in 1 .. (End(p, i) - i + 1) |-> p[i + k - 1]]
             /\ SubSeq(q, i, End(p, i)) = [k \in 1 .. (End(p, i) - i + 1) |-> q[i + k - 1]]
  BY <1>5, SubSeqIs
<1> HIDE DEF m, n
<1>6. ASSUME NEW i \in 0 .. m + 1
      PROVE  Separates(p, i) <=> Separates(q, i)
  <2>1. CASE i = 0
    BY <2>1, <1>1 DEF Separates
  <2>2. CASE i \in 1 .. m
    BY <2>2, <1>1 DEF Separates
  <2>3. CASE i = m + 1
    BY <2>3, <1>1 DEF Separates
  <2> QED
    BY <2>1, <2>2, <2>3, <1>1
<1>7. \A i \in 1 .. m : i \in Starts(p) <=> i \in Starts(q)
  <2> SUFFICES ASSUME NEW i \in 1 .. m PROVE i \in Starts(p) <=> i \in Starts(q)
    OBVIOUS
  <2>1. i \in 0 .. m + 1 /\ i - 1 \in 0 .. m + 1 /\ i \in DOMAIN p /\ i \in DOMAIN q
    BY <1>1
  <2>2. Separates(p, i) <=> Separates(q, i)
    BY <2>1, <1>6
  <2>3. Separates(p, i - 1) <=> Separates(q, i - 1)
    BY <2>1, <1>6
  <2> QED
    BY <2>1, <2>2, <2>3 DEF Starts
<1>8. Starts(p) \in SUBSET Starts(q) /\ \A r \in Starts(p), t \in Starts(q) \ Starts(p) : r < t
  <2>1. \A t \in Starts(q) \ Starts(p) : t \in Nat /\ t > m
    BY <1>1, <1>2, <1>7
  <2>2. \A r \in Starts(p) : r \in Nat /\ r <= m
    BY <1>1, <1>2
  <2>3. \A r \in Starts(p) : r \in Starts(q)
    BY <1>2, <1>7
  <2> QED
    BY <1>1, <2>1, <2>2, <2>3
<1>9. ASSUME NEW i \in Starts(p)
      PROVE  SubSeq(p, i, End(p, i)) = SubSeq(q, i, End(q, i))
  <2>1. i \in 1 .. m /\ i \in 1 .. n /\ i \in Nat \ {0}
    BY <1>1, <1>2
  <2>2. End(p, i) \in i .. m /\ End(q, i) \in i .. n
    BY <2>1, <1>3, <1>4
  <2>3. End(q, i) <= End(p, i)
    <3>1. End(p, i) + 1 \in 0 .. m + 1 /\ End(p, i) \in i .. n
      BY <2>1, <2>2, <1>1
    <3>2. Separates(q, End(p, i) + 1)
      BY <3>1, <2>1, <1>3, <1>6
    <3> QED
      BY <3>1, <3>2, <2>1, <1>4
  <2>4. End(p, i) <= End(q, i)
    <3>1. End(q, i) + 1 \in 0 .. m + 1 /\ End(q, i) \in i .. m
      BY <2>1, <2>2, <2>3, <1>1
    <3>2. Separates(p, End(q, i) + 1)
      BY <3>1, <2>1, <1>4, <1>6
    <3> QED
      BY <3>1, <3>2, <2>1, <1>3
  <2>5. /\ End(p, i) = End(q, i) /\ End(p, i) \in Nat
        /\ End(p, i) <= m /\ End(q, i) <= n
    BY <2>1, <2>2, <2>3, <2>4, <1>1
  <2>6. \A k \in 1 .. (End(p, i) - i + 1) : p[i + k - 1] = q[i + k - 1]
    <3> SUFFICES ASSUME NEW k \in 1 .. (End(p, i) - i + 1) PROVE p[i + k - 1] = q[i + k - 1]
      OBVIOUS
    <3>1. i + k - 1 \in 1 .. m
      BY <2>1, <2>5, <1>1
    <3> QED
      BY <3>1, <1>1
  <2> QED
    BY <2>1, <2>5, <2>6, <1>5
<1>10. /\ Cardinality(Starts(p)) <= Cardinality(Starts(q))
       /\ \A k \in 1 .. Cardinality(Starts(p)) : Nth(Starts(p), k) = Nth(Starts(q), k)
  BY <1>2, <1>8, NthBegins
<1>11. Cardinality(Starts(p)) \in Nat /\ Cardinality(Starts(q)) \in Nat
  BY <1>2, FS_CardinalityType
<1>12. /\ Components(p) \in Seq(Seq(T)) /\ Components(q) \in Seq(Seq(T))
       /\ Len(Components(p)) = Cardinality(Starts(p)) /\ Len(Components(q)) = Cardinality(Starts(q))
  BY ComponentsType
<1>13. ASSUME NEW k \in 1 .. Cardinality(Starts(p))
       PROVE  Components(p)[k] = Components(q)[k]
  <2> DEFINE i == Nth(Starts(p), k)
  <2>1. i \in Starts(p) /\ Components(p)[k] = SubSeq(p, i, End(p, i))
    BY ComponentsType
  <2>2. k \in 1 .. Cardinality(Starts(q)) /\ i = Nth(Starts(q), k)
    BY <1>10, <1>11
  <2>3. Components(q)[k] = SubSeq(q, i, End(q, i))
    BY <2>2, ComponentsType
  <2> QED
    BY <2>1, <2>3, <1>9
<1> QED
  BY <1>10, <1>12, <1>13, PrefixIs

-----------------------------------------------------------------------------
(* The configuration.                                                      *)

(* Both computations of an expiry agree, whatever the headers say and      *)
(* however the numbers wrap, up to the last second that an i64 can tell    *)
(* (is_fresh and time_until_expiry).                                       *)
THEOREM FreshnessAgrees ==
  ASSUME NEW life \in Lifetime, NEW cachedAt \in Nat, NEW now \in 0 .. Wrap - 2,
         NEW maxAge \in 0 .. 2 * Wrap - 1
  PROVE  TimeLeft(life, cachedAt, now, maxAge) > 0 <=> IsFresh(life, cachedAt, now, maxAge)
<1>1. Wrap \in Nat \ {0} /\ now \in Nat /\ now < Wrap - 1
  BY FreshnessAssumption
<1>2. ASSUME NEW secs \in 0 .. 2 * Wrap - 1
      PROVE  AtLeastZero(Saturating(cachedAt + Signed(secs)) - now) > 0
               <=> now - cachedAt < Signed(secs)
  <2>1. Signed(secs) \in Int
    BY <1>1 DEF Signed
  <2>2. CASE cachedAt + Signed(secs) < Wrap
    BY <2>1, <2>2, <1>1 DEF Saturating, AtLeastZero
  <2>3. CASE ~(cachedAt + Signed(secs) < Wrap)
    BY <2>1, <2>3, <1>1 DEF Saturating, AtLeastZero
  <2> QED
    BY <2>2, <2>3
<1>3. CASE ~Dated(cachedAt, now)
  BY <1>3 DEF TimeLeft, IsFresh
<1>4. CASE Dated(cachedAt, now) /\ life \in [kind : {"age"}, secs : 0 .. 2 * Wrap - 1]
  <2>1. life.kind = "age" /\ life.secs \in 0 .. 2 * Wrap - 1
    BY <1>4
  <2> QED
    BY <2>1, <1>2, <1>4 DEF TimeLeft, IsFresh
<1>5. CASE Dated(cachedAt, now) /\ life \in [kind : {"until"}, date : Nat]
  <2>1. life.kind = "until" /\ life.date \in Nat
    BY <1>5
  <2>2. AtLeastZero(life.date - now) > 0 <=> now < life.date
    BY <2>1, <1>1 DEF AtLeastZero
  <2> QED
    BY <2>1, <2>2, <1>5 DEF TimeLeft, IsFresh
<1>6. CASE Dated(cachedAt, now) /\ life \in [kind : {"never", "unsaid"}]
  <2>1. CASE life.kind = "unsaid" /\ maxAge > 0
    BY <2>1, <1>2, <1>6 DEF TimeLeft, IsFresh
  <2>2. CASE ~(life.kind = "unsaid" /\ maxAge > 0)
    <3>1. life.kind \in {"never", "unsaid"}
      BY <1>6
    <3>2. TimeLeft(life, cachedAt, now, maxAge) = 0
      BY <2>2, <3>1, <1>6 DEF TimeLeft
    <3> QED
      BY <2>2, <3>1, <3>2 DEF IsFresh
  <2> QED
    BY <2>1, <2>2
<1> QED
  BY <1>3, <1>4, <1>5, <1>6 DEF Lifetime

(* A file is found where it is, or there is none.                          *)
LEMMA Discovered ==
  ASSUME NEW files, files \in Seq(Range(files)), \A f \in Range(files) : TypedFile(f)
  PROVE  TypedFile(Discover(files))
<1> DEFINE found == {i \in 1 .. Len(files) : files[i] # NoFile}
<1>1. CASE found = {}
  BY <1>1 DEF Discover, SelectInSeq, TypedFile
<1>2. CASE found # {}
  <2>1. found \in SUBSET Nat
    OBVIOUS
  <2>2. Min(found) \in found
    BY <1>2, <2>1, Least
  <2> HIDE DEF found
  <2>3. SelectInSeq(files, LAMBDA f : f # NoFile) = Min(found)
    BY <1>2 DEF SelectInSeq, found
  <2>4. Min(found) \in 1 .. Len(files) /\ Min(found) # 0
    BY <2>2 DEF found
  <2>5. Discover(files) = files[Min(found)]
    BY <2>3, <2>4 DEF Discover
  <2>6. files[Min(found)] \in Range(files)
    BY <2>4
  <2> QED
    BY <2>5, <2>6
<1> QED
  BY <1>1, <1>2

LEMMA DefaultsTyped ==
  /\ Default["url_map"] = <<>> /\ Default["max_cache_age"] = DefaultAge
  /\ <<>> \in Seq(UrlMap) /\ DefaultAge \in 0 .. 2 * Wrap - 1
BY AdminAssumption, FreshnessAssumption DEF Default, Keys, DefaultAge

\* What the server loads has its types.
LEMMA LoadTyped ==
  ASSUME NEW s \in Sites, Loads(s)
  PROVE  /\ TypedOptions(Load(s))
         /\ Load(s)["url_map"] \in Seq(UrlMap) /\ Load(s)["max_cache_age"] \in 0 .. 2 * Wrap - 1
<1>1. /\ TypedOptions(s.flags) /\ TypedOptions(s.env) /\ TypedFile(s.explicit)
      /\ TypedFile(Discover(s.files))
  BY AdminAssumption, Discovered
<1>2. {"url_map", "max_cache_age"} \subseteq Keys
  BY DEF Keys
<1>3. CASE ConfigFile(s) = NoFile
  BY <1>1, <1>2, <1>3, DefaultsTyped DEF Load, Parsed, TypedOptions, Set
<1>4. CASE ConfigFile(s) # NoFile
  <2>1. TypedOptions(ConfigFile(s))
    BY <1>1, <1>4 DEF ConfigFile, TypedFile, Loads
  <2>2. Load(s) = Parsed(s.flags, Bridge(ConfigFile(s), s.env))
    BY <1>4 DEF Load
  <2>3. TypedOptions(Bridge(ConfigFile(s), s.env))
    BY <1>1, <1>2, <2>1 DEF Bridge, TypedOptions, Set
  <2> QED
    BY <1>1, <1>2, <2>2, <2>3, DefaultsTyped DEF Parsed, TypedOptions, Set
<1> QED
  BY <1>3, <1>4

\* So have the maps that blitzctl works with.
LEMMA MapsTyped ==
  ASSUME NEW s \in Sites
  PROVE  LoadUrlMaps(s) \in Seq(UrlMap)
<1>1. TypedOptions(s.env) /\ TypedFile(Discover(s.files))
  BY AdminAssumption, Discovered
<1> QED
  BY <1>1, DefaultsTyped DEF LoadUrlMaps, FirstSet, FromFile, TypedFile, TypedOptions, Set

(* What blitzctl reads is what the server loaded, from wherever: the       *)
(* environment, the discovered file or the defaults.                       *)
LEMMA SameOptions ==
  ASSUME NEW s \in Sites, Loads(s), s.explicit = NoFile
  PROVE  /\ ~Set(s.flags["url_map"]) => LoadUrlMaps(s) = Load(s)["url_map"]
         /\ ~Set(s.flags["max_cache_age"]) => MaxCacheAgeOnly(s) = Load(s)["max_cache_age"]
<1>1. {"url_map", "max_cache_age"} \subseteq Keys
  BY DEF Keys
<1>2. ConfigFile(s) = Discover(s.files) /\ Discover(s.files) # Unreadable
  BY DEF ConfigFile, Loads
<1>3. ~Set(Unset)
  BY DEF Set
<1>4. ASSUME NEW k \in {"url_map", "max_cache_age"}, ~Set(s.flags[k])
      PROVE  Load(s)[k] = FirstSet(s.env[k], FromFile(s, k), Default[k])
  <2>1. CASE Discover(s.files) = NoFile
    BY <1>1, <1>2, <1>3, <1>4, <2>1 DEF Load, Parsed, FirstSet, FromFile
  <2>2. CASE Discover(s.files) # NoFile
    <3>1. Bridge(Discover(s.files), s.env)[k]
            = IF Set(s.env[k]) THEN s.env[k] ELSE Discover(s.files)[k]
      BY <1>1, <1>4 DEF Bridge
    <3>2. FromFile(s, k) = Discover(s.files)[k]
      BY <1>2, <2>2 DEF FromFile
    <3>3. Load(s) = Parsed(s.flags, Bridge(Discover(s.files), s.env))
      BY <1>2, <2>2 DEF Load
    <3> QED
      BY <1>1, <1>4, <3>1, <3>2, <3>3 DEF Parsed, FirstSet
  <2> QED
    BY <2>1, <2>2
<1>5. ParsesMaps(Load(s)["url_map"])
  BY DEF Loads
<1> QED
  BY <1>4, <1>5, DefaultsTyped DEF LoadUrlMaps, MaxCacheAgeOnly

-----------------------------------------------------------------------------
(* URL maps.                                                               *)

LEMMA MappingIs ==
  ASSUME NEW maps \in Seq(UrlMap), NEW url
  PROVE  /\ Mapping(url, maps) \in 0 .. Len(maps)
         /\ Mapping(url, maps) # 0 => /\ url.scheme \in {"http", "ftp"}
                                      /\ maps[Mapping(url, maps)].fake = url.host
<1> DEFINE found == {i \in 1 .. Len(maps) : url.scheme \in {"http", "ftp"} /\ maps[i].fake = url.host}
<1>1. Mapping(url, maps) = IF found # {} THEN Min(found) ELSE 0
  BY DEF Mapping, SelectInSeq
<1>2. found \in SUBSET Nat
  OBVIOUS
<1>3. found # {} => Min(found) \in found
  BY <1>2, Least
<1> QED
  BY <1>1, <1>3

LEMMA ResolveTyped ==
  ASSUME NEW maps \in Seq(UrlMap), NEW url \in Location, Rooted(url)
  PROVE  Rooted(Resolve(url, maps))
<1>1. Mapping(url, maps) \in 0 .. Len(maps)
  BY MappingIs
<1>2. CASE Mapping(url, maps) = 0
  BY <1>2 DEF Resolve
<1>3. CASE Mapping(url, maps) # 0
  <2> DEFINE base == maps[Mapping(url, maps)].base
             p == base.path
             q == url.path
  <2>1. maps[Mapping(url, maps)] \in UrlMap
    BY <1>1, <1>3
  <2>2. base \in Location /\ Rooted(base)
    BY <2>1 DEF UrlMap
  <2> HIDE DEF base
  <2>3. /\ p \in Seq(STRING) /\ q \in Seq(STRING)
        /\ p # <<>> => p[1] = Slash
        /\ q # <<>> => q[1] = Slash
    BY <2>2 DEF Location, Rooted
  <2>4. [base EXCEPT !.path = @ \o q] \in Location /\ [base EXCEPT !.path = @ \o q].path = p \o q
    <3>1. p \o q \in Seq(STRING)
      BY <2>3
    <3> QED
      BY <2>2, <3>1 DEF Location
  <2> HIDE DEF p, q
  <2>5. p \o q # <<>> => (p \o q)[1] = Slash
    <3>1. CASE p = <<>>
      BY <2>3, <3>1
    <3>2. CASE p # <<>>
      BY <2>3, <3>2
    <3> QED
      BY <3>1, <3>2
  <2> QED
    BY <1>3, <2>4, <2>5 DEF Resolve, Rooted, base, q
<1> QED
  BY <1>2, <1>3

\* The map that is taken back, and what is left of a path.
LEMMA ReverseIs ==
  ASSUME NEW maps \in Seq(UrlMap), NEW url \in Location
  PROVE  \/ /\ \A i \in 1 .. Len(maps) : ~UnderBase(url, maps[i].base)
            /\ ReverseResolve(url, maps) = HostAndPath(url)
         \/ \E i \in 1 .. Len(maps) :
              /\ UnderBase(url, maps[i].base)
              /\ ReverseResolve(url, maps)
                   = [host |-> maps[i].fake, path |-> After(url.path, maps[i].base.path)]
<1> DEFINE found == {i \in 1 .. Len(maps) : UnderBase(url, maps[i].base)}
           first == SelectInSeq(maps, LAMBDA m : UnderBase(url, m.base))
<1>1. first = IF found # {} THEN Min(found) ELSE 0
  BY DEF SelectInSeq
<1>2. ReverseResolve(url, maps)
        = IF first = 0 THEN HostAndPath(url)
          ELSE [host |-> maps[first].fake, path |-> After(url.path, maps[first].base.path)]
  BY DEF ReverseResolve
<1> HIDE DEF first
<1>3. found \in SUBSET Nat
  OBVIOUS
<1>4. CASE found = {}
  BY <1>1, <1>2, <1>4
<1>5. CASE found # {}
  <2>1. Min(found) \in found
    BY <1>3, <1>5, Least
  <2>2. first \in found
    BY <1>1, <1>5, <2>1
  <2>3. first \in 1 .. Len(maps) /\ first # 0 /\ UnderBase(url, maps[first].base)
    BY <2>2
  <2> QED
    BY <1>2, <2>3
<1> QED
  BY <1>4, <1>5

\* What paths are made of; a Slash is a string, but the provers do not say so.
Token == STRING \cup {Slash}

LEMMA ShownTyped ==
  ASSUME NEW maps \in Seq(UrlMap), NEW url \in Location, NEW host
  PROVE  Shown(url, host, maps).path \in Seq(Token)
<1>1. url.path \in Seq(Token)
  <2>1. url.path \in Seq(STRING)
    BY DEF Location
  <2> QED
    BY <2>1 DEF Token
<1>2. HostAndPath(url).path \in Seq(Token)
  <2>1. <<Slash>> \in Seq(Token)
    BY DEF Token
  <2> QED
    BY <1>1, <2>1 DEF HostAndPath
<1>3. ASSUME NEW i \in 1 .. Len(maps), UnderBase(url, maps[i].base)
      PROVE  After(url.path, maps[i].base.path) \in Seq(Token)
  <2>1. maps[i] \in UrlMap
    OBVIOUS
  <2>2. maps[i].base.path \in Seq(STRING)
    BY <2>1 DEF UrlMap, Location
  <2>3. Len(maps[i].base.path) + 1 \in Nat \ {0} /\ Len(url.path) \in Nat
    BY <1>1, <2>2
  <2> QED
    BY <1>1, <2>3, SubSeqIs DEF After, From
<1>4. ReverseResolve(url, maps).path \in Seq(Token)
  BY <1>2, <1>3, ReverseIs
<1> QED
  BY <1>2, <1>4 DEF Shown

-----------------------------------------------------------------------------
(* The invariant.                                                          *)

AdminInv ==
  /\ AdminTypeOK
  /\ Running => Loads(loaded) /\ serving = Load(loaded)

LEMMA SomeRows ==
  ASSUME AdminTypeOK, NEW kept \in SUBSET DOMAIN rows
  PROVE  Picked(rows, kept) \in Seq(Row)
<1>1. rows \in Seq(Row)
  BY DEF AdminTypeOK
<1>2. Len(rows) \in Nat /\ DOMAIN rows = 1 .. Len(rows)
  BY <1>1
<1>3. kept \in SUBSET (1 .. Len(rows))
  BY <1>2
<1>4. kept \in SUBSET Nat /\ IsFiniteSet(kept)
  <2>1. IsFiniteSet(1 .. Len(rows))
    BY <1>2, FS_Interval
  <2>2. 1 .. Len(rows) \in SUBSET Nat
    OBVIOUS
  <2> QED
    BY <1>3, <2>1, <2>2, FS_Subset
<1>5. \A i \in kept : rows[i] \in Row
  BY <1>1, <1>3
<1> QED
  BY <1>4, <1>5, PickedIs

LEMMA StoreTyped ==
  ASSUME AdminInv, Running, NEW f \in Files, Store(f)
  PROVE  AdminInv'
<1>1. loaded \in Sites /\ Loads(loaded) /\ serving = Load(loaded)
  BY DEF AdminInv, AdminTypeOK, Running
<1>2. f.asked \in Location /\ Rooted(f.asked) /\ f.size \in Nat
  BY AdminAssumption DEF Rooted
<1> DEFINE url == Resolve(f.asked, serving["url_map"])
           row == [asked |-> f.asked, url |-> url, size |-> f.size]
           kept == {i \in DOMAIN rows : rows[i].url # url}
<1>3. Rooted(url) /\ url \in Location
  BY <1>1, <1>2, LoadTyped, ResolveTyped DEF Rooted
<1>4. row \in Row
  BY <1>2, <1>3 DEF Row
<1>5. rows' = Append(Picked(rows, kept), row)
  BY DEF Store
<1>6. Picked(rows, kept) \in Seq(Row)
  BY SomeRows DEF AdminInv
<1>7. UNCHANGED <<site, loaded, serving>>
  BY DEF Store
<1> HIDE DEF url, row, kept
<1>8. rows' \in Seq(Row)
  BY <1>4, <1>5, <1>6
<1> QED
  BY <1>7, <1>8 DEF AdminInv, AdminTypeOK, Running

LEMMA RmTyped ==
  ASSUME AdminInv, NEW s \in Selectors, Rm(s)
  PROVE  AdminInv'
<1> DEFINE kept == {i \in DOMAIN rows : ~Removes(rows[i], s.host, s.path, LoadUrlMaps(site))}
<1>1. rows' = Picked(rows, kept)
  BY DEF Rm
<1>2. Picked(rows, kept) \in Seq(Row)
  BY SomeRows DEF AdminInv
<1>3. UNCHANGED <<site, loaded, serving>>
  BY DEF Rm
<1> QED
  BY <1>1, <1>2, <1>3 DEF AdminInv, AdminTypeOK, Running

(* The server keeps what it loaded, and rows are of URLs (Config::load,    *)
(* store, cmd_rm).                                                         *)
THEOREM AdminInvariant == AdminSpec => []AdminInv
<1>1. AdminInit => AdminInv
  BY DEF AdminInit, AdminInv, AdminTypeOK, Running, Range
<1>2. ASSUME AdminInv, [AdminNext]_adminVars
      PROVE  AdminInv'
  <2>1. CASE Configure
    BY <1>2, <2>1 DEF Configure, AdminInv, AdminTypeOK, Running
  <2>2. CASE Start
    <3>1. site \in Sites /\ Loads(site)
      BY <1>2, <2>2 DEF Start, AdminInv, AdminTypeOK
    <3>2. TypedOptions(Load(site))
      BY <3>1, LoadTyped
    <3> QED
      BY <1>2, <2>2, <3>1, <3>2 DEF Start, AdminInv, AdminTypeOK, Running
  <2>3. CASE Stop
    BY <1>2, <2>3 DEF Stop, AdminInv, AdminTypeOK, Running
  <2>4. CASE RmAll
    BY <1>2, <2>4 DEF RmAll, AdminInv, AdminTypeOK, Running, Range
  <2>5. CASE Running /\ \E f \in Files : Store(f)
    BY <1>2, <2>5, StoreTyped
  <2>6. CASE \E s \in Selectors : Rm(s)
    BY <1>2, <2>6, RmTyped
  <2>7. CASE UNCHANGED adminVars
    BY <1>2, <2>7 DEF adminVars, AdminInv, AdminTypeOK, Running
  <2> QED
    BY <1>2, <2>1, <2>2, <2>3, <2>4, <2>5, <2>6, <2>7 DEF AdminNext
<1> QED
  BY <1>1, <1>2, PTL DEF AdminSpec

-----------------------------------------------------------------------------
(* What the runs check.                                                    *)

(* blitzctl works with the maps of the server and shows as fresh what the  *)
(* server serves (load_url_maps, max_cache_age_only, time_until_expiry).   *)
THEOREM CtlAlwaysFollowsServer == AdminSpec => []CtlFollowsServer
<1>1. ASSUME AdminInv, Running, loaded = site, site.explicit = NoFile
      PROVE  /\ ~Set(site.flags["url_map"]) => Maps = serving["url_map"]
             /\ ~Set(site.flags["max_cache_age"]) =>
                  MaxCacheAgeOnly(site) = serving["max_cache_age"]
             /\ serving["max_cache_age"] \in 0 .. 2 * Wrap - 1
  BY <1>1, SameOptions, LoadTyped DEF AdminInv, AdminTypeOK, Maps
<1>2. DefaultAge + 1 <= Wrap - 2 /\ DefaultAge \in Nat /\ Wrap \in Nat
  BY AdminAssumption, FreshnessAssumption DEF DefaultAge
<1>3. ASSUME NEW life \in {[kind |-> "unsaid"], [kind |-> "age", secs |-> 2],
                           [kind |-> "age", secs |-> Wrap], [kind |-> "until", date |-> 3]}
      PROVE  life \in Lifetime
  <2>1. 2 \in 0 .. 2 * Wrap - 1 /\ Wrap \in 0 .. 2 * Wrap - 1
    BY <1>2 DEF DefaultAge
  <2> QED
    BY <1>3, <2>1 DEF Lifetime
<1>4. \A cachedAt, now \in 0 .. DefaultAge + 1 : cachedAt \in Nat /\ now \in 0 .. Wrap - 2
  BY <1>2
<1>5. AdminInv => CtlFollowsServer
  BY <1>1, <1>3, <1>4, FreshnessAgrees DEF CtlFollowsServer
<1> QED
  BY <1>5, AdminInvariant, PTL

LEMMA BehindHosts ==
  ASSUME NEW T, NEW p \in Seq(T), NEW q \in Seq(T), NEW h \in T, NEW g \in T,
         IsPrefix(<<h>> \o p, <<g>> \o q)
  PROVE  IsPrefix(p, q)
<1> DEFINE hp == <<h>> \o p
           gq == <<g>> \o q
<1>1. /\ hp \in Seq(T) /\ gq \in Seq(T)
      /\ Len(hp) = Len(p) + 1 /\ Len(gq) = Len(q) + 1
      /\ Len(p) \in Nat /\ Len(q) \in Nat
  OBVIOUS
<1>2. (\A k \in 1 .. Len(p) : hp[k + 1] = p[k]) /\ (\A k \in 1 .. Len(q) : gq[k + 1] = q[k])
  OBVIOUS
<1>3. IsPrefix(hp, gq)
  OBVIOUS
<1> HIDE DEF hp, gq
<1>4. Len(hp) <= Len(gq) /\ \A k \in 1 .. Len(hp) : hp[k] = gq[k]
  BY <1>1, <1>3, PrefixIs
<1>5. Len(p) <= Len(q) /\ \A k \in 1 .. Len(p) : k + 1 \in 1 .. Len(hp) /\ k \in 1 .. Len(q)
  BY <1>1, <1>4
<1>6. \A k \in 1 .. Len(p) : p[k] = q[k]
  BY <1>2, <1>4, <1>5
<1> QED
  BY <1>5, <1>6, PrefixIs

\* What ls shows of a selector, rm would have removed.
LEMMA ScopeIsRemoved ==
  ASSUME NEW maps \in Seq(UrlMap), NEW r \in Row, NEW s \in Selectors,
         InScope(r, s.host, s.path, maps)
  PROVE  Removes(r, s.host, s.path, maps)
<1> DEFINE shown == Shown(r.url, s.host, maps)
           T == Token \cup {s.host, shown.host}
           base == <<s.host>> \o s.path
           root == <<shown.host>> \o shown.path
           below == Append(base, Slash)
<1>1. s.path \in Seq(T) /\ shown.path \in Seq(T)
  <2>1. s.path \in Seq(STRING)
    BY AdminAssumption
  <2>2. r.url \in Location
    BY DEF Row
  <2>3. shown.path \in Seq(Token)
    BY <2>2, ShownTyped
  <2> HIDE DEF shown
  <2> QED
    BY <2>1, <2>3 DEF Token
<1>2. HostMatches(r.url, s.host, maps)
  BY DEF InScope
<1>3. s.path = <<>> \/ root = base \/ IsPrefix(below, root)
  BY DEF InScope, Root
<1>4. s.host \in T /\ shown.host \in T /\ Slash \in T
  BY DEF Token
<1> HIDE DEF shown, T
<1>5. base \in Seq(T) /\ root \in Seq(T) /\ below \in Seq(T)
  BY <1>1, <1>4
<1>6. /\ Len(below) = Len(base) + 1 /\ Len(base) \in Nat
      /\ \A k \in 1 .. Len(base) : below[k] = base[k]
  BY <1>5
<1> HIDE DEF base, root, below
<1>8. ASSUME IsPrefix(base, root)
      PROVE  IsPrefix(s.path, shown.path)
  BY <1>1, <1>4, <1>8, BehindHosts DEF base, root
<1>9. CASE root = base
  <2>1. IsPrefix(base, root)
    BY <1>5, <1>9, PrefixIs
  <2> QED
    BY <1>2, <1>8, <2>1 DEF Removes, shown
<1>10. CASE IsPrefix(below, root)
  <2>1. /\ Len(below) <= Len(root) /\ Len(root) \in Nat
        /\ \A k \in 1 .. Len(below) : below[k] = root[k]
    BY <1>5, <1>10, PrefixIs
  <2>2. Len(base) <= Len(root) /\ \A k \in 1 .. Len(base) : k \in 1 .. Len(below)
    BY <1>6, <2>1
  <2>3. \A k \in 1 .. Len(base) : base[k] = root[k]
    BY <1>6, <2>1, <2>2
  <2>4. IsPrefix(base, root)
    BY <1>5, <2>2, <2>3, PrefixIs
  <2> QED
    BY <1>2, <1>8, <2>4 DEF Removes, shown
<1>11. s.path = <<>> => IsPrefix(s.path, shown.path)
  <2>1. s.path = <<>> => Len(s.path) = 0
    OBVIOUS
  <2>2. Len(shown.path) \in Nat
    BY <1>1
  <2>3. Len(s.path) = 0 => IsPrefix(s.path, shown.path)
    BY <1>1, <2>2, PrefixIs
  <2> QED
    BY <2>1, <2>3
<1> QED
  BY <1>2, <1>3, <1>9, <1>10, <1>11 DEF Removes, shown

(* What rm removes by a selector, ls does not show under the same one      *)
(* (cmd_rm, cmd_ls).                                                       *)
THEOREM RemovedAlwaysGone == AdminSpec => RemovedIsGone
<1>1. ASSUME AdminInv, NEW s \in Selectors, Rm(s), NEW r \in Range(rows')
      PROVE  ~InScope(r, s.host, s.path, Maps)
  <2> DEFINE kept == {i \in DOMAIN rows : ~Removes(rows[i], s.host, s.path, LoadUrlMaps(site))}
  <2>1. rows \in Seq(Row) /\ site \in Sites
    BY <1>1 DEF AdminInv, AdminTypeOK
  <2>2. rows' = Picked(rows, kept)
    BY <1>1 DEF Rm
  <2>3. kept \in SUBSET Nat /\ IsFiniteSet(kept) /\ \A i \in kept : rows[i] \in Row
    <3>1. kept \in SUBSET (1 .. Len(rows)) /\ 1 .. Len(rows) \in SUBSET Nat /\ Len(rows) \in Nat
      BY <2>1
    <3>2. IsFiniteSet(1 .. Len(rows))
      BY <3>1, FS_Interval
    <3> QED
      BY <2>1, <3>1, <3>2, FS_Subset
  <2>4. PICK n \in DOMAIN rows' : r = rows'[n]
    BY <1>1 DEF Range
  <2> HIDE DEF kept
  <2>5. PICK i \in kept : r = rows[i]
    BY <2>2, <2>3, <2>4, PickedIs
  <2>6. ~Removes(r, s.host, s.path, LoadUrlMaps(site))
    BY <2>5 DEF kept
  <2>7. LoadUrlMaps(site) \in Seq(UrlMap)
    BY <2>1, MapsTyped
  <2> QED
    BY <2>3, <2>5, <2>6, <2>7, ScopeIsRemoved DEF Maps
<1>2. AdminInv => [\A s \in Selectors : Rm(s) =>
                     \A r \in Range(rows') : ~InScope(r, s.host, s.path, Maps)]_adminVars
  BY <1>1
<1> QED
  BY <1>2, AdminInvariant, PTL DEF RemovedIsGone

\* Of two bases that a URL is under, the shorter one holds the other.
LEMMA BaseInBase ==
  ASSUME NEW url \in Location, NEW a \in Location, NEW b \in Location,
         UnderBase(url, a), UnderBase(url, b), Len(a.path) <= Len(b.path)
  PROVE  a.host = b.host /\ IsPrefix(Components(a.path), Components(b.path))
<1> DEFINE p == a.path
           q == b.path
           u == url.path
           m == Len(p)
<1>1. /\ p \in Seq(STRING) /\ q \in Seq(STRING) /\ u \in Seq(STRING)
      /\ m \in Nat /\ Len(q) \in Nat /\ Len(u) \in Nat
      /\ m <= Len(q)
  BY DEF Location
<1>2. /\ IsPrefix(p, u) /\ IsPrefix(q, u) /\ a.host = b.host
      /\ LET rest == After(u, p) IN rest = <<>> \/ rest[1] = Slash
  BY DEF UnderBase
<1> HIDE DEF p, q, u
<1>3. /\ m <= Len(u) /\ \A k \in 1 .. m : p[k] = u[k]
      /\ Len(q) <= Len(u) /\ \A k \in 1 .. Len(q) : q[k] = u[k]
  BY <1>1, <1>2, PrefixIs
<1>4. IsPrefix(p, q)
  <2>1. \A k \in 1 .. m : p[k] = q[k]
    BY <1>1, <1>3
  <2> QED
    BY <1>1, <2>1, PrefixIs
<1>5. ASSUME m # Len(q)
      PROVE  q[m + 1] = Slash
  <2>1. /\ After(u, p) = [k \in 1 .. (Len(u) - (m + 1) + 1) |-> u[m + 1 + k - 1]]
        /\ Len(After(u, p)) = IF m + 1 <= Len(u) THEN Len(u) - (m + 1) + 1 ELSE 0
    BY <1>1, SubSeqIs DEF After, From
  <2>2. m + 1 \in 1 .. Len(q) /\ m + 1 <= Len(u)
    BY <1>1, <1>3, <1>5
  <2>3. After(u, p)[1] = u[m + 1]
    BY <1>1, <2>1, <2>2
  <2>4. After(u, p) # <<>>
    <3>1. Len(After(u, p)) # 0
      BY <1>1, <2>1, <2>2
    <3> QED
      BY <3>1
  <2> QED
    BY <1>2, <1>3, <2>2, <2>3, <2>4
<1>6. IsPrefix(Components(p), Components(q))
  BY <1>1, <1>4, <1>5, PrefixComponents
<1> QED
  BY <1>2, <1>6 DEF p, q

\* What a base is followed by is left behind it.
LEMMA BehindBase ==
  ASSUME NEW base \in Location, NEW asked \in Location, Rooted(asked),
         NEW url, url = [base EXCEPT !.path = @ \o asked.path]
  PROVE  UnderBase(url, base) /\ After(url.path, base.path) = asked.path
<1> DEFINE p == base.path
           q == asked.path
           u == p \o q
           m == Len(p)
<1>1. /\ p \in Seq(STRING) /\ q \in Seq(STRING) /\ u \in Seq(STRING)
      /\ m \in Nat /\ Len(q) \in Nat /\ Len(u) = m + Len(q)
  BY DEF Location
<1>2. url.scheme = base.scheme /\ url.host = base.host /\ url.path = u
  BY DEF Location
<1>3. q # <<>> => q[1] = Slash
  BY DEF Rooted
<1> HIDE DEF p, q
<1>4. (\A k \in 1 .. m : u[k] = p[k]) /\ (\A k \in 1 .. Len(q) : u[m + k] = q[k])
  BY <1>1, ConcatIs
<1> HIDE DEF u, m
<1>5. IsPrefix(p, u)
  BY <1>1, <1>4, PrefixIs DEF m
<1>6. After(u, p) = q
  <2>1. /\ SubSeq(u, m + 1, Len(u)) = [k \in 1 .. (Len(u) - (m + 1) + 1) |-> u[m + 1 + k - 1]]
    BY <1>1, SubSeqIs
  <2>2. Len(u) - (m + 1) + 1 = Len(q)
    BY <1>1
  <2>3. \A k \in 1 .. Len(q) : u[m + 1 + k - 1] = q[k]
    BY <1>1, <1>4
  <2>4. q = [k \in 1 .. Len(q) |-> q[k]]
    BY <1>1
  <2>5. SubSeq(u, m + 1, Len(u)) = q
    BY <2>1, <2>2, <2>3, <2>4
  <2> QED
    BY <2>5 DEF After, From, m
<1> QED
  BY <1>2, <1>3, <1>5, <1>6 DEF UnderBase, p, q

(* An entry is shown as it was asked for: of maps that do not overlap, the *)
(* one that is taken back is the one that led to it (resolve_url,          *)
(* reverse_resolve).                                                       *)
THEOREM AliasAlwaysShown == AdminSpec => []AliasIsShown
<1>1. ASSUME AdminInv, Apart(Maps), NEW r \in Range(rows),
             Mapping(r.asked, Maps) # 0, Resolve(r.asked, Maps) = r.url
      PROVE  ReverseResolve(r.url, Maps) = [host |-> r.asked.host, path |-> r.asked.path]
  <2> DEFINE i == Mapping(r.asked, Maps)
  <2>1. Maps \in Seq(UrlMap)
    BY <1>1, MapsTyped DEF AdminInv, AdminTypeOK, Maps
  <2>2. r \in Row
    BY <1>1 DEF AdminInv, AdminTypeOK, Range
  <2>3. r.asked \in Location /\ r.url \in Location /\ Rooted(r.asked)
    BY <2>2 DEF Row
  <2>4. i \in 1 .. Len(Maps) /\ Maps[i].fake = r.asked.host
    BY <1>1, <2>1, MappingIs
  <2>5. r.url = [Maps[i].base EXCEPT !.path = @ \o r.asked.path]
    BY <1>1 DEF Resolve
  <2> HIDE DEF i
  <2>6. \A j \in 1 .. Len(Maps) : Maps[j].base \in Location
    <3>1. \A j \in 1 .. Len(Maps) : Maps[j] \in UrlMap
      BY <2>1
    <3> QED
      BY <3>1 DEF UrlMap
  <2>7. UnderBase(r.url, Maps[i].base) /\ After(r.url.path, Maps[i].base.path) = r.asked.path
    BY <2>3, <2>4, <2>5, <2>6, BehindBase
  <2>8. ASSUME NEW j \in 1 .. Len(Maps), UnderBase(r.url, Maps[j].base)
        PROVE  j = i
    <3> DEFINE a == Maps[i].base
               b == Maps[j].base
    <3>1. a \in Location /\ b \in Location
      BY <2>4, <2>6
    <3>2. i # j => ~(a.host = b.host /\ IsPrefix(Components(a.path), Components(b.path)))
      BY <1>1, <2>1, <2>4 DEF Apart
    <3>3. i # j => ~(b.host = a.host /\ IsPrefix(Components(b.path), Components(a.path)))
      BY <1>1, <2>1, <2>4 DEF Apart
    <3>4. Len(a.path) \in Nat /\ Len(b.path) \in Nat
      BY <3>1 DEF Location
    <3>5. UnderBase(r.url, a) /\ UnderBase(r.url, b)
      BY <2>7, <2>8
    <3> HIDE DEF a, b
    <3> QED
      BY <2>3, <3>1, <3>2, <3>3, <3>4, <3>5, BaseInBase
  <2> QED
    BY <2>1, <2>3, <2>4, <2>7, <2>8, ReverseIs
<1>2. AdminInv => AliasIsShown
  BY <1>1 DEF AliasIsShown
<1> QED
  BY <1>2, AdminInvariant, PTL

-----------------------------------------------------------------------------
(* The names that entries go by.                                           *)

\* What trim_start_matches leaves begins with something else.
LEMMA TrimStartIs ==
  ASSUME NEW T, NEW s \in Seq(T), TrimStart(s) # <<>>
  PROVE  \E i \in 1 .. Len(s) : /\ s[i] # Slash /\ TrimStart(s) = SubSeq(s, i, Len(s))
                                /\ \A k \in 1 .. Len(s) : k < i => s[k] = Slash
<1> DEFINE others == {k \in 1 .. Len(s) : s[k] # Slash}
           first == SelectInSeq(s, LAMBDA t : t # Slash)
<1>1. first = IF others # {} THEN Min(others) ELSE 0
  BY DEF SelectInSeq
<1>2. TrimStart(s) = IF first = 0 THEN <<>> ELSE SubSeq(s, first, Len(s))
  BY DEF TrimStart, From
<1> HIDE DEF first
<1>3. others # {} /\ first # 0
  BY <1>1, <1>2
<1>4. others \in SUBSET Nat
  OBVIOUS
<1>5. first \in others /\ \A k \in others : first <= k
  BY <1>1, <1>3, <1>4, Least
<1>6. first \in 1 .. Len(s) /\ s[first] # Slash
  BY <1>5
<1>7. \A k \in 1 .. Len(s) : k < first => s[k] = Slash
  BY <1>5, <1>6
<1> QED
  BY <1>2, <1>3, <1>6, <1>7

LEMMA TrimStartKeeps ==
  ASSUME NEW T, NEW s \in Seq(T), s # <<>>, s[1] # Slash
  PROVE  TrimStart(s) = s
<1> DEFINE others == {k \in 1 .. Len(s) : s[k] # Slash}
           first == SelectInSeq(s, LAMBDA t : t # Slash)
<1>1. first = IF others # {} THEN Min(others) ELSE 0
  BY DEF SelectInSeq
<1>2. TrimStart(s) = IF first = 0 THEN <<>> ELSE SubSeq(s, first, Len(s))
  BY DEF TrimStart, From
<1> HIDE DEF first
<1>3. others \in SUBSET Nat /\ 1 \in others
  OBVIOUS
<1>4. first \in others /\ first <= 1
  BY <1>1, <1>3, Least
<1>5. first = 1
  BY <1>4
<1>6. SubSeq(s, 1, Len(s)) = s
  OBVIOUS
<1> QED
  BY <1>2, <1>5, <1>6

LEMMA NothingToTrim ==
  ASSUME NEW T, NEW s \in Seq(T), s # <<>>, s[1] # Slash, s[Len(s)] # Slash
  PROVE  TrimEnd(TrimStart(s)) = s
<1> DEFINE back == [i \in 1 .. Len(s) |-> s[Len(s) - i + 1]]
<1>1. Len(s) \in Nat \ {0}
  OBVIOUS
<1>2. \A i \in 1 .. Len(s) : Len(s) - i + 1 \in 1 .. Len(s) /\ s[Len(s) - i + 1] \in T
  BY <1>1
<1>3. back \in Seq(T) /\ Len(back) = Len(s) /\ back[1] = s[Len(s)]
  BY <1>1, <1>2
<1>4. Reverse(s) = back
  BY DEF Reverse
<1>5. [i \in 1 .. Len(back) |-> back[Len(back) - i + 1]] = s
  <2>1. \A i \in 1 .. Len(s) : back[Len(s) - i + 1] = s[i]
    BY <1>1
  <2>2. s = [i \in 1 .. Len(s) |-> s[i]]
    OBVIOUS
  <2> HIDE DEF back
  <2> QED
    BY <1>3, <2>1, <2>2
<1> HIDE DEF back
<1>6. Reverse(back) = s
  BY <1>5 DEF Reverse
<1>7. back # <<>>
  BY <1>1, <1>3
<1>8. TrimStart(s) = s /\ TrimStart(back) = back
  BY <1>3, <1>7, TrimStartKeeps
<1> QED
  BY <1>4, <1>6, <1>8 DEF TrimEnd

LEMMA Greatest ==
  ASSUME NEW n \in Nat, NEW S \in SUBSET (1 .. n), S # {}
  PROVE  Max(S) \in S /\ \A x \in S : x <= Max(S)
<1> DEFINE under == {m \in 0 .. n : n - m \in S}
<1>1. under \in SUBSET Nat /\ under # {}
  <2>1. PICK x \in S : TRUE
    OBVIOUS
  <2>2. n - x \in under
    BY <2>1
  <2>3. \A m \in under : m \in Nat
    OBVIOUS
  <2> HIDE DEF under
  <2> QED
    BY <2>2, <2>3
<1>2. Min(under) \in under /\ \A m \in under : Min(under) <= m
  BY <1>1, Least
<1> DEFINE greatest == n - Min(under)
<1>3. greatest \in S
  BY <1>2
<1>4. ASSUME NEW x \in S
      PROVE  greatest >= x
  <2>1. n - x \in under
    OBVIOUS
  <2>2. Min(under) <= n - x /\ Min(under) \in Nat /\ x \in Nat
    BY <1>1, <1>2, <2>1
  <2> QED
    BY <2>2
<1> HIDE DEF greatest, under
<1>5. Max(S) \in S /\ \A x \in S : Max(S) >= x
  BY <1>3, <1>4 DEF Max
<1> QED
  BY <1>5

(* The last component is what stands behind the last slash.                *)
LEMMA LastComponent ==
  ASSUME NEW T, NEW path \in Seq(T), path # <<>>,
         NEW e \in Nat, e < Len(path), e # 0 => path[e] = Slash,
         \A k \in 1 .. Len(path) : e < k => path[k] # Slash
  PROVE  /\ Components(path) # <<>>
         /\ Last(Components(path)) = SubSeq(path, e + 1, Len(path))
<1> DEFINE t == e + 1
           S == Starts(path)
<1>1. Len(path) \in Nat /\ DOMAIN path = 1 .. Len(path) /\ t \in 1 .. Len(path) /\ t - 1 = e
  OBVIOUS
<1>2. S \in SUBSET (1 .. Len(path)) /\ S \in SUBSET Nat /\ IsFiniteSet(S)
  BY StartsType
<1>3. t \in S
  <2>1. Separates(path, t - 1)
    BY <1>1 DEF Separates
  <2>2. ~Separates(path, t)
    BY <1>1 DEF Separates
  <2> QED
    BY <1>1, <2>1, <2>2 DEF Starts
<1>4. ASSUME NEW j \in S
      PROVE  j <= t
  <2>1. j \in 1 .. Len(path) /\ Separates(path, j - 1)
    BY <1>1 DEF Starts
  <2>2. j - 1 \notin 1 .. Len(path) \/ path[j - 1] = Slash
    BY <1>1, <2>1 DEF Separates
  <2> QED
    BY <1>1, <2>1, <2>2
<1>5. End(path, t) = Len(path)
  <2>1. End(path, t) \in t .. Len(path) /\ Separates(path, End(path, t) + 1)
    BY <1>1, EndIs
  <2>2. End(path, t) + 1 \notin 1 .. Len(path) \/ path[End(path, t) + 1] = Slash
    BY <1>1, <2>1 DEF Separates
  <2> QED
    BY <1>1, <2>1, <2>2
<1> HIDE DEF t, S
<1>6. {j \in S : j <= t} = S
  BY <1>4
<1>7. Rank(S, t) = Cardinality(S) /\ Rank(S, t) \in 1 .. Cardinality(S)
  BY <1>2, <1>3, <1>6, RankType DEF Rank
<1>8. Nth(S, Cardinality(S)) = t
  BY <1>2, <1>3, <1>7, NthIs
<1>9. /\ Components(path) \in Seq(Seq(T)) /\ Len(Components(path)) = Cardinality(S)
      /\ Components(path)[Cardinality(S)] = SubSeq(path, t, Len(path))
  BY <1>5, <1>7, <1>8, ComponentsType DEF S
<1>10. Components(path) # <<>>
  <2>1. Len(Components(path)) # 0
    BY <1>7, <1>9
  <2> QED
    BY <2>1
<1> QED
  BY <1>9, <1>10 DEF Last, t

LEMMA RestOfRest ==
  ASSUME NEW T, NEW s \in Seq(T), NEW n, n = Len(s), NEW i \in 1 .. n,
         NEW d \in Nat, NEW e \in Nat, e + 1 = i + d, e < n
  PROVE  /\ SubSeq(SubSeq(s, i, n), d + 1, n - i + 1) = SubSeq(s, e + 1, n)
         /\ SubSeq(s, e + 1, n) # <<>>
<1> DEFINE a == i + d
           length == n - i + 1
           rest == n - e
           t == SubSeq(s, i, n)
           u == SubSeq(s, a, n)
           v == SubSeq(t, d + 1, length)
<1>1. /\ n \in Nat /\ i \in Nat \ {0} /\ i <= n /\ a \in Nat \ {0} /\ a <= n
      /\ length \in Nat /\ rest \in Nat \ {0} /\ d + 1 \in Nat \ {0}
      /\ n - a + 1 = rest /\ length - (d + 1) + 1 = rest
  OBVIOUS
<1>2. t = [k \in 1 .. length |-> s[i + k - 1]] /\ t \in Seq(T) /\ Len(t) = length
  BY <1>1, SubSeqIs
<1>3. u = [k \in 1 .. rest |-> s[a + k - 1]] /\ u \in Seq(T) /\ Len(u) = rest
  <2>1. u = [k \in 1 .. (n - a + 1) |-> s[a + k - 1]] /\ u \in Seq(T) /\ Len(u) = n - a + 1
    <3> HIDE DEF a
    <3> QED
      BY <1>1, SubSeqIs
  <2> QED
    BY <1>1, <2>1
<1> HIDE DEF t, u
<1>4. v = [k \in 1 .. rest |-> t[d + 1 + k - 1]]
  <2>1. v = [k \in 1 .. (length - (d + 1) + 1) |-> t[d + 1 + k - 1]]
    <3> HIDE DEF length
    <3> QED
      BY <1>1, <1>2, SubSeqIs
  <2> QED
    BY <1>1, <2>1
<1>5. \A k \in 1 .. rest : d + 1 + k - 1 \in 1 .. length /\ i + (d + 1 + k - 1) - 1 = a + k - 1
  BY <1>1
<1> HIDE DEF v, length, rest
<1>6. \A k \in 1 .. rest : t[d + 1 + k - 1] = s[a + k - 1]
  BY <1>2, <1>5
<1>7. v = u
  BY <1>3, <1>4, <1>6
<1>8. u # <<>>
  <2>1. Len(u) # 0
    BY <1>1, <1>3
  <2> QED
    BY <2>1
<1>9. a = e + 1
  OBVIOUS
<1> QED
  BY <1>7, <1>8, <1>9 DEF u, v, t, length

\* So it is what is left of a path when the slashes in front of it are gone.
LEMMA NameIs ==
  ASSUME NEW T, NEW path \in Seq(T), TrimStart(path) # <<>>, Last(TrimStart(path)) # Slash
  PROVE  /\ TrimStart(path) \in Seq(T)
         /\ TrimEnd(TrimStart(TrimStart(path))) = TrimStart(path)
         /\ Components(TrimStart(path)) # <<>>
         /\ Last(Components(TrimStart(path))) = Basename(path)
         /\ Basename(path) # <<>>
<1> DEFINE n == Len(path)
           name == TrimStart(path)
           ends == {k \in 1 .. n : path[k] = Slash}
           e == IF ends = {} THEN 0 ELSE Max(ends)
<1>1. n \in Nat /\ DOMAIN path = 1 .. n
  OBVIOUS
<1>2. PICK i \in 1 .. n : /\ path[i] # Slash /\ name = SubSeq(path, i, n)
                          /\ \A k \in 1 .. n : k < i => path[k] = Slash
  BY TrimStartIs
<1> DEFINE length == n - i + 1
<1>3. /\ name = [k \in 1 .. length |-> path[i + k - 1]]
      /\ name \in Seq(T) /\ Len(name) = length
      /\ length \in Nat \ {0}
  <2>1. i \in Nat \ {0} /\ i <= n
    BY <1>1, <1>2
  <2> QED
    BY <1>1, <1>2, <2>1, SubSeqIs
<1>4. name # <<>> /\ Last(name) # Slash
  OBVIOUS
<1> HIDE DEF name
<1>5. name[1] = path[i] /\ name[length] = path[n]
  <2>1. i + 1 - 1 = i /\ i + length - 1 = n
    BY <1>1, <1>2
  <2> QED
    BY <1>3, <2>1
<1>6. name[1] # Slash /\ name[Len(name)] # Slash /\ path[n] # Slash
  BY <1>2, <1>3, <1>4, <1>5 DEF Last
<1>7. TrimEnd(TrimStart(name)) = name
  BY <1>3, <1>4, <1>6, NothingToTrim
<1>8. ends # {} => Max(ends) \in ends /\ \A k \in ends : k <= Max(ends)
  BY <1>1, Greatest
<1>9. /\ e \in 0 .. n /\ (e # 0 => path[e] = Slash)
      /\ \A k \in 1 .. n : e < k => path[k] # Slash
  <2>1. CASE ends = {}
    BY <1>1, <2>1
  <2>2. CASE ends # {}
    <3>1. e = Max(ends)
      BY <2>2
    <3>2. e \in ends /\ \A k \in ends : k <= e
      BY <1>8, <2>2, <3>1
    <3> HIDE DEF e
    <3> QED
      BY <1>1, <3>2
  <2> QED
    BY <2>1, <2>2
<1>10. Basename(path) = SubSeq(path, e + 1, n)
  <2>1. ends = {k \in DOMAIN path : path[k] = Slash}
    BY <1>1
  <2>2. SubSeq(path, 1, n) = path
    OBVIOUS
  <2>3. Basename(path) = IF ends = {} THEN path ELSE SubSeq(path, Max(ends) + 1, n)
    BY <2>1 DEF Basename, From
  <2>4. ends = {} => e + 1 = 1
    OBVIOUS
  <2>5. ends # {} => e = Max(ends)
    OBVIOUS
  <2> HIDE DEF e, ends, n
  <2> QED
    BY <2>2, <2>3, <2>4, <2>5
<1> HIDE DEF e, ends
<1> DEFINE d == e - (i - 1)
<1>11. i - 1 <= e /\ e < n
  <2>1. i - 1 = 0 \/ (i - 1 \in 1 .. n /\ path[i - 1] = Slash)
    BY <1>1, <1>2
  <2> QED
    BY <1>1, <1>2, <1>6, <1>9, <2>1
<1>12. d \in Nat /\ d < length
  BY <1>1, <1>2, <1>9, <1>11
<1>13. d # 0 => name[d] = Slash
  <2>1. d # 0 => d \in 1 .. length /\ i + d - 1 = e /\ e # 0
    BY <1>1, <1>2, <1>9, <1>12
  <2> HIDE DEF d
  <2> QED
    BY <1>3, <1>9, <2>1
<1>14. ASSUME NEW k \in 1 .. length, d < k
       PROVE  name[k] # Slash
  <2>1. i + k - 1 \in 1 .. n /\ e < i + k - 1
    BY <1>1, <1>2, <1>9, <1>14
  <2> QED
    BY <1>3, <1>9, <2>1
<1>15. SubSeq(name, d + 1, length) = SubSeq(path, e + 1, n) /\ SubSeq(path, e + 1, n) # <<>>
  <2>1. e + 1 = i + d /\ e \in Nat
    BY <1>1, <1>2, <1>9
  <2> HIDE DEF d
  <2> QED
    BY <1>2, <1>11, <1>12, <2>1, RestOfRest
<1> HIDE DEF d, length
<1>16. Components(name) # <<>> /\ Last(Components(name)) = SubSeq(name, d + 1, length)
  BY <1>3, <1>4, <1>12, <1>13, <1>14, LastComponent
<1> QED
  BY <1>3, <1>7, <1>10, <1>15, <1>16 DEF name

(* What is shown can be named to info, cat and cp as it is shown, without  *)
(* the slash in front (info_matches, resolve_unique, cmd_cp).              *)
THEOREM ShownAlwaysNamed == AdminSpec => []ShownCanBeNamed
<1>1. ASSUME AdminInv, NEW host \in HostsKnown, NEW i \in DOMAIN rows,
             HostMatches(rows[i].url, host, Maps),
             TrimStart(PathShown(rows[i], host)) # <<>>,
             Last(TrimStart(PathShown(rows[i], host))) # Slash
      PROVE  LET shown == PathShown(rows[i], host)
                 name == TrimStart(shown)
                 own == {j \in DOMAIN rows : HostMatches(rows[j].url, host, Maps)}
             IN  /\ i \in Info(rows, host, name, Maps)
                 /\ \/ Cp(rows, host, name, [name |-> <<>>, taken |-> {}], FALSE, Maps)
                         = [from |-> i, to |-> Basename(shown)]
                    \/ \E j \in own \ {i} : TrimStart(PathShown(rows[j], host)) = name
  <2> DEFINE shown == PathShown(rows[i], host)
             name == TrimStart(shown)
             own == {j \in DOMAIN rows : HostMatches(rows[j].url, host, Maps)}
             found == InfoMatches(rows, host, name, Maps)
             dest == [name |-> <<>>, taken |-> {}]
  <2>1. rows \in Seq(Row) /\ Maps \in Seq(UrlMap)
    BY <1>1, MapsTyped DEF AdminInv, AdminTypeOK, Maps
  <2>2. i \in 1 .. Len(rows) /\ rows[i] \in Row
    BY <2>1
  <2>3. rows[i].url \in Location
    BY <2>2 DEF Row
  <2>4. shown \in Seq(Token)
    BY <2>1, <2>3, ShownTyped DEF PathShown
  <2>5. name # <<>> /\ Last(name) # Slash
    BY <1>1
  <2> HIDE DEF shown
  <2>6. /\ TrimEnd(TrimStart(name)) = name /\ Components(name) # <<>>
        /\ Last(Components(name)) = Basename(shown) /\ Basename(shown) # <<>>
    BY <2>4, <2>5, NameIs
  <2>7. found = {j \in own : TrimStart(PathShown(rows[j], host)) = name}
    BY <2>6 DEF InfoMatches, PathShown
  <2>8. i \in found
    BY <1>1, <2>7 DEF shown
  <2>9. i \in Info(rows, host, name, Maps)
    BY <2>5, <2>8 DEF Info
  <2> HIDE DEF name, found
  <2>10. CASE \E j \in found : j # i
    <3>1. \E j \in own \ {i} : TrimStart(PathShown(rows[j], host)) = name
      BY <2>7, <2>10
    <3> QED
      BY <2>9, <3>1 DEF name, shown
  <2>11. CASE \A j \in found : j = i
    <3>1. found = {i}
      BY <2>8, <2>11
    <3>2. Cardinality(found) = 1
      BY <3>1, FS_Singleton
    <3>3. ResolveUnique(rows, host, name, Maps) = i
      BY <3>1, <3>2 DEF ResolveUnique, found
    <3>4. ResolveDest(dest, name) = Basename(shown)
      BY <2>6 DEF ResolveDest
    <3>5. Cp(rows, host, name, dest, FALSE, Maps) = [from |-> i, to |-> Basename(shown)]
      BY <2>2, <2>6, <3>3, <3>4 DEF Cp, CopySource
    <3> QED
      BY <2>9, <3>5 DEF name, shown
  <2> QED
    BY <2>10, <2>11
<1>2. AdminInv => ShownCanBeNamed
  BY <1>1 DEF ShownCanBeNamed
<1> QED
  BY <1>2, AdminInvariant, PTL
-----------------------------------------------------------------------------
(* Recursion over the rows.                                                *)

LEMMA Induct ==
  ASSUME NEW n \in Nat, NEW Good, 0 \in Good,
         \A k \in 1 .. n : k - 1 \in Good => k \in Good
  PROVE  \A k \in 0 .. n : k \in Good
<1> DEFINE bad == {k \in 0 .. n : k \notin Good}
<1>1. bad \in SUBSET Nat
  OBVIOUS
<1>2. ASSUME bad # {}
      PROVE  FALSE
  <2>1. Min(bad) \in bad /\ \A k \in bad : Min(bad) <= k
    BY <1>1, <1>2, Least
  <2> DEFINE m == Min(bad)
  <2>2. m \in 1 .. n /\ m \notin Good
    BY <2>1
  <2>3. m - 1 \notin bad
    <3> HIDE DEF bad
    <3> QED
      BY <2>1, <2>2
  <2> HIDE DEF m
  <2>4. m - 1 \in Good
    BY <2>2, <2>3
  <2> QED
    BY <2>2, <2>4
<1> QED
  BY <1>2

\* f goes through n of the steps in a table.
Follows(f, n, S, first, step) ==
  /\ f \in [0 .. n -> S]
  /\ f[0] = first
  /\ \A k \in 1 .. n : f[k] = step[<<k, f[k - 1]>>]

LEMMA StepsExist ==
  ASSUME NEW n \in Nat, NEW S, NEW first \in S, NEW step \in [(1 .. n) \X S -> S]
  PROVE  \E f : Follows(f, n, S, first, step)
<1> DEFINE Steps(m) ==
      {f \in [0 .. m -> S] : f[0] = first /\ \A k \in 1 .. m : f[k] = step[<<k, f[k - 1]>>]}
           good == {m \in 0 .. n : Steps(m) # {}}
<1>1. 0 \in good
  <2>1. [k \in 0 .. 0 |-> first] \in Steps(0)
    OBVIOUS
  <2> QED
    BY <2>1
<1>2. ASSUME NEW m \in 1 .. n, m - 1 \in good
      PROVE  m \in good
  <2>1. PICK f \in Steps(m - 1) : TRUE
    BY <1>2
  <2>2. /\ f \in [0 .. m - 1 -> S] /\ f[0] = first
        /\ \A k \in 1 .. m - 1 : f[k] = step[<<k, f[k - 1]>>]
    BY <2>1
  <2> DEFINE g == [k \in 0 .. m |-> IF k < m THEN f[k] ELSE step[<<m, f[m - 1]>>]]
  <2>3. f[m - 1] \in S
    BY <2>2
  <2>4. step[<<m, f[m - 1]>>] \in S
    BY <2>3
  <2>5. g \in [0 .. m -> S]
    BY <2>2, <2>4
  <2>6. \A k \in 0 .. m - 1 : g[k] = f[k]
    OBVIOUS
  <2>7. g[m] = step[<<m, g[m - 1]>>]
    <3>1. g[m] = step[<<m, f[m - 1]>>] /\ m - 1 \in 0 .. m - 1
      OBVIOUS
    <3> QED
      BY <2>6, <3>1
  <2> HIDE DEF g
  <2>8. g[0] = first /\ \A k \in 1 .. m : g[k] = step[<<k, g[k - 1]>>]
    <3>1. g[0] = first
      BY <2>2, <2>6
    <3>2. ASSUME NEW k \in 1 .. m
          PROVE  g[k] = step[<<k, g[k - 1]>>]
      <4>1. CASE k = m
        BY <2>7, <4>1
      <4>2. CASE k # m
        <5>1. k \in 1 .. m - 1 /\ k \in 0 .. m - 1 /\ k - 1 \in 0 .. m - 1
          BY <4>2
        <5> QED
          BY <5>1, <2>2, <2>6
      <4> QED
        BY <4>1, <4>2
    <3> QED
      BY <3>1, <3>2
  <2>9. g \in Steps(m)
    BY <2>5, <2>8
  <2> QED
    BY <2>9
<1> HIDE DEF good
<1>3. \A m \in 0 .. n : m \in good
  BY <1>1, <1>2, Induct
<1>4. n \in good
  BY <1>3
<1> QED
  BY <1>4 DEF good, Follows

-----------------------------------------------------------------------------
(* Sums over some of the rows.                                             *)

\* The partial sums of the weights in S.
IsPart(s, w, S, n) ==
  /\ s \in [0 .. n -> Nat]
  /\ s[0] = 0
  /\ \A k \in 1 .. n : s[k] = IF k \in S THEN s[k - 1] + w[k] ELSE s[k - 1]

Part(w, S, n) == CHOOSE s : IsPart(s, w, S, n)

LEMMA PartIs ==
  ASSUME NEW n \in Nat, NEW w \in [1 .. n -> Nat], NEW S
  PROVE  IsPart(Part(w, S, n), w, S, n)
<1> DEFINE step == [x \in (1 .. n) \X Nat |-> IF x[1] \in S THEN x[2] + w[x[1]] ELSE x[2]]
<1>1. step \in [(1 .. n) \X Nat -> Nat]
  <2>1. ASSUME NEW x \in (1 .. n) \X Nat
        PROVE  (IF x[1] \in S THEN x[2] + w[x[1]] ELSE x[2]) \in Nat
    <3>1. x[1] \in 1 .. n /\ x[2] \in Nat
      OBVIOUS
    <3>2. w[x[1]] \in Nat
      BY <3>1
    <3> QED
      BY <3>1, <3>2
  <2> QED
    BY <2>1
<1>2. \A k \in 1 .. n, v \in Nat : step[<<k, v>>] = IF k \in S THEN v + w[k] ELSE v
  OBVIOUS
<1> HIDE DEF step
<1>3. PICK s : Follows(s, n, Nat, 0, step)
  BY <1>1, StepsExist
<1>4. ASSUME NEW k \in 1 .. n
      PROVE  s[k] = IF k \in S THEN s[k - 1] + w[k] ELSE s[k - 1]
  <2>1. k - 1 \in 0 .. n
    OBVIOUS
  <2>2. s[k - 1] \in Nat
    BY <1>3, <2>1 DEF Follows
  <2> QED
    BY <1>2, <1>3, <2>2 DEF Follows
<1>5. IsPart(s, w, S, n)
  BY <1>3, <1>4 DEF IsPart, Follows
<1> QED
  BY <1>5 DEF Part

(* Where nothing of S is, the sum stays.                                   *)
LEMMA PartStays ==
  ASSUME NEW n \in Nat, NEW w \in [1 .. n -> Nat], NEW S, NEW m \in 0 .. n, NEW l \in m .. n,
         \A k \in m + 1 .. l : k \notin S
  PROVE  Part(w, S, n)[l] = Part(w, S, n)[m]
<1> DEFINE s == Part(w, S, n)
           good == {d \in 0 .. l - m : s[m + d] = s[m]}
<1>1. IsPart(s, w, S, n)
  BY PartIs
<1> HIDE DEF s
<1>2. 0 \in good
  OBVIOUS
<1>3. ASSUME NEW d \in 1 .. l - m, d - 1 \in good
      PROVE  d \in good
  <2>1. m + d \in m + 1 .. l /\ m + d \in 1 .. n /\ (m + d) - 1 = m + (d - 1)
    OBVIOUS
  <2>2. s[m + d] = s[(m + d) - 1]
    BY <2>1, <1>1 DEF IsPart
  <2> QED
    BY <1>3, <2>1, <2>2
<1> HIDE DEF good
<1>4. \A d \in 0 .. l - m : d \in good
  <2>1. l - m \in Nat
    OBVIOUS
  <2> QED
    BY <1>2, <1>3, <2>1, Induct
<1>5. l - m \in good
  BY <1>4
<1> QED
  BY <1>5 DEF good, s

LEMMA PartOfOne ==
  ASSUME NEW n \in Nat, NEW w \in [1 .. n -> Nat], NEW S, NEW i \in 1 .. n,
         \A k \in 1 .. n : k \in S <=> k = i
  PROVE  Part(w, S, n)[n] = w[i]
<1> DEFINE s == Part(w, S, n)
<1>1. IsPart(s, w, S, n)
  BY PartIs
<1>2. s[i - 1] = s[0]
  BY PartStays
<1>3. s[n] = s[i]
  BY PartStays
<1> HIDE DEF s
<1>4. s[i] = s[i - 1] + w[i] /\ s[0] = 0 /\ w[i] \in Nat
  BY <1>1 DEF IsPart
<1> QED
  BY <1>2, <1>3, <1>4 DEF s

(* Sets that agree on the rows have the same sums.                         *)
LEMMA PartAgrees ==
  ASSUME NEW n \in Nat, NEW w \in [1 .. n -> Nat], NEW S, NEW R,
         \A k \in 1 .. n : k \in S <=> k \in R
  PROVE  \A k \in 0 .. n : Part(w, S, n)[k] = Part(w, R, n)[k]
<1> DEFINE s == Part(w, S, n)
           r == Part(w, R, n)
           good == {k \in 0 .. n : s[k] = r[k]}
<1>1. IsPart(s, w, S, n) /\ IsPart(r, w, R, n)
  BY PartIs
<1> HIDE DEF s, r
<1>2. 0 \in good
  BY <1>1 DEF IsPart
<1>3. ASSUME NEW k \in 1 .. n, k - 1 \in good
      PROVE  k \in good
  <2>1. s[k - 1] = r[k - 1]
    BY <1>3
  <2>2. s[k] = r[k]
    BY <1>1, <2>1 DEF IsPart
  <2> QED
    BY <2>2
<1> HIDE DEF good
<1>4. \A k \in 0 .. n : k \in good
  BY <1>2, <1>3, Induct
<1> QED
  BY <1>4 DEF good, s, r

-----------------------------------------------------------------------------
(* The text of a folder.                                                   *)

Longer(text, c) == text \o <<Slash>> \o c

IsText(f, comps, n) ==
  f = [k \in 0 .. n |-> IF k = 0 THEN <<>> ELSE Longer(f[k - 1], comps[k])]

LEMMA TextFrom ==
  ASSUME NEW n \in Nat, NEW f, NEW comps
  PROVE  IsText(f, comps, n) <=>
           /\ f = [k \in 0 .. n |-> f[k]]
           /\ f[0] = <<>>
           /\ \A k \in 1 .. n : f[k] = Longer(f[k - 1], comps[k])
<1> DEFINE F == [k \in 0 .. n |-> IF k = 0 THEN <<>> ELSE Longer(f[k - 1], comps[k])]
<1>1. ASSUME f = F
      PROVE  /\ f = [k \in 0 .. n |-> f[k]]
             /\ f[0] = <<>>
             /\ \A k \in 1 .. n : f[k] = Longer(f[k - 1], comps[k])
  <2>1. F = [k \in 0 .. n |-> F[k]]
    OBVIOUS
  <2>2. F[0] = <<>> /\ \A k \in 1 .. n : F[k] = Longer(f[k - 1], comps[k])
    OBVIOUS
  <2> HIDE DEF F
  <2> QED
    BY <1>1, <2>1, <2>2
<1>2. ASSUME f = [k \in 0 .. n |-> f[k]], f[0] = <<>>,
             \A k \in 1 .. n : f[k] = Longer(f[k - 1], comps[k])
      PROVE  f = F
  <2>1. ASSUME NEW k \in 0 .. n
        PROVE  f[k] = IF k = 0 THEN <<>> ELSE Longer(f[k - 1], comps[k])
    <3>1. CASE k = 0
      BY <1>2, <3>1
    <3>2. CASE k # 0
      <4>1. k \in 1 .. n
        BY <3>2
      <4> QED
        BY <1>2, <3>2, <4>1
    <3> QED
      BY <3>1, <3>2
  <2>2. F = [k \in 0 .. n |-> f[k]]
    BY <2>1
  <2> HIDE DEF F
  <2> QED
    BY <1>2, <2>2
<1> QED
  BY <1>1, <1>2 DEF IsText

LEMMA TextIs ==
  ASSUME NEW n \in Nat, NEW f, NEW g, NEW comps, NEW others, IsText(f, comps, n), IsText(g, others, n),
         \A k \in 1 .. n : comps[k] = others[k]
  PROVE  f = g
<1> DEFINE good == {k \in 0 .. n : f[k] = g[k]}
<1>1. /\ f = [k \in 0 .. n |-> f[k]] /\ f[0] = <<>>
      /\ \A k \in 1 .. n : f[k] = Longer(f[k - 1], comps[k])
  BY TextFrom
<1>2. /\ g = [k \in 0 .. n |-> g[k]] /\ g[0] = <<>>
      /\ \A k \in 1 .. n : g[k] = Longer(g[k - 1], others[k])
  BY TextFrom
<1>3. 0 \in good
  BY <1>1, <1>2
<1>4. ASSUME NEW k \in 1 .. n, k - 1 \in good
      PROVE  k \in good
  <2>1. f[k - 1] = g[k - 1] /\ comps[k] = others[k]
    BY <1>4
  <2>2. f[k] = Longer(f[k - 1], comps[k]) /\ g[k] = Longer(g[k - 1], others[k])
    BY <1>1, <1>2
  <2>3. f[k] = g[k]
    BY <2>1, <2>2
  <2> QED
    BY <2>3
<1> HIDE DEF good
<1>5. \A k \in 0 .. n : k \in good
  BY <1>3, <1>4, Induct
<1>6. \A k \in 0 .. n : f[k] = g[k]
  BY <1>5 DEF good
<1> QED
  BY <1>1, <1>2, <1>6

LEMMA FolderTextFrom ==
  ASSUME NEW comps, NEW n
  PROVE  FolderText(comps, n) = (CHOOSE f : IsText(f, comps, n))[n]
BY DEF FolderText, IsText, Longer

LEMMA FolderTextIs ==
  ASSUME NEW T, Slash \in T, NEW comps, NEW n \in Nat, \A k \in 1 .. n : comps[k] \in Seq(T)
  PROVE  /\ FolderText(comps, 0) = <<>>
         /\ \A k \in 0 .. n : FolderText(comps, k) \in Seq(T)
         /\ \A k \in 1 .. n : FolderText(comps, k) = Longer(FolderText(comps, k - 1), comps[k])
<1> DEFINE S == Seq(T)
           step == [x \in (1 .. n) \X S |-> Longer(x[2], comps[x[1]])]
<1>1. \A k \in 1 .. n, s \in S : step[<<k, s>>] = Longer(s, comps[k])
  OBVIOUS
<1>2. step \in [(1 .. n) \X S -> S]
  <2>1. ASSUME NEW x \in (1 .. n) \X S
        PROVE  Longer(x[2], comps[x[1]]) \in S
    <3>1. x[1] \in 1 .. n /\ x[2] \in S
      OBVIOUS
    <3>2. comps[x[1]] \in S /\ <<Slash>> \in S
      BY <3>1
    <3> QED
      BY <3>1, <3>2 DEF Longer
  <2> QED
    BY <2>1
<1>3. <<>> \in S
  OBVIOUS
<1> HIDE DEF step, S
<1>4. PICK f : Follows(f, n, S, <<>>, step)
  BY <1>2, <1>3, StepsExist
<1>5. f \in [0 .. n -> S] /\ f[0] = <<>>
  BY <1>4 DEF Follows
<1>6. ASSUME NEW k \in 1 .. n
      PROVE  f[k] = Longer(f[k - 1], comps[k])
  <2>1. k - 1 \in 0 .. n
    OBVIOUS
  <2>2. f[k] = step[<<k, f[k - 1]>>] /\ f[k - 1] \in S
    BY <1>4, <1>5, <2>1 DEF Follows
  <2> QED
    BY <1>1, <2>2
<1>7. ASSUME NEW m \in 0 .. n
      PROVE  FolderText(comps, m) = f[m]
  <2> DEFINE g == [k \in 0 .. m |-> f[k]]
             h == CHOOSE h : IsText(h, comps, m)
  <2>1. \A k \in 1 .. m : k \in 1 .. n /\ k \in 0 .. m /\ k - 1 \in 0 .. m
    OBVIOUS
  <2>2. \A k \in 0 .. m : g[k] = f[k]
    OBVIOUS
  <2>3. g = [k \in 0 .. m |-> g[k]]
    OBVIOUS
  <2>4. m \in Nat /\ m \in 0 .. m /\ 0 \in 0 .. m
    OBVIOUS
  <2> HIDE DEF g
  <2>5. \A k \in 1 .. m : g[k] = Longer(g[k - 1], comps[k])
    BY <1>6, <2>1, <2>2
  <2>6. IsText(g, comps, m)
    <3>1. g[0] = <<>>
      BY <1>5, <2>2, <2>4
    <3> QED
      BY <2>3, <2>4, <2>5, <3>1, TextFrom
  <2>7. IsText(h, comps, m)
    BY <2>6
  <2>8. FolderText(comps, m) = h[m]
    BY FolderTextFrom
  <2> HIDE DEF h
  <2>9. h = g
    BY <2>4, <2>6, <2>7, TextIs
  <2> QED
    BY <2>2, <2>4, <2>8, <2>9
<1>8. \A k \in 0 .. n : FolderText(comps, k) \in S
  BY <1>5, <1>7
<1>9. ASSUME NEW k \in 1 .. n
      PROVE  FolderText(comps, k) = Longer(FolderText(comps, k - 1), comps[k])
  <2>1. k \in 0 .. n /\ k - 1 \in 0 .. n
    OBVIOUS
  <2>2. FolderText(comps, k) = f[k] /\ FolderText(comps, k - 1) = f[k - 1]
    BY <1>7, <2>1
  <2>3. f[k] = Longer(f[k - 1], comps[k])
    BY <1>6
  <2> QED
    BY <2>2, <2>3
<1>10. FolderText(comps, 0) = <<>>
  <2>1. 0 \in 0 .. n
    OBVIOUS
  <2> QED
    BY <1>5, <1>7, <2>1
<1> QED
  BY <1>8, <1>9, <1>10 DEF S

(* It depends on the components that lead there.                           *)
LEMMA SameText ==
  ASSUME NEW n \in Nat, NEW comps, NEW others, \A k \in 1 .. n : comps[k] = others[k]
  PROVE  FolderText(comps, n) = FolderText(others, n)
<1>1. ASSUME NEW f
      PROVE  IsText(f, comps, n) <=> IsText(f, others, n)
  BY TextFrom
<1>2. (CHOOSE f : IsText(f, comps, n)) = (CHOOSE f : IsText(f, others, n))
  BY <1>1
<1> QED
  BY <1>2, FolderTextFrom

-----------------------------------------------------------------------------
(* What components are, and paths made of them.                            *)

Names(T) == {c \in Seq(T) : c # <<>> /\ \A k \in 1 .. Len(c) : c[k] # Slash}

LEMMA ComponentsNamed ==
  ASSUME NEW T, NEW path \in Seq(T)
  PROVE  Components(path) \in Seq(Names(T))
<1>1. /\ Components(path) \in Seq(Seq(T))
      /\ Len(Components(path)) = Cardinality(Starts(path))
  BY ComponentsType
<1>2. ASSUME NEW n \in 1 .. Len(Components(path))
      PROVE  Components(path)[n] \in Names(T)
  <2> DEFINE i == Nth(Starts(path), n)
             e == End(path, i)
  <2>1. i \in Starts(path) /\ Components(path)[n] = SubSeq(path, i, e)
    BY <1>1, <1>2, ComponentsType
  <2> HIDE DEF i
  <2>2. i \in 1 .. Len(path) /\ DOMAIN path = 1 .. Len(path) /\ path[i] # Slash
    <3>1. i \in 1 .. Len(path)
      BY <2>1, StartsType
    <3> QED
      BY <2>1, <3>1 DEF Starts, Separates
  <2>3. e \in i .. Len(path) /\ \A j \in i .. Len(path) : Separates(path, j + 1) => e <= j
    BY <2>2, EndIs
  <2> HIDE DEF e
  <2>4. ASSUME NEW j \in i .. e
        PROVE  path[j] # Slash
    <3>1. CASE j = i
      BY <2>2, <3>1
    <3>2. CASE j # i
      <4>1. j - 1 \in i .. Len(path) /\ ~(e <= j - 1) /\ (j - 1) + 1 = j
        BY <2>2, <2>3, <3>2
      <4>2. ~Separates(path, j)
        BY <2>3, <4>1
      <4> QED
        BY <4>2 DEF Separates
    <3> QED
      BY <3>1, <3>2
  <2>5. /\ SubSeq(path, i, e) = [k \in 1 .. (e - i + 1) |-> path[i + k - 1]]
        /\ SubSeq(path, i, e) \in Seq(T)
        /\ Len(SubSeq(path, i, e)) = e - i + 1
    <3>1. i \in Nat \ {0} /\ e \in Nat /\ e <= Len(path) /\ i <= e
      BY <2>2, <2>3
    <3> QED
      BY <3>1, SubSeqIs
  <2>6. \A k \in 1 .. (e - i + 1) : i + k - 1 \in i .. e
    BY <2>2, <2>3
  <2>7. e - i + 1 \in Nat \ {0}
    BY <2>2, <2>3
  <2> DEFINE c == SubSeq(path, i, e)
  <2>8. c \in Seq(T) /\ Len(c) # 0 /\ \A k \in 1 .. Len(c) : c[k] # Slash
    BY <2>4, <2>5, <2>6, <2>7
  <2> HIDE DEF c
  <2>9. c \in Names(T)
    BY <2>8 DEF Names
  <2> QED
    BY <2>1, <2>9 DEF c
<1>3. Components(path) = [n \in 1 .. Len(Components(path)) |-> Components(path)[n]]
  BY <1>1
<1>4. Len(Components(path)) \in Nat
  BY <1>1
<1>5. Components(path) \in [1 .. Len(Components(path)) -> Names(T)]
  BY <1>2, <1>3
<1> QED
  BY <1>4, <1>5

LEMMA OneName ==
  ASSUME NEW T, NEW c \in Names(T)
  PROVE  Components(c) = <<c>>
<1>1. /\ c \in Seq(T) /\ Len(c) \in Nat \ {0} /\ DOMAIN c = 1 .. Len(c)
      /\ \A k \in 1 .. Len(c) : c[k] # Slash
  BY DEF Names
<1>2. \A k \in 1 .. Len(c) : ~Separates(c, k)
  BY <1>1 DEF Separates
<1>3. Separates(c, 0)
  BY <1>1 DEF Separates
<1>4. \A i \in 1 .. Len(c) : Separates(c, i - 1) <=> i = 1
  <2>1. \A i \in 1 .. Len(c) : i # 1 => i - 1 \in 1 .. Len(c)
    BY <1>1
  <2> QED
    BY <1>2, <1>3, <2>1
<1>5. Starts(c) = {1}
  BY <1>1, <1>2, <1>4 DEF Starts
<1>6. End(c, 1) = Len(c)
  <2>1. 1 \in 1 .. Len(c)
    BY <1>1
  <2>2. End(c, 1) \in 1 .. Len(c) /\ Separates(c, End(c, 1) + 1)
    BY <1>1, <2>1, EndIs
  <2> DEFINE e == End(c, 1)
  <2>3. e + 1 \notin 1 .. Len(c)
    BY <1>2, <2>2
  <2> HIDE DEF e
  <2>4. e = Len(c)
    BY <1>1, <2>2, <2>3 DEF e
  <2> QED
    BY <2>4 DEF e
<1>7. Cardinality(Starts(c)) = 1
  BY <1>5, FS_Singleton
<1>8. /\ Components(c) \in Seq(Seq(T)) /\ Len(Components(c)) = 1
      /\ Components(c)[1] = SubSeq(c, 1, Len(c))
  <2>1. /\ Components(c) \in Seq(Seq(T))
        /\ Len(Components(c)) = Cardinality(Starts(c))
        /\ \A n \in 1 .. Cardinality(Starts(c)) :
             /\ Nth(Starts(c), n) \in Starts(c)
             /\ Components(c)[n] = SubSeq(c, Nth(Starts(c), n), End(c, Nth(Starts(c), n)))
    BY <1>1, ComponentsType
  <2>2. 1 \in 1 .. Cardinality(Starts(c))
    BY <1>7
  <2>3. Nth(Starts(c), 1) = 1
    BY <1>5, <2>1, <2>2
  <2> QED
    BY <1>6, <1>7, <2>1, <2>2, <2>3
<1>9. SubSeq(c, 1, Len(c)) = c
  BY <1>1, SubSeqFull
<1> QED
  BY <1>8, <1>9

\* Element by element.
IsLonger(q, s, c, T) ==
  /\ q \in Seq(T)
  /\ Len(q) = Len(s) + 1 + Len(c)
  /\ \A k \in 1 .. Len(s) : q[k] = s[k]
  /\ q[Len(s) + 1] = Slash
  /\ \A k \in 1 .. Len(c) : q[Len(s) + 1 + k] = c[k]

LEMMA LongerIs ==
  ASSUME NEW T, Slash \in T, NEW s \in Seq(T), NEW c \in Seq(T)
  PROVE  IsLonger(Longer(s, c), s, c, T)
<1> DEFINE t == s \o <<Slash>>
<1>1. t \in Seq(T) /\ Len(t) = Len(s) + 1 /\ t[Len(s) + 1] = Slash
      /\ \A k \in 1 .. Len(s) : t[k] = s[k]
  OBVIOUS
<1>2. Longer(s, c) = t \o c
  BY DEF Longer
<1> HIDE DEF t
<1>3. t \o c \in Seq(T) /\ Len(t \o c) = Len(t) + Len(c)
  BY <1>1
<1>5. /\ \A k \in 1 .. Len(t) : (t \o c)[k] = t[k]
      /\ \A k \in 1 .. Len(c) : (t \o c)[Len(t) + k] = c[k]
  BY <1>1, ConcatIs
<1>4. Len(s) \in Nat /\ Len(c) \in Nat
  OBVIOUS
<1> QED
  BY <1>1, <1>2, <1>3, <1>4, <1>5 DEF IsLonger

(* A slash and a name make one component more.                             *)
LEMMA OneMore ==
  ASSUME NEW T, Slash \in T, NEW s \in Seq(T), NEW c \in Names(T)
  PROVE  Components(Longer(s, c)) = Append(Components(s), c)
<1> DEFINE q == Longer(s, c)
           m == Len(s)
           n == Len(s) + 1 + Len(c)
<1>1. /\ c \in Seq(T) /\ Len(c) \in Nat \ {0}
      /\ \A k \in 1 .. Len(c) : c[k] # Slash
  BY DEF Names
<1>2. /\ q \in Seq(T) /\ Len(q) = n
      /\ \A k \in 1 .. m : q[k] = s[k]
      /\ q[m + 1] = Slash
      /\ \A k \in 1 .. Len(c) : q[m + 1 + k] = c[k]
  <2>1. IsLonger(q, s, c, T)
    BY <1>1, LongerIs
  <2> QED
    BY <2>1 DEF IsLonger
<1>3. m \in Nat /\ n \in Nat /\ m + 2 <= n /\ n - (m + 1) = Len(c)
  BY <1>1
<1>4. DOMAIN s = 1 .. m /\ DOMAIN q = 1 .. n
  BY <1>2
<1> HIDE DEF q, m, n
<1>5. \A k \in 1 .. n : m + 1 < k => q[k] # Slash
  <2> SUFFICES ASSUME NEW k \in 1 .. n, m + 1 < k PROVE q[k] # Slash
    OBVIOUS
  <2>1. k - (m + 1) \in 1 .. Len(c) /\ m + 1 + (k - (m + 1)) = k
    BY <1>3
  <2> QED
    BY <1>1, <1>2, <2>1
<1>6. /\ Starts(s) \in SUBSET (1 .. m) /\ IsFiniteSet(Starts(s))
      /\ Starts(q) \in SUBSET (1 .. n) /\ IsFiniteSet(Starts(q))
  BY <1>2, StartsType DEF m
<1>7. \A k \in 0 .. m + 1 : Separates(s, k) <=> Separates(q, k)
  <2> SUFFICES ASSUME NEW k \in 0 .. m + 1 PROVE Separates(s, k) <=> Separates(q, k)
    OBVIOUS
  <2>1. CASE k = 0
    BY <2>1, <1>3, <1>4 DEF Separates
  <2>2. CASE k \in 1 .. m
    BY <2>2, <1>2, <1>3, <1>4 DEF Separates
  <2>3. CASE k = m + 1
    BY <2>3, <1>2, <1>3, <1>4 DEF Separates
  <2> QED
    BY <2>1, <2>2, <2>3, <1>3
<1>8. Starts(q) = Starts(s) \cup {m + 2}
  <2>1. ASSUME NEW i \in 1 .. n
        PROVE  i \in Starts(q) <=> i \in Starts(s) \/ i = m + 2
    <3>1. CASE i <= m
      <4>1. i \in 0 .. m + 1 /\ i - 1 \in 0 .. m + 1 /\ i \in DOMAIN s /\ i \in DOMAIN q /\ i # m + 2
        BY <3>1, <1>3, <1>4
      <4> QED
        BY <4>1, <1>7 DEF Starts
    <3>2. CASE i = m + 1
      <4>1. Separates(q, i) /\ i \notin 1 .. m /\ i # m + 2
        BY <3>2, <1>2, <1>3 DEF Separates
      <4> QED
        BY <4>1, <1>6 DEF Starts
    <3>3. CASE i = m + 2
      <4>1. q[i] # Slash /\ i \in DOMAIN q /\ i - 1 = m + 1
        BY <3>3, <1>3, <1>4, <1>5
      <4>2. ~Separates(q, i) /\ Separates(q, i - 1)
        BY <4>1, <1>2 DEF Separates
      <4> QED
        BY <3>3, <4>1, <4>2 DEF Starts
    <3>4. CASE i > m + 2
      <4>1. i - 1 \in 1 .. n /\ m + 1 < i - 1 /\ i \notin 1 .. m /\ i # m + 2
        BY <3>4, <1>3
      <4>2. ~Separates(q, i - 1)
        BY <4>1, <1>4, <1>5 DEF Separates
      <4> QED
        BY <4>1, <4>2, <1>6 DEF Starts
    <3> QED
      BY <3>1, <3>2, <3>3, <3>4, <1>3
  <2>2. \A i \in Starts(q) : i \in 1 .. n
    BY <1>6
  <2>3. \A i \in Starts(s) \cup {m + 2} : i \in 1 .. n
    BY <1>3, <1>6
  <2> QED
    BY <2>1, <2>2, <2>3
<1>9. Cardinality(Starts(q)) = Cardinality(Starts(s)) + 1
  <2>1. m + 2 \notin Starts(s)
    BY <1>3, <1>6
  <2> QED
    BY <1>6, <1>8, <2>1, FS_AddElement
<1>10. /\ Components(s) \in Seq(Seq(T)) /\ Len(Components(s)) = Cardinality(Starts(s))
       /\ Components(q) \in Seq(Seq(T)) /\ Len(Components(q)) = Cardinality(Starts(q))
  BY <1>2, ComponentsType
<1>11. IsPrefix(Components(s), Components(q))
  <2>1. IsPrefix(s, q)
    <3>1. m <= Len(q) /\ \A k \in 1 .. m : s[k] = q[k]
      BY <1>2, <1>3
    <3> QED
      BY <1>2, <3>1, PrefixIs DEF m
  <2> QED
    BY <1>2, <2>1, PrefixComponents DEF m
<1>12. Last(Components(q)) = c
  <2> DEFINE e == m + 1
  <2>1. /\ q # <<>> /\ e \in Nat /\ e < Len(q) /\ (e # 0 => q[e] = Slash)
        /\ \A k \in 1 .. Len(q) : e < k => q[k] # Slash
    <3>1. Len(q) # 0
      BY <1>2, <1>3
    <3> QED
      BY <3>1, <1>2, <1>3, <1>5
  <2>2. SubSeq(q, e + 1, Len(q)) = c
    <3>1. /\ SubSeq(q, e + 1, n) \in Seq(T) /\ Len(SubSeq(q, e + 1, n)) = Len(c)
          /\ \A k \in 1 .. Len(c) : SubSeq(q, e + 1, n)[k] = q[e + k]
      <4>1. e + 1 \in Nat \ {0} /\ e + 1 <= n /\ n - (e + 1) + 1 = Len(c)
            /\ \A k \in 1 .. Len(c) : e + 1 + k - 1 = e + k
        BY <1>1, <1>3
      <4> HIDE DEF e
      <4>2. /\ SubSeq(q, e + 1, n) = [k \in 1 .. (n - (e + 1) + 1) |-> q[e + 1 + k - 1]]
            /\ SubSeq(q, e + 1, n) \in Seq(T)
            /\ Len(SubSeq(q, e + 1, n)) = IF e + 1 <= n THEN n - (e + 1) + 1 ELSE 0
        BY <1>2, <1>3, <4>1, SubSeqIs
      <4> QED
        BY <4>1, <4>2
    <3> DEFINE d == SubSeq(q, e + 1, n)
    <3>2. \A k \in 1 .. Len(c) : d[k] = c[k]
      BY <1>2, <3>1
    <3> HIDE DEF d
    <3>3. d = c
      BY <1>1, <3>1, <3>2, SeqEqual DEF d
    <3> QED
      BY <1>2, <3>3 DEF d
  <2> HIDE DEF e
  <2> QED
    BY <1>2, <2>1, <2>2, LastComponent
<1> DEFINE C == Components(s)
           D == Components(q)
<1> HIDE DEF C, D
<1>13. /\ C \in Seq(Seq(T)) /\ D \in Seq(Seq(T)) /\ Len(C) \in Nat /\ Len(D) = Len(C) + 1
       /\ \A k \in 1 .. Len(C) : C[k] = D[k]
       /\ D[Len(C) + 1] = c
  <2>1. C \in Seq(Seq(T)) /\ D \in Seq(Seq(T)) /\ Len(D) = Len(C) + 1 /\ IsPrefix(C, D) /\ Last(D) = c
    BY <1>9, <1>10, <1>11, <1>12 DEF C, D
  <2>2. \A k \in 1 .. Len(C) : C[k] = D[k]
    BY <2>1, PrefixIs
  <2> QED
    BY <2>1, <2>2 DEF Last
<1>14. D = Append(C, c)
  <2>1. c \in Seq(T)
    BY <1>1
  <2>2. /\ Append(C, c) \in Seq(Seq(T)) /\ Len(Append(C, c)) = Len(C) + 1
        /\ \A k \in 1 .. Len(C) : Append(C, c)[k] = C[k]
        /\ Append(C, c)[Len(C) + 1] = c
    BY <1>13, <2>1, AppendProperties
  <2>3. \A k \in 1 .. Len(D) : D[k] = Append(C, c)[k]
    <3>1. \A k \in 1 .. Len(D) : k \in 1 .. Len(C) \/ k = Len(C) + 1
      BY <1>13
    <3> QED
      BY <1>13, <2>2, <3>1
  <2> QED
    BY <1>13, <2>2, <2>3, SeqEqual
<1> QED
  BY <1>14 DEF C, D, q

-----------------------------------------------------------------------------
(* Texts behind a text.                                                    *)

\* s \o t, for the provers to take as it stands.
Joined(s, t) == s \o t

LEMMA LongerBehind ==
  ASSUME NEW T, Slash \in T, NEW s \in Seq(T), NEW t \in Seq(T), NEW c \in Seq(T)
  PROVE  Joined(s, Longer(t, c)) = Longer(Joined(s, t), c)
<1> DEFINE u == <<Slash>>
<1>1. u \in Seq(T)
  OBVIOUS
<1> HIDE DEF u
<1>2. t \o u \in Seq(T) /\ s \o t \in Seq(T)
  BY <1>1, ConcatProperties
<1>3. (s \o (t \o u)) \o c = s \o ((t \o u) \o c)
  <2> DEFINE v == t \o u
  <2>1. v \in Seq(T)
    BY <1>2
  <2> HIDE DEF v
  <2>2. (s \o v) \o c = s \o (v \o c)
    BY <2>1, ConcatAssociative
  <2> QED
    BY <2>2 DEF v
<1>4. (s \o t) \o u = s \o (t \o u)
  BY <1>1, ConcatAssociative
<1> QED
  BY <1>3, <1>4 DEF Longer, Joined, u

\* The text of the first k of the components behind s.
TextBehind(s, comps, k) == Joined(s, FolderText(comps, k))

LEMMA BehindIs ==
  ASSUME NEW T, Slash \in T, NEW s \in Seq(T), NEW comps \in Seq(Names(T))
  PROVE  /\ TextBehind(s, comps, 0) = s
         /\ \A k \in 0 .. Len(comps) : TextBehind(s, comps, k) \in Seq(T)
         /\ \A k \in 1 .. Len(comps) :
              TextBehind(s, comps, k) = Longer(TextBehind(s, comps, k - 1), comps[k])
<1> DEFINE n == Len(comps)
<1>1. n \in Nat /\ \A k \in 1 .. n : comps[k] \in Names(T)
  OBVIOUS
<1>2. \A k \in 1 .. n : comps[k] \in Seq(T)
  BY <1>1 DEF Names
<1> HIDE DEF n
<1>3. /\ FolderText(comps, 0) = <<>>
      /\ \A k \in 0 .. n : FolderText(comps, k) \in Seq(T)
      /\ \A k \in 1 .. n : FolderText(comps, k) = Longer(FolderText(comps, k - 1), comps[k])
  BY <1>1, <1>2, FolderTextIs
<1>4. TextBehind(s, comps, 0) = s
  BY <1>3, ConcatEmptySeq DEF TextBehind, Joined
<1>5. \A k \in 0 .. n : TextBehind(s, comps, k) \in Seq(T)
  BY <1>3, ConcatProperties DEF TextBehind, Joined
<1>6. ASSUME NEW k \in 1 .. n
      PROVE  TextBehind(s, comps, k) = Longer(TextBehind(s, comps, k - 1), comps[k])
  <2> DEFINE t == FolderText(comps, k - 1)
             c == comps[k]
  <2>1. k - 1 \in 0 .. n
    BY <1>1
  <2>2. t \in Seq(T) /\ c \in Seq(T) /\ FolderText(comps, k) = Longer(t, c)
    BY <1>2, <1>3, <2>1
  <2> HIDE DEF t, c
  <2>3. Joined(s, Longer(t, c)) = Longer(Joined(s, t), c)
    BY <2>2, LongerBehind
  <2> QED
    BY <2>2, <2>3 DEF TextBehind, t, c
<1> QED
  BY <1>4, <1>5, <1>6 DEF n

LEMMA TextComponents ==
  ASSUME NEW T, Slash \in T, NEW s \in Seq(T), NEW comps \in Seq(Names(T)), NEW m \in 0 .. Len(comps)
  PROVE  Components(TextBehind(s, comps, m)) = Components(s) \o SubSeq(comps, 1, m)
<1> DEFINE n == Len(comps)
           C == Components(s)
           X(k) == TextBehind(s, comps, k)
           good == {k \in 0 .. n : Components(X(k)) = C \o SubSeq(comps, 1, k)}
<1>1. /\ X(0) = s
      /\ \A k \in 0 .. n : X(k) \in Seq(T)
      /\ \A k \in 1 .. n : X(k) = Longer(X(k - 1), comps[k])
  BY BehindIs
<1>2. C \in Seq(Names(T)) /\ n \in Nat /\ \A k \in 1 .. n : comps[k] \in Names(T)
  BY ComponentsNamed
<1> HIDE DEF n, C, X
<1>3. 0 \in good
  <2>1. SubSeq(comps, 1, 0) = <<>>
    BY SubSeqEmpty
  <2>2. Components(X(0)) = C \o SubSeq(comps, 1, 0)
    BY <1>1, <1>2, <2>1, ConcatEmptySeq DEF C
  <2> QED
    BY <1>2, <2>2
<1>4. ASSUME NEW k \in 1 .. n, k - 1 \in good
      PROVE  k \in good
  <2> DEFINE f == SubSeq(comps, 1, k - 1)
  <2>1. Components(X(k - 1)) = C \o f
    BY <1>4
  <2>2. X(k - 1) \in Seq(T) /\ comps[k] \in Names(T)
    BY <1>1, <1>2
  <2>3. Components(X(k)) = Append(Components(X(k - 1)), comps[k])
    BY <1>1, <2>2, OneMore
  <2>4. f \in Seq(Names(T))
    BY <1>2, SubSeqProperties
  <2>5. f \o <<comps[k]>> = SubSeq(comps, 1, k)
    BY <1>2, SubSeqRecursiveSecond DEF n
  <2> HIDE DEF f
  <2>6. <<comps[k]>> \in Seq(Names(T)) /\ C \o f \in Seq(Names(T))
    BY <1>2, <2>2, <2>4, ConcatProperties
  <2>7. Append(C \o f, comps[k]) = (C \o f) \o <<comps[k]>>
    BY <2>2, <2>6, AppendIsConcat
  <2>8. (C \o f) \o <<comps[k]>> = C \o (f \o <<comps[k]>>)
    <3> DEFINE one == <<comps[k]>>
    <3>1. C \in Seq(Names(T)) /\ f \in Seq(Names(T)) /\ one \in Seq(Names(T))
      BY <1>2, <2>4, <2>6
    <3> HIDE DEF one
    <3>2. (C \o f) \o one = C \o (f \o one)
      BY <3>1, ConcatAssociative, SMTT(30)
    <3> QED
      BY <3>2, Zenon DEF one
  <2>9. Components(X(k)) = C \o SubSeq(comps, 1, k)
    BY <2>1, <2>3, <2>5, <2>7, <2>8
  <2> QED
    BY <2>9
<1> HIDE DEF good
<1>5. \A k \in 0 .. n : k \in good
  BY <1>2, <1>3, <1>4, Induct
<1>6. m \in good
  BY <1>5 DEF n
<1> QED
  BY <1>6 DEF good, X, C

\* What a text goes on with.
Extends(p, q, further) ==
  /\ Len(p) <= Len(q)
  /\ \A j \in 1 .. Len(p) : q[j] = p[j]
  /\ further => Len(p) < Len(q) /\ q[Len(p) + 1] = Slash
  /\ ~further => p = q

LEMMA TextGrows ==
  ASSUME NEW T, Slash \in T, NEW s \in Seq(T), NEW comps \in Seq(Names(T)),
         NEW k \in 0 .. Len(comps), NEW l \in k .. Len(comps)
  PROVE  Extends(TextBehind(s, comps, k), TextBehind(s, comps, l), k < l)
<1> DEFINE n == Len(comps)
           X(i) == TextBehind(s, comps, i)
           good == {d \in 0 .. l - k : Extends(X(k), X(k + d), d > 0)}
<1>1. /\ \A i \in 0 .. n : X(i) \in Seq(T)
      /\ \A i \in 1 .. n : X(i) = Longer(X(i - 1), comps[i])
  BY BehindIs
<1>2. n \in Nat /\ \A i \in 1 .. n : comps[i] \in Names(T)
  OBVIOUS
<1>3. \A i \in 1 .. n : comps[i] \in Seq(T)
  BY <1>2 DEF Names
<1>4. k \in 0 .. n /\ l \in k .. n /\ l - k \in Nat
  OBVIOUS
<1> HIDE DEF X, n
<1>5. 0 \in good
  BY <1>1, <1>4 DEF Extends
<1>6. ASSUME NEW d \in 1 .. l - k, d - 1 \in good
      PROVE  d \in good
  <2> DEFINE i == k + d
             p == X(k)
             q == X(i - 1)
             r == X(i)
             c == comps[i]
  <2>1. i \in 1 .. n /\ i - 1 \in 0 .. n /\ i - 1 = k + (d - 1)
    BY <1>2, <1>4
  <2>2. Extends(p, q, d - 1 > 0)
    BY <1>6, <2>1
  <2> HIDE DEF i
  <2>3. p \in Seq(T) /\ q \in Seq(T) /\ c \in Seq(T) /\ r = Longer(q, c)
    BY <1>1, <1>3, <1>4, <2>1
  <2> HIDE DEF p, q, r, c
  <2>4. IsLonger(r, q, c, T)
    BY <2>3, LongerIs
  <2>5. /\ r \in Seq(T) /\ Len(r) = Len(q) + 1 + Len(c)
        /\ \A j \in 1 .. Len(q) : r[j] = q[j]
        /\ r[Len(q) + 1] = Slash
    BY <2>4 DEF IsLonger
  <2>6. Len(p) \in Nat /\ Len(q) \in Nat /\ Len(c) \in Nat
    BY <2>3
  <2>7. /\ Len(p) <= Len(q)
        /\ \A j \in 1 .. Len(p) : q[j] = p[j]
        /\ d - 1 > 0 => Len(p) < Len(q) /\ q[Len(p) + 1] = Slash
        /\ ~(d - 1 > 0) => p = q
    BY <2>2 DEF Extends
  <2>8. Len(p) < Len(r) /\ \A j \in 1 .. Len(p) : r[j] = p[j]
    BY <2>5, <2>6, <2>7
  <2>9. r[Len(p) + 1] = Slash
    <3>1. CASE d - 1 > 0
      <4>1. Len(p) + 1 \in 1 .. Len(q) /\ q[Len(p) + 1] = Slash
        BY <3>1, <2>6, <2>7
      <4> QED
        BY <4>1, <2>5
    <3>2. CASE ~(d - 1 > 0)
      BY <3>2, <2>5, <2>7
    <3> QED
      BY <3>1, <3>2
  <2>10. Extends(p, r, d > 0)
    BY <2>6, <2>8, <2>9 DEF Extends
  <2> QED
    BY <2>10 DEF p, r, i
<1> HIDE DEF good
<1>7. \A d \in 0 .. l - k : d \in good
  BY <1>4, <1>5, <1>6, Induct
<1>8. l - k \in good /\ k + (l - k) = l
  BY <1>4, <1>7
<1>9. Extends(X(k), X(l), l - k > 0)
  BY <1>8 DEF good
<1>10. l - k > 0 <=> k < l
  BY <1>4
<1> QED
  BY <1>9, <1>10 DEF X

\* Behind position a of q stands a name, which may be the last.
HasName(q, a, c, T, last) ==
  /\ q \in Seq(T)
  /\ c \in Names(T)
  /\ a \in Nat
  /\ \A j \in 1 .. Len(c) : q[a + j] = c[j]
  /\ a + Len(c) <= Len(q)
  /\ last <=> a + Len(c) = Len(q)
  /\ ~last => q[a + Len(c) + 1] = Slash

LEMMA NextName ==
  ASSUME NEW T, Slash \in T, NEW s \in Seq(T), NEW comps \in Seq(Names(T)),
         NEW k \in 0 .. Len(comps), NEW l \in k .. Len(comps), k < l
  PROVE  HasName(TextBehind(s, comps, l), Len(TextBehind(s, comps, k)) + 1, comps[k + 1], T, l = k + 1)
<1> DEFINE p == TextBehind(s, comps, k)
           q == TextBehind(s, comps, k + 1)
           r == TextBehind(s, comps, l)
           c == comps[k + 1]
           a == Len(p) + 1
<1>1. k + 1 \in 1 .. Len(comps) /\ k + 1 \in 0 .. Len(comps) /\ (k + 1) - 1 = k
      /\ l \in k + 1 .. Len(comps) /\ l \in 0 .. Len(comps)
  OBVIOUS
<1>2. c \in Names(T)
  BY <1>1
<1>3. c \in Seq(T) /\ Len(c) \in Nat
  BY <1>2 DEF Names
<1>4. p \in Seq(T) /\ q \in Seq(T) /\ r \in Seq(T) /\ q = Longer(p, c)
  <2> DEFINE X(i) == TextBehind(s, comps, i)
  <2>1. /\ \A i \in 0 .. Len(comps) : X(i) \in Seq(T)
        /\ \A i \in 1 .. Len(comps) : X(i) = Longer(X(i - 1), comps[i])
    BY BehindIs
  <2> HIDE DEF X
  <2>2. X(k) \in Seq(T) /\ X(k + 1) \in Seq(T) /\ X(l) \in Seq(T) /\ X(k + 1) = Longer(X(k), comps[k + 1])
    BY <1>1, <2>1
  <2> QED
    BY <2>2 DEF X
<1>5. Extends(q, r, k + 1 < l)
  BY <1>1, TextGrows
<1> HIDE DEF p, q, r, c
<1>6. IsLonger(q, p, c, T)
  BY <1>3, <1>4, LongerIs
<1>7. /\ Len(q) = Len(p) + 1 + Len(c) /\ Len(p) \in Nat
      /\ \A j \in 1 .. Len(c) : q[Len(p) + 1 + j] = c[j]
  BY <1>4, <1>6 DEF IsLonger
<1>8. /\ Len(q) <= Len(r)
      /\ \A j \in 1 .. Len(q) : r[j] = q[j]
      /\ k + 1 < l => Len(q) < Len(r) /\ r[Len(q) + 1] = Slash
      /\ ~(k + 1 < l) => q = r
  BY <1>5 DEF Extends
<1>9. \A j \in 1 .. Len(c) : a + j \in 1 .. Len(q)
  BY <1>3, <1>7
<1>10. \A j \in 1 .. Len(c) : r[a + j] = c[j]
  BY <1>7, <1>8, <1>9
<1>11. a \in Nat /\ a + Len(c) = Len(q)
  BY <1>3, <1>7
<1> HIDE DEF a
<1>12. k + 1 < l <=> ~(l = k + 1)
  BY <1>1
<1>13. l = k + 1 <=> Len(q) = Len(r)
  <2>1. Len(q) \in Nat /\ Len(r) \in Nat
    BY <1>4
  <2> QED
    BY <1>8, <1>12, <2>1
<1> QED
  BY <1>2, <1>4, <1>8, <1>10, <1>11, <1>12, <1>13 DEF HasName, r, a, c, p

(* Such a name is the first component of what is left there.               *)
\* A name comes first, and last if nothing follows.
NameFirst(rel, c, T, last) ==
  /\ rel \in Seq(T) /\ rel # <<>>
  /\ TrimStart(rel) = rel
  /\ RelativeName(rel) = c
  /\ Contains(rel, Slash) <=> ~last

LEMMA RelIs ==
  ASSUME NEW T, NEW q, NEW a, NEW c, NEW last, HasName(q, a, c, T, last)
  PROVE  NameFirst(SubSeq(q, a + 1, Len(q)), c, T, last)
<1> DEFINE rel == SubSeq(q, a + 1, Len(q))
<1>0. rel = SubSeq(q, a + 1, Len(q))
  OBVIOUS
<1> HIDE DEF rel
<1>1. /\ q \in Seq(T) /\ a \in Nat /\ a + Len(c) <= Len(q)
      /\ \A j \in 1 .. Len(c) : q[a + j] = c[j]
      /\ last <=> a + Len(c) = Len(q)
      /\ ~last => q[a + Len(c) + 1] = Slash
      /\ c \in Names(T)
  BY DEF HasName
<1>2. /\ c \in Seq(T) /\ Len(c) \in Nat \ {0} /\ \A j \in 1 .. Len(c) : c[j] # Slash
  BY <1>1 DEF Names
<1>3. /\ rel \in Seq(T) /\ Len(rel) = Len(q) - a /\ Len(q) \in Nat
      /\ \A j \in 1 .. Len(rel) : rel[j] = q[a + j]
  <2> DEFINE m == a + 1
             n == Len(q)
             u == SubSeq(q, m, n)
  <2>1. m \in Nat \ {0} /\ n \in Nat /\ m <= n /\ n - m + 1 = n - a /\ n - a \in Nat
        /\ \A j \in 1 .. n - a : m + j - 1 = a + j
    BY <1>1, <1>2
  <2>2. /\ u = [k \in 1 .. (n - m + 1) |-> q[m + k - 1]]
        /\ u \in Seq(T) /\ Len(u) = IF m <= n THEN n - m + 1 ELSE 0
    <3> HIDE DEF m
    <3> QED
      BY <1>1, <2>1, SubSeqIs
  <2>3. rel = u
    BY <1>0
  <2> HIDE DEF m, n, u
  <2>4. Len(u) = n - a /\ \A j \in 1 .. n - a : u[j] = q[a + j]
    BY <2>1, <2>2
  <2> QED
    BY <2>1, <2>2, <2>3, <2>4 DEF n
<1>4. /\ Len(c) <= Len(rel) /\ \A j \in 1 .. Len(c) : j \in 1 .. Len(rel) /\ rel[j] = c[j]
  BY <1>1, <1>2, <1>3
<1>5. rel # <<>> /\ rel[1] # Slash
  <2>1. 1 \in 1 .. Len(c) /\ Len(rel) # 0
    BY <1>2, <1>3, <1>4
  <2> QED
    BY <1>2, <1>4, <2>1
<1>6. TrimStart(rel) = rel
  BY <1>3, <1>5, TrimStartKeeps
<1>7. last <=> Len(c) = Len(rel)
  BY <1>1, <1>2, <1>3
<1>8. ~last => Len(c) + 1 \in 1 .. Len(rel) /\ rel[Len(c) + 1] = Slash
  <2> SUFFICES ASSUME ~last PROVE Len(c) + 1 \in 1 .. Len(rel) /\ rel[Len(c) + 1] = Slash
    OBVIOUS
  <2> DEFINE l == Len(c)
             m == Len(rel)
  <2>0. l \in Nat /\ m \in Nat /\ a \in Nat /\ l <= m /\ l # m
    BY <1>1, <1>2, <1>3, <1>4, <1>7
  <2>1. l + 1 \in 1 .. m /\ a + (l + 1) = a + l + 1
    <3> HIDE DEF l, m
    <3> QED
      BY <2>0
  <2> QED
    BY <1>1, <1>3, <2>1
<1>9. IsPrefix(Components(c), Components(rel))
  <2>1. IsPrefix(c, rel)
    BY <1>2, <1>3, <1>4, PrefixIs
  <2> QED
    BY <1>2, <1>3, <1>7, <1>8, <2>1, PrefixComponents
<1>10. Components(rel)[1] = c
  <2> DEFINE C == Components(c)
             D == Components(rel)
  <2> HIDE DEF C, D
  <2>1. D \in Seq(Seq(T)) /\ C \in Seq(Seq(T)) /\ IsPrefix(C, D)
    BY <1>2, <1>3, <1>9, ComponentsType DEF C, D
  <2>2. Len(C) = 1 /\ C[1] = c
    BY <1>1, OneName DEF C
  <2>3. \A k \in 1 .. Len(C) : C[k] = D[k]
    BY <2>1, PrefixIs
  <2> QED
    BY <2>2, <2>3 DEF D
<1>11. Contains(rel, Slash) <=> ~last
  <2>1. ASSUME last
        PROVE  ~Contains(rel, Slash)
    BY <1>2, <1>4, <1>7, <2>1 DEF Contains
  <2>2. ASSUME ~last
        PROVE  Contains(rel, Slash)
    BY <1>8, <2>2 DEF Contains
  <2> QED
    BY <2>1, <2>2
<1> QED
  BY <1>0, <1>3, <1>5, <1>6, <1>10, <1>11 DEF RelativeName, NameFirst

(* With a slash in front it is trimmed to the same.                        *)
LEMMA SlashTrimmed ==
  ASSUME NEW T, NEW q \in Seq(T), NEW a \in 1 .. Len(q), q[a] = Slash,
         a < Len(q), q[a + 1] # Slash
  PROVE  TrimStart(SubSeq(q, a, Len(q))) = SubSeq(q, a + 1, Len(q))
<1> DEFINE n == Len(q)
           s == SubSeq(q, a, n)
           others == {k \in 1 .. Len(s) : s[k] # Slash}
           first == SelectInSeq(s, LAMBDA t : t # Slash)
<1>1. n \in Nat /\ a \in Nat \ {0} /\ a < n
  OBVIOUS
<1>2. s = [k \in 1 .. (n - a + 1) |-> q[a + k - 1]] /\ s \in Seq(T) /\ Len(s) = n - a + 1
  BY <1>1, SubSeqIs
<1>3. first = IF others # {} THEN Min(others) ELSE 0
  BY DEF SelectInSeq
<1>4. TrimStart(s) = IF first = 0 THEN <<>> ELSE SubSeq(s, first, Len(s))
  BY DEF TrimStart, From
<1> HIDE DEF s, n, first
<1>5. s[1] = q[a] /\ s[2] = q[a + 1] /\ 2 \in 1 .. Len(s)
  BY <1>1, <1>2
<1>6. 2 \in others /\ 1 \notin others /\ others \in SUBSET Nat
  BY <1>5
<1> HIDE DEF others
<1>7. Min(others) \in others /\ \A k \in others : Min(others) <= k
  BY <1>6, Least
<1>8. \A k \in others : k \in Nat /\ k >= 1
  BY DEF others
<1>9. first = 2
  <2> DEFINE m == Min(others)
  <2> HIDE DEF m
  <2>1. m \in others /\ m <= 2
    BY <1>6, <1>7 DEF m
  <2>2. m \in Nat /\ m >= 1 /\ m # 1
    BY <1>6, <1>8, <2>1
  <2>3. first = m
    BY <1>3, <1>6 DEF m
  <2> QED
    BY <2>1, <2>2, <2>3
<1>10. SubSeq(s, 2, Len(s)) = SubSeq(q, a + 1, n)
  <2>1. a \in 1 .. n /\ 1 \in Nat /\ a \in Nat /\ a + 1 = a + 1 /\ a < n
    BY <1>1
  <2>2. SubSeq(SubSeq(q, a, n), 1 + 1, n - a + 1) = SubSeq(q, a + 1, n)
    BY <2>1, RestOfRest DEF n
  <2> QED
    BY <1>1, <1>2, <2>2 DEF s
<1> QED
  BY <1>4, <1>9, <1>10 DEF s, n

(* Where no name begins that of a neighbour, a text that begins another    *)
(* is that of the first of its components.                                 *)
LEMMA TextPrefix ==
  ASSUME NEW T, Slash \in T, NEW s \in Seq(T),
         NEW comps \in Seq(Names(T)), NEW others \in Seq(Names(T)), NEW k \in 0 .. Len(comps),
         IsPrefix(TextBehind(s, comps, k), TextBehind(s, others, Len(others))),
         \A j \in 1 .. k : /\ j <= Len(others)
                           /\ \A i \in 1 .. j - 1 : comps[i] = others[i]
                           /\ comps[j] # others[j]
                           => ~IsPrefix(comps[j], others[j])
  PROVE  k <= Len(others) /\ \A i \in 1 .. k : comps[i] = others[i]
<1> DEFINE n == Len(others)
           q == TextBehind(s, others, n)
           r == TextBehind(s, comps, k)
           good == {j \in 0 .. k : j <= n /\ \A i \in 1 .. j : comps[i] = others[i]}
<1>1. n \in Nat /\ Len(comps) \in Nat /\ k \in Nat
      /\ (\A i \in 1 .. n : others[i] \in Names(T)) /\ \A i \in 1 .. Len(comps) : comps[i] \in Names(T)
  OBVIOUS
<1>2. q \in Seq(T) /\ r \in Seq(T)
  BY <1>1, BehindIs
<1>3. IsPrefix(r, q)
  OBVIOUS
<1> HIDE DEF q, r
<1>4. Len(r) <= Len(q) /\ Len(q) \in Nat /\ \A i \in 1 .. Len(r) : r[i] = q[i]
  BY <1>2, <1>3, PrefixIs
<1>5. 0 \in good
  BY <1>1
<1>6. ASSUME NEW j \in 1 .. k, j - 1 \in good
      PROVE  j \in good
  <2> DEFINE p == TextBehind(s, comps, j - 1)
             u == TextBehind(s, comps, j)
             c == comps[j]
             d == others[j]
             a == Len(p) + 1
  <2>1. /\ j - 1 \in 0 .. Len(comps) /\ j \in 0 .. Len(comps) /\ j \in 1 .. Len(comps) /\ j - 1 \in Nat
        /\ k \in j .. Len(comps) /\ j - 1 <= n /\ \A i \in 1 .. j - 1 : comps[i] = others[i]
    BY <1>1, <1>6
  <2>2. p = TextBehind(s, others, j - 1)
    BY <2>1, SameText DEF TextBehind
  <2>3. p \in Seq(T) /\ u \in Seq(T) /\ u = Longer(p, c)
    BY <2>1, BehindIs
  <2>4. c \in Names(T) /\ c \in Seq(T) /\ \A i \in 1 .. Len(c) : c[i] # Slash
    BY <1>1, <2>1 DEF Names
  <2>5. Extends(u, r, j < k)
    BY <2>1, TextGrows DEF r
  <2> HIDE DEF p, u, c
  <2>6. IsLonger(u, p, c, T)
    BY <2>3, <2>4, LongerIs
  <2>7. /\ Len(u) = Len(p) + 1 + Len(c) /\ Len(p) \in Nat /\ Len(c) \in Nat
        /\ \A i \in 1 .. Len(c) : u[Len(p) + 1 + i] = c[i]
    BY <2>3, <2>4, <2>6 DEF IsLonger
  <2>8. Len(u) <= Len(r) /\ \A i \in 1 .. Len(u) : r[i] = u[i]
    BY <2>5 DEF Extends
  <2>9. Len(u) <= Len(q) /\ \A i \in 1 .. Len(u) : q[i] = u[i]
    BY <1>2, <1>4, <2>3, <2>8
  <2>10. j <= n
    <3>1. j - 1 = n => q = p
      BY <2>2 DEF q
    <3> QED
      BY <1>1, <2>1, <2>7, <2>9, <3>1
  <2>11. HasName(q, a, d, T, n = j)
    <3> DEFINE i == j - 1
    <3>1. i \in 0 .. n /\ n \in i .. n /\ i < n /\ i + 1 = j
      BY <1>1, <2>1, <2>10
    <3>2. p = TextBehind(s, others, i)
      BY <2>2
    <3> HIDE DEF i
    <3>3. HasName(TextBehind(s, others, n), Len(TextBehind(s, others, i)) + 1, others[i + 1], T, n = i + 1)
      BY <3>1, NextName
    <3> QED
      BY <3>1, <3>2, <3>3 DEF q
  <2> HIDE DEF d
  <2>12. /\ d \in Names(T) /\ \A i \in 1 .. Len(d) : q[a + i] = d[i]
         /\ a + Len(d) <= Len(q)
         /\ a + Len(d) # Len(q) => q[a + Len(d) + 1] = Slash
    BY <2>11 DEF HasName
  <2>13. d \in Seq(T) /\ Len(d) \in Nat
    BY <2>12 DEF Names
  <2>14. a \in Nat /\ Len(u) = a + Len(c)
    BY <2>7
  <2>15. \A i \in 1 .. Len(c) : q[a + i] = c[i]
    <3> SUFFICES ASSUME NEW i \in 1 .. Len(c) PROVE q[a + i] = c[i]
      OBVIOUS
    <3>1. a + i \in 1 .. Len(u)
      BY <2>7, <2>14
    <3>2. u[a + i] = c[i]
      BY <2>7
    <3> QED
      BY <2>9, <3>1, <3>2
  <2> HIDE DEF a
  <2>16. CASE Len(c) <= Len(d)
    <3>1. \A i \in 1 .. Len(c) : c[i] = d[i]
      BY <2>7, <2>12, <2>13, <2>15, <2>16
    <3>2. IsPrefix(c, d)
      BY <2>4, <2>13, <2>16, <3>1, PrefixIs
    <3>3. c = d
      BY <2>1, <2>10, <3>2 DEF c, d
    <3> QED
      <4>1. comps[j] = others[j]
        BY <3>3 DEF c, d
      <4>2. \A i \in 1 .. j : i \in 1 .. j - 1 \/ i = j
        BY <2>1
      <4>3. \A i \in 1 .. j : comps[i] = others[i]
        BY <2>1, <4>1, <4>2
      <4>4. j \in 0 .. k
        BY <1>1
      <4> QED
        BY <2>10, <4>3, <4>4
  <2>17. CASE Len(d) < Len(c)
    <3>1. Len(d) + 1 \in 1 .. Len(c) /\ a + (Len(d) + 1) = a + Len(d) + 1
      BY <2>7, <2>13, <2>14, <2>17
    <3>2. q[a + Len(d) + 1] = c[Len(d) + 1] /\ c[Len(d) + 1] # Slash
      BY <2>4, <2>15, <3>1
    <3>3. a + Len(d) # Len(q)
      BY <1>4, <2>7, <2>9, <2>13, <2>14, <2>17
    <3> QED
      BY <2>12, <3>2, <3>3
  <2> QED
    BY <2>7, <2>13, <2>16, <2>17
<1> HIDE DEF good
<1>7. \A j \in 0 .. k : j \in good
  BY <1>1, <1>5, <1>6, Induct
<1>8. k \in good
  BY <1>1, <1>7
<1> QED
  BY <1>8 DEF good

-----------------------------------------------------------------------------
(* The nodes of a tree.                                                    *)

LEMMA StartIs ==
  ASSUME NEW A, NEW q \in Seq(A)
  PROVE  /\ \A m \in 0 .. Len(q) : /\ SubSeq(q, 1, m) \in Seq(A) /\ Len(SubSeq(q, 1, m)) = m
                                   /\ IsPrefix(SubSeq(q, 1, m), q)
         /\ \A p \in Seq(A) : IsPrefix(p, q) => Len(p) \in 0 .. Len(q) /\ p = SubSeq(q, 1, Len(p))
<1>1. ASSUME NEW m \in 0 .. Len(q)
      PROVE  /\ SubSeq(q, 1, m) \in Seq(A) /\ Len(SubSeq(q, 1, m)) = m
             /\ IsPrefix(SubSeq(q, 1, m), q)
  <2> DEFINE p == SubSeq(q, 1, m)
  <2>1. m \in Nat /\ m <= Len(q) /\ Len(q) \in Nat
    OBVIOUS
  <2>2. p = [k \in 1 .. (m - 1 + 1) |-> q[1 + k - 1]] /\ p \in Seq(A)
        /\ Len(p) = IF 1 <= m THEN m - 1 + 1 ELSE 0
    BY <2>1, SubSeqIs
  <2>3. Len(p) = m /\ \A k \in 1 .. m : p[k] = q[k]
    BY <2>1, <2>2
  <2> HIDE DEF p
  <2>4. IsPrefix(p, q)
    BY <2>1, <2>2, <2>3, PrefixIs
  <2> QED
    BY <2>2, <2>3, <2>4 DEF p
<1>2. ASSUME NEW p \in Seq(A), IsPrefix(p, q)
      PROVE  Len(p) \in 0 .. Len(q) /\ p = SubSeq(q, 1, Len(p))
  <2>1. SubSeq(p, 1, Len(p)) = p
    BY SubSeqFull
  <2>2. Len(p) \in Nat /\ Len(q) \in Nat /\ Len(p) <= Len(q) /\ SubSeq(p, 1, Len(p)) = SubSeq(q, 1, Len(p))
    BY <1>2 DEF IsPrefix
  <2> QED
    BY <2>1, <2>2
<1> QED
  BY <1>1, <1>2

\* The entries of a host: their components by the indices of their rows, of
\* which none begins another's.
Apiece(own, c, n, A) ==
  /\ n \in Nat
  /\ own \in SUBSET (1 .. n)
  /\ \A i \in own : c[i] \in Seq(A) /\ c[i] # <<>>
  /\ \A i, j \in own : IsPrefix(c[i], c[j]) => i = j

Under(own, c, node) == {i \in own : IsPrefix(node, c[i])}

StartsOf(s) == {SubSeq(s, 1, m) : m \in 0 .. Len(s)}

\* The nodes that the first k rows make.
NodesOf(own, c, k) == {<<>>} \cup UNION {StartsOf(c[i]) : i \in {j \in own : j <= k}}

OneEach(n) == [i \in 1 .. n |-> 1]

NodeOf(own, c, w, n, node, k) ==
  [dir |-> \A i \in own : c[i] # node,
   size |-> Part(w, Under(own, c, node), n)[k],
   files |-> Part(OneEach(n), Under(own, c, node), n)[k]]

TreeAfter(own, c, w, n, k) == [node \in NodesOf(own, c, k) |-> NodeOf(own, c, w, n, node, k)]

LEMMA NodesAre ==
  ASSUME NEW own, NEW c, NEW n, NEW A, Apiece(own, c, n, A), NEW k \in Nat
  PROVE  /\ NodesOf(own, c, k) \in SUBSET Seq(A)
         /\ \A node \in Seq(A) : node \in NodesOf(own, c, k)
              <=> node = <<>> \/ \E i \in own : i <= k /\ IsPrefix(node, c[i])
<1> USE DEF Apiece
<1>1. ASSUME NEW i \in own
      PROVE  /\ StartsOf(c[i]) \in SUBSET Seq(A)
             /\ \A node \in Seq(A) : node \in StartsOf(c[i]) <=> IsPrefix(node, c[i])
  <2> DEFINE s == c[i]
  <2>1. s \in Seq(A)
    OBVIOUS
  <2> HIDE DEF s
  <2>2. \A m \in 0 .. Len(s) : SubSeq(s, 1, m) \in Seq(A) /\ IsPrefix(SubSeq(s, 1, m), s)
    BY <2>1, StartIs
  <2>3. \A p \in Seq(A) : IsPrefix(p, s) => Len(p) \in 0 .. Len(s) /\ p = SubSeq(s, 1, Len(p))
    BY <2>1, StartIs
  <2>4. StartsOf(s) \in SUBSET Seq(A)
    BY <2>2 DEF StartsOf
  <2>5. ASSUME NEW p \in Seq(A)
        PROVE  p \in StartsOf(s) <=> IsPrefix(p, s)
    BY <2>2, <2>3 DEF StartsOf
  <2> QED
    BY <2>4, <2>5 DEF s
<1>2. <<>> \in Seq(A)
  OBVIOUS
<1> QED
  BY <1>1, <1>2 DEF NodesOf

(* What is not above an entry before row k has counted nothing yet.        *)
LEMMA NothingYet ==
  ASSUME NEW own, NEW c, NEW n, NEW A, Apiece(own, c, n, A), NEW k \in 0 .. n,
         NEW node \in Seq(A), NEW w \in [1 .. n -> Nat],
         \A i \in own : i <= k => ~IsPrefix(node, c[i])
  PROVE  Part(w, Under(own, c, node), n)[k] = 0
<1> DEFINE S == Under(own, c, node)
<1>1. n \in Nat
  BY DEF Apiece
<1>2. \A i \in 0 + 1 .. k : i \notin S
  BY DEF Under
<1> HIDE DEF S
<1>3. 0 \in 0 .. n /\ k \in 0 .. n
  BY <1>1
<1>4. Part(w, S, n)[k] = Part(w, S, n)[0]
  BY <1>1, <1>2, <1>3, PartStays
<1>5. Part(w, S, n)[0] = 0
  BY <1>1, PartIs DEF IsPart
<1> QED
  BY <1>4, <1>5 DEF S

LEMMA FirstTree ==
  ASSUME NEW own, NEW c, NEW n, NEW A, Apiece(own, c, n, A), NEW w \in [1 .. n -> Nat]
  PROVE  TreeAfter(own, c, w, n, 0) = [root \in {<<>>} |-> NewNode]
<1>1. n \in Nat /\ OneEach(n) \in [1 .. n -> Nat] /\ own \in SUBSET (1 .. n)
  BY DEF Apiece, OneEach
<1>2. NodesOf(own, c, 0) = {<<>>}
  <2>1. \A j \in own : j \in Nat /\ j > 0
    BY <1>1
  <2>2. {j \in own : j <= 0} = {}
    BY <2>1
  <2> QED
    BY <2>2 DEF NodesOf
<1>3. \A S : Part(w, S, n)[0] = 0 /\ Part(OneEach(n), S, n)[0] = 0
  BY <1>1, PartIs DEF IsPart
<1>4. \A i \in own : c[i] # <<>>
  BY DEF Apiece
<1>5. NodeOf(own, c, w, n, <<>>, 0) = NewNode
  BY <1>3, <1>4 DEF NodeOf, NewNode
<1> QED
  BY <1>2, <1>5 DEF TreeAfter

LEMMA TreeStays ==
  ASSUME NEW own, NEW c, NEW n, NEW A, Apiece(own, c, n, A), NEW w \in [1 .. n -> Nat],
         NEW k \in 1 .. n, k \notin own
  PROVE  TreeAfter(own, c, w, n, k) = TreeAfter(own, c, w, n, k - 1)
<1>1. n \in Nat /\ OneEach(n) \in [1 .. n -> Nat] /\ own \in SUBSET (1 .. n)
  BY DEF Apiece, OneEach
<1>2. {j \in own : j <= k} = {j \in own : j <= k - 1}
  <2>1. \A j \in own : j \in Nat /\ j # k
    BY <1>1
  <2>2. \A j \in own : j <= k <=> j <= k - 1
    BY <1>1, <2>1
  <2> QED
    BY <2>2
<1>3. NodesOf(own, c, k) = NodesOf(own, c, k - 1)
  BY <1>2 DEF NodesOf
<1>4. ASSUME NEW node
      PROVE  NodeOf(own, c, w, n, node, k) = NodeOf(own, c, w, n, node, k - 1)
  <2>1. k \notin Under(own, c, node)
    BY DEF Under
  <2> DEFINE S == Under(own, c, node)
  <2> HIDE DEF S
  <2>2. Part(w, S, n)[k] = Part(w, S, n)[k - 1] /\ Part(OneEach(n), S, n)[k] = Part(OneEach(n), S, n)[k - 1]
    <3>1. IsPart(Part(w, S, n), w, S, n) /\ IsPart(Part(OneEach(n), S, n), OneEach(n), S, n)
      BY <1>1, PartIs
    <3> QED
      BY <2>1, <3>1 DEF IsPart, S
  <2> QED
    BY <2>2 DEF NodeOf, S
<1> QED
  BY <1>3, <1>4 DEF TreeAfter

LEMMA TreeGrows ==
  ASSUME NEW own, NEW c, NEW n, NEW A, Apiece(own, c, n, A), NEW w \in [1 .. n -> Nat],
         NEW k \in own
  PROVE  TreeAfter(own, c, w, n, k)
           = Insert(TreeAfter(own, c, w, n, k - 1), [size |-> w[k], comps |-> c[k]])
<1> DEFINE tree == TreeAfter(own, c, w, n, k - 1)
           s == c[k]
           nodes == NodesOf(own, c, k - 1)
           ones == OneEach(n)
<1>1. /\ n \in Nat /\ ones \in [1 .. n -> Nat] /\ own \in SUBSET (1 .. n)
      /\ k \in 1 .. n /\ k \in Nat /\ k - 1 \in Nat /\ k - 1 \in 0 .. n /\ s \in Seq(A) /\ s # <<>>
  <2>1. n \in Nat /\ own \in SUBSET (1 .. n) /\ s \in Seq(A) /\ s # <<>>
    BY DEF Apiece
  <2>2. ones \in [1 .. n -> Nat]
    BY DEF OneEach
  <2>3. k \in 1 .. n
    BY <2>1
  <2> HIDE DEF s, ones
  <2> QED
    BY <2>1, <2>2, <2>3
<1>2. \A i \in 1 .. n : ones[i] = 1
  BY DEF OneEach
<1>3. DOMAIN tree = nodes /\ \A x \in nodes : tree[x] = NodeOf(own, c, w, n, x, k - 1)
  BY DEF TreeAfter
<1>4. NodesOf(own, c, k) = nodes \cup StartsOf(s)
  <2>1. {j \in own : j <= k} = {j \in own : j <= k - 1} \cup {k}
    <3>1. \A j \in own : j \in Nat
      BY <1>1
    <3>2. \A j \in own : j <= k <=> j <= k - 1 \/ j = k
      BY <1>1, <3>1
    <3> QED
      BY <3>2
  <2> QED
    BY <2>1 DEF NodesOf
<1>5. /\ nodes \in SUBSET Seq(A) /\ NodesOf(own, c, k) \in SUBSET Seq(A)
      /\ \A x \in Seq(A) : x \in nodes <=> x = <<>> \/ \E i \in own : i <= k - 1 /\ IsPrefix(x, c[i])
      /\ \A x \in Seq(A) : x \in NodesOf(own, c, k) <=> x = <<>> \/ \E i \in own : i <= k /\ IsPrefix(x, c[i])
  BY <1>1, NodesAre
<1> HIDE DEF tree, s, nodes, ones
<1> DEFINE new(x) == IF ~IsPrefix(x, s) THEN tree[x]
                     ELSE LET old == IF x \in DOMAIN tree THEN tree[x] ELSE NewNode
                          IN  [dir |-> x # s \/ x = <<>>, size |-> old.size + w[k], files |-> old.files + 1]
<1>6. Insert(tree, [size |-> w[k], comps |-> s]) = [x \in nodes \cup StartsOf(s) |-> new(x)]
  BY <1>3 DEF Insert, StartsOf
<1>7. ASSUME NEW x \in nodes \cup StartsOf(s)
      PROVE  new(x) = NodeOf(own, c, w, n, x, k)
  <2> DEFINE S == Under(own, c, x)
             sizes == Part(w, S, n)
             files == Part(ones, S, n)
  <2>1. x \in Seq(A)
    BY <1>4, <1>5
  <2>2. NodeOf(own, c, w, n, x, k) = [dir |-> \A i \in own : c[i] # x, size |-> sizes[k], files |-> files[k]]
    BY DEF NodeOf, ones
  <2>3. NodeOf(own, c, w, n, x, k - 1)
          = [dir |-> \A i \in own : c[i] # x, size |-> sizes[k - 1], files |-> files[k - 1]]
    BY DEF NodeOf, ones
  <2>4. k \in S <=> IsPrefix(x, s)
    BY DEF Under, s
  <2> HIDE DEF S
  <2>5. /\ sizes[k] = IF k \in S THEN sizes[k - 1] + w[k] ELSE sizes[k - 1]
        /\ files[k] = IF k \in S THEN files[k - 1] + ones[k] ELSE files[k - 1]
    <3>1. IsPart(sizes, w, S, n) /\ IsPart(files, ones, S, n)
      BY <1>1, PartIs
    <3> QED
      BY <1>1, <3>1 DEF IsPart
  <2>6. ASSUME x \notin nodes
        PROVE  sizes[k - 1] = 0 /\ files[k - 1] = 0
    <3>1. \A i \in own : i <= k - 1 => ~IsPrefix(x, c[i])
      BY <1>5, <2>1, <2>6
    <3> QED
      BY <1>1, <2>1, <3>1, NothingYet DEF S, ones
  <2> HIDE DEF sizes, files
  <2>7. CASE ~IsPrefix(x, s)
    <3>1. x \in nodes
      <4>1. x # <<>> \/ x = <<>>
        OBVIOUS
      <4>2. x \in NodesOf(own, c, k)
        BY <1>4
      <4>3. \A i \in own : i \in Nat
        BY <1>1
      <4>4. x = <<>> \/ \E i \in own : i <= k - 1 /\ IsPrefix(x, c[i])
        BY <1>1, <1>5, <2>1, <2>7, <4>2, <4>3 DEF s
      <4> QED
        BY <1>5, <2>1, <4>4
    <3>2. new(x) = NodeOf(own, c, w, n, x, k - 1)
      BY <1>3, <2>7, <3>1
    <3> QED
      BY <2>2, <2>3, <2>4, <2>5, <2>7, <3>2
  <2>8. CASE IsPrefix(x, s)
    <3> DEFINE old == IF x \in DOMAIN tree THEN tree[x] ELSE NewNode
    <3>1. old.size = sizes[k - 1] /\ old.files = files[k - 1]
      <4>1. CASE x \in nodes
        BY <1>3, <2>3, <4>1
      <4>2. CASE x \notin nodes
        BY <1>3, <2>6, <4>2 DEF NewNode
      <4> QED
        BY <4>1, <4>2
    <3>2. new(x) = [dir |-> x # s \/ x = <<>>, size |-> old.size + w[k], files |-> old.files + 1]
      BY <2>8
    <3>3. (x # s \/ x = <<>>) <=> \A i \in own : c[i] # x
      <4>1. ASSUME x = <<>>
            PROVE  \A i \in own : c[i] # x
        BY <4>1 DEF Apiece
      <4>2. ASSUME x # s
            PROVE  \A i \in own : c[i] # x
        <5>1. \A i \in own : c[i] = x => i = k
          BY <2>8 DEF Apiece, s
        <5> QED
          BY <4>2, <5>1 DEF s
      <4>3. ASSUME x = s, x # <<>>
            PROVE  ~\A i \in own : c[i] # x
        BY <4>3 DEF s
      <4> QED
        BY <1>1, <4>1, <4>2, <4>3
    <3> HIDE DEF old
    <3>4. (x # s \/ x = <<>>) = \A i \in own : c[i] # x
      BY <3>3
    <3>5. sizes[k] = old.size + w[k] /\ files[k] = old.files + 1
      BY <1>1, <1>2, <2>4, <2>5, <2>8, <3>1
    <3> QED
      BY <2>2, <3>2, <3>4, <3>5
  <2> QED
    BY <2>7, <2>8
<1> HIDE DEF new
<1>8. [x \in nodes \cup StartsOf(s) |-> new(x)] = [x \in nodes \cup StartsOf(s) |-> NodeOf(own, c, w, n, x, k)]
  BY <1>7
<1> QED
  BY <1>4, <1>6, <1>8 DEF TreeAfter, tree, s

LEMMA EmptyStart ==
  ASSUME NEW T, NEW p \in Seq(T)
  PROVE  IsPrefix(<<>>, p)
<1>1. 0 \in 0 .. Len(p)
  OBVIOUS
<1>2. IsPrefix(SubSeq(p, 1, 0), p)
  BY <1>1, StartIs
<1>3. SubSeq(p, 1, 0) = <<>>
  BY SubSeqEmpty
<1> QED
  BY <1>2, <1>3

\* The trees that rows of a host make one after the other.
IsGrown(f, own, c, w, n) ==
  f = [k \in 0 .. n |-> IF k = 0 THEN [root \in {<<>>} |-> NewNode]
                        ELSE IF k \notin own THEN f[k - 1]
                        ELSE Insert(f[k - 1], [size |-> w[k], comps |-> c[k]])]

LEMMA GrownIs ==
  ASSUME NEW own, NEW c, NEW n, NEW A, Apiece(own, c, n, A), NEW w \in [1 .. n -> Nat]
  PROVE  (CHOOSE f : IsGrown(f, own, c, w, n))[n] = TreeAfter(own, c, w, n, n)
<1> DEFINE F == [k \in 0 .. n |-> TreeAfter(own, c, w, n, k)]
           step(f, k) == IF k = 0 THEN [root \in {<<>>} |-> NewNode]
                         ELSE IF k \notin own THEN f[k - 1]
                         ELSE Insert(f[k - 1], [size |-> w[k], comps |-> c[k]])
           g == CHOOSE f : IsGrown(f, own, c, w, n)
           good == {k \in 0 .. n : g[k] = F[k]}
<1>1. n \in Nat /\ own \in SUBSET (1 .. n)
  BY DEF Apiece
<1>2. \A k \in 0 .. n : F[k] = TreeAfter(own, c, w, n, k)
  OBVIOUS
<1>3. F = [k \in 0 .. n |-> F[k]]
  OBVIOUS
<1> HIDE DEF F
<1>4. ASSUME NEW k \in 0 .. n
      PROVE  F[k] = step(F, k)
  <2>1. CASE k = 0
    <3>1. TreeAfter(own, c, w, n, 0) = [root \in {<<>>} |-> NewNode]
      BY FirstTree
    <3> QED
      BY <1>2, <2>1, <3>1
  <2>2. CASE k # 0
    <3>1. k \in 1 .. n /\ k - 1 \in 0 .. n
      BY <1>1, <2>2
    <3>2. F[k] = TreeAfter(own, c, w, n, k) /\ F[k - 1] = TreeAfter(own, c, w, n, k - 1)
      BY <1>2, <3>1
    <3>3. CASE k \notin own
      <4>1. TreeAfter(own, c, w, n, k) = TreeAfter(own, c, w, n, k - 1)
        BY <3>1, <3>3, TreeStays
      <4> QED
        BY <2>2, <3>2, <3>3, <4>1
    <3>4. CASE k \in own
      <4>1. TreeAfter(own, c, w, n, k)
              = Insert(TreeAfter(own, c, w, n, k - 1), [size |-> w[k], comps |-> c[k]])
        BY <3>4, TreeGrows
      <4> QED
        BY <2>2, <3>2, <3>4, <4>1
    <3> QED
      BY <3>3, <3>4
  <2> QED
    BY <2>1, <2>2
<1>5. \A f : IsGrown(f, own, c, w, n) <=> f = [k \in 0 .. n |-> step(f, k)]
  BY DEF IsGrown
<1>6. IsGrown(F, own, c, w, n)
  <2>1. [k \in 0 .. n |-> F[k]] = [k \in 0 .. n |-> step(F, k)]
    <3> HIDE DEF step
    <3> QED
      BY <1>4
  <2> QED
    BY <1>3, <1>5, <2>1
<1>7. IsGrown(g, own, c, w, n)
  BY <1>6
<1> HIDE DEF g
<1>8. \A k \in 0 .. n : g[k] = step(g, k)
  <2>1. g = [k \in 0 .. n |-> step(g, k)]
    BY <1>5, <1>7
  <2> HIDE DEF step
  <2> QED
    BY <2>1
<1>9. 0 \in good
  <2>1. 0 \in 0 .. n
    BY <1>1
  <2>2. g[0] = step(g, 0) /\ F[0] = step(F, 0)
    BY <1>4, <1>8, <2>1
  <2>3. g[0] = F[0]
    BY <2>2
  <2> QED
    BY <2>1, <2>3
<1>10. ASSUME NEW k \in 1 .. n, k - 1 \in good
       PROVE  k \in good
  <2>1. k \in 0 .. n /\ g[k - 1] = F[k - 1]
    BY <1>10
  <2>2. g[k] = step(g, k) /\ F[k] = step(F, k)
    BY <1>4, <1>8, <2>1
  <2>3. step(g, k) = step(F, k)
    BY <2>1
  <2> HIDE DEF step
  <2> QED
    BY <2>1, <2>2, <2>3
<1> HIDE DEF good
<1>11. \A k \in 0 .. n : k \in good
  BY <1>1, <1>9, <1>10, Induct
<1>12. n \in good /\ n \in 0 .. n
  BY <1>1, <1>11
<1>13. g[n] = F[n]
  BY <1>12 DEF good
<1> QED
  BY <1>2, <1>12, <1>13 DEF g

-----------------------------------------------------------------------------
(* The entries of a host.                                                  *)

Own(host) == OfHost(rows, host, Maps)

CompsOf(host) == [i \in Own(host) |-> Components(PathShown(rows[i], host))]

RowSizes == [i \in 1 .. Len(rows) |-> rows[i].size]

\* What the lemmas on one state take from the invariant.
Stored == rows \in Seq(Row) /\ Maps \in Seq(UrlMap)

LEMMA StoredTyped ==
  ASSUME Stored, NEW host
  PROVE  /\ Len(rows) \in Nat /\ DOMAIN rows = 1 .. Len(rows)
         /\ RowSizes \in [1 .. Len(rows) -> Nat] /\ Own(host) \in SUBSET (1 .. Len(rows))
         /\ \A i \in 1 .. Len(rows) : Rooted(rows[i].url) /\ rows[i].url \in Location
         /\ \A i \in 1 .. Len(rows) : PathShown(rows[i], host) \in Seq(Token)
<1>1. rows \in Seq(Row) /\ Maps \in Seq(UrlMap)
  BY DEF Stored
<1>2. Len(rows) \in Nat /\ DOMAIN rows = 1 .. Len(rows) /\ \A i \in 1 .. Len(rows) : rows[i] \in Row
  BY <1>1
<1>3. \A i \in 1 .. Len(rows) : Rooted(rows[i].url) /\ rows[i].url \in Location /\ rows[i].size \in Nat
  BY <1>2 DEF Row
<1>4. \A i \in 1 .. Len(rows) : PathShown(rows[i], host) \in Seq(Token)
  BY <1>1, <1>3, ShownTyped DEF PathShown
<1>5. RowSizes \in [1 .. Len(rows) -> Nat]
  BY <1>3 DEF RowSizes
<1>6. Own(host) \in SUBSET (1 .. Len(rows))
  BY <1>2 DEF Own, OfHost
<1> QED
  BY <1>2, <1>3, <1>4, <1>5, <1>6

LEMMA OwnApiece ==
  ASSUME Stored, NEW host, Plain(host)
  PROVE  Apiece(Own(host), CompsOf(host), Len(rows), Names(Token))
<1> DEFINE p(i) == PathShown(rows[i], host)
           c(i) == Components(p(i))
<1>1. Len(rows) \in Nat /\ Own(host) \in SUBSET (1 .. Len(rows)) /\ \A i \in Own(host) : p(i) \in Seq(Token)
  BY StoredTyped
<1>2. /\ \A i, j \in Own(host) : p(i) = p(j) => i = j
      /\ Tidy({p(i) : i \in Own(host)})
  BY DEF Plain, Own
<1>3. \A i \in Own(host) : p(i) # <<>> /\ p(i) = FolderText(c(i), Len(c(i)))
  BY <1>2 DEF Tidy
<1>4. \A i, j \in Own(host) : p(i) # p(j) => ~IsPrefix(c(i), c(j))
  BY <1>2 DEF Tidy
<1>5. \A i \in Own(host) : CompsOf(host)[i] = c(i)
  BY DEF CompsOf
<1> HIDE DEF p
<1>6. ASSUME NEW i \in Own(host)
      PROVE  c(i) \in Seq(Names(Token)) /\ c(i) # <<>>
  <2>1. c(i) \in Seq(Names(Token))
    BY <1>1, ComponentsNamed
  <2>2. FolderText(<<>>, Len(<<>>)) = <<>>
    <3>1. Slash \in Token /\ Len(<<>>) = 0 /\ \A k \in 1 .. 0 : <<>>[k] \in Seq(Token)
      BY DEF Token
    <3> QED
      BY <3>1, FolderTextIs
  <2>3. c(i) # <<>>
    BY <1>3, <2>2
  <2> QED
    BY <2>1, <2>3
<1> HIDE DEF c
<1>7. \A i, j \in Own(host) : IsPrefix(c(i), c(j)) => i = j
  BY <1>2, <1>4
<1> QED
  BY <1>1, <1>5, <1>6, <1>7 DEF Apiece

LEMMA TreeIs ==
  ASSUME Stored, NEW host, Plain(host)
  PROVE  TreeOf(host) = TreeAfter(Own(host), CompsOf(host), RowSizes, Len(rows), Len(rows))
<1> DEFINE n == Len(rows)
           entry(k) == [size |-> rows[k].size, comps |-> Components(Shown(rows[k].url, host, Maps).path)]
           IsTree(f) == f = [k \in 0 .. n |->
                               IF k = 0 THEN [root \in {<<>>} |-> NewNode]
                               ELSE IF ~Removes(rows[k], host, <<>>, Maps) THEN f[k - 1]
                               ELSE Insert(f[k - 1], entry(k))]
<1>1. TreeOf(host) = (CHOOSE f : IsTree(f))[n]
  BY DEF TreeOf, Tree
<1>2. /\ n \in Nat /\ DOMAIN rows = 1 .. n
      /\ \A k \in 1 .. n : PathShown(rows[k], host) \in Seq(Token)
  BY StoredTyped
<1>3. ASSUME NEW k \in 1 .. n
      PROVE  Removes(rows[k], host, <<>>, Maps) <=> k \in Own(host)
  <2> DEFINE p == PathShown(rows[k], host)
  <2>1. p \in Seq(Token)
    BY <1>2
  <2>2. p = Shown(rows[k].url, host, Maps).path
    BY DEF PathShown
  <2> HIDE DEF p
  <2>3. IsPrefix(<<>>, p)
    BY <2>1, EmptyStart
  <2> QED
    BY <1>2, <2>2, <2>3 DEF Removes, Own, OfHost
<1>4. ASSUME NEW k \in Own(host)
      PROVE  entry(k) = [size |-> RowSizes[k], comps |-> CompsOf(host)[k]]
  <2>1. k \in 1 .. n
    BY StoredTyped
  <2> QED
    BY <2>1 DEF RowSizes, CompsOf, PathShown
<1> HIDE DEF entry
<1>5. ASSUME NEW f
      PROVE  IsTree(f) <=> IsGrown(f, Own(host), CompsOf(host), RowSizes, n)
  <2> DEFINE one(k) == IF k = 0 THEN [root \in {<<>>} |-> NewNode]
                       ELSE IF ~Removes(rows[k], host, <<>>, Maps) THEN f[k - 1]
                       ELSE Insert(f[k - 1], entry(k))
             other(k) == IF k = 0 THEN [root \in {<<>>} |-> NewNode]
                         ELSE IF k \notin Own(host) THEN f[k - 1]
                         ELSE Insert(f[k - 1], [size |-> RowSizes[k], comps |-> CompsOf(host)[k]])
  <2>1. ASSUME NEW k \in 0 .. n
        PROVE  one(k) = other(k)
    <3>1. k # 0 => k \in 1 .. n
      BY <1>2
    <3> QED
      BY <1>3, <1>4, <3>1
  <2>2. IsTree(f) <=> f = [k \in 0 .. n |-> one(k)]
    OBVIOUS
  <2>3. IsGrown(f, Own(host), CompsOf(host), RowSizes, n) <=> f = [k \in 0 .. n |-> other(k)]
    BY DEF IsGrown
  <2> HIDE DEF one, other
  <2>4. [k \in 0 .. n |-> one(k)] = [k \in 0 .. n |-> other(k)]
    BY <2>1
  <2> QED
    BY <2>2, <2>3, <2>4
<1> HIDE DEF IsTree
<1>6. (CHOOSE f : IsTree(f)) = (CHOOSE f : IsGrown(f, Own(host), CompsOf(host), RowSizes, n))
  BY <1>5
<1>7. RowSizes \in [1 .. n -> Nat]
  BY StoredTyped
<1> QED
  BY <1>1, <1>6, <1>7, OwnApiece, GrownIs

-----------------------------------------------------------------------------
(* The totals of hosts.                                                    *)

Sharing(g, n, h) == {i \in 1 .. n : g[i] = h}

\* What the first k rows make of them; g is the host of a row.
HostsAfter(g, w, n, k) ==
  [h \in {g[i] : i \in 1 .. k} |->
     [size |-> Part(w, Sharing(g, n, h), n)[k], files |-> Part(OneEach(n), Sharing(g, n, h), n)[k]]]

IsCounted(f, g, w, n) ==
  f = [k \in 0 .. n |-> IF k = 0 THEN [h \in {} |-> 0] ELSE CountHost(f[k - 1], g[k], w[k])]

LEMMA HostsGrow ==
  ASSUME NEW n \in Nat, NEW g, NEW w \in [1 .. n -> Nat], NEW k \in 1 .. n
  PROVE  HostsAfter(g, w, n, k) = CountHost(HostsAfter(g, w, n, k - 1), g[k], w[k])
<1> DEFINE hosts == HostsAfter(g, w, n, k - 1)
           ones == OneEach(n)
           before == {g[i] : i \in 1 .. k - 1}
           total(h, l) == [size |-> Part(w, Sharing(g, n, h), n)[l], files |-> Part(ones, Sharing(g, n, h), n)[l]]
           old == IF g[k] \in DOMAIN hosts THEN hosts[g[k]] ELSE [size |-> 0, files |-> 0]
           new(h) == IF h = g[k] THEN [size |-> old.size + w[k], files |-> old.files + 1] ELSE hosts[h]
<1>1. ones \in [1 .. n -> Nat] /\ ones[k] = 1 /\ k - 1 \in 0 .. n /\ k \in 0 .. n
  BY DEF OneEach
<1>2. hosts = [h \in before |-> total(h, k - 1)]
  BY DEF HostsAfter
<1>3. HostsAfter(g, w, n, k) = [h \in before \cup {g[k]} |-> total(h, k)]
  <2>1. \A i \in 1 .. k : i \in 1 .. k - 1 \/ i = k
    OBVIOUS
  <2>2. {g[i] : i \in 1 .. k} = before \cup {g[k]}
    BY <2>1
  <2> QED
    BY <2>2 DEF HostsAfter
<1>4. CountHost(hosts, g[k], w[k]) = [h \in DOMAIN hosts \cup {g[k]} |-> new(h)]
  BY DEF CountHost
<1>5. ASSUME NEW h
      PROVE  /\ Part(w, Sharing(g, n, h), n)[k]
                  = IF g[k] = h THEN Part(w, Sharing(g, n, h), n)[k - 1] + w[k]
                    ELSE Part(w, Sharing(g, n, h), n)[k - 1]
             /\ Part(ones, Sharing(g, n, h), n)[k]
                  = IF g[k] = h THEN Part(ones, Sharing(g, n, h), n)[k - 1] + 1
                    ELSE Part(ones, Sharing(g, n, h), n)[k - 1]
  <2> DEFINE S == Sharing(g, n, h)
  <2>1. k \in S <=> g[k] = h
    BY DEF Sharing
  <2> HIDE DEF S, ones
  <2>2. IsPart(Part(w, S, n), w, S, n) /\ IsPart(Part(ones, S, n), ones, S, n)
    BY <1>1, PartIs
  <2>3. /\ Part(w, S, n)[k] = IF k \in S THEN Part(w, S, n)[k - 1] + w[k] ELSE Part(w, S, n)[k - 1]
        /\ Part(ones, S, n)[k]
             = IF k \in S THEN Part(ones, S, n)[k - 1] + ones[k] ELSE Part(ones, S, n)[k - 1]
    BY <2>2 DEF IsPart
  <2> QED
    BY <1>1, <2>1, <2>3 DEF S
<1>6. ASSUME g[k] \notin before
      PROVE  /\ Part(w, Sharing(g, n, g[k]), n)[k - 1] = 0
             /\ Part(ones, Sharing(g, n, g[k]), n)[k - 1] = 0
  <2> DEFINE S == Sharing(g, n, g[k])
  <2>1. \A i \in 0 + 1 .. k - 1 : i \notin S
    BY <1>6 DEF Sharing
  <2> HIDE DEF S, ones
  <2>2. 0 \in 0 .. n /\ k - 1 \in 0 .. n
    BY <1>1
  <2>3. Part(w, S, n)[k - 1] = Part(w, S, n)[0] /\ Part(ones, S, n)[k - 1] = Part(ones, S, n)[0]
    BY <1>1, <2>1, <2>2, PartStays
  <2>4. Part(w, S, n)[0] = 0 /\ Part(ones, S, n)[0] = 0
    BY <1>1, PartIs DEF IsPart
  <2> QED
    BY <2>3, <2>4 DEF S
<1> HIDE DEF hosts, ones, before
<1>7. DOMAIN hosts = before /\ \A h \in before : hosts[h] = total(h, k - 1)
  <2> HIDE DEF total
  <2> QED
    BY <1>2
<1>8. ASSUME NEW h \in before \cup {g[k]}
      PROVE  new(h) = total(h, k)
  <2>1. CASE h # g[k]
    <3>1. h \in before /\ new(h) = total(h, k - 1)
      BY <1>7, <2>1
    <3> QED
      BY <1>5, <2>1, <3>1
  <2>2. CASE h = g[k]
    <3>1. old.size = Part(w, Sharing(g, n, h), n)[k - 1] /\ old.files = Part(ones, Sharing(g, n, h), n)[k - 1]
      <4>1. CASE g[k] \in before
        BY <1>7, <2>2, <4>1
      <4>2. CASE g[k] \notin before
        BY <1>6, <1>7, <2>2, <4>2
      <4> QED
        BY <4>1, <4>2
    <3> HIDE DEF old
    <3> QED
      BY <1>5, <2>2, <3>1
  <2> QED
    BY <2>1, <2>2
<1> HIDE DEF new, total
<1>9. [h \in before \cup {g[k]} |-> new(h)] = [h \in before \cup {g[k]} |-> total(h, k)]
  BY <1>8
<1> QED
  BY <1>3, <1>4, <1>7, <1>9 DEF hosts

LEMMA CountedIs ==
  ASSUME NEW n \in Nat, NEW g, NEW w \in [1 .. n -> Nat]
  PROVE  (CHOOSE f : IsCounted(f, g, w, n))[n] = HostsAfter(g, w, n, n)
<1> DEFINE F == [k \in 0 .. n |-> HostsAfter(g, w, n, k)]
           step(f, k) == IF k = 0 THEN [h \in {} |-> 0] ELSE CountHost(f[k - 1], g[k], w[k])
           s == CHOOSE f : IsCounted(f, g, w, n)
           good == {k \in 0 .. n : s[k] = F[k]}
<1>1. \A k \in 0 .. n : F[k] = HostsAfter(g, w, n, k)
  OBVIOUS
<1>2. F = [k \in 0 .. n |-> F[k]]
  OBVIOUS
<1> HIDE DEF F
<1>3. ASSUME NEW k \in 0 .. n
      PROVE  F[k] = step(F, k)
  <2>1. CASE k = 0
    <3>1. {g[i] : i \in 1 .. 0} = {}
      OBVIOUS
    <3>2. HostsAfter(g, w, n, 0) = [h \in {} |-> 0]
      BY <3>1 DEF HostsAfter
    <3> QED
      BY <1>1, <2>1, <3>2
  <2>2. CASE k # 0
    <3>1. k \in 1 .. n /\ k - 1 \in 0 .. n
      BY <2>2
    <3>2. HostsAfter(g, w, n, k) = CountHost(HostsAfter(g, w, n, k - 1), g[k], w[k])
      BY <3>1, HostsGrow
    <3> QED
      BY <1>1, <2>2, <3>1, <3>2
  <2> QED
    BY <2>1, <2>2
<1>4. \A f : IsCounted(f, g, w, n) <=> f = [k \in 0 .. n |-> step(f, k)]
  BY DEF IsCounted
<1>5. IsCounted(F, g, w, n)
  <2>1. [k \in 0 .. n |-> F[k]] = [k \in 0 .. n |-> step(F, k)]
    <3> HIDE DEF step
    <3> QED
      BY <1>3
  <2> QED
    BY <1>2, <1>4, <2>1
<1>6. IsCounted(s, g, w, n)
  BY <1>5
<1> HIDE DEF s
<1>7. \A k \in 0 .. n : s[k] = step(s, k)
  <2>1. s = [k \in 0 .. n |-> step(s, k)]
    BY <1>4, <1>6
  <2> HIDE DEF step
  <2> QED
    BY <2>1
<1>8. 0 \in good
  <2>1. 0 \in 0 .. n
    OBVIOUS
  <2>2. s[0] = step(s, 0) /\ F[0] = step(F, 0)
    BY <1>3, <1>7, <2>1
  <2>3. s[0] = F[0]
    BY <2>2
  <2> QED
    BY <2>1, <2>3
<1>9. ASSUME NEW k \in 1 .. n, k - 1 \in good
      PROVE  k \in good
  <2>1. k \in 0 .. n /\ s[k - 1] = F[k - 1]
    BY <1>9
  <2>2. s[k] = step(s, k) /\ F[k] = step(F, k)
    BY <1>3, <1>7, <2>1
  <2>3. step(s, k) = step(F, k)
    BY <2>1
  <2> HIDE DEF step
  <2> QED
    BY <2>1, <2>2, <2>3
<1> HIDE DEF good
<1>10. \A k \in 0 .. n : k \in good
  BY <1>8, <1>9, Induct
<1>11. s[n] = F[n] /\ n \in 0 .. n
  BY <1>10 DEF good
<1> QED
  BY <1>1, <1>11 DEF s

AliasOf == [i \in 1 .. Len(rows) |-> ReverseResolve(rows[i].url, Maps).host]

LEMMA HostsIs ==
  ASSUME Stored
  PROVE  Hosts(rows, Maps) = HostsAfter(AliasOf, RowSizes, Len(rows), Len(rows))
<1> DEFINE n == Len(rows)
           host(k) == ReverseResolve(rows[k].url, Maps).host
           AreHosts(f) == f = [k \in 0 .. n |-> IF k = 0 THEN [h \in {} |-> 0]
                                                ELSE CountHost(f[k - 1], host(k), rows[k].size)]
<1>1. Hosts(rows, Maps) = (CHOOSE f : AreHosts(f))[n]
  BY DEF Hosts
<1>2. n \in Nat /\ RowSizes \in [1 .. n -> Nat]
  BY StoredTyped
<1>3. \A k \in 1 .. n : RowSizes[k] = rows[k].size /\ AliasOf[k] = host(k)
  BY DEF RowSizes, AliasOf
<1> HIDE DEF host, n
<1>4. ASSUME NEW f
      PROVE  AreHosts(f) <=> IsCounted(f, AliasOf, RowSizes, n)
  <2> DEFINE one(k) == IF k = 0 THEN [h \in {} |-> 0] ELSE CountHost(f[k - 1], host(k), rows[k].size)
             other(k) == IF k = 0 THEN [h \in {} |-> 0] ELSE CountHost(f[k - 1], AliasOf[k], RowSizes[k])
  <2>1. ASSUME NEW k \in 0 .. n
        PROVE  one(k) = other(k)
    <3>1. CASE k = 0
      BY <3>1
    <3>2. CASE k # 0
      <4>1. k \in 1 .. n
        BY <1>2, <3>2
      <4>2. RowSizes[k] = rows[k].size /\ AliasOf[k] = host(k)
        BY <1>3, <4>1
      <4> QED
        BY <4>2
    <3> QED
      BY <3>1, <3>2
  <2>2. AreHosts(f) <=> f = [k \in 0 .. n |-> one(k)]
    OBVIOUS
  <2>3. IsCounted(f, AliasOf, RowSizes, n) <=> f = [k \in 0 .. n |-> other(k)]
    BY DEF IsCounted
  <2> HIDE DEF one, other
  <2>4. [k \in 0 .. n |-> one(k)] = [k \in 0 .. n |-> other(k)]
    BY <2>1
  <2> QED
    BY <2>2, <2>3, <2>4
<1> HIDE DEF AreHosts
<1>5. (CHOOSE f : AreHosts(f)) = (CHOOSE f : IsCounted(f, AliasOf, RowSizes, n))
  BY <1>4
<1> QED
  BY <1>1, <1>2, <1>5, CountedIs DEF n

(* The root of a tree counts all of its host.                              *)
LEMMA RootTotals ==
  ASSUME Stored, NEW host, Plain(host), Own(host) # {}, IsAlias(host, Maps)
  PROVE  HostIsRoot(host)
<1> DEFINE n == Len(rows)
           own == Own(host)
           c == CompsOf(host)
           S == Under(own, c, <<>>)
           R == Sharing(AliasOf, n, host)
<1>1. /\ n \in Nat /\ RowSizes \in [1 .. n -> Nat] /\ OneEach(n) \in [1 .. n -> Nat]
      /\ DOMAIN rows = 1 .. n /\ own \in SUBSET (1 .. n)
  BY StoredTyped DEF OneEach
<1>2. Apiece(own, c, n, Names(Token))
  BY OwnApiece
<1>3. \A i \in 1 .. n : i \in own <=> i \in S
  <2>1. \A i \in own : c[i] \in Seq(Names(Token))
    BY <1>2 DEF Apiece
  <2>2. \A i \in own : IsPrefix(<<>>, c[i])
    BY <2>1, EmptyStart
  <2> QED
    BY <2>2 DEF Under
<1>4. \A i \in 1 .. n : i \in own <=> i \in R
  <2>1. \A i \in own : Shown(rows[i].url, host, Maps).host = host
    BY DEF Plain, Own
  <2>2. \A i \in own : ReverseResolve(rows[i].url, Maps).host = host
    BY <2>1 DEF Shown
  <2>3. \A i \in 1 .. n : i \in R <=> ReverseResolve(rows[i].url, Maps).host = host
    BY DEF Sharing, AliasOf
  <2>4. \A i \in 1 .. n : ReverseResolve(rows[i].url, Maps).host = host => i \in own
    BY <1>1 DEF Own, OfHost, HostMatches
  <2> QED
    BY <2>2, <2>3, <2>4
<1>5. TreeOf(host)[<<>>].size = Part(RowSizes, S, n)[n] /\ TreeOf(host)[<<>>].files = Part(OneEach(n), S, n)[n]
  <2>1. TreeOf(host) = TreeAfter(own, c, RowSizes, n, n)
    BY TreeIs
  <2>2. <<>> \in NodesOf(own, c, n)
    BY DEF NodesOf
  <2>3. TreeOf(host)[<<>>] = NodeOf(own, c, RowSizes, n, <<>>, n)
    BY <2>1, <2>2 DEF TreeAfter
  <2> QED
    BY <2>3 DEF NodeOf
<1>6. Hosts(rows, Maps)[host] = [size |-> Part(RowSizes, R, n)[n], files |-> Part(OneEach(n), R, n)[n]]
  <2>1. PICK i \in own : TRUE
    OBVIOUS
  <2>2. i \in 1 .. n /\ AliasOf[i] = host
    <3>1. i \in 1 .. n
      BY <1>1
    <3> QED
      BY <1>4, <3>1 DEF Sharing
  <2>3. host \in {AliasOf[j] : j \in 1 .. n}
    BY <2>2
  <2> QED
    BY <2>3, HostsIs DEF HostsAfter
<1> HIDE DEF S, R, own, n
<1>7. \A i \in 1 .. n : i \in S <=> i \in R
  BY <1>3, <1>4
<1>8. n \in 0 .. n
  BY <1>1
<1>9. Part(RowSizes, S, n)[n] = Part(RowSizes, R, n)[n] /\ Part(OneEach(n), S, n)[n] = Part(OneEach(n), R, n)[n]
  BY <1>1, <1>7, <1>8, PartAgrees
<1> QED
  BY <1>5, <1>6, <1>9 DEF HostIsRoot

-----------------------------------------------------------------------------
(* The items of a directory.                                               *)

\* Entries below a base by what is left of them: a name that is shared is that
\* of a directory.
Unmixed(B, rel, n) ==
  /\ n \in Nat
  /\ B \in SUBSET (1 .. n)
  /\ \A i, j \in B : RelativeName(rel[i]) = RelativeName(rel[j])
       => i = j \/ (Contains(rel[i], Slash) /\ Contains(rel[j], Slash))

Named(B, rel, x) == {i \in B : RelativeName(rel[i]) = x}

NamesUpTo(B, rel, k) == {RelativeName(rel[i]) : i \in {j \in B : j <= k}}

ItemOf(B, rel, w, n, x, k) ==
  [dir |-> \E i \in Named(B, rel, x) : Contains(rel[i], Slash),
   size |-> Part(w, Named(B, rel, x), n)[k],
   files |-> Part(OneEach(n), Named(B, rel, x), n)[k]]

ItemsAfter(B, rel, w, n, k) == [x \in NamesUpTo(B, rel, k) |-> ItemOf(B, rel, w, n, x, k)]

IsListed(f, B, rel, w, m) ==
  f = [k \in 0 .. m |-> IF k = 0 THEN [name \in {} |-> 0]
                        ELSE IF k \notin B THEN f[k - 1]
                        ELSE CountChild(f[k - 1], rel[k], w[k])]

LEMMA FirstItems ==
  ASSUME NEW B, NEW rel, NEW n, Unmixed(B, rel, n), NEW w
  PROVE  ItemsAfter(B, rel, w, n, 0) = [name \in {} |-> 0]
<1>1. \A j \in B : j \in Nat /\ j > 0
  BY DEF Unmixed
<1>2. {j \in B : j <= 0} = {}
  BY <1>1
<1>3. NamesUpTo(B, rel, 0) = {}
  BY <1>2 DEF NamesUpTo
<1> QED
  BY <1>3 DEF ItemsAfter

LEMMA ItemsStay ==
  ASSUME NEW B, NEW rel, NEW n, Unmixed(B, rel, n), NEW w \in [1 .. n -> Nat],
         NEW k \in 1 .. n, k \notin B
  PROVE  ItemsAfter(B, rel, w, n, k) = ItemsAfter(B, rel, w, n, k - 1)
<1>1. n \in Nat /\ OneEach(n) \in [1 .. n -> Nat] /\ B \in SUBSET (1 .. n)
  BY DEF Unmixed, OneEach
<1>2. {j \in B : j <= k} = {j \in B : j <= k - 1}
  <2>1. \A j \in B : j \in Nat /\ j # k
    BY <1>1
  <2>2. \A j \in B : j <= k <=> j <= k - 1
    BY <1>1, <2>1
  <2> QED
    BY <2>2
<1>3. NamesUpTo(B, rel, k) = NamesUpTo(B, rel, k - 1)
  BY <1>2 DEF NamesUpTo
<1>4. ASSUME NEW x
      PROVE  ItemOf(B, rel, w, n, x, k) = ItemOf(B, rel, w, n, x, k - 1)
  <2> DEFINE S == Named(B, rel, x)
  <2>1. k \notin S
    BY DEF Named
  <2> HIDE DEF S
  <2>2. Part(w, S, n)[k] = Part(w, S, n)[k - 1] /\ Part(OneEach(n), S, n)[k] = Part(OneEach(n), S, n)[k - 1]
    <3>1. IsPart(Part(w, S, n), w, S, n) /\ IsPart(Part(OneEach(n), S, n), OneEach(n), S, n)
      BY <1>1, PartIs
    <3> QED
      BY <2>1, <3>1 DEF IsPart
  <2> QED
    BY <2>2 DEF ItemOf, S
<1> QED
  BY <1>3, <1>4 DEF ItemsAfter

LEMMA ItemsGrow ==
  ASSUME NEW B, NEW rel, NEW n, Unmixed(B, rel, n), NEW w \in [1 .. n -> Nat], NEW k \in B
  PROVE  ItemsAfter(B, rel, w, n, k) = CountChild(ItemsAfter(B, rel, w, n, k - 1), rel[k], w[k])
<1> DEFINE items == ItemsAfter(B, rel, w, n, k - 1)
           name == RelativeName(rel[k])
           further == Contains(rel[k], Slash)
           before == NamesUpTo(B, rel, k - 1)
           ones == OneEach(n)
           old == IF name \in DOMAIN items THEN items[name] ELSE [dir |-> FALSE, size |-> 0, files |-> 0]
           new == IF further THEN [dir |-> TRUE, size |-> old.size + w[k], files |-> old.files + 1]
                  ELSE [dir |-> old.dir, size |-> w[k], files |-> 1]
           item(x) == IF x = name THEN new ELSE items[x]
<1>1. n \in Nat /\ B \in SUBSET (1 .. n) /\ ones \in [1 .. n -> Nat]
  BY DEF Unmixed, OneEach
<1>2. k \in 1 .. n /\ k - 1 \in 0 .. n /\ k \in 0 .. n /\ k - 1 \in Nat /\ w[k] \in Nat /\ ones[k] = 1
  <2>1. k \in 1 .. n
    BY <1>1
  <2>2. ones[k] = 1
    BY <2>1 DEF OneEach
  <2> HIDE DEF ones
  <2> QED
    BY <1>1, <2>1, <2>2
<1>3. DOMAIN items = before /\ \A x \in before : items[x] = ItemOf(B, rel, w, n, x, k - 1)
  BY DEF ItemsAfter
<1>4. NamesUpTo(B, rel, k) = before \cup {name}
  <2>1. {j \in B : j <= k} = {j \in B : j <= k - 1} \cup {k}
    <3>1. \A j \in B : j \in Nat
      BY <1>1
    <3>2. \A j \in B : j <= k <=> j <= k - 1 \/ j = k
      BY <1>2, <3>1
    <3> QED
      BY <3>2
  <2> QED
    BY <2>1 DEF NamesUpTo
<1>5. CountChild(items, rel[k], w[k]) = [x \in DOMAIN items \cup {name} |-> item(x)]
  BY DEF CountChild
<1> HIDE DEF items, ones
<1>6. ASSUME NEW x
      PROVE  /\ Part(w, Named(B, rel, x), n)[k]
                  = IF name = x THEN Part(w, Named(B, rel, x), n)[k - 1] + w[k]
                    ELSE Part(w, Named(B, rel, x), n)[k - 1]
             /\ Part(ones, Named(B, rel, x), n)[k]
                  = IF name = x THEN Part(ones, Named(B, rel, x), n)[k - 1] + 1
                    ELSE Part(ones, Named(B, rel, x), n)[k - 1]
  <2> DEFINE S == Named(B, rel, x)
  <2>1. k \in S <=> name = x
    BY DEF Named
  <2> HIDE DEF S
  <2>2. IsPart(Part(w, S, n), w, S, n) /\ IsPart(Part(ones, S, n), ones, S, n)
    BY <1>1, PartIs
  <2>3. /\ Part(w, S, n)[k] = IF k \in S THEN Part(w, S, n)[k - 1] + w[k] ELSE Part(w, S, n)[k - 1]
        /\ Part(ones, S, n)[k]
             = IF k \in S THEN Part(ones, S, n)[k - 1] + ones[k] ELSE Part(ones, S, n)[k - 1]
    BY <1>2, <2>2 DEF IsPart
  <2> QED
    BY <1>2, <2>1, <2>3 DEF S
<1>7. ASSUME name \notin before
      PROVE  /\ Part(w, Named(B, rel, name), n)[k - 1] = 0
             /\ Part(ones, Named(B, rel, name), n)[k - 1] = 0
  <2> DEFINE S == Named(B, rel, name)
  <2>1. \A i \in 0 + 1 .. k - 1 : i \notin S
    <3>1. \A i \in 0 + 1 .. k - 1 : i <= k - 1
      BY <1>2
    <3>2. \A i \in B : i <= k - 1 => RelativeName(rel[i]) \in before
      BY DEF NamesUpTo
    <3>3. \A i \in B : i <= k - 1 => RelativeName(rel[i]) # name
      BY <1>7, <3>2
    <3> QED
      BY <3>1, <3>3 DEF Named
  <2> HIDE DEF S
  <2>2. 0 \in 0 .. n /\ k - 1 \in 0 .. n
    BY <1>1, <1>2
  <2>3. Part(w, S, n)[k - 1] = Part(w, S, n)[0] /\ Part(ones, S, n)[k - 1] = Part(ones, S, n)[0]
    BY <1>1, <1>2, <2>1, <2>2, PartStays
  <2>4. Part(w, S, n)[0] = 0 /\ Part(ones, S, n)[0] = 0
    BY <1>1, PartIs DEF IsPart
  <2> QED
    BY <2>3, <2>4 DEF S
<1>8. ASSUME NEW x
      PROVE  /\ ItemOf(B, rel, w, n, x, k).dir = \E i \in Named(B, rel, x) : Contains(rel[i], Slash)
             /\ ItemOf(B, rel, w, n, x, k)
                  = [dir |-> ItemOf(B, rel, w, n, x, k).dir,
                     size |-> Part(w, Named(B, rel, x), n)[k],
                     files |-> Part(ones, Named(B, rel, x), n)[k]]
             /\ ItemOf(B, rel, w, n, x, k - 1)
                  = [dir |-> ItemOf(B, rel, w, n, x, k).dir,
                     size |-> Part(w, Named(B, rel, x), n)[k - 1],
                     files |-> Part(ones, Named(B, rel, x), n)[k - 1]]
             /\ ItemOf(B, rel, w, n, x, k - 1).size = Part(w, Named(B, rel, x), n)[k - 1]
             /\ ItemOf(B, rel, w, n, x, k - 1).files = Part(ones, Named(B, rel, x), n)[k - 1]
  BY DEF ItemOf, ones
<1>9. k \in Named(B, rel, name)
  BY DEF Named
<1>10. ASSUME ~further
       PROVE  name \notin before /\ \A i \in Named(B, rel, name) : i = k
  <2>1. \A i \in B : RelativeName(rel[i]) = name => i = k
    BY <1>10 DEF Unmixed
  <2>2. \A i \in B : i <= k - 1 => i # k
    BY <1>2
  <2> QED
    BY <2>1, <2>2 DEF Named, NamesUpTo
<1> HIDE DEF before
<1>11. ASSUME NEW x \in before \cup {name}
       PROVE  item(x) = ItemOf(B, rel, w, n, x, k)
  <2>1. CASE x # name
    <3>1. x \in before /\ item(x) = ItemOf(B, rel, w, n, x, k - 1)
      BY <1>3, <2>1
    <3> QED
      BY <1>6, <1>8, <2>1, <3>1
  <2>2. CASE x = name
    <3>1. CASE further
      <4>1. old.size = Part(w, Named(B, rel, x), n)[k - 1] /\ old.files = Part(ones, Named(B, rel, x), n)[k - 1]
        <5>1. CASE name \in before
          <6>1. old = items[name] /\ items[name] = ItemOf(B, rel, w, n, x, k - 1)
            BY <1>3, <2>2, <5>1
          <6> HIDE DEF old, name, further
          <6> QED
            BY <1>8, <6>1
        <5>2. CASE name \notin before
          BY <1>3, <1>7, <2>2, <5>2
        <5> QED
          BY <5>1, <5>2
      <4> HIDE DEF old
      <4>2. item(x) = [dir |-> TRUE, size |-> old.size + w[k], files |-> old.files + 1]
        BY <2>2, <3>1
      <4>3. ItemOf(B, rel, w, n, x, k).dir = TRUE
        <5>1. \E i \in Named(B, rel, x) : Contains(rel[i], Slash)
          BY <1>9, <2>2, <3>1
        <5> QED
          BY <1>8, <5>1
      <4> QED
        BY <1>6, <1>8, <2>2, <4>1, <4>2, <4>3
    <3>2. CASE ~further
      <4>1. name \notin before
        BY <1>10, <3>2
      <4>2. item(x) = [dir |-> FALSE, size |-> w[k], files |-> 1]
        BY <1>3, <2>2, <3>2, <4>1
      <4>3. ItemOf(B, rel, w, n, x, k).dir = FALSE
        <5>1. ~\E i \in Named(B, rel, x) : Contains(rel[i], Slash)
          BY <1>10, <2>2, <3>2
        <5> QED
          BY <1>8, <5>1
      <4>4. Part(w, Named(B, rel, x), n)[k] = w[k] /\ Part(ones, Named(B, rel, x), n)[k] = 1
        BY <1>2, <1>6, <1>7, <2>2, <4>1
      <4> QED
        BY <1>8, <4>2, <4>3, <4>4
    <3> QED
      BY <3>1, <3>2
  <2> QED
    BY <2>1, <2>2
<1> HIDE DEF item
<1>12. [x \in before \cup {name} |-> item(x)] = [x \in before \cup {name} |-> ItemOf(B, rel, w, n, x, k)]
  BY <1>11
<1> QED
  BY <1>3, <1>4, <1>5, <1>12 DEF ItemsAfter, items

LEMMA GreatestFrom0 ==
  ASSUME NEW n \in Nat, NEW D \in SUBSET (0 .. n)
  PROVE  /\ Max({0} \cup D) \in 0 .. n
         /\ Max({0} \cup D) \in {0} \cup D
         /\ \A x \in D : x <= Max({0} \cup D)
<1> DEFINE S == {0} \cup D
           E == {x \in D : x # 0}
           g == IF E = {} THEN 0 ELSE Max(E)
<1>1. S \in SUBSET (0 .. n) /\ E \in SUBSET (1 .. n) /\ \A x \in S : x = 0 \/ x \in E
  <2>1. 0 \in 0 .. n /\ \A x \in D : x \in 0 .. n
    OBVIOUS
  <2>2. \A x \in D : x # 0 => x \in 1 .. n
    OBVIOUS
  <2> QED
    BY <2>1, <2>2
<1>2. E # {} => Max(E) \in E /\ \A x \in E : x <= Max(E)
  BY <1>1, Greatest
<1>3. \A x \in E : x \in S
  OBVIOUS
<1>4. 0 \in S
  OBVIOUS
<1> HIDE DEF E
<1>5. g \in S /\ \A x \in S : g >= x
  <2>1. CASE E = {}
    BY <1>1, <1>4, <2>1
  <2>2. CASE E # {}
    <3>1. g \in E /\ \A x \in E : x <= g
      BY <1>2, <2>2
    <3> HIDE DEF g
    <3> QED
      BY <1>1, <1>3, <3>1
  <2> QED
    BY <2>1, <2>2
<1> HIDE DEF g, S
<1>6. Max(S) \in S /\ \A x \in S : Max(S) >= x
  BY <1>5 DEF Max
<1>7. \A x \in D : x \in S
  BY DEF S
<1>8. \A x \in D : x <= Max(S)
  BY <1>1, <1>6, <1>7
<1>9. Max(S) \in 0 .. n
  BY <1>1, <1>6
<1> QED
  BY <1>6, <1>8, <1>9 DEF S

LEMMA ListedIs ==
  ASSUME NEW B, NEW rel, NEW n, Unmixed(B, rel, n), NEW w \in [1 .. n -> Nat], NEW m \in 0 .. n
  PROVE  (CHOOSE f : IsListed(f, B, rel, w, m))[m] = ItemsAfter(B, rel, w, n, m)
<1> DEFINE F == [k \in 0 .. m |-> ItemsAfter(B, rel, w, n, k)]
           step(f, k) == IF k = 0 THEN [name \in {} |-> 0]
                         ELSE IF k \notin B THEN f[k - 1]
                         ELSE CountChild(f[k - 1], rel[k], w[k])
           s == CHOOSE f : IsListed(f, B, rel, w, m)
           good == {k \in 0 .. m : s[k] = F[k]}
<1>1. n \in Nat /\ m \in Nat /\ \A k \in 1 .. m : k \in 1 .. n /\ k \in 0 .. m /\ k - 1 \in 0 .. m
  BY DEF Unmixed
<1>2. \A k \in 0 .. m : F[k] = ItemsAfter(B, rel, w, n, k)
  OBVIOUS
<1>3. F = [k \in 0 .. m |-> F[k]]
  OBVIOUS
<1> HIDE DEF F
<1>4. ASSUME NEW k \in 0 .. m
      PROVE  F[k] = step(F, k)
  <2>1. CASE k = 0
    <3>1. ItemsAfter(B, rel, w, n, 0) = [name \in {} |-> 0]
      BY FirstItems
    <3> QED
      BY <1>2, <2>1, <3>1
  <2>2. CASE k # 0
    <3>1. k \in 1 .. m
      BY <1>1, <2>2
    <3>2. k \in 1 .. n /\ k - 1 \in 0 .. m
      BY <1>1, <3>1
    <3>3. F[k] = ItemsAfter(B, rel, w, n, k) /\ F[k - 1] = ItemsAfter(B, rel, w, n, k - 1)
      BY <1>2, <3>2
    <3>4. CASE k \notin B
      <4>1. ItemsAfter(B, rel, w, n, k) = ItemsAfter(B, rel, w, n, k - 1)
        BY <3>2, <3>4, ItemsStay
      <4> QED
        BY <2>2, <3>3, <3>4, <4>1
    <3>5. CASE k \in B
      <4>1. ItemsAfter(B, rel, w, n, k) = CountChild(ItemsAfter(B, rel, w, n, k - 1), rel[k], w[k])
        BY <3>5, ItemsGrow
      <4> QED
        BY <2>2, <3>3, <3>5, <4>1
    <3> QED
      BY <3>4, <3>5
  <2> QED
    BY <2>1, <2>2
<1>5. \A f : IsListed(f, B, rel, w, m) <=> f = [k \in 0 .. m |-> step(f, k)]
  BY DEF IsListed
<1>6. IsListed(F, B, rel, w, m)
  <2>1. [k \in 0 .. m |-> F[k]] = [k \in 0 .. m |-> step(F, k)]
    <3> HIDE DEF step
    <3> QED
      BY <1>4
  <2> QED
    BY <1>3, <1>5, <2>1
<1>7. IsListed(s, B, rel, w, m)
  BY <1>6
<1> HIDE DEF s
<1>8. \A k \in 0 .. m : s[k] = step(s, k)
  <2>1. s = [k \in 0 .. m |-> step(s, k)]
    BY <1>5, <1>7
  <2> HIDE DEF step
  <2> QED
    BY <2>1
<1>9. 0 \in good
  <2>1. 0 \in 0 .. m
    BY <1>1
  <2>2. s[0] = step(s, 0) /\ F[0] = step(F, 0)
    BY <1>4, <1>8, <2>1
  <2>3. s[0] = F[0]
    BY <2>2
  <2> QED
    BY <2>1, <2>3
<1>10. ASSUME NEW k \in 1 .. m, k - 1 \in good
       PROVE  k \in good
  <2>1. k \in 0 .. m /\ s[k - 1] = F[k - 1]
    BY <1>1, <1>10
  <2>2. s[k] = step(s, k) /\ F[k] = step(F, k)
    BY <1>4, <1>8, <2>1
  <2>3. step(s, k) = step(F, k)
    BY <2>1
  <2> HIDE DEF step
  <2> QED
    BY <2>1, <2>2, <2>3
<1> HIDE DEF good
<1>11. \A k \in 0 .. m : k \in good
  BY <1>1, <1>9, <1>10, Induct
<1>12. m \in 0 .. m
  BY <1>1
<1>13. s[m] = F[m]
  BY <1>11, <1>12 DEF good
<1> QED
  BY <1>2, <1>12, <1>13 DEF s

LEMMA ItemStays ==
  ASSUME NEW n \in Nat, NEW w \in [1 .. n -> Nat], NEW m \in 0 .. n, NEW B, NEW rel, NEW x,
         \A i \in B : i <= m
  PROVE  ItemOf(B, rel, w, n, x, m) = ItemOf(B, rel, w, n, x, n)
<1> DEFINE S == Named(B, rel, x)
           ones == OneEach(n)
<1>1. \A i \in m + 1 .. n : i \notin S
  <2>1. \A i \in m + 1 .. n : ~(i <= m)
    OBVIOUS
  <2>2. \A i \in S : i \in B
    BY DEF Named
  <2> HIDE DEF S
  <2> QED
    BY <2>1, <2>2
<1>2. ones \in [1 .. n -> Nat] /\ n \in m .. n
  BY DEF OneEach
<1> HIDE DEF S, ones
<1>3. Part(w, S, n)[n] = Part(w, S, n)[m]
  BY <1>1, <1>2, PartStays
<1>4. Part(ones, S, n)[n] = Part(ones, S, n)[m]
  BY <1>1, <1>2, PartStays
<1> QED
  BY <1>3, <1>4 DEF ItemOf, S, ones

RelativesOf(roots, base) == [i \in DOMAIN roots |-> Relative(roots[i].root, base)]

LEMMA ChildrenAre ==
  ASSUME NEW n \in Nat, NEW w \in [1 .. n -> Nat], NEW roots, DOMAIN roots \in SUBSET (1 .. n),
         \A i \in DOMAIN roots : roots[i].size = w[i],
         NEW base, Unmixed(Below(roots, base), RelativesOf(roots, base), n)
  PROVE  Children(roots, base) = ItemsAfter(Below(roots, base), RelativesOf(roots, base), w, n, n)
<1> DEFINE m == Max({0} \cup DOMAIN roots)
           B == Below(roots, base)
           rel == RelativesOf(roots, base)
           AreItems(f) == f = [k \in 0 .. m |->
                                 IF k = 0 THEN [name \in {} |-> 0]
                                 ELSE IF k \notin B THEN f[k - 1]
                                 ELSE CountChild(f[k - 1], Relative(roots[k].root, base), roots[k].size)]
<1>1. Children(roots, base) = (CHOOSE f : AreItems(f))[m]
  BY DEF Children
<1>2. m \in 0 .. n /\ \A k \in DOMAIN roots : k <= m
  <2>1. DOMAIN roots \in SUBSET (0 .. n)
    OBVIOUS
  <2> QED
    BY <2>1, GreatestFrom0
<1>3. \A k \in B : k \in DOMAIN roots /\ rel[k] = Relative(roots[k].root, base) /\ roots[k].size = w[k]
  BY DEF Below, RelativesOf
<1>4. Unmixed(B, rel, n)
  OBVIOUS
<1> HIDE DEF m, B, rel
<1>5. ASSUME NEW f
      PROVE  AreItems(f) <=> IsListed(f, B, rel, w, m)
  <2> DEFINE one(k) == IF k = 0 THEN [name \in {} |-> 0]
                       ELSE IF k \notin B THEN f[k - 1]
                       ELSE CountChild(f[k - 1], Relative(roots[k].root, base), roots[k].size)
             other(k) == IF k = 0 THEN [name \in {} |-> 0]
                         ELSE IF k \notin B THEN f[k - 1]
                         ELSE CountChild(f[k - 1], rel[k], w[k])
  <2>1. ASSUME NEW k \in 0 .. m
        PROVE  one(k) = other(k)
    BY <1>3
  <2>2. AreItems(f) <=> f = [k \in 0 .. m |-> one(k)]
    OBVIOUS
  <2>3. IsListed(f, B, rel, w, m) <=> f = [k \in 0 .. m |-> other(k)]
    BY DEF IsListed
  <2> HIDE DEF one, other
  <2>4. [k \in 0 .. m |-> one(k)] = [k \in 0 .. m |-> other(k)]
    BY <2>1
  <2> QED
    BY <2>2, <2>3, <2>4
<1> HIDE DEF AreItems
<1>6. (CHOOSE f : AreItems(f)) = (CHOOSE f : IsListed(f, B, rel, w, m))
  BY <1>5
<1>7. Children(roots, base) = ItemsAfter(B, rel, w, n, m)
  BY <1>1, <1>2, <1>4, <1>6, ListedIs
<1>8. ItemsAfter(B, rel, w, n, m) = ItemsAfter(B, rel, w, n, n)
  <2>1. \A j \in B : j \in Nat /\ j <= m /\ j <= n
    BY <1>2, <1>3
  <2>2. {j \in B : j <= m} = {j \in B : j <= n}
    BY <2>1
  <2>3. NamesUpTo(B, rel, m) = NamesUpTo(B, rel, n)
    BY <2>2 DEF NamesUpTo
  <2>4. ASSUME NEW x
        PROVE  ItemOf(B, rel, w, n, x, m) = ItemOf(B, rel, w, n, x, n)
    <3>1. \A j \in B : j <= m
      BY <2>1
    <3> QED
      BY <1>2, <3>1, ItemStays
  <2> QED
    BY <2>3, <2>4 DEF ItemsAfter
<1> QED
  BY <1>7, <1>8 DEF B, rel

-----------------------------------------------------------------------------
(* The items of a directory are the nodes of the tree one below.           *)

LEMMA OneBelow ==
  ASSUME NEW A, NEW node \in Seq(A), NEW x \in A, NEW q \in Seq(A)
  PROVE  /\ Append(node, x) \in Seq(A)
         /\ Append(node, x) # <<>>
         /\ IsPrefix(Append(node, x), q) <=>
              IsPrefix(node, q) /\ Len(node) < Len(q) /\ q[Len(node) + 1] = x
         /\ q = Append(node, x) <=>
              IsPrefix(Append(node, x), q) /\ Len(q) = Len(node) + 1
<1> DEFINE k == Len(node)
           m == Append(node, x)
<1>1. /\ m \in Seq(A) /\ Len(m) = k + 1 /\ m[k + 1] = x
      /\ \A j \in 1 .. k : m[j] = node[j]
  BY AppendProperties
<1>2. k \in Nat /\ Len(q) \in Nat
  OBVIOUS
<1> HIDE DEF m
<1>3. IsPrefix(m, q) <=> k + 1 <= Len(q) /\ \A j \in 1 .. k + 1 : m[j] = q[j]
  BY <1>1, PrefixIs
<1>4. IsPrefix(node, q) <=> k <= Len(q) /\ \A j \in 1 .. k : node[j] = q[j]
  BY PrefixIs
<1> HIDE DEF k
<1>5. \A j \in 1 .. k + 1 : j \in 1 .. k \/ j = k + 1
  BY <1>2
<1>6. \A j \in 1 .. k : j \in 1 .. k + 1
  BY <1>2
<1>7. k + 1 \in 1 .. k + 1
  BY <1>2
<1>8. IsPrefix(m, q) => IsPrefix(node, q) /\ k < Len(q) /\ q[k + 1] = x
  BY <1>1, <1>2, <1>3, <1>4, <1>6, <1>7
<1>9. ASSUME IsPrefix(node, q), k < Len(q), q[k + 1] = x
      PROVE  IsPrefix(m, q)
  <2>1. \A j \in 1 .. k + 1 : m[j] = q[j]
    BY <1>1, <1>4, <1>5, <1>9
  <2>2. k + 1 <= Len(q)
    BY <1>2, <1>9
  <2> QED
    BY <1>3, <2>1, <2>2
<1>10. ASSUME IsPrefix(m, q), Len(q) = k + 1
       PROVE  q = m
  BY <1>1, <1>3, <1>10, SeqEqual
<1>11. q = m => IsPrefix(m, q) /\ Len(q) = k + 1
  <2>1. q = m => \A j \in 1 .. k + 1 : m[j] = q[j]
    OBVIOUS
  <2>2. q = m => Len(q) = k + 1 /\ k + 1 <= Len(q)
    BY <1>1, <1>2
  <2> QED
    BY <1>3, <2>1, <2>2
<1>12. m # <<>>
  BY <1>1, <1>2
<1> QED
  BY <1>1, <1>8, <1>9, <1>10, <1>11, <1>12 DEF m, k

ChildNames(own, c, node) == {c[i][Len(node) + 1] : i \in Under(own, c, node)}

\* What is left of entries below a node tells the next name and whether more
\* follow.
TellsNext(B, rel, c, node) ==
  \A i \in B : /\ RelativeName(rel[i]) = c[i][Len(node) + 1]
               /\ Contains(rel[i], Slash) <=> Len(c[i]) # Len(node) + 1

LEMMA NextOfOwn ==
  ASSUME NEW own, NEW c, NEW n, NEW A, Apiece(own, c, n, A), NEW node \in Seq(A),
         \A i \in own : c[i] # node,
         NEW i \in Under(own, c, node)
  PROVE  /\ i \in own /\ c[i] \in Seq(A) /\ Len(node) \in Nat /\ Len(c[i]) \in Nat
         /\ Len(node) < Len(c[i]) /\ c[i][Len(node) + 1] \in A
<1>1. i \in own /\ IsPrefix(node, c[i])
  BY DEF Under
<1> DEFINE q == c[i]
<1>2. q \in Seq(A) /\ q # node
  BY <1>1 DEF Apiece
<1> HIDE DEF q
<1>3. IsPrefix(node, q)
  BY <1>1 DEF q
<1>4. Len(node) \in 0 .. Len(q) /\ node = SubSeq(q, 1, Len(node))
  BY <1>2, <1>3, StartIs
<1>5. SubSeq(q, 1, Len(q)) = q
  BY <1>2, SubSeqFull
<1>6. Len(node) # Len(q)
  BY <1>2, <1>4, <1>5
<1>7. Len(q) \in Nat /\ Len(node) \in Nat
  BY <1>2
<1>8. Len(node) < Len(q) /\ Len(node) + 1 \in 1 .. Len(q)
  BY <1>4, <1>6, <1>7
<1> QED
  BY <1>1, <1>2, <1>7, <1>8 DEF q

LEMMA ItemsAre ==
  ASSUME NEW own, NEW c, NEW n, NEW A, Apiece(own, c, n, A), NEW w, NEW node \in Seq(A),
         \A i \in own : c[i] # node,
         NEW rel, TellsNext(Under(own, c, node), rel, c, node)
  PROVE  /\ Unmixed(Under(own, c, node), rel, n)
         /\ ItemsAfter(Under(own, c, node), rel, w, n, n)
              = [x \in ChildNames(own, c, node) |-> NodeOf(own, c, w, n, Append(node, x), n)]
<1> DEFINE B == Under(own, c, node)
           k == Len(node)
           name(i) == c[i][k + 1]
<1>1. n \in Nat /\ own \in SUBSET (1 .. n) /\ \A i, j \in own : IsPrefix(c[i], c[j]) => i = j
  BY DEF Apiece
<1>2. \A i \in B : /\ RelativeName(rel[i]) = name(i)
                   /\ Contains(rel[i], Slash) <=> Len(c[i]) # k + 1
  BY DEF TellsNext
<1>3. \A i \in B : /\ i \in own /\ c[i] \in Seq(A) /\ Len(c[i]) \in Nat
                   /\ k \in Nat /\ k < Len(c[i]) /\ name(i) \in A
  BY NextOfOwn
<1>4. \A i \in own : i \in B <=> IsPrefix(node, c[i])
  BY DEF Under
<1>5. \A i \in own : c[i] \in Seq(A)
  BY DEF Apiece
<1> HIDE DEF B
<1>6. ASSUME NEW i \in own, NEW x \in A
      PROVE  /\ IsPrefix(Append(node, x), c[i]) <=> i \in B /\ name(i) = x
             /\ c[i] = Append(node, x) <=> i \in B /\ name(i) = x /\ Len(c[i]) = k + 1
  <2> DEFINE q == c[i]
             m == Append(node, x)
  <2>1. q \in Seq(A)
    BY <1>5
  <2> HIDE DEF q, m
  <2>2. /\ IsPrefix(m, q) <=> IsPrefix(node, q) /\ k < Len(q) /\ q[k + 1] = x
        /\ q = m <=> IsPrefix(m, q) /\ Len(q) = k + 1
    BY <2>1, OneBelow DEF m
  <2>3. IsPrefix(node, q) => k < Len(q)
    BY <1>3, <1>4 DEF q
  <2> QED
    BY <1>4, <2>2, <2>3 DEF q, m
<1> HIDE DEF k
<1>7. ASSUME NEW i \in B, NEW j \in B, name(i) = name(j), Len(c[i]) = k + 1
      PROVE  i = j
  <2>1. i \in own /\ j \in own /\ name(i) \in A
    BY <1>3
  <2>2. c[i] = Append(node, name(i)) /\ IsPrefix(Append(node, name(i)), c[j])
    BY <1>6, <1>7, <2>1
  <2> QED
    BY <1>1, <2>1, <2>2
<1>8. Unmixed(B, rel, n)
  <2>1. B \in SUBSET (1 .. n)
    BY <1>1, <1>3
  <2>2. \A i, j \in B : RelativeName(rel[i]) = RelativeName(rel[j])
          => i = j \/ (Contains(rel[i], Slash) /\ Contains(rel[j], Slash))
    BY <1>2, <1>7
  <2> QED
    BY <1>1, <2>1, <2>2 DEF Unmixed
<1>9. NamesUpTo(B, rel, n) = ChildNames(own, c, node)
  <2>0. \A j \in own : j <= n
    BY <1>1
  <2>1. \A j \in B : j <= n
    BY <1>3, <2>0
  <2>2. {j \in B : j <= n} = B
    BY <2>1
  <2>3. NamesUpTo(B, rel, n) = {RelativeName(rel[i]) : i \in B}
    BY <2>2 DEF NamesUpTo
  <2>4. {RelativeName(rel[i]) : i \in B} = {name(i) : i \in B}
    BY <1>2
  <2> QED
    BY <2>3, <2>4 DEF ChildNames, B, k
<1>10. ASSUME NEW x \in ChildNames(own, c, node)
       PROVE  ItemOf(B, rel, w, n, x, n) = NodeOf(own, c, w, n, Append(node, x), n)
  <2>1. PICK l \in B : x = name(l)
    BY DEF ChildNames, B, k
  <2>2. x \in A
    BY <1>3, <2>1
  <2>3. Named(B, rel, x) = Under(own, c, Append(node, x))
    <3>1. \A i \in own : i \in Under(own, c, Append(node, x)) <=> i \in B /\ name(i) = x
      BY <1>6, <2>2 DEF Under
    <3>2. \A i \in B : i \in Named(B, rel, x) <=> name(i) = x
      BY <1>2 DEF Named
    <3>3. \A i \in Named(B, rel, x) : i \in B /\ i \in own
      BY <1>3 DEF Named
    <3>4. \A i \in Under(own, c, Append(node, x)) : i \in own
      BY DEF Under
    <3> QED
      BY <3>1, <3>2, <3>3, <3>4
  <2>4. (\E i \in Named(B, rel, x) : Contains(rel[i], Slash)) <=> \A i \in own : c[i] # Append(node, x)
    <3>1. ASSUME NEW i \in Named(B, rel, x), Contains(rel[i], Slash), NEW j \in own, c[j] = Append(node, x)
          PROVE  FALSE
      <4>1. i \in B /\ name(i) = x
        BY <1>2 DEF Named
      <4>2. j \in B /\ name(j) = x /\ Len(c[j]) = k + 1
        BY <1>6, <2>2, <3>1
      <4>3. i = j
        BY <1>7, <4>1, <4>2
      <4> QED
        BY <1>2, <3>1, <4>1, <4>2, <4>3
    <3>2. ASSUME \A i \in own : c[i] # Append(node, x)
          PROVE  l \in Named(B, rel, x) /\ Contains(rel[l], Slash)
      <4>1. l \in own /\ Len(c[l]) # k + 1
        BY <1>3, <1>6, <2>1, <2>2, <3>2
      <4> QED
        BY <1>2, <2>1, <4>1 DEF Named
    <3> QED
      BY <3>1, <3>2
  <2>5. (\E i \in Named(B, rel, x) : Contains(rel[i], Slash)) = \A i \in own : c[i] # Append(node, x)
    BY <2>4
  <2> QED
    BY <2>3, <2>5 DEF ItemOf, NodeOf
<1>11. ItemsAfter(B, rel, w, n, n)
         = [x \in ChildNames(own, c, node) |-> NodeOf(own, c, w, n, Append(node, x), n)]
  BY <1>9, <1>10 DEF ItemsAfter
<1> QED
  BY <1>8, <1>11 DEF B

\* The entries below a base are those below a node, each with its own size.
LooksInto(roots, base, own, c, w, node) ==
  /\ DOMAIN roots \in SUBSET own
  /\ \A i \in DOMAIN roots : roots[i].size = w[i]
  /\ \A i \in own : i \in DOMAIN roots /\ IsPrefix(base, roots[i].root) <=> i \in Under(own, c, node)
  /\ \A i \in Under(own, c, node) : Relative(roots[i].root, base) # <<>>
  /\ TellsNext(Under(own, c, node), RelativesOf(roots, base), c, node)

LineOf(base, own, c, w, n, node, x) ==
  [base |-> base, name |-> x, item |-> NodeOf(own, c, w, n, Append(node, x), n)]

LEMMA LevelIs ==
  ASSUME NEW own, NEW c, NEW n, NEW A, Apiece(own, c, n, A), NEW w \in [1 .. n -> Nat],
         NEW node \in Seq(A), \A i \in own : c[i] # node,
         NEW roots, NEW base, LooksInto(roots, base, own, c, w, node)
  PROVE  Level(roots, base)
           = {LineOf(base, own, c, w, n, node, x) : x \in ChildNames(own, c, node)}
<1> DEFINE B == Under(own, c, node)
           items == [x \in ChildNames(own, c, node) |-> NodeOf(own, c, w, n, Append(node, x), n)]
<1>1. /\ DOMAIN roots \in SUBSET own
      /\ \A i \in DOMAIN roots : roots[i].size = w[i]
      /\ \A i \in own : i \in DOMAIN roots /\ IsPrefix(base, roots[i].root) <=> i \in B
      /\ \A i \in B : Relative(roots[i].root, base) # <<>>
      /\ TellsNext(B, RelativesOf(roots, base), c, node)
  BY DEF LooksInto
<1>2. \A i \in B : i \in own
  BY DEF Under
<1>3. Below(roots, base) = B
  <2> HIDE DEF B
  <2> QED
    BY <1>1, <1>2 DEF Below
<1>4. ~IsExact(roots, base)
  <2> HIDE DEF B
  <2> QED
    BY <1>1 DEF IsExact
<1>5. /\ Unmixed(B, RelativesOf(roots, base), n)
      /\ ItemsAfter(B, RelativesOf(roots, base), w, n, n) = items
  BY <1>1, ItemsAre
<1>6. n \in Nat /\ DOMAIN roots \in SUBSET (1 .. n)
  BY <1>1 DEF Apiece
<1> HIDE DEF B
<1>7. Children(roots, base) = items
  <2>1. Unmixed(Below(roots, base), RelativesOf(roots, base), n)
    BY <1>3, <1>5
  <2>2. Children(roots, base) = ItemsAfter(Below(roots, base), RelativesOf(roots, base), w, n, n)
    BY <1>1, <1>6, <2>1, ChildrenAre
  <2> QED
    BY <1>3, <1>5, <2>2
<1>8. Level(roots, base)
        = {[base |-> base, name |-> x, item |-> Children(roots, base)[x]] : x \in DOMAIN Children(roots, base)}
  BY <1>4 DEF Level
<1>9. Level(roots, base) = {[base |-> base, name |-> x, item |-> items[x]] : x \in ChildNames(own, c, node)}
  BY <1>7, <1>8
<1> QED
  BY <1>9 DEF LineOf

-----------------------------------------------------------------------------
(* The texts of a host's entries and of its folders.                       *)

\* The text of a node of a host's tree.
TextOf(host, node) == TextBehind(<<host>>, node, Len(node))

\* Nodes that are directories.
FoldersOf(own, c, n) == {node \in NodesOf(own, c, n) : \A i \in own : c[i] # node}

\* What is known of a host whose listing is looked at.
Listed(host) == Stored /\ host \in HostsKnown /\ Plain(host)

LEMMA HostTyped ==
  ASSUME NEW host, Listed(host)
  PROVE  /\ host \in Token /\ host # Slash /\ Slash \in Token
         /\ <<host>> \in Seq(Token) /\ <<host>> \in Names(Token)
<1>1. host \in STRING \ {Slash}
  <2>1. rows \in Seq(Row) /\ Maps \in Seq(UrlMap) /\ host \in HostsKnown
    BY DEF Listed, Stored
  <2>2. CASE host \in {r.url.host : r \in Range(rows)}
    <3>1. PICK i \in 1 .. Len(rows) : host = rows[i].url.host
      BY <2>1, <2>2 DEF Range
    <3>2. rows[i] \in Row
      BY <2>1, <3>1
    <3>3. rows[i].url \in Location
      BY <3>2 DEF Row
    <3> QED
      BY <3>1, <3>3 DEF Location
  <2>3. CASE host \in {Maps[i].fake : i \in DOMAIN Maps}
    <3>1. PICK i \in 1 .. Len(Maps) : host = Maps[i].fake
      BY <2>1, <2>3
    <3>2. Maps[i] \in UrlMap
      BY <2>1, <3>1
    <3> QED
      BY <3>1, <3>2 DEF UrlMap
  <2> QED
    BY <2>1, <2>2, <2>3 DEF HostsKnown
<1>2. host \in Token /\ host # Slash /\ Slash \in Token
  BY <1>1 DEF Token
<1>3. <<host>> \in Seq(Token) /\ Len(<<host>>) = 1 /\ <<host>>[1] = host /\ <<host>> # <<>>
  BY <1>2
<1>4. <<host>> \in Names(Token)
  BY <1>2, <1>3 DEF Names
<1> QED
  BY <1>2, <1>3, <1>4

LEMMA RootIs ==
  ASSUME NEW host, Plain(host), NEW i \in Own(host)
  PROVE  /\ PathShown(rows[i], host) = FolderText(CompsOf(host)[i], Len(CompsOf(host)[i]))
         /\ Root(rows[i].url, host, Maps) = TextOf(host, CompsOf(host)[i])
<1> DEFINE p == PathShown(rows[i], host)
           s == CompsOf(host)[i]
           own == OfHost(rows, host, Maps)
<1>1. s = Components(p)
  BY DEF CompsOf
<1>2. i \in own
  BY DEF Own
<1>3. Shown(rows[i].url, host, Maps).host = host
  BY <1>2 DEF Plain
<1>4. p = FolderText(s, Len(s))
  <2>1. Tidy({PathShown(rows[j], host) : j \in own})
    BY DEF Plain
  <2>2. p \in {PathShown(rows[j], host) : j \in own}
    BY <1>2
  <2> HIDE DEF p
  <2>3. p = FolderText(Components(p), Len(Components(p)))
    BY <2>1, <2>2 DEF Tidy
  <2> QED
    BY <1>1, <2>3
<1>5. Root(rows[i].url, host, Maps) = <<host>> \o p
  BY <1>3 DEF Root, PathShown
<1> HIDE DEF p, s
<1>6. TextOf(host, s) = <<host>> \o FolderText(s, Len(s))
  BY DEF TextOf, TextBehind, Joined
<1> QED
  BY <1>4, <1>5, <1>6 DEF p, s

\* Whether the k-th name of p begins that of its neighbour in q.
Apart1(p, q, k) ==
  k <= Len(q) /\ (\A j \in 1 .. k - 1 : p[j] = q[j]) /\ p[k] # q[k] => ~IsPrefix(p[k], q[k])

LEMMA NeighboursApart ==
  ASSUME NEW host, Listed(host), NEW i \in Own(host), NEW j \in Own(host),
         NEW k \in 1 .. Len(CompsOf(host)[i]) - 1
  PROVE  Apart1(CompsOf(host)[i], CompsOf(host)[j], k)
<1> DEFINE p(l) == PathShown(rows[l], host)
           s == CompsOf(host)[i]
           t == CompsOf(host)[j]
           paths == {p(l) : l \in OfHost(rows, host, Maps)}
<1>1. s = Components(p(i)) /\ t = Components(p(j)) /\ p(i) \in paths /\ p(j) \in paths
  BY DEF CompsOf, Own
<1>2. Tidy(paths)
  BY DEF Listed, Plain
<1>3. s \in Seq(Names(Token)) /\ t \in Seq(Names(Token))
  BY OwnApiece DEF Listed, Apiece
<1> HIDE DEF s, t, p, paths
<1>4. k \in 1 .. Len(s) - 1
  BY DEF s
<1>5. ASSUME k <= Len(t), \A l \in 1 .. k - 1 : s[l] = t[l]
      PROVE  SubSeq(s, 1, k - 1) = SubSeq(t, 1, k - 1)
  <2>1. Len(s) \in Nat /\ Len(t) \in Nat /\ k \in Nat /\ k - 1 \in Nat /\ k - 1 <= Len(s) /\ k - 1 <= Len(t)
    BY <1>3, <1>4, <1>5
  <2> DEFINE d == k - 1
  <2>2. d \in 0 .. Len(s) /\ d \in 0 .. Len(t)
    BY <2>1
  <2>3. \A l \in 1 .. d : s[l] = t[l]
    BY <1>5
  <2> HIDE DEF d
  <2>4. /\ SubSeq(s, 1, d) = [l \in 1 .. (d - 1 + 1) |-> s[1 + l - 1]]
        /\ SubSeq(t, 1, d) = [l \in 1 .. (d - 1 + 1) |-> t[1 + l - 1]]
    <3>1. 1 \in Nat \ {0} /\ d \in Nat /\ d <= Len(s) /\ d <= Len(t)
      BY <2>1, <2>2
    <3> QED
      BY <1>3, <3>1, SubSeqIs
  <2>5. \A l \in 1 .. (d - 1 + 1) : l \in 1 .. d /\ 1 + l - 1 = l
    BY <2>1, <2>2
  <2>6. SubSeq(s, 1, d) = SubSeq(t, 1, d)
    BY <2>3, <2>4, <2>5
  <2> QED
    BY <2>6 DEF d
<1>6. k <= Len(t) /\ SubSeq(s, 1, k - 1) = SubSeq(t, 1, k - 1) /\ s[k] # t[k] => ~IsPrefix(s[k], t[k])
  BY <1>1, <1>2, <1>4 DEF Tidy
<1> QED
  BY <1>5, <1>6 DEF Apart1, s, t

LEMMA FolderIs ==
  ASSUME NEW own, NEW c, NEW n, NEW A, Apiece(own, c, n, A), NEW node \in FoldersOf(own, c, n)
  PROVE  /\ node \in Seq(A) /\ \A i \in own : c[i] # node
         /\ node = <<>> \/ \E j \in own : /\ Len(node) < Len(c[j])
                                          /\ \A l \in 1 .. Len(node) : node[l] = c[j][l]
<1>1. n \in Nat
  BY DEF Apiece
<1>2. node \in NodesOf(own, c, n) /\ \A i \in own : c[i] # node
  BY DEF FoldersOf
<1>3. node \in Seq(A)
  BY <1>1, <1>2, NodesAre
<1>4. node = <<>> \/ \E i \in own : i <= n /\ IsPrefix(node, c[i])
  BY <1>1, <1>2, <1>3, NodesAre
<1>5. ASSUME NEW i \in own, IsPrefix(node, c[i])
      PROVE  Len(node) < Len(c[i]) /\ \A l \in 1 .. Len(node) : node[l] = c[i][l]
  <2> DEFINE q == c[i]
  <2>1. i \in Under(own, c, node)
    BY <1>5 DEF Under
  <2>2. q \in Seq(A) /\ Len(node) < Len(q)
    BY <1>2, <1>3, <2>1, NextOfOwn
  <2>3. IsPrefix(node, q)
    BY <1>5
  <2> HIDE DEF q
  <2>4. \A l \in 1 .. Len(node) : node[l] = q[l]
    BY <1>3, <2>2, <2>3, PrefixIs
  <2> QED
    BY <2>2, <2>4 DEF q
<1> QED
  BY <1>2, <1>3, <1>4, <1>5

(* The text of an entry begins with that of a folder when the entry lies   *)
(* in it, and goes on with a slash and the next name.                      *)
LEMMA TextInside ==
  ASSUME NEW host, Listed(host), NEW i \in Own(host),
         NEW node \in FoldersOf(Own(host), CompsOf(host), Len(rows)),
         IsPrefix(TextOf(host, node), TextOf(host, CompsOf(host)[i]))
  PROVE  i \in Under(Own(host), CompsOf(host), node)
<1> DEFINE c == CompsOf(host)
           q == c[i]
           k == Len(node)
           A == Names(Token)
           s == <<host>>
<1>1. Apiece(Own(host), c, Len(rows), A)
  BY OwnApiece DEF Listed
<1>2. node \in Seq(A) /\ q \in Seq(A) /\ k \in Nat /\ k \in 0 .. Len(node)
  BY <1>1, FolderIs DEF Apiece
<1>3. Slash \in Token /\ s \in Seq(Token)
  BY HostTyped
<1>4. IsPrefix(TextBehind(s, node, k), TextBehind(s, q, Len(q)))
  BY DEF TextOf
<1>5. ASSUME NEW l \in 1 .. k
      PROVE  Apart1(node, q, l)
  <2>1. node # <<>>
    BY <1>2
  <2>2. PICK j \in Own(host) : Len(node) < Len(c[j]) /\ \A m \in 1 .. k : node[m] = c[j][m]
    BY <1>1, <2>1, FolderIs
  <2> DEFINE p == c[j]
  <2>3. p \in Seq(A)
    BY <1>1 DEF Apiece
  <2>4. l \in 1 .. Len(p) - 1
    <3>1. Len(p) \in Nat /\ k < Len(p)
      BY <2>2, <2>3
    <3> HIDE DEF p
    <3> QED
      BY <1>2, <3>1
  <2>5. Apart1(p, q, l)
    BY <2>4, NeighboursApart
  <2>6. \A m \in 1 .. k : node[m] = p[m]
    BY <2>2
  <2> HIDE DEF p, q
  <2>7. \A m \in 1 .. l - 1 : m \in 1 .. k
    BY <1>2
  <2>8. node[l] = p[l] /\ \A m \in 1 .. l - 1 : node[m] = p[m]
    BY <2>6, <2>7
  <2> QED
    BY <2>5, <2>8 DEF Apart1
<1> HIDE DEF c, q, k, A, s
<1>6. \A l \in 1 .. k : /\ l <= Len(q)
                        /\ \A m \in 1 .. l - 1 : node[m] = q[m]
                        /\ node[l] # q[l]
                        => ~IsPrefix(node[l], q[l])
  BY <1>5 DEF Apart1
<1>7. k <= Len(q) /\ \A m \in 1 .. k : node[m] = q[m]
  BY <1>2, <1>3, <1>4, <1>6, TextPrefix DEF A
<1>8. IsPrefix(node, q)
  BY <1>2, <1>7, PrefixIs DEF k
<1> QED
  BY <1>8 DEF Under, c, q

LEMMA TextBelow ==
  ASSUME NEW host, Listed(host), NEW node \in FoldersOf(Own(host), CompsOf(host), Len(rows)),
         NEW i \in Under(Own(host), CompsOf(host), node)
  PROVE  /\ Extends(TextOf(host, node), TextOf(host, CompsOf(host)[i]), TRUE)
         /\ HasName(TextOf(host, CompsOf(host)[i]), Len(TextOf(host, node)) + 1,
                    CompsOf(host)[i][Len(node) + 1], Token, Len(CompsOf(host)[i]) = Len(node) + 1)
<1> DEFINE c == CompsOf(host)
           q == c[i]
           k == Len(node)
           A == Names(Token)
           s == <<host>>
<1>1. Apiece(Own(host), c, Len(rows), A)
  BY OwnApiece DEF Listed
<1>2. node \in Seq(A) /\ \A j \in Own(host) : c[j] # node
  BY <1>1, FolderIs
<1>3. i \in Own(host) /\ q \in Seq(A) /\ k \in Nat /\ Len(q) \in Nat /\ k < Len(q)
  BY <1>1, <1>2, NextOfOwn
<1>4. Slash \in Token /\ s \in Seq(Token)
  BY HostTyped
<1>5. IsPrefix(node, q)
  BY DEF Under
<1>6. TextOf(host, node) = TextBehind(s, node, k) /\ TextOf(host, q) = TextBehind(s, q, Len(q))
  BY DEF TextOf
<1> HIDE DEF c, q, s
<1>7. \A l \in 1 .. k : node[l] = q[l]
  BY <1>2, <1>3, <1>5, PrefixIs
<1> HIDE DEF k
<1>8. TextBehind(s, node, k) = TextBehind(s, q, k)
  BY <1>3, <1>7, SameText DEF TextBehind
<1>9. k \in 0 .. Len(q) /\ Len(q) \in k .. Len(q)
  BY <1>3
<1> DEFINE m == Len(q)
<1> HIDE DEF m
<1>10. Extends(TextBehind(s, q, k), TextBehind(s, q, m), k < m)
  BY <1>3, <1>4, <1>9, TextGrows DEF m, A
<1>11. HasName(TextBehind(s, q, m), Len(TextBehind(s, q, k)) + 1, q[k + 1], Token, m = k + 1)
  BY <1>3, <1>4, <1>9, NextName DEF m, A
<1>12. (k < m) = TRUE
  BY <1>3 DEF m
<1>13. Extends(TextOf(host, node), TextOf(host, q), TRUE)
  BY <1>6, <1>8, <1>10, <1>12 DEF m
<1>14. HasName(TextOf(host, q), Len(TextOf(host, node)) + 1, q[k + 1], Token, m = k + 1)
  BY <1>6, <1>8, <1>11 DEF m
<1> QED
  BY <1>13, <1>14 DEF c, q, k, m

\* A base is the beginning of a text and what is left begins with a name.
Reads(q, base, x, last) ==
  /\ IsPrefix(base, q)
  /\ Relative(q, base) # <<>>
  /\ RelativeName(Relative(q, base)) = x
  /\ Contains(Relative(q, base), Slash) <=> ~last

LEMMA ReadsName ==
  ASSUME NEW T, Slash \in T, NEW b \in Seq(T), NEW q \in Seq(T), NEW x, NEW last,
         Extends(b, q, TRUE), HasName(q, Len(b) + 1, x, T, last)
  PROVE  Reads(q, b, x, last) /\ Reads(q, b \o <<Slash>>, x, last)
<1> DEFINE a == Len(b) + 1
           rel == SubSeq(q, a + 1, Len(q))
           d == b \o <<Slash>>
<1>1. /\ Len(b) \in Nat /\ Len(q) \in Nat /\ Len(b) < Len(q) /\ q[a] = Slash
      /\ \A j \in 1 .. Len(b) : b[j] = q[j]
  BY DEF Extends
<1>2. /\ d \in Seq(T) /\ Len(d) = a /\ d[a] = Slash
      /\ \A j \in 1 .. Len(b) : d[j] = b[j]
  OBVIOUS
<1>3. HasName(q, a, x, T, last)
  OBVIOUS
<1> HIDE DEF d
<1>4. IsPrefix(b, q)
  BY <1>1, PrefixIs
<1>5. IsPrefix(d, q)
  <2>1. \A j \in 1 .. a : j \in 1 .. Len(b) \/ j = a
    BY <1>1
  <2>2. a <= Len(q) /\ \A j \in 1 .. a : d[j] = q[j]
    BY <1>1, <1>2, <2>1
  <2> QED
    BY <1>2, <2>2, PrefixIs
<1>6. a \in 1 .. Len(q) /\ a < Len(q) /\ q[a + 1] # Slash
  <2>1. /\ x \in Names(T) /\ a + Len(x) <= Len(q)
        /\ \A j \in 1 .. Len(x) : q[a + j] = x[j]
    BY <1>3 DEF HasName
  <2>2. Len(x) \in Nat \ {0} /\ \A j \in 1 .. Len(x) : x[j] # Slash
    BY <2>1 DEF Names
  <2>3. 1 \in 1 .. Len(x)
    BY <2>2
  <2>4. q[a + 1] # Slash
    BY <2>1, <2>2, <2>3
  <2> QED
    BY <1>1, <2>1, <2>2, <2>4
<1> HIDE DEF a
<1>7. rel = SubSeq(q, a + 1, Len(q))
  OBVIOUS
<1>8. TrimStart(SubSeq(q, a, Len(q))) = rel
  BY <1>1, <1>6, SlashTrimmed
<1> HIDE DEF rel
<1>9. /\ rel # <<>> /\ TrimStart(rel) = rel /\ RelativeName(rel) = x
      /\ Contains(rel, Slash) <=> ~last
  <2>1. NameFirst(SubSeq(q, a + 1, Len(q)), x, T, last)
    BY <1>3, RelIs
  <2> QED
    BY <1>7, <2>1 DEF NameFirst
<1>10. Relative(q, b) = rel
  <2>1. After(q, b) = SubSeq(q, a, Len(q))
    BY DEF After, From, a
  <2> QED
    BY <1>8, <2>1 DEF Relative
<1>11. Relative(q, d) = rel
  <2>1. After(q, d) = SubSeq(q, a + 1, Len(q))
    BY <1>2 DEF After, From
  <2> QED
    BY <1>7, <1>9, <2>1 DEF Relative
<1> QED
  BY <1>4, <1>5, <1>9, <1>10, <1>11 DEF Reads, d

(* A folder's text, with or without a slash behind it, is a base of what   *)
(* lies in the folder.                                                     *)
LEMMA FolderReads ==
  ASSUME NEW host, Listed(host), NEW node \in FoldersOf(Own(host), CompsOf(host), Len(rows)),
         NEW base, base \in {TextOf(host, node), TextOf(host, node) \o <<Slash>>},
         NEW i \in Own(host)
  PROVE  /\ IsPrefix(base, TextOf(host, CompsOf(host)[i])) <=> i \in Under(Own(host), CompsOf(host), node)
         /\ i \in Under(Own(host), CompsOf(host), node)
              => Reads(TextOf(host, CompsOf(host)[i]), base, CompsOf(host)[i][Len(node) + 1],
                       Len(CompsOf(host)[i]) = Len(node) + 1)
<1> DEFINE c == CompsOf(host)
           b == TextOf(host, node)
           q == TextOf(host, c[i])
           A == Names(Token)
<1>1. Apiece(Own(host), c, Len(rows), A)
  BY OwnApiece DEF Listed
<1>2. Slash \in Token /\ <<host>> \in Seq(Token)
  BY HostTyped
<1>3. node \in Seq(A) /\ c[i] \in Seq(A)
  BY <1>1, FolderIs DEF Apiece
<1>4. b \in Seq(Token) /\ q \in Seq(Token)
  <2>1. ASSUME NEW s \in Seq(A)
        PROVE  TextOf(host, s) \in Seq(Token)
    <3>1. Len(s) \in 0 .. Len(s)
      OBVIOUS
    <3>2. \A k \in 0 .. Len(s) : TextBehind(<<host>>, s, k) \in Seq(Token)
      BY <1>2, BehindIs
    <3> QED
      BY <3>1, <3>2 DEF TextOf
  <2> QED
    BY <1>3, <2>1
<1>5. ASSUME i \in Under(Own(host), c, node)
      PROVE  Reads(q, base, c[i][Len(node) + 1], Len(c[i]) = Len(node) + 1)
  <2> DEFINE x == c[i][Len(node) + 1]
             last == Len(c[i]) = Len(node) + 1
  <2>1. Extends(b, q, TRUE) /\ HasName(q, Len(b) + 1, x, Token, last)
    BY <1>5, TextBelow
  <2> HIDE DEF x, last, b, q
  <2>2. Reads(q, b, x, last) /\ Reads(q, b \o <<Slash>>, x, last)
    BY <1>2, <1>4, <2>1, ReadsName
  <2> QED
    BY <2>2 DEF x, last, b
<1>6. ASSUME IsPrefix(base, q)
      PROVE  i \in Under(Own(host), c, node)
  <2>1. IsPrefix(b, q)
    <3>1. CASE base = b
      BY <1>6, <3>1
    <3>2. CASE base = b \o <<Slash>>
      <4> HIDE DEF b, q
      <4>1. base \in Seq(Token) /\ Len(base) = Len(b) + 1 /\ \A j \in 1 .. Len(b) : base[j] = b[j]
        BY <1>2, <1>4, <3>2
      <4>2. Len(base) <= Len(q) /\ \A j \in 1 .. Len(base) : base[j] = q[j]
        BY <1>4, <1>6, <4>1, PrefixIs
      <4>3. Len(b) \in Nat /\ Len(q) \in Nat
        BY <1>4
      <4>4. Len(b) <= Len(q) /\ \A j \in 1 .. Len(b) : b[j] = q[j]
        BY <4>1, <4>2, <4>3
      <4> QED
        BY <1>4, <4>4, PrefixIs
    <3> QED
      BY <3>1, <3>2
  <2> QED
    BY <2>1, TextInside
<1>7. i \in Under(Own(host), c, node) => IsPrefix(base, q)
  BY <1>5 DEF Reads
<1> QED
  BY <1>5, <1>6, <1>7

LinesOf(host, node, base) ==
  {LineOf(base, Own(host), CompsOf(host), RowSizes, Len(rows), node, x) :
     x \in ChildNames(Own(host), CompsOf(host), node)}

LEMMA HostLevel ==
  ASSUME NEW host, Listed(host), NEW node \in FoldersOf(Own(host), CompsOf(host), Len(rows)),
         NEW base, base \in {TextOf(host, node), TextOf(host, node) \o <<Slash>>},
         NEW roots, DOMAIN roots \in SUBSET Own(host),
         Under(Own(host), CompsOf(host), node) \in SUBSET DOMAIN roots,
         \A i \in DOMAIN roots : roots[i] = [root |-> TextOf(host, CompsOf(host)[i]), size |-> RowSizes[i]]
  PROVE  Level(roots, base) = LinesOf(host, node, base)
<1> DEFINE own == Own(host)
           c == CompsOf(host)
           B == Under(own, c, node)
<1>1. Apiece(own, c, Len(rows), Names(Token)) /\ RowSizes \in [1 .. Len(rows) -> Nat]
  BY OwnApiece, StoredTyped DEF Listed
<1>2. node \in Seq(Names(Token)) /\ \A i \in own : c[i] # node
  BY <1>1, FolderIs
<1>3. ASSUME NEW i \in own
      PROVE  /\ IsPrefix(base, TextOf(host, c[i])) <=> i \in B
             /\ i \in B => Reads(TextOf(host, c[i]), base, c[i][Len(node) + 1], Len(c[i]) = Len(node) + 1)
  BY FolderReads
<1>4. B \in SUBSET DOMAIN roots /\ DOMAIN roots \in SUBSET own
      /\ \A i \in DOMAIN roots : roots[i].root = TextOf(host, c[i]) /\ roots[i].size = RowSizes[i]
  OBVIOUS
<1> HIDE DEF own, c, B
<1>5. \A i \in own : i \in DOMAIN roots /\ IsPrefix(base, roots[i].root) <=> i \in B
  BY <1>3, <1>4
<1>6. \A i \in B : Reads(roots[i].root, base, c[i][Len(node) + 1], Len(c[i]) = Len(node) + 1)
  BY <1>3, <1>4
<1>7. \A i \in B : /\ Relative(roots[i].root, base) # <<>>
                   /\ RelativeName(Relative(roots[i].root, base)) = c[i][Len(node) + 1]
                   /\ Contains(Relative(roots[i].root, base), Slash) <=> Len(c[i]) # Len(node) + 1
  BY <1>6 DEF Reads
<1>8. \A i \in B : RelativesOf(roots, base)[i] = Relative(roots[i].root, base)
  BY <1>4 DEF RelativesOf
<1>9. TellsNext(B, RelativesOf(roots, base), c, node)
  BY <1>7, <1>8 DEF TellsNext
<1>10. LooksInto(roots, base, own, c, RowSizes, node)
  BY <1>4, <1>5, <1>7, <1>9 DEF LooksInto, B
<1> QED
  BY <1>1, <1>2, <1>10, LevelIs DEF LinesOf, own, c

-----------------------------------------------------------------------------
(* A listing of all levels.                                                *)

HostRoots(host) ==
  [i \in Own(host) |-> [root |-> TextOf(host, CompsOf(host)[i]), size |-> RowSizes[i]]]

LEMMA LsIs ==
  ASSUME NEW host, Listed(host)
  PROVE  Ls(rows, host, <<>>, Maps) = Render(HostRoots(host), <<host>>)
<1> DEFINE own == Own(host)
           scope == {j \in DOMAIN rows : InScope(rows[j], host, <<>>, Maps)}
<1>1. scope = own
  BY DEF InScope, Own, OfHost
<1>2. <<host>> \o <<>> = <<host>>
  BY HostTyped, ConcatEmptySeq
<1>3. ASSUME NEW i \in own
      PROVE  [root |-> Root(rows[i].url, host, Maps), size |-> rows[i].size]
               = [root |-> TextOf(host, CompsOf(host)[i]), size |-> RowSizes[i]]
  <2>1. i \in 1 .. Len(rows)
    BY StoredTyped DEF Listed
  <2>2. RowSizes[i] = rows[i].size
    BY <2>1 DEF RowSizes
  <2>3. Root(rows[i].url, host, Maps) = TextOf(host, CompsOf(host)[i])
    BY RootIs DEF Listed
  <2> QED
    BY <2>2, <2>3
<1> HIDE DEF own, scope
<1>4. [i \in scope |-> [root |-> Root(rows[i].url, host, Maps), size |-> rows[i].size]] = HostRoots(host)
  BY <1>1, <1>3 DEF HostRoots, own
<1> QED
  BY <1>2, <1>4 DEF Ls, scope

\* The directories of a host within some depth.
Within(host, depth) ==
  {node \in FoldersOf(Own(host), CompsOf(host), Len(rows)) : Len(node) <= depth}

LEMMA FoldersBegin ==
  ASSUME NEW own, NEW c, NEW n, NEW A, Apiece(own, c, n, A)
  PROVE  /\ <<>> \in FoldersOf(own, c, n)
         /\ FoldersOf(own, c, n) \in SUBSET Seq(A)
         /\ \A node \in FoldersOf(own, c, n) : \A x \in ChildNames(own, c, node) :
              /\ x \in A
              /\ Append(node, x) \in Seq(A) \ {<<>>}
              /\ Append(node, x) \in NodesOf(own, c, n)
         /\ \A m \in NodesOf(own, c, n) \ {<<>>} :
              /\ m \in Seq(A)
              /\ Front(m) \in FoldersOf(own, c, n)
              /\ Last(m) \in ChildNames(own, c, Front(m))
              /\ m = Append(Front(m), Last(m))
              /\ Len(m) = Len(Front(m)) + 1
<1>1. n \in Nat /\ (\A i \in own : i <= n) /\ \A i \in own : c[i] \in Seq(A) /\ c[i] # <<>>
  <2>1. n \in Nat /\ own \in SUBSET (1 .. n)
    BY DEF Apiece
  <2>2. \A i \in own : i <= n
    BY <2>1
  <2> QED
    BY <2>1, <2>2 DEF Apiece
<1>2. /\ NodesOf(own, c, n) \in SUBSET Seq(A)
      /\ \A m \in Seq(A) : m \in NodesOf(own, c, n)
           <=> m = <<>> \/ \E i \in own : i <= n /\ IsPrefix(m, c[i])
  BY <1>1, NodesAre
<1>3. <<>> \in FoldersOf(own, c, n)
  <2>1. <<>> \in Seq(A)
    OBVIOUS
  <2> QED
    BY <1>1, <1>2, <2>1 DEF FoldersOf
<1>4. FoldersOf(own, c, n) \in SUBSET Seq(A)
  BY <1>2 DEF FoldersOf
<1>5. ASSUME NEW node \in FoldersOf(own, c, n), NEW x \in ChildNames(own, c, node)
      PROVE  /\ x \in A
             /\ Append(node, x) \in Seq(A) \ {<<>>}
             /\ Append(node, x) \in NodesOf(own, c, n)
  <2>1. PICK i \in Under(own, c, node) : x = c[i][Len(node) + 1]
    BY DEF ChildNames
  <2>2. node \in Seq(A) /\ \A j \in own : c[j] # node
    BY FolderIs
  <2> DEFINE q == c[i]
  <2>3. i \in own /\ q \in Seq(A) /\ Len(node) < Len(q) /\ x \in A
    BY <2>1, <2>2, NextOfOwn
  <2>4. IsPrefix(node, q) /\ q[Len(node) + 1] = x
    BY <2>1 DEF Under
  <2> HIDE DEF q
  <2>5. Append(node, x) \in Seq(A) /\ Append(node, x) # <<>> /\ IsPrefix(Append(node, x), q)
    BY <2>2, <2>3, <2>4, OneBelow
  <2>6. Append(node, x) \in NodesOf(own, c, n)
    BY <1>1, <1>2, <2>3, <2>5 DEF q
  <2> QED
    BY <2>3, <2>5, <2>6
<1>6. ASSUME NEW m \in NodesOf(own, c, n), m # <<>>
      PROVE  /\ m \in Seq(A)
             /\ Front(m) \in FoldersOf(own, c, n)
             /\ Last(m) \in ChildNames(own, c, Front(m))
             /\ m = Append(Front(m), Last(m))
             /\ Len(m) = Len(Front(m)) + 1
  <2> DEFINE f == Front(m)
             x == Last(m)
             l == Len(m)
  <2>1. m \in Seq(A)
    BY <1>2
  <2>2. PICK i \in own : IsPrefix(m, c[i])
    BY <1>2, <1>6, <2>1
  <2> DEFINE q == c[i]
  <2>3. q \in Seq(A) /\ IsPrefix(m, q)
    BY <1>1, <2>2
  <2> HIDE DEF q
  <2>4. l \in Nat /\ l # 0 /\ l - 1 \in Nat /\ l - 1 \in 0 .. l /\ l \in 1 .. l
    BY <1>6, <2>1
  <2>5. f = SubSeq(m, 1, l - 1) /\ x = m[l]
    BY DEF Front, Last
  <2>6. f \in Seq(A) /\ Len(f) = l - 1 /\ IsPrefix(f, m)
    <3> DEFINE d == l - 1
    <3>1. d \in 0 .. Len(m)
      BY <2>4
    <3> HIDE DEF d
    <3>2. SubSeq(m, 1, d) \in Seq(A) /\ Len(SubSeq(m, 1, d)) = d /\ IsPrefix(SubSeq(m, 1, d), m)
      BY <2>1, <3>1, StartIs
    <3> HIDE DEF f, l
    <3> QED
      BY <2>5, <3>2 DEF d
  <2>7. x \in A
    BY <2>1, <2>4, <2>5
  <2> HIDE DEF f, x, l
  <2>8. IsPrefix(f, m) /\ Len(f) < Len(m) /\ m[Len(f) + 1] = x /\ Len(m) = Len(f) + 1
    BY <2>4, <2>5, <2>6 DEF l
  <2>9. m = Append(f, x)
    BY <2>1, <2>6, <2>7, <2>8, OneBelow
  <2>10. IsPrefix(f, q) /\ Len(f) < Len(q) /\ q[Len(f) + 1] = x
    BY <2>3, <2>6, <2>7, <2>9, OneBelow
  <2>11. f \in NodesOf(own, c, n)
    BY <1>1, <1>2, <2>6, <2>10 DEF q
  <2>12. \A j \in own : c[j] # f
    <3> SUFFICES ASSUME NEW j \in own, c[j] = f PROVE FALSE
      OBVIOUS
    <3>1. IsPrefix(c[j], c[i])
      BY <2>10 DEF q
    <3>2. j = i
      BY <3>1 DEF Apiece
    <3>3. Len(q) \in Nat
      BY <2>3
    <3> QED
      BY <2>10, <3>2, <3>3 DEF q
  <2>13. x \in ChildNames(own, c, f)
    <3>1. i \in Under(own, c, f)
      BY <2>10 DEF Under, q
    <3> QED
      BY <2>10, <3>1 DEF ChildNames, q
  <2> QED
    BY <2>1, <2>8, <2>9, <2>11, <2>12, <2>13 DEF FoldersOf, f, x
<1> QED
  BY <1>3, <1>4, <1>5, <1>6

LEMMA TextTyped ==
  ASSUME NEW host, Listed(host), NEW s \in Seq(Names(Token))
  PROVE  TextOf(host, s) \in Seq(Token) /\ TextOf(host, s) # <<>> /\ TextOf(host, <<>>) = <<host>>
<1> DEFINE h == <<host>>
           e == <<>>
<1>1. Slash \in Token /\ h \in Seq(Token) /\ Len(h) = 1
  BY HostTyped
<1>2. e \in Seq(Names(Token)) /\ Len(e) = 0
  OBVIOUS
<1> HIDE DEF h, e
<1>3. Len(s) \in 0 .. Len(s) /\ 0 \in 0 .. Len(s) /\ Len(s) \in 0 .. Len(s)
  OBVIOUS
<1>4. TextBehind(h, s, Len(s)) \in Seq(Token)
  BY <1>1, <1>3, BehindIs
<1>5. TextBehind(h, e, 0) = h /\ TextBehind(h, s, 0) = h
  BY <1>1, <1>2, BehindIs
<1>6. Extends(TextBehind(h, s, 0), TextBehind(h, s, Len(s)), 0 < Len(s))
  BY <1>1, <1>3, TextGrows
<1>7. Len(TextBehind(h, s, Len(s))) # 0
  <2> DEFINE t == TextBehind(h, s, Len(s))
  <2>1. t \in Seq(Token) /\ Len(h) <= Len(t)
    BY <1>4, <1>5, <1>6 DEF Extends
  <2> HIDE DEF t
  <2> QED
    BY <1>1, <2>1 DEF t
<1>8. TextOf(host, s) \in Seq(Token) /\ TextOf(host, s) # <<>>
  BY <1>4, <1>7 DEF TextOf, h
<1>9. TextOf(host, <<>>) = <<host>>
  BY <1>2, <1>5 DEF TextOf, h, e
<1> QED
  BY <1>8, <1>9

LEMMA TextAppended ==
  ASSUME NEW host, Listed(host), NEW node \in Seq(Names(Token)), NEW x \in Names(Token)
  PROVE  Longer(TextOf(host, node), x) = TextOf(host, Append(node, x))
<1> DEFINE m == Append(node, x)
           k == Len(node)
           h == <<host>>
<1>1. /\ m \in Seq(Names(Token)) /\ Len(m) = k + 1 /\ m[k + 1] = x
      /\ \A l \in 1 .. k : m[l] = node[l]
  BY AppendProperties
<1>0. k \in Nat
  OBVIOUS
<1>2. Slash \in Token /\ h \in Seq(Token) /\ k \in Nat
  BY <1>0, HostTyped
<1> HIDE DEF m, h
<1>3. k + 1 \in 1 .. Len(m) /\ (k + 1) - 1 = k
  BY <1>1, <1>2
<1> HIDE DEF k
<1>4. TextBehind(h, m, k + 1) = Longer(TextBehind(h, m, k), m[k + 1])
  <2> DEFINE X(l) == TextBehind(h, m, l)
  <2>0. m \in Seq(Names(Token))
    BY <1>1
  <2>1. \A l \in 1 .. Len(m) : X(l) = Longer(X(l - 1), m[l])
    BY <1>2, <2>0, BehindIs
  <2> HIDE DEF X
  <2>2. X(k + 1) = Longer(X(k), m[k + 1])
    BY <1>3, <2>1
  <2> QED
    BY <2>2 DEF X
<1>5. TextBehind(h, m, k) = TextBehind(h, node, k)
  BY <1>1, <1>2, SameText DEF TextBehind
<1>6. TextOf(host, m) = TextBehind(h, m, k + 1) /\ TextOf(host, node) = TextBehind(h, node, k)
  BY <1>1 DEF TextOf, h, k
<1> QED
  BY <1>1, <1>4, <1>5, <1>6 DEF m

LEMMA RootLevel ==
  ASSUME NEW host, Listed(host), NEW node \in FoldersOf(Own(host), CompsOf(host), Len(rows))
  PROVE  Level(HostRoots(host), TextOf(host, node)) = LinesOf(host, node, TextOf(host, node))
<1> DEFINE roots == HostRoots(host)
<1>1. DOMAIN roots = Own(host)
      /\ \A i \in DOMAIN roots : roots[i] = [root |-> TextOf(host, CompsOf(host)[i]), size |-> RowSizes[i]]
  BY DEF HostRoots
<1> HIDE DEF roots
<1>2. Under(Own(host), CompsOf(host), node) \in SUBSET DOMAIN roots
  BY <1>1 DEF Under
<1>3. Level(roots, TextOf(host, node)) = LinesOf(host, node, TextOf(host, node))
  BY <1>1, <1>2, HostLevel
<1> QED
  BY <1>3 DEF roots

FolderNames(host, node) ==
  {x \in ChildNames(Own(host), CompsOf(host), node) :
     Append(node, x) \in FoldersOf(Own(host), CompsOf(host), Len(rows))}

LEMMA DirectoriesAre ==
  ASSUME NEW host, Listed(host), NEW node \in FoldersOf(Own(host), CompsOf(host), Len(rows))
  PROVE  Directories(HostRoots(host), TextOf(host, node))
           = {TextOf(host, Append(node, x)) : x \in FolderNames(host, node)}
<1> DEFINE own == Own(host)
           c == CompsOf(host)
           n == Len(rows)
           A == Names(Token)
           base == TextOf(host, node)
           names == ChildNames(own, c, node)
           line(x) == LineOf(base, own, c, RowSizes, n, node, x)
           level == Level(HostRoots(host), base)
<1>1. Apiece(own, c, n, A)
  BY OwnApiece DEF Listed
<1>2. node \in Seq(A) /\ \A x \in names : /\ x \in A
                                          /\ Append(node, x) \in NodesOf(own, c, n)
  BY <1>1, FoldersBegin
<1>3. base # <<>>
  BY <1>2, TextTyped
<1>4. \A x \in names : x # <<>>
  BY <1>2 DEF Names
<1>5. level = {line(x) : x \in names}
  BY RootLevel DEF LinesOf
<1>6. ASSUME NEW x \in names
      PROVE  /\ line(x).name = x
             /\ line(x).item.dir <=> Append(node, x) \in FoldersOf(own, c, n)
             /\ base \o <<Slash>> \o line(x).name = TextOf(host, Append(node, x))
  <2>1. line(x).name = x
    BY DEF LineOf
  <2>2. line(x).item.dir = \A i \in own : c[i] # Append(node, x)
    BY DEF LineOf, NodeOf
  <2>3. line(x).item.dir <=> Append(node, x) \in FoldersOf(own, c, n)
    BY <1>2, <2>2 DEF FoldersOf
  <2>4. Longer(base, x) = TextOf(host, Append(node, x))
    BY <1>2, TextAppended
  <2> QED
    BY <2>1, <2>3, <2>4 DEF Longer
<1>7. Directories(HostRoots(host), base)
        = {base \o <<Slash>> \o l.name : l \in {k \in level : k.name # <<>> /\ k.item.dir}}
  BY <1>3 DEF Directories
<1>8. FolderNames(host, node) = {x \in names : Append(node, x) \in FoldersOf(own, c, n)}
  BY DEF FolderNames
<1> HIDE DEF line, level, names, base
<1> DEFINE text(y) == base \o <<Slash>> \o y
<1>9. /\ \A x \in names : text(line(x).name) = TextOf(host, Append(node, x))
      /\ Directories(HostRoots(host), base) = {text(l.name) : l \in {k \in level : k.name # <<>> /\ k.item.dir}}
  BY <1>6, <1>7
<1> HIDE DEF text
<1>10. {text(l.name) : l \in {k \in level : k.name # <<>> /\ k.item.dir}}
         = {TextOf(host, Append(node, x)) : x \in FolderNames(host, node)}
  <2> DEFINE lines == {k \in level : k.name # <<>> /\ k.item.dir}
  <2>1. ASSUME NEW l \in lines
        PROVE  \E x \in FolderNames(host, node) : text(l.name) = TextOf(host, Append(node, x))
    <3>1. PICK x \in names : l = line(x)
      BY <1>5
    <3>2. x \in FolderNames(host, node)
      BY <1>6, <1>8, <3>1
    <3> QED
      BY <1>9, <3>1, <3>2
  <2>2. ASSUME NEW x \in FolderNames(host, node)
        PROVE  line(x) \in lines /\ text(line(x).name) = TextOf(host, Append(node, x))
    <3>1. x \in names /\ Append(node, x) \in FoldersOf(own, c, n)
      BY <1>8
    <3> QED
      BY <1>4, <1>5, <1>6, <1>9, <3>1
  <2> HIDE DEF lines
  <2>3. {text(l.name) : l \in lines} = {TextOf(host, Append(node, x)) : x \in FolderNames(host, node)}
    BY <2>1, <2>2
  <2> QED
    BY <2>3 DEF lines
<1> QED
  BY <1>9, <1>10 DEF base

\* The bases of the directories of a host within some depth.
BasesWithin(host, depth) == {TextOf(host, node) : node \in Within(host, depth)}

LEMMA FirstBases ==
  ASSUME NEW host, Listed(host)
  PROVE  BasesWithin(host, 0) = {<<host>>}
<1> DEFINE folders == FoldersOf(Own(host), CompsOf(host), Len(rows))
<1>1. <<>> \in folders /\ folders \in SUBSET Seq(Names(Token))
  BY OwnApiece, FoldersBegin DEF Listed
<1> HIDE DEF folders
<1>2. ASSUME NEW node \in folders
      PROVE  Len(node) <= 0 <=> node = <<>>
  <2>1. node \in Seq(Names(Token))
    BY <1>1
  <2>2. Len(node) \in Nat /\ (Len(node) = 0 <=> node = <<>>)
    BY <2>1
  <2> QED
    BY <2>2
<1>3. Within(host, 0) = {<<>>}
  BY <1>1, <1>2 DEF Within, folders
<1>4. TextOf(host, <<>>) = <<host>>
  <2>1. <<>> \in Seq(Names(Token))
    OBVIOUS
  <2> QED
    BY <2>1, TextTyped
<1> QED
  BY <1>3, <1>4 DEF BasesWithin

LEMMA MoreBases ==
  ASSUME NEW host, Listed(host), NEW depth \in Nat \ {0}
  PROVE  BasesWithin(host, depth)
           = {<<host>>} \cup UNION {Directories(HostRoots(host), b) : b \in BasesWithin(host, depth - 1)}
<1> DEFINE own == Own(host)
           c == CompsOf(host)
           n == Len(rows)
           folders == FoldersOf(own, c, n)
           dirs(b) == Directories(HostRoots(host), b)
           deeper == UNION {dirs(b) : b \in BasesWithin(host, depth - 1)}
<1>1. Apiece(own, c, n, Names(Token))
  BY OwnApiece DEF Listed
<1>2. folders \in SUBSET Seq(Names(Token)) /\ \A node \in folders : node \in NodesOf(own, c, n)
  BY <1>1, FoldersBegin DEF FoldersOf
<1>3. TextOf(host, <<>>) = <<host>> /\ <<>> \in folders
  <2>1. <<>> \in Seq(Names(Token))
    OBVIOUS
  <2> QED
    BY <1>1, <2>1, TextTyped, FoldersBegin
<1>4. \A node \in folders : dirs(TextOf(host, node)) = {TextOf(host, Append(node, x)) : x \in FolderNames(host, node)}
  BY DirectoriesAre
<1>5. \A d, node : node \in Within(host, d) <=> node \in folders /\ Len(node) <= d
  BY DEF Within
<1>6. \A node : \A x \in FolderNames(host, node) : Append(node, x) \in folders /\ x \in ChildNames(own, c, node)
  BY DEF FolderNames
<1>7. ASSUME NEW m \in folders, m # <<>>
      PROVE  /\ Front(m) \in folders
             /\ m = Append(Front(m), Last(m))
             /\ Last(m) \in FolderNames(host, Front(m))
             /\ Len(m) = Len(Front(m)) + 1
  <2>1. m \in NodesOf(own, c, n) \ {<<>>}
    BY <1>2, <1>7
  <2>2. /\ Front(m) \in folders
        /\ Last(m) \in ChildNames(own, c, Front(m))
        /\ m = Append(Front(m), Last(m))
        /\ Len(m) = Len(Front(m)) + 1
    BY <1>1, <2>1, FoldersBegin
  <2> QED
    BY <1>7, <2>2 DEF FolderNames
<1>8. \A node \in folders : Len(node) \in Nat
  BY <1>2
<1>9. \A node \in folders : \A x : Len(Append(node, x)) = Len(node) + 1
  BY <1>2
<1> HIDE DEF own, c, n, folders, dirs
<1>10. ASSUME NEW b \in BasesWithin(host, depth)
       PROVE  b \in {<<host>>} \cup deeper
  <2>1. PICK m \in Within(host, depth) : b = TextOf(host, m)
    BY DEF BasesWithin
  <2>2. m \in folders /\ Len(m) <= depth
    BY <1>5, <2>1
  <2>3. CASE m = <<>>
    BY <1>3, <2>1, <2>3
  <2>4. CASE m # <<>>
    <3>1. Front(m) \in folders /\ Len(m) = Len(Front(m)) + 1
      BY <1>7, <2>2, <2>4
    <3>2. Len(Front(m)) <= depth - 1
      BY <1>8, <2>2, <3>1
    <3>3. TextOf(host, Front(m)) \in BasesWithin(host, depth - 1)
      BY <1>5, <3>1, <3>2 DEF BasesWithin
    <3>4. b \in dirs(TextOf(host, Front(m)))
      <4>1. m = Append(Front(m), Last(m)) /\ Last(m) \in FolderNames(host, Front(m))
        BY <1>7, <2>2, <2>4
      <4> DEFINE f == Front(m)
                 x == Last(m)
      <4>2. b = TextOf(host, Append(f, x)) /\ f \in folders /\ x \in FolderNames(host, f)
        BY <2>1, <3>1, <4>1
      <4> HIDE DEF f, x
      <4>3. dirs(TextOf(host, f)) = {TextOf(host, Append(f, y)) : y \in FolderNames(host, f)}
        BY <1>4, <4>2
      <4> QED
        BY <4>2, <4>3 DEF f
    <3> QED
      BY <3>3, <3>4
  <2> QED
    BY <2>3, <2>4
<1>11. ASSUME NEW b \in {<<host>>} \cup deeper
       PROVE  b \in BasesWithin(host, depth)
  <2>1. CASE b = <<host>>
    <3>1. Len(<<>>) = 0
      OBVIOUS
    <3> QED
      BY <1>3, <1>5, <2>1, <3>1 DEF BasesWithin
  <2>2. CASE b \in deeper
    <3>1. PICK a \in BasesWithin(host, depth - 1) : b \in dirs(a)
      BY <2>2
    <3>2. PICK node \in Within(host, depth - 1) : a = TextOf(host, node)
      BY <3>1 DEF BasesWithin
    <3>3. node \in folders /\ Len(node) <= depth - 1
      BY <1>5, <3>2
    <3>4. PICK x \in FolderNames(host, node) : b = TextOf(host, Append(node, x))
      BY <1>4, <3>1, <3>2, <3>3
    <3>5. Append(node, x) \in folders /\ Len(Append(node, x)) <= depth
      BY <1>6, <1>8, <1>9, <3>3
    <3>6. Append(node, x) \in Within(host, depth)
      BY <1>5, <3>5
    <3> QED
      BY <3>4, <3>6 DEF BasesWithin
  <2> QED
    BY <2>1, <2>2
<1> QED
  BY <1>10, <1>11 DEF dirs

IsWithin(f, roots, base, deepest) ==
  f = [depth \in 0 .. deepest |->
         IF depth = 0 THEN {base}
         ELSE {base} \cup UNION {Directories(roots, b) : b \in f[depth - 1]}]

LEMMA WithinIs ==
  ASSUME NEW host, Listed(host), NEW deepest \in Nat
  PROVE  (CHOOSE f : IsWithin(f, HostRoots(host), <<host>>, deepest))[deepest] = BasesWithin(host, deepest)
<1> DEFINE F == [k \in 0 .. deepest |-> BasesWithin(host, k)]
           step(f, k) == IF k = 0 THEN {<<host>>}
                         ELSE {<<host>>} \cup UNION {Directories(HostRoots(host), b) : b \in f[k - 1]}
           s == CHOOSE f : IsWithin(f, HostRoots(host), <<host>>, deepest)
           good == {k \in 0 .. deepest : s[k] = F[k]}
<1>1. \A k \in 0 .. deepest : F[k] = BasesWithin(host, k)
  OBVIOUS
<1>2. F = [k \in 0 .. deepest |-> F[k]]
  OBVIOUS
<1> HIDE DEF F
<1>3. ASSUME NEW k \in 0 .. deepest
      PROVE  F[k] = step(F, k)
  <2>1. CASE k = 0
    BY <1>1, <2>1, FirstBases
  <2>2. CASE k # 0
    <3>1. k \in Nat \ {0} /\ k - 1 \in 0 .. deepest
      BY <2>2
    <3>2. BasesWithin(host, k)
            = {<<host>>} \cup UNION {Directories(HostRoots(host), b) : b \in BasesWithin(host, k - 1)}
      BY <3>1, MoreBases
    <3>3. F[k] = BasesWithin(host, k) /\ F[k - 1] = BasesWithin(host, k - 1)
      BY <1>1, <3>1
    <3> QED
      BY <2>2, <3>2, <3>3
  <2> QED
    BY <2>1, <2>2
<1>4. \A f : IsWithin(f, HostRoots(host), <<host>>, deepest) <=> f = [k \in 0 .. deepest |-> step(f, k)]
  BY DEF IsWithin
<1>5. IsWithin(F, HostRoots(host), <<host>>, deepest)
  <2>1. [k \in 0 .. deepest |-> F[k]] = [k \in 0 .. deepest |-> step(F, k)]
    <3> HIDE DEF step
    <3> QED
      BY <1>3
  <2> QED
    BY <1>2, <1>4, <2>1
<1>6. IsWithin(s, HostRoots(host), <<host>>, deepest)
  BY <1>5
<1> HIDE DEF s
<1>7. \A k \in 0 .. deepest : s[k] = step(s, k)
  <2>1. s = [k \in 0 .. deepest |-> step(s, k)]
    BY <1>4, <1>6
  <2> HIDE DEF step
  <2> QED
    BY <2>1
<1>8. 0 \in good
  <2>1. 0 \in 0 .. deepest
    OBVIOUS
  <2>2. s[0] = step(s, 0) /\ F[0] = step(F, 0)
    BY <1>3, <1>7, <2>1
  <2>3. s[0] = F[0]
    BY <2>2
  <2> QED
    BY <2>1, <2>3
<1>9. ASSUME NEW k \in 1 .. deepest, k - 1 \in good
      PROVE  k \in good
  <2>1. k \in 0 .. deepest /\ s[k - 1] = F[k - 1]
    BY <1>9
  <2>2. s[k] = step(s, k) /\ F[k] = step(F, k)
    BY <1>3, <1>7, <2>1
  <2>3. step(s, k) = step(F, k)
    BY <2>1
  <2> HIDE DEF step
  <2> QED
    BY <2>1, <2>2, <2>3
<1> HIDE DEF good
<1>10. \A k \in 0 .. deepest : k \in good
  BY <1>8, <1>9, Induct
<1>11. s[deepest] = F[deepest] /\ deepest \in 0 .. deepest
  BY <1>10 DEF good
<1> QED
  BY <1>1, <1>11 DEF s

\* The lengths of finitely many paths have a bound.
LEMMA LengthsBounded ==
  ASSUME NEW n \in Nat, NEW own \in SUBSET (1 .. n), NEW len, \A i \in own : len[i] \in Nat
  PROVE  \E M \in Nat : \A i \in own : len[i] <= M
<1> DEFINE bounds(k) == {M \in Nat : \A i \in own : i <= k => len[i] <= M}
           good == {k \in 0 .. n : bounds(k) # {}}
<1>1. 0 \in good
  <2>1. 0 \in bounds(0) /\ 0 \in 0 .. n
    OBVIOUS
  <2> QED
    BY <2>1
<1>2. ASSUME NEW k \in 1 .. n, k - 1 \in good
      PROVE  k \in good
  <2>1. PICK M \in Nat : \A i \in own : i <= k - 1 => len[i] <= M
    BY <1>2
  <2>2. CASE k \in own
    <3> DEFINE L == len[k]
    <3>1. L \in Nat
      BY <2>2
    <3>2. PICK N \in Nat : M <= N /\ L <= N
      <4> HIDE DEF L
      <4>1. M <= M + L /\ L <= M + L /\ M + L \in Nat
        BY <3>1
      <4> QED
        BY <4>1
    <3>3. ASSUME NEW i \in own, i <= k
          PROVE  len[i] <= N
      <4>1. CASE i = k
        BY <3>2, <4>1
      <4>2. CASE i # k
        <5>1. i <= k - 1
          BY <3>3, <4>2
        <5>2. len[i] <= M /\ len[i] \in Nat
          BY <2>1, <5>1
        <5> QED
          BY <3>2, <5>2
      <4> QED
        BY <4>1, <4>2
    <3>4. N \in bounds(k) /\ k \in 0 .. n
      BY <3>3
    <3> QED
      BY <3>4
  <2>3. CASE k \notin own
    <3>1. ASSUME NEW i \in own, i <= k
          PROVE  len[i] <= M
      <4>1. i # k /\ i \in 1 .. n
        BY <2>3, <3>1
      <4>2. i <= k - 1
        BY <3>1, <4>1
      <4> QED
        BY <2>1, <4>2
    <3>2. M \in bounds(k) /\ k \in 0 .. n
      BY <3>1
    <3> QED
      BY <3>2
  <2> QED
    BY <2>2, <2>3
<1> HIDE DEF good
<1>3. \A k \in 0 .. n : k \in good
  BY <1>1, <1>2, Induct
<1>4. bounds(n) # {}
  BY <1>3 DEF good
<1> QED
  BY <1>4

\* A root has one component more than its path.
LEMMA RootComponents ==
  ASSUME NEW host, Listed(host), NEW s \in Seq(Names(Token))
  PROVE  Len(Components(TextOf(host, s))) = Len(s) + 1
<1> DEFINE h == <<host>>
           l == Len(s)
<1>1. Slash \in Token /\ h \in Seq(Token) /\ h \in Names(Token)
  BY HostTyped
<1>2. Components(h) = <<h>>
  BY <1>1, OneName
<1>3. l \in 0 .. l /\ SubSeq(s, 1, l) = s
  OBVIOUS
<1> HIDE DEF h, l
<1>4. Components(TextBehind(h, s, l)) = Components(h) \o SubSeq(s, 1, l)
  BY <1>1, <1>3, TextComponents DEF l
<1>5. Components(TextOf(host, s)) = <<h>> \o s
  BY <1>2, <1>3, <1>4 DEF TextOf, h, l
<1>6. h \in Names(Token) /\ <<h>> \in Seq(Names(Token)) /\ Len(<<h>>) = 1
  BY <1>1
<1>7. Len(<<h>> \o s) = 1 + Len(s)
  BY <1>6
<1>8. Len(s) \in Nat
  OBVIOUS
<1> QED
  BY <1>5, <1>7, <1>8

LEMMA RenderIs ==
  ASSUME NEW host, Listed(host)
  PROVE  Render(HostRoots(host), <<host>>)
           = UNION {LinesOf(host, node, TextOf(host, node)) :
                      node \in FoldersOf(Own(host), CompsOf(host), Len(rows))}
<1> DEFINE own == Own(host)
           c == CompsOf(host)
           n == Len(rows)
           roots == HostRoots(host)
           folders == FoldersOf(own, c, n)
           len == [i \in own |-> Len(Components(roots[i].root))]
           D == {Len(Components(roots[i].root)) : i \in DOMAIN roots}
           deepest == Max({0} \cup D)
<1>1. Apiece(own, c, n, Names(Token))
  BY OwnApiece DEF Listed
<1>2. n \in Nat /\ own \in SUBSET (1 .. n) /\ \A i \in own : c[i] \in Seq(Names(Token)) /\ Len(c[i]) \in Nat
  BY <1>1 DEF Apiece
<1>3. DOMAIN roots = own /\ \A i \in own : roots[i].root = TextOf(host, c[i])
  BY DEF HostRoots
<1>4. \A i \in own : len[i] = Len(c[i]) + 1
  BY <1>2, <1>3, RootComponents
<1>5. D = {len[i] : i \in own}
  BY <1>3
<1>6. \A node \in folders : node \in Seq(Names(Token)) /\ Len(node) \in Nat
                           /\ (node = <<>> \/ \E j \in own : Len(node) < Len(c[j]))
  BY <1>1, FolderIs
<1>7. \A node \in folders : Level(roots, TextOf(host, node)) = LinesOf(host, node, TextOf(host, node))
  BY RootLevel
<1>8. Render(roots, <<host>>)
        = UNION {Level(roots, b) : b \in (CHOOSE f : IsWithin(f, roots, <<host>>, deepest))[deepest]}
  BY DEF Render, IsWithin
<1> HIDE DEF own, c, n, len, D
<1>9. \A i \in own : len[i] \in Nat
  BY <1>2, <1>4
<1>10. PICK M \in Nat : \A i \in own : len[i] <= M
  BY <1>2, <1>9, LengthsBounded
<1>11. D \in SUBSET (0 .. M)
  BY <1>5, <1>9, <1>10
<1>12. deepest \in 0 .. M /\ \A x \in D : x <= deepest
  BY <1>11, GreatestFrom0
<1> HIDE DEF deepest
<1>13. deepest \in Nat
  BY <1>12
<1>14. (CHOOSE f : IsWithin(f, roots, <<host>>, deepest))[deepest] = BasesWithin(host, deepest)
  BY <1>13, WithinIs
<1>15. ASSUME NEW node \in folders
       PROVE  Len(node) <= deepest
  <2>1. CASE node = <<>>
    <3>1. Len(node) = 0
      BY <2>1
    <3> QED
      BY <1>13, <3>1
  <2>2. CASE \E j \in own : Len(node) < Len(c[j])
    <3>1. PICK j \in own : Len(node) < Len(c[j])
      BY <2>2
    <3>2. len[j] <= deepest
      BY <1>5, <1>12
    <3> QED
      BY <1>2, <1>4, <1>6, <1>13, <3>1, <3>2
  <2> QED
    BY <1>6, <2>1, <2>2
<1>16. Within(host, deepest) = folders
  BY <1>15 DEF Within, own, c, n
<1> HIDE DEF folders
<1>17. BasesWithin(host, deepest) = {TextOf(host, node) : node \in folders}
  BY <1>16 DEF BasesWithin
<1> HIDE DEF roots
<1>18. Render(roots, <<host>>) = UNION {Level(roots, b) : b \in {TextOf(host, node) : node \in folders}}
  BY <1>8, <1>14, <1>17
<1>19. {Level(roots, b) : b \in {TextOf(host, node) : node \in folders}}
         = {LinesOf(host, node, TextOf(host, node)) : node \in folders}
  BY <1>7
<1> QED
  BY <1>18, <1>19 DEF roots, folders, own, c, n

Nodes(host) == NodesOf(Own(host), CompsOf(host), Len(rows))

Folders(host) == FoldersOf(Own(host), CompsOf(host), Len(rows))

LEMMA TreeNodes ==
  ASSUME NEW host, Listed(host)
  PROVE  /\ DOMAIN TreeOf(host) = Nodes(host)
         /\ \A m \in Nodes(host) :
              /\ TreeOf(host)[m] = NodeOf(Own(host), CompsOf(host), RowSizes, Len(rows), m, Len(rows))
              /\ TreeOf(host)[m].dir <=> m \in Folders(host)
<1>1. TreeOf(host) = TreeAfter(Own(host), CompsOf(host), RowSizes, Len(rows), Len(rows))
  BY TreeIs DEF Listed
<1>2. /\ DOMAIN TreeOf(host) = Nodes(host)
      /\ \A m \in Nodes(host) :
           TreeOf(host)[m] = NodeOf(Own(host), CompsOf(host), RowSizes, Len(rows), m, Len(rows))
  BY <1>1 DEF TreeAfter, Nodes
<1>3. ASSUME NEW m \in Nodes(host)
      PROVE  TreeOf(host)[m].dir <=> m \in Folders(host)
  <2> DEFINE t == TreeOf(host)[m]
             d == NodeOf(Own(host), CompsOf(host), RowSizes, Len(rows), m, Len(rows))
  <2>2. d.dir = \A i \in Own(host) : CompsOf(host)[i] # m
    BY DEF NodeOf
  <2>3. t = d
    BY <1>2
  <2> HIDE DEF t, d
  <2>1. t.dir <=> \A i \in Own(host) : CompsOf(host)[i] # m
    BY <2>2, <2>3
  <2> QED
    BY <2>1 DEF Folders, FoldersOf, Nodes, t
<1> QED
  BY <1>2, <1>3

\* What is above a node is a directory, so that every node is printed.
LEMMA AboveIsFolder ==
  ASSUME NEW own, NEW c, NEW n, NEW A, Apiece(own, c, n, A),
         NEW m \in NodesOf(own, c, n) \ {<<>>}, NEW k \in 0 .. Len(m) - 1
  PROVE  SubSeq(m, 1, k) \in FoldersOf(own, c, n)
<1>1. n \in Nat /\ own \in SUBSET (1 .. n) /\ \A i \in own : i <= n
  <2>1. n \in Nat /\ own \in SUBSET (1 .. n)
    BY DEF Apiece
  <2> QED
    BY <2>1
<1>2. /\ NodesOf(own, c, n) \in SUBSET Seq(A)
      /\ \A p \in Seq(A) : p \in NodesOf(own, c, n)
           <=> p = <<>> \/ \E i \in own : i <= n /\ IsPrefix(p, c[i])
  BY <1>1, NodesAre
<1>3. m \in Seq(A) /\ m # <<>>
  BY <1>2
<1>4. PICK i \in own : IsPrefix(m, c[i])
  BY <1>2, <1>3
<1> DEFINE q == c[i]
           p == SubSeq(m, 1, k)
<1>5. q \in Seq(A) /\ Len(q) \in Nat /\ Len(m) \in Nat /\ k < Len(m) /\ k \in 0 .. Len(m)
  <2>1. q \in Seq(A)
    BY DEF Apiece
  <2> HIDE DEF q
  <2> QED
    BY <1>3, <2>1
<1>6. Len(m) \in 0 .. Len(q) /\ m = SubSeq(q, 1, Len(m))
  <2>1. \A s \in Seq(A) : IsPrefix(s, q) => Len(s) \in 0 .. Len(q) /\ s = SubSeq(q, 1, Len(s))
    BY <1>5, StartIs
  <2> QED
    BY <1>3, <1>4, <2>1
<1>7. p \in Seq(A) /\ Len(p) = k /\ IsPrefix(p, m)
  BY <1>3, <1>5, StartIs
<1> HIDE DEF p, q
<1>8. IsPrefix(p, q)
  BY <1>3, <1>4, <1>5, <1>7 DEF IsPrefix, q
<1>9. \A j \in own : c[j] # p
  <2> SUFFICES ASSUME NEW j \in own, c[j] = p PROVE FALSE
    OBVIOUS
  <2>1. j = i
    BY <1>8 DEF Apiece, q
  <2>2. Len(q) = k
    BY <1>7, <2>1 DEF q
  <2> QED
    BY <1>5, <1>6, <2>2
<1>10. p \in NodesOf(own, c, n)
  BY <1>1, <1>2, <1>7, <1>8 DEF q
<1> QED
  BY <1>9, <1>10 DEF FoldersOf, p

LEMMA PrintedIs ==
  ASSUME NEW host, Listed(host)
  PROVE  Printed(TreeOf(host)) = Nodes(host) \ {<<>>}
<1>1. Apiece(Own(host), CompsOf(host), Len(rows), Names(Token))
  BY OwnApiece DEF Listed
<1>2. DOMAIN TreeOf(host) = Nodes(host)
      /\ \A p \in Nodes(host) : TreeOf(host)[p].dir <=> p \in Folders(host)
  BY TreeNodes
<1>3. Folders(host) \in SUBSET Nodes(host)
  BY DEF Folders, FoldersOf, Nodes
<1>4. ASSUME NEW m \in Nodes(host) \ {<<>>}, NEW k \in 1 .. Len(m) - 1
      PROVE  TreeOf(host)[SubSeq(m, 1, k)].dir
  <2>1. m \in NodesOf(Own(host), CompsOf(host), Len(rows)) \ {<<>>} /\ k \in 0 .. Len(m) - 1
    BY DEF Nodes
  <2>2. SubSeq(m, 1, k) \in FoldersOf(Own(host), CompsOf(host), Len(rows))
    BY <1>1, <2>1, AboveIsFolder
  <2> QED
    BY <1>2, <1>3, <2>2 DEF Folders
<1> QED
  BY <1>2, <1>4 DEF Printed

LEMMA TailOfText ==
  ASSUME NEW host, Listed(host), NEW node \in Seq(Names(Token))
  PROVE  Components(Tail(TextOf(host, node))) = node
<1> DEFINE e == <<>>
           l == Len(node)
           t == FolderText(node, l)
<1>0. Slash \in Token /\ host \in Token
  BY HostTyped
<1>1. Slash \in Token /\ e \in Seq(Token) /\ host \in Token
  BY <1>0
<1>2. l \in Nat /\ l \in 0 .. l /\ SubSeq(node, 1, l) = node
      /\ \A k \in 1 .. l : node[k] \in Seq(Token)
  <2>1. \A k \in 1 .. l : node[k] \in Names(Token)
    OBVIOUS
  <2>2. l \in Nat /\ l \in 0 .. l /\ SubSeq(node, 1, l) = node
    OBVIOUS
  <2> QED
    BY <2>1, <2>2 DEF Names
<1>3. Components(e) = e
  <2>1. Starts(e) = {}
    BY DEF Starts
  <2>2. Cardinality(Starts(e)) = 0
    BY <2>1, FS_EmptySet
  <2>3. Components(e) \in Seq(Names(Token))
    BY <1>1, ComponentsNamed
  <2>4. DOMAIN Components(e) = 1 .. 0
    BY <2>2 DEF Components, Picked
  <2>5. Len(Components(e)) = 0
    BY <2>3, <2>4
  <2> QED
    BY <2>3, <2>5
<1>4. t \in Seq(Token)
  <2> HIDE DEF l
  <2>1. \A k \in 0 .. l : FolderText(node, k) \in Seq(Token)
    BY <1>1, <1>2, FolderTextIs
  <2> QED
    BY <1>2, <2>1
<1> HIDE DEF e, l, t
<1>5. Components(TextBehind(e, node, l)) = Components(e) \o SubSeq(node, 1, l)
  BY <1>1, <1>2, TextComponents DEF l
<1>6. TextBehind(e, node, l) = t
  BY <1>4, ConcatEmptySeq DEF TextBehind, Joined, e, t
<1>7. Components(t) = node
  <2>1. <<>> \o node = node
    BY ConcatEmptySeq
  <2> QED
    BY <1>2, <1>3, <1>5, <1>6, <2>1 DEF e
<1>8. TextOf(host, node) = <<host>> \o t
  BY DEF TextOf, TextBehind, Joined, t, l
<1>9. Tail(<<host>> \o t) = t
  BY <1>1, <1>4
<1> QED
  BY <1>7, <1>8, <1>9

LEMMA ListingAgrees ==
  ASSUME NEW host, Listed(host)
  PROVE  ListingIsTree(host)
<1> DEFINE own == Own(host)
           c == CompsOf(host)
           n == Len(rows)
           tree == TreeOf(host)
           at(m) == NodeOf(own, c, RowSizes, n, m, n)
           line(node, x) == LineOf(TextOf(host, node), own, c, RowSizes, n, node, x)
           node2(l) == <<Append(Components(Tail(l.base)), l.name), l.item>>
           lines == Ls(rows, host, <<>>, Maps)
<1>1. Apiece(own, c, n, Names(Token))
  BY OwnApiece DEF Listed
<1>2. /\ Folders(host) \in SUBSET Seq(Names(Token))
      /\ \A node \in Folders(host) : \A x \in ChildNames(own, c, node) : Append(node, x) \in Nodes(host) \ {<<>>}
      /\ \A m \in Nodes(host) \ {<<>>} : /\ Front(m) \in Folders(host)
                                         /\ Last(m) \in ChildNames(own, c, Front(m))
                                         /\ m = Append(Front(m), Last(m))
  <2>1. \A node \in Folders(host) : \A x \in ChildNames(own, c, node) :
          Append(node, x) \in Nodes(host) /\ Append(node, x) \in Seq(Names(Token)) \ {<<>>}
    BY <1>1, FoldersBegin DEF Folders, Nodes
  <2>2. Folders(host) \in SUBSET Seq(Names(Token))
    BY <1>1, FoldersBegin DEF Folders
  <2>3. \A m \in Nodes(host) \ {<<>>} : /\ Front(m) \in Folders(host)
                                        /\ Last(m) \in ChildNames(own, c, Front(m))
                                        /\ m = Append(Front(m), Last(m))
    BY <1>1, FoldersBegin DEF Folders, Nodes
  <2> QED
    BY <2>1, <2>2, <2>3
<1>3. Printed(tree) = Nodes(host) \ {<<>>}
  BY PrintedIs
<1>4. \A m \in Nodes(host) : tree[m] = at(m)
  BY TreeNodes
<1>5. lines = UNION {LinesOf(host, node, TextOf(host, node)) : node \in Folders(host)}
  BY LsIs, RenderIs DEF Folders
<1>6. \A node : LinesOf(host, node, TextOf(host, node)) = {line(node, x) : x \in ChildNames(own, c, node)}
  BY DEF LinesOf
<1>7. ASSUME NEW node \in Folders(host), NEW x
      PROVE  node2(line(node, x)) = <<Append(node, x), at(Append(node, x))>>
  <2>1. Components(Tail(TextOf(host, node))) = node
    BY <1>2, TailOfText
  <2>2. line(node, x).base = TextOf(host, node) /\ line(node, x).name = x
        /\ line(node, x).item = at(Append(node, x))
    BY DEF LineOf
  <2> QED
    BY <2>1, <2>2
<1>8. ListedNodes(host) = {node2(l) : l \in lines}
  BY DEF ListedNodes
<1> HIDE DEF own, c, n, tree, at, line, node2, lines
<1>9. ASSUME NEW l \in lines
      PROVE  \E m \in Printed(tree) : node2(l) = <<m, tree[m]>>
  <2>1. PICK node \in Folders(host) : l \in LinesOf(host, node, TextOf(host, node))
    BY <1>5
  <2>2. PICK x \in ChildNames(own, c, node) : l = line(node, x)
    BY <1>6, <2>1
  <2> DEFINE m == Append(node, x)
  <2>3. m \in Nodes(host) \ {<<>>} /\ node2(l) = <<m, at(m)>>
    BY <1>2, <1>7, <2>2
  <2> HIDE DEF m
  <2> QED
    BY <1>3, <1>4, <2>3
<1>10. ASSUME NEW m \in Printed(tree)
       PROVE  \E l \in lines : node2(l) = <<m, tree[m]>>
  <2> DEFINE f == Front(m)
             x == Last(m)
  <2>1. m \in Nodes(host) /\ f \in Folders(host) /\ x \in ChildNames(own, c, f) /\ m = Append(f, x)
    BY <1>2, <1>3
  <2> HIDE DEF f, x
  <2>2. line(f, x) \in lines
    BY <1>5, <1>6, <2>1
  <2>3. node2(line(f, x)) = <<m, at(m)>>
    BY <1>7, <2>1
  <2> QED
    BY <1>4, <2>1, <2>2, <2>3
<1>11. {node2(l) : l \in lines} = {<<m, tree[m]>> : m \in Printed(tree)}
  BY <1>9, <1>10
<1> QED
  BY <1>8, <1>11 DEF ListingIsTree, tree

Matching(f, pattern, text, p, t) ==
  \/ p > Len(pattern)
  \/ pattern[p] = "*" /\ \E n \in f[p + 1] : t <= n
  \/ t <= Len(text) /\ pattern[p] \in {"?", text[t]} /\ t + 1 \in f[p + 1]

IsMatching(f, pattern, text) ==
  f = [p \in 1 .. Len(pattern) + 1 |-> {t \in 1 .. Len(text) + 1 : Matching(f, pattern, text, p, t)}]

LEMMA MatchesFrom ==
  ASSUME NEW pattern, NEW text
  PROVE  Matches(pattern, text) <=> (CHOOSE f : IsMatching(f, pattern, text))[1] # {}
BY DEF Matches, IsMatching, Matching

\* A "*" alone matches everything.
LEMMA StarMatches ==
  ASSUME NEW text, Len(text) \in Nat
  PROVE  Matches(<<"*">>, text)
<1> DEFINE star == <<"*">>
           last == Len(text) + 1
           all == 1 .. last
           F == [p \in 1 .. 2 |-> all]
           step(f, p) == {t \in all : Matching(f, star, text, p, t)}
           s == CHOOSE f : IsMatching(f, star, text)
<1>1. Len(star) = 1 /\ star[1] = "*" /\ last \in Nat /\ 1 \in all
  OBVIOUS
<1>2. \A f : step(f, 2) = all
  BY <1>1 DEF Matching
<1>3. \A f : f[2] = all => step(f, 1) = all
  <2> SUFFICES ASSUME NEW f, f[2] = all, NEW t \in all PROVE Matching(f, star, text, 1, t)
    OBVIOUS
  <2>1. \E m \in f[1 + 1] : t <= m
    BY <1>1
  <2> HIDE DEF star, all
  <2> QED
    BY <1>1, <2>1 DEF Matching
<1>4. \A f : IsMatching(f, star, text) <=> f = [p \in 1 .. 2 |-> step(f, p)]
  <2>1. Len(star) + 1 = 2 /\ Len(text) + 1 = last
    BY <1>1
  <2> QED
    BY <2>1 DEF IsMatching
<1> HIDE DEF step, star, last, all
<1>5. IsMatching(F, star, text)
  <2>1. F[2] = all /\ \A p \in 1 .. 2 : p = 1 \/ p = 2
    OBVIOUS
  <2> HIDE DEF F
  <2>2. step(F, 1) = all /\ step(F, 2) = all
    BY <1>2, <1>3, <2>1
  <2>3. \A p \in 1 .. 2 : step(F, p) = all
    BY <2>1, <2>2
  <2>4. F = [p \in 1 .. 2 |-> step(F, p)]
    BY <2>3 DEF F
  <2> QED
    BY <1>4, <2>4
<1>6. IsMatching(s, star, text)
  BY <1>5
<1> HIDE DEF s
<1>7. s = [p \in 1 .. 2 |-> step(s, p)]
  BY <1>4, <1>6
<1>8. s[1] = step(s, 1) /\ s[2] = step(s, 2)
  BY <1>7
<1>9. s[1] # {}
  BY <1>1, <1>2, <1>3, <1>8
<1> QED
  BY <1>9, MatchesFrom DEF s, star

LEMMA BasenameTyped ==
  ASSUME NEW T, NEW path \in Seq(T)
  PROVE  Basename(path) \in Seq(T)
<1> DEFINE n == Len(path)
           ends == {k \in DOMAIN path : path[k] = Slash}
<1>1. n \in Nat /\ ends \in SUBSET (1 .. n)
  OBVIOUS
<1>2. CASE ends = {}
  BY <1>2 DEF Basename
<1>3. CASE ends # {}
  <2>1. Basename(path) = SubSeq(path, Max(ends) + 1, n)
    BY <1>3 DEF Basename, From
  <2> HIDE DEF ends
  <2>2. Max(ends) \in 1 .. n
    BY <1>1, <1>3, Greatest
  <2>3. Max(ends) + 1 \in Nat \ {0} /\ n \in Nat /\ n <= Len(path)
    BY <1>1, <2>2
  <2>4. SubSeq(path, Max(ends) + 1, n) \in Seq(T)
    BY <2>3, SubSeqIs
  <2> QED
    BY <2>1, <2>4
<1> QED
  BY <1>2, <1>3

\* The sizes that are compared mean the same to the server and to find.
LEMMA SizesAgree ==
  ParseSize(OneUnit) = ParseBytes(OneUnit) /\ ParseSize(ThreeBytes) = ParseBytes(ThreeBytes)
<1> DEFINE four == SubSeq(Letters, 1, 4)
<1>1. /\ DOMAIN Letters = 1 .. 5 /\ Letters[1] = "k"
      /\ \A i \in 1 .. 5 : Letters[i] = "k" => i = 1
  BY DEF Letters
<1>2. /\ DOMAIN four = 1 .. 4 /\ \A i \in 1 .. 4 : four[i] = Letters[i]
  BY DEF Letters
<1> HIDE DEF four
<1>3. ASSUME NEW letters, NEW n \in {4, 5}, DOMAIN letters = 1 .. n, \A i \in 1 .. n : letters[i] = Letters[i]
      PROVE  "k" \in DOMAIN Powers(letters, Kibi) /\ Powers(letters, Kibi)["k"] = Kibi ^ 1
  <2>1. 1 \in 1 .. n /\ \A i \in 1 .. n : i \in 1 .. 5
    OBVIOUS
  <2>2. letters[1] = "k" /\ \A i \in DOMAIN letters : letters[i] = "k" => i = 1
    BY <1>1, <1>3, <2>1
  <2>3. (CHOOSE i \in DOMAIN letters : letters[i] = "k") = 1
    BY <1>3, <2>1, <2>2
  <2>4. "k" \in {letters[i] : i \in DOMAIN letters}
    BY <1>3, <2>1, <2>2
  <2> QED
    BY <2>3, <2>4 DEF Powers
<1>4. "k" \in DOMAIN Powers(Letters, Kibi) /\ Powers(Letters, Kibi)["k"] = Kibi ^ 1
  BY <1>1, <1>3
<1>5. "k" \in DOMAIN Powers(four, Kibi) /\ Powers(four, Kibi)["k"] = Kibi ^ 1
  BY <1>2, <1>3
<1>6. OneUnit.unit = <<"k">> /\ Len(OneUnit.unit) = 1 /\ OneUnit.unit[1] = "k" /\ OneUnit.plus = FALSE
      /\ OneUnit.unit # <<>> /\ OneUnit.number = 1
  BY DEF OneUnit
<1>7. ParseBytes(OneUnit) = Times(1, Kibi ^ 1)
  <2> DEFINE e == <<>>
  <2>1. OneUnit.unit # e
    BY <1>6
  <2> HIDE DEF e
  <2> QED
    BY <1>4, <1>6, <2>1 DEF ParseBytes, e
<1>8. ParseSize(OneUnit) = Times(1, Kibi ^ 1)
  BY <1>5, <1>6 DEF ParseSize, ParseUnit, four
<1>9. ParseSize(ThreeBytes) = Times(3, 1) /\ ParseBytes(ThreeBytes) = Times(3, 1)
  BY DEF ParseSize, ParseUnit, ParseBytes, ThreeBytes
<1> QED
  BY <1>7, <1>8, <1>9

\* The files of the tree are the entries, each with its own size.
LEMMA FilesAre ==
  ASSUME NEW host, Listed(host)
  PROVE  /\ FilesIn(TreeOf(host)) = {CompsOf(host)[i] : i \in Own(host)}
         /\ \A i \in Own(host) : TreeOf(host)[CompsOf(host)[i]].size = rows[i].size
<1> DEFINE own == Own(host)
           c == CompsOf(host)
           n == Len(rows)
           A == Names(Token)
           tree == TreeOf(host)
<1>1. Apiece(own, c, n, A) /\ RowSizes \in [1 .. n -> Nat]
  BY OwnApiece, StoredTyped DEF Listed
<1>2. n \in Nat /\ own \in SUBSET (1 .. n) /\ (\A i \in own : i <= n)
      /\ \A i \in own : c[i] \in Seq(A) /\ c[i] # <<>>
  <2>1. n \in Nat /\ own \in SUBSET (1 .. n)
    BY <1>1 DEF Apiece
  <2>2. \A i \in own : i <= n
    BY <2>1
  <2>3. \A i \in own : c[i] \in Seq(A) /\ c[i] # <<>>
    BY <1>1 DEF Apiece
  <2> QED
    BY <2>1, <2>2, <2>3
<1>3. \A i \in own : IsPrefix(c[i], c[i])
  <2> SUFFICES ASSUME NEW i \in own PROVE IsPrefix(c[i], c[i])
    OBVIOUS
  <2> DEFINE q == c[i]
  <2>1. q \in Seq(A)
    BY <1>2
  <2> HIDE DEF q
  <2>2. IsPrefix(q, q)
    BY <2>1 DEF IsPrefix
  <2> QED
    BY <2>2 DEF q
<1>4. \A i \in own : c[i] \in Nodes(host)
  <2>1. \A p \in Seq(A) : p \in Nodes(host) <=> p = <<>> \/ \E i \in own : i <= n /\ IsPrefix(p, c[i])
    BY <1>1, <1>2, NodesAre DEF Nodes
  <2> QED
    BY <1>2, <1>3, <2>1
<1>5. /\ Printed(tree) = Nodes(host) \ {<<>>}
      /\ \A m \in Nodes(host) : /\ tree[m] = NodeOf(own, c, RowSizes, n, m, n)
                                /\ tree[m].dir <=> m \in Folders(host)
  BY PrintedIs, TreeNodes
<1>6. \A m : m \in Folders(host) <=> m \in Nodes(host) /\ \A i \in own : c[i] # m
  BY DEF Folders, FoldersOf, Nodes
<1> HIDE DEF own, c, n, tree
<1>7. FilesIn(tree) = {c[i] : i \in own}
  <2>1. \A m : m \in FilesIn(tree) <=> m \in Nodes(host) /\ m # <<>> /\ ~tree[m].dir
    BY <1>5 DEF FilesIn
  <2>2. \A m : m \in FilesIn(tree) <=> \E i \in own : m = c[i]
    BY <1>2, <1>4, <1>5, <1>6, <2>1
  <2> QED
    BY <2>2
<1>8. ASSUME NEW i \in own
      PROVE  tree[c[i]].size = rows[i].size
  <2> DEFINE S == Under(own, c, c[i])
  <2>1. S = {i}
    BY <1>1, <1>3 DEF Under, Apiece
  <2>2. i \in 1 .. n /\ \A k \in 1 .. n : k \in S <=> k = i
    BY <1>2, <2>1
  <2> HIDE DEF S
  <2>3. Part(RowSizes, S, n)[n] = RowSizes[i]
    BY <1>1, <1>2, <2>2, PartOfOne
  <2>4. RowSizes[i] = rows[i].size
    BY <2>2 DEF RowSizes, n
  <2>5. NodeOf(own, c, RowSizes, n, c[i], n).size = Part(RowSizes, S, n)[n]
    BY DEF NodeOf, S
  <2>6. tree[c[i]] = NodeOf(own, c, RowSizes, n, c[i], n)
    BY <1>4, <1>5
  <2> QED
    BY <2>3, <2>4, <2>5, <2>6
<1> QED
  BY <1>7, <1>8 DEF own, c, tree

LEMMA FoundAgrees ==
  ASSUME NEW host, Listed(host)
  PROVE  FoundIsTree(host)
<1> DEFINE own == Own(host)
           c == CompsOf(host)
           n == Len(rows)
           A == Names(Token)
           tree == TreeOf(host)
           star == <<"*">>
           passing == Passing(rows, ParseSize(OneUnit), ParseSize(ThreeBytes))
           some == passing \cap own
           found == Find(rows, host, star, OneUnit, ThreeBytes, Maps)
           middling == {f \in FilesIn(tree) : /\ ParseBytes(OneUnit) <= tree[f].size
                                              /\ tree[f].size <= ParseBytes(ThreeBytes)}
           path(i) == Shown(rows[i].url, host, Maps).path
           starts(i) == {SubSeq(c[i], 1, k) : k \in 1 .. Len(c[i]) - 1}
<1>1. Apiece(own, c, n, A)
  BY OwnApiece DEF Listed
<1>2. /\ n \in Nat /\ own \in SUBSET (1 .. n)
      /\ \A i \in own : c[i] \in Seq(A) /\ c[i] # <<>> /\ Len(c[i]) \in Nat
  <2>1. n \in Nat /\ own \in SUBSET (1 .. n)
    BY <1>1 DEF Apiece
  <2>2. \A i \in own : c[i] \in Seq(A) /\ c[i] # <<>>
    BY <1>1 DEF Apiece
  <2>3. \A i \in own : Len(c[i]) \in Nat
    <3> SUFFICES ASSUME NEW i \in own PROVE Len(c[i]) \in Nat
      OBVIOUS
    <3> DEFINE q == c[i]
    <3>1. q \in Seq(A)
      BY <2>2
    <3> HIDE DEF q
    <3> QED
      BY <3>1 DEF q
  <2> QED
    BY <2>1, <2>2, <2>3
<1>3. FilesIn(tree) = {c[i] : i \in own} /\ \A i \in own : tree[c[i]].size = rows[i].size
  BY FilesAre
<1>4. ~Contains(star, Slash)
  BY DEF Contains, Slash
<1>5. \A i \in own : /\ path(i) \in Seq(Token) /\ path(i) = FolderText(c[i], Len(c[i]))
                     /\ c[i] = Components(path(i))
  <2>1. \A i \in own : path(i) = PathShown(rows[i], host)
    BY DEF PathShown
  <2>2. \A i \in own : PathShown(rows[i], host) \in Seq(Token)
    BY StoredTyped DEF Listed
  <2>3. \A i \in own : PathShown(rows[i], host) = FolderText(c[i], Len(c[i]))
    BY RootIs DEF Listed
  <2>4. \A i \in own : c[i] = Components(PathShown(rows[i], host))
    BY DEF CompsOf
  <2> QED
    BY <2>1, <2>2, <2>3, <2>4
<1>6. \A i \in own : /\ Matches(star, Basename(path(i)))
                     /\ \A k \in 1 .. Len(c[i]) - 1 : Matches(star, c[i][k])
  <2> SUFFICES ASSUME NEW i \in own
               PROVE  /\ Matches(star, Basename(path(i)))
                      /\ \A k \in 1 .. Len(c[i]) - 1 : Matches(star, c[i][k])
    OBVIOUS
  <2>1. Basename(path(i)) \in Seq(Token)
    BY <1>5, BasenameTyped
  <2>2. Len(Basename(path(i))) \in Nat
    BY <2>1
  <2>3. \A k \in 1 .. Len(c[i]) - 1 : Len(c[i][k]) \in Nat
    <3> SUFFICES ASSUME NEW k \in 1 .. Len(c[i]) - 1 PROVE Len(c[i][k]) \in Nat
      OBVIOUS
    <3> DEFINE q == c[i]
               x == q[k]
    <3>1. q \in Seq(A) /\ Len(q) \in Nat /\ k \in 1 .. Len(q) - 1
      BY <1>2
    <3> HIDE DEF q
    <3>2. x \in A
      BY <3>1
    <3> HIDE DEF x
    <3>3. x \in Seq(Token)
      BY <3>2 DEF Names
    <3>4. Len(x) \in Nat
      BY <3>3
    <3> QED
      BY <3>4 DEF x, q
  <2> QED
    BY <2>2, <2>3, StarMatches
<1>7. found.files = FoundFiles(rows, passing, host, star, Maps)
      /\ found.folders = FoundFolders(rows, passing, host, star, Maps)
  BY DEF Find
<1>8. FoundFiles(rows, passing, host, star, Maps)
        = {path(i) : i \in {j \in some : Matches(star, IF Contains(star, Slash) THEN path(j) ELSE Basename(path(j)))}}
  BY DEF FoundFiles, Own
<1>9. FoundFolders(rows, passing, host, star, Maps)
        = UNION {{SubSeq(Components(path(i)), 1, k) : k \in
                    {l \in 1 .. Len(Components(path(i))) - 1 :
                       \/ Matches(star, Components(path(i))[l])
                       \/ Contains(star, Slash) /\ Matches(star, FolderText(Components(path(i)), l))}}
                 : i \in some}
  BY DEF FoundFolders, Own
<1>10. \A i \in own : i \in passing <=> /\ ParseBytes(OneUnit) <= rows[i].size
                                        /\ rows[i].size <= ParseBytes(ThreeBytes)
  <2>1. \A i \in own : i \in DOMAIN rows
    BY DEF Own, OfHost
  <2> QED
    BY <2>1, SizesAgree DEF Passing
<1>11. FoundIsTree(host) <=> /\ found.files = {FolderText(m, Len(m)) : m \in middling}
                             /\ found.folders = {m \in FoldersIn(tree) : \E f \in middling : IsPrefix(m, f)}
  BY DEF FoundIsTree
<1>12. \A m : m \in FoldersIn(tree) <=> m \in Folders(host) /\ m # <<>>
  <2>1. /\ Printed(tree) = Nodes(host) \ {<<>>}
        /\ \A m \in Nodes(host) : tree[m].dir <=> m \in Folders(host)
    BY PrintedIs, TreeNodes
  <2>2. Folders(host) \in SUBSET Nodes(host)
    BY DEF Folders, FoldersOf, Nodes
  <2> HIDE DEF tree
  <2> QED
    BY <2>1, <2>2 DEF FoldersIn
<1> HIDE DEF own, c, n, tree, star, passing, found, path
<1>13. middling = {c[i] : i \in some}
  <2>1. \A f : f \in middling <=> /\ f \in FilesIn(tree)
                                  /\ ParseBytes(OneUnit) <= tree[f].size
                                  /\ tree[f].size <= ParseBytes(ThreeBytes)
    OBVIOUS
  <2> HIDE DEF middling
  <2>2. \A f : f \in middling <=> \E i \in some : f = c[i]
    <3>1. \A f : f \in FilesIn(tree) <=> \E i \in own : f = c[i]
      BY <1>3
    <3>2. \A i \in own : c[i] \in middling <=> i \in passing
      BY <1>3, <1>10, <2>1
    <3> QED
      BY <2>1, <3>1, <3>2
  <2> QED
    BY <2>2
<1>14. found.files = {path(i) : i \in some}
  <2>1. {j \in some : Matches(star, IF Contains(star, Slash) THEN path(j) ELSE Basename(path(j)))} = some
    BY <1>4, <1>6
  <2> QED
    BY <1>7, <1>8, <2>1
<1>15. found.files = {FolderText(m, Len(m)) : m \in middling}
  <2>1. \A i \in some : path(i) = FolderText(c[i], Len(c[i]))
    BY <1>5
  <2> HIDE DEF middling, some
  <2> DEFINE text(m) == FolderText(m, Len(m))
  <2>2. \A i \in some : path(i) = text(c[i])
    BY <2>1
  <2> HIDE DEF text
  <2>3. {path(i) : i \in some} = {text(m) : m \in middling}
    BY <1>13, <2>2
  <2> QED
    BY <1>14, <2>3 DEF text
<1>16. found.folders = UNION {starts(i) : i \in some}
  <2>1. \A i \in some : /\ Components(path(i)) = c[i]
                        /\ {l \in 1 .. Len(c[i]) - 1 :
                              \/ Matches(star, c[i][l])
                              \/ Contains(star, Slash) /\ Matches(star, FolderText(c[i], l))}
                             = 1 .. Len(c[i]) - 1
    BY <1>5, <1>6
  <2>2. FoundFolders(rows, passing, host, star, Maps) = UNION {starts(i) : i \in some}
    BY <1>9, <2>1
  <2> QED
    BY <1>7, <2>2
<1>17. ASSUME NEW i \in own, NEW m
       PROVE  m \in starts(i) <=> m \in FoldersIn(tree) /\ IsPrefix(m, c[i])
  <2> DEFINE q == c[i]
  <2>1. q \in Seq(A) /\ q # <<>> /\ Len(q) \in Nat
    BY <1>2
  <2>2. q \in NodesOf(own, c, n) \ {<<>>}
    <3>1. IsPrefix(q, q)
      <4> HIDE DEF q
      <4> QED
        BY <2>1 DEF IsPrefix
    <3>2. \A p \in Seq(A) : p \in NodesOf(own, c, n) <=> p = <<>> \/ \E j \in own : j <= n /\ IsPrefix(p, c[j])
      BY <1>1, <1>2, NodesAre
    <3>3. i <= n
      BY <1>2
    <3> QED
      BY <2>1, <3>1, <3>2, <3>3
  <2>3. \A k \in 0 .. Len(q) - 1 : SubSeq(q, 1, k) \in Folders(host)
    BY <1>1, <2>2, AboveIsFolder DEF Folders, own, c, n
  <2>4. m \in Folders(host) => m \in Seq(A) /\ m # q
    BY <1>1, FolderIs DEF Folders, own, c, n
  <2>5. /\ \A k \in 0 .. Len(q) : Len(SubSeq(q, 1, k)) = k /\ IsPrefix(SubSeq(q, 1, k), q)
        /\ \A p \in Seq(A) : IsPrefix(p, q) => Len(p) \in 0 .. Len(q) /\ p = SubSeq(q, 1, Len(p))
    BY <2>1, StartIs
  <2>6. SubSeq(q, 1, Len(q)) = q
    <3> HIDE DEF q
    <3> QED
      BY <2>1
  <2> HIDE DEF q
  <2>7. ASSUME NEW k \in 1 .. Len(q) - 1
        PROVE  SubSeq(q, 1, k) \in Folders(host) /\ SubSeq(q, 1, k) # <<>> /\ IsPrefix(SubSeq(q, 1, k), q)
    <3>1. k \in 0 .. Len(q) - 1 /\ k \in 0 .. Len(q) /\ k # 0
      BY <2>1
    <3>2. Len(SubSeq(q, 1, k)) # Len(<<>>)
      BY <2>5, <3>1
    <3> QED
      BY <2>3, <2>5, <3>1, <3>2
  <2>8. ASSUME m \in Folders(host), m # <<>>, IsPrefix(m, q)
        PROVE  \E k \in 1 .. Len(q) - 1 : m = SubSeq(q, 1, k)
    <3>1. m \in Seq(A) /\ Len(m) \in 0 .. Len(q) /\ m = SubSeq(q, 1, Len(m))
      BY <2>4, <2>5, <2>8
    <3>2. Len(m) # 0
      BY <2>8, <3>1
    <3>3. Len(m) # Len(q)
      BY <2>4, <2>6, <2>8, <3>1
    <3>4. Len(m) \in 1 .. Len(q) - 1
      BY <2>1, <3>1, <3>2, <3>3
    <3> QED
      BY <3>1, <3>4
  <2> QED
    BY <1>12, <2>7, <2>8 DEF q
<1>18. found.folders = {m \in FoldersIn(tree) : \E f \in middling : IsPrefix(m, f)}
  <2> HIDE DEF starts
  <2>1. \A i \in some : i \in own
    OBVIOUS
  <2> HIDE DEF some, middling
  <2>2. \A m : m \in found.folders <=> \E i \in some : m \in starts(i)
    BY <1>16
  <2>3. \A m : m \in found.folders <=> \E i \in some : m \in FoldersIn(tree) /\ IsPrefix(m, c[i])
    BY <1>17, <2>1, <2>2
  <2>4. \A m : m \in found.folders <=> m \in FoldersIn(tree) /\ \E f \in middling : IsPrefix(m, f)
    BY <1>13, <2>3
  <2> QED
    BY <2>4
<1> QED
  BY <1>11, <1>15, <1>18

LEMMA GlobBaseIs ==
  ASSUME NEW T, Slash \in T, "*" \in T, NEW text \in Seq(T), \A k \in 1 .. Len(text) : text[k] \notin Wild
  PROVE  LET target == text \o <<Slash, "*">>
         IN  GlobBase(target) = text \o <<Slash>> /\ After(target, text \o <<Slash>>) = <<"*">>
<1> DEFINE l == Len(text)
           target == text \o <<Slash, "*">>
           base == text \o <<Slash>>
           wild == {k \in 1 .. Len(target) : target[k] \in Wild}
           first == SelectInSeq(target, LAMBDA t : t \in Wild)
           slashes == {k \in 1 .. first - 1 : target[k] = Slash}
<1>1. /\ l \in Nat /\ target \in Seq(T) /\ Len(target) = l + 2
      /\ \A k \in 1 .. l : target[k] = text[k]
      /\ target[l + 1] = Slash /\ target[l + 2] = "*"
  <2> DEFINE e == <<Slash, "*">>
  <2>1. e \in Seq(T) /\ Len(e) = 2 /\ e[1] = Slash /\ e[2] = "*"
    OBVIOUS
  <2> HIDE DEF e
  <2>2. l \in Nat /\ (text \o e) \in Seq(T) /\ Len(text \o e) = l + 2
    <3>1. l \in Nat
      OBVIOUS
    <3>2. (text \o e) \in Seq(T) /\ Len(text \o e) = Len(text) + Len(e)
      BY <2>1, ConcatProperties
    <3> QED
      BY <2>1, <3>1, <3>2
  <2>3. /\ \A k \in 1 .. l : (text \o e)[k] = text[k]
        /\ \A k \in 1 .. 2 : (text \o e)[l + k] = e[k]
    <3> DEFINE both == text \o e
    <3>1. \A k \in 1 .. Len(text) + Len(e) : both[k] = IF k <= Len(text) THEN text[k] ELSE e[k - Len(text)]
      BY <2>1, ConcatProperties
    <3> HIDE DEF both
    <3>2. l \in Nat /\ \A k \in 1 .. l + 2 : both[k] = IF k <= l THEN text[k] ELSE e[k - l]
      BY <2>1, <3>1
    <3> HIDE DEF l
    <3>3. \A k \in 1 .. l : k \in 1 .. l + 2 /\ k <= l
      BY <3>2
    <3>4. \A k \in 1 .. 2 : l + k \in 1 .. l + 2 /\ ~(l + k <= l) /\ (l + k) - l = k
      BY <3>2
    <3>5. \A k \in 1 .. l : both[k] = text[k]
      BY <3>2, <3>3
    <3>6. \A k \in 1 .. 2 : both[l + k] = e[k]
      BY <3>2, <3>4
    <3> QED
      BY <3>5, <3>6 DEF both
  <2>4. (text \o e)[l + 1] = Slash /\ (text \o e)[l + 2] = "*"
    <3>1. 1 \in 1 .. 2 /\ 2 \in 1 .. 2
      OBVIOUS
    <3> HIDE DEF l
    <3> QED
      BY <2>1, <2>3, <3>1
  <2>5. \A k \in 1 .. l : (text \o e)[k] = text[k]
    BY <2>3
  <2> QED
    BY <2>2, <2>4, <2>5 DEF e
<1>2. /\ base \in Seq(T) /\ Len(base) = l + 1
      /\ \A k \in 1 .. l : base[k] = text[k]
      /\ base[l + 1] = Slash
  OBVIOUS
<1>3. first = IF wild # {} THEN Min(wild) ELSE 0
  BY DEF SelectInSeq
<1>4. "*" \in Wild /\ Slash \notin Wild
  BY DEF Wild, Slash
<1> HIDE DEF target, base, first, l
<1>5. wild = {l + 2}
  <2>1. \A k \in 1 .. l + 2 : k \in 1 .. l \/ k = l + 1 \/ k = l + 2
    BY <1>1
  <2>2. l + 2 \in 1 .. l + 2
    BY <1>1
  <2>3. \A k \in 1 .. l : target[k] \notin Wild
    BY <1>1 DEF l
  <2> QED
    BY <1>1, <1>4, <2>1, <2>2, <2>3
<1>6. wild \in SUBSET Nat /\ wild # {}
  BY <1>1, <1>5
<1> HIDE DEF wild
<1>7. first = l + 2
  BY <1>3, <1>5, <1>6, Least
<1>8. slashes \in SUBSET (1 .. l + 1) /\ l + 1 \in slashes
  <2>1. first - 1 = l + 1
    BY <1>1, <1>7
  <2>2. slashes = {k \in 1 .. l + 1 : target[k] = Slash}
    BY <2>1
  <2>3. l + 1 \in 1 .. l + 1
    BY <1>1
  <2> HIDE DEF slashes
  <2> QED
    BY <1>1, <2>2, <2>3
<1>9. GlobBase(target) = IF slashes = {} THEN <<>> ELSE SubSeq(target, 1, Max(slashes))
  BY DEF GlobBase, first
<1> HIDE DEF slashes
<1>10. Max(slashes) = l + 1
  <2>1. l + 1 \in Nat /\ slashes # {}
    BY <1>1, <1>8
  <2>2. Max(slashes) \in slashes /\ \A x \in slashes : x <= Max(slashes)
    BY <1>8, <2>1, Greatest
  <2>3. l + 1 <= Max(slashes) /\ Max(slashes) <= l + 1 /\ Max(slashes) \in Nat
    <3>1. Max(slashes) \in 1 .. l + 1
      BY <1>8, <2>2
    <3>2. l + 1 <= Max(slashes)
      BY <1>8, <2>2
    <3> QED
      BY <2>1, <3>1, <3>2
  <2> QED
    BY <1>1, <2>3
<1>11. SubSeq(target, 1, l + 1) = base
  <2> DEFINE s == SubSeq(target, 1, l + 1)
  <2>1. s \in Seq(T) /\ Len(s) = l + 1 /\ \A k \in 1 .. l + 1 : s[k] = target[k]
    <3>1. 1 \in Nat \ {0} /\ l + 1 \in Nat /\ l + 1 <= Len(target) /\ 1 <= l + 1 /\ (l + 1) - 1 + 1 = l + 1
      BY <1>1
    <3>2. s = [k \in 1 .. l + 1 |-> target[1 + k - 1]] /\ s \in Seq(T) /\ Len(s) = l + 1
      BY <1>1, <3>1, SubSeqIs
    <3>3. \A k \in 1 .. l + 1 : 1 + k - 1 = k
      BY <1>1
    <3> HIDE DEF s
    <3> QED
      BY <3>2, <3>3
  <2> HIDE DEF s
  <2>2. \A k \in 1 .. l + 1 : s[k] = base[k]
    <3>1. \A k \in 1 .. l + 1 : k \in 1 .. l \/ k = l + 1
      BY <1>1
    <3> QED
      BY <1>1, <1>2, <2>1, <3>1
  <2>3. s = base
    BY <1>2, <2>1, <2>2
  <2> QED
    BY <2>3 DEF s
<1>12. GlobBase(target) = base
  BY <1>8, <1>9, <1>10, <1>11
<1>13. After(target, base) = <<"*">>
  <2>1. After(target, base) = SubSeq(target, l + 2, l + 2)
    <3>1. Len(base) + 1 = l + 2
      BY <1>1, <1>2
    <3> QED
      BY <1>1, <3>1 DEF After, From
  <2>2. SubSeq(target, l + 2, l + 2) = <<target[l + 2]>>
    <3> DEFINE r == SubSeq(target, l + 2, l + 2)
    <3>1. l + 2 \in Nat \ {0} /\ l + 2 \in Nat /\ l + 2 <= Len(target) /\ (l + 2) - (l + 2) + 1 = 1
      BY <1>1
    <3>2. r = [k \in 1 .. 1 |-> target[l + 2 + k - 1]] /\ r \in Seq(T) /\ Len(r) = 1
      BY <1>1, <3>1, SubSeqIs
    <3>3. l + 2 + 1 - 1 = l + 2
      BY <1>1
    <3> HIDE DEF r
    <3>4. r[1] = target[l + 2]
      <4>1. 1 \in 1 .. 1
        OBVIOUS
      <4>2. r[1] = target[l + 2 + 1 - 1]
        BY <3>2, <4>1
      <4> QED
        BY <3>3, <4>2
    <3>5. r = <<target[l + 2]>>
      BY <3>2, <3>4
    <3> QED
      BY <3>5 DEF r
  <2> QED
    BY <1>1, <2>1, <2>2
<1> QED
  BY <1>12, <1>13 DEF target, base

\* No token of a folder's text is a wildcard.
LEMMA NothingWild ==
  ASSUME NEW host, Listed(host), NEW node \in Folders(host)
  PROVE  \A k \in 1 .. Len(TextOf(host, node)) : TextOf(host, node)[k] \notin Wild
<1> DEFINE own == Own(host)
           c == CompsOf(host)
           b == TextOf(host, node)
<1>1. host \notin Wild /\ \A i \in own : Range(PathShown(rows[i], host)) \cap Wild = {}
  BY DEF Listed, Plain, Own
<1>2. Apiece(own, c, Len(rows), Names(Token))
  BY OwnApiece DEF Listed
<1>3. node \in Seq(Names(Token)) /\ \A i \in own : c[i] # node
  BY <1>2, FolderIs DEF Folders
<1>4. host \in Token /\ Len(<<host>>) = 1 /\ <<host>>[1] = host
  BY HostTyped
<1>5. CASE node = <<>>
  <2>1. b = <<host>>
    BY <1>3, <1>5, TextTyped
  <2>2. \A k \in 1 .. 1 : k = 1
    OBVIOUS
  <2> QED
    BY <1>1, <1>4, <2>1, <2>2
<1>6. CASE node # <<>>
  <2>1. PICK i \in own : IsPrefix(node, c[i])
    <3>1. node \in Nodes(host)
      BY DEF Folders, FoldersOf, Nodes
    <3>2. \A p \in Seq(Names(Token)) : p \in Nodes(host)
            <=> p = <<>> \/ \E i \in own : i <= Len(rows) /\ IsPrefix(p, c[i])
      <4>1. Len(rows) \in Nat
        BY <1>2 DEF Apiece
      <4> QED
        BY <1>2, <4>1, NodesAre DEF Nodes
    <3> QED
      BY <1>3, <1>6, <3>1, <3>2
  <2>2. i \in Under(own, c, node)
    BY <2>1 DEF Under
  <2> DEFINE q == TextOf(host, c[i])
             path == PathShown(rows[i], host)
  <2>3. Extends(b, q, TRUE)
    BY <2>2, TextBelow DEF Folders
  <2>4. path = FolderText(c[i], Len(c[i])) /\ path \in Seq(Token)
    BY RootIs, StoredTyped DEF Listed
  <2>5. q = <<host>> \o path
    BY <2>4 DEF TextOf, TextBehind, Joined
  <2>6. c[i] \in Seq(Names(Token))
    BY <1>2 DEF Apiece
  <2>7. b \in Seq(Token)
    BY <1>3, TextTyped
  <2>8. \A k \in 1 .. Len(path) : path[k] \notin Wild
    <3>1. Range(path) \cap Wild = {}
      BY <1>1
    <3>2. \A k \in 1 .. Len(path) : path[k] \in Range(path)
      BY <2>4 DEF Range
    <3> QED
      BY <3>1, <3>2
  <2> HIDE DEF q, path, b
  <2>9. Len(q) = Len(path) + 1 /\ Len(path) \in Nat /\ q[1] = host /\ \A k \in 2 .. Len(q) : q[k] = path[k - 1]
    BY <1>4, <2>4, <2>5
  <2>10. ASSUME NEW k \in 1 .. Len(q)
         PROVE  q[k] \notin Wild
    <3>1. CASE k = 1
      BY <1>1, <2>9, <3>1
    <3>2. CASE k # 1
      <4>1. k \in 2 .. Len(q) /\ k - 1 \in 1 .. Len(path)
        BY <2>9, <3>2
      <4> QED
        BY <2>8, <2>9, <4>1
    <3> QED
      BY <3>1, <3>2
  <2>11. Len(b) \in Nat /\ Len(b) <= Len(q) /\ \A k \in 1 .. Len(b) : q[k] = b[k]
    BY <2>3, <2>7 DEF Extends
  <2>12. \A k \in 1 .. Len(b) : k \in 1 .. Len(q)
    BY <2>9, <2>11
  <2>13. \A k \in 1 .. Len(b) : b[k] \notin Wild
    BY <2>10, <2>11, <2>12
  <2> QED
    BY <2>13 DEF b
<1> QED
  BY <1>5, <1>6

\* The pattern and the base that a wildcard in a folder means.
LEMMA FolderGlob ==
  ASSUME NEW host, Listed(host), NEW node \in Folders(host)
  PROVE  LET target == <<host>> \o FolderText(node, Len(node)) \o <<Slash, "*">>
             base == TextOf(host, node) \o <<Slash>>
         IN  GlobBase(target) = base /\ After(target, base) = <<"*">> /\ base # <<>> /\ base[1] = host
<1> DEFINE T == Token \cup Wild
           text == TextOf(host, node)
<1>1. Apiece(Own(host), CompsOf(host), Len(rows), Names(Token))
  BY OwnApiece DEF Listed
<1>2. node \in Seq(Names(Token))
  BY <1>1, FolderIs DEF Folders
<1>3. text \in Seq(Token) /\ text # <<>>
  BY <1>2, TextTyped
<1>4. host \in Token /\ Slash \in Token
  BY HostTyped
<1>5. text \in Seq(T) /\ Slash \in T /\ "*" \in T
  <2>1. text \in Seq(T)
    <3> HIDE DEF text
    <3>1. Len(text) \in Nat /\ text \in [1 .. Len(text) -> Token]
      BY <1>3
    <3>2. text \in [1 .. Len(text) -> T]
      BY <3>1
    <3> QED
      BY <3>1, <3>2
  <2> QED
    BY <1>4, <2>1 DEF Wild
<1>6. text = <<host>> \o FolderText(node, Len(node))
  BY DEF TextOf, TextBehind, Joined
<1>7. \A k \in 1 .. Len(text) : text[k] \notin Wild
  BY NothingWild
<1>8. FolderText(node, Len(node)) \in Seq(Token)
  <2>1. \A k \in 1 .. Len(node) : node[k] \in Seq(Token)
    <3>1. \A k \in 1 .. Len(node) : node[k] \in Names(Token)
      BY <1>2
    <3> QED
      BY <3>1 DEF Names
  <2>2. Len(node) \in Nat /\ Len(node) \in 0 .. Len(node)
    BY <1>2
  <2> DEFINE l == Len(node)
  <2> HIDE DEF l
  <2>3. \A k \in 0 .. l : FolderText(node, k) \in Seq(Token)
    BY <1>4, <2>1, <2>2, FolderTextIs DEF l
  <2> QED
    BY <2>2, <2>3 DEF l
<1>9. text[1] = host
  <2> DEFINE f == FolderText(node, Len(node))
  <2> HIDE DEF f, text
  <2>1. f \in Seq(Token) /\ text = <<host>> \o f
    BY <1>6, <1>8 DEF f
  <2> QED
    BY <1>4, <2>1
<1> HIDE DEF text, T
<1>10. GlobBase(text \o <<Slash, "*">>) = text \o <<Slash>>
       /\ After(text \o <<Slash, "*">>, text \o <<Slash>>) = <<"*">>
  BY <1>5, <1>7, GlobBaseIs
<1>11. text \o <<Slash>> # <<>> /\ (text \o <<Slash>>)[1] = host
  <2>1. Len(text) \in Nat /\ Len(text) # 0 /\ <<Slash>> \in Seq(Token)
    BY <1>3, <1>4
  <2>2. 1 \in 1 .. Len(text)
    BY <2>1
  <2> QED
    BY <1>3, <1>4, <1>9, <2>1, <2>2
<1> QED
  BY <1>6, <1>10, <1>11 DEF text

LEMMA GlobAgrees ==
  ASSUME NEW host, Listed(host)
  PROVE  GlobIsTree(host)
<1> DEFINE own == Own(host)
           c == CompsOf(host)
           n == Len(rows)
           tree == TreeOf(host)
           at(m) == NodeOf(own, c, RowSizes, n, m, n)
           pair(l) == <<l.name, l.item>>
<1>1. Apiece(own, c, n, Names(Token))
  BY OwnApiece DEF Listed
<1>2. /\ Printed(tree) = Nodes(host) \ {<<>>}
      /\ \A m \in Nodes(host) : /\ tree[m] = at(m)
                                /\ tree[m].dir <=> m \in Folders(host)
  BY PrintedIs, TreeNodes
<1>3. <<>> \in Folders(host) /\ Folders(host) \in SUBSET Nodes(host)
  BY <1>1, FoldersBegin DEF Folders, FoldersOf, Nodes
<1>4. /\ \A node \in Folders(host) : \A x \in ChildNames(own, c, node) :
           /\ Append(node, x) \in Nodes(host) \ {<<>>}
           /\ Front(Append(node, x)) = node /\ Last(Append(node, x)) = x
      /\ \A m \in Nodes(host) \ {<<>>} : /\ Last(m) \in ChildNames(own, c, Front(m))
                                         /\ m = Append(Front(m), Last(m))
  <2>1. \A node \in Folders(host) : \A x \in ChildNames(own, c, node) :
          Append(node, x) \in Nodes(host) /\ Append(node, x) \in Seq(Names(Token)) \ {<<>>} /\ x \in Names(Token)
    BY <1>1, FoldersBegin DEF Folders, Nodes
  <2>2. \A m \in Nodes(host) \ {<<>>} : Last(m) \in ChildNames(own, c, Front(m)) /\ m = Append(Front(m), Last(m))
    BY <1>1, FoldersBegin DEF Folders, Nodes
  <2>3. Folders(host) \in SUBSET Seq(Names(Token))
    BY <1>1, FoldersBegin DEF Folders
  <2>4. ASSUME NEW node \in Seq(Names(Token)), NEW x \in Names(Token)
        PROVE  Front(Append(node, x)) = node /\ Last(Append(node, x)) = x
    <3> DEFINE m == Append(node, x)
               l == Len(node)
    <3>1. /\ l \in Nat /\ m \in Seq(Names(Token)) /\ Len(m) = l + 1 /\ m[l + 1] = x
          /\ \A k \in 1 .. l : m[k] = node[k]
      BY AppendProperties
    <3> HIDE DEF m, l
    <3>2. Last(m) = x
      BY <3>1 DEF Last
    <3>3. Front(m) = SubSeq(m, 1, l)
      <4>1. Len(m) - 1 = l
        BY <3>1
      <4> QED
        BY <4>1 DEF Front
    <3>4. SubSeq(m, 1, l) \in Seq(Names(Token)) /\ Len(SubSeq(m, 1, l)) = l
          /\ SubSeq(m, 1, l) = [k \in 1 .. l |-> m[k]]
      <4>1. l \in 0 .. Len(m) /\ 1 \in Nat \ {0} /\ l <= Len(m) /\ l - 1 + 1 = l
        BY <3>1
      <4>2. SubSeq(m, 1, l) = [k \in 1 .. l |-> m[1 + k - 1]]
        BY <3>1, <4>1, SubSeqIs
      <4>3. \A k \in 1 .. l : 1 + k - 1 = k
        BY <3>1
      <4>4. [k \in 1 .. l |-> m[1 + k - 1]] = [k \in 1 .. l |-> m[k]]
        BY <4>3
      <4>5. SubSeq(m, 1, l) \in Seq(Names(Token)) /\ Len(SubSeq(m, 1, l)) = l
        BY <3>1, <4>1, StartIs
      <4> QED
        BY <4>2, <4>4, <4>5
    <3>5. node = [k \in 1 .. l |-> node[k]]
      BY DEF l
    <3>6. Front(m) = node
      <4>1. [k \in 1 .. l |-> m[k]] = [k \in 1 .. l |-> node[k]]
        BY <3>1
      <4> QED
        BY <3>3, <3>4, <3>5, <4>1
    <3> QED
      BY <3>2, <3>6 DEF m
  <2> QED
    BY <2>1, <2>2, <2>3, <2>4
<1>5. {<<>>} \cup FoldersIn(tree) = Folders(host)
  <2> HIDE DEF tree
  <2> QED
    BY <1>2, <1>3 DEF FoldersIn
<1>6. ASSUME NEW node \in Folders(host)
      PROVE  LsGlob(rows, <<host>> \o FolderText(node, Len(node)) \o <<Slash, "*">>, Maps)
               = LinesOf(host, node, TextOf(host, node) \o <<Slash>>)
  <2> DEFINE target == <<host>> \o FolderText(node, Len(node)) \o <<Slash, "*">>
             base == TextOf(host, node) \o <<Slash>>
             star == <<"*">>
             B == Under(own, c, node)
             chosen == {i \in DOMAIN rows : /\ HostMatches(rows[i].url, host, Maps)
                                            /\ GlobMatches(Root(rows[i].url, host, Maps), base, star)}
             roots == [i \in chosen |-> [root |-> Root(rows[i].url, host, Maps), size |-> rows[i].size]]
  <2>1. GlobBase(target) = base /\ After(target, base) = star /\ base # <<>> /\ base[1] = host
    BY FolderGlob
  <2>2. LsGlob(rows, target, Maps) = Level(roots, base)
    <3> HIDE DEF target, base, star
    <3> QED
      BY <2>1 DEF LsGlob
  <2>3. ASSUME NEW i \in own
        PROVE  /\ Root(rows[i].url, host, Maps) = TextOf(host, c[i])
               /\ GlobMatches(Root(rows[i].url, host, Maps), base, star) <=> i \in B
               /\ rows[i].size = RowSizes[i]
    <3> DEFINE q == TextOf(host, c[i])
    <3>1. Root(rows[i].url, host, Maps) = q
      BY RootIs DEF Listed
    <3>2. /\ IsPrefix(base, q) <=> i \in B
          /\ i \in B => Reads(q, base, c[i][Len(node) + 1], Len(c[i]) = Len(node) + 1)
      BY FolderReads DEF Folders
    <3>3. ~Contains(star, Slash)
      BY DEF Contains, Slash
    <3>4. i \in B => Len(c[i][Len(node) + 1]) \in Nat
      <4> SUFFICES ASSUME i \in B PROVE Len(c[i][Len(node) + 1]) \in Nat
        OBVIOUS
      <4> DEFINE x == c[i][Len(node) + 1]
      <4>1. node \in Seq(Names(Token)) /\ \A j \in own : c[j] # node
        BY <1>1, FolderIs DEF Folders
      <4>2. x \in Names(Token)
        BY <1>1, <4>1, NextOfOwn
      <4> HIDE DEF x
      <4>3. x \in Seq(Token)
        BY <4>2 DEF Names
      <4>4. Len(x) \in Nat
        BY <4>3
      <4> QED
        BY <4>4 DEF x
    <3> HIDE DEF q, base, star, B
    <3>5. i \in B => Relative(q, base) # <<>> /\ RelativeName(Relative(q, base)) = c[i][Len(node) + 1]
      BY <3>2 DEF Reads
    <3>6. i \in B => Matches(star, RelativeName(Relative(q, base)))
      BY <3>4, <3>5, StarMatches DEF star
    <3>7. GlobMatches(q, base, star) <=> i \in B
      BY <2>1, <3>2, <3>3, <3>5, <3>6 DEF GlobMatches
    <3>8. rows[i].size = RowSizes[i]
      <4>1. i \in 1 .. Len(rows)
        BY StoredTyped DEF Listed
      <4> QED
        BY <4>1 DEF RowSizes
    <3> QED
      BY <3>1, <3>7, <3>8 DEF q
  <2>4. own = {i \in DOMAIN rows : HostMatches(rows[i].url, host, Maps)}
    BY DEF Own, OfHost
  <2>5. B \in SUBSET own
    BY DEF Under
  <2>6. \A i : i \in chosen <=> i \in own /\ GlobMatches(Root(rows[i].url, host, Maps), base, star)
    BY <2>4
  <2> HIDE DEF B, base, star, chosen, own, c
  <2>7. chosen = B
    BY <2>3, <2>5, <2>6
  <2>8. DOMAIN roots = B
        /\ \A i \in DOMAIN roots : roots[i] = [root |-> TextOf(host, c[i]), size |-> RowSizes[i]]
    BY <2>3, <2>5, <2>7
  <2> HIDE DEF roots
  <2>9. Level(roots, base) = LinesOf(host, node, base)
    <3>1. DOMAIN roots \in SUBSET Own(host) /\ Under(Own(host), CompsOf(host), node) \in SUBSET DOMAIN roots
      BY <2>5, <2>8 DEF own, B, c
    <3>2. \A i \in DOMAIN roots : roots[i] = [root |-> TextOf(host, CompsOf(host)[i]), size |-> RowSizes[i]]
      BY <2>8 DEF c
    <3>3. base \in {TextOf(host, node), TextOf(host, node) \o <<Slash>>}
      BY DEF base
    <3>4. node \in FoldersOf(Own(host), CompsOf(host), Len(rows))
      BY DEF Folders
    <3> QED
      BY <3>1, <3>2, <3>3, <3>4, HostLevel
  <2> QED
    BY <2>2, <2>9 DEF base
<1>7. \A node, base : LinesOf(host, node, base) = {LineOf(base, own, c, RowSizes, n, node, x) : x \in ChildNames(own, c, node)}
  BY DEF LinesOf
<1>8. \A node, base, x : pair(LineOf(base, own, c, RowSizes, n, node, x)) = <<x, at(Append(node, x))>>
  BY DEF LineOf
<1> HIDE DEF own, c, n, tree, at, pair
<1>9. ASSUME NEW node \in Folders(host), NEW base
      PROVE  {pair(l) : l \in LinesOf(host, node, base)}
               = {<<Last(m), tree[m]>> : m \in {k \in Printed(tree) : Front(k) = node}}
  <2> DEFINE lines == LinesOf(host, node, base)
             below == {k \in Printed(tree) : Front(k) = node}
  <2>1. ASSUME NEW l \in lines
        PROVE  \E m \in below : pair(l) = <<Last(m), tree[m]>>
    <3>1. PICK x \in ChildNames(own, c, node) : l = LineOf(base, own, c, RowSizes, n, node, x)
      BY <1>7
    <3> DEFINE m == Append(node, x)
    <3>2. m \in Nodes(host) \ {<<>>} /\ Front(m) = node /\ Last(m) = x /\ pair(l) = <<x, at(m)>>
      BY <1>4, <1>8, <3>1
    <3> HIDE DEF m
    <3>3. m \in below
      BY <1>2, <3>2
    <3> QED
      BY <1>2, <3>2, <3>3
  <2>2. ASSUME NEW m \in below
        PROVE  \E l \in lines : pair(l) = <<Last(m), tree[m]>>
    <3>1. m \in Nodes(host) \ {<<>>} /\ Front(m) = node
      BY <1>2
    <3>2. Last(m) \in ChildNames(own, c, node) /\ m = Append(node, Last(m))
      BY <1>4, <3>1
    <3> DEFINE x == Last(m)
               l == LineOf(base, own, c, RowSizes, n, node, x)
    <3>3. l \in lines
      BY <1>7, <3>2
    <3>4. pair(l) = <<x, at(m)>>
      BY <1>8, <3>2
    <3>5. tree[m] = at(m)
      BY <1>2, <3>1
    <3> HIDE DEF l, lines
    <3> QED
      BY <3>3, <3>4, <3>5
  <2> HIDE DEF lines, below
  <2>3. {pair(l) : l \in lines} = {<<Last(m), tree[m]>> : m \in below}
    BY <2>1, <2>2
  <2> QED
    BY <2>3 DEF lines, below
<1>10. ASSUME NEW node \in Folders(host)
       PROVE  {pair(l) : l \in LsGlob(rows, <<host>> \o FolderText(node, Len(node)) \o <<Slash, "*">>, Maps)}
                = {<<Last(m), tree[m]>> : m \in {k \in Printed(tree) : Front(k) = node}}
  BY <1>6, <1>9
<1>11. GlobIsTree(host) <=>
         \A node \in {<<>>} \cup FoldersIn(tree) :
           {pair(l) : l \in LsGlob(rows, <<host>> \o FolderText(node, Len(node)) \o <<Slash, "*">>, Maps)}
             = {<<Last(m), tree[m]>> : m \in {k \in Printed(tree) : Front(k) = node}}
  BY DEF GlobIsTree, pair, tree
<1> QED
  BY <1>5, <1>10, <1>11

LEMMA AliasTyped ==
  ASSUME NEW maps \in Seq(UrlMap), NEW url \in Location, Rooted(url),
         ReverseResolve(url, maps).path # <<>>
  PROVE  /\ ReverseResolve(url, maps).host \in Token \ {Slash}
         /\ ReverseResolve(url, maps).path \in Seq(Token)
         /\ ReverseResolve(url, maps).path[1] = Slash
<1>1. url.path \in Seq(Token) /\ url.host \in Token \ {Slash} /\ Slash \in Token
  <2>1. url.path \in Seq(STRING) /\ url.host \in STRING \ {Slash}
    BY DEF Location
  <2> QED
    BY <2>1 DEF Token
<1>2. CASE ReverseResolve(url, maps) = HostAndPath(url)
  <2>1. HostAndPath(url).path \in Seq(Token) /\ HostAndPath(url).host = url.host
    BY <1>1 DEF HostAndPath
  <2>2. HostAndPath(url).path[1] = Slash
    BY <1>1 DEF HostAndPath, Rooted
  <2> QED
    BY <1>1, <1>2, <2>1, <2>2
<1>3. ASSUME NEW i \in 1 .. Len(maps), UnderBase(url, maps[i].base),
             ReverseResolve(url, maps) = [host |-> maps[i].fake, path |-> After(url.path, maps[i].base.path)]
      PROVE  /\ ReverseResolve(url, maps).host \in Token \ {Slash}
             /\ ReverseResolve(url, maps).path \in Seq(Token)
             /\ ReverseResolve(url, maps).path[1] = Slash
  <2> DEFINE p == maps[i].base.path
             q == url.path
             rest == After(q, p)
  <2>1. maps[i] \in UrlMap
    OBVIOUS
  <2>2. maps[i].fake \in STRING \ {Slash} /\ p \in Seq(STRING)
    BY <2>1 DEF UrlMap, Location
  <2>3. ReverseResolve(url, maps).path = rest /\ ReverseResolve(url, maps).host = maps[i].fake
    BY <1>3
  <2>4. rest = <<>> \/ rest[1] = Slash
    BY <1>3 DEF UnderBase
  <2>5. p \in Seq(Token) /\ IsPrefix(p, q)
    BY <1>3, <2>2 DEF UnderBase, Token
  <2> HIDE DEF p, q, rest
  <2>6. rest \in Seq(Token)
    <3>1. q \in Seq(Token)
      BY <1>1 DEF q
    <3>2. Len(p) + 1 \in Nat \ {0} /\ Len(q) \in Nat /\ Len(q) <= Len(q)
      BY <2>5, <3>1
    <3>3. SubSeq(q, Len(p) + 1, Len(q)) \in Seq(Token)
      BY <3>1, <3>2, SubSeqIs
    <3> QED
      BY <3>3 DEF rest, After, From
  <2>7. maps[i].fake \in Token \ {Slash}
    BY <2>2 DEF Token
  <2> QED
    BY <2>3, <2>4, <2>6, <2>7
<1> QED
  BY <1>2, <1>3, ReverseIs

\* Without a host, the roots of all entries are directories on the top.
LEMMA AliasRootReads ==
  ASSUME NEW h \in Token \ {Slash}, NEW p \in Seq(Token), p # <<>>, p[1] = Slash, Slash \in Token
  PROVE  LET q == <<h>> \o p
             e == <<>>
         IN  /\ IsPrefix(e, q)
             /\ Relative(q, e) = q /\ q # e
             /\ RelativeName(q) = <<h>>
             /\ Contains(q, Slash)
<1> DEFINE q == <<h>> \o p
           c == <<h>>
           e == <<>>
<1>1. q \in Seq(Token) /\ Len(q) = Len(p) + 1 /\ Len(q) \in Nat /\ q[1] = h /\ q[2] = Slash /\ 2 <= Len(q)
  <2>1. Len(p) \in Nat /\ Len(p) # 0
    OBVIOUS
  <2>2. 1 \in 1 .. Len(p)
    BY <2>1
  <2> QED
    BY <2>1, <2>2
<1>2. c \in Names(Token) /\ Len(c) = 1 /\ c[1] = h
  <2>1. c \in Seq(Token) /\ Len(c) = 1 /\ c[1] = h /\ c # e
    OBVIOUS
  <2> HIDE DEF c
  <2>2. \A k \in 1 .. Len(c) : c[k] # Slash
    BY <2>1
  <2> QED
    BY <2>1, <2>2 DEF Names, e
<1>3. Len(e) = 0 /\ Contains(q, Slash)
  <2>1. 2 \in 1 .. Len(q)
    BY <1>1
  <2> HIDE DEF q
  <2> QED
    BY <1>1, <2>1 DEF Contains
<1> HIDE DEF q, c
<1>4. HasName(q, 0, c, Token, FALSE)
  <2>1. \A j \in 1 .. Len(c) : q[0 + j] = c[j]
    BY <1>1, <1>2
  <2> QED
    BY <1>1, <1>2, <2>1 DEF HasName
<1>5. NameFirst(SubSeq(q, 0 + 1, Len(q)), c, Token, FALSE)
  BY <1>4, RelIs
<1>6. SubSeq(q, 0 + 1, Len(q)) = q
  BY <1>1
<1>7. TrimStart(q) = q /\ RelativeName(q) = c /\ q # <<>>
  BY <1>5, <1>6 DEF NameFirst
<1>8. Relative(q, e) = q
  <2>1. After(q, e) = SubSeq(q, 0 + 1, Len(q))
    BY <1>3 DEF After, From
  <2> QED
    BY <1>6, <1>7, <2>1 DEF Relative
<1>9. IsPrefix(e, q)
  BY <1>1, EmptyStart DEF e
<1> QED
  BY <1>3, <1>7, <1>8, <1>9 DEF q, c

LEMMA TotalsAlwaysAgree ==
  ASSUME Stored
  PROVE  TotalsAgree
<1> SUFFICES ASSUME \A i \in DOMAIN rows : ReverseResolve(rows[i].url, Maps).path # <<>>,
                    NEW l \in LsAll(rows, Maps), l.base = <<>>
             PROVE  LET total == Hosts(rows, Maps)[l.name[1]]
                    IN  l.item.size = total.size /\ l.item.files = total.files
  BY DEF TotalsAgree
<1> DEFINE n == Len(rows)
           e == <<>>
           w == RowSizes
           h(i) == ReverseResolve(rows[i].url, Maps).host
           q(i) == AliasRoot(rows[i].url, Maps)
           roots == [i \in DOMAIN rows |-> [root |-> q(i), size |-> rows[i].size]]
           all == 1 .. n
           rel == RelativesOf(roots, e)
           items == Children(roots, e)
<1>1. n \in Nat /\ DOMAIN rows = all /\ w \in [all -> Nat]
  BY StoredTyped
<1>2. ASSUME NEW i \in all
      PROVE  /\ IsPrefix(e, q(i)) /\ Relative(q(i), e) = q(i) /\ q(i) # e
             /\ RelativeName(q(i)) = <<h(i)>> /\ Contains(q(i), Slash)
  <2>1. Rooted(rows[i].url) /\ rows[i].url \in Location /\ Maps \in Seq(UrlMap)
    BY StoredTyped DEF Stored
  <2> DEFINE p == ReverseResolve(rows[i].url, Maps).path
  <2>2. p # <<>>
    BY <1>1
  <2>3. h(i) \in Token \ {Slash} /\ p \in Seq(Token) /\ p[1] = Slash
    BY <2>1, <2>2, AliasTyped
  <2>4. q(i) = <<h(i)>> \o p
    BY DEF AliasRoot
  <2>5. Slash \in Token
    BY DEF Token
  <2> DEFINE g == h(i)
  <2> HIDE DEF p, g
  <2>6. g \in Token \ {Slash} /\ p \in Seq(Token) /\ p # <<>> /\ p[1] = Slash
    BY <2>2, <2>3 DEF g
  <2>7. LET r == <<g>> \o p
        IN  /\ IsPrefix(e, r) /\ Relative(r, e) = r /\ r # e
            /\ RelativeName(r) = <<g>> /\ Contains(r, Slash)
    BY <2>5, <2>6, AliasRootReads
  <2> QED
    BY <2>4, <2>7 DEF g
<1>3. LsAll(rows, Maps) = Render(roots, e)
  BY DEF LsAll
<1>4. DOMAIN roots = all /\ \A i \in all : roots[i].root = q(i) /\ roots[i].size = w[i]
  <2>1. DOMAIN roots = all /\ \A i \in all : roots[i].root = q(i) /\ roots[i].size = rows[i].size
    BY <1>1
  <2>2. \A i \in all : w[i] = rows[i].size
    BY DEF RowSizes
  <2> HIDE DEF roots, q
  <2> QED
    BY <2>1, <2>2
<1> HIDE DEF roots, q, h, w, n, all
<1>5. \E bases : Render(roots, e) = UNION {Level(roots, b) : b \in bases}
  BY DEF Render
<1>6. \A b : \A k \in Level(roots, b) : k.base = b
  BY DEF Level
<1>7. l \in Level(roots, e)
  BY <1>3, <1>5, <1>6
<1>8. ~IsExact(roots, e)
  BY <1>2, <1>4 DEF IsExact
<1>9. Below(roots, e) = all
  BY <1>2, <1>4 DEF Below
<1>10. \A i \in all : rel[i] = q(i)
  BY <1>2, <1>4 DEF RelativesOf
<1> HIDE DEF rel
<1>11. Unmixed(all, rel, n)
  BY <1>1, <1>2, <1>10 DEF Unmixed, all
<1>12. items = ItemsAfter(all, rel, w, n, n)
  <2>1. DOMAIN roots \in SUBSET (1 .. n) /\ w \in [1 .. n -> Nat]
    BY <1>1, <1>4 DEF all
  <2>2. Unmixed(Below(roots, e), RelativesOf(roots, e), n)
    BY <1>9, <1>11 DEF rel
  <2>3. \A i \in DOMAIN roots : roots[i].size = w[i]
    BY <1>4
  <2>4. Children(roots, e) = ItemsAfter(Below(roots, e), RelativesOf(roots, e), w, n, n)
    BY <1>1, <2>1, <2>2, <2>3, ChildrenAre
  <2> QED
    BY <1>9, <2>4 DEF rel
<1>13. l \in {[base |-> e, name |-> x, item |-> items[x]] : x \in DOMAIN items}
  BY <1>7, <1>8 DEF Level
<1> HIDE DEF items
<1>14. PICK x \in DOMAIN items : l.name = x /\ l.item = items[x]
  BY <1>13
<1>15. x \in NamesUpTo(all, rel, n) /\ items[x] = ItemOf(all, rel, w, n, x, n)
  BY <1>12, <1>14 DEF ItemsAfter
<1>16. PICK i \in all : x = <<h(i)>>
  BY <1>2, <1>10, <1>15 DEF NamesUpTo
<1> DEFINE g == h(i)
           S == Sharing(AliasOf, n, g)
<1>17. Named(all, rel, x) = S
  <2>1. \A j \in all : RelativeName(rel[j]) = <<h(j)>> /\ AliasOf[j] = h(j)
    BY <1>2, <1>10 DEF AliasOf, h, all, n
  <2> QED
    BY <1>16, <2>1 DEF Named, Sharing, all
<1>18. items[x].size = Part(w, S, n)[n] /\ items[x].files = Part(OneEach(n), S, n)[n]
  BY <1>15, <1>17 DEF ItemOf
<1>19. Hosts(rows, Maps) = HostsAfter(AliasOf, w, n, n)
  BY HostsIs DEF w, n
<1>20. Hosts(rows, Maps)[g] = [size |-> Part(w, S, n)[n], files |-> Part(OneEach(n), S, n)[n]]
  <2>1. g = AliasOf[i] /\ i \in 1 .. n
    BY DEF AliasOf, h, all, n
  <2> HIDE DEF g, S
  <2>2. g \in {AliasOf[k] : k \in 1 .. n}
    BY <2>1
  <2> QED
    BY <1>19, <2>2 DEF HostsAfter, S
<1>21. l.name[1] = g
  BY <1>14, <1>16
<1> HIDE DEF g, S
<1> QED
  BY <1>14, <1>18, <1>20, <1>21

(* The views of the cache agree in every state: what tree, find, ls and    *)
(* hosts each work out for themselves is the same nodes with the same      *)
(* sizes and numbers of files (cache_cli.rs:660 to 1560).                  *)
THEOREM ViewsAlwaysAgree == AdminSpec => []ViewsAgree
<1>1. ASSUME AdminInv
      PROVE  ViewsAgree
  <2>1. Stored
    BY <1>1, MapsTyped DEF Stored, AdminInv, AdminTypeOK, Maps
  <2>2. TotalsAgree
    BY <2>1, TotalsAlwaysAgree
  <2>3. ASSUME NEW host \in HostsKnown, Plain(host), OfHost(rows, host, Maps) # {}
        PROVE  /\ ListingIsTree(host)
               /\ FoundIsTree(host)
               /\ GlobIsTree(host)
               /\ IsAlias(host, Maps) => HostIsRoot(host)
    <3>1. Listed(host) /\ Own(host) # {}
      BY <2>1, <2>3 DEF Listed, Own
    <3>2. IsAlias(host, Maps) => HostIsRoot(host)
      BY <2>1, <2>3, <3>1, RootTotals
    <3> QED
      BY <3>1, <3>2, ListingAgrees, FoundAgrees, GlobAgrees
  <2> QED
    BY <2>2, <2>3 DEF ViewsAgree
<1>2. AdminInv => ViewsAgree
  BY <1>1
<1> QED
  BY <1>2, AdminInvariant, PTL

-----------------------------------------------------------------------------
(* Sizes.                                                                  *)

LEMMA LettersDiffer ==
  /\ DOMAIN Letters = 1 .. 5 /\ \A i, j \in 1 .. 5 : Letters[i] = Letters[j] => i = j
  /\ DOMAIN SubSeq(Letters, 1, 4) = 1 .. 4
  /\ \A i \in 1 .. 4 : i \in 1 .. 5 /\ SubSeq(Letters, 1, 4)[i] = Letters[i]
BY DEF Letters

Power(base, i) == base ^ i

PowersFrom(letters, base, n) ==
  /\ DOMAIN Powers(letters, base) = {Letters[i] : i \in 1 .. n}
  /\ \A i \in 1 .. n : Powers(letters, base)[Letters[i]] = Power(base, i)

\* The multiplier of a letter is the power that its place says.
LEMMA PowersAre ==
  ASSUME NEW n \in 1 .. 5, NEW letters, DOMAIN letters = 1 .. n,
         \A i \in 1 .. n : letters[i] = Letters[i], NEW base
  PROVE  PowersFrom(letters, base, n)
<1>1. \A i \in 1 .. n : i \in 1 .. 5
  OBVIOUS
<1>2. \A i, j \in 1 .. n : letters[i] = letters[j] => i = j
  BY <1>1, LettersDiffer
<1>3. \A i \in 1 .. n : (CHOOSE j \in DOMAIN letters : letters[j] = letters[i]) = i
  BY <1>2
<1>4. DOMAIN Powers(letters, base) = {letters[i] : i \in 1 .. n}
      /\ \A l \in {letters[i] : i \in 1 .. n} :
           Powers(letters, base)[l] = Power(base, CHOOSE j \in DOMAIN letters : letters[j] = l)
  BY DEF Powers, Power
<1>5. {letters[i] : i \in 1 .. n} = {Letters[i] : i \in 1 .. n}
  OBVIOUS
<1>6. ASSUME NEW i \in 1 .. n
      PROVE  Powers(letters, base)[Letters[i]] = Power(base, i)
  <2>1. letters[i] \in {letters[j] : j \in 1 .. n} /\ letters[i] = Letters[i]
    OBVIOUS
  <2>2. Powers(letters, base)[letters[i]] = Power(base, CHOOSE j \in DOMAIN letters : letters[j] = letters[i])
    BY <1>4, <2>1
  <2> QED
    BY <1>3, <2>1, <2>2
<1> QED
  BY <1>4, <1>5, <1>6 DEF PowersFrom

(* What blitzctl find reads as a size, the server reads as the same one    *)
(* unless it has a sign, which the server refuses; a letter is a power of  *)
(* 1024 to both, and a product that is no u64 is refused rather than       *)
(* wrapped (parse_bytes, config.rs:14; parse_size, cache_cli.rs:660).      *)
THEOREM SizesAlwaysMeanTheSame ==
  \A text \in [plus : BOOLEAN, number : Nat, unit : Seq(STRING)] :
    /\ ParseSize(text) # NoSize /\ ParseBytes(text) # NoSize => ParseBytes(text) = ParseSize(text)
    /\ ParseSize(text) # NoSize /\ ParseBytes(text) = NoSize => text.plus
    /\ \A i \in 1 .. 5 : text.unit = <<Letters[i]>> /\ ~text.plus =>
         ParseBytes(text) = Times(text.number, Kibi ^ i)
<1> SUFFICES ASSUME NEW text \in [plus : BOOLEAN, number : Nat, unit : Seq(STRING)]
             PROVE  /\ ParseSize(text) # NoSize /\ ~text.plus => ParseBytes(text) = ParseSize(text)
                    /\ text.plus => ParseBytes(text) = NoSize
                    /\ \A i \in 1 .. 5 : text.unit = <<Letters[i]>> /\ ~text.plus =>
                         ParseBytes(text) = Times(text.number, Power(Kibi, i))
  BY DEF Power
<1> DEFINE four == SubSeq(Letters, 1, 4)
           unit == text.unit
           e == <<>>
<1>0. PowersFrom(Letters, Kibi, 5) /\ PowersFrom(four, Kibi, 4)
  <2>1. 5 \in 1 .. 5 /\ 4 \in 1 .. 5
    OBVIOUS
  <2>2. DOMAIN Letters = 1 .. 5 /\ \A i \in 1 .. 5 : Letters[i] = Letters[i]
    BY LettersDiffer
  <2>3. DOMAIN four = 1 .. 4 /\ \A i \in 1 .. 4 : four[i] = Letters[i]
    BY LettersDiffer
  <2> HIDE DEF four
  <2>4. PowersFrom(Letters, Kibi, 5)
    BY <2>1, <2>2, PowersAre, Zenon
  <2>5. PowersFrom(four, Kibi, 4)
    BY <2>1, <2>3, PowersAre, Zenon
  <2> QED
    BY <2>4, <2>5
<1> HIDE DEF four
<1>1. /\ DOMAIN Powers(Letters, Kibi) = {Letters[i] : i \in 1 .. 5}
      /\ \A i \in 1 .. 5 : Powers(Letters, Kibi)[Letters[i]] = Power(Kibi, i)
  BY <1>0 DEF PowersFrom
<1>2. /\ DOMAIN Powers(four, Kibi) = {Letters[i] : i \in 1 .. 4}
      /\ \A i \in 1 .. 4 : Powers(four, Kibi)[Letters[i]] = Power(Kibi, i) /\ i \in 1 .. 5
  BY <1>0 DEF PowersFrom
<1>3. unit \in Seq(STRING) /\ text.plus \in BOOLEAN
  OBVIOUS
<1>4. \A i \in 1 .. 5 : unit = <<Letters[i]>> => unit # e /\ Len(unit) = 1 /\ unit[1] = Letters[i]
  OBVIOUS
<1>5. ASSUME NEW i \in 1 .. 5, ~text.plus, unit # e, Len(unit) = 1, unit[1] = Letters[i]
      PROVE  ParseBytes(text) = Times(text.number, Power(Kibi, i))
  <2>1. unit[1] \in DOMAIN Powers(Letters, Kibi)
    BY <1>1, <1>5
  <2> HIDE DEF e
  <2>2. ParseBytes(text) = Times(text.number, Powers(Letters, Kibi)[unit[1]])
    BY <1>5, <2>1 DEF ParseBytes, e
  <2> QED
    BY <1>1, <1>5, <2>2
<1>6. text.plus => ParseBytes(text) = NoSize
  BY DEF ParseBytes
<1>7. ASSUME ParseSize(text) # NoSize, ~text.plus
      PROVE  ParseBytes(text) = ParseSize(text)
  <2>1. CASE unit = e
    BY <1>7, <2>1 DEF ParseSize, ParseUnit, ParseBytes
  <2>2. CASE unit # e
    <3>1. /\ Len(unit) = 1 /\ unit[1] \in DOMAIN Powers(four, Kibi)
          /\ ParseSize(text) = Times(text.number, Powers(four, Kibi)[unit[1]])
      <4> HIDE DEF e
      <4> QED
        BY <1>7, <2>2 DEF ParseSize, ParseUnit, four, e
    <3>2. PICK i \in 1 .. 4 : unit[1] = Letters[i]
      BY <1>2, <3>1
    <3>3. i \in 1 .. 5 /\ ParseSize(text) = Times(text.number, Power(Kibi, i))
      BY <1>2, <3>1, <3>2
    <3>4. ParseBytes(text) = Times(text.number, Power(Kibi, i))
      BY <1>5, <1>7, <2>2, <3>1, <3>2, <3>3
    <3> QED
      BY <3>3, <3>4
  <2> QED
    BY <2>1, <2>2
<1>8. ASSUME NEW i \in 1 .. 5, unit = <<Letters[i]>>, ~text.plus
      PROVE  ParseBytes(text) = Times(text.number, Power(Kibi, i))
  BY <1>4, <1>5, <1>8
<1> QED
  BY <1>6, <1>7, <1>8

-----------------------------------------------------------------------------
(* Addresses.                                                              *)

Free(s, t) == \A k \in 1 .. Len(s) : s[k] # t

\* A text with a token between its two parts.
Cut(s, t, r) == s \o <<t>> \o r

IsJoin(w, p, q, T) ==
  /\ w \in Seq(T)
  /\ Len(w) = Len(p) + Len(q)
  /\ \A k \in 1 .. Len(p) + Len(q) : w[k] = IF k <= Len(p) THEN p[k] ELSE q[k - Len(p)]

LEMMA JoinIs ==
  ASSUME NEW T, NEW p \in Seq(T), NEW q \in Seq(T)
  PROVE  IsJoin(p \o q, p, q, T)
BY ConcatProperties DEF IsJoin

IsCut(w, s, t, r, T) ==
  /\ w \in Seq(T)
  /\ Len(s) \in Nat /\ Len(r) \in Nat
  /\ Len(w) = Len(s) + 1 + Len(r)
  /\ \A k \in 1 .. Len(s) : w[k] = s[k]
  /\ w[Len(s) + 1] = t
  /\ \A k \in 1 .. Len(r) : w[Len(s) + 1 + k] = r[k]

LEMMA CutIs ==
  ASSUME NEW T, NEW t \in T, NEW s \in Seq(T), NEW r \in Seq(T)
  PROVE  IsCut(Cut(s, t, r), s, t, r, T)
<1> DEFINE one == <<t>>
           p == s \o one
           w == p \o r
           l == Len(s)
           m == Len(r)
<1>1. one \in Seq(T) /\ Len(one) = 1 /\ one[1] = t /\ l \in Nat /\ m \in Nat
  OBVIOUS
<1>7. Cut(s, t, r) = w
  BY DEF Cut
<1> HIDE DEF one
<1>8. IsJoin(p, s, one, T)
  BY <1>1, JoinIs
<1> HIDE DEF p
<1>9. p \in Seq(T)
  BY <1>8 DEF IsJoin
<1>10. IsJoin(w, p, r, T)
  BY <1>9, JoinIs
<1> HIDE DEF w
<1>2. p \in Seq(T) /\ Len(p) = l + 1 /\ \A k \in 1 .. l + 1 : p[k] = IF k <= l THEN s[k] ELSE one[k - l]
  BY <1>1, <1>8 DEF IsJoin
<1>3. w \in Seq(T) /\ Len(w) = l + 1 + m
      /\ \A k \in 1 .. l + 1 + m : w[k] = IF k <= l + 1 THEN p[k] ELSE r[k - (l + 1)]
  BY <1>1, <1>2, <1>10 DEF IsJoin
<1> HIDE DEF l, m
<1>4. ASSUME NEW k \in 1 .. l
      PROVE  w[k] = s[k]
  <2>1. k \in 1 .. l + 1 + m /\ k \in 1 .. l + 1 /\ k <= l + 1 /\ k <= l
    BY <1>1
  <2> QED
    BY <1>2, <1>3, <2>1
<1>5. w[l + 1] = t
  <2>1. l + 1 \in 1 .. l + 1 + m /\ l + 1 \in 1 .. l + 1 /\ l + 1 <= l + 1 /\ ~(l + 1 <= l) /\ (l + 1) - l = 1
    BY <1>1
  <2> QED
    BY <1>1, <1>2, <1>3, <2>1
<1>6. ASSUME NEW k \in 1 .. m
      PROVE  w[l + 1 + k] = r[k]
  <2>1. l + 1 + k \in 1 .. l + 1 + m /\ ~(l + 1 + k <= l + 1) /\ (l + 1 + k) - (l + 1) = k
    BY <1>1
  <2> QED
    BY <1>3, <2>1
<1>11. IsCut(w, s, t, r, T)
  BY <1>1, <1>3, <1>4, <1>5, <1>6 DEF IsCut, l, m
<1> QED
  BY <1>7, <1>11

LEMMA CutParts ==
  ASSUME NEW T, NEW t \in T, NEW s \in Seq(T), NEW r \in Seq(T)
  PROVE  Before(Cut(s, t, r), Len(s) + 1) = s /\ Behind(Cut(s, t, r), Len(s) + 1) = r
<1> DEFINE w == Cut(s, t, r)
           l == Len(s)
           m == Len(r)
<1>1. /\ w \in Seq(T) /\ Len(w) = l + 1 + m /\ l \in Nat /\ m \in Nat
      /\ \A k \in 1 .. l : w[k] = s[k]
      /\ \A k \in 1 .. m : w[l + 1 + k] = r[k]
  <2>1. IsCut(w, s, t, r, T)
    BY CutIs
  <2> HIDE DEF w
  <2> QED
    BY <2>1 DEF IsCut
<1>2. s = [k \in 1 .. l |-> s[k]] /\ r = [k \in 1 .. m |-> r[k]]
  OBVIOUS
<1> HIDE DEF w, l, m
<1>3. SubSeq(w, 1, l) = s
  <2>1. 1 \in Nat \ {0} /\ l \in Nat /\ l <= Len(w) /\ l - 1 + 1 = l
    BY <1>1
  <2>2. SubSeq(w, 1, l) = [k \in 1 .. (l - 1 + 1) |-> w[1 + k - 1]]
    BY <1>1, <2>1, SubSeqIs
  <2>3. \A k \in 1 .. l : w[1 + k - 1] = s[k]
    BY <1>1
  <2> QED
    BY <1>2, <2>1, <2>2, <2>3
<1>4. SubSeq(w, l + 2, Len(w)) = r
  <2>1. l + 2 \in Nat \ {0} /\ Len(w) \in Nat /\ Len(w) <= Len(w) /\ Len(w) - (l + 2) + 1 = m
    BY <1>1
  <2>2. SubSeq(w, l + 2, Len(w)) = [k \in 1 .. (Len(w) - (l + 2) + 1) |-> w[l + 2 + k - 1]]
    BY <1>1, <2>1, SubSeqIs
  <2>3. \A k \in 1 .. m : l + 2 + k - 1 = l + 1 + k
    BY <1>1
  <2>4. \A k \in 1 .. m : w[l + 2 + k - 1] = r[k]
    BY <1>1, <2>3
  <2> QED
    BY <1>2, <2>1, <2>2, <2>4
<1>5. l + 1 - 1 = l /\ (l + 1) + 1 = l + 2
  BY <1>1
<1>6. Before(w, l + 1) = s
  <2> DEFINE last == (l + 1) - 1
  <2>1. Before(w, l + 1) = SubSeq(w, 1, last)
    BY DEF Before
  <2>2. last = l
    BY <1>1
  <2> HIDE DEF last
  <2> QED
    BY <1>3, <2>1, <2>2
<1>7. Behind(w, l + 1) = r
  <2>1. Behind(w, l + 1) = SubSeq(w, (l + 1) + 1, Len(w))
    BY DEF Behind, From
  <2> QED
    BY <1>4, <1>5, <2>1, Zenon
<1> QED
  BY <1>6, <1>7 DEF w, l

\* Where the token of a cut is found.
LEMMA CutAt ==
  ASSUME NEW T, NEW t \in T, NEW s \in Seq(T), NEW r \in Seq(T)
  PROVE  /\ Free(s, t) => Find1(Cut(s, t, r), t) = Len(s) + 1
         /\ Free(r, t) => FindLast(Cut(s, t, r), t) = Len(s) + 1
<1> DEFINE w == Cut(s, t, r)
           l == Len(s)
           m == Len(r)
           found == {k \in 1 .. Len(w) : w[k] = t}
<1>1. /\ w \in Seq(T) /\ Len(w) = l + 1 + m /\ l \in Nat /\ m \in Nat
      /\ \A k \in 1 .. l : w[k] = s[k]
      /\ w[l + 1] = t
      /\ \A k \in 1 .. m : w[l + 1 + k] = r[k]
  <2>1. IsCut(w, s, t, r, T)
    BY CutIs
  <2> HIDE DEF w
  <2> QED
    BY <2>1 DEF IsCut
<1>2. Find1(w, t) = IF found # {} THEN Min(found) ELSE 0
  BY DEF Find1, SelectInSeq
<1>3. FindLast(w, t) = IF found # {} THEN Max(found) ELSE 0
  BY DEF FindLast, SelectLastInSeq
<1> HIDE DEF w, l, m
<1>4. found \in SUBSET (1 .. Len(w)) /\ found \in SUBSET Nat /\ Len(w) \in Nat
  BY <1>1
<1>5. l + 1 \in found
  BY <1>1
<1>6. ASSUME Free(s, t)
      PROVE  Find1(w, t) = l + 1
  <2>1. ASSUME NEW k \in found
        PROVE  l + 1 <= k
    <3>1. k \in 1 .. Len(w) /\ w[k] = t
      OBVIOUS
    <3>2. k \notin 1 .. l
      BY <1>1, <1>6, <3>1 DEF Free, l
    <3> QED
      BY <1>1, <3>1, <3>2
  <2> HIDE DEF found
  <2>2. Min(found) \in found /\ \A x \in found : Min(found) <= x
    BY <1>4, <1>5, Least
  <2>3. Min(found) <= l + 1 /\ l + 1 <= Min(found) /\ Min(found) \in Nat
    BY <1>4, <1>5, <2>1, <2>2
  <2> QED
    BY <1>1, <1>2, <1>5, <2>3
<1>7. ASSUME Free(r, t)
      PROVE  FindLast(w, t) = l + 1
  <2>1. ASSUME NEW k \in found
        PROVE  k <= l + 1
    <3>1. k \in 1 .. Len(w) /\ w[k] = t
      OBVIOUS
    <3>2. CASE k > l + 1
      <4> DEFINE j == k - (l + 1)
      <4>1. j \in 1 .. m /\ l + 1 + j = k
        BY <1>1, <3>1, <3>2
      <4> HIDE DEF j
      <4>2. w[k] = r[j] /\ r[j] # t
        BY <1>1, <1>7, <4>1 DEF Free, m
      <4> QED
        BY <3>1, <4>2
    <3> QED
      BY <1>1, <3>1, <3>2
  <2> HIDE DEF found
  <2>2. Max(found) \in found /\ \A x \in found : x <= Max(found)
    BY <1>4, <1>5, Greatest
  <2>3. Max(found) <= l + 1 /\ l + 1 <= Max(found) /\ Max(found) \in Nat
    BY <1>4, <1>5, <2>1, <2>2
  <2> QED
    BY <1>1, <1>3, <1>5, <2>3
<1> QED
  BY <1>6, <1>7 DEF w, l

LEMMA NotFound ==
  ASSUME NEW s, NEW t, Free(s, t)
  PROVE  Find1(s, t) = 0 /\ FindLast(s, t) = 0
<1>1. {k \in 1 .. Len(s) : s[k] = t} = {}
  BY DEF Free
<1> QED
  BY <1>1 DEF Find1, FindLast, SelectInSeq, SelectLastInSeq

LEMMA FreeOfCut ==
  ASSUME NEW T, NEW t \in T, NEW s \in Seq(T), NEW r \in Seq(T), NEW u, Free(s, u), Free(r, u), t # u
  PROVE  Free(Cut(s, t, r), u)
<1> DEFINE w == Cut(s, t, r)
           l == Len(s)
           m == Len(r)
<1>1. /\ Len(w) = l + 1 + m /\ l \in Nat /\ m \in Nat
      /\ \A k \in 1 .. l : w[k] = s[k]
      /\ w[l + 1] = t
      /\ \A k \in 1 .. m : w[l + 1 + k] = r[k]
  <2>1. IsCut(w, s, t, r, T)
    BY CutIs
  <2> HIDE DEF w
  <2> QED
    BY <2>1 DEF IsCut
<1>2. (\A k \in 1 .. l : s[k] # u) /\ \A k \in 1 .. m : r[k] # u
  BY DEF Free
<1> HIDE DEF w, l, m
<1>3. ASSUME NEW k \in 1 .. Len(w)
      PROVE  w[k] # u
  <2>1. CASE k \in 1 .. l
    BY <1>1, <1>2, <2>1
  <2>2. CASE k = l + 1
    BY <1>1, <2>2
  <2>3. CASE k > l + 1
    <3> DEFINE j == k - (l + 1)
    <3>1. j \in 1 .. m /\ l + 1 + j = k
      BY <1>1, <2>3
    <3> HIDE DEF j
    <3> QED
      BY <1>1, <1>2, <3>1
  <2> QED
    BY <1>1, <2>1, <2>2, <2>3
<1> QED
  BY <1>3 DEF Free, w

\* What stands in front of the "@" of an address.
UserInfo(user, password) == user \o (IF password = Absent THEN <<>> ELSE <<":">> \o password)

LEMMA CredentialsBack ==
  ASSUME NEW T, ":" \in T, NEW user \in Seq(T), NEW password \in Seq(T) \cup {Absent}, Free(user, ":")
  PROVE  /\ UserInfo(user, password) \in Seq(T)
         /\ Credentials(UserInfo(user, password)) = [user |-> user, password |-> password]
         /\ user # <<>> => UserInfo(user, password) # <<>>
         /\ \A u : Free(user, u) /\ (password # Absent => Free(password, u)) /\ u # ":"
              => Free(UserInfo(user, password), u)
<1> DEFINE w == UserInfo(user, password)
<1>1. CASE password = Absent
  <2>1. w = user
    BY <1>1, ConcatEmptySeq DEF UserInfo
  <2>2. Find1(user, ":") = 0
    BY NotFound
  <2>3. Credentials(user) = [user |-> user, password |-> Absent]
    BY <2>2 DEF Credentials
  <2> HIDE DEF w
  <2> QED
    BY <1>1, <2>1, <2>3 DEF w
<1>2. CASE password # Absent
  <2>1. password \in Seq(T)
    BY <1>2
  <2>2. user \o (<<":">> \o password) = user \o <<":">> \o password
    <3> DEFINE one == <<":">>
    <3>1. one \in Seq(T)
      OBVIOUS
    <3> HIDE DEF one
    <3>2. (user \o one) \o password = user \o (one \o password)
      BY <2>1, <3>1, ConcatAssociative
    <3> QED
      BY <3>2, Zenon DEF one
  <2>3. w = Cut(user, ":", password)
    BY <1>2, <2>2 DEF UserInfo, Cut
  <2>4. IsCut(Cut(user, ":", password), user, ":", password, T)
    BY <2>1, CutIs
  <2>5. Find1(w, ":") = Len(user) + 1 /\ Before(w, Len(user) + 1) = user /\ Behind(w, Len(user) + 1) = password
    BY <2>1, <2>3, CutAt, CutParts
  <2>6. \A u : Free(user, u) /\ Free(password, u) /\ u # ":" => Free(w, u)
    BY <2>1, <2>3, FreeOfCut
  <2>7. w \in Seq(T) /\ Len(w) # 0
    <3>1. w \in Seq(T) /\ Len(w) = Len(user) + 1 + Len(password) /\ Len(user) \in Nat /\ Len(password) \in Nat
      BY <2>3, <2>4 DEF IsCut
    <3> HIDE DEF w
    <3> QED
      BY <3>1
  <2> HIDE DEF w
  <2>8. Credentials(w) = [user |-> user, password |-> password]
    <3>1. Len(user) + 1 # 0
      OBVIOUS
    <3> QED
      BY <2>5, <3>1 DEF Credentials
  <2>9. w # <<>>
    BY <2>7
  <2> QED
    BY <1>2, <2>6, <2>7, <2>8, <2>9 DEF w
<1> QED
  BY <1>1, <1>2

\* Host and port.
Endpoint(host, port) == Cut(host, ":", <<port>>)

LEMMA EndpointBack ==
  ASSUME NEW T, ":" \in T, NEW host \in Seq(T), NEW port \in T, port # ":"
  PROVE  /\ Endpoint(host, port) \in Seq(T) /\ Len(Endpoint(host, port)) = Len(host) + 2
         /\ \A default : HostAndPort(Endpoint(host, port), FindLast(Endpoint(host, port), ":"), default)
                           = [host |-> host, port |-> <<port>>]
         /\ Free(host, ":") =>
              \A default : HostAndPort(Endpoint(host, port), Find1(Endpoint(host, port), ":"), default)
                             = [host |-> host, port |-> <<port>>]
         /\ \A u : Free(host, u) /\ u # ":" /\ u # port => Free(Endpoint(host, port), u)
<1> DEFINE r == <<port>>
           w == Endpoint(host, port)
<1>1. r \in Seq(T) /\ Len(r) = 1 /\ r[1] = port /\ \A k \in 1 .. 1 : k = 1
  OBVIOUS
<1>2. \A u : u # port => Free(r, u)
  BY <1>1 DEF Free
<1>3. w = Cut(host, ":", r)
  BY DEF Endpoint
<1> HIDE DEF w, r
<1>4. IsCut(w, host, ":", r, T)
  BY <1>1, <1>3, CutIs
<1>5. w \in Seq(T) /\ Len(w) = Len(host) + 2
  <2>1. w \in Seq(T) /\ Len(w) = Len(host) + 1 + Len(r) /\ Len(host) \in Nat
    BY <1>4 DEF IsCut
  <2> QED
    BY <1>1, <2>1
<1>6. Before(w, Len(host) + 1) = host /\ Behind(w, Len(host) + 1) = r
  BY <1>1, <1>3, CutParts
<1>7. FindLast(w, ":") = Len(host) + 1 /\ (Free(host, ":") => Find1(w, ":") = Len(host) + 1)
  BY <1>1, <1>2, <1>3, CutAt
<1>8. \A default : HostAndPort(w, Len(host) + 1, default) = [host |-> host, port |-> r]
  <2>1. Len(host) + 1 # 0
    OBVIOUS
  <2> QED
    BY <1>6, <2>1 DEF HostAndPort
<1>9. \A u : Free(host, u) /\ u # ":" /\ u # port => Free(w, u)
  <2> SUFFICES ASSUME NEW u, Free(host, u), u # ":", u # port PROVE Free(w, u)
    OBVIOUS
  <2>1. Free(r, u)
    BY <1>2
  <2> QED
    BY <1>1, <1>3, <2>1, FreeOfCut
<1> QED
  BY <1>5, <1>7, <1>8, <1>9 DEF w, r

LEMMA EndpointText ==
  ASSUME NEW T, ":" \in T, NEW host \in Seq(T), NEW port \in T
  PROVE  host \o <<":", port>> = Endpoint(host, port)
<1> DEFINE colon == <<":">>
           last == <<port>>
           both == <<":", port>>
<1>1. colon \in Seq(T) /\ last \in Seq(T) /\ colon \o last = both
  <2>1. colon \in Seq(T) /\ last \in Seq(T)
    OBVIOUS
  <2>2. Len(colon) = 1 /\ Len(last) = 1 /\ colon[1] = ":" /\ last[1] = port
    OBVIOUS
  <2>3. both \in Seq(T) /\ Len(both) = 2 /\ both[1] = ":" /\ both[2] = port
    OBVIOUS
  <2> HIDE DEF colon, last, both
  <2>4. IsJoin(colon \o last, colon, last, T)
    BY <2>1, JoinIs
  <2> DEFINE w == colon \o last
  <2> HIDE DEF w
  <2>5. w \in Seq(T) /\ Len(w) = 2 /\ w[1] = ":" /\ w[2] = port
    <3>1. w \in Seq(T) /\ Len(w) = 1 + 1
      BY <2>2, <2>4 DEF IsJoin, w
    <3>2. 1 \in 1 .. 1 + 1 /\ 2 \in 1 .. 1 + 1 /\ 1 <= 1 /\ ~(2 <= 1) /\ 2 - 1 = 1
      OBVIOUS
    <3>3. w[1] = colon[1] /\ w[2] = last[1]
      BY <2>2, <2>4, <3>2 DEF IsJoin, w
    <3> QED
      BY <2>2, <3>1, <3>3
  <2>6. w = both
    BY <2>3, <2>5
  <2> QED
    BY <2>1, <2>6 DEF w
<1> HIDE DEF colon, last, both
<1>2. (host \o colon) \o last = host \o (colon \o last)
  <2>1. colon \in Seq(T) /\ last \in Seq(T)
    BY <1>1
  <2> QED
    BY <2>1, ConcatAssociative
<1>3. Endpoint(host, port) = (host \o colon) \o last
  BY Zenon DEF Endpoint, Cut, colon, last
<1> QED
  BY <1>1, <1>2, <1>3, Zenon DEF both

\* The rest of an address with a user, and of one without.
LEMMA RestOf ==
  ASSUME NEW T, ":" \in T, "@" \in T, NEW front \in Seq(T), NEW host \in Seq(T), NEW port \in T
  PROVE  /\ front \o <<"@">> \o host \o <<":", port>> = Cut(front, "@", Endpoint(host, port))
         /\ <<>> \o host \o <<":", port>> = Endpoint(host, port)
<1> DEFINE at == front \o <<"@">>
           tail == <<":", port>>
           e == Endpoint(host, port)
<1>1. at \in Seq(T) /\ tail \in Seq(T)
  OBVIOUS
<1>2. host \o tail = e
  BY EndpointText
<1>3. <<>> \o host = host
  BY ConcatEmptySeq
<1>4. Cut(front, "@", e) = at \o e
  BY Zenon DEF Cut
<1>5. (at \o host) \o tail = at \o (host \o tail)
  <2> HIDE DEF at, tail
  <2> QED
    BY <1>1, ConcatAssociative
<1> QED
  BY <1>2, <1>3, <1>4, <1>5, Zenon DEF at, tail

LEMMA CutWhole ==
  ASSUME NEW T, NEW w \in Seq(T)
  PROVE  Behind(w, 0) = w
<1> DEFINE n == Len(w)
<1>1. n \in Nat /\ w = [k \in 1 .. n |-> w[k]]
  OBVIOUS
<1>2. Behind(w, 0) = SubSeq(w, 1, n)
  <2>1. 0 + 1 = 1
    OBVIOUS
  <2> QED
    BY <2>1, Zenon DEF Behind, From, n
<1> HIDE DEF n
<1>3. SubSeq(w, 1, n) = [k \in 1 .. (n - 1 + 1) |-> w[1 + k - 1]]
  BY <1>1, SubSeqIs DEF n
<1>4. n - 1 + 1 = n /\ \A k \in 1 .. n : w[1 + k - 1] = w[k]
  BY <1>1
<1> QED
  BY <1>1, <1>2, <1>3, <1>4

\* What an address with these parts is read as.
LEMMA AddressOf ==
  ASSUME NEW scheme, NEW credentials, NEW host, NEW port \in Ports, NEW path, host # <<>>
  PROVE  Address(scheme, credentials, [host |-> host, port |-> <<port>>], path)
           = [scheme |-> scheme, user |-> credentials.user, password |-> credentials.password,
              host |-> host, port |-> port, path |-> path]
<1> DEFINE last == <<port>>
           endpoint == [host |-> host, port |-> last]
<1>1. Len(last) = 1 /\ last[1] = port
  OBVIOUS
<1>2. endpoint.host = host /\ endpoint.port = last
  OBVIOUS
<1> HIDE DEF last, endpoint
<1>3. IsPort(endpoint.port) /\ endpoint.port[1] = port
  BY <1>1, <1>2 DEF IsPort
<1>4. Address(scheme, credentials, endpoint, path)
        = [scheme |-> scheme, user |-> credentials.user, password |-> credentials.password,
           host |-> host, port |-> port, path |-> path]
  BY <1>2, <1>3 DEF Address
<1> QED
  BY <1>4 DEF endpoint, last

\* The addresses an administrator may write for a proxy: the user name has no
\* ":", and the host no "@".
ProxyText(a, T) ==
  /\ a \in [scheme : {"http", "https", "socks5"}, user : Seq(T) \cup {Absent},
            password : Seq(T) \cup {Absent}, host : Seq(T), port : Ports, path : {<<>>}]
  /\ a.user = Absent => a.password = Absent
  /\ a.user # Absent => Free(a.user, ":")
  /\ a.host # <<>> /\ Free(a.host, "@")
  /\ a.port \notin {":", "@"}

\* The address of an upstream proxy is read as it is written, whatever
\* separators the password contains (config.rs:130).
THEOREM ProxyAlwaysReadBack ==
  ASSUME NEW T, Ports \subseteq T, ":" \in T, "@" \in T, NEW a, ProxyText(a, T)
  PROVE  ParseProxy(Written(a)) = a
<1> DEFINE user == a.user
           password == a.password
           host == a.host
           port == a.port
           text == Written(a)
           e == Endpoint(host, port)
           front == UserInfo(user, password)
           lead == IF user = Absent THEN <<>>
                   ELSE user \o (IF password = Absent THEN <<>> ELSE <<":">> \o password) \o <<"@">>
<1>1. /\ host \in Seq(T) /\ port \in Ports /\ port \in T /\ user \in Seq(T) \cup {Absent} /\ password \in Seq(T) \cup {Absent}
      /\ a.scheme \in {"http", "https", "socks5"} /\ a.path = <<>>
      /\ a = [scheme |-> a.scheme, user |-> user, password |-> password, host |-> host, port |-> port, path |-> <<>>]
  BY DEF ProxyText
<1>2. /\ user = Absent => password = Absent
      /\ user # Absent => Free(user, ":")
      /\ host # <<>> /\ Free(host, "@") /\ port # ":" /\ port # "@"
  BY DEF ProxyText
<1>3. /\ text.scheme = a.scheme
      /\ text.rest = lead \o host \o <<":", port>> \o <<>>
  <2>1. a.path = <<>>
    BY <1>1
  <2>2. text.rest = lead \o host \o <<":", port>> \o a.path
    BY DEF Written
  <2> QED
    BY <2>1, <2>2, Zenon DEF Written
<1>4. e \in Seq(T) /\ Free(e, "@")
      /\ \A default : HostAndPort(e, FindLast(e, ":"), default) = [host |-> host, port |-> <<port>>]
  BY <1>1, <1>2, EndpointBack
<1> HIDE DEF text, e, user, password, host, port
<1>5. ASSUME NEW credentials, credentials.user = user, credentials.password = password,
             NEW at, at = FindLast(text.rest, "@"), Behind(text.rest, at) = e,
             credentials = IF at = 0 THEN Nobody ELSE Credentials(Before(text.rest, at))
      PROVE  ParseProxy(text) = a
  <2>1. ParseProxy(text) = Address(text.scheme, credentials, HostAndPort(e, FindLast(e, ":"), PortOf["proxy"]), <<>>)
    BY <1>1, <1>3, <1>5 DEF ParseProxy
  <2>2. ParseProxy(text) = Address(a.scheme, credentials, [host |-> host, port |-> <<port>>], <<>>)
    BY <1>3, <1>4, <2>1, Zenon
  <2>3. Address(a.scheme, credentials, [host |-> host, port |-> <<port>>], <<>>)
          = [scheme |-> a.scheme, user |-> credentials.user, password |-> credentials.password,
             host |-> host, port |-> port, path |-> <<>>]
    BY <1>1, <1>2, AddressOf
  <2> QED
    BY <1>1, <1>5, <2>2, <2>3, Zenon
<1>6. CASE user = Absent
  <2>1. text.rest = e
    <3>4. lead = <<>>
      BY <1>6
    <3> HIDE DEF lead
    <3>1. text.rest = <<>> \o host \o <<":", port>> \o <<>>
      BY <1>3, <3>4, Zenon
    <3>2. <<>> \o host \o <<":", port>> = e
      BY <1>1, RestOf DEF e
    <3>3. e \o <<>> = e
      BY <1>4, ConcatEmptySeq
    <3> QED
      BY <3>1, <3>2, <3>3, Zenon
  <2>2. FindLast(text.rest, "@") = 0 /\ Behind(text.rest, 0) = e
    BY <1>4, <2>1, NotFound, CutWhole
  <2>3. Nobody.user = user /\ Nobody.password = password
    BY <1>2, <1>6 DEF Nobody
  <2> QED
    <3>1. ParseProxy(text) = a
      <4>1. Nobody = IF FindLast(text.rest, "@") = 0 THEN Nobody ELSE Credentials(Before(text.rest, FindLast(text.rest, "@")))
        BY <2>2
      <4> DEFINE at == FindLast(text.rest, "@")
                 nobody == Nobody
      <4>2. at = 0 /\ Behind(text.rest, at) = e
        BY <2>2
      <4> HIDE DEF nobody
      <4>3. nobody = IF at = 0 THEN Nobody ELSE Credentials(Before(text.rest, at))
        BY <4>1 DEF nobody
      <4>4. nobody.user = user /\ nobody.password = password
        BY <2>3 DEF nobody
      <4> HIDE DEF at
      <4>5. at = FindLast(text.rest, "@")
        BY DEF at
      <4> QED
        BY <1>5, <4>2, <4>3, <4>4, <4>5
    <3> QED
      BY <3>1 DEF text
<1>7. CASE user # Absent
  <2>1. user \in Seq(T) /\ Free(user, ":")
    BY <1>1, <1>2, <1>7
  <2>2. front \in Seq(T) /\ Credentials(front) = [user |-> user, password |-> password]
    BY <1>1, <2>1, CredentialsBack
  <2>3. front = user \o (IF password = Absent THEN <<>> ELSE <<":">> \o password)
    BY DEF UserInfo
  <2> HIDE DEF front
  <2>4. text.rest = Cut(front, "@", e)
    <3>4. lead = front \o <<"@">>
      BY <1>7, <2>3, Zenon
    <3> HIDE DEF lead
    <3>1. text.rest = front \o <<"@">> \o host \o <<":", port>> \o <<>>
      BY <1>3, <3>4, Zenon
    <3>2. front \o <<"@">> \o host \o <<":", port>> = Cut(front, "@", e)
      BY <1>1, <2>2, RestOf DEF e
    <3>3. Cut(front, "@", e) \o <<>> = Cut(front, "@", e)
      <4>1. Cut(front, "@", e) \in Seq(T)
        BY <1>4, <2>2, CutIs DEF IsCut
      <4> QED
        BY <4>1, ConcatEmptySeq
    <3> QED
      BY <3>1, <3>2, <3>3, Zenon
  <2> DEFINE at == Len(front) + 1
             credentials == Credentials(front)
  <2>5. at = FindLast(text.rest, "@")
    BY <1>4, <2>2, <2>4, CutAt
  <2>6. Before(text.rest, at) = front /\ Behind(text.rest, at) = e
    BY <1>4, <2>2, <2>4, CutParts
  <2>7. at # 0
    BY <2>2
  <2>8. credentials.user = user /\ credentials.password = password
    BY <2>2
  <2> HIDE DEF at
  <2>9. credentials = IF at = 0 THEN Nobody ELSE Credentials(Before(text.rest, at))
    BY <2>6, <2>7
  <2> HIDE DEF credentials
  <2> QED
    <3>1. ParseProxy(text) = a
      BY <1>5, <2>5, <2>6, <2>8, <2>9
    <3> QED
      BY <3>1 DEF text
<1> QED
  BY <1>6, <1>7 DEF text

\* A cut with a cut behind it.
LEMMA CutOfCut ==
  ASSUME NEW T, NEW t \in T, NEW u \in T, NEW s \in Seq(T), NEW r \in Seq(T), NEW q \in Seq(T)
  PROVE  Cut(Cut(s, t, r), u, q) = Cut(s, t, Cut(r, u, q))
<1> DEFINE one == <<t>>
           two == <<u>>
<1>1. one \in Seq(T) /\ two \in Seq(T)
  OBVIOUS
<1>2. \A x, y : Cut(x, t, y) = (x \o one) \o y
  BY DEF Cut
<1>3. \A x, y : Cut(x, u, y) = (x \o two) \o y
  BY DEF Cut
<1> HIDE DEF one, two
<1> DEFINE p == s \o one
<1>4. p \in Seq(T)
  BY <1>1, JoinIs DEF IsJoin
<1> HIDE DEF p
<1>5. (p \o r) \o two = p \o (r \o two)
  <2>1. two \in Seq(T)
    BY <1>1
  <2> QED
    BY <1>4, <2>1, ConcatAssociative, SMTT(30)
<1> DEFINE rest == r \o two
<1>6. rest \in Seq(T)
  BY <1>1, JoinIs DEF IsJoin
<1> HIDE DEF rest
<1>7. (p \o rest) \o q = p \o (rest \o q)
  BY <1>4, <1>6, ConcatAssociative
<1>8. Cut(Cut(s, t, r), u, q) = ((p \o r) \o two) \o q
  BY <1>2, <1>3, Zenon DEF p
<1>9. Cut(s, t, Cut(r, u, q)) = p \o (rest \o q)
  BY <1>2, <1>3, Zenon DEF p, rest
<1> QED
  BY <1>5, <1>7, <1>8, <1>9, Zenon DEF rest

\* A text behind another, written with the token that separates them.
LEMMA BehindToken ==
  ASSUME NEW T, NEW t \in T, NEW s \in Seq(T), NEW r \in Seq(T)
  PROVE  /\ s \o (<<t>> \o r) = Cut(s, t, r)
         /\ From(Cut(s, t, r), Len(s) + 1) = <<t>> \o r
<1> DEFINE one == <<t>>
           w == Cut(s, t, r)
           q == one \o r
           l == Len(s)
           m == Len(r)
<1>1. one \in Seq(T) /\ Len(one) = 1 /\ one[1] = t /\ l \in Nat /\ m \in Nat
  OBVIOUS
<1>2. w = (s \o one) \o r
  BY DEF Cut
<1>3. IsCut(w, s, t, r, T)
  BY CutIs
<1> HIDE DEF one, w
<1>4. s \o q = w
  <2>1. one \in Seq(T)
    BY <1>1
  <2>2. (s \o one) \o r = s \o (one \o r)
    BY <2>1, ConcatAssociative
  <2> QED
    BY <1>2, <2>2, Zenon DEF q
<1>5. IsJoin(q, one, r, T)
  BY <1>1, JoinIs
<1> HIDE DEF q
<1>6. /\ w \in Seq(T) /\ Len(w) = l + 1 + m
      /\ w[l + 1] = t
      /\ \A k \in 1 .. m : w[l + 1 + k] = r[k]
  BY <1>3 DEF IsCut
<1>7. q \in Seq(T) /\ Len(q) = 1 + m /\ \A k \in 1 .. 1 + m : q[k] = IF k <= 1 THEN one[k] ELSE r[k - 1]
  BY <1>1, <1>5 DEF IsJoin
<1>8. q = [k \in 1 .. 1 + m |-> q[k]]
  BY <1>7
<1> HIDE DEF l, m
<1>9. \A k \in 1 .. 1 + m : w[l + 1 + k - 1] = q[k]
  <2> SUFFICES ASSUME NEW k \in 1 .. 1 + m PROVE w[l + 1 + k - 1] = q[k]
    OBVIOUS
  <2>1. CASE k = 1
    <3>1. l + 1 + k - 1 = l + 1 /\ k <= 1
      BY <1>1, <2>1
    <3> QED
      BY <1>1, <1>6, <1>7, <2>1, <3>1
  <2>2. CASE k # 1
    <3> DEFINE j == k - 1
    <3>1. j \in 1 .. m /\ l + 1 + k - 1 = l + 1 + j /\ ~(k <= 1)
      BY <1>1, <2>2
    <3>2. q[k] = r[j]
      BY <1>7, <3>1
    <3> HIDE DEF j
    <3> QED
      BY <1>6, <3>1, <3>2
  <2> QED
    BY <2>1, <2>2
<1>10. From(w, l + 1) = q
  <2> DEFINE from == l + 1
             n == Len(w)
  <2>1. from \in Nat \ {0} /\ n \in Nat /\ n <= Len(w) /\ n - from + 1 = 1 + m
    BY <1>1, <1>6
  <2>2. SubSeq(w, from, n) = [k \in 1 .. (n - from + 1) |-> w[from + k - 1]]
    BY <1>6, <2>1, SubSeqIs
  <2>3. \A k \in 1 .. 1 + m : w[from + k - 1] = q[k]
    BY <1>9
  <2>4. From(w, from) = SubSeq(w, from, n)
    BY DEF From
  <2> HIDE DEF from, n
  <2>5. From(w, from) = q
    BY <1>8, <2>1, <2>2, <2>3, <2>4
  <2> QED
    BY <2>5 DEF from
<1> QED
  BY <1>4, <1>10, Zenon DEF q, one, w, l

\* The FTP URLs that say what is meant: no separator is part of a name.
FtpText(a, T) ==
  /\ a \in [scheme : {"ftp", "ftps"}, user : Seq(T) \cup {Absent},
            password : Seq(T) \cup {Absent}, host : Seq(T), port : Ports,
            path : {<<Slash>> \o tail : tail \in Seq(T)}]
  /\ a.user = Absent => a.password = Absent
  /\ a.user # Absent => a.user # <<>> /\ Free(a.user, ":") /\ Free(a.user, Slash)
  /\ a.password # Absent => Free(a.password, Slash)
  /\ a.host # <<>> /\ Free(a.host, ":") /\ Free(a.host, "@") /\ Free(a.host, Slash)
  /\ a.port \notin {":", "@", Slash}

\* The server, the credentials and the path of an FTP URL are those it is
\* written with, as long as user and password have no "/" (a "@" or a ":" of
\* the password is no harm), and the path is normalized (ftp.rs:24).
THEOREM FtpUrlAlwaysReadBack ==
  ASSUME NEW T, Ports \subseteq T, ":" \in T, "@" \in T, Slash \in T, NEW a, FtpText(a, T)
  PROVE  ParseFtpUrl(Written(a)) = [a EXCEPT !.path = NormalizePath(a.path)]
<1> DEFINE user == a.user
           password == a.password
           host == a.host
           port == a.port
           path == a.path
           text == Written(a)
           e == Endpoint(host, port)
           front == UserInfo(user, password)
           lead == IF user = Absent THEN <<>>
                   ELSE user \o (IF password = Absent THEN <<>> ELSE <<":">> \o password) \o <<"@">>
           result == [a EXCEPT !.path = NormalizePath(a.path)]
<1>1. /\ host \in Seq(T) /\ port \in Ports /\ port \in T /\ user \in Seq(T) \cup {Absent} /\ password \in Seq(T) \cup {Absent}
      /\ a.scheme \in {"ftp", "ftps"}
      /\ a = [scheme |-> a.scheme, user |-> user, password |-> password, host |-> host, port |-> port, path |-> path]
  BY DEF FtpText
<1>2. /\ user = Absent => password = Absent
      /\ user # Absent => user # <<>> /\ Free(user, ":") /\ Free(user, Slash)
      /\ password # Absent => Free(password, Slash)
      /\ host # <<>> /\ Free(host, ":") /\ Free(host, "@") /\ Free(host, Slash)
      /\ port # ":" /\ port # "@" /\ port # Slash
  BY DEF FtpText
<1>3. text.scheme = a.scheme /\ text.rest = lead \o host \o <<":", port>> \o path
  BY DEF Written
<1>4. PICK tail \in Seq(T) : path = <<Slash>> \o tail
  BY DEF FtpText
<1>5. e \in Seq(T) /\ Free(e, "@") /\ Free(e, Slash)
      /\ \A default : HostAndPort(e, Find1(e, ":"), default) = [host |-> host, port |-> <<port>>]
  <2>1. Slash # ":" /\ "@" # ":"
    BY DEF Slash
  <2> HIDE DEF user, password, host, port
  <2>2. /\ Endpoint(host, port) \in Seq(T)
        /\ \A default : HostAndPort(Endpoint(host, port), Find1(Endpoint(host, port), ":"), default)
                          = [host |-> host, port |-> <<port>>]
        /\ \A u : Free(host, u) /\ u # ":" /\ u # port => Free(Endpoint(host, port), u)
    BY <1>1, <1>2, EndpointBack
  <2> QED
    BY <1>2, <2>1, <2>2
<1>6. result = [scheme |-> a.scheme, user |-> user, password |-> password, host |-> host, port |-> port,
                path |-> NormalizePath(path)]
  BY <1>1
<1> HIDE DEF text, e, user, password, host, port, path, result
<1> DEFINE behind == Cut(e, Slash, tail)
<1>7. /\ Find1(behind, Slash) = Len(e) + 1 /\ Before(behind, Len(e) + 1) = e
      /\ From(behind, Len(e) + 1) = path /\ behind \in Seq(T) /\ Len(e) + 1 # 0
  <2>1. Find1(behind, Slash) = Len(e) + 1
    BY <1>5, CutAt
  <2>2. Before(behind, Len(e) + 1) = e
    BY <1>5, CutParts
  <2>3. From(behind, Len(e) + 1) = path
    BY <1>4, <1>5, BehindToken
  <2>4. behind \in Seq(T)
    BY <1>5, CutIs DEF IsCut
  <2>5. Len(e) + 1 # 0
    BY <1>5
  <2> QED
    BY <2>1, <2>2, <2>3, <2>4, <2>5
<1>8. \A w \in Seq(T) : w \o path = Cut(w, Slash, tail)
  BY <1>4, BehindToken
<1> HIDE DEF behind
<1>9. ASSUME NEW credentials, credentials.user = user, credentials.password = password,
             NEW slash, slash = Find1(text.rest, Slash), slash # 0,
             NEW at, at = FindLast(Before(text.rest, slash), "@"), Behind(text.rest, at) = behind,
             credentials = IF at <= 1 THEN Nobody ELSE Credentials(Before(text.rest, at))
      PROVE  ParseFtpUrl(text) = result
  <2> DEFINE default == PortOf[text.scheme]
             root == Find1(behind, Slash)
  <2>1. root # 0 /\ Before(behind, root) = e /\ From(behind, root) = path
    BY <1>7
  <2>2. ParseFtpUrl(text) = Address(text.scheme, credentials, HostAndPort(e, Find1(e, ":"), default),
                                    NormalizePath(path))
    BY <1>1, <1>3, <1>9, <2>1 DEF ParseFtpUrl
  <2> HIDE DEF default
  <2>3. ParseFtpUrl(text) = Address(a.scheme, credentials, [host |-> host, port |-> <<port>>], NormalizePath(path))
    BY <1>3, <1>5, <2>2, Zenon
  <2>4. Address(a.scheme, credentials, [host |-> host, port |-> <<port>>], NormalizePath(path))
          = [scheme |-> a.scheme, user |-> credentials.user, password |-> credentials.password,
             host |-> host, port |-> port, path |-> NormalizePath(path)]
    BY <1>1, <1>2, AddressOf
  <2> QED
    BY <1>6, <1>9, <2>3, <2>4, Zenon
<1>10. CASE user = Absent
  <2>1. text.rest = behind
    <3>1. lead = <<>>
      BY <1>10
    <3> HIDE DEF lead
    <3>2. text.rest = <<>> \o host \o <<":", port>> \o path
      BY <1>3, <3>1, Zenon
    <3>3. <<>> \o host \o <<":", port>> = e
      BY <1>1, RestOf DEF e
    <3>4. e \o path = behind
      BY <1>5, <1>8 DEF behind
    <3> QED
      BY <3>2, <3>3, <3>4, Zenon
  <2> DEFINE slash == Find1(text.rest, Slash)
             nobody == Nobody
  <2>2. slash # 0 /\ Before(text.rest, slash) = e
    BY <1>7, <2>1
  <2>3. 0 = FindLast(Before(text.rest, slash), "@")
    BY <1>5, <2>2, NotFound
  <2>4. Behind(text.rest, 0) = behind
    BY <1>7, <2>1, CutWhole
  <2>5. nobody.user = user /\ nobody.password = password
    BY <1>2, <1>10 DEF Nobody
  <2> DEFINE at == FindLast(Before(text.rest, slash), "@")
  <2>6. nobody = IF at <= 1 THEN Nobody ELSE Credentials(Before(text.rest, at))
    BY <2>3
  <2>7. Behind(text.rest, at) = behind
    BY <2>3, <2>4
  <2>8. slash = Find1(text.rest, Slash) /\ at = FindLast(Before(text.rest, slash), "@")
    OBVIOUS
  <2> HIDE DEF slash, nobody, at
  <2>9. ParseFtpUrl(text) = result
    BY <1>9, <2>2, <2>5, <2>6, <2>7, <2>8
  <2> QED
    BY <2>9 DEF text, result
<1>11. CASE user # Absent
  <2>1. user \in Seq(T) /\ Free(user, ":") /\ Free(user, Slash) /\ user # <<>>
    BY <1>1, <1>2, <1>11
  <2>2. /\ front \in Seq(T) /\ Credentials(front) = [user |-> user, password |-> password]
        /\ front # <<>> /\ Free(front, Slash)
    <3>1. Slash # ":"
      BY DEF Slash
    <3> QED
      BY <1>1, <1>2, <2>1, <3>1, CredentialsBack
  <2>3. front = user \o (IF password = Absent THEN <<>> ELSE <<":">> \o password)
    BY DEF UserInfo
  <2> HIDE DEF front
  <2> DEFINE head == Cut(front, "@", e)
  <2>4. head \in Seq(T) /\ Free(head, Slash)
    <3>1. head \in Seq(T)
      BY <1>5, <2>2, CutIs DEF IsCut
    <3>2. "@" # Slash
      BY DEF Slash
    <3>3. Free(head, Slash)
      BY <1>5, <2>2, <3>2, FreeOfCut
    <3> QED
      BY <3>1, <3>3
  <2>5. text.rest = Cut(head, Slash, tail)
    <3>1. lead = front \o <<"@">>
      BY <1>11, <2>3, Zenon
    <3> HIDE DEF lead
    <3>2. text.rest = front \o <<"@">> \o host \o <<":", port>> \o path
      BY <1>3, <3>1, Zenon
    <3>3. front \o <<"@">> \o host \o <<":", port>> = head
      BY <1>1, <2>2, RestOf DEF e
    <3> HIDE DEF head
    <3>4. head \o path = Cut(head, Slash, tail)
      BY <1>8, <2>4
    <3> QED
      BY <3>2, <3>3, <3>4, Zenon
  <2>6. text.rest = Cut(front, "@", behind)
    BY <1>5, <2>2, <2>5, CutOfCut DEF behind
  <2> DEFINE slash == Len(head) + 1
             at == Len(front) + 1
             credentials == Credentials(front)
  <2>7. slash = Find1(text.rest, Slash) /\ Before(text.rest, slash) = head /\ slash # 0
    <3> HIDE DEF head
    <3>1. slash = Find1(text.rest, Slash)
      BY <2>4, <2>5, CutAt
    <3>2. Before(text.rest, slash) = head
      BY <2>4, <2>5, CutParts
    <3>3. slash # 0
      BY <2>4
    <3> QED
      BY <3>1, <3>2, <3>3
  <2> HIDE DEF slash
  <2>8. at = FindLast(Before(text.rest, slash), "@")
    <3>1. FindLast(head, "@") = at
      BY <1>5, <2>2, CutAt
    <3> QED
      BY <2>7, <3>1
  <2>9. Before(text.rest, at) = front /\ Behind(text.rest, at) = behind
    BY <1>7, <2>2, <2>6, CutParts
  <2>10. ~(at <= 1)
    <3>1. Len(front) \in Nat /\ Len(front) # 0
      BY <2>2
    <3> QED
      BY <3>1
  <2>11. credentials.user = user /\ credentials.password = password
    BY <2>2
  <2> HIDE DEF at
  <2>12. credentials = IF at <= 1 THEN Nobody ELSE Credentials(Before(text.rest, at))
    BY <2>9, <2>10
  <2> HIDE DEF credentials
  <2>13. ParseFtpUrl(text) = result
    BY <1>9, <2>7, <2>8, <2>9, <2>11, <2>12
  <2> QED
    BY <2>13 DEF text, result
<1> QED
  BY <1>10, <1>11

=============================================================================
