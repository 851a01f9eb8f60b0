------------------------------ MODULE Freshness ------------------------------
(***************************************************************************)
(* How long a cached file may be served: is_fresh and time_until_expiry of *)
(* src/cache.rs, two functions that decide the same thing apart from each  *)
(* other, one in the server and one for blitzctl.  Of the headers of a row *)
(* they read its lifetime.                                                 *)
(***************************************************************************)
EXTENDS Integers

CONSTANT Wrap  \* the u64 values from here on are negative as i64 (2^63)

ASSUME FreshnessAssumption == Wrap \in Nat \ {0}

(* What Cache-Control and Expires say: not to be served without asking     *)
(* (no-cache, no-store), max-age, a date, or nothing that can be read.     *)
Lifetime ==
  [kind : {"never", "unsaid"}] \cup [kind : {"age"}, secs : 0 .. 2 * Wrap - 1]
                               \cup [kind : {"until"}, date : Nat]

\* u64 as i64
Signed(n) == IF n < Wrap THEN n ELSE n - 2 * Wrap

\* i64::saturating_add
Saturating(n) == IF n < Wrap THEN n ELSE Wrap - 1

(* cached_at may be 0 in a row of an old schema, and a clock that went     *)
(* back makes a row stale rather than fresh for ever.                      *)
Dated(cachedAt, now) == cachedAt > 0 /\ now >= cachedAt

\* Mutant: the second at which the lifetime ends still counts.
IsFreshToTheEnd(life, cachedAt, now, maxAge) ==
  /\ Dated(cachedAt, now)
  /\ \/ life.kind = "age" /\ now - cachedAt <= Signed(life.secs)
     \/ life.kind = "until" /\ now < life.date
     \/ life.kind = "unsaid" /\ maxAge > 0 /\ now - cachedAt <= Signed(maxAge)

\* is_fresh
IsFresh(life, cachedAt, now, maxAge) ==
  /\ Dated(cachedAt, now)
  /\ \/ life.kind = "age" /\ now - cachedAt < Signed(life.secs)
     \/ life.kind = "until" /\ now < life.date
     \/ life.kind = "unsaid" /\ maxAge > 0 /\ now - cachedAt < Signed(maxAge)

AtLeastZero(n) == IF n > 0 THEN n ELSE 0

(* time_until_expiry: the seconds left.  Its None, which the callers treat *)
(* like 0, is 0 here.                                                      *)
TimeLeft(life, cachedAt, now, maxAge) ==
  IF ~Dated(cachedAt, now) THEN 0
  ELSE CASE life.kind = "age" -> AtLeastZero(Saturating(cachedAt + Signed(life.secs)) - now)
         [] life.kind = "until" -> AtLeastZero(life.date - now)
         [] life.kind = "unsaid" /\ maxAge > 0 ->
              AtLeastZero(Saturating(cachedAt + Signed(maxAge)) - now)
         [] OTHER -> 0

=============================================================================
