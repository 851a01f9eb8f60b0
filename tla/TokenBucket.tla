----------------------------- MODULE TokenBucket -----------------------------
(***************************************************************************)
(* The token bucket of src/rate_limit.rs, one atomic operation per action. *)
(* Nothing refills the bucket but its users: each call of try_consume and  *)
(* available first moves the date of the last refill to its own date by a  *)
(* compare-and-swap and then adds what the time in between is worth.       *)
(*                                                                         *)
(* Time is relative: since is the time that passed after the last refill,  *)
(* as far as it makes a difference.  The clock does not go back.           *)
(***************************************************************************)
EXTENDS Integers, FiniteSets, FiniteSetsExt

CONSTANTS
  Users,      \* those who call the bucket
  PerSecond,  \* the nanoseconds of a second, in coarser ticks
  Bandwidth,  \* the configured rate, which is the capacity as well
  MaxCallers  \* bound on the calls at once

ASSUME BucketAssumption ==
  /\ IsFiniteSet(Users)
  /\ PerSecond \in Nat \ {0}
  /\ Bandwidth \in Nat \ {0}
  /\ MaxCallers \in Nat

VARIABLES
  tokens,
  since,   \* time since last_refill_nanos, full when it is worth the capacity
  call,    \* where the call of each user is
  credit   \* history: what may be taken by now, in ticks, up to Ceiling

bucketVars == <<tokens, since, call, credit>>

MaxTokens == Bandwidth

\* refill_rate_nanos: the ticks a token takes.  0 means no refill.
Period == PerSecond \div Bandwidth

Full == MaxTokens * Period

\* More than the bucket, the grants of MaxCallers and since come to.
Ceiling == (MaxCallers + 2) * Full

AtMost(n, limit) == IF n < limit THEN n ELSE limit

(* looking: has not read the dates   dating: before the compare-and-swap of *)
(* the date   granting: before its tokens are added   taking: refill is    *)
(* done.  elapsed: what it computed; lag: time since it read the clock;    *)
(* grant: the tokens to add; current: the date is the one it read.         *)
Call == [at : {"none", "looking", "dating", "granting", "taking"},
         elapsed : 0 .. Full, lag : 0 .. Full, grant : 0 .. MaxTokens,
         current : BOOLEAN]

BucketTypeOK ==
  /\ tokens \in 0 .. MaxTokens
  /\ since \in 0 .. Full
  /\ call \in [Users -> Call]
  /\ credit \in Int

Stage(at, elapsed, grant, current) ==
  [at |-> at, elapsed |-> elapsed, lag |-> 0, grant |-> grant, current |-> current]

NoCall == Stage("none", 0, 0, FALSE)
AtTaking == Stage("taking", 0, 0, FALSE)

BucketInit ==
  /\ tokens = MaxTokens
  /\ since = 0
  /\ call = [u \in Users |-> NoCall]
  /\ credit = Full

-----------------------------------------------------------------------------
(* The calls.  Begun(u) and Answered(u) are the values of call as a call   *)
(* of u begins and ends; what it takes is up to the caller.                *)

Begun(u) ==
  [call EXCEPT ![u] = IF Period = 0 THEN AtTaking ELSE Stage("looking", 0, 0, FALSE)]

Answered(u) == [call EXCEPT ![u] = NoCall]

\* refill reads the clock and the date, and returns if no time has passed.
Look(u) ==
  /\ call[u].at = "looking"
  /\ call' = [call EXCEPT ![u] =
       IF since = 0 THEN AtTaking
       ELSE Stage("dating", since, 0, TRUE)]
  /\ UNCHANGED <<tokens, since, credit>>

\* The tokens a time is worth; what is left of the division is lost.
Worth(time) == AtMost(time \div Period, MaxTokens)

Granted(u) ==
  LET grant == Worth(call[u].elapsed) IN
  IF grant = 0 THEN AtTaking ELSE Stage("granting", 0, grant, FALSE)

\* Mutant: the date is stored without a look at who stored one meanwhile.
DateBlindly(u) ==
  /\ call[u].at = "dating"
  /\ since' = call[u].lag
  /\ call' = [call EXCEPT ![u] = Granted(u)]
  /\ UNCHANGED <<tokens, credit>>

(* The compare-and-swap of the date: one of those who read it wins, and    *)
(* the others go on without a refill.                                      *)
Date(u) ==
  /\ call[u].at = "dating"
  /\ IF call[u].current
     THEN /\ since' = call[u].lag
          /\ call' = [v \in Users |-> IF v = u THEN Granted(u)
                                      ELSE [call[v] EXCEPT !.current = FALSE]]
     ELSE /\ call' = [call EXCEPT ![u] = AtTaking]
          /\ UNCHANGED since
  /\ UNCHANGED <<tokens, credit>>

\* Mutant: the tokens are added without the cap.
GrantUncapped(u) ==
  /\ call[u].at = "granting"
  /\ tokens' = tokens + call[u].grant
  /\ call' = [call EXCEPT ![u] = AtTaking]
  /\ UNCHANGED <<since, credit>>

Grant(u) ==
  /\ call[u].at = "granting"
  /\ tokens' = AtMost(tokens + call[u].grant, MaxTokens)
  /\ call' = [call EXCEPT ![u] = AtTaking]
  /\ UNCHANGED <<since, credit>>

\* The end of try_consume: both ways out of its loop.
Taken(n) ==
  /\ tokens >= n
  /\ tokens' = tokens - n
  /\ credit' = credit - n * Period
  /\ UNCHANGED since

Refused(n) ==
  /\ tokens < n
  /\ UNCHANGED <<tokens, since, credit>>

\* available, then the time until amount tokens are there.
WaitTime(amount) == IF tokens >= amount THEN 0 ELSE (amount - tokens) * Period

\* A tick of time passes, for those who read the clock before it too.
Pass ==
  /\ since' = AtMost(since + 1, Full)
  /\ call' = [u \in Users |-> IF call[u].at = "dating"
                              THEN [call[u] EXCEPT !.lag = AtMost(@ + 1, Full)] ELSE call[u]]
  /\ credit' = AtMost(credit + 1, Ceiling)
  /\ UNCHANGED tokens

Refilling(u) == Look(u) \/ Date(u) \/ Grant(u)

-----------------------------------------------------------------------------
\* Tokens that are granted and not added yet, each with the call it is of.
GrantedTokens == UNION {{u} \X (1 .. call[u].grant) : u \in Users}

InFlight == Cardinality(GrantedTokens)

(* Never is more taken than the capacity and what the time since the       *)
(* bucket was made is worth, although dates, grants and takes of several   *)
(* calls interleave: what is left, what is granted and what was not        *)
(* granted yet never exceed the rest of it (refill and try_consume).       *)
RateKept == Period * (tokens + InFlight) + since <= credit

=============================================================================
