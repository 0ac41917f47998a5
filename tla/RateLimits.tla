----------------------------- MODULE RateLimits -----------------------------
(***************************************************************************)
(* The sliding window rate limit of the HTTP routes, for one key: the Lua  *)
(* script that apps/server/src/rate-limit.ts and apps/web/src/lib/         *)
(* rate-limit.ts both run in Redis, which executes it at once.             *)
(*                                                                         *)
(* Time is in ticks; a second has TicksPerSecond of them (1000).  Callers  *)
(* read the clock before they call Redis, so calls come out of order.      *)
(***************************************************************************)
EXTENDS Integers, FiniteSets

CONSTANTS
  Window,          \* windowMs, in ticks
  Limit,           \* max
  TicksPerSecond,
  Draws,           \* what math.random may give (one value: Redis seeds it alike each time)
  MaxTime          \* bound: ticks

ASSUME RateAssumption ==
  /\ Window \in Nat \ {0} /\ Limit \in Nat \ {0} /\ TicksPerSecond \in Nat \ {0}
  /\ Draws # {} /\ MaxTime \in Nat

VARIABLES
  clock,
  late,      \* a call that has read the clock, and has not reached Redis: its time, or NoCall
  zset,      \* members of the sorted set: <<time, draw>>; the time is also the score
  passed,    \* history: times of the calls that Redis has let through without delay
  told       \* history: the last refusal: its time, and the Retry-After it got

rateVars == <<clock, late, zset, passed, told>>

-----------------------------------------------------------------------------
NoCall == -1

Later(n, m) == IF n > m THEN n ELSE m

RateInit ==
  /\ clock = 0
  /\ late = NoCall
  /\ zset = {} /\ passed = {}
  /\ told = [at |-> NoCall, seconds |-> 0, kept |-> {}]

Tick ==
  /\ clock < MaxTime
  /\ clock' = clock + 1
  /\ UNCHANGED <<late, zset, passed, told>>

\* A call reads the clock, and is delayed.
Delay ==
  /\ late = NoCall
  /\ late' = clock
  /\ UNCHANGED <<clock, zset, passed, told>>

\* ZREMRANGEBYSCORE: what is left of the set at a time.  The key itself expires a
\* window after the last addition, when nothing is left anyway.
Kept(now) == {m \in zset : m[1] > now - Window}

\* Mutant: one more is let through.
FullLoosely(S) == Cardinality(S) > Limit

Full(S) == Cardinality(S) >= Limit

Oldest(S) == CHOOSE t \in {m[1] : m \in S} : \A m \in S : t <= m[1]

\* math.ceil over the ticks, and the callers' Math.max(1, ...).
RetryAfter(S, now) ==
  Later(1, (Oldest(S) + Window - now + TicksPerSecond - 1) \div TicksPerSecond)

Passes(now) ==
  /\ ~Full(Kept(now))
  /\ \E d \in Draws : zset' = Kept(now) \cup {<<now, d>>}
  /\ passed' = IF now = clock THEN passed \cup {now} ELSE passed
  /\ UNCHANGED told

Refused(now) ==
  /\ Full(Kept(now))
  /\ zset' = Kept(now)
  /\ told' = [at |-> now, seconds |-> RetryAfter(Kept(now), now), kept |-> Kept(now)]
  /\ UNCHANGED passed

Call ==
  /\ Passes(clock) \/ Refused(clock)
  /\ UNCHANGED <<clock, late>>

\* The delayed call; or Redis fails, and it is let through uncounted.
LateCall ==
  /\ late # NoCall
  /\ late' = NoCall
  /\ Passes(late) \/ Refused(late) \/ UNCHANGED <<zset, passed, told>>
  /\ UNCHANGED clock

RateNext == Tick \/ Delay \/ Call \/ LateCall

RateSpec == RateInit /\ [][RateNext]_rateVars

-----------------------------------------------------------------------------
(* Properties.                                                             *)

RateTypeOK ==
  /\ clock \in 0..MaxTime /\ late \in {NoCall} \cup 0..clock
  /\ zset \subseteq (0..clock) \X Draws
  /\ passed \subseteq 0..clock
  /\ told.seconds \in Nat

\* rate-limit.ts:12, "ensures no race conditions between concurrent requests": of the
\* calls in any window at most Limit are let through, if no two have the same tick (those
\* overwrite each other in the set, for math.random repeats itself) and none is delayed
\* (it would come after members of its window were removed); and a caller that waits
\* for its Retry-After finds that one of the calls it was refused for is gone.
WindowKept ==
  /\ \A t \in 0..MaxTime : Cardinality({p \in passed : t - Window < p /\ p <= t}) <= Limit
  /\ told.at # NoCall =>
       ~Full({m \in told.kept : m[1] > told.at + told.seconds * TicksPerSecond - Window})

=============================================================================
