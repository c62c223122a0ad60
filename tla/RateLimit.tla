----------------------------- MODULE RateLimit -----------------------------
(***************************************************************************)
(* sliding_window_allow (core/rate_limit.py), which guards /auth/login, for *)
(* one key (one client address).  The API workers read their clock, then   *)
(* send one MULTI/EXEC to Redis: attempts can reach Redis later than they  *)
(* were stamped, and in another order.                                     *)
(*                                                                         *)
(* Redis and the workers read the same clock (deploy/ installs them on one *)
(* host).  MaxDelay bounds the time between the stamp and the execution;   *)
(* the code has no such bound, so what is shown is a function of it.       *)
(*                                                                         *)
(* Its names are apart from LoginLockout's, the other guard of the route,  *)
(* so that LoginProofs can extend both.                                    *)
(***************************************************************************)
EXTENDS Integers, Sequences, FiniteSets

CONSTANTS
  Limit,        \* limit
  Window,       \* window_seconds
  MaxDelay,     \* assumption: longest time from time.time() to EXEC
  MaxCalls,     \* bound: calls
  MaxTime      \* bound: the clock stops there

ASSUME LimiterAssumption ==
  /\ Limit \in Nat /\ Window \in Nat \ {0} /\ MaxDelay \in Nat
  /\ MaxCalls \in Nat /\ MaxTime \in Nat

VARIABLES
  time,
  attempts,    \* calls so far; at = 0 until the transaction is executed
  members,     \* the sorted set: the calls it holds, scored by their stamp
  expires      \* when the key of the sorted set expires

limiterVars == <<time, attempts, members, expires>>

Calls == DOMAIN attempts
Waiting(i) == attempts[i].at = 0

\* ZREMRANGEBYSCORE key 0 cutoff: both ends are removed.
Purged(zset, cutoff) == {i \in zset : attempts[i].now > cutoff}

\* now = time.time()
Stamp ==
  /\ Len(attempts) < MaxCalls
  /\ attempts' = Append(attempts, [now |-> time, at |-> 0, allowed |-> FALSE])
  /\ UNCHANGED <<time, members, expires>>

Execute_CountingFirst(i) ==
  LET stored == IF time < expires THEN members ELSE {}
      kept == Purged(stored, attempts[i].now - Window)
  IN
  /\ Waiting(i)
  /\ members' = kept \cup {i}
  /\ attempts' = [attempts EXCEPT ![i] =
       [now |-> @.now, at |-> time, allowed |-> Cardinality(kept) <= Limit]]
  /\ expires' = time + Window
  /\ UNCHANGED time
\* MULTI; ZREMRANGEBYSCORE; ZADD; ZCARD; EXPIRE; EXEC.  A call that is refused
\* stays in the set like the others.
Execute(i) ==
  LET stored == IF time < expires THEN members ELSE {}
      kept == Purged(stored, attempts[i].now - Window) \cup {i}
  IN
  /\ Waiting(i)
  /\ members' = kept
  /\ attempts' = [attempts EXCEPT ![i] =
       [now |-> @.now, at |-> time, allowed |-> Cardinality(kept) <= Limit]]
  /\ expires' = time + Window
  /\ UNCHANGED time

TimePasses ==
  /\ time < MaxTime
  /\ \A i \in Calls : Waiting(i) => time < attempts[i].now + MaxDelay
  /\ time' = time + 1
  /\ UNCHANGED <<attempts, members, expires>>

LimiterInit == time = 1 /\ attempts = <<>> /\ members = {} /\ expires = 0

LimiterNext == Stamp \/ (\E i \in Calls : Execute(i)) \/ TimePasses

LimiterSpec == LimiterInit /\ [][LimiterNext]_limiterVars

----------------------------------------------------------------------------
Call == [now: Nat, at: Nat, allowed: BOOLEAN]

LimiterTypeOK ==
  /\ time \in Nat \ {0} /\ expires \in Nat
  /\ attempts \in Seq(Call)
  /\ members \subseteq {i \in Calls : ~ Waiting(i)}

\* The calls let through in the `length` seconds that end at t.
Allowed(t, length) ==
  {i \in Calls : attempts[i].allowed /\ t - length < attempts[i].at /\ attempts[i].at <= t}

\* No more than Limit calls are let through in any Window - MaxDelay seconds,
\* in whatever order the transactions reach Redis.
RateBounded ==
  \A t \in 1 .. time : Cardinality(Allowed(t, Window - MaxDelay)) <= Limit
=============================================================================
