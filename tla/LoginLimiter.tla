---------------------------- MODULE LoginLimiter ----------------------------
(***************************************************************************)
(* loginLimiter: attempts per client in a map of bounded size, pruned as   *)
(* they are looked at and swept once an interval.  A request reads the     *)
(* clock before it takes the lock, so calls may come with times out of     *)
(* order.                                                                  *)
(***************************************************************************)
EXTENDS Integers, FiniteSets, Functions

CONSTANTS
  Clients,
  Overflow,        \* the bucket of everybody who gets none of their own
  maxBuckets,
  maxAttempts,
  window,
  cleanupInterval,
  MaxTime,         \* bound on the clock
  Skew             \* how far behind another the time of a call may be

VARIABLES
  buckets,     \* client -> its attempts, for the clients that have one
  lastCleanup, \* Zero before the first
  clock,
  granted      \* history: the attempts that were let through

vars == <<buckets, lastCleanup, clock, granted>>

Zero == -1

\* An attempt is [client, time, no]: no tells those of one client at one time apart.  What
\* is kept of it is a time in a list; a bucket is the set of its attempts here.
activeAttempts(attempts, cutoff) == {a \in attempts : a.time > cutoff}

\* Seeded fault: the sweep starts afresh.
cleanupAll(bs, now) == [c \in {} |-> {}]
cleanup(bs, now) ==
  LET kept == [c \in DOMAIN bs |-> activeAttempts(bs[c], now - window)]
  IN Restrict(kept, {c \in DOMAIN kept : kept[c] # {}})

NeedsCleanup(now) ==
  lastCleanup = Zero \/ now < lastCleanup \/ now - lastCleanup >= cleanupInterval

BucketOf(bs, client) ==
  IF client \notin DOMAIN bs /\ Cardinality(DOMAIN bs) >= maxBuckets - 1 THEN Overflow ELSE client

Init ==
  /\ buckets = [c \in {} |-> {}]
  /\ lastCleanup = Zero
  /\ clock = 0
  /\ granted = {}

Tick == clock < MaxTime /\ clock' = clock + 1 /\ UNCHANGED <<buckets, lastCleanup, granted>>

allow(client, now) ==
  LET swept == IF NeedsCleanup(now) THEN cleanup(buckets, now) ELSE buckets
      b == BucketOf(swept, client)
      attempts == activeAttempts(IF b \in DOMAIN swept THEN swept[b] ELSE {}, now - window)
      ok == Cardinality(attempts) < maxAttempts
      before == {a \in granted : a.client = client /\ a.time = now}
      attempt == [client |-> client, time |-> now, no |-> Cardinality(before)]
      bucket == IF ok THEN attempts \cup {attempt} ELSE attempts IN
  /\ lastCleanup' = IF NeedsCleanup(now) THEN now ELSE lastCleanup
  /\ buckets' = [c \in DOMAIN swept \cup {b} |-> IF c = b THEN bucket ELSE swept[c]]
  /\ granted' = IF ok THEN granted \cup {attempt} ELSE granted
  /\ UNCHANGED clock

Next ==
  \/ Tick
  \/ \E client \in Clients, now \in {t \in 0..MaxTime : t <= clock /\ t >= clock - Skew} :
       allow(client, now)

Spec == Init /\ [][Next]_vars

-----------------------------------------------------------------------------

\* newLoginLimiter, maxBuckets: the map never outgrows its bound, the bucket of those
\* without one included.
BucketsAreBounded == Cardinality(DOMAIN buckets) <= maxBuckets

\* allow, cleanup: neither sweeping nor moving between the shared bucket and one of
\* their own gets a client more than twice the allowance in a window, less by what the
\* clocks of two calls may differ: a call with a later time has forgotten what one with an
\* earlier time would still count.
NobodyRushes ==
  \A c \in Clients, t \in 0..MaxTime :
    Cardinality({a \in granted : a.client = c /\ a.time > t - (window - Skew) /\ a.time <= t})
      <= 2 * maxAttempts
=============================================================================
