------------------------------ MODULE MCServer ------------------------------
(* What the HTTP server does with a request, for TLC: whose it is           *)
(* (ClientAddress), whether it may log in (LoginLimiter), whether it may be *)
(* served (Access), and what a stream of events gets (Broker).  They share  *)
(* no state: one part moves.                                                *)
EXTENDS Access, TLC

CONSTANTS
  LoginTime, maxBuckets, maxAttempts, window, cleanupInterval, Skew, Overflow, Clients,
  Hosts, Trusted, MaxChain, MaxHops,
  Publishers, Streams, Capacity, MaxEvents

ASSUME LimiterAssumption == maxBuckets \in Nat \ {0} /\ {maxAttempts, window, Skew, LoginTime} \subseteq Nat
ASSUME BrokerAssumption == {MaxEvents, Capacity} \subseteq Nat

VARIABLES
  part, \* which of them moves
  buckets, lastCleanup, clock, granted,
  speaks, from, forwarded, realIP, path,
  clients, channel, closed, said, leaving, locking, waiting, readers, todo, sent, due, taken, full, panicked

L == INSTANCE LoginLimiter WITH MaxTime <- LoginTime
C == INSTANCE ClientAddress
B == INSTANCE Broker

limiter == <<buckets, lastCleanup, clock, granted>>
address == <<speaks, from, forwarded, realIP, path>>
broker == <<clients, channel, closed, said, leaving, locking, waiting, readers, todo, sent, due, taken,
            full, panicked>>

PartsInit ==
  /\ part \in {"access", "limiter", "address", "broker"}
  /\ Init /\ L!Init /\ B!Init
  /\ IF part = "address" THEN C!Init
     ELSE speaks = "" /\ from = "" /\ forwarded = <<>> /\ realIP = "" /\ path = <<>>

PartsNext ==
  /\ \/ part = "access" /\ Next /\ UNCHANGED <<limiter, address, broker>>
     \/ part = "limiter" /\ L!Next /\ UNCHANGED <<vars, address, broker>>
     \/ part = "address" /\ C!Next /\ UNCHANGED <<vars, limiter, broker>>
     \/ part = "broker" /\ B!Next /\ UNCHANGED <<vars, limiter, address>>
  /\ UNCHANGED part

PartsSpec == PartsInit /\ [][PartsNext]_<<part, vars, limiter, address, broker>>

\* allow, clientIP: the map is bounded, and neither its sweeps nor the shared bucket gets
\* anybody more than twice the allowance; logins are counted for whoever sent them, not
\* for whom the request names.
LoginsAreCounted ==
  /\ part = "limiter" => L!BucketsAreBounded /\ L!NobodyRushes
  /\ part = "address" => C!NobodyPoses

\* Subscribe, Publish: nobody sends on a closed channel, and nothing due is missed,
\* but for what found a channel full of others.
EventsArrive == part = "broker" => B!NoSendOnClosed /\ B!NothingMissed

\* authenticate, authorizeShareScope: only the living are served, and shares only read.
ServedRightly == part = "access" => ServedWasLive /\ SharesOnlyRead

Symmetry == Permutations(Requests) \cup Permutations(Clients)
=============================================================================
