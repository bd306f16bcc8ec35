------------------------------ MODULE MCNotify ------------------------------
(* Notifications, for TLC: what is delivered (Notify), and the connections *)
(* of the database that evaluations share with scans (StorePool).  Each    *)
(* abstracts from the other: one part moves.                               *)
EXTENDS Notify

CONSTANTS Changes, Expiries, Scans, Conns, Messages

VARIABLES
  part, \* which of them moves
  at, rows, left, over, scan

P == INSTANCE StorePool WITH pc <- at, late <- over

pool == <<at, rows, left, over, scan>>

\* The part that does not move: everything is over in the pool, no rule was made.
PoolIsOver ==
  /\ at = [e \in P!Evaluations |-> "done"] /\ rows = {}
  /\ scan = [s \in Scans |-> "done"]

PartsInit ==
  /\ Init
  /\ \/ part = "notify" /\ PoolIsOver /\ left = [e \in P!Evaluations |-> 0] /\ over = {}
     \/ part = "pool" /\ P!Init

Rest == part = "pool" /\ PoolIsOver /\ UNCHANGED <<vars, pool>>

PartsNext ==
  /\ \/ part = "notify" /\ Next /\ UNCHANGED pool
     \/ part = "pool" /\ P!Next /\ UNCHANGED vars
     \/ Rest
  /\ UNCHANGED part

\* Both fairnesses: nothing that is fair can move the part that does not.
PartsSpec == PartsInit /\ [][PartsNext]_<<part, vars, pool>> /\ Fairness /\ P!Fairness

\* Evaluate, Apply: whoever asks for a connection gets one, although evaluations that
\* hold one wait for another, and a message that was sent leaves its trace.
EverybodyIsServed == P!ScansApply /\ P!OutcomesAreWritten
=============================================================================
