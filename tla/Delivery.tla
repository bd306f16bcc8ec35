------------------------------ MODULE Delivery -------------------------------
(***************************************************************************)
(* What deliverOnce promises of each message to each destination, whatever *)
(* the number of evaluations that meet it: one of them at a time has it in *)
(* hand, the destination takes it once per claim, a failure can be tried   *)
(* again and a success cannot.  The price: a send that is given up on may  *)
(* still arrive, and what was in hand when the process died, or when the   *)
(* outcome was not recorded, is lost.                                      *)
(***************************************************************************)
EXTENDS Naturals

CONSTANT Keys \* rule, what it reports, destination

VARIABLES
  phase,  \* of each: void (no promise), open, claimed, taken, refused, delivered or lost
  copies, \* how often the destination took it
  stray,  \* its sends that were given up on and are still under way
  given   \* its sends that were given up on

counts == <<copies, stray, given>>
vars == <<phase, counts>>

Init ==
  /\ phase = [k \in Keys |-> "void"]
  /\ copies = [k \in Keys |-> 0]
  /\ stray = [k \in Keys |-> 0]
  /\ given = [k \in Keys |-> 0]

Moves(k, before, after) == phase[k] = before /\ phase' = [phase EXCEPT ![k] = after]

Claim(k) == Moves(k, "open", "claimed") /\ UNCHANGED counts

Take(k) ==
  /\ Moves(k, "claimed", "taken")
  /\ copies' = [copies EXCEPT ![k] = @ + 1]
  /\ UNCHANGED <<stray, given>>

Refuse(k) == Moves(k, "claimed", "refused") /\ UNCHANGED counts

GiveUp(k) ==
  /\ Moves(k, "claimed", "refused")
  /\ stray' = [stray EXCEPT ![k] = @ + 1]
  /\ given' = [given EXCEPT ![k] = @ + 1]
  /\ UNCHANGED copies

Settle(k) ==
  /\ Moves(k, "taken", "delivered") \/ Moves(k, "refused", "open")
  /\ UNCHANGED counts

Lose(k) ==
  /\ Moves(k, "taken", "lost") \/ Moves(k, "refused", "lost")
  /\ UNCHANGED counts

Straggle(k) ==
  /\ phase[k] # "void" /\ stray[k] > 0
  /\ stray' = [stray EXCEPT ![k] = @ - 1]
  /\ copies' \in {copies, [copies EXCEPT ![k] = @ + 1]}
  /\ UNCHANGED <<phase, given>>

On(K, f, value) == [k \in Keys |-> IF k \in K THEN value ELSE f[k]]

\* A rule is created; sends of one that had its id before may still be under way.
Offer(K) ==
  /\ \A k \in K : phase[k] = "void"
  /\ phase' = On(K, phase, "open")
  /\ copies' = On(K, copies, 0)
  /\ stray' \in [Keys -> Nat] /\ \A k \in Keys \ K : stray'[k] = stray[k]
  /\ given' = [k \in Keys |-> IF k \in K THEN stray'[k] ELSE given[k]]

\* A rule is deleted.
Withdraw(K) ==
  /\ phase' = On(K, phase, "void")
  /\ copies' = On(K, copies, 0)
  /\ stray' = On(K, stray, 0)
  /\ given' = On(K, given, 0)

\* The process ends: so do its sends.
Restart ==
  /\ phase' = On({k \in Keys : phase[k] \in {"claimed", "taken", "refused"}}, phase, "lost")
  /\ stray' = On(Keys, stray, 0)
  /\ UNCHANGED <<copies, given>>

Next ==
  \/ \E k \in Keys :
       Claim(k) \/ Take(k) \/ Refuse(k) \/ GiveUp(k) \/ Settle(k) \/ Lose(k) \/ Straggle(k)
  \/ \E K \in SUBSET Keys : Offer(K) \/ Withdraw(K)
  \/ Restart

Spec == Init /\ [][Next]_vars
=============================================================================
