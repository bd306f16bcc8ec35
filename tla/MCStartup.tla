----------------------------- MODULE MCStartup ------------------------------
(* Instance of Startup for TLC: of three processes one is given a password,*)
(* one none, one a password that is too short.                             *)
EXTENDS Startup, TLC

CONSTANTS p1, p2, p3, long1

Given == p1 :> long1 @@ p2 :> None @@ p3 :> Short

Symmetry == Permutations(Keys) \cup Permutations(Requests)
=============================================================================
