--------------------------- MODULE ScanLifecycle ----------------------------
(***************************************************************************)
(* What Runner.Scan promises to the rest of the program, whatever the      *)
(* number of goroutines that call it: for each source at most one scan at  *)
(* a time, which files at most one inventory, and only while it runs.      *)
(* Nothing else files an inventory; deleting a source takes it away.       *)
(***************************************************************************)
EXTENDS Naturals

CONSTANT Ids

VARIABLES
  phase,     \* of each source: free, claimed by a scan, or filed by it
  inventory  \* incarnation its entity rows were read from, 0: none

vars == <<phase, inventory>>

Init ==
  /\ phase = [i \in Ids |-> "free"]
  /\ inventory = [i \in Ids |-> 0]

Begin(i) ==
  /\ phase[i] = "free"
  /\ phase' = [phase EXCEPT ![i] = "claimed"]
  /\ UNCHANGED inventory

File(i) ==
  /\ phase[i] = "claimed"
  /\ phase' = [phase EXCEPT ![i] = "filed"]
  /\ inventory'[i] \in Nat \ {0}
  /\ inventory' = [inventory EXCEPT ![i] = inventory'[i]]

End(i) ==
  /\ phase[i] # "free"
  /\ phase' = [phase EXCEPT ![i] = "free"]
  /\ UNCHANGED inventory

Forget(i) ==
  /\ inventory' = [inventory EXCEPT ![i] = 0]
  /\ UNCHANGED phase

Restart ==
  /\ phase' = [i \in Ids |-> "free"]
  /\ UNCHANGED inventory

Next == (\E i \in Ids : Begin(i) \/ File(i) \/ End(i) \/ Forget(i)) \/ Restart

Spec == Init /\ [][Next]_vars
=============================================================================
