---------------------------- MODULE MCInventory -----------------------------
(* Instances of Inventory for TLC.                                         *)
EXTENDS Inventory, TLC

\* Service keys of one host are interchangeable; so are names, versions and ports.
Symmetry ==
  Permutations(Sources) \cup Permutations(HostKeys) \cup Permutations(ServiceKeys)
    \cup Permutations(Names) \cup Permutations(Versions) \cup Permutations(Tuples)

\* Neither the next step nor a state property looks at filed, nor at the feed of an
\* id that has no row.  (Comparing feed makes TLC evaluate it before it is stored.)
View ==
  <<tables, last, feed # <<>>,
    [e \in Entity |-> IF e[2] \in Rows(CASE e[1] = "host" -> hosts
                                        [] e[1] = "service" -> services
                                        [] e[1] = "port" -> ports)
                       THEN feed[e] ELSE "none"]>>
=============================================================================
