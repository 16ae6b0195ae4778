------------------------------ MODULE MCInventory ------------------------------
(***************************************************************************)
(* Inventory for TLC: the names of files and the requests are symmetric.   *)
(***************************************************************************)
EXTENDS Inventory, TLC

\* Every group has a name; nothing else is asked of the users.
NamedSpec == Init /\ [][Next /\ Named']_vars

Symmetry == Permutations(Names) \cup Permutations(Requests)
=============================================================================
