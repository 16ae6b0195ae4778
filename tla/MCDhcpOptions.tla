--------------------------- MODULE MCDhcpOptions ---------------------------
(***************************************************************************)
(* Instances of DhcpOptions.  Nothing tells the clients apart.             *)
(***************************************************************************)
EXTENDS DhcpOptions, TLC

Clients == Permutations(Macs)
=============================================================================
