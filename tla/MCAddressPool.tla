---------------------------- MODULE MCAddressPool ----------------------------
(***************************************************************************)
(* Every pool and every small table of a network of four addresses.        *)
(* Address 6 is special, so that a pool may start at it, end at it or      *)
(* reach across it.                                                        *)
(***************************************************************************)
EXTENDS PoolQuery

MCSpecial == {6}

At == 4 .. 7

MCPools == {p \in [start : {0} \cup At, end : {0} \cup At, block : {4}, gateway : {0, 4, 5}] : ValidPool(p)}

\* A host to be installed, a lease that is running and one that has ended at
\* instant 1, and the row of a declined address, of each address.
MCRows ==
  {[id |-> ip, ip |-> ip, mac |-> m, reimage |-> TRUE, expires |-> 0, pooled |-> TRUE] :
     ip \in At, m \in Macs} \cup
  {[id |-> 8 + ip, ip |-> ip, mac |-> m, reimage |-> FALSE, expires |-> e, pooled |-> TRUE] :
     ip \in At, m \in Macs, e \in {1, 2}} \cup
  {[id |-> 16 + ip, ip |-> ip, mac |-> NoMac, reimage |-> FALSE, expires |-> 2, pooled |-> TRUE] :
     ip \in At}

MCTables == {{}} \cup {{r, s} : r, s \in MCRows}
=============================================================================
