------------------------------- MODULE MCDhcp -------------------------------
(***************************************************************************)
(* Instances of Dhcp: a network of four addresses, 4 to 7, whose gateway   *)
(* is 4 and whose pool ranges over 5 and 6, or over 5 alone; then a host   *)
(* has the address 6 only if an administrator gave it to it.               *)
(***************************************************************************)
EXTENDS Dhcp

CONSTANTS A, B

Wide == [start |-> 5, end |-> 6, block |-> 4, gateway |-> 4]
Narrow == [start |-> 5, end |-> 5, block |-> 4, gateway |-> 4]
MCIPs == 4 .. 7

Host(id, ip, mac, reimage, pooled) ==
  [id |-> id, ip |-> ip, mac |-> mac, reimage |-> reimage, expires |-> 0, pooled |-> pooled]

\* An empty table; a host flagged for installation that has no pool; a host that
\* was created twice; an address that was given to two hosts.
MCSeeds ==
  {{},
   {Host(1, 6, A, TRUE, FALSE)},
   {Host(1, 5, A, FALSE, TRUE), Host(2, 6, A, TRUE, TRUE)},
   {Host(1, 5, A, TRUE, TRUE), Host(2, 5, B, FALSE, TRUE)}}

\* A host that was created twice, and one that was created at one of its addresses.
Twice == {{Host(1, 5, A, FALSE, TRUE), Host(2, 6, A, TRUE, TRUE), Host(3, 6, B, FALSE, TRUE)}}
=============================================================================
