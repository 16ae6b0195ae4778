---------------------------- MODULE LeaseService ----------------------------
(***************************************************************************)
(* What the DHCP server promises about the leases it records: an address   *)
(* has one holder; it becomes a client's only when it is nobody else's;    *)
(* granting it costs no other client anything; otherwise it is lost only   *)
(* by the passing of time or by being withdrawn, one address at a time.    *)
(***************************************************************************)
EXTENDS Integers

CONSTANTS IPs, Clients, Nobody

VARIABLES clock, holder

vars == <<clock, holder>>

Init ==
  /\ clock = 0
  /\ holder = [ip \in IPs |-> Nobody]

Holders == [IPs -> Clients \cup {Nobody}]

\* The client may at the same time give up other addresses it holds.
Grant(c, ip) ==
  /\ holder[ip] \in {Nobody, c} /\ holder'[ip] = c
  /\ \A j \in IPs \ {ip} : holder'[j] = holder[j] \/ (holder[j] = c /\ holder'[j] = Nobody)
  /\ holder' \in Holders
  /\ UNCHANGED clock

\* The address was declined, or its host deleted, or its row written over.
Withdraw(ip) ==
  /\ holder[ip] # Nobody
  /\ holder' = [holder EXCEPT ![ip] = Nobody]
  /\ UNCHANGED clock

Tick ==
  /\ clock' = clock + 1
  /\ \A j \in IPs : holder'[j] \in {holder[j], Nobody}
  /\ holder' \in Holders

Next ==
  \/ \E c \in Clients, ip \in IPs : Grant(c, ip)
  \/ \E ip \in IPs : Withdraw(ip)
  \/ Tick

Spec == Init /\ [][Next]_vars
=============================================================================
