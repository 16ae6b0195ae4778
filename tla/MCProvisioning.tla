----------------------------- MODULE MCProvisioning -----------------------------
(***************************************************************************)
(* Provisioning for TLC where a host may ask for a file again: its         *)
(* transfers overlap, but not with the kickstart handler.                  *)
(***************************************************************************)
EXTENDS Provisioning

SettledSpec == Init /\ [][Next /\ Settled']_vars /\ Fairness
=============================================================================
