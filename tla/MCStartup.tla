------------------------------- MODULE MCStartup -------------------------------
(***************************************************************************)
(* Startup for TLC: passwords at the boundaries of the checks, and forms   *)
(* without one.                                                            *)
(***************************************************************************)
EXTENDS Startup

MCDefault == [classes |-> Classes \ {"special"}, length |-> 8, first |-> 1]

\* The last two are one password of 72 bytes and one that is a byte longer.
MCUserForms ==
  {NoPassword, [classes |-> {"lower"}, length |-> 72, first |-> 2],
   [classes |-> {"lower"}, length |-> 73, first |-> 2]}

MCGroupForms ==
  {NoPassword, [classes |-> Classes \ {"special"}, length |-> 7, first |-> 3],
   [classes |-> Classes, length |-> 6, first |-> 4],
   [classes |-> {"lower", "number"}, length |-> 7, first |-> 5]}
=============================================================================
