----------------------------- MODULE PoolQuery -----------------------------
(***************************************************************************)
(* A pool is asked for its next free address (Next of models/pool.go), and *)
(* the answer is compared with the address it is to find.  The pool is one *)
(* of Configured, and the table, which holds the rows that were loaded     *)
(* with it, one of Tables.                                                 *)
(***************************************************************************)
EXTENDS AddressPool

CONSTANTS
  Configured,   \* the pools that may be asked
  Tables,       \* the tables they may be asked over
  Now           \* the instant of the question

ASSUME QueryAssumption ==
  /\ Configured \subseteq {p \in Pools : ValidPool(p)}
  /\ Tables \subseteq SUBSET Row
  /\ Now \in Nat

VARIABLES pool, rows, answer

vars == <<pool, rows, answer>>

Unasked == -1

Init ==
  /\ pool \in Configured
  /\ rows \in Tables
  /\ answer = Unasked

Free == {ip \in Network(pool) : IsAvailable(pool, rows, rows, Now, ip)}

Ask ==
  /\ answer = Unasked
  /\ answer' = Next(pool, Free)
  /\ UNCHANGED <<pool, rows>>

Spec == Init /\ [][Ask]_vars

Held == {r \in rows : r.reimage \/ Live(r, Now)}

Usable == ((pool.start .. Last(pool)) \ {r.ip : r \in Held}) \ (Special \cup {pool.gateway})

\* No address is held by a row without a MAC address, as a declined one is.
NoneBlocked == \A r \in Held : r.mac # NoMac

\* Next ("returns the next free address in the pool (that is not reserved nor
\* already leased)", pool.go:72) answers the least address from the start on
\* that no row reserves or leases, that is neither the gateway nor special, and
\* an error when there is none.  This is said of tables in which no declined
\* address is blocked: such a row has no MAC address (dhcp.go:280), which is
\* what IsAvailable excepts, so Next offers the address that was to be "blocked
\* from being used for a while" (dhcp.go:278).
NextIsLeastFree ==
  answer # Unasked /\ NoneBlocked =>
    IF pool.start = NoIP \/ Usable = {}
    THEN answer = NoIP
    ELSE answer \in Usable /\ \A ip \in Usable : answer <= ip
=============================================================================
