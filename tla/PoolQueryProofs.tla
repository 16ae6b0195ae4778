--------------------------- MODULE PoolQueryProofs ---------------------------
(***************************************************************************)
(* What a pool answers when it is asked for its next free address, for     *)
(* every pool and every table.                                             *)
(***************************************************************************)
EXTENDS PoolQuery, AddressPoolProofs

\* The pool and the table are those of the start.
Asked == pool \in Configured /\ rows \in Tables

\* The addresses that may be answered are the available ones, unless a row
\* without a MAC address holds one.
LEMMA UsableIsFree ==
  ASSUME Asked, NoneBlocked
  PROVE  Usable = (Free \cap pool.start .. Last(pool)) \ Special
<1>1. pool \in Pools /\ ValidPool(pool)
  BY QueryAssumption DEF Asked
<1>2. ASSUME NEW ip
      PROVE  IsAvailable(pool, rows, rows, Now, ip) <=>
               Contains(pool, ip) /\ ip # pool.gateway /\ ip \notin {r.ip : r \in Held}
  BY DEF IsAvailable, IsAvailableExcept, Held, NoneBlocked
<1>3. ASSUME NEW ip \in pool.start .. Last(pool) PROVE ip \in Network(pool)
  <2>1. pool.start \in Nat /\ Last(pool) \in Int
    BY <1>1 DEF Last, Pools
  <2> QED BY <1>1, <1>3, <2>1, ReachedInNetwork
<1>4. ASSUME NEW ip \in Network(pool) PROVE Contains(pool, ip)
  <2>1. ip \in Nat
    BY <1>1, <1>4, NetworkNat
  <2> QED BY <1>1, <1>4, <2>1, NetworkIs
<1> QED BY <1>2, <1>3, <1>4 DEF Usable, Free

\* Next answers the least address that no row reserves or leases
\* (pool.go:72-101), whatever the pool, and whatever the table as long as no
\* address is blocked by a row without a MAC address.
THEOREM NextFindsLeastFree == Spec => []NextIsLeastFree
<1>1. Init => Asked /\ NextIsLeastFree
  BY DEF Init, Asked, NextIsLeastFree
<1>2. Asked /\ NextIsLeastFree /\ [Ask]_vars => (Asked /\ NextIsLeastFree)'
  <2> SUFFICES ASSUME Asked, NextIsLeastFree, [Ask]_vars PROVE (Asked /\ NextIsLeastFree)'
    OBVIOUS
  <2>1. UNCHANGED <<pool, rows>>
    BY DEF Ask, vars
  <2>2. Asked' /\ Usable' = Usable /\ NoneBlocked' = NoneBlocked
    BY <2>1 DEF Asked, Usable, Held, NoneBlocked
  <2>3. CASE UNCHANGED vars
    BY <2>2, <2>3 DEF vars, NextIsLeastFree
  <2>4. CASE Ask
    <3>1. CASE pool.start = NoIP
      <4>1. answer' = NoIP /\ pool'.start = NoIP
        BY <2>1, <2>4, <3>1 DEF Ask, Next
      <4> QED BY <2>2, <4>1 DEF NextIsLeastFree
    <3>2. CASE pool.start # NoIP
      <4>1. NoneBlocked =>
              /\ Usable = {} => answer' = NoIP
              /\ Usable # {} => answer' \in Usable /\ \A ip \in Usable : answer' <= ip
        BY <2>4, <3>2, UsableIsFree, NextIsLeast, QueryAssumption DEF Ask, Asked
      <4> QED BY <2>1, <2>2, <3>2, <4>1 DEF NextIsLeastFree
    <3> QED BY <3>1, <3>2, <2>2
  <2> QED BY <2>3, <2>4
<1> QED BY <1>1, <1>2, PTL DEF Spec
=============================================================================
