---------------------------- MODULE AddressPool ----------------------------
(***************************************************************************)
(* The address arithmetic of models/pool.go and the address table of       *)
(* models/address.go as gorm keeps it in sqlite: which addresses a pool    *)
(* contains, which of them are available to a MAC address, which one is    *)
(* offered next, and what Create and Save do to the table.                 *)
(*                                                                         *)
(* An address is a natural number, 0 being the unspecified address.  A     *)
(* pool is a record: start and end are StartAddress and EndAddress, block  *)
(* is 2^(32 - Netmask), the size of its network.  A row of the table is a  *)
(* record of the columns the DHCP server reads; its time columns are       *)
(* instants of the server's clock, 0 being the zero time of a row that was *)
(* never leased.  pooled is "pool_id is not NULL".                         *)
(***************************************************************************)
EXTENDS Integers

CONSTANTS
  Macs,     \* the MAC addresses of the clients
  NoMac,    \* the empty MAC column of a declined or malformed row
  Special   \* the multicast and loopback addresses

ASSUME MacAssumption == NoMac \notin Macs

NoIP == 0

Pools == [start : Nat, end : Nat, block : Nat \ {0}, gateway : Nat]

\* models.Address in memory: its id is 0 until it is in the table.
Address == [id : Nat, ip : Nat, mac : Macs \cup {NoMac},
            reimage : BOOLEAN, expires : Nat, pooled : BOOLEAN]

Row == {r \in Address : r.id # 0}

(***************************************************************************)
(* The pool.                                                               *)
(***************************************************************************)
Contains(p, ip) == ip \div p.block = p.start \div p.block

Network(p) ==
  LET first == p.block * (p.start \div p.block) IN first .. first + p.block - 1

\* BeforeSave refuses a pool whose ends lie in different networks; it does
\* not compare them.
ValidPool(p) == p.end \div p.block = p.start \div p.block

Live(r, t) == r.expires > t

\* Mutant: the leases that are running are not looked at.
IsAvailableUnlessReserved(p, addresses, table, t, ip, exclude) ==
  /\ Contains(p, ip) /\ ip # p.gateway
  /\ \A r \in table : r.ip = ip /\ r.reimage => r.mac = exclude

\* addresses are the rows loaded with the pool; reserved rows are read from
\* the table again on every call.
IsAvailableExcept(p, addresses, table, t, ip, exclude) ==
  /\ Contains(p, ip)
  /\ ip # p.gateway
  /\ \A r \in addresses : r.ip = ip /\ Live(r, t) => r.mac = exclude
  /\ \A r \in table : r.ip = ip /\ r.reimage => r.mac = exclude

IsAvailable(p, addresses, table, t, ip) ==
  IsAvailableExcept(p, addresses, table, t, ip, NoMac)

\* Mutant: the scan ends before it looks at the last address.
NextBeforeEnd(p, free) ==
  LET scan[ip \in Nat] ==
        IF ~Contains(p, ip) \/ ip = p.end THEN NoIP
        ELSE IF ip \in free \ Special THEN ip
        ELSE scan[ip + 1]
  IN  IF p.start = NoIP THEN NoIP ELSE scan[p.start]

\* The scan of Next, one address at a time, until the network or end is passed.
\* A special address is skipped before it is compared with end.  free is the set
\* of available addresses; NoIP stands for the error.
Scan(p, free) ==
  LET scan[ip \in Nat] ==
        IF ~Contains(p, ip) THEN NoIP
        ELSE IF ip \in Special THEN scan[ip + 1]
        ELSE IF ip \in free THEN ip
        ELSE IF ip = p.end THEN NoIP
        ELSE scan[ip + 1]
  IN  scan

Next(p, free) == IF p.start = NoIP THEN NoIP ELSE Scan(p, free)[p.start]

\* The last address Next may reach: the end of the pool, unless the scan cannot
\* stop there, because it lies before the start or is special; then the scan
\* goes on to the end of the network.
Last(p) ==
  IF p.start <= p.end /\ p.end \notin Special
  THEN p.end
  ELSE p.block * (p.start \div p.block) + p.block - 1

(***************************************************************************)
(* The table.                                                              *)
(***************************************************************************)
\* The unique index uniqIp on (ip, reimage).
Clash(r, s) == r.ip = s.ip /\ r.reimage = s.reimage

\* Mutant: the table has no unique index.
InsertUnindexed(table, r) == table \cup {r}

\* INSERT: refused by the unique index when a row with its key is there.
Insert(table, r) ==
  IF \E s \in table : Clash(r, s) THEN table ELSE table \cup {r}

\* gorm's Save of a row with an id: an UPDATE of every column, refused when
\* another row has its key; when no row has the id any more, an INSERT.
Save(table, r) ==
  IF \E s \in table : s.id = r.id
  THEN LET others == {s \in table : s.id # r.id} IN
       IF \E s \in others : Clash(r, s) THEN table ELSE others \cup {r}
  ELSE Insert(table, r)

\* The row gorm's First finds among those that qualify: the smallest id.
FirstById(rows) == {r \in rows : \A s \in rows : r.id <= s.id}
=============================================================================
