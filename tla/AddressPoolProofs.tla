-------------------------- MODULE AddressPoolProofs --------------------------
(***************************************************************************)
(* The lemmas about pools and the table of addresses: Insert and Save keep *)
(* the keys, and the scan of Next finds the least usable address, for      *)
(* every pool and every set of available addresses.                        *)
(***************************************************************************)
EXTENDS AddressPool, WellFoundedInduction, TLAPS

(***************************************************************************)
(* The table.                                                              *)
(***************************************************************************)
Keys(table) == \A r, s \in table : r.id = s.id \/ Clash(r, s) => r = s

\* Create keeps the rows' type and both keys: the id it is given is new.
LEMMA InsertKeys ==
  ASSUME NEW table \in SUBSET Row, Keys(table),
         NEW r \in Row, \A s \in table : s.id # r.id
  PROVE  Insert(table, r) \in SUBSET Row /\ Keys(Insert(table, r))
  BY DEF Insert, Keys, Clash

\* So does Save, whatever the row it is given.
LEMMA SaveKeys ==
  ASSUME NEW table \in SUBSET Row, Keys(table), NEW r \in Row
  PROVE  Save(table, r) \in SUBSET Row /\ Keys(Save(table, r))
<1>1. CASE \E s \in table : s.id = r.id
  <2> DEFINE others == {s \in table : s.id # r.id}
  <2>1. Save(table, r) = IF \E s \in others : Clash(r, s) THEN table ELSE others \cup {r}
    BY <1>1 DEF Save
  <2>2. CASE \E s \in others : Clash(r, s)
    BY <2>1, <2>2
  <2>3. CASE ~ \E s \in others : Clash(r, s)
    BY <2>1, <2>3 DEF Keys, Clash
  <2> QED  BY <2>2, <2>3
<1>2. CASE ~ \E s \in table : s.id = r.id
  <2>1. Save(table, r) = Insert(table, r)
    BY <1>2 DEF Save
  <2> QED  BY <2>1, <1>2, InsertKeys
<1> QED  BY <1>1, <1>2

\* A table has no rows after a Save but those it had and the one saved.
LEMMA SaveRows ==
  ASSUME NEW table, NEW r
  PROVE  /\ Save(table, r) \subseteq table \cup {r}
         /\ r \in Save(table, r) \/ Save(table, r) = table
         /\ \A s \in table : s.id # r.id => s \in Save(table, r)
  BY DEF Save, Insert

LEMMA InsertRows ==
  ASSUME NEW table, NEW r
  PROVE  /\ Insert(table, r) \subseteq table \cup {r}
         /\ table \subseteq Insert(table, r)
  BY DEF Insert

(***************************************************************************)
(* The scan.                                                               *)
(***************************************************************************)
LEMMA LeastExists ==
  ASSUME NEW S \in SUBSET Nat, S # {}
  PROVE  \E x \in S : \A y \in S : x <= y
<1> DEFINE R == OpToRel(<, Nat)
<1>1. IsWellFoundedOn(R, Nat)
  BY NatLessThanWellFounded, Zenon
<1>2. ASSUME NEW x \in S, NEW y \in S, ~(<<y, x>> \in R) PROVE x <= y
  <2>1. ~(y < x)
    BY <1>2, Zenon DEF OpToRel
  <2> QED BY <2>1
<1> HIDE DEF R
<1>3. PICK x \in S : \A y \in S : ~(<<y, x>> \in R)
  BY <1>1, WFMin, Zenon
<1> QED BY <1>2, <1>3

\* The addresses at which the scan ends, and what it answers there.
Stops(p, free, ip) ==
  {a \in Nat : a >= ip /\ (~Contains(p, a) \/ (a \notin Special /\ (a \in free \/ a = p.end)))}

Found(p, free, ip) == IF Contains(p, ip) /\ ip \in free THEN ip ELSE NoIP

\* The recursive function exists: it answers what is found at the first stop.
LEMMA ScanEquation ==
  ASSUME NEW p, NEW free
  PROVE  Scan(p, free) =
           [ip \in Nat |-> IF ~Contains(p, ip) THEN NoIP
                           ELSE IF ip \in Special THEN Scan(p, free)[ip + 1]
                           ELSE IF ip \in free THEN ip
                           ELSE IF ip = p.end THEN NoIP
                           ELSE Scan(p, free)[ip + 1]]
<1> DEFINE stops(ip) == Stops(p, free, ip)
           first(ip) == CHOOSE a \in stops(ip) : \A b \in stops(ip) : a <= b
           val(ip) == IF stops(ip) = {} THEN NoIP ELSE Found(p, free, first(ip))
           f == [ip \in Nat |-> val(ip)]
           step(ip) == IF ~Contains(p, ip) THEN NoIP
                       ELSE IF ip \in Special THEN f[ip + 1]
                       ELSE IF ip \in free THEN ip
                       ELSE IF ip = p.end THEN NoIP
                       ELSE f[ip + 1]
<1>1. ASSUME NEW ip \in Nat PROVE f[ip] = step(ip)
  <2>1. CASE ip \in stops(ip)
    <3>1. stops(ip) \in SUBSET Nat /\ stops(ip) # {} /\ \A b \in stops(ip) : ip <= b
      BY <2>1 DEF Stops
    <3> HIDE DEF stops
    <3>2. \E a \in stops(ip) : \A b \in stops(ip) : a <= b
      BY <2>1, <3>1
    <3>3. first(ip) \in stops(ip) /\ \A b \in stops(ip) : first(ip) <= b
      BY <3>2
    <3> HIDE DEF first
    <3>4. first(ip) = ip
      BY <2>1, <3>1, <3>3
    <3>5. f[ip] = Found(p, free, ip)
      BY <3>1, <3>4
    <3> HIDE DEF f
    <3> QED BY <2>1, <3>5 DEF stops, Stops, Found
  <2>2. CASE ip \notin stops(ip)
    <3>1. stops(ip) = stops(ip + 1)
      BY <2>2 DEF Stops
    <3>2. f[ip] = f[ip + 1]
      <4> HIDE DEF stops
      <4> QED BY <3>1
    <3>3. step(ip) = f[ip + 1]
      <4> HIDE DEF f
      <4> QED BY <2>2 DEF Stops
    <3> QED BY <3>2, <3>3
  <2> QED BY <2>1, <2>2
<1>2. f = [ip \in Nat |-> step(ip)]
  <2>1. \A ip \in Nat : val(ip) = step(ip)
    BY <1>1
  <2> HIDE DEF val, step
  <2> QED BY <2>1
<1>3. \E g : g = [ip \in Nat |-> IF ~Contains(p, ip) THEN NoIP
                                 ELSE IF ip \in Special THEN g[ip + 1]
                                 ELSE IF ip \in free THEN ip
                                 ELSE IF ip = p.end THEN NoIP
                                 ELSE g[ip + 1]]
  <2> HIDE DEF f
  <2> QED BY <1>2
<1> QED BY <1>3 DEF Scan

\* Every function that satisfies the equation does so, where there is a stop.
LEMMA ScanStops ==
  ASSUME NEW p, NEW free, NEW ip \in Nat, NEW a \in Stops(p, free, ip),
         \A b \in Stops(p, free, ip) : a <= b
  PROVE  Scan(p, free)[ip] = Found(p, free, a)
<1> DEFINE f == Scan(p, free)
           same == {b \in ip .. a : f[b] = f[a]}
<1>1. a \in Nat /\ a >= ip
  BY DEF Stops
<1>2. ASSUME NEW b \in Nat
      PROVE  f[b] = IF ~Contains(p, b) THEN NoIP
                    ELSE IF b \in Special THEN f[b + 1]
                    ELSE IF b \in free THEN b
                    ELSE IF b = p.end THEN NoIP
                    ELSE f[b + 1]
  BY ScanEquation
<1> HIDE DEF f
<1>3. f[a] = Found(p, free, a)
  BY <1>1, <1>2 DEF Stops, Found
<1>4. ASSUME NEW b \in ip .. a - 1 PROVE f[b] = f[b + 1]
  <2>1. b \in Nat /\ b \notin Stops(p, free, ip) /\ b >= ip
    BY <1>1
  <2> QED BY <1>2, <2>1 DEF Stops
<1>5. same \in SUBSET Nat /\ a \in same
  BY <1>1
<1>6. PICK b \in same : \A c \in same : b <= c
  <2> HIDE DEF same
  <2> QED BY <1>5, LeastExists
<1>7. b = ip
  <2>1. SUFFICES ASSUME b # ip PROVE FALSE
    OBVIOUS
  <2>2. b - 1 \in ip .. a - 1 /\ b \in Nat
    BY <1>1, <2>1
  <2>3. f[b - 1] = f[b - 1 + 1] /\ b - 1 + 1 = b
    BY <1>4, <2>2
  <2>4. b - 1 \in same
    BY <1>1, <2>2, <2>3
  <2> QED BY <1>6, <2>2, <2>4
<1> QED BY <1>3, <1>7 DEF f

\* A network ends.
LEMMA NetworkEnds ==
  ASSUME NEW p \in Pools, NEW ip \in Nat
  PROVE  \E a \in Nat : a >= ip /\ ~Contains(p, a)
<1>1. p.block \in Nat \ {0} /\ p.start \in Nat
  BY DEF Pools
<1>2. (ip + p.block) \div p.block # ip \div p.block
  BY <1>1
<1> QED BY <1>1, <1>2 DEF Contains

\* A network is an interval.
LEMMA NetworkConvex ==
  ASSUME NEW p \in Pools, NEW a \in Nat, NEW b \in Nat, NEW c \in Nat,
         a <= b, b <= c, Contains(p, a), Contains(p, c)
  PROVE  Contains(p, b)
<1>1. p.block \in Nat \ {0}
  BY DEF Pools
<1>2. ASSUME NEW x \in Nat, NEW y \in Nat, x <= y PROVE x \div p.block <= y \div p.block
  BY <1>1, <1>2
<1>3. a \div p.block <= b \div p.block /\ b \div p.block <= c \div p.block
  BY <1>2
<1>4. b \div p.block \in Int /\ a \div p.block \in Int
  BY <1>1
<1> QED BY <1>3, <1>4 DEF Contains

LEMMA Multiples ==
  ASSUME NEW b \in Nat \ {0}, NEW x \in Int, NEW y \in Int, x < y
  PROVE  b * x + b <= b * y
<1>1. PICK k \in Nat : y = x + 1 + k
  <2>1. y - x - 1 \in Nat /\ y = x + 1 + (y - x - 1)
    OBVIOUS
  <2> QED BY <2>1
<1>2. b * y = b * x + b + b * k
  BY <1>1
<1>3. b * k \in Nat /\ b * x \in Int
  OBVIOUS
<1> QED BY <1>2, <1>3

\* The addresses of a network are those between its first and its last.
LEMMA NetworkIs ==
  ASSUME NEW p \in Pools, NEW ip \in Nat
  PROVE  Contains(p, ip) <=> ip \in Network(p)
<1>1. p.block \in Nat \ {0} /\ p.start \in Nat
  BY DEF Pools
<1> DEFINE b == p.block
           d == p.start \div b
           q == ip \div b
<1>2. q \in Int /\ d \in Int /\ b \in Nat \ {0}
  BY <1>1
<1>3. b * q <= ip /\ ip < b * q + b
  BY <1>1
<1>4. b * q \in Int /\ b * d \in Int
  BY <1>2
<1>5. ASSUME q = d PROVE ip \in b * d .. b * d + b - 1
  BY <1>2, <1>3, <1>4, <1>5
<1>6. ASSUME q < d PROVE ip < b * d
  <2> HIDE DEF b, d, q
  <2>1. b * q + b <= b * d
    BY <1>2, <1>6, Multiples
  <2> QED BY <1>2, <1>3, <1>4, <2>1
<1>7. ASSUME d < q PROVE ip >= b * d + b
  <2> HIDE DEF b, d, q
  <2>1. b * d + b <= b * q
    BY <1>2, <1>7, Multiples
  <2> QED BY <1>2, <1>3, <1>4, <2>1
<1>8. (q = d) <=> ip \in b * d .. b * d + b - 1
  BY <1>2, <1>4, <1>5, <1>6, <1>7
<1> QED BY <1>8 DEF Contains, Network

\* The scan stays in the network.
LEMMA ReachedInNetwork ==
  ASSUME NEW p \in Pools, ValidPool(p), NEW a \in Nat, a >= p.start, a <= Last(p)
  PROVE  a \in Network(p)
<1>1. p.start \in Nat /\ p.end \in Nat /\ Contains(p, p.start) /\ Contains(p, p.end)
  BY DEF Pools, Contains, ValidPool
<1>2. CASE Last(p) = p.end
  BY <1>1, <1>2, NetworkConvex, NetworkIs
<1>3. CASE Last(p) = p.block * (p.start \div p.block) + p.block - 1
  <2>1. p.start \in Network(p)
    BY <1>1, NetworkIs
  <2> QED BY <1>1, <1>3, <2>1 DEF Network, Pools
<1> QED BY <1>2, <1>3 DEF Last

\* The addresses of a network are natural numbers.
LEMMA NetworkNat ==
  ASSUME NEW p \in Pools
  PROVE  Network(p) \subseteq Nat
<1>1. p.start \div p.block \in Nat /\ p.block \in Nat
  BY DEF Pools
<1>2. p.block * (p.start \div p.block) \in Nat
  BY <1>1
<1> QED BY <1>2 DEF Network

\* Next answers the least usable address from the start on, and an error only when
\* there is none up to the last address it may reach (pool.go:87-101): the scan
\* skips none, although it compares special addresses with nothing, and it ends.
THEOREM NextIsLeast ==
  ASSUME NEW p \in Pools, ValidPool(p), NEW free, p.start # NoIP
  PROVE  LET ip == Next(p, free)
             usable == (free \cap p.start .. Last(p)) \ Special IN
         /\ usable = {} => ip = NoIP
         /\ usable # {} => ip \in usable /\ \A a \in usable : ip <= a
<1> DEFINE usable == (free \cap p.start .. Last(p)) \ Special
           stops == Stops(p, free, p.start)
<1>1. p.start \in Nat \ {0} /\ p.end \in Nat /\ Contains(p, p.start) /\ Contains(p, p.end)
  BY DEF Pools, Contains, ValidPool, NoIP
<1>2. stops \in SUBSET Nat /\ stops # {}
  BY <1>1, NetworkEnds DEF Stops
<1>3. PICK first \in stops : \A b \in stops : first <= b
  <2> HIDE DEF stops
  <2> QED BY <1>2, LeastExists
<1>4. Next(p, free) = Found(p, free, first)
  BY <1>1, <1>3, ScanStops DEF Next
<1>5. first \in Nat /\ first >= p.start /\ first # NoIP
  BY <1>1, <1>2 DEF NoIP, Stops
<1>6. ASSUME NEW a \in Nat, a >= p.start, a <= Last(p) PROVE Contains(p, a)
  BY <1>1, <1>6, ReachedInNetwork, NetworkIs
<1>7. Last(p) \in Int
  BY <1>1 DEF Last, Pools
<1>8. ASSUME NEW a \in usable
      PROVE  a \in Nat /\ a >= p.start /\ a <= Last(p) /\ Contains(p, a) /\ a \in stops
  BY <1>1, <1>6, <1>7 DEF Stops
<1>9. CASE Contains(p, first) /\ first \in free
  <2>1. Next(p, free) = first
    BY <1>4, <1>9 DEF Found
  <2>2. first \notin Special
    BY <1>9 DEF Stops
  <2>3. first <= Last(p)
    <3>1. CASE p.start <= p.end /\ p.end \notin Special
      <4>1. p.end \in stops
        BY <1>1, <3>1 DEF Stops
      <4> QED BY <1>3, <3>1, <4>1 DEF Last
    <3>2. CASE ~(p.start <= p.end /\ p.end \notin Special)
      BY <1>5, <1>9, <3>2, NetworkIs DEF Last, Network
    <3> QED BY <3>1, <3>2
  <2>4. first \in usable
    BY <1>1, <1>5, <1>7, <1>9, <2>2, <2>3
  <2>5. \A a \in usable : first <= a
    BY <1>3, <1>8
  <2> QED BY <2>1, <2>4, <2>5
<1>10. CASE ~(Contains(p, first) /\ first \in free)
  <2>1. Next(p, free) = NoIP
    BY <1>4, <1>10 DEF Found
  <2>2. SUFFICES ASSUME NEW a \in usable PROVE FALSE
    BY <2>1
  <2>3. first <= a /\ a \in Nat /\ Contains(p, a) /\ a \in free /\ a <= Last(p)
    BY <1>3, <1>8
  <2>4. Contains(p, first)
    BY <1>1, <1>5, <2>3, NetworkConvex
  <2>5. first = p.end /\ first \notin free /\ first \notin Special
    BY <1>10, <2>4 DEF Stops
  <2>6. Last(p) = p.end
    BY <1>5, <2>5 DEF Last
  <2> QED BY <1>1, <2>3, <2>5, <2>6
<1> HIDE DEF usable
<1> QED BY <1>9, <1>10 DEF usable
=============================================================================
