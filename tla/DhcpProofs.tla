----------------------------- MODULE DhcpProofs -----------------------------
(***************************************************************************)
(* What holds of Dhcp for every pool, every set of clients, every table to *)
(* start from and every bound.                                             *)
(***************************************************************************)
EXTENDS Dhcp, AddressPoolProofs

LEMMA ConstantTypes ==
  /\ IPs \subseteq Nat /\ NoIP \in Nat /\ NoIP \notin IPs
  /\ RecordLease \in Nat /\ ClientLease \in Nat
  BY PoolAssumption, LeaseAssumption DEF NoIP

(***************************************************************************)
(* Type correctness.                                                       *)
(***************************************************************************)
LEMMA InitTypeOK == Init => TypeOK
<1> SUFFICES ASSUME Init PROVE TypeOK
  OBVIOUS
<1> USE PoolAssumption, LeaseAssumption, SeedAssumption DEF Init
<1>1. /\ rows \subseteq Row
      /\ \A r, s \in rows : r.id = s.id \/ Clash(r, s) => r = s
  OBVIOUS
<1>2. Idle \in Proc
  BY DEF Idle, Proc, NewLease, NoIP, Address
<1>3. Without \in [ip : IPs \cup {NoIP}, until : Nat]
  BY DEF Without
<1>4. Busy(Idle)
  BY DEF Idle, Busy
<1>5. /\ held \in [Writers -> Held]
      /\ \A w \in Writers : held[w].pc # "idle" => held[w].item \in Row
  <2>1. Free \in Held /\ Free.pc = "idle"
    BY DEF Free, Held, NewLease, NoIP, Address
  <2>2. held = [w \in Writers |-> Free]
    OBVIOUS
  <2> QED  BY <2>1, <2>2
<1>6. only \in BOOLEAN
  OBVIOUS
<1> QED  BY <1>1, <1>2, <1>3, <1>4, <1>5, <1>6 DEF TypeOK

\* An id a new row may get belongs to no row.
LEMMA NewIdFresh ==
  ASSUME rows \subseteq Row, NEW i \in NewIds
  PROVE  i \in Nat \ {0} /\ \A r \in rows : r.id # i
  BY LeaseAssumption DEF NewIds, Row, Address

LEMMA IdleType == Idle \in Proc
  BY DEF Idle, Proc, NewLease, NoIP, Address

LEMMA FreeType == Free \in Held /\ Free.pc = "idle"
  BY DEF Free, Held, NewLease, NoIP, Address

HeldTyped ==
  /\ held \in [Writers -> Held]
  /\ \A w \in Writers : held[w].pc # "idle" => held[w].item \in Row

\* The copies keep their types when they stay, or are all given up, or one changes.
LEMMA HeldSame ==
  ASSUME TypeOK, held' = held \/ held' = [w \in Writers |-> Free]
  PROVE  HeldTyped'
  BY FreeType DEF TypeOK, HeldTyped

LEMMA HeldChanged ==
  ASSUME TypeOK, NEW w \in Writers, NEW h \in Held, h.pc # "idle" => h.item \in Row,
         held' = [held EXCEPT ![w] = h]
  PROVE  HeldTyped'
  BY DEF TypeOK, HeldTyped

\* TypeOK' from the primed variables, when at most the processes change, or the
\* others do.
LEMMA TypeOKStep ==
  ASSUME TypeOK, HeldTyped',
         rows' \in SUBSET Row, Keys(rows'), only' \in BOOLEAN, now' \in Nat,
         up' \in BOOLEAN, edits' \in Nat,
         client' \in [Macs -> [ip : IPs \cup {NoIP}, until : Nat]],
         \/ proc' = proc
         \/ proc' = [l \in Listeners |-> Idle]
         \/ \E l \in Listeners : \E p \in Proc : proc' = [proc EXCEPT ![l] = p] /\ Busy(p)
  PROVE  TypeOK'
<1>1. \A r, s \in rows' : r.id = s.id \/ Clash(r, s) => r = s
  BY DEF Keys
<1>2. proc' \in [Listeners -> Proc]
  BY IdleType DEF TypeOK
<1>3. Busy(Idle)
  BY DEF Idle, Busy
<1>4. \A l \in Listeners : Busy(proc'[l])
  BY <1>3 DEF TypeOK
<1> QED  BY <1>1, <1>2, <1>4 DEF TypeOK, HeldTyped

LEMMA ListenerTypeOK ==
  ASSUME TypeOK, NEW l \in Listeners, Listener(l), edits' = edits
  PROVE  TypeOK'
<1> USE ConstantTypes
<1> DEFINE p == proc[l]
<1>a. rows \in SUBSET Row /\ Keys(rows)
  BY DEF TypeOK, Keys
<1>b. /\ p \in Proc
      /\ p.pc # "idle" => p.mac \in Macs
      /\ p.pc \notin {"idle", "discover"} => p.ip \in IPs
      /\ p.pc \in {"purge", "save"} => p.lease \in Row
  BY DEF TypeOK, Busy
<1>c. ASSUME Done(l)
      PROVE  \E q \in Proc : proc' = [proc EXCEPT ![l] = q] /\ Busy(q)
  <2>1. Busy(Idle)
    BY DEF Idle, Busy
  <2> QED  BY <1>c, <2>1, IdleType DEF Done
<1>d. ASSUME NEW m \in Macs, NEW state \in [ip : IPs \cup {NoIP}, until : Nat], Answer(m, state)
      PROVE  client' \in [Macs -> [ip : IPs \cup {NoIP}, until : Nat]]
  BY <1>d DEF Answer, TypeOK
<1>e. Without \in [ip : IPs \cup {NoIP}, until : Nat]
  BY DEF Without
<1>f. only \in BOOLEAN /\ now \in Nat /\ up \in BOOLEAN /\ edits \in Nat
        /\ client \in [Macs -> [ip : IPs \cup {NoIP}, until : Nat]]
  BY DEF TypeOK
<1>g. now + RecordLease \in Nat
  BY <1>f
<1>h. HeldTyped'
  <2>1. held' = held \/ held' = [w \in Writers |-> Free]
    BY DEF Listener, Discover, Request, Decline, Receive, HandleDiscover, RefuseRequest,
           IgnoreRequest, GrantRequest, CreateLease, PurgeLease, SaveLease, HandleDecline
  <2> QED  BY <2>1, HeldSame
<1>1. ASSUME NEW m \in Macs, NEW ip \in IPs \cup {NoIP},
             NEW pc \in {"discover", "request", "decline"}, Receive(l, pc, m, ip),
             pc # "discover" => ip \in IPs
      PROVE  TypeOK'
  <2>1. Load \in SUBSET Row
    BY DEF TypeOK, Load
  <2>2. NewLease(m) \in Address
    BY DEF NewLease, Address, NoIP
  <2> DEFINE q == [pc |-> pc, mac |-> m, ip |-> ip, sent |-> now, snap |-> Load, only |-> only,
                   lease |-> NewLease(m)]
  <2>3. q \in Proc /\ Busy(q)
    BY <1>1, <2>1, <2>2, <1>f DEF Proc, Busy
  <2>4. /\ proc' = [proc EXCEPT ![l] = q] /\ rows' = rows /\ only' = only
        /\ now' = now /\ up' = up /\ client' = client
    BY <1>1 DEF Receive
  <2> HIDE DEF q
  <2> QED  BY <2>3, <2>4, <1>a, <1>f, <1>h, TypeOKStep
<1>2. CASE HandleDiscover(l)
  <2>1. client' \in [Macs -> [ip : IPs \cup {NoIP}, until : Nat]]
    BY <1>2, <1>b, <1>d, <1>f DEF HandleDiscover
  <2> QED  BY <1>2, <2>1, <1>a, <1>c, <1>f, <1>h, TypeOKStep DEF HandleDiscover
<1>3. CASE RefuseRequest(l)
  <2>1. client' \in [Macs -> [ip : IPs \cup {NoIP}, until : Nat]]
    BY <1>3, <1>b, <1>d, <1>e DEF RefuseRequest
  <2> QED  BY <1>3, <2>1, <1>a, <1>c, <1>f, <1>h, TypeOKStep DEF RefuseRequest
<1>4. CASE IgnoreRequest(l)
  BY <1>4, <1>a, <1>c, <1>f, <1>h, TypeOKStep DEF IgnoreRequest
<1>5. CASE GrantRequest(l)
  <2>1. PICK lease \in IF LeaseRow(p.snap, p.mac) = {} THEN {NewLease(p.mac)}
                                                       ELSE LeaseRow(p.snap, p.mac) :
          proc' = [proc EXCEPT
            ![l].pc = IF lease.id = 0 THEN "create" ELSE "purge",
            ![l].lease = [lease EXCEPT !.ip = p.ip, !.pooled = TRUE,
                                       !.expires = now + RecordLease]]
    BY <1>5 DEF GrantRequest
  <2>2. lease \in Address
    <3>1. NewLease(p.mac) \in Address
      BY <1>b DEF NewLease, Address, NoIP, Proc
    <3>2. LeaseRow(p.snap, p.mac) \subseteq Address
      BY <1>b DEF LeaseRow, Row, Proc
    <3> QED  BY <3>1, <3>2
  <2> DEFINE written == [lease EXCEPT !.ip = p.ip, !.pooled = TRUE, !.expires = now + RecordLease]
             q == [p EXCEPT !.pc = IF lease.id = 0 THEN "create" ELSE "purge", !.lease = written]
  <2>3. written \in Address /\ written.id = lease.id
    <3>1. p.ip \in Nat
      BY <1>b DEF Proc, NoIP
    <3> QED  BY <2>2, <3>1, <1>g DEF Address
  <2>4. q \in Proc /\ q.mac \in Macs
    BY <2>3, <1>b, <1>5 DEF Proc, GrantRequest
  <2>5. Busy(q)
    BY <2>3, <2>4, <1>b, <1>5 DEF Row, Proc, Busy, GrantRequest
  <2>6. proc' = [proc EXCEPT ![l] = q]
    BY <2>1 DEF TypeOK
  <2> HIDE DEF q
  <2> QED  BY <2>4, <2>5, <2>6, <1>5, <1>a, <1>f, <1>h, TypeOKStep DEF GrantRequest
<1>6. ASSUME Ack(l), proc[l].pc # "idle"
      PROVE  client' \in [Macs -> [ip : IPs \cup {NoIP}, until : Nat]]
  BY <1>6, <1>b, <1>d DEF Ack, Proc
<1>7. CASE CreateLease(l)
  <2>1. PICK i \in NewIds : rows' = Insert(rows, [p.lease EXCEPT !.id = i])
    BY <1>7 DEF CreateLease
  <2>2. i \in Nat \ {0} /\ \A r \in rows : r.id # i
    BY NewIdFresh, <1>a
  <2>3. [p.lease EXCEPT !.id = i] \in Row /\ [p.lease EXCEPT !.id = i].id = i
    BY <2>2, <1>b DEF Row, Address, Proc
  <2>4. rows' \in SUBSET Row /\ Keys(rows')
    BY <2>1, <2>2, <2>3, <1>a, InsertKeys
  <2> QED  BY <1>7, <2>4, <1>6, <1>c, <1>f, <1>h, TypeOKStep DEF CreateLease, Ack
<1>8. CASE PurgeLease(l)
  <2> DEFINE q == [p EXCEPT !.pc = "save"]
  <2>1. rows' \subseteq rows
    BY <1>8 DEF PurgeLease
  <2>2. rows' \in SUBSET Row /\ Keys(rows')
    BY <2>1, <1>a DEF Keys
  <2>3. q \in Proc /\ Busy(q)
    BY <1>8, <1>b DEF Proc, PurgeLease, Busy
  <2>4. proc' = [proc EXCEPT ![l] = q]
    BY <1>8 DEF PurgeLease, TypeOK
  <2> HIDE DEF q
  <2> QED  BY <1>8, <2>2, <2>3, <2>4, <1>f, <1>h, TypeOKStep DEF PurgeLease
<1>9. CASE SaveLease(l)
  <2>1. rows' \in SUBSET Row /\ Keys(rows')
    BY <1>9, <1>a, <1>b, SaveKeys DEF SaveLease
  <2> QED  BY <1>9, <2>1, <1>6, <1>c, <1>f, <1>h, TypeOKStep DEF SaveLease, Ack
<1>10. CASE HandleDecline(l)
  <2>1. PICK r \in DeclinedRow(p.snap, p.ip) :
          LET blocked == [r EXCEPT !.mac = NoMac, !.pooled = TRUE, !.expires = now + RecordLease] IN
          IF r.id = 0 THEN \E i \in NewIds : rows' = Insert(rows, [blocked EXCEPT !.id = i])
                      ELSE rows' = Save(rows, blocked)
    BY <1>10 DEF HandleDecline
  <2> DEFINE blocked == [r EXCEPT !.mac = NoMac, !.pooled = TRUE, !.expires = now + RecordLease]
  <2>2. r \in Address
    <3>1. [NewLease(NoMac) EXCEPT !.ip = p.ip] \in Address
      BY <1>b DEF NewLease, Address, NoIP, Proc
    <3>2. p.snap \subseteq Address
      BY <1>b DEF Row, Proc
    <3> QED  BY <3>1, <3>2 DEF DeclinedRow, PoolRows
  <2>3. blocked \in Address /\ blocked.id = r.id
    BY <2>2, <1>g DEF Address
  <2> HIDE DEF blocked
  <2>4. ASSUME r.id = 0 PROVE rows' \in SUBSET Row /\ Keys(rows')
    <3>1. PICK i \in NewIds : rows' = Insert(rows, [blocked EXCEPT !.id = i])
      BY <2>1, <2>4 DEF blocked
    <3>2. i \in Nat \ {0} /\ \A s \in rows : s.id # i
      BY NewIdFresh, <1>a
    <3>3. [blocked EXCEPT !.id = i] \in Row /\ [blocked EXCEPT !.id = i].id = i
      BY <3>2, <2>3 DEF Row, Address
    <3> QED  BY <3>1, <3>2, <3>3, <1>a, InsertKeys
  <2>5. ASSUME r.id # 0 PROVE rows' \in SUBSET Row /\ Keys(rows')
    <3>1. rows' = Save(rows, blocked)
      BY <2>1, <2>5 DEF blocked
    <3>2. blocked \in Row
      BY <2>3, <2>5 DEF Row
    <3> QED  BY <3>1, <3>2, <1>a, SaveKeys
  <2>6. client' \in [Macs -> [ip : IPs \cup {NoIP}, until : Nat]]
    BY <1>10, <1>b, <1>e, <1>f DEF HandleDecline
  <2>7. rows' \in SUBSET Row /\ Keys(rows')
    BY <2>4, <2>5
  <2> QED  BY <1>10, <2>6, <2>7, <1>f, <1>h, TypeOKStep DEF HandleDecline
<1>11. CASE \E m \in Macs : Discover(l, m) \/ Request(l, m) \/ Decline(l, m)
  BY <1>11, <1>1, <1>f DEF Discover, Request, Decline
<1> QED  BY <1>2, <1>3, <1>4, <1>5, <1>7, <1>8, <1>9, <1>10, <1>11 DEF Listener

\* A copy that is taken of a row, perhaps with another flag.
LEMMA TakeTypeOK ==
  ASSUME TypeOK, NEW w \in Writers, NEW pc \in {"save", "start", "clear"}, NEW item \in Row,
         Take(w, pc, item), edits' \in Nat
  PROVE  TypeOK'
<1> DEFINE h == [pc |-> pc, item |-> item]
<1>1. h \in Held /\ h.item \in Row
  BY DEF Held, Row
<1>2. held' = [held EXCEPT ![w] = h]
  BY DEF Take
<1> HIDE DEF h
<1>3. HeldTyped'
  BY <1>1, <1>2, HeldChanged
<1>4. /\ rows \in SUBSET Row /\ Keys(rows) /\ only \in BOOLEAN /\ now \in Nat /\ up \in BOOLEAN
      /\ client \in [Macs -> [ip : IPs \cup {NoIP}, until : Nat]]
  BY DEF TypeOK, Keys
<1> QED  BY <1>3, <1>4, TypeOKStep DEF Take

LEMMA ReflagType ==
  ASSUME NEW r \in Row, NEW flag \in BOOLEAN
  PROVE  [r EXCEPT !.reimage = flag] \in Row
  BY DEF Row, Address

LEMMA WriterTypeOK ==
  ASSUME TypeOK, NEW w \in Writers, Writer(w)
  PROVE  TypeOK'
<1>a. /\ rows \in SUBSET Row /\ Keys(rows) /\ only \in BOOLEAN /\ now \in Nat /\ up \in BOOLEAN
      /\ edits \in Nat /\ client \in [Macs -> [ip : IPs \cup {NoIP}, until : Nat]]
  BY DEF TypeOK, Keys
<1>b. held[w] \in Held /\ (held[w].pc # "idle" => held[w].item \in Row)
  BY DEF TypeOK
<1>1. CASE \E ip \in IPs : LoadTransfer(w, ip) \/ LoadKickstart(w, ip)
  <2>1. PICK ip \in IPs : \E r \in RowOf(ip), pc \in {"save", "clear"} :
          Take(w, pc, r) /\ edits' = edits
    BY <1>1 DEF LoadTransfer, LoadKickstart
  <2>2. RowOf(ip) \subseteq Row
    BY <1>a DEF RowOf, FirstById
  <2> QED  BY <2>1, <2>2, <1>a, TakeTypeOK
<1>2. CASE ClearFlag(w)
  <2>1. rows' \in SUBSET Row /\ Keys(rows')
    <3>1. ASSUME NEW r \in rows, rows' = Save(rows, [r EXCEPT !.reimage = FALSE])
          PROVE  rows' \in SUBSET Row /\ Keys(rows')
      <4>1. [r EXCEPT !.reimage = FALSE] \in Row
        BY <1>a, ReflagType
      <4> QED  BY <3>1, <4>1, <1>a, SaveKeys
    <3>2. rows' = rows \/ \E r \in rows : rows' = Save(rows, [r EXCEPT !.reimage = FALSE])
      BY <1>2 DEF ClearFlag
    <3> QED  BY <3>1, <3>2, <1>a
  <2>2. HeldTyped'
    <3> DEFINE h == [pc |-> "kickstart", item |-> [held[w].item EXCEPT !.reimage = FALSE]]
    <3>1. h \in Held /\ h.item \in Row
      <4>1. held[w].item \in Row
        BY <1>b, <1>2 DEF ClearFlag
      <4>2. [held[w].item EXCEPT !.reimage = FALSE] \in Row
        BY <4>1, ReflagType
      <4> QED  BY <4>2 DEF Held, Row
    <3>2. held' = [held EXCEPT ![w] = h] \/ held' = [held EXCEPT ![w] = Free]
      BY <1>2, <1>b DEF ClearFlag, Held, TypeOK
    <3> HIDE DEF h
    <3> QED  BY <3>1, <3>2, FreeType, HeldChanged
  <2> QED  BY <1>2, <2>1, <2>2, <1>a, TypeOKStep DEF ClearFlag
<1>3. CASE SaveCopy(w)
  <2>1. held[w].pc \in {"save", "kickstart", "start", "reboot"}
    BY <1>3 DEF SaveCopy, AfterSave
  <2>2. rows' \in SUBSET Row /\ Keys(rows')
    BY <1>3, <2>1, <1>a, <1>b, SaveKeys DEF SaveCopy
  <2>3. PICK pc \in AfterSave[held[w].pc] :
          held' = [held EXCEPT ![w] = IF pc = "idle" THEN Free ELSE [held[w] EXCEPT !.pc = pc]]
    BY <1>3 DEF SaveCopy
  <2>a. pc \in {"idle", "start", "poll", "save"}
    BY <2>1, <2>3 DEF AfterSave
  <2> DEFINE h == IF pc = "idle" THEN Free ELSE [held[w] EXCEPT !.pc = pc]
  <2>4. h \in Held /\ (h.pc # "idle" => h.item \in Row)
    BY <2>1, <2>a, <1>b, FreeType DEF Held
  <2>5. held' = [held EXCEPT ![w] = h]
    BY <2>3
  <2> HIDE DEF h
  <2>6. HeldTyped'
    BY <2>4, <2>5, HeldChanged
  <2> QED  BY <1>3, <2>2, <2>6, <1>a, TypeOKStep DEF SaveCopy
<1>4. CASE Poll(w)
  <2>1. HeldTyped'
    <3>1. CASE held' = [held EXCEPT ![w] = Free]
      BY <3>1, FreeType, HeldChanged
    <3>2. ASSUME NEW r \in rows, NEW pc \in {"reboot", "save"},
                 held' = [held EXCEPT ![w] = [pc |-> pc, item |-> r]]
          PROVE  HeldTyped'
      <4> DEFINE h == [pc |-> pc, item |-> r]
      <4>1. h \in Held /\ h.item \in Row
        BY <1>a DEF Held, Row
      <4>2. held' = [held EXCEPT ![w] = h]
        BY <3>2
      <4> HIDE DEF h
      <4> QED  BY <4>1, <4>2, HeldChanged
    <3> QED  BY <1>4, <3>1, <3>2 DEF Poll
  <2> QED  BY <1>4, <2>1, <1>a, TypeOKStep DEF Poll
<1> QED  BY <1>1, <1>2, <1>3, <1>4 DEF Writer

LEMMA NextTypeOK == TypeOK /\ [DhcpNext]_vars => TypeOK'
<1> SUFFICES ASSUME TypeOK, [DhcpNext]_vars PROVE TypeOK'
  OBVIOUS
<1>a. rows \in SUBSET Row /\ Keys(rows)
  BY DEF TypeOK, Keys
<1>b. /\ only \in BOOLEAN /\ now \in Nat /\ up \in BOOLEAN /\ edits \in Nat
      /\ client \in [Macs -> [ip : IPs \cup {NoIP}, until : Nat]]
  BY DEF TypeOK
<1>1. CASE \E l \in Listeners : Listener(l)
  <2>1. edits' = edits
    BY <1>1 DEF Listener, Discover, Request, Decline, Receive, HandleDiscover, RefuseRequest,
                IgnoreRequest, GrantRequest, CreateLease, PurgeLease, SaveLease, HandleDecline
  <2> QED  BY <1>1, <2>1, ListenerTypeOK
<1>2. ASSUME NEW ip \in IPs, NEW mac \in HostMacs, NEW reimage \in BOOLEAN,
             CreateHost(ip, mac, reimage), edits' \in Nat
      PROVE  TypeOK'
  <2>1. PICK i \in NewIds :
          rows' = Insert(rows, [id |-> i, ip |-> ip, mac |-> mac, reimage |-> reimage,
                                expires |-> 0, pooled |-> TRUE])
    BY <1>2 DEF CreateHost
  <2> DEFINE r == [id |-> i, ip |-> ip, mac |-> mac, reimage |-> reimage,
                   expires |-> 0, pooled |-> TRUE]
  <2>2. i \in Nat \ {0} /\ \A s \in rows : s.id # i
    BY NewIdFresh, <1>a
  <2>3. r \in Row /\ r.id = i
    BY <2>2, ConstantTypes, SeedAssumption DEF Row, Address
  <2> HIDE DEF r
  <2>4. rows' \in SUBSET Row /\ Keys(rows')
    BY <2>1, <2>2, <2>3, <1>a, InsertKeys DEF r
  <2> QED  BY <1>2, <2>4, <1>b, HeldSame, TypeOKStep DEF CreateHost
<1>3. ASSUME NEW w \in Writers, NEW r \in rows, edits' \in Nat,
             (\E reimage \in BOOLEAN : LoadUpdate(w, r, reimage)) \/ StartWorker(w, r)
      PROVE  TypeOK'
  <2>1. CASE StartWorker(w, r)
    BY <2>1, <1>3, <1>a, TakeTypeOK DEF StartWorker
  <2>2. ASSUME NEW reimage \in BOOLEAN, LoadUpdate(w, r, reimage) PROVE TypeOK'
    <3>1. PICK item : item = [r EXCEPT !.reimage = reimage]
      OBVIOUS
    <3>2. item \in Row
      BY <3>1, <1>a, ReflagType
    <3> QED  BY <2>2, <3>1, <3>2, <1>3, TakeTypeOK DEF LoadUpdate
  <2> QED  BY <1>3, <2>1, <2>2
<1>4. CASE \E w \in Writers : Writer(w)
  BY <1>4, WriterTypeOK
<1>6. ASSUME NEW r \in rows, DeleteHost(r), edits' \in Nat PROVE TypeOK'
  <2>1. rows' \in SUBSET Row /\ Keys(rows')
    BY <1>6, <1>a DEF DeleteHost, Keys
  <2> QED  BY <1>6, <2>1, <1>b, HeldSame, TypeOKStep DEF DeleteHost
<1>7. ASSUME UpdatePool, edits' \in Nat PROVE TypeOK'
  BY <1>7, <1>a, <1>b, HeldSame, TypeOKStep DEF UpdatePool
<1>9. CASE Crash \/ Restart
  BY <1>9, <1>a, <1>b, HeldSame, TypeOKStep DEF Crash, Restart
<1>10. CASE Tick
  BY <1>10, <1>a, <1>b, HeldSame, TypeOKStep DEF Tick
<1>11. CASE UNCHANGED vars
  BY <1>11, <1>a, <1>b, HeldSame, TypeOKStep DEF vars
<1>12. CASE Operator
  <2>1. edits' \in Nat
    BY <1>12, <1>b DEF Operator
  <2> QED  BY <1>12, <2>1, <1>2, <1>3, <1>6, <1>7 DEF Operator
<1> QED  BY <1>1, <1>4, <1>9, <1>10, <1>11, <1>12 DEF DhcpNext

\* The variables keep their types, and the table its primary key and its unique
\* index, whatever the handlers, the administrators and crashes do.
THEOREM TypeCorrect == Spec => []TypeOK
  BY InitTypeOK, NextTypeOK, PTL DEF Spec

(***************************************************************************)
(* The two checks.                                                         *)
(***************************************************************************)
\* Where the offer is the client's own row, the request finds that row alone;
\* where it is the next free address, no row of the client is usable and nobody
\* has the address.
LEMMA OffersGranted == OfferAccepted
<1> SUFFICES ASSUME NEW m \in Macs,
                    \A r, s \in Load : r.mac = m /\ s.mac = m => r = s,
                    \A r \in rows : ~Blank(r),
                    NEW ip \in Offers(Load, only, m)
             PROVE  Granted(Load, only, m, ip)
  BY DEF OfferAccepted
<1> DEFINE own == {r \in Load : r.mac = m}
           usable == {r \in own : AvailableTo(Load, r.ip, m)}
<1>1. \A r, s \in own : r = s
  OBVIOUS
<1>2. LeaseRow(Load, m) = own
  BY <1>1 DEF LeaseRow
<1>3. OfferRow(Load, m) = usable
  BY <1>1 DEF OfferRow
<1>4. Served(only, usable)
  BY <1>3 DEF Offers
<1>5. CASE usable # {}
  <2>1. PICK r \in usable : ip = r.ip
    BY <1>3, <1>4, <1>5 DEF Offers
  <2>2. own = {r} /\ usable = {r} /\ AvailableTo(Load, ip, m)
    BY <1>1, <2>1
  <2>3. ~HasOtherLease(Load, m, ip)
    BY <2>1, <2>2 DEF HasOtherLease
  <2>4. ~Refused(Load, m, ip)
    BY <1>2, <2>1, <2>2, <2>3 DEF Refused
  <2> QED BY <1>2, <1>4, <2>2, <2>4 DEF Granted
<1>6. CASE usable = {}
  <2> DEFINE free == {a \in Network(Pool) : Available(Load, a)}
  <2>1. ip = Next(Pool, free) /\ ip # NoIP
    BY <1>3, <1>4, <1>6 DEF Offers
  <2>2. Available(Load, ip)
    <3> HIDE DEF free
    <3>1. Pool.start # NoIP
      BY <2>1 DEF Next
    <3>2. ip \in free
      BY <2>1, <3>1, NextIsLeast, PoolAssumption
    <3> QED BY <3>2 DEF free
  <2>3. AvailableTo(Load, ip, m)
    <3>1. /\ Contains(Pool, ip) /\ ip # Pool.gateway
          /\ \A r \in PoolRows(Load) : r.ip = ip /\ Live(r, now) => r.mac = NoMac
          /\ \A r \in rows : r.ip = ip /\ r.reimage => r.mac = NoMac
      BY <2>2 DEF Available, IsAvailable, IsAvailableExcept
    <3>2. \A r \in PoolRows(Load) : r \in rows
      BY DEF PoolRows, Load
    <3>3. \A r \in PoolRows(Load) : ~(r.ip = ip /\ Live(r, now))
      BY <3>1, <3>2 DEF Blank
    <3>4. \A r \in rows : ~(r.ip = ip /\ r.reimage)
      BY <3>1 DEF Blank
    <3> QED BY <3>1, <3>3, <3>4 DEF AvailableTo, IsAvailableExcept
  <2>4. ~HasOtherLease(Load, m, ip)
    BY <1>6 DEF HasOtherLease
  <2>5. ~Refused(Load, m, ip)
    BY <2>2, <2>3, <2>4 DEF Refused
  <2>6. ~only
    BY <1>4, <1>6 DEF Served
  <2> QED BY <2>5, <2>6 DEF Granted, Served
<1> QED BY <1>5, <1>6

\* What DISCOVER offers (dhcp.go:66-94), REQUEST grants (dhcp.go:155-203) when
\* nothing happens in between, though each checks the rows in its own way.
THEOREM OffersAreGranted == Spec => []OfferAccepted
BY OffersGranted, PTL

(***************************************************************************)
(* Leases.                                                                 *)
(*                                                                         *)
(* RecordedExclusive is not inductive: it says nothing of a handler that   *)
(* has loaded the table, or has decided, and is going to write.  LeaseInv  *)
(* adds what such a handler knows of its address in the table as it is     *)
(* now, and IdInv what it knows of the id it is going to write.            *)
(***************************************************************************)
InPool(ip) == Contains(Pool, ip) /\ ip # Pool.gateway

\* A running lease is in the loaded list and in the pool.
LeasesInPool == \A r \in rows : Leased(r) => r.pooled /\ InPool(r.ip)

\* A handler that is going to decide has every running lease of the address in
\* its snapshot; it may have been written over by an older copy since.
Loaded(p) ==
  p.pc = "request" =>
    \A r \in rows : Leased(r) /\ r.ip = p.ip => \E s \in p.snap : Covers(r, s)

\* A handler that is going to write a lease breaks nobody else's by its address.
Decided(p) ==
  p.pc \in {"create", "purge", "save"} =>
    /\ p.lease.mac = p.mac /\ p.lease.ip = p.ip /\ p.lease.pooled
    /\ InPool(p.ip)
    /\ \A r \in rows : Leased(r) /\ r.ip = p.ip => r.mac = p.mac

LeaseInv ==
  /\ LeasesInPool
  /\ RecordedExclusive
  /\ \A l \in Listeners : Loaded(proc[l]) /\ Decided(proc[l])

\* A handler that is going to decide has every running lease in its snapshot.
Current(p) ==
  p.pc = "request" =>
    /\ \A r \in rows : Leased(r) => \E s \in p.snap : Covers(r, s)
    /\ \A s, t \in p.snap : s.id = t.id => s = t

\* A handler that is going to write a lease breaks nobody else's by its id.
Owned(p) ==
  p.pc \in {"create", "purge", "save"} =>
    \A r \in rows : Leased(r) /\ r.id = p.lease.id => r.mac = p.mac

IdInv == \A l \in Listeners : Current(proc[l]) /\ Owned(proc[l])

\* Every lease that runs after the step ran before it, and as long at least.
NoNewLease == \A r \in rows' : Leased(r)' => \E q \in rows : Leased(q) /\ Covers(r, q)

LEMMA CoversTransitive ==
  ASSUME NEW r \in Row, NEW q \in Row, NEW s \in Row, Covers(r, q), Covers(q, s)
  PROVE  Covers(r, s)
  BY DEF Covers, Row, Address

LEMMA CoversSelf ==
  ASSUME NEW r \in Row
  PROVE  Covers(r, r)
  BY DEF Covers, Row, Address

(***************************************************************************)
(* Steps that grant nothing.                                               *)
(***************************************************************************)
LEMMA NoNewLeaseInv ==
  ASSUME LeaseInv, NoNewLease
  PROVE  LeasesInPool' /\ RecordedExclusive'
<1>1. LeasesInPool'
  BY DEF LeaseInv, LeasesInPool, NoNewLease, Covers, InPool
<1>2. RecordedExclusive'
  BY DEF LeaseInv, RecordedExclusive, NoNewLease, Covers
<1> QED  BY <1>1, <1>2

\* A lease that runs after the step is covered by what covered those before it.
LEMMA StillCovered ==
  ASSUME TypeOK, TypeOK', NoNewLease, NEW snap \in SUBSET Row, NEW r \in rows', Leased(r)'
  PROVE  \E q \in rows : /\ Leased(q) /\ q.ip = r.ip /\ q.id = r.id /\ q.mac = r.mac
                         /\ \A s \in snap : Covers(q, s) => Covers(r, s)
<1>1. PICK q \in rows : Leased(q) /\ Covers(r, q)
  BY DEF NoNewLease
<1>2. r \in Row /\ q \in Row
  BY DEF TypeOK
<1>3. \A s \in snap : Covers(q, s) => Covers(r, s)
  BY <1>1, <1>2, CoversTransitive
<1>4. q.ip = r.ip /\ q.id = r.id /\ q.mac = r.mac
  BY <1>1 DEF Covers
<1> QED  BY <1>1, <1>3, <1>4

LEMMA NoNewLeaseProc ==
  ASSUME TypeOK, TypeOK', LeaseInv, NoNewLease, NEW l \in Listeners, proc'[l] = proc[l]
  PROVE  (Loaded(proc[l]) /\ Decided(proc[l]))'
<1>1. Loaded(proc[l])'
  <2>1. proc[l].snap \in SUBSET Row
    BY DEF TypeOK, Proc
  <2>2. Loaded(proc[l])
    BY DEF LeaseInv
  <2> QED  BY <2>1, <2>2, StillCovered DEF Loaded
<1>2. Decided(proc[l])'
  BY DEF LeaseInv, NoNewLease, Decided, Covers, InPool
<1> QED  BY <1>1, <1>2

LEMMA NoNewLeaseIds ==
  ASSUME TypeOK, TypeOK', IdInv, NoNewLease, NEW l \in Listeners, proc'[l] = proc[l]
  PROVE  (Current(proc[l]) /\ Owned(proc[l]))'
<1>1. Current(proc[l])'
  <2>1. proc[l].snap \in SUBSET Row
    BY DEF TypeOK, Proc
  <2>2. Current(proc[l])
    BY DEF IdInv
  <2> QED  BY <2>1, <2>2, StillCovered DEF Current
<1>2. Owned(proc[l])'
  BY DEF IdInv, NoNewLease, Owned, Covers
<1> QED  BY <1>1, <1>2

\* Nothing is claimed of a handler that is not about to decide or to write.
LEMMA NotDeciding ==
  ASSUME NEW l \in Listeners, ~Deciding(l)'
  PROVE  (Loaded(proc[l]) /\ Decided(proc[l]) /\ Current(proc[l]) /\ Owned(proc[l]))'
  BY DEF Loaded, Decided, Current, Owned, Deciding

LEMMA IdleInv ==
  ASSUME NEW l \in Listeners, proc'[l] = Idle
  PROVE  (Loaded(proc[l]) /\ Decided(proc[l]) /\ Current(proc[l]) /\ Owned(proc[l]))'
  BY NotDeciding DEF Deciding, Idle

LEMMA NoNewLeaseStep ==
  ASSUME TypeOK, TypeOK', LeaseInv, NoNewLease, \A l \in Listeners : proc'[l] \in {proc[l], Idle}
  PROVE  LeaseInv' /\ (IdInv => IdInv')
<1>1. LeasesInPool' /\ RecordedExclusive'
  BY NoNewLeaseInv
<1>2. ASSUME NEW l \in Listeners PROVE (Loaded(proc[l]) /\ Decided(proc[l]))'
  BY NoNewLeaseProc, IdleInv
<1>3. ASSUME IdInv, NEW l \in Listeners PROVE (Current(proc[l]) /\ Owned(proc[l]))'
  BY <1>3, NoNewLeaseIds, IdleInv
<1> QED  BY <1>1, <1>2, <1>3 DEF LeaseInv, IdInv

\* Rows that stay, that carry no more than a row did or that do not run are no new
\* leases.
LEMMA NoNewLeaseIf ==
  ASSUME TypeOK, rows' \subseteq Row, now' \in Nat, now' >= now,
         \A r \in rows' : r \in rows \/ ~Leased(r)' \/ \E q \in rows : Covers(r, q)
  PROVE  NoNewLease
<1> SUFFICES ASSUME NEW r \in rows', Leased(r)'
             PROVE  \E q \in rows : Leased(q) /\ Covers(r, q)
  BY DEF NoNewLease
<1>1. PICK q \in rows : Covers(r, q)
  <2>1. rows \subseteq Row
    BY DEF TypeOK
  <2> QED  BY <2>1, CoversSelf
<1>2. q.expires >= r.expires /\ q.mac = r.mac
  BY <1>1 DEF Covers, TypeOK, Row, Address
<1>3. q.expires \in Nat /\ r.expires \in Nat /\ now \in Nat
  BY DEF TypeOK, Row, Address
<1>4. Leased(q)
  BY <1>2, <1>3 DEF Leased, Live
<1> QED  BY <1>1, <1>4

(***************************************************************************)
(* The steps of the listener.                                              *)
(***************************************************************************)
LEMMA SameRowsNoNewLease ==
  ASSUME TypeOK, rows' \subseteq rows, now' = now
  PROVE  NoNewLease
<1>1. rows \subseteq Row /\ now \in Nat
  BY DEF TypeOK
<1> QED  BY <1>1, NoNewLeaseIf

LEMMA InitLeaseInv == Init => LeaseInv /\ IdInv
<1> SUFFICES ASSUME Init PROVE LeaseInv /\ IdInv
  OBVIOUS
<1>1. \A r \in rows : ~Leased(r)
  BY SeedAssumption DEF Init, Leased, Live
<1>2. \A l \in Listeners : proc[l].pc = "idle"
  BY DEF Init, Idle
<1> QED  BY <1>1, <1>2 DEF LeaseInv, LeasesInPool, RecordedExclusive, Loaded, Decided,
                           IdInv, Current, Owned

LEMMA ReceiveInv ==
  ASSUME TypeOK, TypeOK', LeaseInv, NEW l \in Listeners,
         NEW pc \in {"discover", "request", "decline"},
         NEW m, NEW ip, Receive(l, pc, m, ip)
  PROVE  LeaseInv' /\ (IdInv => IdInv')
<1>1. rows' = rows /\ now' = now
  BY DEF Receive
<1>2. NoNewLease
  BY <1>1, SameRowsNoNewLease
<1>3. LeasesInPool' /\ RecordedExclusive'
  BY <1>2, NoNewLeaseInv
<1>4. ASSUME NEW k \in Listeners, k # l PROVE proc'[k] = proc[k]
  BY <1>4 DEF Receive, TypeOK
<1>5. (Loaded(proc[l]) /\ Decided(proc[l]) /\ Current(proc[l]) /\ Owned(proc[l]))'
  <2>1. proc'[l].pc = pc /\ proc'[l].snap = Load
    BY DEF Receive, TypeOK
  <2>2. \A r \in rows : Leased(r) => r \in Load
    BY DEF LeaseInv, LeasesInPool, Load
  <2>3. \A s, t \in Load : s.id = t.id => s = t
    BY DEF Load, TypeOK
  <2>4. \A r \in rows : Covers(r, r)
    BY CoversSelf DEF TypeOK
  <2> QED  BY <2>1, <2>2, <2>3, <2>4, <1>1 DEF Loaded, Decided, Current, Owned, Leased
<1>6. LeaseInv'
  BY <1>2, <1>3, <1>4, <1>5, NoNewLeaseProc DEF LeaseInv
<1>7. IdInv => IdInv'
  BY <1>2, <1>4, <1>5, NoNewLeaseIds DEF IdInv
<1> QED  BY <1>6, <1>7

\* The check of processRequest: a granted address is nobody else's.
LEMMA GrantChecked ==
  ASSUME TypeOK, LeaseInv, NEW l \in Listeners, proc[l].pc = "request",
         Granted(proc[l].snap, proc[l].only, proc[l].mac, proc[l].ip)
  PROVE  /\ InPool(proc[l].ip)
         /\ \A r \in rows : Leased(r) /\ r.ip = proc[l].ip => r.mac = proc[l].mac
<1> DEFINE p == proc[l]
<1>0. proc[l].mac # NoMac
  BY MacAssumption DEF TypeOK, Busy
<1>1. PICK m \in {p.mac, NoMac} : AvailableTo(p.snap, p.ip, m)
  <2>1. ~Refused(p.snap, p.mac, p.ip)
    BY DEF Granted
  <2>2. CASE LeaseRow(p.snap, p.mac) # {}
    BY <2>1, <2>2 DEF Refused
  <2>3. CASE LeaseRow(p.snap, p.mac) = {}
    BY <2>1, <2>3 DEF Refused, Available, IsAvailable, AvailableTo
  <2> QED  BY <2>2, <2>3
<1>2. InPool(p.ip)
  BY <1>1 DEF AvailableTo, IsAvailableExcept, InPool
<1>3. ASSUME NEW r \in rows, Leased(r), r.ip = p.ip PROVE r.mac = p.mac
  <2>1. PICK s \in p.snap : Covers(r, s)
    BY <1>3 DEF LeaseInv, Loaded
  <2>2. s \in PoolRows(p.snap) /\ s.ip = p.ip /\ Live(s, now) /\ s.mac = r.mac /\ r.mac # NoMac
    <3>1. r \in Row /\ s \in Row /\ now \in Nat
      BY DEF TypeOK, Proc
    <3>2. r.expires \in Nat /\ s.expires \in Nat /\ r.expires <= s.expires
      BY <2>1, <3>1 DEF Covers, Row, Address
    <3>3. Live(s, now)
      BY <3>1, <3>2, <1>3 DEF Leased, Live
    <3> QED  BY <2>1, <3>3, <1>3 DEF LeaseInv, LeasesInPool, Covers, PoolRows, Leased
  <2>3. s.mac = m
    BY <2>2, <1>1 DEF AvailableTo, IsAvailableExcept
  <2> QED  BY <2>2, <2>3
<1> QED  BY <1>2, <1>3

\* The row of the client that a grant starts from.
LEMMA GrantedRow ==
  ASSUME TypeOK, NEW l \in Listeners, GrantRequest(l)
  PROVE  \E lease \in Address :
           /\ lease.mac = proc[l].mac
           /\ lease.id = 0 \/ lease \in proc[l].snap
           /\ proc' = [proc EXCEPT
                ![l].pc = IF lease.id = 0 THEN "create" ELSE "purge",
                ![l].lease = [lease EXCEPT !.ip = proc[l].ip, !.pooled = TRUE,
                                           !.expires = now + RecordLease]]
<1> DEFINE p == proc[l]
<1>0. p \in Proc
  BY DEF TypeOK
<1>1. PICK lease \in IF LeaseRow(p.snap, p.mac) = {} THEN {NewLease(p.mac)}
                                                     ELSE LeaseRow(p.snap, p.mac) :
        proc' = [proc EXCEPT
          ![l].pc = IF lease.id = 0 THEN "create" ELSE "purge",
          ![l].lease = [lease EXCEPT !.ip = p.ip, !.pooled = TRUE,
                                     !.expires = now + RecordLease]]
  BY DEF GrantRequest
<1>2. CASE LeaseRow(p.snap, p.mac) = {}
  <2>1. lease = NewLease(p.mac)
    BY <1>1, <1>2
  <2>2. lease \in Address /\ lease.mac = p.mac /\ lease.id = 0
    BY <2>1, <1>0 DEF NewLease, Address, NoIP, Proc
  <2> QED  BY <2>2, <1>1
<1>3. CASE LeaseRow(p.snap, p.mac) # {}
  <2>1. lease \in p.snap /\ lease.mac = p.mac
    BY <1>1, <1>3 DEF LeaseRow
  <2>2. lease \in Address
    BY <2>1, <1>0 DEF Proc, Row
  <2> QED  BY <2>1, <2>2, <1>1
<1> QED  BY <1>2, <1>3

LEMMA GrantInv ==
  ASSUME TypeOK, TypeOK', LeaseInv, NEW l \in Listeners, GrantRequest(l)
  PROVE  LeaseInv' /\ (IdInv => IdInv')
<1> DEFINE p == proc[l]
           q == proc'[l]
<1>1. rows' = rows /\ now' = now
  BY DEF GrantRequest
<1>2. NoNewLease
  BY <1>1, SameRowsNoNewLease
<1>3. LeasesInPool' /\ RecordedExclusive'
  BY <1>2, NoNewLeaseInv
<1>4. PICK lease \in Address :
           /\ lease.mac = p.mac
           /\ lease.id = 0 \/ lease \in p.snap
           /\ proc' = [proc EXCEPT
                ![l].pc = IF lease.id = 0 THEN "create" ELSE "purge",
                ![l].lease = [lease EXCEPT !.ip = p.ip, !.pooled = TRUE,
                                           !.expires = now + RecordLease]]
  BY GrantedRow
<1>5. ASSUME NEW k \in Listeners, k # l PROVE proc'[k] = proc[k]
  BY <1>4, <1>5 DEF TypeOK
<1>6. /\ q.pc \in {"create", "purge"} /\ q.mac = p.mac /\ q.ip = p.ip
      /\ q.lease.mac = p.mac /\ q.lease.ip = p.ip /\ q.lease.pooled /\ q.lease.id = lease.id
  BY <1>4 DEF TypeOK, Proc, Address
<1>7. (Loaded(proc[l]) /\ Decided(proc[l]))'
  <2>1. InPool(p.ip) /\ \A r \in rows : Leased(r) /\ r.ip = p.ip => r.mac = p.mac
    BY GrantChecked DEF GrantRequest
  <2> QED  BY <2>1, <1>6, <1>1 DEF Loaded, Decided, Leased, InPool
<1>8. ASSUME IdInv PROVE (Current(proc[l]) /\ Owned(proc[l]))'
  <2>1. ASSUME NEW r \in rows, Leased(r), r.id = lease.id PROVE r.mac = p.mac
    <3>1. lease.id # 0
      BY <2>1 DEF TypeOK, Row
    <3>2. PICK s \in p.snap : Covers(r, s)
      BY <1>8, <2>1 DEF IdInv, Current, GrantRequest
    <3>3. \A t \in p.snap : t.id = s.id => t = s
      BY <1>8, <3>2 DEF IdInv, Current, GrantRequest
    <3>4. s = lease
      BY <1>4, <2>1, <3>1, <3>2, <3>3 DEF Covers
    <3> QED  BY <1>4, <3>2, <3>4 DEF Covers
  <2> QED  BY <2>1, <1>1, <1>6 DEF Current, Owned, Leased
<1>9. LeaseInv'
  BY <1>2, <1>3, <1>5, <1>7, NoNewLeaseProc DEF LeaseInv
<1>10. IdInv => IdInv'
  BY <1>2, <1>5, <1>8, NoNewLeaseIds DEF IdInv
<1> QED  BY <1>9, <1>10

\* The write of a decided lease: the rows that stay are other clients' or of
\* other addresses, and so are those the handlers at work on another address
\* rely on.
LEMMA WriteInv ==
  ASSUME Apart, TypeOK, LeaseInv, NEW l \in Listeners, proc[l].pc \in {"create", "save"},
         Done(l), now' = now, NEW new, rows' \subseteq rows \cup {new},
         new.ip = proc[l].ip, new.mac = proc[l].mac, new.pooled
  PROVE  LeaseInv'
<1>1. ASSUME NEW r \in rows', Leased(r)'
      PROVE  (r \in rows /\ Leased(r)) \/ r = new
  BY <1>1 DEF Leased
<1>2. /\ InPool(proc[l].ip)
      /\ \A r \in rows : Leased(r) /\ r.ip = proc[l].ip => r.mac = proc[l].mac
  BY DEF LeaseInv, Decided
<1>3. LeasesInPool'
  BY <1>1, <1>2 DEF LeaseInv, LeasesInPool, InPool
<1>4. RecordedExclusive'
  BY <1>1, <1>2 DEF LeaseInv, RecordedExclusive
<1>5. ASSUME NEW k \in Listeners PROVE (Loaded(proc[k]) /\ Decided(proc[k]))'
  <2>1. CASE k = l
    BY <2>1, IdleInv DEF Done, TypeOK
  <2>2. CASE k # l
    <3>1. proc'[k] = proc[k] /\ Loaded(proc[k]) /\ Decided(proc[k])
      BY <2>2 DEF Done, TypeOK, LeaseInv
    <3>2. CASE ~Deciding(k)
      BY <3>1, <3>2, NotDeciding DEF Deciding
    <3>3. CASE Deciding(k)
      <4>1. proc[k].ip # new.ip
        BY <2>2, <3>3 DEF Apart, Deciding
      <4>2. \A r \in rows' : Leased(r)' /\ r.ip = proc[k].ip => r \in rows /\ Leased(r)
        BY <1>1, <4>1
      <4>3. Loaded(proc[k])'
        BY <3>1, <4>2 DEF Loaded
      <4>4. Decided(proc[k])'
        BY <3>1, <4>2 DEF Decided, InPool
      <4> QED  BY <4>3, <4>4
    <3> QED  BY <3>2, <3>3
  <2> QED  BY <2>1, <2>2
<1> QED  BY <1>3, <1>4, <1>5 DEF LeaseInv

\* When no other handler is about to decide or to write, nothing is claimed of
\* any after the write.
LEMMA WriteIds ==
  ASSUME OneAtATime, TypeOK, NEW l \in Listeners, Deciding(l), Done(l)
  PROVE  IdInv'
<1>1. ASSUME NEW k \in Listeners PROVE ~Deciding(k)'
  <2>1. CASE k = l
    BY <2>1 DEF Done, TypeOK, Deciding, Idle
  <2>2. CASE k # l
    BY <2>2 DEF Done, TypeOK, Deciding, OneAtATime
  <2> QED  BY <2>1, <2>2
<1> QED  BY <1>1, NotDeciding DEF IdInv

LEMMA CreateInv ==
  ASSUME Apart, TypeOK, LeaseInv, NEW l \in Listeners, CreateLease(l)
  PROVE  LeaseInv' /\ (OneAtATime => IdInv')
<1>1. PICK i \in NewIds : rows' = Insert(rows, [proc[l].lease EXCEPT !.id = i])
  BY DEF CreateLease
<1> DEFINE new == [proc[l].lease EXCEPT !.id = i]
<1>2. new.ip = proc[l].ip /\ new.mac = proc[l].mac /\ new.pooled
  BY DEF LeaseInv, Decided, CreateLease, TypeOK, Proc, Address
<1>3. rows' \subseteq rows \cup {new}
  BY <1>1, InsertRows
<1> HIDE DEF new
<1>4. LeaseInv'
  BY <1>2, <1>3, WriteInv DEF CreateLease, Ack
<1> QED  BY <1>4, WriteIds DEF CreateLease, Ack, Deciding

LEMMA PurgeInv ==
  ASSUME TypeOK, TypeOK', LeaseInv, NEW l \in Listeners, PurgeLease(l)
  PROVE  LeaseInv' /\ (IdInv => IdInv')
<1>1. rows' \subseteq rows /\ now' = now
  BY DEF PurgeLease
<1>2. NoNewLease
  BY <1>1, SameRowsNoNewLease
<1>3. LeasesInPool' /\ RecordedExclusive'
  BY <1>2, NoNewLeaseInv
<1>4. ASSUME NEW k \in Listeners, k # l PROVE proc'[k] = proc[k]
  BY <1>4 DEF PurgeLease, TypeOK
<1>5. /\ proc[l].pc = "purge" /\ proc'[l].pc = "save" /\ proc'[l].mac = proc[l].mac
      /\ proc'[l].ip = proc[l].ip /\ proc'[l].lease = proc[l].lease
  BY DEF PurgeLease, TypeOK, Proc
<1>6. (Loaded(proc[l]) /\ Decided(proc[l]))'
  BY <1>1, <1>5 DEF LeaseInv, Loaded, Decided, Leased, InPool
<1>7. IdInv => (Current(proc[l]) /\ Owned(proc[l]))'
  BY <1>1, <1>5 DEF IdInv, Current, Owned, Leased
<1>8. LeaseInv'
  BY <1>2, <1>3, <1>4, <1>6, NoNewLeaseProc DEF LeaseInv
<1>9. IdInv => IdInv'
  BY <1>2, <1>4, <1>7, NoNewLeaseIds DEF IdInv
<1> QED  BY <1>8, <1>9

LEMMA SaveInv ==
  ASSUME Apart, TypeOK, LeaseInv, NEW l \in Listeners, SaveLease(l)
  PROVE  LeaseInv' /\ (OneAtATime => IdInv')
<1> DEFINE new == proc[l].lease
<1>1. rows' \subseteq rows \cup {new}
  BY SaveRows DEF SaveLease
<1>2. new.ip = proc[l].ip /\ new.mac = proc[l].mac /\ new.pooled
  BY DEF LeaseInv, Decided, SaveLease
<1> HIDE DEF new
<1>3. LeaseInv'
  BY <1>1, <1>2, WriteInv DEF SaveLease, Ack
<1> QED  BY <1>3, WriteIds DEF SaveLease, Ack, Deciding

\* A declined address is written without a MAC address, so that it is nobody's
\* lease; at most one row goes, the one with the id of the row that was loaded.
LEMMA DeclineRows ==
  ASSUME TypeOK, NEW l \in Listeners, HandleDecline(l)
  PROVE  /\ \E blocked : rows' \subseteq rows \cup {blocked} /\ blocked.mac = NoMac
         /\ \E id : \A r \in rows : r.id # id => r \in rows'
<1> DEFINE p == proc[l]
<1>1. PICK r \in DeclinedRow(p.snap, p.ip) :
        LET blocked == [r EXCEPT !.mac = NoMac, !.pooled = TRUE, !.expires = now + RecordLease] IN
        IF r.id = 0 THEN \E i \in NewIds : rows' = Insert(rows, [blocked EXCEPT !.id = i])
                    ELSE rows' = Save(rows, blocked)
  BY DEF HandleDecline
<1> DEFINE blocked == [r EXCEPT !.mac = NoMac, !.pooled = TRUE, !.expires = now + RecordLease]
<1>2. r \in Address
  <2>0. p \in Proc
    BY DEF TypeOK
  <2>1. [NewLease(NoMac) EXCEPT !.ip = p.ip] \in Address
    BY <2>0, ConstantTypes DEF NewLease, Address, Proc
  <2>2. p.snap \subseteq Address
    BY <2>0 DEF Proc, Row
  <2> QED  BY <2>1, <2>2 DEF DeclinedRow, PoolRows
<1>3. blocked.mac = NoMac
  BY <1>2 DEF Address
<1>4. CASE r.id = 0
  <2>1. PICK i \in NewIds : rows' = Insert(rows, [blocked EXCEPT !.id = i])
    BY <1>1, <1>4
  <2> DEFINE new == [blocked EXCEPT !.id = i]
  <2>2. new.mac = NoMac
    BY <1>2 DEF Address
  <2> HIDE DEF blocked
  <2>3. rows' = Insert(rows, new)
    BY <2>1
  <2> HIDE DEF new
  <2> QED  BY <2>2, <2>3, InsertRows
<1>5. CASE r.id # 0
  <2>1. rows' = Save(rows, blocked)
    BY <1>1, <1>5
  <2> HIDE DEF blocked
  <2> QED  BY <1>3, <2>1, SaveRows
<1> QED  BY <1>4, <1>5

LEMMA DeclineInv ==
  ASSUME TypeOK, TypeOK', LeaseInv, NEW l \in Listeners, HandleDecline(l)
  PROVE  NoNewLease /\ LeaseInv' /\ (IdInv => IdInv')
<1>1. PICK blocked : rows' \subseteq rows \cup {blocked} /\ blocked.mac = NoMac
  BY DeclineRows
<1>2. now' = now /\ \A k \in Listeners : proc'[k] = Idle
  BY DEF HandleDecline
<1>3. NoNewLease
  <2>1. rows' \subseteq Row /\ now \in Nat /\ ~Leased(blocked)'
    BY <1>1 DEF TypeOK, Leased
  <2> QED  BY <1>1, <1>2, <2>1, NoNewLeaseIf
<1> QED  BY <1>2, <1>3, NoNewLeaseStep

(***************************************************************************)
(* The other steps.                                                        *)
(***************************************************************************)
\* At most the row with this id goes.
OnlyIdGoes(id) == \A r \in rows : r.id # id => r \in rows'

\* A writer starts no lease: the flag it clears is that of a row of the table, and
\* the copy it saves is up to date.
LEMMA WriterNoNewLease ==
  ASSUME TypeOK, TypeOK', SavesFresh, NEW w \in Writers, Writer(w)
  PROVE  NoNewLease /\ proc' = proc /\ now' = now /\ \E id : OnlyIdGoes(id)
<1>0. rows \in SUBSET Row /\ now \in Nat /\ rows' \subseteq Row /\ held[w] \in Held
  BY DEF TypeOK
<1>a. proc' = proc /\ now' = now
  BY DEF Writer, LoadTransfer, LoadKickstart, Take, ClearFlag, SaveCopy, Poll
<1>1. ASSUME rows' = rows PROVE NoNewLease /\ \E id : OnlyIdGoes(id)
  BY <1>1, <1>a, SameRowsNoNewLease DEF OnlyIdGoes
<1>2. ASSUME NEW r \in rows, rows' = Save(rows, [r EXCEPT !.reimage = FALSE])
      PROVE  NoNewLease /\ \E id : OnlyIdGoes(id)
  <2>1. PICK new : new = [r EXCEPT !.reimage = FALSE]
    OBVIOUS
  <2>2. Covers(new, r)
    BY <2>1, <1>0 DEF Covers, Row, Address
  <2>3. rows' \subseteq rows \cup {new} /\ OnlyIdGoes(new.id)
    BY <2>1, <1>2, SaveRows DEF OnlyIdGoes
  <2> QED  BY <2>2, <2>3, <1>0, <1>a, NoNewLeaseIf
<1>3. CASE SaveCopy(w)
  <2>1. PICK item : item = held[w].item
    OBVIOUS
  <2>2. rows' \subseteq rows \cup {item} /\ OnlyIdGoes(item.id)
    BY <2>1, <1>3, SaveRows DEF SaveCopy, OnlyIdGoes
  <2>3. UpToDate(item)
    <3>1. held'[w].pc # held[w].pc
      BY <1>3, <1>0, FreeType DEF SaveCopy, AfterSave, TypeOK, Held
    <3>2. up' /\ held'[w] # held[w] /\ held[w].pc \in DOMAIN AfterSave
      BY <1>3, <3>1 DEF SaveCopy
    <3> QED  BY <2>1, <3>2 DEF SavesFresh
  <2>4. ASSUME Leased(item)' PROVE \E q \in rows : Covers(item, q)
    BY <2>3, <2>4, <1>a DEF UpToDate, Leased
  <2> QED  BY <2>2, <2>4, <1>0, <1>a, NoNewLeaseIf
<1>4. \/ rows' = rows \/ SaveCopy(w)
      \/ \E r \in rows : rows' = Save(rows, [r EXCEPT !.reimage = FALSE])
  BY DEF Writer, LoadTransfer, LoadKickstart, RowOf, FirstById, Take, ClearFlag, Poll
<1> QED  BY <1>a, <1>1, <1>2, <1>3, <1>4

\* Administrators, crashes and time start no lease.
LEMMA OtherNoNewLease ==
  ASSUME TypeOK, TypeOK', Operator \/ Crash \/ Restart \/ Tick \/ UNCHANGED vars
  PROVE  NoNewLease /\ \A l \in Listeners : proc'[l] \in {proc[l], Idle}
<1>0. rows \in SUBSET Row /\ now \in Nat /\ rows' \subseteq Row
  BY DEF TypeOK
<1>1. ASSUME NEW ip \in IPs, NEW mac \in HostMacs, NEW reimage \in BOOLEAN,
             CreateHost(ip, mac, reimage)
      PROVE  NoNewLease /\ proc' = proc
  <2>1. PICK i \in NewIds :
          rows' = Insert(rows, [id |-> i, ip |-> ip, mac |-> mac, reimage |-> reimage,
                                expires |-> 0, pooled |-> TRUE])
    BY <1>1 DEF CreateHost
  <2> DEFINE new == [id |-> i, ip |-> ip, mac |-> mac, reimage |-> reimage,
                     expires |-> 0, pooled |-> TRUE]
  <2>2. now' = now /\ proc' = proc
    BY <1>1 DEF CreateHost
  <2>3. ~Leased(new)'
    BY <2>2, <1>0 DEF Leased, Live
  <2>4. rows' \subseteq rows \cup {new}
    BY <2>1, InsertRows
  <2> HIDE DEF new
  <2> QED  BY <2>2, <2>3, <2>4, <1>0, NoNewLeaseIf
<1>2. ASSUME NEW w \in Writers, NEW r \in rows,
             (\E reimage \in BOOLEAN : LoadUpdate(w, r, reimage)) \/ StartWorker(w, r)
      PROVE  NoNewLease /\ proc' = proc
  <2>1. rows' = rows /\ now' = now /\ proc' = proc
    BY <1>2 DEF LoadUpdate, StartWorker, Take
  <2> QED  BY <2>1, SameRowsNoNewLease
<1>5. ASSUME rows' \subseteq rows, now' \in Nat, now' >= now PROVE NoNewLease
  BY <1>0, <1>5, NoNewLeaseIf
<1>6. CASE Operator
  BY <1>6, <1>0, <1>1, <1>2, <1>5 DEF Operator, DeleteHost, UpdatePool
<1>7. CASE Crash \/ Restart \/ Tick \/ UNCHANGED vars
  <2>1. rows' \subseteq rows /\ now' \in Nat /\ now' >= now
    BY <1>7, <1>0 DEF Crash, Restart, Tick, vars
  <2>2. \A l \in Listeners : proc'[l] \in {proc[l], Idle}
    BY <1>7 DEF Crash, Restart, Tick, vars
  <2> QED  BY <2>1, <2>2, <1>5
<1> QED  BY <1>6, <1>7

LEMMA NextLeaseInv ==
  ASSUME Apart, TypeOK, TypeOK', LeaseInv, [DhcpNext]_vars, [SavesFresh]_vars
  PROVE  LeaseInv' /\ (OneAtATime /\ IdInv => IdInv')
<1>1. ASSUME NEW l \in Listeners, HandleDiscover(l) \/ RefuseRequest(l) \/ IgnoreRequest(l)
      PROVE  LeaseInv' /\ (IdInv => IdInv')
  <2>1. rows' = rows /\ now' = now /\ Done(l)
    BY <1>1 DEF HandleDiscover, RefuseRequest, IgnoreRequest
  <2>2. NoNewLease
    BY <2>1, SameRowsNoNewLease
  <2>3. \A k \in Listeners : proc'[k] \in {proc[k], Idle}
    BY <2>1 DEF Done, TypeOK
  <2> QED  BY <2>2, <2>3, NoNewLeaseStep
<1>2. ASSUME NEW l \in Listeners, Listener(l)
      PROVE  LeaseInv' /\ (OneAtATime /\ IdInv => IdInv')
  <2>1. CASE \E m \in Macs : Discover(l, m) \/ Request(l, m) \/ Decline(l, m)
    BY <2>1, ReceiveInv DEF Discover, Request, Decline
  <2> QED  BY <2>1, <1>1, <1>2, GrantInv, CreateInv, PurgeInv, SaveInv, DeclineInv DEF Listener
<1>3. ASSUME NEW w \in Writers, Writer(w)
      PROVE  LeaseInv' /\ (IdInv => IdInv')
  <2>1. SavesFresh
    <3>1. CASE UNCHANGED vars
      BY <3>1 DEF SavesFresh, vars
    <3> QED  BY <3>1
  <2>2. NoNewLease /\ proc' = proc
    BY <2>1, <1>3, WriterNoNewLease
  <2> QED  BY <2>2, NoNewLeaseStep
<1> QED  BY <1>2, <1>3, OtherNoNewLease, NoNewLeaseStep DEF DhcpNext

(***************************************************************************)
(* The theorems.                                                           *)
(***************************************************************************)
\* What is shown of the leases is shown under SavesFresh, and under a hypothesis on
\* the listeners.
LEMMA LeaseInvariant == Spec /\ [][SavesFresh]_vars /\ []Apart => [](TypeOK /\ LeaseInv)
<1>1. Apart /\ TypeOK /\ LeaseInv /\ [DhcpNext]_vars /\ [SavesFresh]_vars
        => (TypeOK /\ LeaseInv)'
  BY NextTypeOK, NextLeaseInv
<1> QED  BY <1>1, InitTypeOK, InitLeaseInv, PTL DEF Spec

LEMMA OneAtATimeApart == OneAtATime => Apart
  BY DEF OneAtATime, Apart

LEMMA IdInvariant ==
  Spec /\ [][SavesFresh]_vars /\ []OneAtATime => [](TypeOK /\ LeaseInv /\ IdInv)
<1>1. OneAtATime /\ TypeOK /\ LeaseInv /\ IdInv /\ [DhcpNext]_vars /\ [SavesFresh]_vars
        => (TypeOK /\ LeaseInv /\ IdInv)'
  BY NextTypeOK, NextLeaseInv, OneAtATimeApart
<1> QED  BY <1>1, InitTypeOK, InitLeaseInv, PTL DEF Spec

\* While no two handlers decide of one address at a time and no copy is saved
\* whose lease the table has lost, no two clients ever have running leases of one
\* address recorded: processRequest's check and writes, the whole rows that
\* administrators, transfers, kickstarts and workers save, deletions, crashes and
\* the clock together never break it, on however many interfaces.
THEOREM LeasesExclusive == Spec /\ [][SavesFresh]_vars /\ []Apart => []RecordedExclusive
<1>1. LeaseInv => RecordedExclusive
  BY DEF LeaseInv
<1> QED  BY <1>1, LeaseInvariant, PTL

\* The check of processRequest passes for the holder of a running lease.
LEMMA RenewalsNow == LeaseInv => RenewalGranted
<1> SUFFICES ASSUME LeaseInv, NEW r \in rows, Leased(r), only => r.reimage,
                    \A s \in Load : s.mac = r.mac => s = r,
                    \A s \in rows \ {r} : s.ip = r.ip => ~s.reimage /\ ~Blank(s)
             PROVE  Granted(Load, only, r.mac, r.ip)
  BY DEF RenewalGranted
<1>1. r \in Load /\ InPool(r.ip)
  BY DEF LeaseInv, LeasesInPool, Load
<1>2. LeaseRow(Load, r.mac) = {r}
  BY <1>1 DEF LeaseRow
<1>3. AvailableTo(Load, r.ip, r.mac)
  <2>1. ASSUME NEW s \in PoolRows(Load), s.ip = r.ip, Live(s, now) PROVE s.mac = r.mac
    <3>1. s \in rows
      BY DEF PoolRows, Load
    <3>2. s # r => s.mac # NoMac
      BY <2>1, <3>1 DEF Blank
    <3> QED BY <2>1, <3>1, <3>2 DEF LeaseInv, RecordedExclusive, Leased
  <2>2. \A s \in rows : s.ip = r.ip /\ s.reimage => s.mac = r.mac
    OBVIOUS
  <2> QED BY <1>1, <2>1, <2>2 DEF AvailableTo, IsAvailableExcept, InPool
<1>4. ~HasOtherLease(Load, r.mac, r.ip)
  BY DEF HasOtherLease
<1>5. ~Refused(Load, r.mac, r.ip)
  BY <1>2, <1>3, <1>4 DEF Refused
<1> QED BY <1>2, <1>5 DEF Granted, Served

\* While no two handlers decide of one address at a time and no copy is saved
\* whose lease the table has lost, the holder of a running lease is not refused
\* its renewal (dhcp.go:155-203), unless its address was reserved for another.
THEOREM RenewalsGranted == Spec /\ [][SavesFresh]_vars /\ []Apart => []RenewalGranted
BY RenewalsNow, LeaseInvariant, PTL

\* While one handler at a time decides and no copy is saved whose lease the table
\* has lost, a packet handled for one client never costs another its running lease,
\* though the rows it was decided on may have been saved over since.
THEOREM LiveLeasesKept == Spec /\ [][SavesFresh]_vars /\ []OneAtATime => LiveLeaseKept
<1>1. ASSUME TypeOK, LeaseInv, IdInv, DhcpNext, NEW l \in Listeners, proc'[l] # proc[l], up',
             NEW r \in rows, Leased(r), r.mac # proc[l].mac
      PROVE  r \in rows'
  <2>1. CASE rows' = rows
    BY <2>1
  <2>2. CASE CreateLease(l)
    BY <2>2, InsertRows DEF CreateLease
  <2>3. CASE PurgeLease(l)
    <3>1. PICK seconds \in {now - 1, now} :
            rows' = {s \in rows : ~(/\ s.ip = proc[l].ip /\ ~s.reimage
                                    /\ s.expires = 0 \/ s.expires <= seconds)}
      BY <2>3 DEF PurgeLease
    <3>2. now \in Nat /\ r.expires \in Nat /\ r.expires > now
      BY <1>1 DEF TypeOK, Row, Address, Leased, Live
    <3>3. ~(r.expires = 0 \/ r.expires <= seconds)
      BY <3>2
    <3> QED  BY <3>1, <3>3
  <2>4. CASE SaveLease(l)
    <3>1. r.id # proc[l].lease.id
      BY <1>1, <2>4 DEF IdInv, Owned, SaveLease
    <3> QED  BY <3>1, <2>4, SaveRows DEF SaveLease
  <2>5. ASSUME NEW k \in Listeners, Listener(k), k # l PROVE FALSE
    BY <2>5, <1>1 DEF Listener, Discover, Request, Decline, Receive, HandleDiscover,
       RefuseRequest, IgnoreRequest, GrantRequest, CreateLease, PurgeLease, SaveLease,
       HandleDecline, Done, Ack, TypeOK
  <2>6. ASSUME Listener(l) PROVE rows' = rows \/ CreateLease(l) \/ PurgeLease(l) \/ SaveLease(l)
    BY <2>6, <1>1 DEF Listener, Discover, Request, Decline, Receive, HandleDiscover,
       RefuseRequest, IgnoreRequest, GrantRequest, HandleDecline
  <2>7. CASE Operator \/ (\E w \in Writers : Writer(w)) \/ Crash \/ Restart \/ Tick
    BY <2>7, <1>1 DEF Operator, CreateHost, DeleteHost, UpdatePool, LoadUpdate, StartWorker, Take,
       Writer, LoadTransfer, LoadKickstart, ClearFlag, SaveCopy, Poll, Crash, Restart, Tick
  <2> QED  BY <1>1, <2>1, <2>2, <2>3, <2>4, <2>5, <2>6, <2>7 DEF DhcpNext
<1>2. TypeOK /\ LeaseInv /\ IdInv /\ [DhcpNext]_vars => [KeepsLeases]_vars
  BY <1>1 DEF KeepsLeases
<1> QED  BY <1>2, IdInvariant, PTL DEF Spec, LiveLeaseKept

(***************************************************************************)
(* The table implements the lease service.                                 *)
(***************************************************************************)
Holder == [ip \in IPs |-> HolderOf(ip)]

\* The holder of an address is the client of its running leases.
LEMMA HolderProperty ==
  ASSUME TypeOK, RecordedExclusive, NEW ip
  PROVE  /\ HolderOf(ip) \in Macs \cup {NoMac}
         /\ \A r \in rows : Leased(r) /\ r.ip = ip => HolderOf(ip) = r.mac /\ r.mac \in Macs
         /\ HolderOf(ip) # NoMac => \E r \in rows : Leased(r) /\ r.ip = ip /\ r.mac = HolderOf(ip)
<1> DEFINE holders == {m \in Macs : \E r \in rows : Leased(r) /\ r.ip = ip /\ r.mac = m}
<1>1. HolderOf(ip) = IF holders = {} THEN NoMac ELSE CHOOSE m \in holders : TRUE
  BY DEF HolderOf
<1>2. ASSUME NEW r \in rows, Leased(r), r.ip = ip PROVE r.mac \in holders /\ holders = {r.mac}
  <2>1. r.mac \in Macs
    BY <1>2 DEF TypeOK, Row, Address, Leased
  <2> QED  BY <1>2, <2>1 DEF RecordedExclusive
<1>3. holders # {} => HolderOf(ip) \in holders
  BY <1>1
<1> HIDE DEF holders
<1>4. \A r \in rows : Leased(r) /\ r.ip = ip => HolderOf(ip) = r.mac /\ r.mac \in Macs
  <2>1. holders \subseteq Macs
    BY DEF holders
  <2> QED  BY <1>2, <1>3, <2>1
<1>5. HolderOf(ip) # NoMac => HolderOf(ip) \in holders
  BY <1>1, <1>3
<1> QED  BY <1>1, <1>3, <1>4, <1>5 DEF holders

\* The same, of the next state.
LEMMA HolderProperty2 ==
  ASSUME TypeOK', RecordedExclusive', NEW ip
  PROVE  /\ HolderOf(ip)' \in Macs \cup {NoMac}
         /\ \A r \in rows' : Leased(r)' /\ r.ip = ip => HolderOf(ip)' = r.mac /\ r.mac \in Macs
         /\ HolderOf(ip)' # NoMac =>
              \E r \in rows' : Leased(r)' /\ r.ip = ip /\ r.mac = HolderOf(ip)'
<1> DEFINE holders == {m \in Macs : \E r \in rows' : Leased(r)' /\ r.ip = ip /\ r.mac = m}
<1>1. HolderOf(ip)' = IF holders = {} THEN NoMac ELSE CHOOSE m \in holders : TRUE
  BY DEF HolderOf
<1>2. ASSUME NEW r \in rows', Leased(r)', r.ip = ip PROVE r.mac \in holders /\ holders = {r.mac}
  <2>1. r.mac \in Macs
    BY <1>2 DEF TypeOK, Row, Address, Leased
  <2> QED  BY <1>2, <2>1 DEF RecordedExclusive
<1>3. holders # {} => HolderOf(ip)' \in holders
  BY <1>1
<1> HIDE DEF holders
<1>4. \A r \in rows' : Leased(r)' /\ r.ip = ip => HolderOf(ip)' = r.mac /\ r.mac \in Macs
  <2>1. holders \subseteq Macs
    BY DEF holders
  <2> QED  BY <1>2, <1>3, <2>1
<1>5. HolderOf(ip)' # NoMac => HolderOf(ip)' \in holders
  BY <1>1, <1>3
<1> QED  BY <1>1, <1>3, <1>4, <1>5 DEF holders

\* A step that starts no lease takes holders away, and only where leases ended.
LEMMA HolderShrinks ==
  ASSUME TypeOK, TypeOK', RecordedExclusive, RecordedExclusive', NoNewLease, NEW ip
  PROVE  /\ HolderOf(ip)' \in {HolderOf(ip), NoMac}
         /\ (\A r \in rows : Leased(r) /\ r.ip = ip =>
               \E q \in rows' : Leased(q)' /\ q.ip = ip)
            => HolderOf(ip)' = HolderOf(ip)
<1>1. HolderOf(ip)' \in {HolderOf(ip), NoMac}
  <2>1. ASSUME HolderOf(ip)' # NoMac PROVE HolderOf(ip)' = HolderOf(ip)
    <3>1. PICK r \in rows' : Leased(r)' /\ r.ip = ip /\ r.mac = HolderOf(ip)'
      BY <2>1, HolderProperty2
    <3>2. PICK q \in rows : Leased(q) /\ Covers(r, q)
      BY <3>1 DEF NoNewLease
    <3>3. q.ip = ip /\ q.mac = r.mac
      BY <3>1, <3>2 DEF Covers
    <3> QED  BY <3>1, <3>2, <3>3, HolderProperty
  <2> QED  BY <2>1
<1>2. ASSUME NEW q \in rows', Leased(q)', q.ip = ip PROVE HolderOf(ip)' # NoMac
  BY <1>2, HolderProperty2, MacAssumption
<1>3. ASSUME HolderOf(ip) # NoMac PROVE \E r \in rows : Leased(r) /\ r.ip = ip
  BY <1>3, HolderProperty
<1> QED  BY <1>1, <1>2, <1>3

\* Such a step that ends leases of one address at most is a withdrawal.
LEMMA WithdrawStep ==
  ASSUME TypeOK, TypeOK', RecordedExclusive, RecordedExclusive', NoNewLease, now' = now,
         NEW x, \A r \in rows : Leased(r) /\ r.ip # x =>
                  \E q \in rows' : Leased(q)' /\ q.ip = r.ip
  PROVE  [Leases!Next]_(Leases!vars)
<1>1. \A ip \in IPs : ip # x => HolderOf(ip)' = HolderOf(ip)
  BY HolderShrinks
<1>2. \A ip \in IPs : HolderOf(ip)' \in {HolderOf(ip), NoMac}
  BY HolderShrinks
<1>3. Holder' = [ip \in IPs |-> HolderOf(ip)']
  BY DEF Holder
<1>4. CASE \A ip \in IPs : HolderOf(ip)' = HolderOf(ip)
  <2>1. Holder' = Holder
    BY <1>3, <1>4 DEF Holder
  <2> QED  BY <2>1 DEF Leases!vars, Holder
<1>5. CASE \E ip \in IPs : HolderOf(ip)' # HolderOf(ip)
  <2>1. x \in IPs /\ HolderOf(x)' = NoMac
    BY <1>1, <1>2, <1>5
  <2>2. Holder' = [Holder EXCEPT ![x] = NoMac] /\ Holder[x] # NoMac
    BY <1>1, <1>3, <1>5, <2>1 DEF Holder
  <2>3. Leases!Withdraw(x)
    BY <2>2 DEF Leases!Withdraw, Holder
  <2> QED  BY <2>1, <2>3 DEF Leases!Next
<1> QED  BY <1>4, <1>5

\* The write of a decided lease grants it; when it does not succeed, or comes
\* after the lease has ended, it may still end the lease the row held before.
LEMMA GrantStep ==
  ASSUME TypeOK, TypeOK', LeaseInv, IdInv, RecordedExclusive', now' = now,
         NEW l \in Listeners, proc[l].pc \in {"create", "save"},
         NEW new, rows' \subseteq rows \cup {new}, new.ip = proc[l].ip, new.mac = proc[l].mac,
         \A r \in rows : r \in rows' \/ r.id = proc[l].lease.id
  PROVE  [Leases!Next]_(Leases!vars)
<1>a. PICK m, x : m = proc[l].mac /\ x = proc[l].ip
  OBVIOUS
<1>0. m \in Macs /\ x \in IPs /\ m # NoMac
  BY <1>a, MacAssumption DEF TypeOK, Busy
<1>1. /\ RecordedExclusive
      /\ \A r \in rows : Leased(r) /\ (r.ip = x \/ r.id = proc[l].lease.id) => r.mac = m
  BY <1>a DEF LeaseInv, IdInv, Decided, Owned
<1>2. ASSUME NEW r PROVE Leased(r)' <=> Leased(r)
  BY DEF Leased
<1>3. Holder' = [ip \in IPs |-> HolderOf(ip)']
  BY DEF Holder
<1>4. CASE new \in rows' /\ Leased(new)
  <2>1. HolderOf(x)' = m
    <3>1. \A r \in rows' : Leased(r)' /\ r.ip = x => HolderOf(x)' = r.mac
      BY HolderProperty2
    <3> QED  BY <3>1, <1>a, <1>2, <1>4
  <2>2. HolderOf(x) \in {NoMac, m}
    BY <1>1, HolderProperty
  <2>3. ASSUME NEW j \in IPs, j # x, HolderOf(j)' # HolderOf(j)
        PROVE  HolderOf(j) = m /\ HolderOf(j)' = NoMac
    <3>1. HolderOf(j)' = NoMac
      <4>1. SUFFICES ASSUME HolderOf(j)' # NoMac PROVE FALSE
        OBVIOUS
      <4>2. PICK r \in rows' : Leased(r)' /\ r.ip = j /\ r.mac = HolderOf(j)'
        BY <4>1, HolderProperty2
      <4>3. r \in rows /\ Leased(r)
        BY <4>2, <2>3, <1>a, <1>2
      <4> QED  BY <4>2, <4>3, <2>3, <1>1, HolderProperty
    <3>2. PICK r \in rows : Leased(r) /\ r.ip = j /\ r.mac = HolderOf(j)
      BY <3>1, <2>3, <1>1, HolderProperty
    <3>3. r \notin rows'
      <4>1. SUFFICES ASSUME r \in rows' PROVE FALSE
        OBVIOUS
      <4> QED  BY <4>1, <3>1, <3>2, <1>2, HolderProperty2, MacAssumption
    <3> QED  BY <3>1, <3>2, <3>3, <1>a, <1>1
  <2>4. ASSUME NEW j \in IPs PROVE Holder[j] = HolderOf(j) /\ Holder'[j] = HolderOf(j)'
    BY <1>3 DEF Holder
  <2>5. Holder' \in [IPs -> Macs \cup {NoMac}]
    BY <1>3, HolderProperty2
  <2>6. Leases!Grant(m, x)
    <3>1. \A j \in IPs \ {x} : Holder'[j] = Holder[j] \/ (Holder[j] = m /\ Holder'[j] = NoMac)
      BY <2>3, <2>4
    <3>2. Holder[x] \in {NoMac, m} /\ Holder'[x] = m
      BY <2>1, <2>2, <2>4, <1>0
    <3> QED  BY <2>5, <3>1, <3>2 DEF Leases!Grant, Leases!Holders, Holder
  <2> QED  BY <2>6, <1>0 DEF Leases!Next
<1>5. CASE ~(new \in rows' /\ Leased(new))
  <2>1. NoNewLease
    <3>1. rows' \subseteq Row /\ now \in Nat
      BY DEF TypeOK
    <3>2. \A r \in rows' : r \in rows \/ ~Leased(r)'
      BY <1>2, <1>5
    <3> QED  BY <3>1, <3>2, NoNewLeaseIf
  <2>2. PICK y : \A r \in rows : Leased(r) /\ r \notin rows' => r.ip = y
    <3>1. ASSUME NEW r \in rows, NEW s \in rows, r \notin rows', s \notin rows' PROVE r = s
      BY <3>1 DEF TypeOK
    <3> QED  BY <3>1
  <2>3. \A r \in rows : Leased(r) /\ r.ip # y => \E q \in rows' : Leased(q)' /\ q.ip = r.ip
    BY <1>2, <2>2
  <2> QED  BY <1>1, <2>1, <2>3, WithdrawStep
<1> QED  BY <1>4, <1>5

\* A step that keeps a running lease of every address that has one.
LEMMA KeepStep ==
  ASSUME TypeOK, TypeOK', RecordedExclusive, RecordedExclusive', NoNewLease, now' = now,
         \A r \in rows : Leased(r) => \E q \in rows' : Leased(q)' /\ q.ip = r.ip
  PROVE  [Leases!Next]_(Leases!vars)
  BY WithdrawStep

\* So is one that ends at most the lease of one row.
LEMMA OneIdStep ==
  ASSUME TypeOK, TypeOK', RecordedExclusive, RecordedExclusive', NoNewLease, now' = now,
         NEW id, OnlyIdGoes(id)
  PROVE  [Leases!Next]_(Leases!vars)
<1>1. PICK x : \A r \in rows : r.id = id => r.ip = x
  <2>1. \A r, s \in rows : r.id = id /\ s.id = id => r = s
    BY DEF TypeOK
  <2> QED  BY <2>1
<1>2. \A r \in rows : Leased(r) /\ r.ip # x => \E q \in rows' : Leased(q)' /\ q.ip = r.ip
  BY <1>1 DEF OnlyIdGoes, Leased
<1> QED  BY <1>2, WithdrawStep

LEMMA NextImplements ==
  ASSUME TypeOK, TypeOK', LeaseInv, LeaseInv', IdInv, [DhcpNext]_vars, [SavesFresh]_vars
  PROVE  [Leases!Next]_(Leases!vars)
<1>0. RecordedExclusive /\ RecordedExclusive' /\ now \in Nat
  BY DEF LeaseInv, TypeOK
<1>1. ASSUME rows \subseteq rows', now' = now, NoNewLease PROVE [Leases!Next]_(Leases!vars)
  <2>1. \A r \in rows : Leased(r) => Leased(r)'
    BY <1>1 DEF Leased
  <2> QED  BY <2>1, <1>0, <1>1, KeepStep
<1>2. ASSUME rows' = rows, now' = now PROVE [Leases!Next]_(Leases!vars)
  <2>1. NoNewLease
    BY <1>2, SameRowsNoNewLease
  <2> QED  BY <2>1, <1>1, <1>2
<1>3. ASSUME NEW l \in Listeners, CreateLease(l) PROVE [Leases!Next]_(Leases!vars)
  <2>1. PICK i \in NewIds : rows' = Insert(rows, [proc[l].lease EXCEPT !.id = i])
    BY <1>3 DEF CreateLease
  <2>2. PICK new : new = [proc[l].lease EXCEPT !.id = i]
    OBVIOUS
  <2>3. new.ip = proc[l].ip /\ new.mac = proc[l].mac
    BY <1>3, <2>2 DEF LeaseInv, Decided, CreateLease, TypeOK, Proc, Address
  <2>4. rows' \subseteq rows \cup {new} /\ rows \subseteq rows'
    BY <2>1, <2>2, InsertRows
  <2> QED  BY <2>3, <2>4, <1>0, <1>3, GrantStep DEF CreateLease
<1>4. ASSUME NEW l \in Listeners, SaveLease(l) PROVE [Leases!Next]_(Leases!vars)
  <2>1. PICK new : new = proc[l].lease
    OBVIOUS
  <2>2. new.ip = proc[l].ip /\ new.mac = proc[l].mac
    BY <1>4, <2>1 DEF LeaseInv, Decided, SaveLease
  <2>3. rows' \subseteq rows \cup {new} /\ \A r \in rows : r \in rows' \/ r.id = proc[l].lease.id
    BY <1>4, <2>1, SaveRows DEF SaveLease
  <2> QED  BY <2>2, <2>3, <1>0, <1>4, GrantStep DEF SaveLease
<1>5. ASSUME NEW l \in Listeners, PurgeLease(l) PROVE [Leases!Next]_(Leases!vars)
  <2>1. rows' \subseteq rows /\ now' = now
    BY <1>5 DEF PurgeLease
  <2>2. NoNewLease
    BY <2>1, SameRowsNoNewLease
  <2>3. ASSUME NEW r \in rows, Leased(r) PROVE r \in rows'
    <3>1. PICK seconds \in {now - 1, now} :
            rows' = {s \in rows : ~(/\ s.ip = proc[l].ip /\ ~s.reimage
                                    /\ s.expires = 0 \/ s.expires <= seconds)}
      BY <1>5 DEF PurgeLease
    <3>2. r.expires \in Nat /\ r.expires > now
      BY <2>3 DEF TypeOK, Row, Address, Leased, Live
    <3> QED  BY <3>1, <3>2, <1>0
  <2>4. \A r \in rows : Leased(r) => \E q \in rows' : Leased(q)' /\ q.ip = r.ip
    BY <2>1, <2>3 DEF Leased
  <2> QED  BY <2>1, <2>2, <2>4, <1>0, KeepStep
<1>6. ASSUME NEW l \in Listeners, HandleDecline(l) PROVE [Leases!Next]_(Leases!vars)
  <2>1. NoNewLease /\ now' = now
    BY <1>6, DeclineInv DEF HandleDecline
  <2>2. PICK id : OnlyIdGoes(id)
    BY <1>6, DeclineRows DEF OnlyIdGoes
  <2> QED  BY <2>1, <2>2, <1>0, OneIdStep
<1>7. ASSUME NEW l \in Listeners, Listener(l) PROVE [Leases!Next]_(Leases!vars)
  <2>1. \/ rows' = rows /\ now' = now
        \/ CreateLease(l) \/ PurgeLease(l) \/ SaveLease(l) \/ HandleDecline(l)
    BY <1>7 DEF Listener, Discover, Request, Decline, Receive, HandleDiscover,
       RefuseRequest, IgnoreRequest, GrantRequest
  <2> QED  BY <2>1, <1>2, <1>3, <1>4, <1>5, <1>6
<1>8. CASE Operator
  <2>0. NoNewLease /\ now' = now
    BY <1>8, OtherNoNewLease
       DEF Operator, CreateHost, DeleteHost, LoadUpdate, StartWorker, Take, UpdatePool
  <2>1. ASSUME NEW ip, NEW mac, NEW reimage, CreateHost(ip, mac, reimage)
        PROVE  rows \subseteq rows'
    BY <2>1, InsertRows DEF CreateHost
  <2>2. ASSUME NEW r \in rows, DeleteHost(r) PROVE [Leases!Next]_(Leases!vars)
    <3>1. OnlyIdGoes(r.id)
      BY <2>2 DEF DeleteHost, OnlyIdGoes
    <3> QED  BY <3>1, <2>0, <1>0, OneIdStep
  <2>3. ASSUME NEW w, NEW r,
               (\E reimage \in BOOLEAN : LoadUpdate(w, r, reimage)) \/ StartWorker(w, r)
        PROVE  rows' = rows
    BY <2>3 DEF LoadUpdate, StartWorker, Take
  <2> QED  BY <1>8, <2>0, <2>1, <2>2, <2>3, <1>1, <1>2 DEF Operator, UpdatePool
<1>9. ASSUME NEW w \in Writers, Writer(w) PROVE [Leases!Next]_(Leases!vars)
  <2>1. SavesFresh
    <3>1. CASE UNCHANGED vars
      BY <3>1 DEF SavesFresh, vars
    <3> QED  BY <3>1
  <2> QED  BY <2>1, <1>9, <1>0, WriterNoNewLease, OneIdStep
<1>10. CASE Tick
  <2>1. NoNewLease /\ now' = now + 1
    BY <1>10, OtherNoNewLease DEF Tick
  <2>2. \A ip \in IPs : HolderOf(ip)' \in {HolderOf(ip), NoMac}
    BY <2>1, <1>0, HolderShrinks
  <2>3. Holder' = [ip \in IPs |-> HolderOf(ip)'] /\ Holder' \in [IPs -> Macs \cup {NoMac}]
    BY <1>0, HolderProperty2 DEF Holder
  <2>4. \A j \in IPs : Holder'[j] \in {Holder[j], NoMac}
    BY <2>2, <2>3 DEF Holder
  <2>5. Leases!Tick
    BY <2>1, <2>3, <2>4 DEF Leases!Tick, Leases!Holders, Holder
  <2> QED  BY <2>5 DEF Leases!Next
<1>11. CASE Crash \/ Restart \/ UNCHANGED vars
  BY <1>11, <1>2 DEF Crash, Restart, vars
<1> QED  BY <1>7, <1>8, <1>9, <1>10, <1>11 DEF DhcpNext

LEMMA InitImplements == Init => Leases!Init
<1> SUFFICES ASSUME Init PROVE Leases!Init
  OBVIOUS
<1>1. \A r \in rows : ~Leased(r)
  BY SeedAssumption DEF Init, Leased, Live
<1>2. \A ip \in IPs : HolderOf(ip) = NoMac
  BY <1>1 DEF HolderOf
<1> QED  BY <1>2 DEF Leases!Init, Init

\* While one handler at a time decides and no copy is saved whose lease the table
\* has lost, the table of addresses is a lease service: every step of a listener, of
\* an administrator, of a writer and of the clock is a grant of an address that is
\* free or the client's own, a withdrawal of one address, the passing of time, or
\* invisible.
THEOREM ImplementsLeaseService ==
  Spec /\ [][SavesFresh]_vars /\ []OneAtATime => LeaseServiceSpec
<1>1. /\ TypeOK /\ TypeOK' /\ LeaseInv /\ LeaseInv' /\ IdInv
      /\ [DhcpNext]_vars /\ [SavesFresh]_vars
      => [Leases!Next]_(Leases!vars)
  BY NextImplements
<1> QED  BY <1>1, InitImplements, IdInvariant, PTL DEF Spec, LeaseServiceSpec, Leases!Spec

\* With one interface the hypotheses on the listeners hold, and the one on the
\* writers remains.
COROLLARY OneInterface ==
  ASSUME SingleListener
  PROVE  Spec /\ [][SavesFresh]_vars =>
           []RecordedExclusive /\ []RenewalGranted /\ LiveLeaseKept /\ LeaseServiceSpec
<1>1. OneAtATime /\ Apart
  BY DEF SingleListener, OneAtATime, Apart
<1>2. []OneAtATime /\ []Apart
  BY <1>1, PTL
<1> QED  BY <1>2, LeasesExclusive, RenewalsGranted, LiveLeasesKept, ImplementsLeaseService, PTL
=============================================================================
