-------------------------------- MODULE Dhcp --------------------------------
(***************************************************************************)
(* The DHCP server (serve.go, dhcp.go) and the table of addresses it       *)
(* shares with the REST handlers (api/addresses.go), the TFTP server       *)
(* (tftpd.go), the kickstart handler (api/ks.go) and the workers           *)
(* (api/postconfig.go).                                                    *)
(*                                                                         *)
(* One goroutine per interface, a listener, handles packets one at a time. *)
(* A handler loads the pool with its addresses, decides on that snapshot   *)
(* and on the reservations it reads afresh, and then writes: the three are *)
(* steps of their own, so that the handlers of the other listeners, the    *)
(* other writers and the clock act between them.                           *)
(*                                                                         *)
(* Whoever else changes a row, a writer, loads it whole and saves its copy *)
(* whole, some time later: the expiry, the addresses and the flag it saves *)
(* are those it loaded, and a row that is gone by then is inserted again.  *)
(* Creating and deleting a host are one step.                              *)
(*                                                                         *)
(* There is one pool.  Any packet may be lost, and a client may send one   *)
(* again; client is what the clients make of the answers.                  *)
(***************************************************************************)
EXTENDS AddressPool

CONSTANTS
  Listeners,    \* the interfaces served
  Writers,      \* bound: the requests and workers that hold a copy of a row at a time
  IPs,          \* the addresses that occur
  Pool,         \* the pool of the subnet
  RecordLease,  \* the lease the server records: 3600 seconds
  ClientLease,  \* the lease it tells: pool.LeaseTime, or 3600 seconds
  Flags,        \* what OnlyServeReimage of the pool may be when the server starts
  Seeds,        \* the tables the server may find when it starts
  HostMacs,     \* the MAC columns of the hosts an administrator creates
  MaxEdits,     \* bound: the operations of administrators
  MaxTime,      \* bound: the last instant of the clock
  MaxId         \* bound: the largest id of a row

ASSUME PoolAssumption ==
  /\ Pool \in Pools /\ ValidPool(Pool)
  /\ IPs \subseteq Nat \ {NoIP}
  /\ Network(Pool) \ {NoIP} \subseteq IPs

ASSUME LeaseAssumption ==
  /\ RecordLease \in Nat /\ ClientLease \in Nat
  /\ MaxEdits \in Nat /\ MaxTime \in Nat /\ MaxId \in Nat

\* A table found at the start obeys the primary key and the unique index,
\* and no lease of it is still running.
ASSUME SeedAssumption ==
  /\ Flags \subseteq BOOLEAN
  /\ HostMacs \subseteq Macs \cup {NoMac}
  /\ \A table \in Seeds :
       /\ table \subseteq Row
       /\ \A r \in table : r.ip \in IPs /\ r.expires = 0
       /\ \A r, s \in table : r.id = s.id \/ Clash(r, s) => r = s

VARIABLES
  rows,    \* the table addresses
  only,    \* OnlyServeReimage of the pool
  now,     \* the clock
  up,      \* the process runs
  proc,    \* per listener, the packet it is handling
  held,    \* per writer, the copy of a row it holds and what it does with it next
  edits,   \* counts the operations of administrators
  client   \* per client, the address it was last offered or granted, and until
           \* when it may use it: not beyond 0 when it was only offered

vars == <<rows, only, now, up, proc, held, client, edits>>

\* The row a request of an unknown MAC address creates.
NewLease(m) ==
  [id |-> 0, ip |-> NoIP, mac |-> m, reimage |-> FALSE, expires |-> 0, pooled |-> TRUE]

Idle == [pc |-> "idle", mac |-> NoMac, ip |-> NoIP, sent |-> 0,
         snap |-> {}, only |-> FALSE, lease |-> NewLease(NoMac)]

Free == [pc |-> "idle", item |-> NewLease(NoMac)]

Without == [ip |-> NoIP, until |-> 0]

Init ==
  /\ rows \in Seeds
  /\ only \in Flags
  /\ now = 0
  /\ up = TRUE
  /\ proc = [l \in Listeners |-> Idle]
  /\ held = [w \in Writers |-> Free]
  /\ client = [m \in Macs |-> Without]
  /\ edits = 0

(***************************************************************************)
(* What the handlers decide, given the rows they loaded.                   *)
(***************************************************************************)
PoolRows(snap) == {r \in snap : r.pooled}

\* The loaded list: reservations that have no pool, then the rows of the pool,
\* each by id.
Before(r, s) == (~r.pooled /\ s.pooled) \/ (r.pooled = s.pooled /\ r.id < s.id)

AvailableTo(snap, ip, m) == IsAvailableExcept(Pool, PoolRows(snap), rows, now, ip, m)

Available(snap, ip) == IsAvailable(Pool, PoolRows(snap), rows, now, ip)

\* Mutant: the rows of the MAC address are not checked.
OfferUnchecked(snap, m) ==
  LET own == {r \in snap : r.mac = m}
  IN  {r \in own : \A s \in own \ {r} : Before(r, s)}

\* processDiscover takes the first row of the MAC address whose address is
\* available to it.
OfferRow(snap, m) ==
  LET usable == {r \in snap : r.mac = m /\ AvailableTo(snap, r.ip, m)}
  IN  {r \in usable : \A s \in usable \ {r} : Before(r, s)}

\* A pool with the flag serves the hosts to be installed.
Served(flag, lease) == flag => \E r \in lease : r.reimage

\* The addresses it may offer: one, or none.
Offers(snap, flag, m) ==
  LET lease == OfferRow(snap, m) IN
  IF ~Served(flag, lease) THEN {}
  ELSE IF lease # {} THEN {r.ip : r \in lease}
  ELSE {Next(Pool, {ip \in Network(Pool) : Available(snap, ip)})} \ {NoIP}

\* Mutant: the MAC address of the row is not compared.
LeaseRowOfAnyone(snap, m) == {r \in snap : \A s \in snap \ {r} : Before(s, r)}

\* processRequest keeps the last row of the MAC address.
LeaseRow(snap, m) ==
  LET own == {r \in snap : r.mac = m}
  IN  {r \in own : \A s \in own \ {r} : Before(s, r)}

HasOtherLease(snap, m, ip) ==
  \E r \in snap : r.mac = m /\ r.ip # ip /\ Live(r, now) /\ AvailableTo(snap, r.ip, m)

\* Mutant: the client's own lease counts against it.
RefusedToOwner(snap, m, ip) ==
  LET lease == LeaseRow(snap, m) IN
  \/ HasOtherLease(snap, m, ip)
  \/ (\A r \in lease : r.ip # ip) /\ ~Available(snap, ip)
  \/ lease # {} /\ ~Available(snap, ip)

\* Mutant: a client that has a row is not checked against the others.
RefusedToNewcomers(snap, m, ip) ==
  LET lease == LeaseRow(snap, m) IN
  HasOtherLease(snap, m, ip) \/ (lease = {} /\ ~Available(snap, ip))

Refused(snap, m, ip) ==
  LET lease == LeaseRow(snap, m) IN
  \/ HasOtherLease(snap, m, ip)
  \/ (\A r \in lease : r.ip # ip) /\ ~Available(snap, ip)
  \/ lease # {} /\ ~AvailableTo(snap, ip, m)

Granted(snap, flag, m, ip) == ~Refused(snap, m, ip) /\ Served(flag, LeaseRow(snap, m))

(***************************************************************************)
(* The packets.                                                            *)
(***************************************************************************)
\* FindPool and the query for reservations without a pool.
Load == {r \in rows : r.pooled \/ r.reimage}

Receive(l, pc, m, ip) ==
  /\ up /\ proc[l].pc = "idle"
  /\ proc' = [proc EXCEPT ![l] =
       [pc |-> pc, mac |-> m, ip |-> ip, sent |-> now,
        snap |-> Load, only |-> only, lease |-> NewLease(m)]]
  /\ UNCHANGED <<rows, only, now, up, held, client, edits>>

Discover(l, m) == Receive(l, "discover", m, NoIP)

\* A client asks for what it was offered, renews its lease, or asks again for
\* the address it had before.
Request(l, m) == client[m].ip # NoIP /\ Receive(l, "request", m, client[m].ip)

\* A client that was granted an address finds it in use.
Decline(l, m) ==
  /\ client[m].ip # NoIP /\ client[m].until > now
  /\ Receive(l, "decline", m, client[m].ip)

Done(l) == proc' = [proc EXCEPT ![l] = Idle]

\* The answer reaches the client, or is lost.
Answer(m, state) == client' = [client EXCEPT ![m] = state] \/ UNCHANGED client

HandleDiscover(l) ==
  LET p == proc[l] IN
  /\ up /\ p.pc = "discover"
  /\ \/ \E ip \in IPs \cap Offers(p.snap, p.only, p.mac) :
          Answer(p.mac, [ip |-> ip, until |-> 0])
     \/ Offers(p.snap, p.only, p.mac) = {} /\ UNCHANGED client
  /\ Done(l)
  /\ UNCHANGED <<rows, only, now, up, held, edits>>

\* NAK: the client starts afresh.
RefuseRequest(l) ==
  LET p == proc[l] IN
  /\ up /\ p.pc = "request"
  /\ Refused(p.snap, p.mac, p.ip)
  /\ Answer(p.mac, Without)
  /\ Done(l)
  /\ UNCHANGED <<rows, only, now, up, held, edits>>

\* No answer: the pool serves flagged hosts only.
IgnoreRequest(l) ==
  LET p == proc[l] IN
  /\ up /\ p.pc = "request"
  /\ ~Refused(p.snap, p.mac, p.ip) /\ ~Served(p.only, LeaseRow(p.snap, p.mac))
  /\ Done(l)
  /\ UNCHANGED <<rows, only, now, up, held, client, edits>>

\* The lease as it is going to be written.
GrantRequest(l) ==
  LET p == proc[l] IN
  /\ up /\ p.pc = "request"
  /\ Granted(p.snap, p.only, p.mac, p.ip)
  /\ \E lease \in IF LeaseRow(p.snap, p.mac) = {} THEN {NewLease(p.mac)}
                                                  ELSE LeaseRow(p.snap, p.mac) :
       proc' = [proc EXCEPT
         ![l].pc = IF lease.id = 0 THEN "create" ELSE "purge",
         ![l].lease = [lease EXCEPT !.ip = p.ip, !.pooled = TRUE,
                                    !.expires = now + RecordLease]]
  /\ UNCHANGED <<rows, only, now, up, held, client, edits>>

\* The ACK, sent whatever became of the writes.  A client counts its lease
\* from the moment it asked.
Ack(l) ==
  LET p == proc[l] IN
  /\ Answer(p.mac, [ip |-> p.ip, until |-> p.sent + ClientLease])
  /\ Done(l)

\* sqlite gives a new row the id after the largest.
NewIds == {i \in 1 .. MaxId : /\ \A r \in rows : r.id < i
                              /\ i = 1 \/ \E r \in rows : r.id = i - 1}

\* db.DB.Create(lease), its error dropped.
CreateLease(l) ==
  /\ up /\ proc[l].pc = "create"
  /\ \E i \in NewIds : rows' = Insert(rows, [proc[l].lease EXCEPT !.id = i])
  /\ Ack(l)
  /\ UNCHANGED <<only, now, up, held, edits>>

\* DELETE ... AND expires <= datetime('now'): sqlite's clock drops the fraction
\* of the second, so a lease that has just ended may survive.
PurgeLease(l) ==
  /\ up /\ proc[l].pc = "purge"
  /\ \E seconds \in {now - 1, now} :
       rows' = {r \in rows : ~(/\ r.ip = proc[l].ip /\ ~r.reimage
                               /\ r.expires = 0 \/ r.expires <= seconds)}
  /\ proc' = [proc EXCEPT ![l].pc = "save"]
  /\ UNCHANGED <<only, now, up, held, client, edits>>

\* db.DB.Save(lease), its error dropped.
SaveLease(l) ==
  /\ up /\ proc[l].pc = "save"
  /\ rows' = Save(rows, proc[l].lease)
  /\ Ack(l)
  /\ UNCHANGED <<only, now, up, held, edits>>

\* The row that blocks a declined address: the last one of the pool that has
\* it, or a new one.
DeclinedRow(snap, ip) ==
  LET there == {r \in PoolRows(snap) : r.ip = ip}
  IN  IF there = {} THEN {[NewLease(NoMac) EXCEPT !.ip = ip]}
                    ELSE {r \in there : \A s \in there : s.id <= r.id}

\* processDecline returns no response, and serve dereferences it: the process
\* ends once the row is written.  The client gives the address up.
HandleDecline(l) ==
  LET p == proc[l] IN
  /\ up /\ p.pc = "decline"
  /\ \E r \in DeclinedRow(p.snap, p.ip) :
       LET blocked == [r EXCEPT !.mac = NoMac, !.pooled = TRUE,
                                !.expires = now + RecordLease] IN
       IF r.id = 0 THEN \E i \in NewIds : rows' = Insert(rows, [blocked EXCEPT !.id = i])
                   ELSE rows' = Save(rows, blocked)
  /\ up' = FALSE
  /\ proc' = [j \in Listeners |-> Idle]
  /\ held' = [w \in Writers |-> Free]
  /\ client' = [client EXCEPT ![p.mac] = Without]
  /\ UNCHANGED <<only, now, edits>>

(***************************************************************************)
(* The administrators.                                                     *)
(***************************************************************************)
\* CreateAddress: the address must lie between the ends of the pool.
CreateHost(ip, mac, reimage) ==
  /\ up /\ Contains(Pool, ip) /\ ip \in Pool.start .. Pool.end
  /\ \E i \in NewIds :
       rows' = Insert(rows, [id |-> i, ip |-> ip, mac |-> mac, reimage |-> reimage,
                             expires |-> 0, pooled |-> TRUE])
  /\ UNCHANGED <<only, now, up, proc, held, client>>

DeleteHost(r) ==
  /\ up /\ rows' = rows \ {r}
  /\ UNCHANGED <<only, now, up, proc, held, client>>

\* UpdatePool sets OnlyServeReimage.
UpdatePool ==
  /\ up /\ only' = ~only
  /\ UNCHANGED <<rows, now, up, proc, held, client>>

(***************************************************************************)
(* The writers: requests and workers that save a whole row.                *)
(***************************************************************************)
\* A writer takes a copy of a row and does pc with it next.
Take(w, pc, item) ==
  /\ up /\ held[w].pc = "idle"
  /\ held' = [held EXCEPT ![w] = [pc |-> pc, item |-> item]]
  /\ UNCHANGED <<rows, only, now, up, proc, client>>

\* UpdateAddress, as the buttons that start and cancel a re-imaging use it.
LoadUpdate(w, r, reimage) == Take(w, "save", [r EXCEPT !.reimage = reimage])

\* PostConfigID, or PostConfig for the host that asks: the worker first saves the host.
StartWorker(w, r) == Take(w, "start", r)

\* The host that asks from address ip, and the first row with that address.
Asks(ip) == \E m \in Macs : client[m].ip = ip /\ client[m].until > now

RowOf(ip) == FirstById({r \in rows : r.ip = ip})

\* readHandler of the TFTP server loads the host, and saves its progress.
LoadTransfer(w, ip) ==
  /\ Asks(ip)
  /\ \E r \in RowOf(ip) : Take(w, "save", r)
  /\ UNCHANGED edits

\* Ks: the installer of the host fetches its kickstart file.
LoadKickstart(w, ip) ==
  /\ Asks(ip)
  /\ \E r \in RowOf(ip) : Take(w, "clear", r)
  /\ UNCHANGED edits

\* The UPDATE of the flag where the id and the address are still those of the
\* copy: refused when another row has the address without the flag, no error when
\* there is no such row.  The request ends with an error, this one or a later one.
ClearFlag(w) ==
  LET item == held[w].item
      its == {r \in rows : r.id = item.id /\ r.ip = item.ip} IN
  /\ up /\ held[w].pc = "clear"
  /\ \/ its = {} /\ UNCHANGED rows
     \/ \E r \in its : rows' = Save(rows, [r EXCEPT !.reimage = FALSE])
  /\ \/ /\ \A r \in rows' : r.id = item.id /\ r.ip = item.ip => ~r.reimage
        /\ held' = [held EXCEPT ![w].pc = "kickstart", ![w].item.reimage = FALSE]
     \/ held' = [held EXCEPT ![w] = Free]
  /\ UNCHANGED <<only, now, up, proc, client, edits>>

\* What comes after a save: a kickstart request ends with the start of a worker,
\* the worker waits for its host, reboots it or not, and completes it or fails.
AfterSave ==
  [save |-> {"idle"}, kickstart |-> {"start"}, start |-> {"poll"}, reboot |-> {"save", "idle"}]

\* db.DB.Save(&item), its error dropped or reported.
SaveCopy(w) ==
  /\ up /\ held[w].pc \in DOMAIN AfterSave
  /\ rows' = Save(rows, held[w].item)
  /\ \E pc \in AfterSave[held[w].pc] :
       held' = [held EXCEPT ![w] = IF pc = "idle" THEN Free ELSE [@ EXCEPT !.pc = pc]]
  /\ UNCHANGED <<only, now, up, proc, client, edits>>

\* The last turn of the loop in which a worker waits for its host: it gives up, or
\* reads the row again and goes on with it.  The turns before read it too, but
\* nothing uses what they read.
Poll(w) ==
  /\ up /\ held[w].pc = "poll"
  /\ \/ held' = [held EXCEPT ![w] = Free]
     \/ \E r \in rows, pc \in {"reboot", "save"} :
          r.id = held[w].item.id /\ held' = [held EXCEPT ![w] = [pc |-> pc, item |-> r]]
  /\ UNCHANGED <<rows, only, now, up, proc, client, edits>>

(***************************************************************************)
(* The process and the clock.                                              *)
(***************************************************************************)
Crash ==
  /\ up /\ up' = FALSE
  /\ proc' = [l \in Listeners |-> Idle]
  /\ held' = [w \in Writers |-> Free]
  /\ UNCHANGED <<rows, only, now, client, edits>>

Restart ==
  /\ ~up /\ up' = TRUE
  /\ UNCHANGED <<rows, only, now, proc, held, client, edits>>

Tick ==
  /\ now < MaxTime /\ now' = now + 1
  /\ UNCHANGED <<rows, only, up, proc, held, client, edits>>

Listener(l) ==
  \/ \E m \in Macs : Discover(l, m) \/ Request(l, m) \/ Decline(l, m)
  \/ HandleDiscover(l)
  \/ RefuseRequest(l) \/ IgnoreRequest(l) \/ GrantRequest(l)
  \/ CreateLease(l) \/ PurgeLease(l) \/ SaveLease(l)
  \/ HandleDecline(l)

Operator ==
  /\ edits < MaxEdits /\ edits' = edits + 1
  /\ \/ \E ip \in IPs, mac \in HostMacs, reimage \in BOOLEAN : CreateHost(ip, mac, reimage)
     \/ \E r \in rows : DeleteHost(r)
     \/ \E w \in Writers, r \in rows :
          \/ \E reimage \in BOOLEAN : LoadUpdate(w, r, reimage)
          \/ StartWorker(w, r)
     \/ UpdatePool

Writer(w) ==
  \/ \E ip \in IPs : LoadTransfer(w, ip) \/ LoadKickstart(w, ip)
  \/ ClearFlag(w) \/ SaveCopy(w) \/ Poll(w)

DhcpNext ==
  \/ \E l \in Listeners : Listener(l)
  \/ Operator
  \/ \E w \in Writers : Writer(w)
  \/ Crash \/ Restart \/ Tick

Spec == Init /\ [][DhcpNext]_vars

(***************************************************************************)
(* Properties.                                                             *)
(***************************************************************************)
Proc == [pc : {"idle", "discover", "request", "decline", "create", "purge", "save"},
         mac : Macs \cup {NoMac}, ip : IPs \cup {NoIP}, sent : Nat,
         snap : SUBSET Row, only : BOOLEAN, lease : Address]

Held == [pc : {"idle", "clear", "save", "kickstart", "start", "poll", "reboot"},
         item : Address]

Busy(p) ==
  /\ p.pc # "idle" => p.mac \in Macs
  /\ p.pc \notin {"idle", "discover"} => p.ip \in IPs
  /\ p.pc \in {"purge", "save"} => p.lease \in Row

\* The types of the variables, and the keys of the table.
TypeOK ==
  /\ rows \subseteq Row
  /\ \A r, s \in rows : r.id = s.id \/ Clash(r, s) => r = s
  /\ only \in BOOLEAN /\ now \in Nat /\ up \in BOOLEAN /\ edits \in Nat
  /\ proc \in [Listeners -> Proc]
  /\ \A l \in Listeners : Busy(proc[l])
  /\ held \in [Writers -> Held]
  /\ \A w \in Writers : held[w].pc # "idle" => held[w].item \in Row
  /\ client \in [Macs -> [ip : IPs \cup {NoIP}, until : Nat]]

\* The listener has loaded the table to decide of a lease, and not yet written it.
Deciding(l) == proc[l].pc \in {"request", "create", "purge", "save"}

\* What the code needs, and does not ensure, for the leases to be exclusive: no two
\* listeners decide of the same address at a time.
Apart ==
  \A k, l \in Listeners :
    Deciding(k) /\ Deciding(l) /\ proc[k].ip = proc[l].ip => k = l

\* What it needs for a lease to be lost to nobody: one listener at a time decides.
OneAtATime == \A k, l \in Listeners : Deciding(k) /\ Deciding(l) => k = l

\* One interface is served, which ensures both.
SingleListener == \A k, l \in Listeners : k = l

Leased(r) == Live(r, now) /\ r.mac # NoMac

\* The copy r carries no more than the row s.
Covers(r, s) ==
  /\ r.id = s.id /\ r.ip = s.ip /\ r.mac = s.mac /\ r.pooled = s.pooled
  /\ r.expires <= s.expires

UpToDate(item) == Leased(item) => \E r \in rows : Covers(item, r)

\* What the code needs of its writers, and does not ensure: when a copy with a
\* running lease is saved, the table still has that lease.  A host that is deleted,
\* and its address granted to another, between the load (addresses.go:226) and the
\* save (addresses.go:245) of an update comes back with its lease, and so it does
\* from tftpd.go:208, ks.go:137 and postconfig.go:99, 270 and 590.
SavesFresh ==
  \A w \in Writers :
    up' /\ held'[w] # held[w] /\ held[w].pc \in DOMAIN AfterSave => UpToDate(held[w].item)

FreshSpec == Init /\ [][DhcpNext /\ SavesFresh]_vars

\* Two leases that are running are never of the same address for two clients:
\* the check of processRequest, its writes, the copies the writers save and the
\* two rows an address may have all work together.
RecordedExclusive ==
  \A r, s \in rows : Leased(r) /\ Leased(s) /\ r.ip = s.ip => r.mac = s.mac

KeepsLeases ==
  \A l \in Listeners : proc'[l] # proc[l] /\ up' =>
    \A r \in rows : Leased(r) /\ r.mac # proc[l].mac => r \in rows'

\* A packet handled for one client leaves the running lease of every other
\* client as it is, whatever happened to the table since the handler loaded it
\* (dhcp.go:246-247 deletes and saves by address and by id).
LiveLeaseKept == [][KeepsLeases]_vars

\* A row without MAC address that blocks its address for some and not for others.
Blank(r) == r.mac = NoMac /\ (r.reimage \/ Live(r, now))

\* What processDiscover offers, processRequest grants when nothing happens in
\* between: for a client with one row at most, and while no row is blank.
OfferAccepted ==
  \A m \in Macs :
    (/\ \A r, s \in Load : r.mac = m /\ s.mac = m => r = s
     /\ \A r \in rows : ~Blank(r))
    => \A ip \in Offers(Load, only, m) : Granted(Load, only, m, ip)

\* A client whose lease is recorded and running can renew it: its address is in
\* the pool and nobody's but its own, unless an administrator reserved it for
\* another or wrote a second row for the client.
RenewalGranted ==
  \A r \in rows :
    (/\ Leased(r) /\ (only => r.reimage)
     /\ \A s \in Load : s.mac = r.mac => s = r
     /\ \A s \in rows \ {r} : s.ip = r.ip => ~s.reimage /\ ~Blank(s))
    => Granted(Load, only, r.mac, r.ip)

\* The client an address is recorded for.
HolderOf(ip) ==
  LET holders == {m \in Macs : \E r \in rows : Leased(r) /\ r.ip = ip /\ r.mac = m}
  IN  IF holders = {} THEN NoMac ELSE CHOOSE m \in holders : TRUE

Leases == INSTANCE LeaseService
  WITH Clients <- Macs, Nobody <- NoMac, clock <- now,
       holder <- [ip \in IPs |-> HolderOf(ip)]

\* The table of addresses implements the lease service.
LeaseServiceSpec == Leases!Spec

\* dhcp.go:72, 160 "Check so we havent given someone else this IP": no two
\* clients use one address under leases they were both granted.
NoDoubleHold ==
  \A m, n \in Macs :
    client[m].until > now /\ client[n].until > now /\ client[m].ip = client[n].ip => m = n
=============================================================================
