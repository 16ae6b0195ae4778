------------------------------- MODULE Inventory -------------------------------
(***************************************************************************)
(* What hosts are installed from: pools, images and groups (api/pools.go,  *)
(* api/image.go, api/groups.go), the hosts of the groups, and the          *)
(* directory tftp/ into which images are unpacked.                         *)
(*                                                                         *)
(* A group names its pool and its image by their ids, and a host its group *)
(* and pool; the database knows no foreign keys (db/main.go).  A request   *)
(* is a goroutine: what it reads, and each change it makes to a table or a *)
(* directory, are steps of their own.  A check and the load of the row it  *)
(* is about are one step, since only the id is used later.                 *)
(***************************************************************************)
EXTENDS Integers

CONSTANTS
  PoolIds, ImageIds, GroupIds, HostIds,  \* bounds: the ids a table gives out
  Names,       \* the names of the ISO files, less the extension
  NoName,      \* no name
  Requests     \* bound: the requests and workers under way at one time

ASSUME IdAssumption == PoolIds \cup ImageIds \cup GroupIds \cup HostIds \subseteq Nat \ {0}

ASSUME NameAssumption == NoName \notin Names

VARIABLES
  pools,    \* the ids in the table pools
  images,   \* the table images: the directory of each
  groups,   \* the table groups
  hosts,    \* the hosts in the table addresses
  iso,      \* the uploaded file of each name
  dir,      \* the directory of each name
  req,      \* the requests under way
  died      \* history: a race of requests ended the process

tables == <<pools, images, groups, hosts>>

files == <<iso, dir>>

vars == <<tables, files, req, died>>

Groups == [pool : PoolIds, image : ImageIds, named : BOOLEAN]

\* A row made by DHCP has no group, and one made for an unknown client of TFTP
\* no pool either.
Hosts == [pool : PoolIds \cup {0}, group : GroupIds \cup {0}]

NoGroup == [pool |-> 0, image |-> 0, named |-> FALSE]

NoHost == [pool |-> 0, group |-> 0]

Contents == {"none", "partial", "whole"}

(***************************************************************************)
(* Tables.                                                                 *)
(***************************************************************************)
Empty == [id \in {} |-> 0]

Put(table, id, row) == [i \in DOMAIN table \cup {id} |-> IF i = id THEN row ELSE table[i]]

Remove(table, id) == [i \in DOMAIN table \ {id} |-> table[i]]

\* sqlite gives a new row the id after the largest one.
NewIds(ids, used) == {i \in ids \ used : (\A j \in used : j < i) /\ (i = 1 \/ i - 1 \in used)}

(***************************************************************************)
(* Requests: op is the operation, at its next step; id, name, hashed,      *)
(* group and host are its local variables; linked is the pool whose row    *)
(* the host was loaded with, 0 for none, and a group is loaded if it is    *)
(* not NoGroup.                                                            *)
(***************************************************************************)
Idle == [op |-> "none", at |-> "idle", id |-> 0, name |-> NoName, hashed |-> FALSE,
         group |-> NoGroup, host |-> NoHost, linked |-> 0]

Init ==
  /\ pools = {} /\ images = Empty /\ groups = Empty /\ hosts = Empty
  /\ iso = [n \in Names |-> "none"] /\ dir = [n \in Names |-> "none"]
  /\ req = [r \in Requests |-> Idle]
  /\ died = FALSE

Start(r, request) == req[r] = Idle /\ req' = [req EXCEPT ![r] = request]

At(r, op, at) == req[r].op = op /\ req[r].at = at

Goto(r, at) == req' = [req EXCEPT ![r].at = at]

Done(r) == req' = [req EXCEPT ![r] = Idle]

\* log.Fatal, or a panic in a worker: with the process everything under way ends.
EndProcess == req' = [r \in Requests |-> Idle] /\ UNCHANGED <<tables, files>>

Die == EndProcess /\ died' = TRUE

Crash == EndProcess /\ UNCHANGED died

(***************************************************************************)
(* Pools.                                                                  *)
(***************************************************************************)
CreatePool ==
  /\ \E p \in NewIds(PoolIds, pools) : pools' = pools \cup {p}
  /\ UNCHANGED <<images, groups, hosts, files, req, died>>

\* UpdatePool changes what Dhcp models; here it brings a deleted row back.
LoadPool(r) ==
  /\ \E p \in pools : Start(r, [Idle EXCEPT !.op = "UpdatePool", !.at = "save", !.id = p])
  /\ UNCHANGED <<tables, files, died>>

SavePool(r) ==
  /\ At(r, "UpdatePool", "save")
  /\ pools' = pools \cup {req[r].id} /\ Done(r)
  /\ UNCHANGED <<images, groups, hosts, files, died>>

\* Mutant: the first group is not looked at.
InUseNever(gs) == FALSE

\* First takes the group with the least id; one without a name counts as none.
InUse(gs) == \E g \in gs : groups[g].named /\ \A k \in gs : g <= k

UsersOfPool(p) == {g \in DOMAIN groups : groups[g].pool = p}

UsersOfImage(i) == {g \in DOMAIN groups : groups[g].image = i}

CheckPool(r) ==
  /\ \E p \in pools : /\ ~InUse(UsersOfPool(p))
                      /\ Start(r, [Idle EXCEPT !.op = "DeletePool", !.at = "delete", !.id = p])
  /\ UNCHANGED <<tables, files, died>>

DeletePool(r) ==
  /\ At(r, "DeletePool", "delete")
  /\ pools' = pools \ {req[r].id} /\ Done(r)
  /\ UNCHANGED <<images, groups, hosts, files, died>>

(***************************************************************************)
(* Images.                                                                 *)
(***************************************************************************)
Upload(n, hashed) ==
  [Idle EXCEPT !.op = "CreateImage", !.at = "write", !.name = n, !.hashed = hashed]

\* os.Create empties a file that is there.
CreateFile(r) ==
  /\ \E n \in Names, hashed \in BOOLEAN :
       /\ Start(r, Upload(n, hashed))
       /\ iso' = [iso EXCEPT ![n] = "partial"]
  /\ UNCHANGED <<tables, dir, died>>

\* The copy may fail, which leaves the file.
WriteFile(r) ==
  /\ At(r, "CreateImage", "write")
  /\ \/ /\ iso' = [iso EXCEPT ![req[r].name] = "whole"]
        /\ Goto(r, IF req[r].hashed THEN "hash" ELSE "open")
     \/ Done(r) /\ UNCHANGED iso
  /\ UNCHANGED <<tables, dir, died>>

\* A file that does not have the hash of the form is removed.  If another upload
\* of the name removed it, here and below, the server ends.
CheckHash(r) ==
  /\ At(r, "CreateImage", "hash")
  /\ IF iso[req[r].name] = "none" THEN Die
     ELSE /\ \/ Goto(r, "open") /\ UNCHANGED iso
             \/ iso' = [iso EXCEPT ![req[r].name] = "none"] /\ Done(r)
          /\ UNCHANGED <<tables, dir, died>>

\* A file that is no ISO image is refused, and stays; else unpacking begins.
OpenFile(r) ==
  /\ At(r, "CreateImage", "open")
  /\ IF iso[req[r].name] = "none" THEN Die
     ELSE /\ \/ dir' = [dir EXCEPT ![req[r].name] = "partial"] /\ Goto(r, "unpack")
             \/ Done(r) /\ UNCHANGED dir
          /\ UNCHANGED <<tables, iso, died>>

\* Mutant: a failure to unpack is logged and the row written.
UnpackUnchecked(r) ==
  /\ At(r, "CreateImage", "unpack")
  /\ dir' = [dir EXCEPT ![req[r].name] = IF iso[req[r].name] = "partial" THEN @ ELSE "whole"]
     \/ UNCHANGED dir
  /\ iso' = [iso EXCEPT ![req[r].name] = "none"]
  /\ Goto(r, "create")
  /\ UNCHANGED <<tables, died>>

\* ExtractImageToDirectory ends, and the file is removed; or it fails, and
\* leaves both.  The file that was opened is read even if its name is gone.
Unpack(r) ==
  /\ At(r, "CreateImage", "unpack")
  /\ \/ /\ iso[req[r].name] # "partial"
        /\ dir' = [dir EXCEPT ![req[r].name] = "whole"]
        /\ iso' = [iso EXCEPT ![req[r].name] = "none"]
        /\ Goto(r, "create")
     \/ Done(r) /\ UNCHANGED files
  /\ UNCHANGED <<tables, died>>

\* Here as below, the insertion may be refused.
CreateImage(r) ==
  /\ At(r, "CreateImage", "create")
  /\ \/ \E i \in NewIds(ImageIds, DOMAIN images) : images' = Put(images, i, req[r].name)
     \/ UNCHANGED images
  /\ Done(r)
  /\ UNCHANGED <<pools, groups, hosts, files, died>>

\* UpdateImage, with a new description.
LoadImage(r) ==
  /\ \E i \in DOMAIN images :
       Start(r, [Idle EXCEPT !.op = "UpdateImage", !.at = "save", !.id = i, !.name = images[i]])
  /\ UNCHANGED <<tables, files, died>>

SaveImage(r) ==
  /\ At(r, "UpdateImage", "save")
  /\ images' = Put(images, req[r].id, req[r].name) /\ Done(r)
  /\ UNCHANGED <<pools, groups, hosts, files, died>>

CheckImage(r) ==
  /\ \E i \in DOMAIN images :
       /\ ~InUse(UsersOfImage(i))
       /\ Start(r, [Idle EXCEPT !.op = "DeleteImage", !.at = "files", !.id = i, !.name = images[i]])
  /\ UNCHANGED <<tables, files, died>>

RemoveAll(r) ==
  /\ At(r, "DeleteImage", "files")
  /\ dir' = [dir EXCEPT ![req[r].name] = "none"] /\ Goto(r, "row")
  /\ UNCHANGED <<tables, iso, died>>

DeleteImage(r) ==
  /\ At(r, "DeleteImage", "row")
  /\ images' = Remove(images, req[r].id) /\ Done(r)
  /\ UNCHANGED <<pools, groups, hosts, files, died>>

(***************************************************************************)
(* Groups.  Pool and image are chosen from the lists the form was shown    *)
(* with, and not looked at again.                                          *)
(***************************************************************************)
\* Mutant: a form without an image is taken.
FillAnyGroup(r) ==
  /\ \E p \in pools, i \in DOMAIN images \cup {0}, named \in BOOLEAN :
       Start(r, [Idle EXCEPT !.op = "CreateGroup", !.at = "create",
                             !.group = [pool |-> p, image |-> i, named |-> named]])
  /\ UNCHANGED <<tables, files, died>>

FillGroup(r) ==
  /\ \E p \in pools, i \in DOMAIN images, named \in BOOLEAN :
       Start(r, [Idle EXCEPT !.op = "CreateGroup", !.at = "create",
                             !.group = [pool |-> p, image |-> i, named |-> named]])
  /\ UNCHANGED <<tables, files, died>>

CreateGroup(r) ==
  /\ At(r, "CreateGroup", "create")
  /\ \/ \E g \in NewIds(GroupIds, DOMAIN groups) : groups' = Put(groups, g, req[r].group)
     \/ UNCHANGED groups
  /\ Done(r)
  /\ UNCHANGED <<pools, images, hosts, files, died>>

LoadGroup(r) ==
  /\ \E g \in DOMAIN groups, p \in pools, i \in DOMAIN images :
       Start(r, [Idle EXCEPT !.op = "UpdateGroup", !.at = "save", !.id = g,
                             !.group = [groups[g] EXCEPT !.pool = p, !.image = i]])
  /\ UNCHANGED <<tables, files, died>>

SaveGroup(r) ==
  /\ At(r, "UpdateGroup", "save")
  /\ groups' = Put(groups, req[r].id, req[r].group) /\ Done(r)
  /\ UNCHANGED <<pools, images, hosts, files, died>>

\* Mutant: the group is loaded without its addresses.
HostsNever(g) == {}

HostsOf(g) == {h \in DOMAIN hosts : hosts[h].group = g}

CheckGroup(r) ==
  /\ \E g \in DOMAIN groups :
       /\ HostsOf(g) = {}
       /\ Start(r, [Idle EXCEPT !.op = "DeleteGroup", !.at = "delete", !.id = g])
  /\ UNCHANGED <<tables, files, died>>

DeleteGroup(r) ==
  /\ At(r, "DeleteGroup", "delete")
  /\ groups' = Remove(groups, req[r].id) /\ Done(r)
  /\ UNCHANGED <<pools, images, hosts, files, died>>

(***************************************************************************)
(* Hosts.  The form of a host has its group and the pool of the group.     *)
(***************************************************************************)
FillHost(r) ==
  /\ \E g \in DOMAIN groups :
       /\ groups[g].pool \in pools
       /\ Start(r, [Idle EXCEPT !.op = "CreateAddress", !.at = "create",
                                !.host = [pool |-> groups[g].pool, group |-> g]])
  /\ UNCHANGED <<tables, files, died>>

Insert(host) ==
  \/ \E h \in NewIds(HostIds, DOMAIN hosts) : hosts' = Put(hosts, h, host)
  \/ UNCHANGED hosts

CreateAddress(r) ==
  /\ At(r, "CreateAddress", "create")
  /\ Insert(req[r].host) /\ Done(r)
  /\ UNCHANGED <<pools, images, groups, files, died>>

\* UpdateAddress, with a group or without.
LoadAddress(r) ==
  /\ \E h \in DOMAIN hosts : \E g \in DOMAIN groups \cup {hosts[h].group} :
       Start(r, [Idle EXCEPT !.op = "UpdateAddress", !.at = "save", !.id = h,
                             !.host = [hosts[h] EXCEPT !.group = g]])
  /\ UNCHANGED <<tables, files, died>>

SaveAddress(r) ==
  /\ At(r, "UpdateAddress", "save")
  /\ hosts' = Put(hosts, req[r].id, req[r].host) /\ Done(r)
  /\ UNCHANGED <<pools, images, groups, files, died>>

DeleteAddress ==
  /\ \E h \in DOMAIN hosts : hosts' = Remove(hosts, h)
  /\ UNCHANGED <<pools, images, groups, files, req, died>>

(***************************************************************************)
(* What a booting host makes the server do.                                *)
(***************************************************************************)
\* Preload(clause.Associations): a row that is not there is left zero.
Loaded(op, at, h) ==
  LET host == hosts[h] IN
  [Idle EXCEPT !.op = op, !.at = at, !.id = h, !.host = host,
               !.group = IF host.group \in DOMAIN groups THEN groups[host.group] ELSE NoGroup,
               !.linked = IF host.pool \in pools THEN host.pool ELSE 0]

\* Save inserts the group and the pool the host was loaded with, if they are
\* gone, and writes their ids back into the row.
SaveHost(q) ==
  /\ hosts' = Put(hosts, q.id, q.host)
  /\ groups' = IF q.group # NoGroup /\ q.host.group \notin DOMAIN groups
               THEN Put(groups, q.host.group, q.group) ELSE groups
  /\ pools' = IF q.linked # 0 THEN pools \cup {q.linked} ELSE pools

\* processRequest and processDecline: a new row, or one of the pool with its
\* columns only.
LoadLease(r) ==
  /\ \/ \E p \in pools :
          Start(r, [Idle EXCEPT !.op = "Lease", !.at = "save", !.host.pool = p])
     \/ \E h \in DOMAIN hosts :
          /\ hosts[h].pool \in pools
          /\ Start(r, [Idle EXCEPT !.op = "Lease", !.at = "save", !.id = h, !.host = hosts[h]])
  /\ UNCHANGED <<tables, files, died>>

SaveLease(r) ==
  /\ At(r, "Lease", "save")
  /\ IF req[r].id = 0 THEN Insert(req[r].host) ELSE hosts' = Put(hosts, req[r].id, req[r].host)
  /\ Done(r)
  /\ UNCHANGED <<pools, images, groups, files, died>>

\* readHandler: a TFTP transfer, also to a client that no row knows.
LoadTransfer(r) ==
  /\ \/ \E h \in DOMAIN hosts : Start(r, Loaded("Transfer", "save", h))
     \/ Start(r, [Idle EXCEPT !.op = "Transfer", !.at = "save"])
  /\ UNCHANGED <<tables, files, died>>

SaveTransfer(r) ==
  /\ At(r, "Transfer", "save")
  /\ IF req[r].id = 0 THEN Insert(req[r].host) /\ UNCHANGED <<pools, groups>> ELSE SaveHost(req[r])
  /\ Done(r)
  /\ UNCHANGED <<images, files, died>>

\* Ks: without a group there is no password to decrypt, and the request ends
\* in a panic; otherwise it goes on as the worker.
LoadKickstart(r) ==
  /\ \E h \in DOMAIN hosts :
       /\ hosts[h].group \in DOMAIN groups
       /\ Start(r, Loaded("Work", "serve", h))
  /\ UNCHANGED <<tables, files, died>>

ServeKickstart(r) ==
  /\ At(r, "Work", "serve")
  /\ SaveHost(req[r]) /\ Goto(r, "save")
  /\ UNCHANGED <<images, files, died>>

\* PostConfig starts a worker.  One that finds no password to decrypt panics, and
\* ends the process: that of a host without a group as that of one whose group
\* is gone.
StartWorker(r) ==
  \E h \in DOMAIN hosts :
    \/ /\ hosts[h].group \in DOMAIN groups
       /\ Start(r, Loaded("Work", "save", h))
       /\ UNCHANGED <<tables, files, died>>
    \/ /\ hosts[h].group \notin DOMAIN groups \cup {0}
       /\ req[r] = Idle /\ Die
    \/ /\ hosts[h].group = 0
       /\ req[r] = Idle /\ Crash

SaveWorker(r) ==
  /\ At(r, "Work", "save")
  /\ SaveHost(req[r]) /\ Goto(r, "read")
  /\ UNCHANGED <<images, files, died>>

\* First reads the columns again, but not the group and the pool.
ReadWorker(r) ==
  /\ At(r, "Work", "read")
  /\ LET h == req[r].id IN
     IF h \notin DOMAIN hosts THEN Done(r)
     ELSE \/ Done(r)
          \/ req' = [req EXCEPT ![r].at = "end",
                                ![r].host.pool = IF req[r].linked = 0 THEN hosts[h].pool ELSE @]
  /\ UNCHANGED <<tables, files, died>>

EndWorker(r) ==
  /\ At(r, "Work", "end")
  /\ SaveHost(req[r]) /\ Done(r)
  /\ UNCHANGED <<images, files, died>>

\* A host that answers without its host system, which the errors are dropped
\* over, or a CA that cannot be read, ends the process.
FailWorker(r) == At(r, "Work", "end") /\ Crash

(***************************************************************************)
(* The specification.                                                      *)
(***************************************************************************)
PoolRequest(r) == LoadPool(r) \/ SavePool(r) \/ CheckPool(r) \/ DeletePool(r)

ImageRequest(r) ==
  \/ CreateFile(r) \/ WriteFile(r) \/ CheckHash(r) \/ OpenFile(r) \/ Unpack(r)
  \/ CreateImage(r) \/ LoadImage(r) \/ SaveImage(r)
  \/ CheckImage(r) \/ RemoveAll(r) \/ DeleteImage(r)

GroupRequest(r) ==
  \/ FillGroup(r) \/ CreateGroup(r) \/ LoadGroup(r) \/ SaveGroup(r)
  \/ CheckGroup(r) \/ DeleteGroup(r)

HostRequest(r) ==
  \/ FillHost(r) \/ CreateAddress(r) \/ LoadAddress(r) \/ SaveAddress(r)
  \/ LoadLease(r) \/ SaveLease(r)
  \/ LoadTransfer(r) \/ SaveTransfer(r)
  \/ LoadKickstart(r) \/ ServeKickstart(r)
  \/ StartWorker(r) \/ SaveWorker(r) \/ ReadWorker(r) \/ EndWorker(r) \/ FailWorker(r)

Next ==
  \/ CreatePool \/ DeleteAddress \/ Crash
  \/ \E r \in Requests : PoolRequest(r) \/ ImageRequest(r) \/ GroupRequest(r) \/ HostRequest(r)

Spec == Init /\ [][Next]_vars

(***************************************************************************)
(* What the code leaves to its users: requests that disturb each other do  *)
(* not overlap, groups have names, and so do images, each its own.         *)
(***************************************************************************)
\* The requests that save a group, and those that save a host.
GroupOps == {"CreateGroup", "UpdateGroup"}

HostOps == {"CreateAddress", "UpdateAddress", "Lease", "Transfer", "Work"}

\* p deletes the row that q refers to, saves again or deletes as well.
Against(p, q) ==
  \/ p.op = "DeletePool" /\ q.op \in GroupOps /\ q.group.pool = p.id
  \/ p.op = "DeleteImage" /\ q.op \in GroupOps /\ q.group.image = p.id
  \/ p.op = "DeleteImage" /\ q.op \in {"UpdateImage", "DeleteImage"} /\ q.id = p.id
  \/ p.op = "DeleteGroup" /\ q.op \in HostOps /\ q.host.group = p.id

Separate == \A r, s \in Requests : r # s => ~Against(req[r], req[s])

\* The deletions of pools and images overlook a group without a name.
Named == \A g \in DOMAIN groups : groups[g].named

\* A file name belongs to one image or to one upload.
OwnNames ==
  /\ \A i, j \in DOMAIN images : images[i] = images[j] => i = j
  /\ \A r \in Requests : req[r].op = "CreateImage" =>
       /\ \A i \in DOMAIN images : images[i] # req[r].name
       /\ \A s \in Requests \ {r} : req[s].op = "CreateImage" => req[s].name # req[r].name

Orderly == Separate /\ Named /\ OwnNames

OrderlySpec == Init /\ [][Next /\ Orderly']_vars

(***************************************************************************)
(* Properties.                                                             *)
(***************************************************************************)
TypeOK ==
  /\ pools \subseteq PoolIds
  /\ DOMAIN images \subseteq ImageIds /\ \A i \in DOMAIN images : images[i] \in Names
  /\ DOMAIN groups \subseteq GroupIds /\ \A g \in DOMAIN groups : groups[g] \in Groups
  /\ DOMAIN hosts \subseteq HostIds /\ \A h \in DOMAIN hosts : hosts[h] \in Hosts
  /\ iso \in [Names -> Contents] /\ dir \in [Names -> Contents]
  /\ died \in BOOLEAN

\* In orderly use every group has its pool and its image, and every host that has
\* a group its row: pools.go:314, image.go:313 and groups.go:239 refuse to delete
\* what is in use, and no save brings a row back whose references are gone.
RefsResolve ==
  /\ \A g \in DOMAIN groups : groups[g].pool \in pools /\ groups[g].image \in DOMAIN images
  /\ \A h \in DOMAIN hosts : hosts[h].group \in DOMAIN groups \cup {0}

\* image.go:318 "the image is being used by groups": in orderly use the directory
\* of an image that a group uses, once whole, stays whole, whatever is uploaded or
\* deleted.
UsedFilesKept ==
  [][\A g \in DOMAIN groups \cap DOMAIN groups' :
       LET i == groups[g].image IN
       i \in DOMAIN images /\ groups'[g].image = i /\ dir[images[i]] = "whole"
         => dir'[images[i]] = "whole"]_vars

\* In orderly use an image is listed only when it was unpacked to the end: uploads
\* that fail or are cut off by a crash leave files behind, but no row.
ListedComplete ==
  [][\A i \in DOMAIN images' \ DOMAIN images : dir'[images'[i]] = "whole"]_vars

\* In orderly use what one request deletes never ends the process in another one:
\* no worker runs into the deleted group of its host (postconfig.go:82), and no
\* upload into the missing file of another one (image.go:148).  The other ways in
\* which a worker ends the process need no race, and are left to happen: a host
\* that never had a group (dhcp.go:212), one that answers without a host system
\* (postconfig.go:155), and a CA that cannot be read (crypto/main.go:69).
RacesSurvived == ~died
=============================================================================
