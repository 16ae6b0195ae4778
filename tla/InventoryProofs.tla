---------------------------- MODULE InventoryProofs ----------------------------
(***************************************************************************)
(* Inventory, for any number of pools, images, groups, hosts, file names   *)
(* and requests: its types, whatever overlaps; and, as long as use is      *)
(* orderly, that no reference dangles, that no race ends the process, and  *)
(* that the directories that groups are installed from stay.               *)
(*                                                                         *)
(* Orderly use is a hypothesis about the rows that requests under way are  *)
(* about, in each state of a behaviour.  The invariant says what each      *)
(* request may then rely on until it ends (Refs, FileOK).                  *)
(***************************************************************************)
EXTENDS Inventory, WellFoundedInduction, TLAPS

USE IdAssumption, NameAssumption

-----------------------------------------------------------------------------
(* Types. *)

Fields == {"op", "at", "id", "name", "hashed", "group", "host", "linked"}

\* What a request knows.
ReqOK(q) ==
  /\ DOMAIN q = Fields
  /\ q.op = "UpdatePool" => q.id \in PoolIds
  /\ q.op \in {"CreateImage", "UpdateImage", "DeleteImage"} => q.name \in Names
  /\ q.op = "UpdateImage" => q.id \in ImageIds
  /\ q.op \in GroupOps => q.group \in Groups
  /\ q.op = "UpdateGroup" => q.id \in GroupIds
  /\ q.op \in HostOps => q.host \in Hosts
  /\ q.op \in {"UpdateAddress", "Work"} => q.id \in HostIds
  /\ q.op \in {"Lease", "Transfer"} => q.id \in HostIds \cup {0}
  /\ q.op \in {"Transfer", "Work"} =>
       /\ q.group \in Groups \cup {NoGroup} /\ q.linked \in PoolIds \cup {0}
       /\ q.group # NoGroup => q.host.group \in GroupIds

ReqsOK ==
  /\ DOMAIN req = Requests
  /\ \A r \in Requests : ReqOK(req[r])

LEMMA IdleOK == ReqOK(Idle)
<1>1. DOMAIN Idle = Fields /\ Idle.op = "none"
  BY DEF Idle, Fields
<1> QED BY <1>1 DEF ReqOK, GroupOps, HostOps

\* A request that begins, goes on, or ends.
LEMMA ReqChange ==
  ASSUME ReqsOK, NEW r \in Requests, NEW q, ReqOK(q), req' = [req EXCEPT ![r] = q]
  PROVE  ReqsOK'
  BY DEF ReqsOK

LEMMA GotoOK ==
  ASSUME NEW q, ReqOK(q), NEW at
  PROVE  ReqOK([q EXCEPT !.at = at])
<1> DEFINE p == [q EXCEPT !.at = at]
<1>1. /\ DOMAIN p = Fields /\ p.op = q.op /\ p.id = q.id /\ p.name = q.name
      /\ p.group = q.group /\ p.host = q.host /\ p.linked = q.linked
  BY DEF ReqOK, Fields
<1> QED BY <1>1 DEF ReqOK

LEMMA GotoKeeps ==
  ASSUME ReqsOK, NEW r \in Requests, NEW at, Goto(r, at)
  PROVE  ReqsOK'
<1>1. ReqOK([req[r] EXCEPT !.at = at])
  BY GotoOK DEF ReqsOK
<1>2. req' = [req EXCEPT ![r] = [req[r] EXCEPT !.at = at]]
  BY DEF Goto, ReqsOK
<1> QED BY <1>1, <1>2, ReqChange

LEMMA DoneKeeps ==
  ASSUME ReqsOK, NEW r \in Requests, Done(r)
  PROVE  ReqsOK'
  BY IdleOK, ReqChange DEF Done

LEMMA StartKeeps ==
  ASSUME ReqsOK, NEW r \in Requests, NEW q, ReqOK(q), Start(r, q)
  PROVE  ReqsOK'
  BY ReqChange DEF Start

LEMMA EndAllKeeps ==
  ASSUME req' = [r \in Requests |-> Idle]
  PROVE  ReqsOK'
  BY IdleOK DEF ReqsOK

\* The tables.
TablesOK ==
  /\ pools \subseteq PoolIds
  /\ DOMAIN images \subseteq ImageIds /\ \A i \in DOMAIN images : images[i] \in Names
  /\ DOMAIN groups \subseteq GroupIds /\ \A g \in DOMAIN groups : groups[g] \in Groups
  /\ DOMAIN hosts \subseteq HostIds /\ \A h \in DOMAIN hosts : hosts[h] \in Hosts

FilesOK == iso \in [Names -> Contents] /\ dir \in [Names -> Contents]

TypeInv == TablesOK /\ FilesOK /\ ReqsOK /\ died \in BOOLEAN

LEMMA NewIdsIn == \A ids, used : NewIds(ids, used) \subseteq ids
  BY DEF NewIds

\* A row that is put into a table, and one that is removed.
LEMMA PutOK ==
  ASSUME NEW table, NEW Ids, NEW Rows, DOMAIN table \subseteq Ids,
         \A i \in DOMAIN table : table[i] \in Rows, NEW id \in Ids, NEW row \in Rows
  PROVE  /\ DOMAIN Put(table, id, row) \subseteq Ids
         /\ \A i \in DOMAIN Put(table, id, row) : Put(table, id, row)[i] \in Rows
  BY DEF Put

\* What Preload makes of a host.
LEMMA LoadedOK ==
  ASSUME TypeInv, NEW op \in {"Transfer", "Work"}, NEW at, NEW h \in DOMAIN hosts
  PROVE  ReqOK(Loaded(op, at, h))
<1>1. h \in HostIds /\ hosts[h] \in Hosts /\ h \in Nat
  BY DEF TypeInv, TablesOK
<1>2. (IF hosts[h].group \in DOMAIN groups THEN groups[hosts[h].group] ELSE NoGroup)
        \in Groups \cup {NoGroup}
  BY DEF TypeInv, TablesOK
<1>3. (IF hosts[h].pool \in pools THEN hosts[h].pool ELSE 0) \in PoolIds \cup {0}
  BY DEF TypeInv, TablesOK
<1> DEFINE q == Loaded(op, at, h)
<1>4. /\ DOMAIN q = Fields /\ q.op = op /\ q.id = h /\ q.host = hosts[h]
      /\ q.group = IF hosts[h].group \in DOMAIN groups THEN groups[hosts[h].group] ELSE NoGroup
      /\ q.linked = IF hosts[h].pool \in pools THEN hosts[h].pool ELSE 0
  BY DEF Loaded, Idle, Fields
<1> HIDE DEF q
<1>5. q.group # NoGroup => q.host.group \in GroupIds
  BY <1>4 DEF TypeInv, TablesOK
<1>6. ReqOK(q)
  BY <1>1, <1>2, <1>3, <1>4, <1>5 DEF ReqOK, GroupOps, HostOps
<1> QED BY <1>6 DEF q

\* Saving a host keeps the tables.
LEMMA SaveHostOK ==
  ASSUME TypeInv, NEW q, ReqOK(q), q.op \in {"Transfer", "Work"}, q.id # 0,
         SaveHost(q), images' = images
  PROVE  TablesOK'
<1>1. q.id \in HostIds /\ q.host \in Hosts
  BY DEF ReqOK, HostOps
<1>2. DOMAIN hosts' \subseteq HostIds /\ \A h \in DOMAIN hosts' : hosts'[h] \in Hosts
  <2>1. hosts' = Put(hosts, q.id, q.host)
    BY DEF SaveHost
  <2> QED BY <1>1, <2>1 DEF TypeInv, TablesOK, Put
<1>3. DOMAIN groups' \subseteq GroupIds /\ \A g \in DOMAIN groups' : groups'[g] \in Groups
  <2>1. CASE q.group # NoGroup /\ q.host.group \notin DOMAIN groups
    <3>1. groups' = Put(groups, q.host.group, q.group)
      BY <2>1 DEF SaveHost
    <3>2. q.group \in Groups /\ q.host.group \in GroupIds
      BY <2>1 DEF ReqOK
    <3> QED BY <3>1, <3>2 DEF TypeInv, TablesOK, Put
  <2>2. CASE ~(q.group # NoGroup /\ q.host.group \notin DOMAIN groups)
    BY <2>2 DEF SaveHost, TypeInv, TablesOK
  <2> QED BY <2>1, <2>2
<1>4. pools' \subseteq PoolIds
  BY DEF SaveHost, TypeInv, TablesOK, ReqOK
<1> QED BY <1>2, <1>3, <1>4 DEF TypeInv, TablesOK

\* What a request begins with, by its operation.
LEMMA FormsOK ==
  ASSUME NEW at, NEW id, NEW name, NEW hashed, NEW group, NEW host
  PROVE  /\ id \in PoolIds => ReqOK([Idle EXCEPT !.op = "UpdatePool", !.at = at, !.id = id])
         /\ ReqOK([Idle EXCEPT !.op = "DeletePool", !.at = at, !.id = id])
         /\ name \in Names => ReqOK(Upload(name, hashed))
         /\ name \in Names /\ id \in ImageIds =>
              ReqOK([Idle EXCEPT !.op = "UpdateImage", !.at = at, !.id = id, !.name = name])
         /\ name \in Names =>
              ReqOK([Idle EXCEPT !.op = "DeleteImage", !.at = at, !.id = id, !.name = name])
         /\ group \in Groups =>
              ReqOK([Idle EXCEPT !.op = "CreateGroup", !.at = at, !.group = group])
         /\ group \in Groups /\ id \in GroupIds =>
              ReqOK([Idle EXCEPT !.op = "UpdateGroup", !.at = at, !.id = id, !.group = group])
         /\ ReqOK([Idle EXCEPT !.op = "DeleteGroup", !.at = at, !.id = id])
         /\ host \in Hosts =>
              ReqOK([Idle EXCEPT !.op = "CreateAddress", !.at = at, !.host = host])
         /\ host \in Hosts /\ id \in HostIds =>
              ReqOK([Idle EXCEPT !.op = "UpdateAddress", !.at = at, !.id = id, !.host = host])
         /\ host \in Hosts /\ id \in HostIds =>
              ReqOK([Idle EXCEPT !.op = "Lease", !.at = at, !.id = id, !.host = host])
<1>1. DOMAIN Idle = Fields
  BY DEF Idle, Fields
<1>2. id \in PoolIds => ReqOK([Idle EXCEPT !.op = "UpdatePool", !.at = at, !.id = id])
  BY <1>1 DEF ReqOK, GroupOps, HostOps, Fields
<1>3. ReqOK([Idle EXCEPT !.op = "DeletePool", !.at = at, !.id = id])
  BY <1>1 DEF ReqOK, GroupOps, HostOps, Fields
<1>4. name \in Names => ReqOK(Upload(name, hashed))
  BY <1>1 DEF ReqOK, GroupOps, HostOps, Fields, Upload
<1>5. name \in Names /\ id \in ImageIds =>
        ReqOK([Idle EXCEPT !.op = "UpdateImage", !.at = at, !.id = id, !.name = name])
  BY <1>1 DEF ReqOK, GroupOps, HostOps, Fields
<1>6. name \in Names =>
        ReqOK([Idle EXCEPT !.op = "DeleteImage", !.at = at, !.id = id, !.name = name])
  BY <1>1 DEF ReqOK, GroupOps, HostOps, Fields
<1>7. group \in Groups => ReqOK([Idle EXCEPT !.op = "CreateGroup", !.at = at, !.group = group])
  BY <1>1 DEF ReqOK, GroupOps, HostOps, Fields
<1>8. group \in Groups /\ id \in GroupIds =>
        ReqOK([Idle EXCEPT !.op = "UpdateGroup", !.at = at, !.id = id, !.group = group])
  BY <1>1 DEF ReqOK, GroupOps, HostOps, Fields
<1>9. ReqOK([Idle EXCEPT !.op = "DeleteGroup", !.at = at, !.id = id])
  BY <1>1 DEF ReqOK, GroupOps, HostOps, Fields
<1>10. host \in Hosts => ReqOK([Idle EXCEPT !.op = "CreateAddress", !.at = at, !.host = host])
  BY <1>1 DEF ReqOK, GroupOps, HostOps, Fields
<1>11. host \in Hosts /\ id \in HostIds =>
         ReqOK([Idle EXCEPT !.op = "UpdateAddress", !.at = at, !.id = id, !.host = host])
  BY <1>1 DEF ReqOK, GroupOps, HostOps, Fields
<1>12. host \in Hosts /\ id \in HostIds =>
         ReqOK([Idle EXCEPT !.op = "Lease", !.at = at, !.id = id, !.host = host])
  BY <1>1 DEF ReqOK, GroupOps, HostOps, Fields
<1> QED BY <1>2, <1>3, <1>4, <1>5, <1>6, <1>7, <1>8, <1>9, <1>10, <1>11, <1>12

\* A row that DHCP or TFTP makes.
LEMMA NewRowsOK ==
  ASSUME NEW at
  PROVE  /\ \A p \in PoolIds : ReqOK([Idle EXCEPT !.op = "Lease", !.at = at, !.host.pool = p])
         /\ ReqOK([Idle EXCEPT !.op = "Transfer", !.at = at])
<1>1. /\ DOMAIN Idle = Fields /\ Idle.id = 0 /\ Idle.host = NoHost /\ NoHost \in Hosts
      /\ Idle.group = NoGroup /\ Idle.linked = 0
  BY DEF Idle, Fields, NoHost, Hosts
<1>2. ASSUME NEW p \in PoolIds
      PROVE  ReqOK([Idle EXCEPT !.op = "Lease", !.at = at, !.host.pool = p])
  <2>1. [NoHost EXCEPT !.pool = p] \in Hosts
    BY DEF NoHost, Hosts
  <2> DEFINE q == [Idle EXCEPT !.op = "Lease", !.at = at, !.host.pool = p]
  <2>2. DOMAIN q = Fields /\ q.op = "Lease" /\ q.id = 0 /\ q.host = [NoHost EXCEPT !.pool = p]
    BY <1>1 DEF Fields
  <2> HIDE DEF q
  <2>3. ReqOK(q)
    BY <2>1, <2>2 DEF ReqOK, GroupOps, HostOps
  <2> QED BY <2>3 DEF q
<1>3. ReqOK([Idle EXCEPT !.op = "Transfer", !.at = at])
  BY <1>1 DEF ReqOK, GroupOps, HostOps, Fields
<1> QED BY <1>2, <1>3

LEMMA TypeInit == Init => TypeInv
<1>1. DOMAIN Empty = {}
  BY DEF Empty
<1>2. Init => ReqsOK
  BY IdleOK DEF Init, ReqsOK
<1>3. Init => TablesOK
  BY <1>1 DEF Init, TablesOK
<1>4. Init => FilesOK
  BY DEF Init, FilesOK, Contents
<1>5. Init => died \in BOOLEAN
  BY Zenon DEF Init
<1> QED BY <1>2, <1>3, <1>4, <1>5 DEF TypeInv

LEMMA PoolTypes ==
  ASSUME TypeInv, NEW r \in Requests, PoolRequest(r)
  PROVE  TypeInv'
<1>1. CASE LoadPool(r)
  <2>1. PICK p \in pools : Start(r, [Idle EXCEPT !.op = "UpdatePool", !.at = "save", !.id = p])
    BY <1>1 DEF LoadPool
  <2>2. ReqsOK'
    BY <2>1, FormsOK, StartKeeps DEF TypeInv, TablesOK
  <2> QED BY <1>1, <2>2 DEF LoadPool, TypeInv, TablesOK, FilesOK, tables, files
<1>2. CASE SavePool(r)
  <2>1. ReqsOK' /\ req[r].id \in PoolIds
    BY <1>2, DoneKeeps DEF SavePool, TypeInv, ReqsOK, ReqOK, At
  <2> QED BY <1>2, <2>1 DEF SavePool, TypeInv, TablesOK, FilesOK, files
<1>3. CASE CheckPool(r)
  <2>1. PICK p \in pools : Start(r, [Idle EXCEPT !.op = "DeletePool", !.at = "delete", !.id = p])
    BY <1>3 DEF CheckPool
  <2>2. ReqsOK'
    BY <2>1, FormsOK, StartKeeps DEF TypeInv
  <2> QED BY <1>3, <2>2 DEF CheckPool, TypeInv, TablesOK, FilesOK, tables, files
<1>4. CASE DeletePool(r)
  <2>1. ReqsOK'
    BY <1>4, DoneKeeps DEF DeletePool, TypeInv
  <2> QED BY <1>4, <2>1 DEF DeletePool, TypeInv, TablesOK, FilesOK, files
<1> QED BY <1>1, <1>2, <1>3, <1>4 DEF PoolRequest

LEMMA EndTypes == ASSUME TypeInv, Die \/ Crash PROVE TypeInv'
<1>1. ReqsOK' /\ UNCHANGED <<tables, files>> /\ died' \in BOOLEAN
  BY EndAllKeeps DEF Die, Crash, EndProcess, TypeInv
<1> QED BY <1>1 DEF TypeInv, TablesOK, FilesOK, tables, files

LEMMA ImageTypes ==
  ASSUME TypeInv, NEW r \in Requests, ImageRequest(r)
  PROVE  TypeInv'
<1> USE DEF Contents
<1>0. req[r].op \in {"CreateImage", "UpdateImage", "DeleteImage"} => req[r].name \in Names
  BY DEF TypeInv, ReqsOK, ReqOK
<1>1. CASE CreateFile(r)
  <2>1. PICK n \in Names, hashed \in BOOLEAN :
          Start(r, Upload(n, hashed)) /\ iso' = [iso EXCEPT ![n] = "partial"]
    BY <1>1 DEF CreateFile
  <2>2. ReqsOK'
    BY <2>1, FormsOK, StartKeeps DEF TypeInv
  <2> QED BY <1>1, <2>1, <2>2 DEF CreateFile, TypeInv, TablesOK, FilesOK, tables
<1>2. CASE WriteFile(r)
  <2>1. ReqsOK'
    BY <1>2, DoneKeeps, GotoKeeps DEF WriteFile, TypeInv
  <2> QED BY <1>0, <1>2, <2>1 DEF WriteFile, At, TypeInv, TablesOK, FilesOK, tables
<1>3. CASE CheckHash(r)
  <2>1. CASE Die
    BY <2>1, EndTypes
  <2>2. CASE ~Die
    <3>1. ReqsOK'
      BY <1>3, <2>2, DoneKeeps, GotoKeeps DEF CheckHash, TypeInv
    <3> QED BY <1>0, <1>3, <2>2, <3>1 DEF CheckHash, At, TypeInv, TablesOK, FilesOK, tables
  <2> QED BY <2>1, <2>2
<1>4. CASE OpenFile(r)
  <2>1. CASE Die
    BY <2>1, EndTypes
  <2>2. CASE ~Die
    <3>1. ReqsOK'
      BY <1>4, <2>2, DoneKeeps, GotoKeeps DEF OpenFile, TypeInv
    <3> QED BY <1>0, <1>4, <2>2, <3>1 DEF OpenFile, At, TypeInv, TablesOK, FilesOK, tables
  <2> QED BY <2>1, <2>2
<1>5. CASE Unpack(r)
  <2>1. ReqsOK'
    BY <1>5, DoneKeeps, GotoKeeps DEF Unpack, TypeInv
  <2> QED BY <1>0, <1>5, <2>1 DEF Unpack, At, TypeInv, TablesOK, FilesOK, tables, files
<1>6. CASE CreateImage(r)
  <2>1. ReqsOK'
    BY <1>6, DoneKeeps DEF CreateImage, TypeInv
  <2>2. DOMAIN images' \subseteq ImageIds /\ \A i \in DOMAIN images' : images'[i] \in Names
    <3>1. CASE UNCHANGED images
      BY <3>1 DEF TypeInv, TablesOK
    <3>2. ASSUME NEW i \in NewIds(ImageIds, DOMAIN images), images' = Put(images, i, req[r].name)
          PROVE  DOMAIN images' \subseteq ImageIds /\ \A k \in DOMAIN images' : images'[k] \in Names
      <4>1. i \in ImageIds /\ req[r].name \in Names
        BY <1>0, <1>6, NewIdsIn DEF CreateImage, At
      <4> QED BY <3>2, <4>1 DEF TypeInv, TablesOK, Put
    <3> QED BY <1>6, <3>1, <3>2 DEF CreateImage
  <2> QED BY <1>6, <2>1, <2>2 DEF CreateImage, TypeInv, TablesOK, FilesOK, files
<1>7. CASE LoadImage(r)
  <2>1. PICK i \in DOMAIN images :
          Start(r, [Idle EXCEPT !.op = "UpdateImage", !.at = "save", !.id = i, !.name = images[i]])
    BY <1>7 DEF LoadImage
  <2>2. ReqsOK'
    BY <2>1, FormsOK, StartKeeps DEF TypeInv, TablesOK
  <2> QED BY <1>7, <2>2 DEF LoadImage, TypeInv, TablesOK, FilesOK, tables, files
<1>8. CASE SaveImage(r)
  <2>1. ReqsOK' /\ req[r].id \in ImageIds /\ req[r].name \in Names
    BY <1>0, <1>8, DoneKeeps DEF SaveImage, TypeInv, ReqsOK, ReqOK, At
  <2>2. DOMAIN images' \subseteq ImageIds /\ \A i \in DOMAIN images' : images'[i] \in Names
    BY <1>8, <2>1 DEF SaveImage, TypeInv, TablesOK, Put
  <2> QED BY <1>8, <2>1, <2>2 DEF SaveImage, TypeInv, TablesOK, FilesOK, files
<1>9. CASE CheckImage(r)
  <2>1. PICK i \in DOMAIN images :
          Start(r, [Idle EXCEPT !.op = "DeleteImage", !.at = "files", !.id = i, !.name = images[i]])
    BY <1>9 DEF CheckImage
  <2>2. ReqsOK'
    BY <2>1, FormsOK, StartKeeps DEF TypeInv, TablesOK
  <2> QED BY <1>9, <2>2 DEF CheckImage, TypeInv, TablesOK, FilesOK, tables, files
<1>10. CASE RemoveAll(r)
  <2>1. ReqsOK'
    BY <1>10, GotoKeeps DEF RemoveAll, TypeInv
  <2> QED BY <1>0, <1>10, <2>1 DEF RemoveAll, At, TypeInv, TablesOK, FilesOK, tables
<1>11. CASE DeleteImage(r)
  <2>1. ReqsOK'
    BY <1>11, DoneKeeps DEF DeleteImage, TypeInv
  <2> QED BY <1>11, <2>1 DEF DeleteImage, TypeInv, TablesOK, FilesOK, files, Remove
<1> QED BY <1>1, <1>2, <1>3, <1>4, <1>5, <1>6, <1>7, <1>8, <1>9, <1>10, <1>11 DEF ImageRequest

LEMMA GroupTypes ==
  ASSUME TypeInv, NEW r \in Requests, GroupRequest(r)
  PROVE  TypeInv'
<1>0. ASSUME NEW g \in GroupIds, NEW row \in Groups, groups' = Put(groups, g, row)
      PROVE  DOMAIN groups' \subseteq GroupIds /\ \A k \in DOMAIN groups' : groups'[k] \in Groups
  BY <1>0 DEF TypeInv, TablesOK, Put
<1>1. CASE FillGroup(r)
  <2>1. PICK p \in pools, i \in DOMAIN images, named \in BOOLEAN :
          Start(r, [Idle EXCEPT !.op = "CreateGroup", !.at = "create",
                                !.group = [pool |-> p, image |-> i, named |-> named]])
    BY <1>1 DEF FillGroup
  <2>2. [pool |-> p, image |-> i, named |-> named] \in Groups
    BY DEF Groups, TypeInv, TablesOK
  <2>3. ReqsOK'
    BY <2>1, <2>2, FormsOK, StartKeeps DEF TypeInv
  <2> QED BY <1>1, <2>3 DEF FillGroup, TypeInv, TablesOK, FilesOK, tables, files
<1>2. CASE CreateGroup(r)
  <2>1. ReqsOK' /\ req[r].group \in Groups
    BY <1>2, DoneKeeps DEF CreateGroup, TypeInv, ReqsOK, ReqOK, At, GroupOps
  <2>2. DOMAIN groups' \subseteq GroupIds /\ \A k \in DOMAIN groups' : groups'[k] \in Groups
    <3>1. CASE UNCHANGED groups
      BY <3>1 DEF TypeInv, TablesOK
    <3>2. CASE \E g \in NewIds(GroupIds, DOMAIN groups) : groups' = Put(groups, g, req[r].group)
      BY <1>0, <2>1, <3>2, NewIdsIn
    <3> QED BY <1>2, <3>1, <3>2 DEF CreateGroup
  <2> QED BY <1>2, <2>1, <2>2 DEF CreateGroup, TypeInv, TablesOK, FilesOK, files
<1>3. CASE LoadGroup(r)
  <2>1. PICK g \in DOMAIN groups, p \in pools, i \in DOMAIN images :
          Start(r, [Idle EXCEPT !.op = "UpdateGroup", !.at = "save", !.id = g,
                                !.group = [groups[g] EXCEPT !.pool = p, !.image = i]])
    BY <1>3 DEF LoadGroup
  <2>2. [groups[g] EXCEPT !.pool = p, !.image = i] \in Groups /\ g \in GroupIds
    BY DEF Groups, TypeInv, TablesOK
  <2>3. ReqsOK'
    BY <2>1, <2>2, FormsOK, StartKeeps DEF TypeInv
  <2> QED BY <1>3, <2>3 DEF LoadGroup, TypeInv, TablesOK, FilesOK, tables, files
<1>4. CASE SaveGroup(r)
  <2>1. ReqsOK' /\ req[r].group \in Groups /\ req[r].id \in GroupIds
    BY <1>4, DoneKeeps DEF SaveGroup, TypeInv, ReqsOK, ReqOK, At, GroupOps
  <2>2. DOMAIN groups' \subseteq GroupIds /\ \A k \in DOMAIN groups' : groups'[k] \in Groups
    BY <1>0, <1>4, <2>1 DEF SaveGroup
  <2> QED BY <1>4, <2>1, <2>2 DEF SaveGroup, TypeInv, TablesOK, FilesOK, files
<1>5. CASE CheckGroup(r)
  <2>1. PICK g \in DOMAIN groups :
          Start(r, [Idle EXCEPT !.op = "DeleteGroup", !.at = "delete", !.id = g])
    BY <1>5 DEF CheckGroup
  <2>2. ReqsOK'
    BY <2>1, FormsOK, StartKeeps DEF TypeInv
  <2> QED BY <1>5, <2>2 DEF CheckGroup, TypeInv, TablesOK, FilesOK, tables, files
<1>6. CASE DeleteGroup(r)
  <2>1. ReqsOK'
    BY <1>6, DoneKeeps DEF DeleteGroup, TypeInv
  <2> QED BY <1>6, <2>1 DEF DeleteGroup, TypeInv, TablesOK, FilesOK, files, Remove
<1> QED BY <1>1, <1>2, <1>3, <1>4, <1>5, <1>6 DEF GroupRequest

LEMMA HostTypes ==
  ASSUME TypeInv, NEW r \in Requests, HostRequest(r)
  PROVE  TypeInv'
<1>0. ASSUME NEW h \in HostIds, NEW row \in Hosts, hosts' = Put(hosts, h, row)
      PROVE  DOMAIN hosts' \subseteq HostIds /\ \A k \in DOMAIN hosts' : hosts'[k] \in Hosts
  BY <1>0 DEF TypeInv, TablesOK, Put
<1>a. req[r].op \in HostOps => req[r].host \in Hosts
  BY DEF TypeInv, ReqsOK, ReqOK
<1>b. ReqOK(req[r])
  BY DEF TypeInv, ReqsOK
<1>c. ASSUME NEW host \in Hosts, Insert(host)
      PROVE  DOMAIN hosts' \subseteq HostIds /\ \A k \in DOMAIN hosts' : hosts'[k] \in Hosts
  <2>1. CASE UNCHANGED hosts
    BY <2>1 DEF TypeInv, TablesOK
  <2>2. CASE \E h \in NewIds(HostIds, DOMAIN hosts) : hosts' = Put(hosts, h, host)
    BY <1>0, <2>2, NewIdsIn
  <2> QED BY <1>c, <2>1, <2>2 DEF Insert
<1>d. req[r].op = "Work" => req[r].id # 0
  BY <1>b DEF ReqOK
<1>1. CASE FillHost(r)
  <2>1. PICK g \in DOMAIN groups :
          Start(r, [Idle EXCEPT !.op = "CreateAddress", !.at = "create",
                                !.host = [pool |-> groups[g].pool, group |-> g]])
    BY <1>1 DEF FillHost
  <2>2. [pool |-> groups[g].pool, group |-> g] \in Hosts
    BY DEF Hosts, Groups, TypeInv, TablesOK
  <2>3. ReqsOK'
    BY <2>1, <2>2, FormsOK, StartKeeps DEF TypeInv
  <2> QED BY <1>1, <2>3 DEF FillHost, TypeInv, TablesOK, FilesOK, tables, files
<1>2. CASE CreateAddress(r)
  <2>1. ReqsOK' /\ req[r].host \in Hosts
    BY <1>2, <1>a, DoneKeeps DEF CreateAddress, TypeInv, At, HostOps
  <2>2. DOMAIN hosts' \subseteq HostIds /\ \A k \in DOMAIN hosts' : hosts'[k] \in Hosts
    BY <1>2, <1>c, <2>1 DEF CreateAddress
  <2> QED BY <1>2, <2>1, <2>2 DEF CreateAddress, TypeInv, TablesOK, FilesOK, files
<1>3. CASE LoadAddress(r)
  <2>1. PICK h \in DOMAIN hosts : \E g \in DOMAIN groups \cup {hosts[h].group} :
          Start(r, [Idle EXCEPT !.op = "UpdateAddress", !.at = "save", !.id = h,
                                !.host = [hosts[h] EXCEPT !.group = g]])
    BY <1>3 DEF LoadAddress
  <2>2. PICK g \in DOMAIN groups \cup {hosts[h].group} :
          Start(r, [Idle EXCEPT !.op = "UpdateAddress", !.at = "save", !.id = h,
                                !.host = [hosts[h] EXCEPT !.group = g]])
    BY <2>1
  <2>3. hosts[h] \in Hosts /\ h \in HostIds /\ g \in GroupIds \cup {0}
    BY DEF Hosts, TypeInv, TablesOK
  <2>4. [hosts[h] EXCEPT !.group = g] \in Hosts
    BY <2>3 DEF Hosts
  <2>5. ReqsOK'
    BY <2>2, <2>3, <2>4, FormsOK, StartKeeps DEF TypeInv
  <2> QED BY <1>3, <2>5 DEF LoadAddress, TypeInv, TablesOK, FilesOK, tables, files
<1>4. CASE SaveAddress(r)
  <2>1. ReqsOK' /\ req[r].host \in Hosts /\ req[r].id \in HostIds
    BY <1>4, <1>a, <1>b, DoneKeeps DEF SaveAddress, TypeInv, ReqOK, At, HostOps
  <2>2. DOMAIN hosts' \subseteq HostIds /\ \A k \in DOMAIN hosts' : hosts'[k] \in Hosts
    BY <1>0, <1>4, <2>1 DEF SaveAddress
  <2> QED BY <1>4, <2>1, <2>2 DEF SaveAddress, TypeInv, TablesOK, FilesOK, files
<1>5. CASE LoadTransfer(r)
  <2>1. ReqsOK'
    BY <1>5, LoadedOK, NewRowsOK, StartKeeps DEF LoadTransfer, TypeInv
  <2> QED BY <1>5, <2>1 DEF LoadTransfer, TypeInv, TablesOK, FilesOK, tables, files
<1>6. CASE SaveTransfer(r)
  <2>1. ReqsOK' /\ req[r].host \in Hosts
    BY <1>6, <1>a, DoneKeeps DEF SaveTransfer, At, HostOps, TypeInv
  <2>2. TablesOK'
    <3>1. CASE req[r].id = 0
      <4>1. UNCHANGED <<pools, images, groups>> /\ Insert(req[r].host)
        BY <1>6, <3>1 DEF SaveTransfer
      <4> QED BY <1>c, <2>1, <4>1 DEF TypeInv, TablesOK
    <3>2. CASE req[r].id # 0
      BY <1>6, <1>b, <3>2, SaveHostOK DEF SaveTransfer, At
    <3> QED BY <3>1, <3>2
  <2> QED BY <1>6, <2>1, <2>2 DEF SaveTransfer, TypeInv, FilesOK, files
<1>13. CASE LoadLease(r)
  <2>1. ASSUME NEW p \in pools,
               Start(r, [Idle EXCEPT !.op = "Lease", !.at = "save", !.host.pool = p])
        PROVE  ReqsOK'
    BY <2>1, NewRowsOK, StartKeeps DEF TypeInv, TablesOK
  <2>2. ASSUME NEW h \in DOMAIN hosts,
               Start(r, [Idle EXCEPT !.op = "Lease", !.at = "save", !.id = h, !.host = hosts[h]])
        PROVE  ReqsOK'
    BY <2>2, FormsOK, StartKeeps DEF TypeInv, TablesOK
  <2>3. ReqsOK'
    BY <1>13, <2>1, <2>2 DEF LoadLease
  <2> QED BY <1>13, <2>3 DEF LoadLease, TypeInv, TablesOK, FilesOK, tables, files
<1>14. CASE SaveLease(r)
  <2>1. ReqsOK' /\ req[r].host \in Hosts /\ req[r].id \in HostIds \cup {0}
    BY <1>14, <1>a, <1>b, DoneKeeps DEF SaveLease, At, HostOps, TypeInv, ReqOK
  <2>2. DOMAIN hosts' \subseteq HostIds /\ \A k \in DOMAIN hosts' : hosts'[k] \in Hosts
    BY <1>14, <1>0, <1>c, <2>1 DEF SaveLease
  <2> QED BY <1>14, <2>1, <2>2 DEF SaveLease, TypeInv, TablesOK, FilesOK, files
<1>7. CASE LoadKickstart(r)
  <2>1. ReqsOK'
    BY <1>7, LoadedOK, StartKeeps DEF LoadKickstart, TypeInv
  <2> QED BY <1>7, <2>1 DEF LoadKickstart, TypeInv, TablesOK, FilesOK, tables, files
<1>8. CASE ServeKickstart(r)
  <2>1. ReqsOK'
    BY <1>8, GotoKeeps DEF ServeKickstart, TypeInv
  <2>2. TablesOK'
    BY <1>8, <1>b, <1>d, SaveHostOK DEF ServeKickstart, At
  <2> QED BY <1>8, <2>1, <2>2 DEF ServeKickstart, TypeInv, FilesOK, files
<1>9. CASE StartWorker(r)
  <2>1. CASE Die \/ Crash
    BY <2>1, EndTypes
  <2>2. CASE ~(Die \/ Crash)
    <3>1. PICK h \in DOMAIN hosts : Start(r, Loaded("Work", "save", h))
      BY <1>9, <2>2 DEF StartWorker
    <3>2. ReqsOK'
      BY <3>1, LoadedOK, StartKeeps DEF TypeInv
    <3> QED BY <1>9, <2>2, <3>2 DEF StartWorker, TypeInv, TablesOK, FilesOK, tables, files
  <2> QED BY <2>1, <2>2
<1>10. CASE SaveWorker(r)
  <2>1. ReqsOK'
    BY <1>10, GotoKeeps DEF SaveWorker, TypeInv
  <2>2. TablesOK'
    BY <1>10, <1>b, <1>d, SaveHostOK DEF SaveWorker, At
  <2> QED BY <1>10, <2>1, <2>2 DEF SaveWorker, TypeInv, FilesOK, files
<1>11. CASE ReadWorker(r)
  <2>1. CASE Done(r)
    <3>1. ReqsOK'
      BY <2>1, DoneKeeps DEF TypeInv
    <3> QED BY <1>11, <3>1 DEF ReadWorker, TypeInv, TablesOK, FilesOK, tables, files
  <2>2. CASE ~Done(r)
    <3> DEFINE h == req[r].id
               p == IF req[r].linked = 0 THEN hosts[h].pool ELSE req[r].host.pool
               q == [req[r] EXCEPT !.at = "end", !.host.pool = p]
    <3>1. h \in DOMAIN hosts /\ req[r].op = "Work" /\ req[r].host \in Hosts
      BY <1>11, <1>a, <2>2 DEF ReadWorker, At, HostOps
    <3>2. req' = [req EXCEPT ![r] = q]
      BY <1>11, <2>2 DEF ReadWorker, ReqsOK, TypeInv, ReqOK, Fields
    <3>3. p \in PoolIds \cup {0}
      BY <3>1 DEF TypeInv, TablesOK, Hosts
    <3>4. /\ DOMAIN q = Fields /\ q.op = "Work" /\ q.id = req[r].id /\ q.group = req[r].group
          /\ q.linked = req[r].linked /\ q.host = [req[r].host EXCEPT !.pool = p]
      BY <1>b, <3>1 DEF ReqOK, Fields
    <3> HIDE DEF p, q
    <3>5. q.host \in Hosts
      BY <3>1, <3>3, <3>4 DEF Hosts
    <3>8. q.host.group = req[r].host.group
      BY <3>1, <3>4 DEF Hosts
    <3>6. ReqOK(q)
      BY <1>b, <3>1, <3>4, <3>5, <3>8 DEF ReqOK, GroupOps, HostOps
    <3>7. ReqsOK'
      BY <3>2, <3>6, ReqChange DEF TypeInv
    <3> QED BY <1>11, <3>7 DEF ReadWorker, TypeInv, TablesOK, FilesOK, tables, files
  <2> QED BY <2>1, <2>2
<1>12. CASE EndWorker(r)
  <2>1. ReqsOK'
    BY <1>12, DoneKeeps DEF EndWorker, TypeInv
  <2>2. TablesOK'
    BY <1>12, <1>b, <1>d, SaveHostOK DEF EndWorker, At
  <2> QED BY <1>12, <2>1, <2>2 DEF EndWorker, TypeInv, FilesOK, files
<1>15. CASE FailWorker(r)
  BY <1>15, EndTypes DEF FailWorker
<1> QED
  BY <1>1, <1>2, <1>3, <1>4, <1>5, <1>6, <1>7, <1>8, <1>9, <1>10, <1>11, <1>12, <1>13, <1>14,
     <1>15 DEF HostRequest

LEMMA TypeNext == TypeInv /\ [Next]_vars => TypeInv'
<1> SUFFICES ASSUME TypeInv, [Next]_vars PROVE TypeInv'
  OBVIOUS
<1>1. CASE CreatePool
  BY <1>1, NewIdsIn DEF CreatePool, TypeInv, TablesOK, FilesOK, ReqsOK, files
<1>2. CASE DeleteAddress
  BY <1>2 DEF DeleteAddress, TypeInv, TablesOK, FilesOK, ReqsOK, files, Remove
<1>3. CASE Crash
  BY <1>3, EndTypes
<1>4. ASSUME NEW r \in Requests,
             PoolRequest(r) \/ ImageRequest(r) \/ GroupRequest(r) \/ HostRequest(r)
      PROVE  TypeInv'
  BY <1>4, PoolTypes, ImageTypes, GroupTypes, HostTypes
<1>5. CASE UNCHANGED vars
  BY <1>5 DEF vars, TypeInv, TablesOK, FilesOK, ReqsOK, tables, files
<1> QED BY <1>1, <1>2, <1>3, <1>4, <1>5 DEF Next

\* Rows keep their types: what a request copied and saves, minutes later perhaps,
\* is a row as its table holds them.
THEOREM TypeCorrect == Spec => []TypeOK
<1>1. TypeInv => TypeOK
  BY DEF TypeInv, TablesOK, FilesOK, TypeOK
<1> QED BY <1>1, TypeInit, TypeNext, PTL DEF Spec

-----------------------------------------------------------------------------
(* References. *)

\* The rows a request refers to are there; what it deletes is not in use.
Refs(q) ==
  /\ q.op \in GroupOps => q.group.pool \in pools /\ q.group.image \in DOMAIN images
  /\ q.op \in HostOps => q.host.group \in DOMAIN groups \cup {0}
  /\ q.op = "DeletePool" => UsersOfPool(q.id) = {}
  /\ q.op = "DeleteImage" => UsersOfImage(q.id) = {}
  /\ q.op = "DeleteGroup" => HostsOf(q.id) = {}

RefInv == RefsResolve /\ \A r \in Requests : Refs(req[r])

LEMMA IdleRefs == Idle.op = "none" /\ Refs(Idle) /\ Refs(Idle)'
  BY DEF Idle, Refs, GroupOps, HostOps

\* A request that begins with references that resolve.
LEMMA StartRefs ==
  ASSUME TypeInv, RefInv, NEW r \in Requests, NEW q, Start(r, q), Refs(q), UNCHANGED tables
  PROVE  RefInv'
<1>1. req' = [req EXCEPT ![r] = q] /\ DOMAIN req = Requests
  BY DEF Start, TypeInv, ReqsOK
<1>2. \A s \in Requests : Refs(req[s])'
  BY <1>1 DEF RefInv, Refs, tables, UsersOfPool, UsersOfImage, HostsOf
<1>3. RefsResolve'
  BY DEF RefInv, RefsResolve, tables
<1> QED BY <1>2, <1>3 DEF RefInv

\* A request that goes on keeps what it relies on.
Follows(q, p) ==
  \/ q = Idle
  \/ /\ q.op = p.op /\ q.id = p.id /\ q.group = p.group
     /\ q.host.group = p.host.group

\* A row goes only if it is the one the request deletes, and comes or changes
\* only if it is the one it saves.
Changes(q) ==
  /\ \A p \in pools : p \in pools' \/ (q.op = "DeletePool" /\ p = q.id)
  /\ \A i \in DOMAIN images : i \in DOMAIN images' \/ (q.op = "DeleteImage" /\ i = q.id)
  /\ \A g \in DOMAIN groups : g \in DOMAIN groups' \/ (q.op = "DeleteGroup" /\ g = q.id)
  /\ \A g \in DOMAIN groups' :
       \/ g \in DOMAIN groups /\ groups'[g] = groups[g]
       \/ q.op \in GroupOps /\ groups'[g] = q.group
  /\ \A h \in DOMAIN hosts' :
       \/ h \in DOMAIN hosts /\ hosts'[h] = hosts[h]
       \/ q.op \in HostOps /\ hosts'[h] = q.host

\* So no other request loses what it relies on.
LEMMA StepRefs ==
  ASSUME TypeInv, RefInv, Separate, NEW r \in Requests, NEW q, req' = [req EXCEPT ![r] = q],
         Follows(q, req[r]), Changes(req[r]), RefsResolve'
  PROVE  RefInv'
<1> USE DEF Changes
<1>1. \A s \in Requests : req'[s] = IF s = r THEN q ELSE req[s]
  BY DEF TypeInv, ReqsOK
<1>2. ASSUME NEW s \in Requests, req'[s] # Idle PROVE Refs(req[s])'
  <2>1. /\ req'[s].op = req[s].op /\ req'[s].id = req[s].id /\ req'[s].group = req[s].group
        /\ req'[s].host.group = req[s].host.group
    BY <1>1, <1>2 DEF Follows
  <2>2. Refs(req[s])
    BY DEF RefInv
  <2>3. s # r => ~Against(req[r], req[s]) /\ ~Against(req[s], req[r])
    BY DEF Separate
  <2>4. req'[s].op \in GroupOps =>
          req'[s].group.pool \in pools' /\ req'[s].group.image \in DOMAIN images'
    BY <2>1, <2>2, <2>3 DEF Refs, Against, GroupOps
  <2>5. req'[s].op \in HostOps => req'[s].host.group \in DOMAIN groups' \cup {0}
    BY <2>1, <2>2, <2>3 DEF Refs, Against, HostOps
  <2>6. req'[s].op = "DeletePool" => UsersOfPool(req[s].id)' = {}
    BY <2>1, <2>2, <2>3 DEF Refs, Against, UsersOfPool, GroupOps
  <2>7. req'[s].op = "DeleteImage" => UsersOfImage(req[s].id)' = {}
    BY <2>1, <2>2, <2>3 DEF Refs, Against, UsersOfImage, GroupOps
  <2>8. req'[s].op = "DeleteGroup" => HostsOf(req[s].id)' = {}
    BY <2>1, <2>2, <2>3 DEF Refs, Against, HostsOf, HostOps
  <2> QED BY <2>4, <2>5, <2>6, <2>7, <2>8 DEF Refs
<1>3. \A s \in Requests : Refs(req[s])'
  BY <1>2, IdleRefs
<1> QED BY <1>3 DEF RefInv

LEMMA GotoFields ==
  ASSUME TypeInv, NEW r \in Requests, NEW at, Goto(r, at)
  PROVE  \E q : /\ req' = [req EXCEPT ![r] = q]
                /\ q.op = req[r].op /\ q.group = req[r].group /\ q.host = req[r].host
                /\ q.id = req[r].id /\ q.name = req[r].name /\ q.at = at
<1> DEFINE q == [req[r] EXCEPT !.at = at]
<1>1. /\ q.op = req[r].op /\ q.group = req[r].group /\ q.host = req[r].host
      /\ q.id = req[r].id /\ q.name = req[r].name /\ q.at = at
  BY DEF TypeInv, ReqsOK, ReqOK, Fields
<1>2. req' = [req EXCEPT ![r] = q]
  BY DEF Goto, TypeInv, ReqsOK
<1> QED BY <1>1, <1>2

\* One that reads and writes files, or reads rows.
LEMMA GoOnRefs ==
  ASSUME TypeInv, RefInv, Separate, NEW r \in Requests, UNCHANGED tables,
         Done(r) \/ \E at : Goto(r, at)
  PROVE  RefInv'
<1>1. RefsResolve' /\ Changes(req[r])
  BY DEF RefInv, RefsResolve, Changes, tables
<1>2. PICK q : req' = [req EXCEPT ![r] = q] /\ Follows(q, req[r])
  BY GotoFields DEF Done, Follows
<1> QED BY <1>1, <1>2, StepRefs

\* Nothing is under way any more.
LEMMA EndRefs == ASSUME RefInv, Die \/ Crash PROVE RefInv'
<1>1. \A r \in Requests : req'[r] = Idle
  BY DEF Die, Crash, EndProcess
<1>2. RefsResolve'
  BY DEF Die, Crash, EndProcess, RefInv, RefsResolve, tables
<1> QED BY <1>1, <1>2, IdleRefs DEF RefInv

\* The order of numbers is well-founded: a set of them has a least.
LEMMA LeastNat ==
  ASSUME NEW S \in SUBSET Nat, S # {}
  PROVE  \E x \in S : \A y \in S : x <= y
<1> DEFINE R == OpToRel(<, Nat)
<1>1. IsWellFoundedOn(R, Nat)
  BY NatLessThanWellFounded, Zenon
<1>2. ASSUME NEW x \in S, NEW y \in S, ~(<<y, x>> \in R) PROVE x <= y
  <2>1. ~(y < x)
    BY <1>2, Zenon DEF OpToRel
  <2> QED BY <2>1
<1> HIDE DEF R
<1>3. PICK x \in S : \A y \in S : ~ (<<y, x>> \in R)
  BY <1>1, WFMin, Zenon
<1> QED BY <1>2, <1>3

\* No group in use means no group: each has a name.
LEMMA InUseAll ==
  ASSUME TypeInv, Named, NEW gs \in SUBSET DOMAIN groups, ~InUse(gs)
  PROVE  gs = {}
<1>1. SUFFICES ASSUME gs # {} PROVE FALSE
  OBVIOUS
<1>2. gs \in SUBSET Nat
  BY IdAssumption DEF TypeInv, TablesOK
<1>3. PICK g \in gs : \A k \in gs : g <= k
  BY <1>1, <1>2, LeastNat
<1> QED BY <1>3 DEF InUse, Named

LEMMA InitRefs == Init => RefInv
<1>1. SUFFICES ASSUME Init PROVE RefInv
  OBVIOUS
<1>2. DOMAIN Empty = {}
  BY DEF Empty
<1>3. RefsResolve
  BY <1>1, <1>2 DEF Init, RefsResolve
<1>4. \A r \in Requests : req[r] = Idle
  BY <1>1 DEF Init
<1> QED BY <1>3, <1>4, IdleRefs DEF RefInv

LEMMA PoolRefs ==
  ASSUME TypeInv, RefInv, Separate, Named, NEW r \in Requests, PoolRequest(r)
  PROVE  RefInv'
<1>1. CASE LoadPool(r)
  <2>1. PICK p \in pools : Start(r, [Idle EXCEPT !.op = "UpdatePool", !.at = "save", !.id = p])
    BY <1>1 DEF LoadPool
  <2>2. Refs([Idle EXCEPT !.op = "UpdatePool", !.at = "save", !.id = p])
    BY DEF Refs, Idle, GroupOps, HostOps
  <2> QED BY <1>1, <2>1, <2>2, StartRefs DEF LoadPool
<1>2. CASE SavePool(r)
  <2>1. /\ req[r].op = "UpdatePool" /\ pools \subseteq pools'
        /\ UNCHANGED <<images, groups, hosts>> /\ req' = [req EXCEPT ![r] = Idle]
    BY <1>2 DEF SavePool, At, Done
  <2>2. RefsResolve'
    BY <2>1 DEF RefInv, RefsResolve
  <2>4. Changes(req[r]) /\ Follows(Idle, req[r])
    BY <2>1, <2>2 DEF Changes, Follows
  <2> QED BY <2>1, <2>2, <2>4, StepRefs
<1>3. CASE CheckPool(r)
  <2>1. PICK p \in pools : /\ ~InUse(UsersOfPool(p))
                           /\ Start(r, [Idle EXCEPT !.op = "DeletePool", !.at = "delete", !.id = p])
    BY <1>3 DEF CheckPool
  <2>2. UsersOfPool(p) = {}
    BY <2>1, InUseAll DEF UsersOfPool
  <2>3. Refs([Idle EXCEPT !.op = "DeletePool", !.at = "delete", !.id = p])
    BY <2>2 DEF Refs, Idle, GroupOps, HostOps
  <2> QED BY <1>3, <2>1, <2>3, StartRefs DEF CheckPool
<1>4. CASE DeletePool(r)
  <2>1. /\ req[r].op = "DeletePool" /\ pools' = pools \ {req[r].id}
        /\ UNCHANGED <<images, groups, hosts>> /\ req' = [req EXCEPT ![r] = Idle]
    BY <1>4 DEF DeletePool, At, Done
  <2>2. UsersOfPool(req[r].id) = {}
    BY <2>1 DEF RefInv, Refs
  <2>3. RefsResolve'
    BY <2>1, <2>2 DEF RefInv, RefsResolve, UsersOfPool
  <2>4. Changes(req[r]) /\ Follows(Idle, req[r])
    BY <2>1, <2>3 DEF Changes, Follows
  <2> QED BY <2>1, <2>3, <2>4, StepRefs
<1> QED BY <1>1, <1>2, <1>3, <1>4 DEF PoolRequest

LEMMA ImageRefs ==
  ASSUME TypeInv, RefInv, Separate, Named, NEW r \in Requests, ImageRequest(r)
  PROVE  RefInv'
<1>1. CASE CreateFile(r)
  <2>1. PICK n \in Names, hashed \in BOOLEAN : Start(r, Upload(n, hashed))
    BY <1>1 DEF CreateFile
  <2>2. Refs(Upload(n, hashed))
    BY DEF Refs, Idle, GroupOps, HostOps, Upload
  <2> QED BY <1>1, <2>1, <2>2, StartRefs DEF CreateFile
<1>2. CASE WriteFile(r) \/ Unpack(r)
  BY <1>2, GoOnRefs DEF WriteFile, Unpack, At
<1>3. CASE CheckHash(r) \/ OpenFile(r)
  <2>1. CASE Die
    BY <2>1, EndRefs
  <2>2. CASE ~Die
    BY <1>3, <2>2, GoOnRefs DEF CheckHash, OpenFile, At
  <2> QED BY <2>1, <2>2
<1>4. CASE CreateImage(r)
  <2>1. /\ req[r].op = "CreateImage" /\ UNCHANGED <<pools, groups, hosts>>
        /\ req' = [req EXCEPT ![r] = Idle] /\ DOMAIN images \subseteq DOMAIN images'
    BY <1>4 DEF CreateImage, At, Done, Put
  <2>2. RefsResolve'
    BY <2>1 DEF RefInv, RefsResolve
  <2>4. Changes(req[r]) /\ Follows(Idle, req[r])
    BY <2>1, <2>2 DEF Changes, Follows
  <2> QED BY <2>1, <2>2, <2>4, StepRefs
<1>5. CASE LoadImage(r)
  <2>1. PICK i \in DOMAIN images :
          Start(r, [Idle EXCEPT !.op = "UpdateImage", !.at = "save", !.id = i, !.name = images[i]])
    BY <1>5 DEF LoadImage
  <2>2. Refs([Idle EXCEPT !.op = "UpdateImage", !.at = "save", !.id = i, !.name = images[i]])
    BY DEF Refs, Idle, GroupOps, HostOps
  <2> QED BY <1>5, <2>1, <2>2, StartRefs DEF LoadImage
<1>6. CASE SaveImage(r)
  <2>1. /\ req[r].op = "UpdateImage" /\ UNCHANGED <<pools, groups, hosts>>
        /\ req' = [req EXCEPT ![r] = Idle] /\ DOMAIN images \subseteq DOMAIN images'
    BY <1>6 DEF SaveImage, At, Done, Put
  <2>2. RefsResolve'
    BY <2>1 DEF RefInv, RefsResolve
  <2>4. Changes(req[r]) /\ Follows(Idle, req[r])
    BY <2>1, <2>2 DEF Changes, Follows
  <2> QED BY <2>1, <2>2, <2>4, StepRefs
<1>7. CASE CheckImage(r)
  <2>1. PICK i \in DOMAIN images :
          /\ ~InUse(UsersOfImage(i))
          /\ Start(r, [Idle EXCEPT !.op = "DeleteImage", !.at = "files", !.id = i,
                                   !.name = images[i]])
    BY <1>7 DEF CheckImage
  <2>2. UsersOfImage(i) = {}
    BY <2>1, InUseAll DEF UsersOfImage
  <2>3. Refs([Idle EXCEPT !.op = "DeleteImage", !.at = "files", !.id = i, !.name = images[i]])
    BY <2>2 DEF Refs, Idle, GroupOps, HostOps
  <2> QED BY <1>7, <2>1, <2>3, StartRefs DEF CheckImage
<1>8. CASE RemoveAll(r)
  BY <1>8, GoOnRefs DEF RemoveAll
<1>9. CASE DeleteImage(r)
  <2>1. /\ req[r].op = "DeleteImage" /\ DOMAIN images' = DOMAIN images \ {req[r].id}
        /\ UNCHANGED <<pools, groups, hosts>> /\ req' = [req EXCEPT ![r] = Idle]
    BY <1>9 DEF DeleteImage, At, Done, Remove
  <2>2. UsersOfImage(req[r].id) = {}
    BY <2>1 DEF RefInv, Refs
  <2>3. RefsResolve'
    BY <2>1, <2>2 DEF RefInv, RefsResolve, UsersOfImage
  <2>4. Changes(req[r]) /\ Follows(Idle, req[r])
    BY <2>1, <2>3 DEF Changes, Follows
  <2> QED BY <2>1, <2>3, <2>4, StepRefs
<1> QED BY <1>1, <1>2, <1>3, <1>4, <1>5, <1>6, <1>7, <1>8, <1>9 DEF ImageRequest

\* A row of a group whose references resolve is put into the table.
LEMMA PutGroupRefs ==
  ASSUME TypeInv, RefInv, NEW r \in Requests, req[r].op \in GroupOps, NEW g,
         groups' = Put(groups, g, req[r].group), UNCHANGED <<pools, images, hosts>>
  PROVE  /\ RefsResolve' /\ DOMAIN groups \subseteq DOMAIN groups'
         /\ \A k \in DOMAIN groups' :
              \/ k \in DOMAIN groups /\ groups'[k] = groups[k]
              \/ groups'[k] = req[r].group
<1>1. Refs(req[r]) /\ RefsResolve
  BY DEF RefInv
<1> QED BY <1>1 DEF Refs, RefsResolve, Put

LEMMA GroupRefs ==
  ASSUME TypeInv, RefInv, Separate, NEW r \in Requests, GroupRequest(r)
  PROVE  RefInv'
<1>1. CASE FillGroup(r)
  <2>1. PICK p \in pools, i \in DOMAIN images, named \in BOOLEAN :
          Start(r, [Idle EXCEPT !.op = "CreateGroup", !.at = "create",
                                !.group = [pool |-> p, image |-> i, named |-> named]])
    BY <1>1 DEF FillGroup
  <2>2. Refs([Idle EXCEPT !.op = "CreateGroup", !.at = "create",
                          !.group = [pool |-> p, image |-> i, named |-> named]])
    BY DEF Refs, Idle, GroupOps, HostOps
  <2> QED BY <1>1, <2>1, <2>2, StartRefs DEF FillGroup
<1>2. CASE CreateGroup(r)
  <2>1. /\ req[r].op = "CreateGroup" /\ UNCHANGED <<pools, images, hosts>>
        /\ req' = [req EXCEPT ![r] = Idle]
    BY <1>2 DEF CreateGroup, At, Done
  <2>2. /\ RefsResolve' /\ DOMAIN groups \subseteq DOMAIN groups'
        /\ \A k \in DOMAIN groups' :
             \/ k \in DOMAIN groups /\ groups'[k] = groups[k]
             \/ groups'[k] = req[r].group
    <3>1. CASE UNCHANGED groups
      BY <2>1, <3>1 DEF RefInv, RefsResolve
    <3>2. CASE \E g \in NewIds(GroupIds, DOMAIN groups) : groups' = Put(groups, g, req[r].group)
      BY <2>1, <3>2, PutGroupRefs DEF GroupOps
    <3> QED BY <1>2, <3>1, <3>2 DEF CreateGroup
  <2>4. Changes(req[r]) /\ Follows(Idle, req[r])
    BY <2>1, <2>2 DEF Changes, Follows, GroupOps
  <2> QED BY <2>1, <2>2, <2>4, StepRefs
<1>3. CASE LoadGroup(r)
  <2>1. PICK g \in DOMAIN groups, p \in pools, i \in DOMAIN images :
          Start(r, [Idle EXCEPT !.op = "UpdateGroup", !.at = "save", !.id = g,
                                !.group = [groups[g] EXCEPT !.pool = p, !.image = i]])
    BY <1>3 DEF LoadGroup
  <2> DEFINE row == [groups[g] EXCEPT !.pool = p, !.image = i]
  <2>2. row.pool = p /\ row.image = i
    BY DEF TypeInv, TablesOK, Groups
  <2> HIDE DEF row
  <2>3. Refs([Idle EXCEPT !.op = "UpdateGroup", !.at = "save", !.id = g, !.group = row])
    BY <2>2 DEF Refs, Idle, GroupOps, HostOps
  <2>4. Start(r, [Idle EXCEPT !.op = "UpdateGroup", !.at = "save", !.id = g, !.group = row])
    BY <2>1 DEF row
  <2> QED BY <1>3, <2>3, <2>4, StartRefs DEF LoadGroup
<1>4. CASE SaveGroup(r)
  <2>1. /\ req[r].op = "UpdateGroup" /\ UNCHANGED <<pools, images, hosts>>
        /\ req' = [req EXCEPT ![r] = Idle] /\ groups' = Put(groups, req[r].id, req[r].group)
    BY <1>4 DEF SaveGroup, At, Done
  <2>2. /\ RefsResolve' /\ DOMAIN groups \subseteq DOMAIN groups'
        /\ \A k \in DOMAIN groups' :
             \/ k \in DOMAIN groups /\ groups'[k] = groups[k]
             \/ groups'[k] = req[r].group
    BY <2>1, PutGroupRefs DEF GroupOps
  <2>4. Changes(req[r]) /\ Follows(Idle, req[r])
    BY <2>1, <2>2 DEF Changes, Follows, GroupOps
  <2> QED BY <2>1, <2>2, <2>4, StepRefs
<1>5. CASE CheckGroup(r)
  <2>1. PICK g \in DOMAIN groups :
          /\ HostsOf(g) = {}
          /\ Start(r, [Idle EXCEPT !.op = "DeleteGroup", !.at = "delete", !.id = g])
    BY <1>5 DEF CheckGroup
  <2>2. Refs([Idle EXCEPT !.op = "DeleteGroup", !.at = "delete", !.id = g])
    BY <2>1 DEF Refs, Idle, GroupOps, HostOps
  <2> QED BY <1>5, <2>1, <2>2, StartRefs DEF CheckGroup
<1>6. CASE DeleteGroup(r)
  <2>1. /\ req[r].op = "DeleteGroup" /\ groups' = Remove(groups, req[r].id)
        /\ UNCHANGED <<pools, images, hosts>> /\ req' = [req EXCEPT ![r] = Idle]
    BY <1>6 DEF DeleteGroup, At, Done
  <2>2. HostsOf(req[r].id) = {}
    BY <2>1 DEF RefInv, Refs
  <2>3. RefsResolve'
    BY <2>1, <2>2 DEF RefInv, RefsResolve, HostsOf, Remove
  <2>4. Changes(req[r]) /\ Follows(Idle, req[r])
    BY <2>1, <2>3 DEF Changes, Follows, Remove
  <2> QED BY <2>1, <2>3, <2>4, StepRefs
<1> QED BY <1>1, <1>2, <1>3, <1>4, <1>5, <1>6 DEF GroupRequest

\* The group of a host, if it has one, is there when its row is saved: none is
\* inserted.
LEMMA SaveHostRefs ==
  ASSUME TypeInv, RefInv, NEW r \in Requests, req[r].op \in {"Transfer", "Work"},
         SaveHost(req[r]), images' = images
  PROVE  /\ RefsResolve' /\ pools \subseteq pools' /\ groups' = groups
         /\ hosts' = Put(hosts, req[r].id, req[r].host)
<1>1. Refs(req[r]) /\ RefsResolve /\ ReqOK(req[r])
  BY DEF RefInv, TypeInv, ReqsOK
<1>2. req[r].host.group \in DOMAIN groups \cup {0}
  BY <1>1 DEF Refs, HostOps
<1>3. req[r].group # NoGroup => req[r].host.group \in DOMAIN groups
  BY <1>1, <1>2 DEF ReqOK
<1>4. /\ groups' = groups /\ pools \subseteq pools'
      /\ hosts' = Put(hosts, req[r].id, req[r].host)
  BY <1>3 DEF SaveHost
<1> QED BY <1>1, <1>2, <1>4 DEF RefsResolve, Put

\* A row is inserted, or not.
LEMMA InsertRefs ==
  ASSUME RefInv, NEW host, host.group \in DOMAIN groups \cup {0}, Insert(host),
         UNCHANGED <<pools, images, groups>>
  PROVE  /\ RefsResolve'
         /\ \A h \in DOMAIN hosts' :
              (h \in DOMAIN hosts /\ hosts'[h] = hosts[h]) \/ hosts'[h] = host
  BY DEF RefInv, RefsResolve, Insert, Put

LEMMA LoadedRefs ==
  ASSUME TypeInv, RefInv, NEW op \in {"Transfer", "Work"}, NEW at, NEW h \in DOMAIN hosts
  PROVE  Refs(Loaded(op, at, h)) /\ Loaded(op, at, h).op = op
<1> DEFINE q == Loaded(op, at, h)
<1>1. q.op = op /\ q.host = hosts[h]
  BY DEF Loaded, Idle
<1>2. hosts[h].group \in DOMAIN groups \cup {0}
  BY DEF RefInv, RefsResolve
<1> HIDE DEF q
<1>3. Refs(q)
  BY <1>1, <1>2 DEF Refs, GroupOps
<1> QED BY <1>1, <1>3 DEF q

LEMMA HostRefs ==
  ASSUME TypeInv, RefInv, Separate, NEW r \in Requests, HostRequest(r)
  PROVE  RefInv'
<1>0. HostOps = {"CreateAddress", "UpdateAddress", "Lease", "Transfer", "Work"}
  BY DEF HostOps
<1>b. req[r].op \in HostOps => req[r].host.group \in DOMAIN groups \cup {0}
  BY DEF RefInv, Refs
<1>c. ReqOK(req[r])
  BY DEF TypeInv, ReqsOK
<1>a. Refs(req[r]) /\ RefsResolve
  BY DEF RefInv
<1>1. CASE FillHost(r)
  <2>1. PICK g \in DOMAIN groups :
          Start(r, [Idle EXCEPT !.op = "CreateAddress", !.at = "create",
                                !.host = [pool |-> groups[g].pool, group |-> g]])
    BY <1>1 DEF FillHost
  <2>2. Refs([Idle EXCEPT !.op = "CreateAddress", !.at = "create",
                          !.host = [pool |-> groups[g].pool, group |-> g]])
    BY DEF Refs, Idle, GroupOps
  <2> QED BY <1>1, <2>1, <2>2, StartRefs DEF FillHost
<1>2. CASE CreateAddress(r) \/ SaveAddress(r) \/ SaveLease(r)
  <2>1. /\ req[r].op \in {"CreateAddress", "UpdateAddress", "Lease"}
        /\ UNCHANGED <<pools, images, groups>> /\ req' = [req EXCEPT ![r] = Idle]
        /\ Insert(req[r].host) \/ hosts' = Put(hosts, req[r].id, req[r].host)
    BY <1>2 DEF CreateAddress, SaveAddress, SaveLease, At, Done
  <2>2. req[r].host.group \in DOMAIN groups \cup {0}
    BY <1>b, <2>1 DEF HostOps
  <2>3. /\ RefsResolve'
        /\ \A h \in DOMAIN hosts' :
             (h \in DOMAIN hosts /\ hosts'[h] = hosts[h]) \/ hosts'[h] = req[r].host
    <3>1. CASE Insert(req[r].host)
      BY <2>1, <2>2, <3>1, InsertRefs
    <3>2. CASE hosts' = Put(hosts, req[r].id, req[r].host)
      BY <1>a, <2>1, <2>2, <3>2 DEF RefsResolve, Put
    <3> QED BY <2>1, <3>1, <3>2
  <2>4. Changes(req[r]) /\ Follows(Idle, req[r])
    BY <1>0, <2>1, <2>3 DEF Changes, Follows
  <2> QED BY <1>0, <2>1, <2>3, <2>4, StepRefs
<1>8. CASE LoadLease(r)
  <2>1. ASSUME NEW p \in pools,
               Start(r, [Idle EXCEPT !.op = "Lease", !.at = "save", !.host.pool = p])
        PROVE  RefInv'
    <3> DEFINE q == [Idle EXCEPT !.op = "Lease", !.at = "save", !.host.pool = p]
    <3>1. q.op = "Lease" /\ q.host.group = 0
      BY DEF Idle, NoHost
    <3>2. Start(r, q)
      BY <2>1
    <3> HIDE DEF q
    <3>3. Refs(q)
      BY <3>1 DEF Refs, GroupOps
    <3> QED BY <1>8, <3>2, <3>3, StartRefs DEF LoadLease
  <2>2. ASSUME NEW h \in DOMAIN hosts,
               Start(r, [Idle EXCEPT !.op = "Lease", !.at = "save", !.id = h, !.host = hosts[h]])
        PROVE  RefInv'
    <3> DEFINE q == [Idle EXCEPT !.op = "Lease", !.at = "save", !.id = h, !.host = hosts[h]]
    <3>1. q.op = "Lease" /\ q.host = hosts[h]
      BY DEF Idle
    <3>2. Start(r, q)
      BY <2>2
    <3> HIDE DEF q
    <3>3. Refs(q)
      BY <1>a, <3>1 DEF Refs, GroupOps, RefsResolve
    <3> QED BY <1>8, <3>2, <3>3, StartRefs DEF LoadLease
  <2> QED BY <1>8, <2>1, <2>2 DEF LoadLease
<1>3. CASE LoadAddress(r)
  <2>1. PICK h \in DOMAIN hosts : \E g \in DOMAIN groups \cup {hosts[h].group} :
          Start(r, [Idle EXCEPT !.op = "UpdateAddress", !.at = "save", !.id = h,
                                !.host = [hosts[h] EXCEPT !.group = g]])
    BY <1>3 DEF LoadAddress
  <2>2. PICK g \in DOMAIN groups \cup {hosts[h].group} :
          Start(r, [Idle EXCEPT !.op = "UpdateAddress", !.at = "save", !.id = h,
                                !.host = [hosts[h] EXCEPT !.group = g]])
    BY <2>1
  <2> DEFINE row == [hosts[h] EXCEPT !.group = g]
  <2>3. row.group = g /\ g \in DOMAIN groups \cup {0}
    BY <1>a DEF TypeInv, TablesOK, Hosts, RefsResolve
  <2> HIDE DEF row
  <2>4. Refs([Idle EXCEPT !.op = "UpdateAddress", !.at = "save", !.id = h, !.host = row])
    BY <2>3 DEF Refs, Idle, GroupOps
  <2>5. Start(r, [Idle EXCEPT !.op = "UpdateAddress", !.at = "save", !.id = h, !.host = row])
    BY <2>2 DEF row
  <2> QED BY <1>3, <2>4, <2>5, StartRefs DEF LoadAddress
<1>4. CASE LoadTransfer(r) \/ LoadKickstart(r)
  <2>1. CASE \E h \in DOMAIN hosts : \/ Start(r, Loaded("Transfer", "save", h))
                                   \/ Start(r, Loaded("Work", "serve", h))
    BY <1>4, <2>1, LoadedRefs, StartRefs DEF LoadTransfer, LoadKickstart
  <2>2. CASE Start(r, [Idle EXCEPT !.op = "Transfer", !.at = "save"])
    <3>1. Refs([Idle EXCEPT !.op = "Transfer", !.at = "save"])
      BY DEF Refs, Idle, NoHost, GroupOps
    <3> QED BY <1>4, <2>2, <3>1, StartRefs DEF LoadTransfer, LoadKickstart
  <2> QED BY <1>4, <2>1, <2>2 DEF LoadTransfer, LoadKickstart
<1>5. CASE SaveTransfer(r) \/ ServeKickstart(r) \/ SaveWorker(r) \/ EndWorker(r)
  <2>1. /\ req[r].op \in {"Transfer", "Work"} /\ UNCHANGED images
        /\ Done(r) \/ \E at : Goto(r, at)
        /\ \/ SaveHost(req[r])
           \/ Insert(req[r].host) /\ UNCHANGED <<pools, groups>>
    BY <1>5 DEF SaveTransfer, ServeKickstart, SaveWorker, EndWorker, At
  <2>2. /\ RefsResolve' /\ pools \subseteq pools' /\ groups' = groups
        /\ \A h \in DOMAIN hosts' :
             (h \in DOMAIN hosts /\ hosts'[h] = hosts[h]) \/ hosts'[h] = req[r].host
    <3>1. CASE SaveHost(req[r])
      <4>1. /\ RefsResolve' /\ pools \subseteq pools' /\ groups' = groups
            /\ hosts' = Put(hosts, req[r].id, req[r].host)
        BY <2>1, <3>1, SaveHostRefs
      <4> QED BY <4>1 DEF Put
    <3>2. CASE Insert(req[r].host) /\ UNCHANGED <<pools, groups>>
      BY <1>b, <2>1, <3>2, InsertRefs DEF HostOps
    <3> QED BY <2>1, <3>1, <3>2
  <2>3. PICK q : req' = [req EXCEPT ![r] = q] /\ Follows(q, req[r])
    BY <2>1, GotoFields DEF Done, Follows
  <2>4. Changes(req[r])
    BY <1>0, <2>1, <2>2 DEF Changes
  <2> QED BY <2>2, <2>3, <2>4, StepRefs
<1>6. CASE StartWorker(r)
  <2>1. CASE Crash \/ Die
    BY <2>1, EndRefs
  <2>2. CASE ~(Crash \/ Die)
    <3>1. PICK h \in DOMAIN hosts : Start(r, Loaded("Work", "save", h)) /\ UNCHANGED tables
      BY <1>6, <2>2 DEF StartWorker
    <3> QED BY <3>1, LoadedRefs, StartRefs
  <2> QED BY <2>1, <2>2
<1>9. CASE FailWorker(r)
  BY <1>9, EndRefs DEF FailWorker
<1>7. CASE ReadWorker(r)
  <2>1. CASE Done(r)
    BY <1>0, <1>7, <2>1, GoOnRefs DEF ReadWorker, At
  <2>2. CASE ~Done(r)
    <3> DEFINE p == IF req[r].linked = 0 THEN hosts[req[r].id].pool ELSE req[r].host.pool
               q == [req[r] EXCEPT !.at = "end", !.host.pool = p]
    <3>1. req[r].op = "Work" /\ UNCHANGED tables
      BY <1>7 DEF ReadWorker, At
    <3>2. req' = [req EXCEPT ![r] = q]
      BY <1>7, <2>2 DEF ReadWorker, ReqsOK, TypeInv, ReqOK, Fields
    <3>3. req[r].host \in Hosts
      BY <3>1 DEF TypeInv, ReqsOK, ReqOK, HostOps
    <3>4. /\ q.op = "Work" /\ q.id = req[r].id /\ q.group = req[r].group
          /\ q.host = [req[r].host EXCEPT !.pool = p]
      BY <3>1 DEF TypeInv, ReqsOK, ReqOK, Fields
    <3> HIDE DEF p, q
    <3>5. q.host.group = req[r].host.group
      BY <3>3, <3>4 DEF Hosts
    <3>6. RefsResolve'
      BY <1>a, <3>1 DEF RefsResolve, tables
    <3>7. Changes(req[r]) /\ Follows(q, req[r])
      BY <1>0, <3>1, <3>4, <3>5 DEF tables, Changes, Follows
    <3> QED BY <3>2, <3>6, <3>7, StepRefs
  <2> QED BY <2>1, <2>2
<1> QED BY <1>1, <1>2, <1>3, <1>4, <1>5, <1>6, <1>7, <1>8, <1>9 DEF HostRequest

\* New pools, and hosts that go, disturb nobody.
LEMMA OtherRefs ==
  ASSUME TypeInv, RefInv, CreatePool \/ DeleteAddress
  PROVE  RefInv'
<1>1. /\ UNCHANGED <<images, groups, req>> /\ pools \subseteq pools'
      /\ \A h \in DOMAIN hosts' : h \in DOMAIN hosts /\ hosts'[h] = hosts[h]
  BY DEF CreatePool, DeleteAddress, Remove
<1>2. RefsResolve'
  BY <1>1 DEF RefInv, RefsResolve
<1>3. ASSUME NEW s \in Requests PROVE Refs(req[s])'
  <2>1. Refs(req[s])
    BY DEF RefInv
  <2> QED BY <1>1, <2>1 DEF Refs, UsersOfPool, UsersOfImage, HostsOf
<1> QED BY <1>2, <1>3 DEF RefInv

LEMMA RefNext == TypeInv /\ RefInv /\ Separate /\ Named /\ [Next]_vars => RefInv'
<1> SUFFICES ASSUME TypeInv, RefInv, Separate, Named, [Next]_vars PROVE RefInv'
  OBVIOUS
<1>1. CASE CreatePool \/ DeleteAddress
  BY <1>1, OtherRefs
<1>2. CASE Crash
  BY <1>2, EndRefs
<1>3. ASSUME NEW r \in Requests,
             PoolRequest(r) \/ ImageRequest(r) \/ GroupRequest(r) \/ HostRequest(r)
      PROVE  RefInv'
  BY <1>3, PoolRefs, ImageRefs, GroupRefs, HostRefs
<1>4. CASE UNCHANGED vars
  BY <1>4 DEF vars, tables, RefInv, RefsResolve, Refs, UsersOfPool, UsersOfImage, HostsOf
<1> QED BY <1>1, <1>2, <1>3, <1>4 DEF Next

\* No group dangles from a deleted pool or image, and no host from a deleted
\* group, as long as no row is deleted while a request that refers to it or saves
\* it again is under way, and groups have names: then the checks at pools.go:314,
\* image.go:313 and groups.go:239 are enough, whatever else overlaps, saves of old
\* copies of other rows included.
THEOREM ReferencesResolve == Spec /\ [](Separate /\ Named) => []RefsResolve
<1>1. RefInv => RefsResolve
  BY DEF RefInv
<1>2. TypeInv /\ RefInv /\ (Separate /\ Named) /\ [Next]_vars => RefInv'
  BY RefNext
<1> QED BY <1>1, <1>2, InitRefs, TypeInit, TypeNext, PTL DEF Spec

-----------------------------------------------------------------------------
(* Files. *)

ImageOps == {"CreateImage", "UpdateImage", "DeleteImage"}

\* What a request about an image relies on: an upload that nobody touches its
\* file and directory, an update or a deletion that the row is the one it read.
FileOK(q) ==
  /\ q.op = "CreateImage" =>
       /\ q.at \in {"hash", "open", "unpack"} => iso[q.name] = "whole"
       /\ q.at = "create" => dir[q.name] = "whole"
  /\ q.op \in {"UpdateImage", "DeleteImage"} => q.id \in DOMAIN images /\ images[q.id] = q.name

FileInv == ~died /\ \A r \in Requests : FileOK(req[r])

Inv == TypeInv /\ RefInv /\ FileInv

LEMMA IdleFile == Idle.op = "none" /\ FileOK(Idle) /\ FileOK(Idle)'
  BY DEF Idle, FileOK

\* What the requests that are not about images do.
LEMMA OtherFiles ==
  ASSUME Inv, UNCHANGED <<images, files, died>>,
         NEW r \in Requests, NEW q, req' = [req EXCEPT ![r] = q],
         q.op # "CreateImage", FileOK(q)
  PROVE  FileInv'
<1>1. \A s \in Requests : req'[s] = IF s = r THEN q ELSE req[s]
  BY DEF Inv, TypeInv, ReqsOK
<1>2. ASSUME NEW s \in Requests PROVE FileOK(req[s])'
  <2>1. FileOK(req[s])
    BY DEF Inv, FileInv
  <2> QED BY <1>1, <2>1 DEF FileOK, files
<1> QED BY <1>2 DEF Inv, FileInv

\* An upload goes on, or ends, and touches its own file and directory only.
LEMMA OwnFiles ==
  ASSUME Inv, OwnNames, UNCHANGED <<images, died>>,
         NEW r \in Requests, req[r].op = "CreateImage",
         NEW q, req' = [req EXCEPT ![r] = q],
         \A n \in Names : n # req[r].name => iso'[n] = iso[n] /\ dir'[n] = dir[n],
         \/ q = Idle
         \/ /\ q.op = "CreateImage" /\ q.name = req[r].name
            /\ q.at \in {"hash", "open", "unpack"} => iso'[q.name] = "whole"
            /\ q.at = "create" => dir'[q.name] = "whole"
  PROVE  FileInv'
<1>1. \A s \in Requests : req'[s] = IF s = r THEN q ELSE req[s]
  BY DEF Inv, TypeInv, ReqsOK
<1>2. ASSUME NEW s \in Requests PROVE FileOK(req[s])'
  <2>1. FileOK(req[s]) /\ FileOK(req[r])
    BY DEF Inv, FileInv
  <2>2. CASE s = r
    BY <1>1, <2>1, <2>2, IdleFile DEF FileOK
  <2>3. CASE s # r
    <3>1. req[s].op = "CreateImage" => req[s].name \in Names /\ req[s].name # req[r].name
      BY <2>3 DEF OwnNames, Inv, TypeInv, ReqsOK, ReqOK
    <3>2. req'[s] = req[s]
      BY <1>1, <2>3
    <3> QED BY <2>1, <3>1, <3>2 DEF FileOK
  <2> QED BY <2>2, <2>3
<1> QED BY <1>2 DEF Inv, FileInv

\* An upload begins, with a name that no image and no other upload has.
LEMMA UploadFiles ==
  ASSUME Inv, OwnNames', NEW r \in Requests, CreateFile(r)
  PROVE  FileInv'
<1>1. PICK n \in Names, hashed \in BOOLEAN :
        Start(r, Upload(n, hashed)) /\ iso' = [iso EXCEPT ![n] = "partial"]
  BY DEF CreateFile
<1> DEFINE q == Upload(n, hashed)
<1>2. q.op = "CreateImage" /\ q.at = "write" /\ q.name = n
  BY DEF Upload, Idle
<1> HIDE DEF q
<1>3. req' = [req EXCEPT ![r] = q] /\ UNCHANGED <<images, dir, died>>
  BY <1>1 DEF Start, q, CreateFile, tables
<1>4. \A s \in Requests : req'[s] = IF s = r THEN q ELSE req[s]
  BY <1>3 DEF Inv, TypeInv, ReqsOK
<1>5. ASSUME NEW s \in Requests PROVE FileOK(req[s])'
  <2>1. FileOK(req[s])
    BY DEF Inv, FileInv
  <2>2. CASE s = r
    BY <1>2, <1>4, <2>2 DEF FileOK
  <2>3. CASE s # r
    <3>1. req'[s] = req[s]
      BY <1>4, <2>3
    <3>2. req[s].op = "CreateImage" => req[s].name \in Names /\ req[s].name # n
      BY <1>2, <1>4, <2>3, <3>1 DEF OwnNames, Inv, TypeInv, ReqsOK, ReqOK
    <3> QED BY <1>1, <1>3, <2>1, <3>1, <3>2 DEF FileOK, Inv, TypeInv, FilesOK
  <2> QED BY <2>2, <2>3
<1> QED BY <1>3, <1>5 DEF Inv, FileInv

LEMMA WriteFiles ==
  ASSUME Inv, OwnNames, NEW r \in Requests,
         WriteFile(r) \/ CheckHash(r) \/ OpenFile(r) \/ Unpack(r)
  PROVE  FileInv'
<1> DEFINE n == req[r].name
<1>1. req[r].op = "CreateImage" /\ n \in Names /\ FileOK(req[r])
  BY DEF WriteFile, CheckHash, OpenFile, Unpack, At, Inv, FileInv, TypeInv, ReqsOK, ReqOK
<1>2. iso \in [Names -> Contents] /\ dir \in [Names -> Contents]
  BY DEF Inv, TypeInv, FilesOK
<1>3. ~Die
  BY <1>1 DEF WriteFile, CheckHash, OpenFile, Unpack, At, FileOK, Die, EndProcess, Done, Goto, tables,
              Inv, FileInv
<1>4. /\ UNCHANGED <<images, died>>
      /\ \A k \in Names : k # n => iso'[k] = iso[k] /\ dir'[k] = dir[k]
  BY <1>1, <1>2, <1>3 DEF WriteFile, CheckHash, OpenFile, Unpack, tables, files
<1>5. CASE Done(r)
  BY <1>1, <1>4, <1>5, OwnFiles DEF Done
<1>6. CASE ~Done(r)
  <2>1. PICK at : Goto(r, at) /\ (at \in {"hash", "open", "unpack"} => iso'[n] = "whole")
                              /\ (at = "create" => dir'[n] = "whole")
    BY <1>1, <1>2, <1>3, <1>6 DEF WriteFile, CheckHash, OpenFile, Unpack, At, FileOK
  <2>2. PICK q : req' = [req EXCEPT ![r] = q] /\ q.op = "CreateImage" /\ q.name = n /\ q.at = at
    BY <1>1, <2>1, GotoFields DEF Inv
  <2> QED BY <1>1, <1>4, <2>1, <2>2, OwnFiles
<1> QED BY <1>5, <1>6

\* The row of an upload is written.
LEMMA RowFiles ==
  ASSUME Inv, NEW r \in Requests, CreateImage(r)
  PROVE  FileInv'
<1>1. /\ req[r].op = "CreateImage" /\ FileOK(req[r])
      /\ UNCHANGED <<files, died>> /\ req' = [req EXCEPT ![r] = Idle]
  BY DEF CreateImage, At, Done, Inv, FileInv
<1>2. CASE UNCHANGED images
  BY <1>1, <1>2, OtherFiles, IdleFile
<1>3. CASE ~UNCHANGED images
  <2>1. PICK i \in NewIds(ImageIds, DOMAIN images) : images' = Put(images, i, req[r].name)
    BY <1>3 DEF CreateImage
  <2>2. /\ i \notin DOMAIN images /\ DOMAIN images' = DOMAIN images \cup {i}
        /\ images'[i] = req[r].name /\ \A k \in DOMAIN images : images'[k] = images[k]
    BY <2>1 DEF NewIds, Put
  <2>3. \A s \in Requests : req'[s] = IF s = r THEN Idle ELSE req[s]
    BY <1>1 DEF Inv, TypeInv, ReqsOK
  <2>4. ASSUME NEW s \in Requests PROVE FileOK(req[s])'
    <3>1. FileOK(req[s])
      BY DEF Inv, FileInv
    <3>2. CASE s = r
      BY <2>3, <3>2, IdleFile
    <3>3. CASE s # r
      <4>1. req'[s] = req[s]
        BY <2>3, <3>3
      <4> QED BY <1>1, <2>2, <3>1, <4>1 DEF FileOK, files
    <3> QED BY <3>2, <3>3
  <2> QED BY <1>1, <2>4 DEF Inv, FileInv
<1> QED BY <1>2, <1>3

\* A deletion goes on, or ends: no other request is about its row, and no upload
\* has its name.
LEMMA DeleteFiles ==
  ASSUME Inv, Separate, OwnNames, NEW r \in Requests, RemoveAll(r) \/ DeleteImage(r)
  PROVE  FileInv'
<1>1. req[r].op = "DeleteImage" /\ FileOK(req[r]) /\ ~died' /\ UNCHANGED iso
  BY DEF RemoveAll, DeleteImage, At, Inv, FileInv, files
<1>2. PICK q : /\ req' = [req EXCEPT ![r] = q] /\ q.op \in {"DeleteImage", "none"}
               /\ q.op = "DeleteImage" =>
                    q.id = req[r].id /\ q.name = req[r].name /\ UNCHANGED images
  <2>1. CASE RemoveAll(r)
    BY <1>1, <2>1, GotoFields DEF RemoveAll, Inv, tables
  <2>2. CASE DeleteImage(r)
    BY <2>2, IdleFile DEF DeleteImage, Done
  <2> QED BY <2>1, <2>2
<1>3. \A s \in Requests : req'[s] = IF s = r THEN q ELSE req[s]
  BY <1>2 DEF Inv, TypeInv, ReqsOK
<1>4. \A i \in DOMAIN images : i # req[r].id => i \in DOMAIN images' /\ images'[i] = images[i]
  BY DEF RemoveAll, DeleteImage, Remove, tables
<1>5. ASSUME NEW s \in Requests, s # r PROVE FileOK(req[s])'
  <2>1. FileOK(req[s]) /\ req'[s] = req[s]
    BY <1>3, <1>5 DEF Inv, FileInv
  <2>2. CASE req[s].op \in {"UpdateImage", "DeleteImage"}
    <3>1. req[s].id # req[r].id
      BY <1>1, <1>5, <2>2 DEF Separate, Against
    <3> QED BY <1>4, <2>1, <2>2, <3>1 DEF FileOK
  <2>3. CASE req[s].op = "CreateImage"
    <3>1. req[s].name # req[r].name
      BY <1>1, <2>3 DEF FileOK, OwnNames
    <3>2. req[s].name \in Names /\ dir \in [Names -> Contents]
      BY <2>3 DEF Inv, TypeInv, ReqsOK, ReqOK, FilesOK
    <3>3. dir'[req[s].name] = dir[req[s].name]
      BY <3>1, <3>2 DEF RemoveAll, DeleteImage, files
    <3> QED BY <1>1, <2>1, <2>3, <3>3 DEF FileOK
  <2> QED BY <2>1, <2>2, <2>3 DEF FileOK
<1>6. FileOK(req[r])'
  BY <1>1, <1>2, <1>3 DEF FileOK
<1> QED BY <1>1, <1>5, <1>6 DEF FileInv

LEMMA ImageFiles ==
  ASSUME Inv, Separate, OwnNames, OwnNames', NEW r \in Requests, ImageRequest(r)
  PROVE  FileInv'
<1>1. CASE LoadImage(r) \/ CheckImage(r)
  <2>1. PICK i \in DOMAIN images :
          \/ Start(r, [Idle EXCEPT !.op = "UpdateImage", !.at = "save", !.id = i,
                                   !.name = images[i]])
          \/ Start(r, [Idle EXCEPT !.op = "DeleteImage", !.at = "files", !.id = i,
                                   !.name = images[i]])
    BY <1>1 DEF LoadImage, CheckImage
  <2>2. PICK q : /\ req' = [req EXCEPT ![r] = q] /\ q.op \in {"UpdateImage", "DeleteImage"}
                 /\ q.id = i /\ q.name = images[i]
    <3> DEFINE u == [Idle EXCEPT !.op = "UpdateImage", !.at = "save", !.id = i,
                                 !.name = images[i]]
               d == [Idle EXCEPT !.op = "DeleteImage", !.at = "files", !.id = i,
                                 !.name = images[i]]
    <3>1. u.op = "UpdateImage" /\ u.id = i /\ u.name = images[i]
      BY DEF Idle
    <3>2. d.op = "DeleteImage" /\ d.id = i /\ d.name = images[i]
      BY DEF Idle
    <3>3. Start(r, u) \/ Start(r, d)
      BY <2>1
    <3> HIDE DEF u, d
    <3> QED BY <3>1, <3>2, <3>3 DEF Start
  <2>3. FileOK(q)
    BY <2>2 DEF FileOK
  <2> QED BY <1>1, <2>2, <2>3, OtherFiles DEF LoadImage, CheckImage, tables
<1>2. CASE SaveImage(r)
  <2>1. /\ req[r].op = "UpdateImage" /\ FileOK(req[r]) /\ req' = [req EXCEPT ![r] = Idle]
        /\ images' = Put(images, req[r].id, req[r].name) /\ UNCHANGED <<files, died>>
    BY <1>2 DEF SaveImage, At, Done, Inv, FileInv
  <2>2. DOMAIN images' = DOMAIN images /\ \A i \in DOMAIN images : images'[i] = images[i]
    BY <2>1 DEF FileOK, Put
  <2>3. \A s \in Requests : req'[s] = IF s = r THEN Idle ELSE req[s]
    BY <2>1 DEF Inv, TypeInv, ReqsOK
  <2>4. ASSUME NEW s \in Requests PROVE FileOK(req[s])'
    <3>1. FileOK(req[s])
      BY DEF Inv, FileInv
    <3>2. CASE s = r
      BY <2>3, <3>2, IdleFile
    <3>3. CASE s # r
      <4>1. req'[s] = req[s]
        BY <2>3, <3>3
      <4> QED BY <2>1, <2>2, <3>1, <4>1 DEF FileOK, files
    <3> QED BY <3>2, <3>3
  <2> QED BY <2>1, <2>4 DEF Inv, FileInv
<1> QED BY <1>1, <1>2, UploadFiles, WriteFiles, RowFiles, DeleteFiles DEF ImageRequest

LEMMA EndFiles == ASSUME Inv, Crash PROVE FileInv'
<1>1. (\A s \in Requests : req'[s] = Idle) /\ ~died'
  BY DEF Crash, EndProcess, Inv, FileInv
<1> QED BY <1>1, IdleFile DEF FileInv

\* Pools, groups and hosts: nothing of an image changes.
LEMMA RestFiles ==
  ASSUME Inv, NEW r \in Requests, PoolRequest(r) \/ GroupRequest(r) \/ HostRequest(r)
  PROVE  FileInv'
<1>0. CASE Crash
  BY <1>0, EndFiles
<1>1. SUFFICES ASSUME ~Crash
               PROVE  /\ UNCHANGED <<images, files, died>>
                      /\ \E q : req' = [req EXCEPT ![r] = q] /\ q.op \notin ImageOps
  BY <1>0, OtherFiles DEF ImageOps, FileOK
<1> USE DEF ImageOps
<1>2. CASE LoadPool(r) \/ CheckPool(r)
  <2>1. PICK p \in pools :
          \/ Start(r, [Idle EXCEPT !.op = "UpdatePool", !.at = "save", !.id = p])
          \/ Start(r, [Idle EXCEPT !.op = "DeletePool", !.at = "delete", !.id = p])
    BY <1>2 DEF LoadPool, CheckPool
  <2>2. /\ [Idle EXCEPT !.op = "UpdatePool", !.at = "save", !.id = p].op = "UpdatePool"
        /\ [Idle EXCEPT !.op = "DeletePool", !.at = "delete", !.id = p].op = "DeletePool"
    BY DEF Idle
  <2> QED BY <1>2, <2>1, <2>2 DEF LoadPool, CheckPool, Start, tables, files
<1>3. CASE \/ SavePool(r) \/ DeletePool(r) \/ CreateGroup(r) \/ SaveGroup(r) \/ DeleteGroup(r)
           \/ CreateAddress(r) \/ SaveAddress(r) \/ SaveLease(r) \/ SaveTransfer(r) \/ EndWorker(r)
  BY <1>3, IdleFile DEF SavePool, DeletePool, CreateGroup, SaveGroup, DeleteGroup,
       CreateAddress, SaveAddress, SaveLease, SaveTransfer, EndWorker, Done, tables, files
<1>4. CASE FillGroup(r) \/ LoadGroup(r) \/ CheckGroup(r)
  <2>1. PICK g, row :
          \/ Start(r, [Idle EXCEPT !.op = "CreateGroup", !.at = "create", !.group = row])
          \/ Start(r, [Idle EXCEPT !.op = "UpdateGroup", !.at = "save", !.id = g, !.group = row])
          \/ Start(r, [Idle EXCEPT !.op = "DeleteGroup", !.at = "delete", !.id = g])
    BY <1>4 DEF FillGroup, LoadGroup, CheckGroup
  <2>2. /\ [Idle EXCEPT !.op = "CreateGroup", !.at = "create", !.group = row].op = "CreateGroup"
        /\ [Idle EXCEPT !.op = "UpdateGroup", !.at = "save", !.id = g,
                        !.group = row].op = "UpdateGroup"
        /\ [Idle EXCEPT !.op = "DeleteGroup", !.at = "delete", !.id = g].op = "DeleteGroup"
    BY DEF Idle
  <2> QED BY <1>4, <2>1, <2>2 DEF FillGroup, LoadGroup, CheckGroup, Start, tables, files
<1>5. CASE FillHost(r) \/ LoadAddress(r)
  <2>1. PICK h, row :
          \/ Start(r, [Idle EXCEPT !.op = "CreateAddress", !.at = "create", !.host = row])
          \/ Start(r, [Idle EXCEPT !.op = "UpdateAddress", !.at = "save", !.id = h, !.host = row])
    BY <1>5 DEF FillHost, LoadAddress
  <2>2. /\ [Idle EXCEPT !.op = "CreateAddress", !.at = "create", !.host = row].op = "CreateAddress"
        /\ [Idle EXCEPT !.op = "UpdateAddress", !.at = "save", !.id = h,
                        !.host = row].op = "UpdateAddress"
    BY DEF Idle
  <2> QED BY <1>5, <2>1, <2>2 DEF FillHost, LoadAddress, Start, tables, files
<1>6. CASE LoadTransfer(r) \/ LoadKickstart(r) \/ StartWorker(r)
  <2>1. ~Die
    <3>1. \A h \in DOMAIN hosts : hosts[h].group \in DOMAIN groups \cup {0}
      BY DEF Inv, RefInv, RefsResolve
    <3>2. CASE LoadTransfer(r) \/ LoadKickstart(r)
      BY <3>2 DEF LoadTransfer, LoadKickstart, Die, Inv, FileInv
    <3>3. CASE StartWorker(r)
      BY <3>1, <3>3 DEF StartWorker, Die, Crash, Inv, FileInv
    <3> QED BY <1>6, <3>2, <3>3
  <2>2. /\ UNCHANGED <<tables, files, died>>
        /\ \/ \E h \in DOMAIN hosts : \/ Start(r, Loaded("Transfer", "save", h))
                                     \/ Start(r, Loaded("Work", "serve", h))
                                     \/ Start(r, Loaded("Work", "save", h))
           \/ Start(r, [Idle EXCEPT !.op = "Transfer", !.at = "save"])
    BY <1>1, <1>6, <2>1 DEF LoadTransfer, LoadKickstart, StartWorker
  <2>3. CASE \E h \in DOMAIN hosts : \/ Start(r, Loaded("Transfer", "save", h))
                                   \/ Start(r, Loaded("Work", "serve", h))
                                   \/ Start(r, Loaded("Work", "save", h))
    <3>1. PICK h \in DOMAIN hosts : \/ Start(r, Loaded("Transfer", "save", h))
                                    \/ Start(r, Loaded("Work", "serve", h))
                                    \/ Start(r, Loaded("Work", "save", h))
      BY <2>3
    <3>2. /\ Loaded("Transfer", "save", h).op = "Transfer"
          /\ Loaded("Work", "serve", h).op = "Work" /\ Loaded("Work", "save", h).op = "Work"
      BY LoadedRefs DEF Inv
    <3> QED BY <2>2, <3>1, <3>2 DEF Start, tables
  <2>4. CASE Start(r, [Idle EXCEPT !.op = "Transfer", !.at = "save"])
    <3>1. [Idle EXCEPT !.op = "Transfer", !.at = "save"].op = "Transfer"
      BY DEF Idle
    <3> QED BY <2>2, <2>4, <3>1 DEF Start, tables
  <2> QED BY <2>2, <2>3, <2>4
<1>9. CASE LoadLease(r)
  <2>1. ASSUME NEW p \in pools,
               Start(r, [Idle EXCEPT !.op = "Lease", !.at = "save", !.host.pool = p])
        PROVE  \E q : req' = [req EXCEPT ![r] = q] /\ q.op \notin ImageOps
    <3>1. [Idle EXCEPT !.op = "Lease", !.at = "save", !.host.pool = p].op = "Lease"
      BY DEF Idle
    <3> QED BY <2>1, <3>1 DEF Start
  <2>2. ASSUME NEW h \in DOMAIN hosts,
               Start(r, [Idle EXCEPT !.op = "Lease", !.at = "save", !.id = h, !.host = hosts[h]])
        PROVE  \E q : req' = [req EXCEPT ![r] = q] /\ q.op \notin ImageOps
    <3>1. [Idle EXCEPT !.op = "Lease", !.at = "save", !.id = h, !.host = hosts[h]].op = "Lease"
      BY DEF Idle
    <3> QED BY <2>2, <3>1 DEF Start
  <2> QED BY <1>9, <2>1, <2>2 DEF LoadLease, tables
<1>10. CASE FailWorker(r)
  BY <1>1, <1>10 DEF FailWorker
<1>7. CASE ServeKickstart(r) \/ SaveWorker(r)
  <2>1. req[r].op = "Work" /\ (\E at : Goto(r, at)) /\ UNCHANGED <<images, files, died>>
    BY <1>7 DEF ServeKickstart, SaveWorker, At
  <2> QED BY <2>1, GotoFields DEF Inv
<1>8. CASE ReadWorker(r)
  <2>1. CASE Done(r)
    BY <1>8, <2>1, IdleFile DEF ReadWorker, Done, tables
  <2>2. CASE ~Done(r)
    <3> DEFINE p == IF req[r].linked = 0 THEN hosts[req[r].id].pool ELSE req[r].host.pool
               q == [req[r] EXCEPT !.at = "end", !.host.pool = p]
    <3>1. req[r].op = "Work" /\ UNCHANGED <<tables, files, died>>
      BY <1>8 DEF ReadWorker, At
    <3>2. req' = [req EXCEPT ![r] = q]
      BY <1>8, <2>2 DEF ReadWorker, Inv, ReqsOK, TypeInv, ReqOK, Fields
    <3>3. q.op = "Work"
      BY <3>1 DEF Inv, TypeInv, ReqsOK, ReqOK, Fields
    <3> QED BY <3>1, <3>2, <3>3 DEF tables
  <2> QED BY <2>1, <2>2
<1> QED BY <1>2, <1>3, <1>4, <1>5, <1>6, <1>7, <1>8, <1>9, <1>10
        DEF PoolRequest, GroupRequest, HostRequest

LEMMA FileNext == Inv /\ Orderly /\ Orderly' /\ [Next]_vars => FileInv'
<1> SUFFICES ASSUME Inv, Orderly, Orderly', [Next]_vars PROVE FileInv'
  OBVIOUS
<1> USE DEF Orderly
<1>1. CASE CreatePool \/ DeleteAddress \/ UNCHANGED vars
  <2>1. UNCHANGED <<images, files, req, died>>
    BY <1>1 DEF CreatePool, DeleteAddress, vars, tables
  <2> QED BY <2>1 DEF Inv, FileInv, FileOK, files
<1>2. CASE Crash
  BY <1>2, EndFiles
<1>3. ASSUME NEW r \in Requests,
             PoolRequest(r) \/ ImageRequest(r) \/ GroupRequest(r) \/ HostRequest(r)
      PROVE  FileInv'
  BY <1>3, ImageFiles, RestFiles
<1> QED BY <1>1, <1>2, <1>3 DEF Next

LEMMA InitFiles == Init => FileInv
<1>1. SUFFICES ASSUME Init PROVE FileInv
  OBVIOUS
<1>2. ~died
  BY <1>1, Zenon DEF Init
<1>3. \A r \in Requests : req[r] = Idle
  BY <1>1 DEF Init
<1> QED BY <1>2, <1>3, IdleFile DEF FileInv

LEMMA Invariance == Spec /\ []Orderly => []Inv
<1>1. Init => Inv
  BY TypeInit, InitRefs, InitFiles DEF Inv
<1>2. Inv /\ Orderly /\ Orderly' /\ [Next]_vars => Inv'
  BY TypeNext, RefNext, FileNext DEF Inv, Orderly
<1> QED BY <1>1, <1>2, PTL DEF Spec

\* The hypothesis of these theorems is what the run of Inventory assumes: each
\* step of OrderlySpec is one of the code's that leaves use orderly.
LEMMA OrderlyRuns == OrderlySpec => Spec /\ []Orderly
<1>1. Init => Orderly
  <2>1. SUFFICES ASSUME Init PROVE Orderly
    OBVIOUS
  <2>2. \A r \in Requests : req[r].op = "none"
    BY <2>1, IdleRefs DEF Init
  <2>3. DOMAIN images = {} /\ DOMAIN groups = {}
    BY <2>1 DEF Init, Empty
  <2> QED BY <2>2, <2>3 DEF Orderly, Separate, Against, Named, OwnNames
<1>2. Orderly /\ [Next /\ Orderly']_vars => Orderly' /\ [Next]_vars
  BY DEF vars, tables, Orderly, Separate, Against, Named, OwnNames
<1> QED BY <1>1, <1>2, PTL DEF OrderlySpec, Spec

\* As long as use is orderly, no worker and no upload ends the server because of
\* what another request deleted: the group of a host that has one is there
\* (postconfig.go:82), and so is the file of an upload (image.go:148).  It says
\* nothing of the other ways in which a worker ends it.
THEOREM RacesAreSurvived == Spec /\ []Orderly => []RacesSurvived
<1>1. Inv => RacesSurvived
  BY DEF Inv, FileInv, RacesSurvived
<1> QED BY <1>1, Invariance, PTL

\* Who changes the table of images, and who a directory.
LEMMA ImagesChange ==
  ASSUME Inv, [Next]_vars, images' # images
  PROVE  \E r \in Requests : CreateImage(r) \/ SaveImage(r) \/ DeleteImage(r)
<1>1. ~Die /\ ~CreatePool /\ ~DeleteAddress /\ ~Crash /\ Next
  BY DEF vars, tables, Die, EndProcess, CreatePool, DeleteAddress, Crash
<1>2. PICK r \in Requests : PoolRequest(r) \/ ImageRequest(r) \/ GroupRequest(r) \/ HostRequest(r)
  BY <1>1 DEF Next
<1>3. ~PoolRequest(r)
  BY DEF PoolRequest, LoadPool, SavePool, CheckPool, DeletePool, tables
<1>4. ~GroupRequest(r)
  BY DEF GroupRequest, FillGroup, CreateGroup, LoadGroup, SaveGroup, CheckGroup, DeleteGroup, tables
<1>5. ~HostRequest(r)
  BY <1>1 DEF HostRequest, FillHost, CreateAddress, LoadAddress, SaveAddress, LoadLease, SaveLease,
       LoadTransfer, SaveTransfer, LoadKickstart, ServeKickstart, StartWorker, SaveWorker,
       ReadWorker, EndWorker, FailWorker,
       tables
<1> QED BY <1>1, <1>2, <1>3, <1>4, <1>5 DEF ImageRequest, CreateFile, WriteFile, CheckHash,
       OpenFile, Unpack, LoadImage, CheckImage, RemoveAll, tables

LEMMA DirChange ==
  ASSUME Inv, [Next]_vars, dir' # dir
  PROVE  \E r \in Requests : OpenFile(r) \/ Unpack(r) \/ RemoveAll(r)
<1>1. ~Die /\ ~CreatePool /\ ~DeleteAddress /\ ~Crash /\ Next
  BY DEF vars, files, Die, EndProcess, CreatePool, DeleteAddress, Crash
<1>2. PICK r \in Requests : PoolRequest(r) \/ ImageRequest(r) \/ GroupRequest(r) \/ HostRequest(r)
  BY <1>1 DEF Next
<1>3. ~PoolRequest(r)
  BY DEF PoolRequest, LoadPool, SavePool, CheckPool, DeletePool, files
<1>4. ~GroupRequest(r)
  BY DEF GroupRequest, FillGroup, CreateGroup, LoadGroup, SaveGroup, CheckGroup, DeleteGroup, files
<1>5. ~HostRequest(r)
  BY <1>1 DEF HostRequest, FillHost, CreateAddress, LoadAddress, SaveAddress, LoadLease, SaveLease,
       LoadTransfer, SaveTransfer, LoadKickstart, ServeKickstart, StartWorker, SaveWorker,
       ReadWorker, EndWorker, FailWorker,
       files
<1> QED BY <1>1, <1>2, <1>3, <1>4, <1>5 DEF ImageRequest, CreateFile, WriteFile, CheckHash,
       CreateImage, LoadImage, SaveImage, CheckImage, DeleteImage, files

LEMMA ListedStep ==
  ASSUME Inv, [Next]_vars, NEW i \in DOMAIN images' \ DOMAIN images
  PROVE  dir'[images'[i]] = "whole"
<1>1. PICK r \in Requests : CreateImage(r) \/ SaveImage(r) \/ DeleteImage(r)
  BY ImagesChange
<1>2. FileOK(req[r])
  BY DEF Inv, FileInv
<1>3. ~DeleteImage(r)
  BY DEF DeleteImage, Remove
<1>4. ~SaveImage(r)
  BY <1>2 DEF SaveImage, At, FileOK, Put
<1>5. /\ req[r].op = "CreateImage" /\ req[r].at = "create" /\ UNCHANGED dir
      /\ UNCHANGED images \/ \E k : images' = Put(images, k, req[r].name)
  BY <1>1, <1>3, <1>4 DEF CreateImage, At, files
<1>6. images'[i] = req[r].name
  BY <1>5 DEF Put
<1> QED BY <1>2, <1>5, <1>6 DEF FileOK

\* An image that is newly listed was unpacked to its end (image.go:171, :193).
THEOREM ListedImagesComplete == Spec /\ []Orderly => ListedComplete
<1>1. Inv /\ [Next]_vars =>
        [\A i \in DOMAIN images' \ DOMAIN images : dir'[images'[i]] = "whole"]_vars
  BY ListedStep
<1> QED BY <1>1, Invariance, PTL DEF Spec, ListedComplete

LEMMA UsedStep ==
  ASSUME Inv, OwnNames, [Next]_vars, NEW g \in DOMAIN groups, NEW i \in DOMAIN images,
         groups[g].image = i, dir[images[i]] = "whole"
  PROVE  dir'[images[i]] = "whole"
<1>1. SUFFICES ASSUME dir' # dir PROVE dir'[images[i]] = "whole"
  OBVIOUS
<1>2. PICK r \in Requests : OpenFile(r) \/ Unpack(r) \/ RemoveAll(r)
  BY <1>1, DirChange
<1>3. images[i] \in Names /\ dir \in [Names -> Contents] /\ FileOK(req[r]) /\ Refs(req[r])
  BY DEF Inv, TypeInv, TablesOK, FilesOK, FileInv, RefInv
<1>4. req[r].name # images[i]
  <2>1. CASE OpenFile(r) \/ Unpack(r)
    BY <2>1 DEF OpenFile, Unpack, At, OwnNames
  <2>2. CASE RemoveAll(r)
    <3>1. i # req[r].id /\ req[r].id \in DOMAIN images /\ images[req[r].id] = req[r].name
      BY <1>3, <2>2 DEF RemoveAll, At, FileOK, Refs, UsersOfImage
    <3> QED BY <3>1 DEF OwnNames
  <2> QED BY <1>2, <2>1, <2>2
<1> QED BY <1>1, <1>2, <1>3, <1>4 DEF OpenFile, Unpack, RemoveAll, Die, EndProcess, files

\* What a group is installed from stays, as long as use is orderly: no upload
\* writes into the directory of an image that a group uses, and no deletion
\* removes it (image.go:318).
THEOREM UsedImagesKept == Spec /\ []Orderly => UsedFilesKept
<1> DEFINE Kept ==
      \A g \in DOMAIN groups \cap DOMAIN groups' :
        LET i == groups[g].image IN
        i \in DOMAIN images /\ groups'[g].image = i /\ dir[images[i]] = "whole"
          => dir'[images[i]] = "whole"
<1>1. Inv /\ Orderly /\ [Next]_vars => Kept
  BY UsedStep DEF Orderly
<1>2. Inv /\ Orderly /\ [Next]_vars => [Kept]_vars
  BY <1>1
<1> HIDE DEF Kept
<1>3. Spec /\ []Orderly => [][Kept]_vars
  BY <1>2, Invariance, PTL DEF Spec
<1> QED BY <1>3 DEF UsedFilesKept, Kept
=============================================================================
