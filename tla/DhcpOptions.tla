---------------------------- MODULE DhcpOptions ----------------------------
(***************************************************************************)
(* The options of a DHCP answer: AddOptions (dhcp.go), the levels and the  *)
(* encoding of models/option.go, and the REST handlers that keep options   *)
(* and device classes (api/options.go, api/device_classes.go).             *)
(*                                                                         *)
(* An option refers to a pool, an address and a device class by id, 0      *)
(* being none; no constraint of the database ties it to their rows, and    *)
(* sqlite hands the id of a deleted last row out again.  An answer reads   *)
(* the tables and changes none but the address table, when it is the ACK   *)
(* of a new lease: the properties are about every answer that may be given *)
(* in a state.  The hosts are in one pool, Pool, which another one, Other, *)
(* shares the tables with.                                                 *)
(***************************************************************************)
EXTENDS Integers, FiniteSets, FiniteSetsExt

CONSTANTS
  Macs,        \* the MAC addresses of the clients
  Codes,       \* the option codes that occur
  Pool, Other, \* the ids of the two pools
  MaxOptions,  \* bound: the options configured
  MaxClass,    \* bound: the largest id of a device class
  MaxHost      \* bound: the largest id of an address

ASSUME OptionsAssumption ==
  /\ Codes \subseteq 0 .. 255
  /\ Pool \in Nat \ {0} /\ Other \in Nat \ {0} /\ Pool # Other
  /\ MaxOptions \in Nat /\ MaxClass \in Nat /\ MaxHost \in Nat

VARIABLES
  options,  \* the table options
  classes,  \* the table device_classes; of are the clients whose vendor class
            \* contains that of the row
  hosts     \* the table addresses, of which AddOptions uses the id

vars == <<options, classes, hosts>>

Init == options = {} /\ classes = {} /\ hosts = {}

(***************************************************************************)
(* What AddOptions selects.                                                *)
(***************************************************************************)
\* The id of the lease it is given: none, which equals no column, in an OFFER
\* to a client without usable row; 0 in the ACK of a lease that is still to be
\* created; else the id of the row.
NoLease == -1
NewLease == 0

RowIds(m) == {h.id : h \in {h \in hosts : h.mac = m}}

LeaseIds(m) ==
  RowIds(m) \cup {NoLease} \cup (IF RowIds(m) = {} THEN {NewLease} ELSE {})

\* The first class found for the vendor class of the client, or 0.
ClassOf(m) ==
  LET found == {c.id : c \in {c \in classes : m \in c.of}}
  IN  IF found = {} THEN 0 ELSE Min(found)

Selected(m, lease) ==
  {o \in options :
     /\ \/ o.pool = 0 /\ o.class = 0 /\ o.addr = 0
        \/ o.pool = Pool
        \/ o.addr = lease
     /\ o.class \in {0, ClassOf(m)}}

\* The order of the query: device_class_id, address_id, pool_id, descending.
Before(o, p) ==
  \/ o.class > p.class
  \/ o.class = p.class /\ o.addr > p.addr
  \/ o.class = p.class /\ o.addr = p.addr /\ o.pool > p.pool

Level(o) ==
  IF o.class > 0 THEN IF o.addr > 0 THEN 5 ELSE IF o.pool > 0 THEN 4 ELSE 3
                 ELSE IF o.addr > 0 THEN 2 ELSE IF o.pool > 0 THEN 1 ELSE 0

OfCode(rows, code) == {o \in rows : o.code = code}

\* Mutant: the level is not looked at.
GroupAll(m, lease, code) == OfCode(Selected(m, lease), code)

\* byOpCode: the first option of the code, and those that follow whose level is
\* not below that of the first.
Group(m, lease, code) ==
  LET rows  == OfCode(Selected(m, lease), code)
      first == {o \in rows : ~ \E p \in rows : Before(p, o)}
  IN  {o \in rows : \A f \in first : Level(o) >= Level(f)}

(***************************************************************************)
(* What it adds to the answer.  The values the server makes itself, for    *)
(* codes of which nothing is configured, are left out.                     *)
(***************************************************************************)
Numeric == {2, 13, 22, 24, 25, 26, 35, 38, 51, 57, 58, 59}

Encodable ==
  Numeric \cup {1, 28, 32} \cup (3 .. 11) \cup {16, 41, 42, 44, 45}
          \cup {12, 14, 15, 17, 18, 40, 47, 48, 49, 56, 66, 67, 119, 120}

\* ToDHCPOption fails for a code it does not know and for data that ought to be
\* a number and is not.
Encodes(o) == o.code \in Encodable /\ (o.code \in Numeric => o.number)

\* The configured options of the answer: all groups, requested or not.
Sent(m, lease) ==
  {o \in UNION {Group(m, lease, code) : code \in Codes} : Encodes(o)}

(***************************************************************************)
(* The writers of the tables.                                              *)
(***************************************************************************)
\* Mutant: ids are numbered by the rows there are.
IdsByCount(rows, last) == {Cardinality(rows) + 1} \cap 1 .. last

\* sqlite gives a new row the id after the largest.
NewIds(rows, last) == {Max({0} \cup {r.id : r \in rows}) + 1} \cap 1 .. last

\* The forms an administrator fills in: rows are chosen among those there are.
\* number tells whether the data of a numeric code is one.
Forms ==
  {form \in [code : Codes, number : BOOLEAN, pool : {0, Pool, Other},
             addr : {0} \cup {h.id : h \in hosts}, class : {0} \cup {c.id : c \in classes}] :
     form.code \notin Numeric => form.number}

\* lost is history: the columns of the option whose row was deleted since an
\* administrator chose it.
Filled(form, lost) ==
  [code |-> form.code, number |-> form.number, pool |-> form.pool,
   addr |-> form.addr, class |-> form.class, lost |-> lost]

CreateOption(form) ==
  /\ Cardinality(options) < MaxOptions
  /\ options' = options \cup {Filled(form, {})}
  /\ UNCHANGED <<classes, hosts>>

\* A column that is 0 in the form does not overwrite the row.
Merged(o, form) ==
  LET keep(old, new) == IF new = 0 THEN old ELSE new IN
  [Filled(form, o.lost \ ({c \in {"addr"} : form.addr # 0} \cup
                          {c \in {"class"} : form.class # 0}))
     EXCEPT !.pool = keep(o.pool, form.pool),
            !.addr = keep(o.addr, form.addr),
            !.class = keep(o.class, form.class)]

UpdateOption(o, form) ==
  /\ options' = (options \ {o}) \cup {Merged(o, form)}
  /\ UNCHANGED <<classes, hosts>>

DeleteOption(o) ==
  /\ options' = options \ {o}
  /\ UNCHANGED <<classes, hosts>>

CreateDeviceClass(of) ==
  /\ \E i \in NewIds(classes, MaxClass) : classes' = classes \cup {[id |-> i, of |-> of]}
  /\ UNCHANGED <<options, hosts>>

UpdateDeviceClass(c, of) ==
  /\ classes' = (classes \ {c}) \cup {[c EXCEPT !.of = of]}
  /\ UNCHANGED <<options, hosts>>

\* The options of the class stay.
DeleteDeviceClass(c) ==
  /\ classes' = classes \ {c}
  /\ options' = {IF o.class = c.id THEN [o EXCEPT !.lost = @ \cup {"class"}] ELSE o : o \in options}
  /\ UNCHANGED hosts

\* The ACK of a new lease, whose options were added before.
CreateLease(m) ==
  /\ RowIds(m) = {}
  /\ \E i \in NewIds(hosts, MaxHost) : hosts' = hosts \cup {[id |-> i, mac |-> m]}
  /\ UNCHANGED <<options, classes>>

\* A row is deleted by an administrator or, when its lease has ended, by the
\* request of another client for its address.  Its options stay.
DeleteAddress(h) ==
  /\ hosts' = hosts \ {h}
  /\ options' = {IF o.addr = h.id THEN [o EXCEPT !.lost = @ \cup {"addr"}] ELSE o : o \in options}
  /\ UNCHANGED classes

OptionsNext ==
  \/ \E form \in Forms : CreateOption(form) \/ \E o \in options : UpdateOption(o, form)
  \/ \E o \in options : DeleteOption(o)
  \/ \E of \in SUBSET Macs :
       CreateDeviceClass(of) \/ \E c \in classes : UpdateDeviceClass(c, of)
  \/ \E c \in classes : DeleteDeviceClass(c)
  \/ \E m \in Macs : CreateLease(m)
  \/ \E h \in hosts : DeleteAddress(h)

Spec == Init /\ [][OptionsNext]_vars

(***************************************************************************)
(* Properties.                                                             *)
(***************************************************************************)
Option == [code : Codes, number : BOOLEAN, pool : {0, Pool, Other}, addr : Nat,
           class : Nat, lost : SUBSET {"addr", "class"}]

\* The types of the variables, and the keys of the tables.
TypeOK ==
  /\ options \subseteq Option
  /\ classes \subseteq [id : Nat \ {0}, of : SUBSET Macs]
  /\ hosts \subseteq [id : Nat \ {0}, mac : Macs]
  /\ \A c, d \in classes : c.id = d.id => c = d
  /\ \A g, h \in hosts : g.id = h.id \/ g.mac = h.mac => g = h

\* The list of dhcp.go:358-363, the highest first: what an option names of the
\* host with that lease and class, for each line n.
Listed(o, lease, class, n) ==
  LET mine == o.class # 0 /\ o.class = class IN
  \/ n = 1 /\ mine /\ o.addr = lease
  \/ n = 2 /\ mine /\ o.addr = 0 /\ o.pool = Pool
  \/ n = 3 /\ mine /\ o.addr = 0 /\ o.pool = 0
  \/ n = 4 /\ o.class = 0 /\ o.addr = lease
  \/ n = 5 /\ o.class = 0 /\ o.addr = 0 /\ o.pool = Pool
  \/ n = 6 /\ o.class = 0 /\ o.addr = 0 /\ o.pool = 0

\* The options of the code on the highest line of the list that has any.
TopListed(m, lease, code) ==
  LET on(n) == {o \in OfCode(options, code) : Listed(o, lease, ClassOf(m), n)}
      used  == {n \in 1 .. 6 : on(n) # {}}
  IN  IF used = {} THEN {} ELSE on(Min(used))

\* "Only add the highest level options to the list" (dhcp.go:356): a client
\* whose row is known, or that is offered an address, is sent the configured
\* options of the highest level that applies to it and no others, however the
\* query happens to order them.  Options of a class for every pool, and options
\* that name both a pool and an address, are not what the query assumes.
HighestLevelSent ==
  \A m \in Macs : \A lease \in LeaseIds(m) \ {NewLease} : \A code \in Codes :
    (\A o \in OfCode(options, code) :
        /\ o.addr = 0 \/ o.pool = 0
        /\ o.class # 0 => o.addr # 0 \/ o.pool # 0)
    => OfCode(Sent(m, lease), code) = {o \in TopListed(m, lease, code) : Encodes(o)}

\* dhcp.go:357-363 "The level is decided on pool_id and address_id fields":
\* a configured option that a client is sent is one for everybody, or for its
\* pool, or for the row and the class the administrator chose it for.
OptionsMeantForHost ==
  \A m \in Macs : \A lease \in LeaseIds(m) : \A o \in Sent(m, lease) :
    /\ o.lost = {}
    /\ o.addr \in {0, lease}
    /\ o.addr = 0 => o.pool \in {0, Pool}
=============================================================================
