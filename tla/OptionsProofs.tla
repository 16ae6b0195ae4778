----------------------------- MODULE OptionsProofs -----------------------------
(***************************************************************************)
(* DhcpOptions for any clients, codes, pools and numbers of rows: the keys *)
(* of the tables, and the levels of the options that are sent.             *)
(*                                                                         *)
(* The ids a table gives out are new because they are taken past the       *)
(* greatest one; that there is a greatest rests on the bound of the ids.   *)
(***************************************************************************)
EXTENDS DhcpOptions, WellFoundedInduction, TLAPS

USE OptionsAssumption

-----------------------------------------------------------------------------
(* Least and greatest numbers. *)

LEMMA LeastExists ==
  ASSUME NEW S \in SUBSET Nat, S # {}
  PROVE  \E x \in S : \A y \in S : x <= y
<1> DEFINE R == OpToRel(<, Nat)
<1>1. IsWellFoundedOn(R, Nat)
  BY NatLessThanWellFounded, Zenon
<1>2. ASSUME NEW x \in S, NEW y \in S, ~(<<y, x>> \in R) PROVE x <= y
  <2>1. ~(y < x)
    BY <1>2, Zenon DEF OpToRel
  <2> QED BY <2>1
<1> HIDE DEF R
<1>3. PICK x \in S : \A y \in S : ~(<<y, x>> \in R)
  BY <1>1, WFMin, Zenon
<1> QED BY <1>2, <1>3

LEMMA MinIsLeast ==
  ASSUME NEW S \in SUBSET Nat, S # {}
  PROVE  Min(S) \in S /\ \A y \in S : Min(S) <= y
BY LeastExists DEF Min

\* The greatest member is the least bound.
LEMMA MaxIsGreatest ==
  ASSUME NEW S \in SUBSET Nat, S # {}, NEW n \in Nat, \A y \in S : y <= n
  PROVE  Max(S) \in S /\ \A y \in S : Max(S) >= y
<1> DEFINE B == {b \in Nat : \A y \in S : y <= b}
<1>1. PICK b \in B : \A c \in B : b <= c
  <2>1. n \in B /\ B \in SUBSET Nat
    OBVIOUS
  <2> HIDE DEF B
  <2> QED BY <2>1, LeastExists
<1>2. b \in S
  <2>1. SUFFICES ASSUME b \notin S PROVE FALSE
    OBVIOUS
  <2>2. PICK y \in S : TRUE
    OBVIOUS
  <2>3. \A z \in S : z <= b - 1
    BY <2>1
  <2>4. b - 1 \in B
    BY <2>2, <2>3
  <2> QED BY <2>4, <1>1
<1>3. \E x \in S : \A y \in S : x >= y
  BY <1>2
<1> QED BY <1>3 DEF Max

-----------------------------------------------------------------------------
(* Types and keys. *)

IdsBounded == (\A c \in classes : c.id <= MaxClass) /\ (\A h \in hosts : h.id <= MaxHost)

TypeInv == TypeOK /\ IdsBounded

LEMMA NewIdsNew ==
  ASSUME NEW rows, NEW last \in Nat, \A r \in rows : r.id \in Nat /\ r.id <= last,
         NEW i \in NewIds(rows, last)
  PROVE  i \in Nat \ {0} /\ i <= last /\ \A r \in rows : r.id # i
<1> DEFINE S == {0} \cup {r.id : r \in rows}
<1>1. S \in SUBSET Nat /\ S # {} /\ \A y \in S : y <= last
  OBVIOUS
<1>2. i = Max(S) + 1 /\ i \in 1 .. last
  BY DEF NewIds
<1>3. \A r \in rows : r.id \in S
  OBVIOUS
<1> HIDE DEF S
<1>4. Max(S) \in S /\ \A y \in S : Max(S) >= y
  BY <1>1, MaxIsGreatest
<1>5. ASSUME NEW r \in rows PROVE r.id # i
  <2>1. r.id \in Nat /\ Max(S) \in Nat /\ Max(S) >= r.id
    BY <1>1, <1>3, <1>4
  <2> QED BY <1>2, <2>1
<1> QED BY <1>2, <1>5

LEMMA FormType ==
  ASSUME TypeOK, NEW form \in Forms
  PROVE  /\ form.code \in Codes /\ form.number \in BOOLEAN
         /\ form.pool \in {0, Pool, Other} /\ form.addr \in Nat /\ form.class \in Nat
BY DEF Forms, TypeOK

LEMMA TypeInit == Init => TypeInv
BY DEF Init, TypeInv, TypeOK, IdsBounded

LEMMA TypeNext == TypeInv /\ [OptionsNext]_vars => TypeInv'
<1> SUFFICES ASSUME TypeInv, [OptionsNext]_vars PROVE TypeInv'
  OBVIOUS
<1> USE DEF TypeInv, IdsBounded
<1>1. ASSUME NEW form \in Forms, CreateOption(form) PROVE TypeInv'
  BY <1>1, FormType DEF CreateOption, TypeOK, Filled, Option
<1>2. ASSUME NEW form \in Forms, NEW o \in options, UpdateOption(o, form) PROVE TypeInv'
  <2>1. o \in Option
    BY DEF TypeOK
  <2>2. Merged(o, form) \in Option
    BY <2>1, FormType DEF Merged, Filled, Option
  <2> QED BY <1>2, <2>2 DEF UpdateOption, TypeOK
<1>3. ASSUME NEW o \in options, DeleteOption(o) PROVE TypeInv'
  BY <1>3 DEF DeleteOption, TypeOK
<1>4. ASSUME NEW of \in SUBSET Macs, CreateDeviceClass(of) PROVE TypeInv'
  <2>1. PICK i \in NewIds(classes, MaxClass) : classes' = classes \cup {[id |-> i, of |-> of]}
    BY <1>4 DEF CreateDeviceClass
  <2>2. i \in Nat \ {0} /\ i <= MaxClass /\ \A c \in classes : c.id # i
    BY NewIdsNew DEF TypeOK
  <2> QED BY <1>4, <2>1, <2>2 DEF CreateDeviceClass, TypeOK
<1>5. ASSUME NEW of \in SUBSET Macs, NEW c \in classes, UpdateDeviceClass(c, of) PROVE TypeInv'
  BY <1>5 DEF UpdateDeviceClass, TypeOK
<1>6. ASSUME NEW c \in classes, DeleteDeviceClass(c) PROVE TypeInv'
  BY <1>6 DEF DeleteDeviceClass, TypeOK, Option
<1>7. ASSUME NEW m \in Macs, CreateLease(m) PROVE TypeInv'
  <2>1. PICK i \in NewIds(hosts, MaxHost) : hosts' = hosts \cup {[id |-> i, mac |-> m]}
    BY <1>7 DEF CreateLease
  <2>2. i \in Nat \ {0} /\ i <= MaxHost /\ \A h \in hosts : h.id # i
    BY NewIdsNew DEF TypeOK
  <2>3. \A h \in hosts : h.mac # m
    BY <1>7 DEF CreateLease, RowIds
  <2> QED BY <1>7, <2>1, <2>2, <2>3 DEF CreateLease, TypeOK
<1>8. ASSUME NEW h \in hosts, DeleteAddress(h) PROVE TypeInv'
  BY <1>8 DEF DeleteAddress, TypeOK, Option
<1>9. CASE UNCHANGED vars
  BY <1>9 DEF vars, TypeOK
<1> QED BY <1>1, <1>2, <1>3, <1>4, <1>5, <1>6, <1>7, <1>8, <1>9 DEF OptionsNext

\* The ids of the tables are keys, and so is the MAC address of a client, though
\* options refer to ids that were given out more than once.
THEOREM TypeCorrect == Spec => []TypeOK
<1>1. TypeInv => TypeOK
  BY DEF TypeInv
<1> QED BY <1>1, TypeInit, TypeNext, PTL DEF Spec

-----------------------------------------------------------------------------
(* Answers. *)

\* What is grouped under a code is configured for it.
LEMMA GroupConfigured ==
  ASSUME NEW m, NEW lease, NEW code, NEW o \in Group(m, lease, code)
  PROVE  o \in options /\ o.code = code
BY DEF Group, OfCode, Selected

-----------------------------------------------------------------------------
(* Levels. *)

LEMMA ClassType == TypeOK => \A m : ClassOf(m) \in Nat
<1> SUFFICES ASSUME TypeOK, NEW m PROVE ClassOf(m) \in Nat
  OBVIOUS
<1> DEFINE found == {c.id : c \in {c \in classes : m \in c.of}}
<1>1. found \in SUBSET Nat
  BY DEF TypeOK
<1>2. ClassOf(m) = IF found = {} THEN 0 ELSE Min(found)
  BY DEF ClassOf
<1> HIDE DEF found
<1>3. found # {} => Min(found) \in found
  BY <1>1, MinIsLeast
<1>4. CASE found = {}
  BY <1>2, <1>4
<1>5. CASE found # {}
  BY <1>1, <1>2, <1>3, <1>5
<1> QED BY <1>4, <1>5

\* The columns are what HighestLevelSent assumes of them.
Plain(o) == (o.addr = 0 \/ o.pool = 0) /\ (o.class # 0 => o.addr # 0 \/ o.pool # 0)

\* A line of the list is a level of the code, and its options are those the
\* query selects.
LEMMA LinesAreLevels ==
  ASSUME TypeOK, NEW m, NEW lease \in Int \ {0}, NEW o \in options, Plain(o), NEW n \in 1 .. 6
  PROVE  Listed(o, lease, ClassOf(m), n) <=> o \in Selected(m, lease) /\ Level(o) = 6 - n
<1>1. o \in Option /\ ClassOf(m) \in Nat
  BY ClassType DEF TypeOK
<1>2. n \in {1, 2, 3, 4, 5, 6}
  OBVIOUS
<1>3. \/ n = 1 \/ n = 2 \/ n = 3 \/ n = 4 \/ n = 5 \/ n = 6
  BY <1>2
<1> USE DEF Listed, Selected, Level, Plain, Option
<1>4. CASE n = 1 BY <1>1, <1>4
<1>5. CASE n = 2 BY <1>1, <1>5
<1>6. CASE n = 3 BY <1>1, <1>6
<1>7. CASE n = 4 BY <1>1, <1>7
<1>8. CASE n = 5 BY <1>1, <1>8
<1>9. CASE n = 6 BY <1>1, <1>9
<1> QED BY <1>3, <1>4, <1>5, <1>6, <1>7, <1>8, <1>9

\* The order of the query is the order of the levels.
LEMMA OrderIsLevel ==
  ASSUME TypeOK, NEW m, NEW lease \in Int \ {0},
         NEW o \in Selected(m, lease), Plain(o), NEW p \in Selected(m, lease), Plain(p)
  PROVE  Before(o, p) <=> Level(o) > Level(p)
<1>1. o \in Option /\ p \in Option /\ ClassOf(m) \in Nat
  BY ClassType DEF TypeOK, Selected
<1> QED BY <1>1 DEF Before, Selected, Level, Plain, Option

LEMMA LevelType ==
  ASSUME NEW o PROVE Level(o) \in 0 .. 5
BY DEF Level

LEMMA GroupIsTop ==
  ASSUME TypeOK, NEW m, NEW lease \in Int \ {0}, NEW code, \A o \in OfCode(options, code) : Plain(o)
  PROVE  Group(m, lease, code) = TopListed(m, lease, code)
<1> DEFINE rows == OfCode(Selected(m, lease), code)
           levels == {Level(o) : o \in rows}
           on(n) == {o \in OfCode(options, code) : Listed(o, lease, ClassOf(m), n)}
           used == {n \in 1 .. 6 : on(n) # {}}
<1>1. \A o \in rows : o \in options /\ o.code = code /\ Plain(o) /\ o \in Selected(m, lease)
  BY DEF OfCode, Selected
<1>2. ASSUME NEW n \in 1 .. 6 PROVE on(n) = {o \in rows : Level(o) = 6 - n}
  BY <1>1, LinesAreLevels DEF OfCode
<1>3. CASE rows = {}
  <2>1. used = {}
    BY <1>2, <1>3
  <2>2. TopListed(m, lease, code) = {}
    BY <2>1 DEF TopListed
  <2> QED BY <1>3, <2>2 DEF Group
<1>4. CASE rows # {}
  <2>1. levels \in SUBSET Nat /\ levels # {} /\ \A l \in levels : l <= 5
    BY <1>4, LevelType
  <2> DEFINE top == Max(levels)
  <2>2. top \in levels /\ \A l \in levels : top >= l
    <3> HIDE DEF levels
    <3> QED BY <2>1, MaxIsGreatest
  <2> HIDE DEF top
  <2>3. top \in 0 .. 5 /\ \E o \in rows : Level(o) = top
    BY <2>2, LevelType
  <2>4. \A o \in rows : Level(o) \in 0 .. 5 /\ Level(o) <= top
    BY <2>2, LevelType
  <2>5. \A o, p \in rows : Before(p, o) <=> Level(p) > Level(o)
    BY <1>1, OrderIsLevel
  <2>6. {o \in rows : ~ \E p \in rows : Before(p, o)} = {o \in rows : Level(o) = top}
    BY <2>3, <2>4, <2>5
  <2>7. Group(m, lease, code) = {o \in rows : Level(o) = top}
    <3> HIDE DEF rows
    <3>1. {o \in rows : \A f \in {o2 \in rows : Level(o2) = top} : Level(o) >= Level(f)}
            = {o \in rows : Level(o) = top}
      BY <2>3, <2>4
    <3> QED BY <2>6, <3>1 DEF Group, rows
  <2>8. 6 - top \in used /\ \A n \in used : 6 - top <= n
    BY <1>2, <2>3, <2>4
  <2>9. Min(used) = 6 - top
    <3>1. used \in SUBSET Nat
      OBVIOUS
    <3> HIDE DEF used
    <3>2. Min(used) \in used /\ \A n \in used : Min(used) <= n
      BY <2>8, <3>1, MinIsLeast
    <3>3. Min(used) \in Nat /\ Min(used) <= 6 - top /\ 6 - top <= Min(used)
      BY <2>8, <3>1, <3>2
    <3> QED BY <2>3, <3>3
  <2>10. TopListed(m, lease, code) = on(6 - top)
    BY <2>8, <2>9 DEF TopListed
  <2>11. on(6 - top) = {o \in rows : Level(o) = top}
    <3>1. 6 - top \in 1 .. 6 /\ 6 - (6 - top) = top
      BY <2>3
    <3> QED BY <1>2, <3>1
  <2> QED BY <2>7, <2>10, <2>11
<1> QED BY <1>3, <1>4

LEMMA LevelsNow == TypeOK => HighestLevelSent
<1> SUFFICES ASSUME TypeOK, NEW m \in Macs, NEW lease \in LeaseIds(m) \ {NewLease},
                    NEW code \in Codes, \A o \in OfCode(options, code) : Plain(o)
             PROVE  OfCode(Sent(m, lease), code)
                      = {o \in TopListed(m, lease, code) : Encodes(o)}
  BY DEF HighestLevelSent, Plain
<1>1. lease \in Int \ {0}
  BY DEF LeaseIds, RowIds, NewLease, NoLease, TypeOK
<1>2. Group(m, lease, code) = TopListed(m, lease, code)
  BY <1>1, GroupIsTop
<1>3. \A c \in Codes : \A o \in Group(m, lease, c) : o.code = c
  BY GroupConfigured
<1> QED BY <1>2, <1>3 DEF OfCode, Sent

\* A known client is sent the options of the highest level that applies to it
\* and no others, whatever is configured, as long as no option names a class and
\* nothing else, or a pool and an address at once (dhcp.go:356-363).
THEOREM HighestLevelIsSent == Spec => []HighestLevelSent
<1>1. Spec => []TypeOK
  BY TypeCorrect
<1> QED BY <1>1, LevelsNow, PTL
=============================================================================
