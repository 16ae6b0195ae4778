----------------------------- MODULE StartupProofs -----------------------------
(***************************************************************************)
(* Startup for every set of names and passwords, any number of requests,   *)
(* users, groups and crashes: the types, and the three invariants.  Each   *)
(* has an inductive invariant of its own, beside TypeOK.                   *)
(***************************************************************************)
EXTENDS Startup, TLAPS

USE FileAssumption, PasswordAssumption, ClassAssumption, BoundAssumption

-----------------------------------------------------------------------------
(* Tables. *)

\* Ids are numbers.
LEMMA NewIdsNat ==
  ASSUME NEW table, DOMAIN table \subseteq Nat
  PROVE  NewIds(table) \subseteq Nat
  BY DEF NewIds

-----------------------------------------------------------------------------
(* Types. *)

\* What the functions of api/users.go return.
LEMMA HashTypes ==
  /\ \A p \in UserForms \cup {Default} : HashAndSalt(p) \in Hashes
  /\ \A h \in Hashes : HashAgain(h) \in Hashes
<1>1. NoPassword \in Passwords /\ NoPassword.length = 0
  BY DEF NoPassword, Passwords
<1>2. \A p \in UserForms \cup {Default, NoPassword} : HashAndSalt(p) \in Hashes
  BY DEF HashAndSalt, NoHash, Hashes
<1>3. ASSUME NEW h \in Hashes PROVE [h EXCEPT !.times = 2] \in Hashes
  BY DEF Hashes
<1> QED BY <1>2, <1>3 DEF HashAgain

\* What UpdateGroup makes of the column.
LEMMA UpdatedTypes ==
  ASSUME NEW c \in Ciphers, NEW p \in GroupForms
  PROVE  Updated(c, p) \subseteq Ciphers
  BY DEF Updated, Encrypt, Usable, Ciphers

\* The types of what the requests change.
Accounts ==
  /\ DOMAIN users \subseteq Nat /\ \A u \in DOMAIN users : users[u] \in Users
  /\ DOMAIN given = DOMAIN users /\ \A u \in DOMAIN given : given[u] \in UserForms \cup {Default}

\* Setting a user keeps them.
LEMMA SetUserTypes ==
  ASSUME Accounts, NEW u \in Nat, NEW row \in Users, NEW p \in UserForms \cup {Default},
         SetUser(u, row, p)
  PROVE  Accounts'
<1>1. users' = Put(users, u, row) /\ given' = Put(given, u, p)
  BY DEF SetUser
<1>2. /\ DOMAIN users' = DOMAIN users \cup {u} /\ users'[u] = row
      /\ \A i \in DOMAIN users \ {u} : users'[i] = users[i]
  BY <1>1 DEF Put
<1>3. /\ DOMAIN given' = DOMAIN given \cup {u} /\ given'[u] = p
      /\ \A i \in DOMAIN given \ {u} : given'[i] = given[i]
  BY <1>1 DEF Put
<1> QED BY <1>2, <1>3 DEF Accounts

\* Setting a device class keeps the type of its table.
LEMMA SetClassTypes ==
  ASSUME DOMAIN classes \subseteq Nat, \A c \in DOMAIN classes : classes[c] \in Kinds,
         NEW c \in Nat, NEW kind \in Kinds, classes' = Put(classes, c, kind)
  PROVE  DOMAIN classes' \subseteq Nat /\ \A i \in DOMAIN classes' : classes'[i] \in Kinds
  BY DEF Put

\* Setting a group keeps the type of its table.
LEMMA SetGroupTypes ==
  ASSUME DOMAIN groups \subseteq Nat, \A g \in DOMAIN groups : groups[g] \in Ciphers,
         NEW g \in Nat, NEW c \in Ciphers, groups' = Put(groups, g, c)
  PROVE  DOMAIN groups' \subseteq Nat /\ \A i \in DOMAIN groups' : groups'[i] \in Ciphers
  BY DEF Put

LEMMA TypeInit == Init => TypeOK
<1>1. DOMAIN Empty = {}
  BY DEF Empty
<1> QED BY <1>1 DEF Init, TypeOK, Stages, Contents, Tables

\* Every step of main, of a request, and a crash.
LEMMA TypeNext == TypeOK /\ [Next]_vars => TypeOK'
<1> SUFFICES ASSUME TypeOK, [Next]_vars PROVE TypeOK'
  OBVIOUS
<1>a. Accounts
  BY DEF TypeOK, Accounts
<1>1. CASE Start
  BY <1>1 DEF Start, TypeOK, secrets, tables, kinds, accounts, Stages
<1>2. CASE FindSecret
  BY <1>2 DEF FindSecret, TypeOK, tables, kinds, accounts, Stages, Contents
<1>3. CASE WriteSecret
  BY <1>3 DEF WriteSecret, TypeOK, tables, kinds, accounts, Stages, Contents, Random
<1>4. CASE Connect
  BY <1>4 DEF Connect, TypeOK, secrets, kinds, accounts, Stages, Tables
<1>5. CASE AutoMigrate
  <2>1. database' \in -1 .. Tables
    BY <1>5 DEF AutoMigrate, TypeOK, Tables
  <2> QED BY <1>5, <2>1 DEF AutoMigrate, TypeOK, secrets, kinds, accounts, Stages, DeviceClasses
<1>6. CASE CreateBuiltin
  <2>1. DOMAIN classes' \subseteq Nat /\ \A c \in DOMAIN classes' : classes'[c] \in Kinds
    <3>1. CASE UNCHANGED classes
      BY <3>1 DEF TypeOK
    <3>2. CASE \E c \in NewIds(classes) : classes' = Put(classes, c, pc)
      <4>1. PICK c \in NewIds(classes) : classes' = Put(classes, c, pc)
        BY <3>2
      <4>2. c \in Nat /\ pc \in Kinds
        BY <1>6, NewIdsNat DEF TypeOK, CreateBuiltin, Kinds
      <4> QED BY <4>1, <4>2, SetClassTypes DEF TypeOK
    <3> QED BY <1>6, <3>1, <3>2 DEF CreateBuiltin
  <2>2. pc' \in Stages
    BY <1>6 DEF CreateBuiltin, AfterClass, Stages, DeviceClasses
  <2> QED BY <1>6, <2>1, <2>2 DEF CreateBuiltin, TypeOK, secrets, accounts
<1>7. CASE CreateAdmin
  <2>1. CASE \E u \in DOMAIN users : users[u].name = Admin
    BY <1>7, <2>1 DEF CreateAdmin, TypeOK, secrets, kinds, accounts, Stages
  <2>2. CASE ~\E u \in DOMAIN users : users[u].name = Admin
    <3>1. PICK u \in NewIds(users) :
            SetUser(u, [name |-> Admin, hash |-> HashAndSalt(Default)], Default)
      BY <1>7, <2>2 DEF CreateAdmin
    <3>2. u \in Nat
      BY NewIdsNat DEF TypeOK
    <3>3. [name |-> Admin, hash |-> HashAndSalt(Default)] \in Users
      BY HashTypes DEF Users
    <3>4. Accounts'
      BY <1>a, <3>1, <3>2, <3>3, SetUserTypes
    <3> QED BY <1>7, <3>4 DEF CreateAdmin, TypeOK, Accounts, secrets, kinds, Stages
  <2> QED BY <2>1, <2>2
<1>8. CASE FindCertificate
  BY <1>8 DEF FindCertificate, TypeOK, secrets, tables, kinds, accounts, Stages, Files
<1>9. CASE RunTLS
  BY <1>9 DEF RunTLS, TypeOK, secrets, tables, kinds, accounts, Stages
<1>10. ASSUME NEW f \in Files, CreateFile(f) PROVE TypeOK'
  BY <1>10 DEF CreateFile, TypeOK, secrets, tables, kinds, accounts, Contents
<1>11. ASSUME NEW f \in Files, WriteFile(f) PROVE TypeOK'
  <2>1. After[f] \in Stages
    BY DEF After, Stages, Files
  <2> QED BY <1>11, <2>1 DEF WriteFile, TypeOK, secrets, tables, kinds, accounts, Contents, Random
<1>12. CASE CreateUser
  <2>1. PICK u \in NewIds(users), name \in Usernames, p \in UserForms :
          SetUser(u, [name |-> name, hash |-> HashAndSalt(p)], p)
    BY <1>12 DEF CreateUser
  <2>2. u \in Nat /\ [name |-> name, hash |-> HashAndSalt(p)] \in Users
    BY NewIdsNat, HashTypes DEF TypeOK, Users
  <2>3. Accounts'
    BY <1>a, <2>1, <2>2, SetUserTypes
  <2> QED BY <1>12, <2>3 DEF CreateUser, TypeOK, Accounts, secrets, kinds
<1>13. CASE DeleteUser
  <2>1. PICK u \in DOMAIN users : users' = Remove(users, u) /\ given' = Remove(given, u)
    BY <1>13 DEF DeleteUser
  <2>2. Accounts'
    BY <1>a, <2>1 DEF Accounts, Remove
  <2> QED BY <1>13, <2>2 DEF DeleteUser, TypeOK, Accounts, secrets, kinds
<1>14. CASE CreateGroup
  <2>1. PICK g \in NewIds(groups), p \in GroupForms : groups' = Put(groups, g, Encrypt(p, key))
    BY <1>14 DEF CreateGroup
  <2>2. g \in Nat /\ Encrypt(p, key) \in Ciphers
    BY <1>14, NewIdsNat DEF TypeOK, Encrypt, Ciphers, CreateGroup, Usable
  <2>3. DOMAIN groups' \subseteq Nat /\ \A i \in DOMAIN groups' : groups'[i] \in Ciphers
    BY <2>1, <2>2, SetGroupTypes DEF TypeOK
  <2> QED BY <1>14, <2>3 DEF CreateGroup, TypeOK, secrets, kinds, accounts
<1>15. CASE DeleteGroup
  <2>1. PICK g \in DOMAIN groups : groups' = Remove(groups, g)
    BY <1>15 DEF DeleteGroup
  <2> QED BY <1>15, <2>1 DEF DeleteGroup, Remove, TypeOK, secrets, kinds, accounts
<1>16. ASSUME NEW r \in Requests, LoadUser(r) PROVE TypeOK'
  <2>1. PICK u \in DOMAIN users, name \in Usernames, p \in UserForms :
          LET hash == IF p = NoPassword THEN HashAgain(users[u].hash) ELSE HashAndSalt(p) IN
          req' = [req EXCEPT ![r] = [table |-> "users", id |-> u, given |-> p,
                                     row |-> [name |-> name, hash |-> hash]]]
    BY <1>16 DEF LoadUser
  <2> DEFINE hash == IF p = NoPassword THEN HashAgain(users[u].hash) ELSE HashAndSalt(p)
  <2>2. hash \in Hashes
    BY HashTypes DEF TypeOK, Users
  <2> HIDE DEF hash
  <2>3. [table |-> "users", id |-> u, given |-> p, row |-> [name |-> name, hash |-> hash]] \in Updates
    BY <2>2 DEF Updates, Users, TypeOK
  <2>4. \A s \in Requests : req'[s] = None \/ req'[s] \in Updates
    <3>1. req' = [req EXCEPT ![r] = [table |-> "users", id |-> u, given |-> p,
                                     row |-> [name |-> name, hash |-> hash]]]
      BY <2>1 DEF hash
    <3> QED BY <2>3, <3>1 DEF TypeOK
  <2> QED BY <1>16, <2>4 DEF LoadUser, TypeOK, secrets, tables, kinds, accounts
<1>17. ASSUME NEW r \in Requests, SaveUser(r) PROVE TypeOK'
  <2>1. req[r].id \in Nat /\ req[r].row \in Users /\ req[r].given \in UserForms
    BY <1>17 DEF SaveUser, TypeOK, Updates
  <2>2. Accounts'
    BY <1>17, <1>a, <2>1, SetUserTypes DEF SaveUser
  <2> QED BY <1>17, <2>2 DEF SaveUser, TypeOK, Accounts, secrets, kinds
<1>18. ASSUME NEW r \in Requests, LoadGroup(r) PROVE TypeOK'
  <2>1. PICK g \in DOMAIN groups, p \in GroupForms : \E c \in Updated(groups[g], p) :
          req' = [req EXCEPT ![r] = [table |-> "groups", id |-> g, row |-> c]]
    BY <1>18 DEF LoadGroup
  <2>2. PICK c \in Ciphers : req' = [req EXCEPT ![r] = [table |-> "groups", id |-> g, row |-> c]]
    BY <2>1, UpdatedTypes DEF TypeOK
  <2>3. [table |-> "groups", id |-> g, row |-> c] \in Updates
    BY DEF Updates, TypeOK
  <2> QED BY <1>18, <2>2, <2>3 DEF LoadGroup, TypeOK, secrets, tables, kinds, accounts
<1>19. ASSUME NEW r \in Requests, SaveGroup(r) PROVE TypeOK'
  <2>1. req[r].id \in Nat /\ req[r].row \in Ciphers
    BY <1>19 DEF SaveGroup, TypeOK, Updates
  <2>2. DOMAIN groups' \subseteq Nat /\ \A i \in DOMAIN groups' : groups'[i] \in Ciphers
    BY <1>19, <2>1, SetGroupTypes DEF SaveGroup, TypeOK
  <2> QED BY <1>19, <2>2 DEF SaveGroup, TypeOK, secrets, kinds, accounts
<1>20. CASE Crash
  BY <1>20 DEF Crash, TypeOK, tables, kinds, accounts, Stages, Contents
<1>22. CASE CreateDeviceClass
  <2>1. PICK c \in NewIds(classes), kind \in ClassForms :
          classes' = Put(classes, c, kind) /\ Touch({kind})
    BY <1>22 DEF CreateDeviceClass
  <2>2. c \in Nat /\ kind \in Kinds
    BY NewIdsNat DEF TypeOK
  <2>3. DOMAIN classes' \subseteq Nat /\ \A i \in DOMAIN classes' : classes'[i] \in Kinds
    BY <2>1, <2>2, SetClassTypes DEF TypeOK
  <2> QED BY <1>22, <2>1, <2>3 DEF CreateDeviceClass, Touch, TypeOK, secrets, accounts
<1>23. CASE DeleteDeviceClass
  <2>1. PICK c \in DOMAIN classes : classes' = Remove(classes, c) /\ Touch({classes[c]})
    BY <1>23 DEF DeleteDeviceClass
  <2> QED BY <1>23, <2>1 DEF DeleteDeviceClass, Touch, Remove, TypeOK, secrets, accounts
<1>24. ASSUME NEW r \in Requests, LoadDeviceClass(r) PROVE TypeOK'
  <2>1. PICK c \in DOMAIN classes, kind \in ClassForms :
          req' = [req EXCEPT ![r] = [table |-> "classes", id |-> c, row |-> kind]]
    BY <1>24 DEF LoadDeviceClass
  <2>2. [table |-> "classes", id |-> c, row |-> kind] \in Updates
    BY DEF Updates, TypeOK
  <2> QED BY <1>24, <2>1, <2>2 DEF LoadDeviceClass, TypeOK, secrets, tables, kinds, accounts
<1>25. ASSUME NEW r \in Requests, SaveDeviceClass(r) PROVE TypeOK'
  <2>1. req[r].id \in Nat /\ req[r].row \in Kinds
    BY <1>25 DEF SaveDeviceClass, TypeOK, Updates
  <2>2. DOMAIN classes' \subseteq Nat /\ \A i \in DOMAIN classes' : classes'[i] \in Kinds
    BY <1>25, <2>1, SetClassTypes DEF SaveDeviceClass, TypeOK
  <2> QED BY <1>25, <2>2 DEF SaveDeviceClass, Touch, TypeOK, secrets, accounts
<1>21. CASE UNCHANGED vars
  BY <1>21 DEF vars, TypeOK, secrets, tables, kinds, accounts
<1> QED
  BY <1>1, <1>2, <1>3, <1>4, <1>5, <1>6, <1>7, <1>8, <1>9, <1>10, <1>11, <1>12, <1>13, <1>14,
     <1>15, <1>16, <1>17, <1>18, <1>19, <1>20, <1>21, <1>22, <1>23, <1>24, <1>25 DEF Next, Boot, Serve

\* Every variable keeps its type: in particular a stored password is encrypted
\* once, and hashed at least in one of the ways HashAndSalt and its callers do.
THEOREM TypeCorrect == Spec => []TypeOK
<1> QED BY TypeInit, TypeNext, PTL DEF Spec

-----------------------------------------------------------------------------
(* Passwords of groups. *)

Readable(c) == c.key = secret /\ verifyPassword(c.sealed)

\* What a password is encrypted with is in the file: the process read it there,
\* and a file that is there is not written again.
KeyInv ==
  /\ pc = "generate" => secret = Blank
  /\ pc \notin {"off", "secret", "generate"} => key = secret
  /\ \A g \in DOMAIN groups : Readable(groups[g])
  /\ \A r \in Requests : req[r] # None /\ req[r].table = "groups" => Readable(req[r].row)

\* Before there is a key, nothing was encrypted.
LEMMA NoKeyNoGroup ==
  ASSUME TypeOK, KeyInv, secret \notin Nat
  PROVE  /\ DOMAIN groups = {}
         /\ \A r \in Requests : req[r] # None => req[r].table # "groups"
<1>1. DOMAIN groups = {}
  BY DEF TypeOK, KeyInv, Readable, Ciphers
<1>2. ASSUME NEW r \in Requests, req[r] # None, req[r].table = "groups" PROVE FALSE
  BY <1>2 DEF TypeOK, KeyInv, Readable, Ciphers, Updates
<1> QED BY <1>1, <1>2

LEMMA KeyInit == Init => KeyInv
<1>1. DOMAIN Empty = {}
  BY DEF Empty
<1> QED BY <1>1 DEF Init, KeyInv

LEMMA KeyNext == TypeOK /\ KeyInv /\ [Next]_vars => KeyInv'
<1> SUFFICES ASSUME TypeOK, KeyInv, [Next]_vars PROVE KeyInv'
  OBVIOUS
<1>1. CASE FindSecret
  <2>1. CASE secret = None
    <3>1. secret \notin Nat
      BY <2>1
    <3> QED BY <1>1, <2>1, <3>1, NoKeyNoGroup DEF FindSecret, KeyInv, tables
  <2>2. CASE secret # None
    BY <1>1, <2>2 DEF FindSecret, KeyInv, Readable, tables
  <2> QED BY <2>1, <2>2
<1>2. CASE WriteSecret
  <2>1. secret \notin Nat
    BY <1>2 DEF WriteSecret, KeyInv
  <2> QED BY <1>2, <2>1, NoKeyNoGroup DEF WriteSecret, KeyInv, tables
<1>3. CASE Start \/ Connect \/ AutoMigrate \/ CreateBuiltin \/ CreateAdmin \/ FindCertificate
           \/ RunTLS \/ UNCHANGED vars
  BY <1>3 DEF KeyInv, Readable, Start, Connect, AutoMigrate, CreateBuiltin, AfterClass, CreateAdmin,
              FindCertificate, RunTLS, vars, secrets, tables, DeviceClasses
<1>4. ASSUME NEW f \in Files, CreateFile(f) \/ WriteFile(f) PROVE KeyInv'
  <2>1. After[f] \notin {"off", "secret", "generate"} /\ f \notin {"off", "secret", "generate"}
    BY DEF After, Files
  <2> QED BY <1>4, <2>1 DEF KeyInv, Readable, CreateFile, WriteFile, secrets, tables
<1>5. CASE CreateUser \/ DeleteUser
  BY <1>5 DEF KeyInv, Readable, CreateUser, DeleteUser, secrets
<1>6. CASE CreateGroup
  <2>1. PICK g \in NewIds(groups), p \in GroupForms :
          verifyPassword(p) /\ groups' = Put(groups, g, Encrypt(p, key))
    BY <1>6 DEF CreateGroup
  <2>2. Readable(Encrypt(p, key))
    BY <1>6, <2>1 DEF CreateGroup, KeyInv, Readable, Encrypt
  <2> QED BY <1>6, <2>1, <2>2 DEF CreateGroup, KeyInv, Readable, Put, secrets
<1>7. CASE DeleteGroup
  BY <1>7 DEF DeleteGroup, KeyInv, Readable, Remove, secrets
<1>8. ASSUME NEW r \in Requests, LoadUser(r) PROVE KeyInv'
  BY <1>8 DEF LoadUser, KeyInv, Readable, TypeOK, secrets, tables
<1>9. ASSUME NEW r \in Requests, SaveUser(r) PROVE KeyInv'
  BY <1>9 DEF SaveUser, KeyInv, Readable, TypeOK, secrets
<1>10. ASSUME NEW r \in Requests, LoadGroup(r) PROVE KeyInv'
  <2>1. PICK g \in DOMAIN groups, p \in GroupForms : \E c \in Updated(groups[g], p) :
          req' = [req EXCEPT ![r] = [table |-> "groups", id |-> g, row |-> c]]
    BY <1>10 DEF LoadGroup
  <2>2. \A c \in Updated(groups[g], p) : Readable(c)
    BY <1>10 DEF LoadGroup, KeyInv, Updated, Readable, Encrypt
  <2>3. PICK c \in Updated(groups[g], p) :
          req' = [req EXCEPT ![r] = [table |-> "groups", id |-> g, row |-> c]]
    BY <2>1
  <2> QED BY <1>10, <2>2, <2>3 DEF LoadGroup, KeyInv, Readable, TypeOK, secrets, tables
<1>11. ASSUME NEW r \in Requests, SaveGroup(r) PROVE KeyInv'
  <2>1. Readable(req[r].row)
    BY <1>11 DEF SaveGroup, KeyInv
  <2> QED BY <1>11, <2>1 DEF SaveGroup, KeyInv, Readable, Put, TypeOK, secrets
<1>12. CASE Crash
  BY <1>12 DEF Crash, KeyInv, Readable, tables
<1>13. CASE CreateDeviceClass \/ DeleteDeviceClass
  BY <1>13 DEF CreateDeviceClass, DeleteDeviceClass, KeyInv, Readable, secrets
<1>14. ASSUME NEW r \in Requests, LoadDeviceClass(r) PROVE KeyInv'
  BY <1>14 DEF LoadDeviceClass, KeyInv, Readable, TypeOK, secrets, tables
<1>15. ASSUME NEW r \in Requests, SaveDeviceClass(r) PROVE KeyInv'
  BY <1>15 DEF SaveDeviceClass, KeyInv, Readable, TypeOK, secrets
<1> QED
  BY <1>1, <1>2, <1>3, <1>4, <1>5, <1>6, <1>7, <1>8, <1>9, <1>10, <1>11, <1>12, <1>13, <1>14, <1>15
     DEF Next, Boot, Serve

\* Passwords of groups can be read with the key of the running process.
THEOREM GroupPasswordsReadable == Spec => []PasswordsReadable
<1>1. ASSUME TypeOK, KeyInv PROVE PasswordsReadable
  <2> SUFFICES ASSUME pc = "serving", NEW g \in DOMAIN groups
               PROVE  \E p \in Decrypt(groups[g], key) : p \in GroupForms /\ verifyPassword(p)
    BY DEF PasswordsReadable
  <2>1. groups[g] \in Ciphers /\ groups[g].key = key /\ verifyPassword(groups[g].sealed)
    BY <1>1 DEF TypeOK, KeyInv, Readable
  <2>2. groups[g].sealed \in Decrypt(groups[g], key)
    BY <2>1 DEF Decrypt, Usable, Ciphers
  <2> QED BY <2>1, <2>2 DEF Ciphers
<1> QED BY <1>1, TypeInit, TypeNext, KeyInit, KeyNext, PTL DEF Spec

-----------------------------------------------------------------------------
(* Passwords of users. *)

\* What is stored of the password that was set last.
Stored(h, p) == IF p = NoPassword THEN h.times = 2 \/ h.text = NoPassword ELSE h = HashAndSalt(p)

HashInv ==
  /\ \A u \in DOMAIN users : Stored(users[u].hash, given[u])
  /\ \A r \in Requests : req[r] # None /\ req[r].table = "users"
                           => Stored(req[r].row.hash, req[r].given)

\* HashAndSalt and what UpdateUser makes of an empty form.
LEMMA StoredFresh ==
  /\ \A p : Stored(HashAndSalt(p), p)
  /\ \A h \in Hashes : Stored(HashAgain(h), NoPassword)
<1>1. HashAndSalt(NoPassword).text = NoPassword
  BY DEF HashAndSalt, NoHash
<1>2. \A h \in Hashes : [h EXCEPT !.times = 2].times = 2
  BY DEF Hashes
<1> QED BY <1>1, <1>2 DEF Stored, HashAgain

\* Such a hash compares to the passwords that begin as that one, if it has a
\* comparable one.
LEMMA StoredCompares ==
  ASSUME NEW h \in Hashes, NEW p \in UserForms \cup {Default}, Stored(h, p),
         NEW q \in UserForms \cup {Default}
  PROVE  IF p = NoPassword
         THEN ComparePasswords(h, q) => q = NoPassword
         ELSE ComparePasswords(h, q) <=> p.length <= 72 /\ q.first = p.first
<1>1. p \in Passwords /\ q \in Passwords /\ p.length \in Nat
  BY DEF Passwords
<1>2. CASE p = NoPassword
  <2>1. ComparePasswords(h, q) => q.first = NoPassword.first
    BY <1>2 DEF Stored, ComparePasswords, NoPassword
  <2>2. q.first = NoPassword.first => q = NoPassword
    <3>1. NoPassword.length = 0
      BY DEF NoPassword
    <3>2. \A r \in UserForms \cup {Default} :
            r.first = NoPassword.first => r = NoPassword \/ NoPassword.length >= 72
      OBVIOUS
    <3> QED BY <3>1, <3>2
  <2> QED BY <1>2, <2>1, <2>2
<1>3. CASE p # NoPassword /\ p.length > 72
  <2>1. h.times = 0
    BY <1>3 DEF Stored, HashAndSalt, NoHash
  <2> QED BY <1>1, <1>3, <2>1 DEF ComparePasswords
<1>4. CASE p # NoPassword /\ ~(p.length > 72)
  <2>1. h = [text |-> p, times |-> 1]
    BY <1>4 DEF Stored, HashAndSalt
  <2> QED BY <1>1, <1>4, <2>1 DEF ComparePasswords
<1> QED BY <1>2, <1>3, <1>4

LEMMA HashInit == Init => HashInv
<1>1. DOMAIN Empty = {}
  BY DEF Empty
<1> QED BY <1>1 DEF Init, HashInv

\* Setting a user keeps it.
LEMMA SetUserStored ==
  ASSUME TypeOK, HashInv, NEW u, NEW row, NEW p, Stored(row.hash, p), SetUser(u, row, p)
  PROVE  \A v \in DOMAIN users' : Stored(users'[v].hash, given'[v])
  BY DEF TypeOK, HashInv, SetUser, Put

LEMMA HashNext == TypeOK /\ HashInv /\ [Next]_vars => HashInv'
<1> SUFFICES ASSUME TypeOK, HashInv, [Next]_vars PROVE HashInv'
  OBVIOUS
<1>1. CASE Start \/ FindSecret \/ WriteSecret \/ Connect \/ AutoMigrate \/ CreateBuiltin
           \/ FindCertificate \/ RunTLS \/ UNCHANGED vars
  BY <1>1 DEF HashInv, Start, FindSecret, WriteSecret, Connect, AutoMigrate, CreateBuiltin,
              FindCertificate, RunTLS, vars, tables, accounts
<1>2. ASSUME NEW f \in Files, CreateFile(f) \/ WriteFile(f) PROVE HashInv'
  BY <1>2 DEF HashInv, CreateFile, WriteFile, tables, accounts
<1>3. CASE CreateAdmin
  <2>1. CASE UNCHANGED accounts
    BY <1>3, <2>1 DEF CreateAdmin, HashInv, accounts
  <2>2. CASE \E u \in NewIds(users) :
               SetUser(u, [name |-> Admin, hash |-> HashAndSalt(Default)], Default)
    <3>1. \A v \in DOMAIN users' : Stored(users'[v].hash, given'[v])
      BY <2>2, StoredFresh, SetUserStored
    <3> QED BY <1>3, <3>1 DEF CreateAdmin, HashInv
  <2> QED BY <1>3, <2>1, <2>2 DEF CreateAdmin
<1>4. CASE CreateUser
  <2>1. \A v \in DOMAIN users' : Stored(users'[v].hash, given'[v])
    BY <1>4, StoredFresh, SetUserStored DEF CreateUser
  <2> QED BY <1>4, <2>1 DEF CreateUser, HashInv
<1>5. CASE DeleteUser
  BY <1>5 DEF DeleteUser, HashInv, Remove, TypeOK
<1>6. CASE CreateGroup \/ DeleteGroup
  BY <1>6 DEF CreateGroup, DeleteGroup, HashInv, accounts
<1>7. ASSUME NEW r \in Requests, LoadUser(r) PROVE HashInv'
  <2>1. PICK u \in DOMAIN users, name \in Usernames, p \in UserForms :
          LET hash == IF p = NoPassword THEN HashAgain(users[u].hash) ELSE HashAndSalt(p) IN
          req' = [req EXCEPT ![r] = [table |-> "users", id |-> u, given |-> p,
                                     row |-> [name |-> name, hash |-> hash]]]
    BY <1>7 DEF LoadUser
  <2> DEFINE hash == IF p = NoPassword THEN HashAgain(users[u].hash) ELSE HashAndSalt(p)
  <2>2. Stored(hash, p)
    BY StoredFresh DEF TypeOK, Users
  <2> HIDE DEF hash
  <2>3. req' = [req EXCEPT ![r] = [table |-> "users", id |-> u, given |-> p,
                                   row |-> [name |-> name, hash |-> hash]]]
    BY <2>1 DEF hash
  <2>4. ASSUME NEW s \in Requests, req'[s] # None, req'[s].table = "users"
        PROVE  Stored(req'[s].row.hash, req'[s].given)
    BY <2>2, <2>3, <2>4 DEF HashInv, TypeOK
  <2> QED BY <1>7, <2>4 DEF LoadUser, HashInv, tables, accounts
<1>8. ASSUME NEW r \in Requests, SaveUser(r) PROVE HashInv'
  <2>1. \A v \in DOMAIN users' : Stored(users'[v].hash, given'[v])
    BY <1>8, SetUserStored DEF SaveUser, HashInv
  <2> QED BY <1>8, <2>1 DEF SaveUser, HashInv, TypeOK
<1>9. ASSUME NEW r \in Requests, LoadGroup(r) \/ SaveGroup(r) PROVE HashInv'
  <2>1. CASE SaveGroup(r)
    BY <1>9, <2>1 DEF SaveGroup, HashInv, TypeOK, accounts
  <2>2. CASE LoadGroup(r)
    <3>1. PICK g \in DOMAIN groups, p \in GroupForms : \E c \in Updated(groups[g], p) :
            req' = [req EXCEPT ![r] = [table |-> "groups", id |-> g, row |-> c]]
      BY <2>2 DEF LoadGroup
    <3>2. PICK c \in Updated(groups[g], p) :
            req' = [req EXCEPT ![r] = [table |-> "groups", id |-> g, row |-> c]]
      BY <3>1
    <3> QED BY <2>2, <3>2 DEF LoadGroup, HashInv, TypeOK, tables, accounts
  <2> QED BY <1>9, <2>1, <2>2
<1>10. CASE Crash
  BY <1>10 DEF Crash, HashInv, tables, accounts
<1>11. CASE CreateDeviceClass \/ DeleteDeviceClass
  BY <1>11 DEF CreateDeviceClass, DeleteDeviceClass, HashInv, accounts
<1>12. ASSUME NEW r \in Requests, LoadDeviceClass(r) PROVE HashInv'
  BY <1>12 DEF LoadDeviceClass, HashInv, TypeOK, tables, accounts
<1>13. ASSUME NEW r \in Requests, SaveDeviceClass(r) PROVE HashInv'
  BY <1>13 DEF SaveDeviceClass, HashInv, TypeOK, accounts
<1> QED
  BY <1>1, <1>2, <1>3, <1>4, <1>5, <1>6, <1>7, <1>8, <1>9, <1>10, <1>11, <1>12, <1>13 DEF Next, Boot, Serve

\* Users log in with the password last set for them, as far as bcrypt reads it,
\* and with none once a form came without one.
THEOREM UsersLogIn == Spec => []LoginWorks
<1>1. ASSUME TypeOK, HashInv PROVE LoginWorks
  <2> SUFFICES ASSUME NEW name \in Usernames, NEW p \in UserForms \cup {Default}
               PROVE  /\ Login(name, p) => FirstOf(name) # {}
                      /\ \A u \in FirstOf(name) :
                           IF given[u] = NoPassword
                           THEN Login(name, p) => p = NoPassword
                           ELSE Login(name, p) <=>
                                  given[u].length <= 72 /\ p.first = given[u].first
    BY DEF LoginWorks
  <2>1. Login(name, p) <=> \E u \in FirstOf(name) : ComparePasswords(users[u].hash, p)
    BY DEF Login, FirstOf
  <2>2. \A u, v \in FirstOf(name) : u = v
    BY <1>1 DEF FirstOf, TypeOK
  <2>3. ASSUME NEW u \in FirstOf(name)
        PROVE  IF given[u] = NoPassword
               THEN ComparePasswords(users[u].hash, p) => p = NoPassword
               ELSE ComparePasswords(users[u].hash, p) <=>
                      given[u].length <= 72 /\ p.first = given[u].first
    <3>1. /\ u \in DOMAIN users /\ users[u].hash \in Hashes
          /\ given[u] \in UserForms \cup {Default} /\ Stored(users[u].hash, given[u])
      BY <1>1 DEF FirstOf, TypeOK, Users, HashInv
    <3> QED BY <3>1, StoredCompares
  <2> QED BY <2>1, <2>2, <2>3
<1> QED BY <1>1, TypeInit, TypeNext, HashInit, HashNext, PTL DEF Spec

-----------------------------------------------------------------------------
(* What a server has. *)

\* The certificate of the server is of the authority in ca.crt once it is
\* written: only a start that does not find the file writes any of the four.
CertInv ==
  /\ cert["server.crt"] \in Nat => /\ cert["ca.crt"] = cert["server.crt"]
                                   /\ cert["ca.key"] = cert["server.crt"]
  /\ pc \in {"ca.crt", "ca.key"} => cert["server.crt"] = None
  /\ pc \in {"ca.key", "server.crt"} => cert["ca.crt"] = crashes
  /\ pc = "server.crt" => cert["ca.key"] = crashes /\ cert["server.crt"] \in {None, Blank}
  /\ pc = "serving" => cert["server.crt"] \in Nat /\ cert["server.key"] = cert["server.crt"]

\* main goes on only when what came before is in the database.
Migrated == {"admin", "certificate", "listen", "serving"} \cup DeviceClasses \cup Files

Seeded == Migrated \ DeviceClasses

\* Past the making of the device class.
Made == [kind \in DeviceClasses |->
           IF kind = "PXE-UEFI_x64" THEN Migrated \ {"PXE-UEFI_x64"} ELSE Seeded]

One(S) == \E c \in S : S = {c}

\* A class that administrators left alone has one row at most, and one when it
\* was made; before the process serves nobody edits.
TableInv ==
  /\ pc \in Migrated => database = Tables
  /\ \A kind \in DeviceClasses :
       /\ kind \notin touched => Rows(kind) = {} \/ One(Rows(kind))
       /\ pc \in Made[kind] /\ (kind \notin touched \/ pc # "serving") => Rows(kind) # {}
  /\ \A r \in Requests : req[r] # None => pc = "serving"

LEMMA CompleteInit == Init => CertInv /\ TableInv
<1>1. Init => DOMAIN classes = {}
  BY DEF Init, Empty
<1>2. Init => \A kind : Rows(kind) = {}
  BY <1>1 DEF Rows
<1> QED BY <1>2 DEF Init, CertInv, TableInv, Made, Files, DeviceClasses, Migrated, Seeded

\* The steps that leave cert, and stay out of Files and of serving.
LEMMA CertNext == TypeOK /\ CertInv /\ [Next]_vars => CertInv'
<1> SUFFICES ASSUME TypeOK, CertInv, [Next]_vars PROVE CertInv'
  OBVIOUS
<1> USE DEF Files
<1>1. CASE Start \/ FindSecret \/ WriteSecret \/ Connect \/ AutoMigrate \/ CreateBuiltin
           \/ CreateAdmin \/ FindCertificate
  BY <1>1 DEF CertInv, Start, FindSecret, WriteSecret, Connect, AutoMigrate, CreateBuiltin,
              AfterClass, CreateAdmin, FindCertificate
<1>2. CASE RunTLS
  BY <1>2 DEF CertInv, RunTLS, Pair
<1>3. ASSUME NEW f \in Files, CreateFile(f) PROVE CertInv'
  BY <1>3 DEF CertInv, CreateFile, TypeOK
<1>4. ASSUME NEW f \in Files, WriteFile(f) PROVE CertInv'
  <2>1. cert' = [cert EXCEPT ![f] = crashes] /\ crashes' = crashes /\ crashes \in Nat /\ pc = f
    BY <1>4 DEF WriteFile, Random, TypeOK
  <2>2. CASE f = "ca.crt"
    BY <1>4, <2>1, <2>2 DEF CertInv, WriteFile, TypeOK, After
  <2>3. CASE f = "ca.key"
    BY <1>4, <2>1, <2>3 DEF CertInv, WriteFile, TypeOK, After
  <2>4. CASE f = "server.crt"
    BY <1>4, <2>1, <2>4 DEF CertInv, WriteFile, TypeOK, After
  <2>5. CASE f = "server.key"
    BY <1>4, <2>1, <2>5 DEF CertInv, WriteFile, TypeOK, After
  <2> QED BY <2>2, <2>3, <2>4, <2>5
<1>5. CASE CreateUser \/ DeleteUser \/ CreateGroup \/ DeleteGroup \/ UNCHANGED vars
  BY <1>5 DEF CertInv, CreateUser, DeleteUser, CreateGroup, DeleteGroup, vars
<1>6. ASSUME NEW r \in Requests, LoadUser(r) \/ SaveUser(r) \/ LoadGroup(r) \/ SaveGroup(r)
      PROVE  CertInv'
  BY <1>6 DEF CertInv, LoadUser, SaveUser, LoadGroup, SaveGroup
<1>7. CASE Crash
  BY <1>7 DEF CertInv, Crash
<1>8. CASE CreateDeviceClass \/ DeleteDeviceClass
  BY <1>8 DEF CertInv, CreateDeviceClass, DeleteDeviceClass
<1>9. ASSUME NEW r \in Requests, LoadDeviceClass(r) \/ SaveDeviceClass(r) PROVE CertInv'
  BY <1>9 DEF CertInv, LoadDeviceClass, SaveDeviceClass
<1> QED BY <1>1, <1>2, <1>3, <1>4, <1>5, <1>6, <1>7, <1>8, <1>9 DEF Next, Boot, Serve

\* What setting or removing a row does to the rows of a kind.
LEMMA PutRows ==
  ASSUME NEW c, NEW kind, classes' = Put(classes, c, kind), NEW k
  PROVE  Rows(k)' = IF k = kind THEN Rows(k) \cup {c} ELSE Rows(k) \ {c}
  BY DEF Rows, Put

LEMMA RemoveRows ==
  ASSUME NEW c, classes' = Remove(classes, c), NEW k
  PROVE  Rows(k)' = Rows(k) \ {c}
  BY DEF Rows, Remove

LEMMA TableNext == TypeOK /\ TableInv /\ [Next]_vars => TableInv'
<1> SUFFICES ASSUME TypeOK, TableInv, [Next]_vars PROVE TableInv'
  OBVIOUS
<1> USE DEF DeviceClasses, Files, Migrated, Seeded, Made
<1>a. UNCHANGED classes => \A k : Rows(k)' = Rows(k)
  BY DEF Rows
<1>1. CASE Start \/ FindSecret \/ WriteSecret \/ Connect \/ CreateAdmin \/ FindCertificate \/ RunTLS
  BY <1>1, <1>a DEF TableInv, Start, FindSecret, WriteSecret, Connect, CreateAdmin, FindCertificate,
                    RunTLS, tables, kinds
<1>2. CASE AutoMigrate
  BY <1>2, <1>a DEF TableInv, AutoMigrate, TypeOK, Tables, kinds
<1>3. CASE CreateBuiltin
  <2>1. PICK b \in DeviceClasses : b = pc
    BY <1>3 DEF CreateBuiltin
  <2>2. /\ \A k \in DeviceClasses \ {b} : Rows(k)' = Rows(k)
        /\ IF Rows(b) # {} THEN Rows(b)' = Rows(b) ELSE One(Rows(b)')
    <3>1. CASE Rows(b) # {}
      BY <1>3, <1>a, <2>1, <3>1 DEF CreateBuiltin
    <3>2. CASE Rows(b) = {}
      <4>1. PICK c \in NewIds(classes) : classes' = Put(classes, c, b)
        BY <1>3, <2>1, <3>2 DEF CreateBuiltin
      <4>2. c \notin DOMAIN classes
        BY <4>1 DEF NewIds, TypeOK
      <4>3. \A k : Rows(k)' = IF k = b THEN Rows(k) \cup {c} ELSE Rows(k) \ {c}
        BY <4>1, PutRows
      <4>4. \A k : c \notin Rows(k)
        BY <4>2 DEF Rows
      <4>5. Rows(b)' = {c}
        BY <3>2, <4>3
      <4> QED BY <3>2, <4>3, <4>4, <4>5 DEF One
    <3> QED BY <3>1, <3>2
  <2>3. Rows(b)' # {}
    BY <2>2 DEF One
  <2>4. ASSUME NEW kind \in DeviceClasses, kind \notin touched
        PROVE  Rows(kind)' = {} \/ One(Rows(kind)')
    <3>1. CASE kind = b
      BY <2>2, <2>4, <3>1 DEF TableInv
    <3>2. CASE kind # b
      BY <2>2, <2>4, <3>2 DEF TableInv
    <3> QED BY <3>1, <3>2
  <2>5. ASSUME NEW kind \in DeviceClasses, pc' \in Made[kind] PROVE Rows(kind)' # {}
    <3>1. kind = b \/ pc \in Made[kind]
      BY <1>3, <2>1, <2>5 DEF CreateBuiltin, AfterClass
    <3>2. CASE kind = b
      BY <2>3, <3>2
    <3>3. CASE kind # b
      BY <1>3, <2>2, <3>1, <3>3 DEF TableInv, CreateBuiltin
    <3> QED BY <3>2, <3>3
  <2> HIDE DEF Made
  <2>6. \A r \in Requests : req'[r] = None
    BY <1>3 DEF TableInv, CreateBuiltin
  <2>7. pc' \in Migrated => database' = Tables
    BY <1>3 DEF TableInv, CreateBuiltin
  <2>8. touched' = touched
    BY <1>3 DEF CreateBuiltin
  <2> QED BY <2>4, <2>5, <2>6, <2>7, <2>8 DEF TableInv
<1>4. ASSUME NEW f \in Files, CreateFile(f) \/ WriteFile(f) PROVE TableInv'
  BY <1>4, <1>a DEF TableInv, CreateFile, WriteFile, After, tables, kinds
<1>5. CASE CreateUser \/ DeleteUser \/ CreateGroup \/ DeleteGroup \/ UNCHANGED vars
  BY <1>5, <1>a DEF TableInv, CreateUser, DeleteUser, CreateGroup, DeleteGroup, vars, tables, kinds
<1>6. ASSUME NEW r \in Requests, LoadUser(r) \/ SaveUser(r) \/ LoadGroup(r) \/ SaveGroup(r)
                                 \/ LoadDeviceClass(r)
      PROVE  TableInv'
  BY <1>6, <1>a DEF TableInv, LoadUser, SaveUser, LoadGroup, SaveGroup, LoadDeviceClass, tables,
                    kinds, TypeOK
<1>7. CASE Crash
  BY <1>7, <1>a DEF TableInv, Crash, tables, kinds
<1>8. CASE CreateDeviceClass
  <2>1. PICK c \in NewIds(classes), kind \in ClassForms :
          classes' = Put(classes, c, kind) /\ Touch({kind})
    BY <1>8 DEF CreateDeviceClass
  <2>2. c \notin DOMAIN classes
    BY <2>1 DEF NewIds, TypeOK
  <2>3. \A k : c \notin Rows(k)
    BY <2>2 DEF Rows
  <2>4. \A k : Rows(k)' = IF k = kind THEN Rows(k) \cup {c} ELSE Rows(k) \ {c}
    BY <2>1, PutRows
  <2>5. \A k : k # kind => Rows(k)' = Rows(k)
    BY <2>3, <2>4
  <2>6. \A k \in DeviceClasses \ touched' : k \notin touched /\ k # kind
    BY <2>1 DEF Touch
  <2> QED BY <1>8, <2>5, <2>6 DEF TableInv, CreateDeviceClass, One
<1>9. CASE DeleteDeviceClass
  <2>1. PICK c \in DOMAIN classes : classes' = Remove(classes, c) /\ Touch({classes[c]})
    BY <1>9 DEF DeleteDeviceClass
  <2>2. \A k : Rows(k)' = Rows(k) \ {c}
    BY <2>1, RemoveRows
  <2>3. \A k \in DeviceClasses \ touched' : k \notin touched /\ Rows(k)' = Rows(k)
    BY <2>1, <2>2 DEF Touch, Rows
  <2> QED BY <1>9, <2>3 DEF TableInv, DeleteDeviceClass, One
<1>10. ASSUME NEW r \in Requests, SaveDeviceClass(r) PROVE TableInv'
  <2> DEFINE c == req[r].id  kind == req[r].row
  <2>1. /\ classes' = Put(classes, c, kind)
        /\ Touch({kind} \cup {classes[i] : i \in DOMAIN classes \cap {c}})
        /\ req[r] # None /\ pc' = pc /\ database' = database
        /\ req' = [req EXCEPT ![r] = None]
    BY <1>10 DEF SaveDeviceClass
  <2> HIDE DEF c, kind
  <2>2. \A k : Rows(k)' = IF k = kind THEN Rows(k) \cup {c} ELSE Rows(k) \ {c}
    BY <2>1, PutRows
  <2>3. \A k \in DeviceClasses \ touched' : k \notin touched /\ Rows(k)' = Rows(k)
    BY <2>1, <2>2 DEF Touch, Rows
  <2>4. pc = "serving" /\ \A s \in Requests : req'[s] # None => req[s] # None
    BY <2>1 DEF TableInv, TypeOK
  <2> QED BY <2>1, <2>3, <2>4 DEF TableInv, One
<1> QED BY <1>1, <1>2, <1>3, <1>4, <1>5, <1>6, <1>7, <1>8, <1>9, <1>10 DEF Next, Boot, Serve

\* However often starts were cut off and whatever administrators edited, the
\* built-in classes are there before the process serves; then it has its tables,
\* one row of each class that was left alone, and one authority.
THEOREM ServersComplete == Spec => []ServesComplete
<1>1. ASSUME CertInv, TableInv PROVE ServesComplete
  BY <1>1 DEF CertInv, TableInv, ServesComplete, One, Made, Rows, Files, DeviceClasses, Migrated, Seeded
<1> QED BY <1>1, TypeInit, TypeNext, CompleteInit, CertNext, TableNext, PTL DEF Spec
=============================================================================
