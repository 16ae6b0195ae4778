-------------------------------- MODULE Startup --------------------------------
(***************************************************************************)
(* The process from its start to its crash: what main makes of the         *)
(* directories secret/, database/ and cert/ (main.go, secrets/, db/,       *)
(* crypto/), and what has to outlive it: the passwords of the users        *)
(* (api/users.go, api/login.go) and of the groups (api/groups.go), and the *)
(* built-in device classes (api/device_classes.go).                        *)
(*                                                                         *)
(* Creating a file and writing it are two steps.  A request that reads a   *)
(* row and saves it later is two steps as well.                            *)
(***************************************************************************)
EXTENDS Integers, FiniteSets

CONSTANTS
  None,         \* no file; no user under edit
  Blank,        \* a file that was created but not written to its end
  Usernames,    \* the names of users
  Admin,        \* the name "admin"
  UserForms,    \* the passwords in the forms of users
  GroupForms,   \* the passwords in the forms of groups
  ClassForms,   \* what the forms of device classes name
  Default,      \* the password "VMware1!"
  Requests,     \* bound: the updates under way at one time
  MaxUsers,     \* bound: the largest id an administrator's new user gets
  MaxGroups,    \* bound: the largest id of a group
  MaxClasses,   \* bound: the largest id an administrator's new class gets
  MaxCrashes    \* bound: the crashes of the process

Classes == {"number", "upper", "special", "lower"}

\* first stands for the first 72 bytes, all that bcrypt reads.
Passwords == [classes : SUBSET Classes, length : Nat, first : Nat]

\* A form may come without a password.
NoPassword == [classes |-> {}, length |-> 0, first |-> 0]

DeviceClasses == {"PXE-UEFI_x64", "PXE-UEFI_ARM64"}

\* A row of device_classes has the name and the vendor class of a class of main,
\* or other ones.
Kinds == DeviceClasses \cup {"other"}

ASSUME FileAssumption == {None, Blank} \cap Int = {} /\ None # Blank

ASSUME PasswordAssumption ==
  /\ UserForms \cup GroupForms \cup {Default} \subseteq Passwords
  /\ Default.length \in 1 .. 72
  /\ \A p, q \in UserForms \cup GroupForms \cup {Default, NoPassword} :
       p.first = q.first => p = q \/ (p.length >= 72 /\ q.length >= 72)

ASSUME ClassAssumption == ClassForms \subseteq Kinds

ASSUME BoundAssumption ==
  Admin \in Usernames /\ {MaxUsers, MaxGroups, MaxClasses, MaxCrashes} \subseteq Nat

VARIABLES
  pc,        \* what main is about to do; off: there is no process
  key,       \* the key the process read
  secret,    \* secret/secret.key
  database,  \* the number of tables in the database file, -1 without it
  classes,   \* the table device_classes
  touched,   \* history: the classes of main that administrators made, edited or deleted
  cert,      \* the files in cert/: which pair of keys each is about
  users,     \* the table users
  given,     \* history: the last password set for each user
  groups,    \* the column password of the table groups
  req,       \* the updates under way
  crashes    \* counts the crashes

secrets == <<key, secret>>

accounts == <<users, given>>

kinds == <<classes, touched>>

tables == <<database, kinds, accounts, groups>>

vars == <<pc, secrets, tables, cert, req, crashes>>

(***************************************************************************)
(* Passwords.                                                              *)
(***************************************************************************)
verifyPassword(s) == Cardinality(s.classes) >= 3 /\ s.length >= 7

\* Strings that HashAndSalt makes: bcrypt refuses more than 72 bytes, and the
\* error is only logged.
NoHash == [text |-> NoPassword, times |-> 0]

HashAndSalt(p) == IF p.length > 72 THEN NoHash ELSE [text |-> p, times |-> 1]

\* The same, of what was made before.
HashAgain(h) == IF h = NoHash THEN HashAndSalt(NoPassword) ELSE [h EXCEPT !.times = 2]

\* Comparing has no bound on the length.  Passwords that hold a NUL are left
\* aside.
ComparePasswords(h, p) == h.times = 1 /\ h.text.first = p.first

\* AES with an empty key panics, which ends the request.
Usable(k) == k \in Nat

Encrypt(text, k) == [sealed |-> text, key |-> k]

\* What Decrypt returns; without a value where it panics.
Decrypt(c, k) == {text \in {c.sealed} : Usable(k) /\ c.key = k}

Login(name, p) ==
  \E u \in DOMAIN users :
    /\ users[u].name = name /\ \A v \in DOMAIN users : users[v].name = name => u <= v
    /\ ComparePasswords(users[u].hash, p)

(***************************************************************************)
(* Tables, as in Inventory.                                                *)
(***************************************************************************)
Empty == [id \in {} |-> 0]

Put(table, id, row) == [i \in DOMAIN table \cup {id} |-> IF i = id THEN row ELSE table[i]]

Remove(table, id) == [i \in DOMAIN table \ {id} |-> table[i]]

NewIds(table) == {i \in {1} \cup {j + 1 : j \in DOMAIN table} : \A j \in DOMAIN table : j < i}

SetUser(u, user, password) == users' = Put(users, u, user) /\ given' = Put(given, u, password)

Tables == 7

Rows(kind) == {c \in DOMAIN classes : classes[c] = kind}

Files == {"ca.crt", "ca.key", "server.crt", "server.key"}

Init ==
  /\ pc = "off" /\ key = None /\ secret = None
  /\ database = -1 /\ classes = Empty /\ touched = {}
  /\ cert = [f \in Files |-> None]
  /\ users = Empty /\ given = Empty /\ groups = Empty
  /\ req = [r \in Requests |-> None] /\ crashes = 0

(***************************************************************************)
(* The steps of main, in their order.  Random is what was never drawn      *)
(* before: between two draws for one file lies a crash.                    *)
(***************************************************************************)
Random == crashes

\* The supervisor of the container starts the process.
Start ==
  /\ pc = "off" /\ pc' = "secret"
  /\ UNCHANGED <<secrets, tables, cert, req, crashes>>

\* Mutant: a key is made at every start.
FindSecretNever ==
  /\ pc = "secret" /\ pc' = "generate" /\ secret' = Blank
  /\ UNCHANGED <<key, tables, cert, req, crashes>>

\* secrets.Init: any file will do.
FindSecret ==
  /\ pc = "secret"
  /\ IF secret = None THEN pc' = "generate" /\ secret' = Blank /\ UNCHANGED key
                      ELSE pc' = "connect" /\ key' = secret /\ UNCHANGED secret
  /\ UNCHANGED <<tables, cert, req, crashes>>

WriteSecret ==
  /\ pc = "generate" /\ pc' = "connect"
  /\ secret' = Random /\ key' = Random
  /\ UNCHANGED <<tables, cert, req, crashes>>

\* db.Connect
Connect ==
  /\ pc = "connect" /\ pc' = "migrate"
  /\ database' = IF database = -1 THEN 0 ELSE database
  /\ UNCHANGED <<secrets, kinds, accounts, groups, cert, req, crashes>>

\* AutoMigrate creates the tables that are missing, one by one.
AutoMigrate ==
  /\ pc = "migrate"
  /\ IF database < Tables THEN database' = database + 1 /\ UNCHANGED pc
                          ELSE pc' = "PXE-UEFI_x64" /\ UNCHANGED database
  /\ UNCHANGED <<secrets, kinds, accounts, groups, cert, req, crashes>>

AfterClass == IF pc = "PXE-UEFI_x64" THEN "PXE-UEFI_ARM64" ELSE "admin"

\* Mutant: Create in place of FirstOrCreate.
CreateAlways ==
  /\ pc \in DeviceClasses /\ pc' = AfterClass
  /\ \E c \in NewIds(classes) : classes' = Put(classes, c, pc)
  /\ UNCHANGED <<secrets, database, touched, accounts, groups, cert, req, crashes>>

\* FirstOrCreate, for x86 and then for ARM, of a row that has both the name and
\* the vendor class.
CreateBuiltin ==
  /\ pc \in DeviceClasses /\ pc' = AfterClass
  /\ IF Rows(pc) # {} THEN UNCHANGED classes
                      ELSE \E c \in NewIds(classes) : classes' = Put(classes, c, pc)
  /\ UNCHANGED <<secrets, database, touched, accounts, groups, cert, req, crashes>>

\* Mutant: Assign in place of Attrs sets the password of a row that is there.
AssignAdmin ==
  /\ pc = "admin" /\ pc' = "certificate"
  /\ LET hash == HashAndSalt(Default)
         admins == {u \in DOMAIN users : users[u].name = Admin} IN
     IF admins # {}
     THEN \E u \in admins : users' = [users EXCEPT ![u].hash = hash] /\ UNCHANGED given
     ELSE \E u \in NewIds(users) : SetUser(u, [name |-> Admin, hash |-> hash], Default)
  /\ UNCHANGED <<secrets, database, kinds, groups, cert, req, crashes>>

\* Attrs fills in a new row, and leaves one that is there.
CreateAdmin ==
  /\ pc = "admin" /\ pc' = "certificate"
  /\ IF \E u \in DOMAIN users : users[u].name = Admin
     THEN UNCHANGED accounts
     ELSE \E u \in NewIds(users) :
            SetUser(u, [name |-> Admin, hash |-> HashAndSalt(Default)], Default)
  /\ UNCHANGED <<secrets, database, kinds, groups, cert, req, crashes>>

\* Mutant: the file of the authority is looked for.
FindAuthority ==
  /\ pc = "certificate"
  /\ pc' = IF cert["ca.crt"] = None THEN "ca.crt" ELSE "listen"
  /\ UNCHANGED <<secrets, tables, cert, req, crashes>>

\* Only this one file is looked for.
FindCertificate ==
  /\ pc = "certificate"
  /\ pc' = IF cert["server.crt"] = None THEN "ca.crt" ELSE "listen"
  /\ UNCHANGED <<secrets, tables, cert, req, crashes>>

After == [f \in Files |-> CASE f = "ca.crt" -> "ca.key" [] f = "ca.key" -> "server.crt"
                            [] f = "server.crt" -> "server.key" [] OTHER -> "listen"]

\* CreateCA, then CreateCert, which finds the pair of the authority just made.
\* One that a crash left is emptied.
CreateFile(f) ==
  /\ pc = f /\ cert[f] # Blank
  /\ cert' = [cert EXCEPT ![f] = Blank]
  /\ UNCHANGED <<pc, secrets, tables, req, crashes>>

WriteFile(f) ==
  /\ pc = f /\ cert[f] = Blank
  /\ cert' = [cert EXCEPT ![f] = Random] /\ pc' = After[f]
  /\ UNCHANGED <<secrets, tables, req, crashes>>

Pair(crt, k) == cert[crt] \in Nat /\ cert[crt] = cert[k]

\* RunTLS returns at once if it cannot load its pair, and main with it.
RunTLS ==
  /\ pc = "listen"
  /\ pc' = IF Pair("server.crt", "server.key") THEN "serving" ELSE "off"
  /\ UNCHANGED <<secrets, tables, cert, req, crashes>>

(***************************************************************************)
(* Requests.                                                               *)
(***************************************************************************)
CreateUser ==
  /\ pc = "serving"
  /\ \E u \in NewIds(users), name \in Usernames, p \in UserForms :
       u <= MaxUsers /\ SetUser(u, [name |-> name, hash |-> HashAndSalt(p)], p)
  /\ UNCHANGED <<pc, secrets, database, kinds, groups, cert, req, crashes>>

\* What is merged is hashed, be it a password or the hash that was there.
LoadUser(r) ==
  /\ pc = "serving" /\ req[r] = None
  /\ \E u \in DOMAIN users, name \in Usernames, p \in UserForms :
       LET hash == IF p = NoPassword THEN HashAgain(users[u].hash) ELSE HashAndSalt(p) IN
       req' = [req EXCEPT ![r] = [table |-> "users", id |-> u, given |-> p,
                                  row |-> [name |-> name, hash |-> hash]]]
  /\ UNCHANGED <<pc, secrets, tables, cert, crashes>>

SaveUser(r) ==
  /\ req[r] # None /\ req[r].table = "users"
  /\ SetUser(req[r].id, req[r].row, req[r].given)
  /\ req' = [req EXCEPT ![r] = None]
  /\ UNCHANGED <<pc, secrets, database, kinds, groups, cert, crashes>>

DeleteUser ==
  /\ pc = "serving"
  /\ \E u \in DOMAIN users : users' = Remove(users, u) /\ given' = Remove(given, u)
  /\ UNCHANGED <<pc, secrets, database, kinds, groups, cert, req, crashes>>

CreateGroup ==
  /\ pc = "serving" /\ Usable(key)
  /\ \E g \in NewIds(groups), p \in GroupForms :
       g <= MaxGroups /\ verifyPassword(p) /\ groups' = Put(groups, g, Encrypt(p, key))
  /\ UNCHANGED <<pc, secrets, database, kinds, accounts, cert, req, crashes>>

\* Mutant: what is merged is encrypted, be it a password or not.
UpdatedAlways(c, p) == {Encrypt(IF p = NoPassword THEN c ELSE p, k) : k \in {key} \cap Nat}

\* groups.go:176 "to avoid re-hashing the password when no new password has been
\* supplied, check if it was supplied".
Updated(c, p) ==
  IF p = NoPassword THEN {c} ELSE {Encrypt(q, key) : q \in {q \in {p} : verifyPassword(q) /\ Usable(key)}}

LoadGroup(r) ==
  /\ pc = "serving" /\ req[r] = None
  /\ \E g \in DOMAIN groups, p \in GroupForms : \E c \in Updated(groups[g], p) :
       req' = [req EXCEPT ![r] = [table |-> "groups", id |-> g, row |-> c]]
  /\ UNCHANGED <<pc, secrets, tables, cert, crashes>>

SaveGroup(r) ==
  /\ req[r] # None /\ req[r].table = "groups"
  /\ groups' = Put(groups, req[r].id, req[r].row)
  /\ req' = [req EXCEPT ![r] = None]
  /\ UNCHANGED <<pc, secrets, database, kinds, accounts, cert, crashes>>

DeleteGroup ==
  /\ pc = "serving"
  /\ \E g \in DOMAIN groups : groups' = Remove(groups, g)
  /\ UNCHANGED <<pc, secrets, database, kinds, accounts, cert, req, crashes>>

Touch(kindsThere) == touched' = touched \cup (kindsThere \cap DeviceClasses)

CreateDeviceClass ==
  /\ pc = "serving"
  /\ \E c \in NewIds(classes), kind \in ClassForms :
       c <= MaxClasses /\ classes' = Put(classes, c, kind) /\ Touch({kind})
  /\ UNCHANGED <<pc, secrets, database, accounts, groups, cert, req, crashes>>

\* A form may change the name, the vendor class or both.
LoadDeviceClass(r) ==
  /\ pc = "serving" /\ req[r] = None
  /\ \E c \in DOMAIN classes, kind \in ClassForms :
       req' = [req EXCEPT ![r] = [table |-> "classes", id |-> c, row |-> kind]]
  /\ UNCHANGED <<pc, secrets, tables, cert, crashes>>

SaveDeviceClass(r) ==
  /\ req[r] # None /\ req[r].table = "classes"
  /\ classes' = Put(classes, req[r].id, req[r].row)
  /\ Touch({req[r].row} \cup {classes[c] : c \in DOMAIN classes \cap {req[r].id}})
  /\ req' = [req EXCEPT ![r] = None]
  /\ UNCHANGED <<pc, secrets, database, accounts, groups, cert, crashes>>

DeleteDeviceClass ==
  /\ pc = "serving"
  /\ \E c \in DOMAIN classes : classes' = Remove(classes, c) /\ Touch({classes[c]})
  /\ UNCHANGED <<pc, secrets, database, accounts, groups, cert, req, crashes>>

(***************************************************************************)
(* The specification.                                                      *)
(***************************************************************************)
Crash ==
  /\ pc # "off" /\ crashes < MaxCrashes /\ crashes' = crashes + 1
  /\ pc' = "off" /\ key' = None /\ req' = [r \in Requests |-> None]
  /\ UNCHANGED <<secret, tables, cert>>

Boot ==
  \/ Start \/ FindSecret \/ WriteSecret \/ Connect \/ AutoMigrate
  \/ CreateBuiltin \/ CreateAdmin \/ FindCertificate \/ RunTLS
  \/ \E f \in Files : CreateFile(f) \/ WriteFile(f)

Serve ==
  \/ CreateUser \/ DeleteUser \/ CreateGroup \/ DeleteGroup
  \/ CreateDeviceClass \/ DeleteDeviceClass
  \/ \E r \in Requests : LoadUser(r) \/ SaveUser(r) \/ LoadGroup(r) \/ SaveGroup(r)
                         \/ LoadDeviceClass(r) \/ SaveDeviceClass(r)

Next == Boot \/ Serve \/ Crash

\* main does not wait, and the supervisor restarts what ended.
Spec == Init /\ [][Next]_vars /\ WF_vars(Boot)

(***************************************************************************)
(* Properties.                                                             *)
(***************************************************************************)
Contents == {None, Blank} \cup 0 .. MaxCrashes

Stages ==
  {"off", "secret", "generate", "connect", "migrate", "admin", "certificate", "listen", "serving"}
    \cup DeviceClasses \cup Files

Hashes == [text : UserForms \cup {Default, NoPassword}, times : 0 .. 2]

Users == [name : Usernames, hash : Hashes]

Ciphers == [sealed : GroupForms, key : Nat]

Updates ==
  [table : {"users"}, id : Nat, given : UserForms, row : Users]
    \cup [table : {"groups"}, id : Nat, row : Ciphers]
    \cup [table : {"classes"}, id : Nat, row : Kinds]

TypeOK ==
  /\ pc \in Stages
  /\ key \in Contents /\ secret \in Contents
  /\ database \in -1 .. Tables /\ touched \subseteq DeviceClasses
  /\ DOMAIN classes \subseteq Nat /\ \A c \in DOMAIN classes : classes[c] \in Kinds
  /\ cert \in [Files -> Contents]
  /\ DOMAIN users \subseteq Nat /\ \A u \in DOMAIN users : users[u] \in Users
  /\ DOMAIN given = DOMAIN users /\ \A u \in DOMAIN given : given[u] \in UserForms \cup {Default}
  /\ DOMAIN groups \subseteq Nat /\ \A g \in DOMAIN groups : groups[g] \in Ciphers
  /\ \A r \in Requests : req[r] = None \/ req[r] \in Updates
  /\ crashes \in 0 .. MaxCrashes

\* A group's password can be read back as one that was accepted, whatever
\* crashes, restarts and updates in two steps lie between, a crash while the key
\* was being written (secrets/main.go:24) included; else a worker that needs it
\* panics (postconfig.go:82).
PasswordsReadable ==
  pc = "serving" =>
    \A g \in DOMAIN groups : \E p \in Decrypt(groups[g], key) : p \in GroupForms /\ verifyPassword(p)

FirstOf(name) ==
  {u \in DOMAIN users : users[u].name = name /\ \A v \in DOMAIN users : users[v].name = name => u <= v}

\* A name logs in only if it has a user; the first of them decides.  Set a
\* password, and that one logs in across restarts (main.go:156 does not reset
\* the administrator's), and of the others those with the same first 72 bytes,
\* or nobody if it was too long (users.go:233).  After a form without a password
\* no password logs in; the empty one does if there was no password before, as
\* for a new user, or after one that was too long (users.go:180).
LoginWorks ==
  \A name \in Usernames, p \in UserForms \cup {Default} :
    /\ Login(name, p) => FirstOf(name) # {}
    /\ \A u \in FirstOf(name) :
         IF given[u] = NoPassword
         THEN Login(name, p) => p = NoPassword
         ELSE Login(name, p) <=> given[u].length <= 72 /\ p.first = given[u].first

\* Every start ends in a server, or in a process that ended because a crash came
\* between the creation of server.crt and the end of server.key (main.go:296
\* looks for server.crt only).
ServesUnlessTorn ==
  (pc = "off") ~> \/ pc = "serving"
                  \/ pc = "off" /\ cert["server.crt"] # None /\ ~Pair("server.crt", "server.key")

\* However often the first start was cut off, a process that is about to serve
\* has a row of each built-in device class, and one that serves has its tables,
\* one row of each built-in class that administrators left alone, and a
\* certificate of the authority in ca.crt, for which they distribute it.
ServesComplete ==
  /\ pc = "listen" => \A kind \in DeviceClasses : Rows(kind) # {}
  /\ pc = "serving" =>
       /\ database = Tables
       /\ \A kind \in DeviceClasses \ touched : \E c \in DOMAIN classes : Rows(kind) = {c}
       /\ \A f, g \in Files : cert[f] = cert[g] /\ cert[f] \in Nat
=============================================================================
