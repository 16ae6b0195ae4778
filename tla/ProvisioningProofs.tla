--------------------------- MODULE ProvisioningProofs ---------------------------
(***************************************************************************)
(* Provisioning for any numbers of workers, attempts and crashes.          *)
(*                                                                         *)
(* The types hold, and workers end, whatever administrators do.  That each *)
(* request installs once rests on two hypotheses: no transfer is under way *)
(* when the kickstart file is put together (Settled), and what is done     *)
(* while a host is in progress is to cancel and to delete (Patient).  The  *)
(* code enforces neither.  Without Settled the run of                      *)
(* MCProvisioningLoop finds a second installation; and each of the deeds   *)
(* that Patient excludes makes a host completed that is to be installed.   *)
(***************************************************************************)
EXTENDS Provisioning, TLAPS

USE BoundAssumption, RowAssumption

-----------------------------------------------------------------------------
(* Types. *)

Transfers == [pc : {"free", "save"}, file : Files \cup {"none"}, item : Copies, i : {0}]

Kickstarts == [pc : {"free", "clear", "serve"}, file : {"none"}, item : Copies, i : {0}]

Jobs ==
  [pc : {"free", "start", "read", "connect", "configure", "certificate", "return",
         "reconnect", "finish"},
   file : {"none"}, item : Copies, i : 0 .. Timeout + 1]

Stages == Files \cup {"ks.cfg", "installing", "off", "reset", "disk", "up"}

\* A goroutine that is at work has a copy; one that is about to connect has
\* attempts left.
TransferOK(t) == t # Free => t.pc = "save" /\ t.file \in Files /\ t.item \in Items

KickstartOK == ks # Free => ks.pc # "free" /\ ks.item \in Items

JobOK(j) ==
  /\ j # Free => j.pc # "free" /\ j.item \in Items
  /\ j.pc \in {"connect", "reconnect"} => j.i <= Timeout

TypeInv ==
  /\ TypeOK
  /\ \A h \in Handlers : TransferOK(tftp[h])
  /\ KickstartOK
  /\ \A w \in Workers : JobOK(worker[w])

LEMMA TypeFacts ==
  ASSUME TypeInv
  PROVE  /\ row \in Copies /\ stage \in Stages /\ wanted \in Wanted
         /\ tftp \in [Handlers -> Transfers] /\ ks \in Kickstarts /\ worker \in [Workers -> Jobs]
         /\ blank \in BOOLEAN /\ crashes \in 0 .. MaxCrashes
BY DEF TypeInv, TypeOK, Transfers, Kickstarts, Jobs, Stages

LEMMA FreeOK ==
  /\ Free \in Transfers /\ Free \in Kickstarts /\ Free \in Jobs
  /\ TransferOK(Free) /\ JobOK(Free)
BY DEF Free, Transfers, Kickstarts, Jobs, Copies, TransferOK, JobOK

\* A worker that is started.
LEMMA StartOK ==
  ASSUME NEW item \in Items
  PROVE  /\ [Free EXCEPT !.pc = "start", !.item = item, !.i = 1] \in Jobs
         /\ JobOK([Free EXCEPT !.pc = "start", !.item = item, !.i = 1])
<1> DEFINE j == [Free EXCEPT !.pc = "start", !.item = item, !.i = 1]
<1>1. j \in [pc : {"start"}, file : {"none"}, item : {item}, i : {1}]
  BY DEF Free
<1>2. 1 \in 0 .. Timeout + 1 /\ item \in Copies
  BY DEF Copies
<1> HIDE DEF j
<1>3. j \in Jobs
  BY <1>1, <1>2 DEF Jobs
<1>4. JobOK(j)
  BY <1>1 DEF JobOK
<1> QED BY <1>3, <1>4 DEF j

LEMMA TypeFrom ==
  ASSUME row' \in Copies, stage' \in Stages, wanted' \in Wanted,
         blank' \in BOOLEAN, crashes' \in 0 .. MaxCrashes,
         tftp' \in [Handlers -> Transfers], \A h \in Handlers : TransferOK(tftp'[h]),
         ks' \in Kickstarts, KickstartOK',
         worker' \in [Workers -> Jobs], \A w \in Workers : JobOK(worker'[w])
  PROVE  TypeInv'
BY DEF TypeInv, TypeOK, Transfers, Kickstarts, Jobs, Stages

LEMMA TypeInit == Init => TypeInv
<1> SUFFICES ASSUME Init PROVE TypeInv
  OBVIOUS
<1>1. row \in Copies /\ stage \in Stages
  BY DEF Init, Copies, Items, Progress, Stages
<1>2. blank \in BOOLEAN
  BY DEF Init
<1> QED BY <1>1, <1>2, FreeOK
           DEF Init, TypeInv, TypeOK, Transfers, Kickstarts, Jobs, Stages, KickstartOK, Wanted

\* Steps that change one worker.
LEMMA WorkerStep ==
  ASSUME TypeInv, NEW w \in Workers, NEW j \in Jobs, JobOK(j),
         worker' = [worker EXCEPT ![w] = j],
         row' \in Copies, stage' \in Stages, wanted' \in Wanted,
         UNCHANGED <<tftp, blank, crashes>>, ks' \in {ks, Free}
  PROVE  TypeInv'
<1>1. ks' \in Kickstarts /\ KickstartOK'
  BY TypeFacts, FreeOK DEF TypeInv, KickstartOK
<1>2. worker' \in [Workers -> Jobs] /\ \A v \in Workers : JobOK(worker'[v])
  BY TypeFacts DEF TypeInv
<1>3. tftp' \in [Handlers -> Transfers] /\ \A h \in Handlers : TransferOK(tftp'[h])
  BY TypeFacts DEF TypeInv
<1> QED BY <1>1, <1>2, <1>3, TypeFacts, TypeFrom

\* Steps that change neither handlers nor workers.
LEMMA TableStep ==
  ASSUME TypeInv, UNCHANGED <<tftp, ks, worker, crashes>>, blank' \in BOOLEAN,
         row' \in Copies, stage' \in Stages, wanted' \in Wanted
  PROVE  TypeInv'
<1>1. KickstartOK'
  BY DEF TypeInv, KickstartOK
<1> QED BY <1>1, TypeFacts, TypeFrom DEF TypeInv

LEMMA TransferTypes ==
  ASSUME TypeInv, NEW h \in Handlers, Transfer(h) PROVE TypeInv'
<1>1. \A t \in Transfers : TransferOK(t) /\ tftp' = [tftp EXCEPT ![h] = t] =>
        tftp' \in [Handlers -> Transfers] /\ \A g \in Handlers : TransferOK(tftp'[g])
  BY TypeFacts DEF TypeInv
<1>2. UNCHANGED ks => KickstartOK'
  BY DEF TypeInv, KickstartOK
<1>3. CASE ReadFile(h)
  <2> DEFINE t == [Free EXCEPT !.pc = "save", !.file = stage, !.item = row]
  <2>1. row \in Items /\ stage \in Files
    BY <1>3, TypeFacts DEF ReadFile, Copies
  <2>2. t \in Transfers /\ TransferOK(t)
    BY <2>1, TypeFacts DEF Transfers, TransferOK, Free
  <2>3. tftp' = [tftp EXCEPT ![h] = t]
    BY <1>3 DEF ReadFile
  <2> HIDE DEF t
  <2>4. tftp' \in [Handlers -> Transfers] /\ \A g \in Handlers : TransferOK(tftp'[g])
    BY <1>1, <2>2, <2>3
  <2> QED BY <1>2, <1>3, <2>4, TypeFacts, TypeFrom DEF ReadFile, TypeInv
<1>4. CASE SendFile(h)
  <2>1. tftp[h].item \in Items /\ tftp[h].file \in Files
    BY <1>4 DEF SendFile, TypeInv, TransferOK, Free
  <2>2. row' \in Copies
    BY <1>4, <2>1 DEF SendFile, Copies, Items, Progress, Reached, Files
  <2>3. stage' \in Stages
    BY <1>4, <2>1, TypeFacts DEF SendFile, Stages, After, Files
  <2>4. tftp' \in [Handlers -> Transfers] /\ \A g \in Handlers : TransferOK(tftp'[g])
    BY <1>1, <1>4, FreeOK DEF SendFile
  <2> QED BY <1>2, <1>4, <2>2, <2>3, <2>4, TypeFacts, TypeFrom DEF SendFile, TypeInv
<1> QED BY <1>3, <1>4 DEF Transfer

LEMMA KickstartTypes == ASSUME TypeInv, Kickstart PROVE TypeInv'
<1>1. CASE KsLoad
  <2>1. ks' \in Kickstarts /\ KickstartOK'
    BY <1>1, TypeFacts DEF KsLoad, KickstartOK, Kickstarts, Free, Copies
  <2> QED BY <1>1, <2>1, TypeFacts, TypeFrom DEF KsLoad, TypeInv
<1>2. CASE KsClear
  <2>1. ks.item \in Items /\ ks \in Kickstarts
    BY <1>2, TypeFacts DEF KsClear, TypeInv, KickstartOK, Free
  <2>2. ks' \in Kickstarts /\ KickstartOK'
    BY <1>2, <2>1 DEF KsClear, KickstartOK, Kickstarts, Items, Copies
  <2>3. row' \in Copies
    BY <1>2, TypeFacts DEF KsClear, Copies, Items
  <2> QED BY <1>2, <2>2, <2>3, TypeFacts, TypeFrom DEF KsClear, TypeInv
<1>3. ASSUME NEW w \in Workers, KsServe(w) PROVE TypeInv'
  <2> DEFINE item == [ks.item EXCEPT !.progress = 50]
             j == [Free EXCEPT !.pc = "start", !.item = item, !.i = 1]
  <2>1. item \in Items
    BY <1>3 DEF KsServe, TypeInv, KickstartOK, Free, Items, Progress
  <2>2. row' = item /\ worker' = [worker EXCEPT ![w] = j]
    BY <1>3 DEF KsServe, Start
  <2> HIDE DEF item
  <2>3. j \in Jobs /\ JobOK(j)
    BY <2>1, StartOK
  <2> HIDE DEF j
  <2>4. stage' \in Stages /\ wanted' \in Wanted
    BY <1>3, TypeFacts DEF KsServe, Stages, Wanted
  <2> QED BY <1>3, <2>1, <2>2, <2>3, <2>4, WorkerStep DEF KsServe, Copies
<1>4. CASE KsError
  <2>1. ks' \in Kickstarts /\ KickstartOK'
    BY <1>4, FreeOK DEF KsError, KickstartOK
  <2> QED BY <1>4, <2>1, TypeFacts, TypeFrom DEF KsError, TypeInv
<1> QED BY <1>1, <1>2, <1>3, <1>4 DEF Kickstart, Answer

\* What a step of a worker makes of it.
LEMMA WorkTypes == ASSUME TypeInv, NEW w \in Workers, Work(w) PROVE TypeInv'
<1> DEFINE j == worker[w]
<1>1. j \in Jobs /\ JobOK(j)
  BY TypeFacts DEF TypeInv
<1>2. j.pc # "free" => j.item \in Items
  BY <1>1 DEF JobOK, Free
<1>3. \A p \in Progress : j.pc # "free" => [j.item EXCEPT !.progress = p] \in Items
  BY <1>2 DEF Items
<1>4. \A i \in Items : i \in Copies
  BY DEF Copies
<1>5. CASE Begin(w)
  <2> DEFINE k == [j EXCEPT !.pc = "read", !.item.progress = 75]
  <2>1. k \in Jobs /\ JobOK(k)
    BY <1>1, <1>2, <1>5 DEF Begin, Jobs, JobOK, Items, Progress, Copies
  <2>2. row' \in Copies
    BY <1>3, <1>4, <1>5 DEF Begin, Saved, Progress
  <2>3. worker' = [worker EXCEPT ![w] = k]
    BY <1>5, TypeFacts DEF Begin
  <2> HIDE DEF k
  <2> QED BY <1>5, <2>1, <2>2, <2>3, TypeFacts, WorkerStep DEF Begin
<1>6. CASE Recheck(w)
  <2>1. CASE worker' = [worker EXCEPT ![w] = Free]
    BY <1>6, <2>1, FreeOK, TypeFacts, WorkerStep DEF Recheck
  <2>2. CASE /\ j.i <= Timeout /\ row # NoRow
             /\ worker' = [worker EXCEPT ![w].pc = "connect", ![w].item = row]
    <3> DEFINE k == [j EXCEPT !.pc = "connect", !.item = row]
    <3>1. k \in Jobs /\ JobOK(k)
      BY <1>1, <2>2, TypeFacts DEF Jobs, JobOK, Copies
    <3>2. worker' = [worker EXCEPT ![w] = k]
      BY <2>2, TypeFacts
    <3> HIDE DEF k
    <3> QED BY <1>6, <3>1, <3>2, TypeFacts, WorkerStep DEF Recheck
  <2>3. j.i \in Int
    BY <1>1 DEF Jobs
  <2> QED BY <1>6, <2>1, <2>2, <2>3 DEF Recheck, End
<1>7. ASSUME NEW pc \in {"connect", "reconnect"}, NEW again \in {"read", "return"},
             NEW connected \in {"configure", "finish"}, Connect(w, pc, again, connected)
      PROVE  TypeInv'
  <2>1. j.pc = pc /\ j.item \in Items /\ j.i \in 0 .. Timeout
    BY <1>1, <1>2, <1>7 DEF Connect, JobOK, Jobs
  <2>2. CASE worker' = [worker EXCEPT ![w].pc = connected]
    <3> DEFINE k == [j EXCEPT !.pc = connected]
    <3>1. k \in Jobs /\ JobOK(k)
      BY <1>1, <2>1 DEF Jobs, JobOK
    <3>2. worker' = [worker EXCEPT ![w] = k]
      BY <2>2, TypeFacts
    <3> HIDE DEF k
    <3> QED BY <1>7, <3>1, <3>2, TypeFacts, WorkerStep DEF Connect
  <2>3. CASE worker' = [worker EXCEPT ![w].pc = again, ![w].i = @ + 1]
    <3> DEFINE k == [j EXCEPT !.pc = again, !.i = @ + 1]
    <3>1. k \in Jobs /\ JobOK(k)
      <4>1. k.i = j.i + 1 /\ k.i \in 0 .. Timeout + 1
        BY <1>1, <2>1 DEF Jobs
      <4>2. k.pc = again /\ k.item = j.item
        BY <1>1 DEF Jobs
      <4>3. k \in Jobs
        BY <1>1, <2>1, <4>1 DEF Jobs
      <4> QED BY <2>1, <4>2, <4>3 DEF JobOK
    <3>2. worker' = [worker EXCEPT ![w] = k]
      BY <2>3, TypeFacts
    <3> HIDE DEF k
    <3> QED BY <1>7, <3>1, <3>2, TypeFacts, WorkerStep DEF Connect
  <2> QED BY <1>7, <2>2, <2>3 DEF Connect
<1>8. ASSUME Configure(w) \/ Await(w) PROVE TypeInv'
  <2>1. PICK pc \in {"certificate", "finish", "reconnect"} :
          /\ worker' = [worker EXCEPT ![w].pc = pc]
          /\ pc = "reconnect" => ~(j.i > Timeout)
    BY <1>8 DEF Configure, Await
  <2> DEFINE k == [j EXCEPT !.pc = pc]
  <2>2. k \in Jobs /\ JobOK(k)
    BY <1>1, <1>2, <1>8, <2>1 DEF Jobs, JobOK, Configure, Await
  <2>3. worker' = [worker EXCEPT ![w] = k]
    BY <2>1, TypeFacts
  <2> HIDE DEF k
  <2> QED BY <1>8, <2>2, <2>3, TypeFacts, WorkerStep DEF Configure, Await
<1>9. CASE Reboot(w)
  <2> DEFINE k == [j EXCEPT !.pc = "return", !.item.progress = 90]
  <2>1. k \in Jobs /\ JobOK(k)
    BY <1>1, <1>2, <1>9 DEF Reboot, Jobs, JobOK, Items, Progress, Copies
  <2>2. row' \in Copies /\ stage' \in Stages
    BY <1>3, <1>4, <1>9, TypeFacts DEF Reboot, Saved, Progress, Stages
  <2>3. worker' = [worker EXCEPT ![w] = k]
    BY <1>9, TypeFacts DEF Reboot
  <2> HIDE DEF k
  <2> QED BY <1>9, <2>1, <2>2, <2>3, TypeFacts, WorkerStep DEF Reboot
<1>10. CASE Finish(w)
  <2>1. row' \in Copies
    BY <1>3, <1>4, <1>10 DEF Finish, Saved, Progress
  <2> QED BY <1>10, <2>1, FreeOK, TypeFacts, WorkerStep DEF Finish, End
<1> QED BY <1>5, <1>6, <1>7, <1>8, <1>9, <1>10 DEF Work

LEMMA AdministrateTypes == ASSUME TypeInv, Administrate PROVE TypeInv'
<1>1. \A flag \in BOOLEAN : [reimage |-> flag, progress |-> 0] \in Copies /\ NoRow \in Copies
  BY DEF Copies, Items, Progress
<1>2. ASSUME Reimage \/ Cancel \/ DeleteAddress \/ CreateAddress PROVE TypeInv'
  <2>1. row' \in Copies
    BY <1>1, <1>2 DEF Reimage, Cancel, DeleteAddress, CreateAddress
  <2>2. wanted' \in Wanted
    BY <1>2, TypeFacts DEF Reimage, Cancel, DeleteAddress, CreateAddress, Withdraw, Wanted
  <2>3. UNCHANGED <<stage, tftp, ks, worker, blank, crashes>>
    BY <1>2 DEF Reimage, Cancel, DeleteAddress, CreateAddress
  <2> QED BY <2>1, <2>2, <2>3, TypeFacts, TableStep
<1>3. ASSUME NEW w \in Workers, PostConfigID(w) PROVE TypeInv'
  <2> DEFINE j == [Free EXCEPT !.pc = "start", !.item = row, !.i = 1]
  <2>1. j \in Jobs /\ JobOK(j)
    <3>1. row \in Items
      BY <1>3, TypeFacts DEF PostConfigID, Copies
    <3> QED BY <3>1, StartOK
  <2>2. worker' = [worker EXCEPT ![w] = j]
    BY <1>3 DEF PostConfigID, Start
  <2> HIDE DEF j
  <2> QED BY <1>3, <2>1, <2>2, TypeFacts, WorkerStep DEF PostConfigID
<1> QED BY <1>2, <1>3 DEF Administrate

LEMMA TypeNext == TypeInv /\ [Next]_vars => TypeInv'
<1> SUFFICES ASSUME TypeInv, [Next]_vars PROVE TypeInv'
  OBVIOUS
<1>1. ASSUME NEW h \in Handlers, Transfer(h) PROVE TypeInv'
  BY <1>1, TransferTypes
<1>2. CASE Kickstart
  BY <1>2, KickstartTypes
<1>3. ASSUME NEW w \in Workers, Work(w) PROVE TypeInv'
  BY <1>3, WorkTypes
<1>4. CASE Administrate
  BY <1>4, AdministrateTypes
<1>5. ASSUME PowerCycle \/ Host \/ MissFile PROVE TypeInv'
  <2>1. /\ stage' \in Stages /\ wanted' \in Wanted /\ blank' \in BOOLEAN
        /\ UNCHANGED <<row, tftp, ks, worker, crashes>>
    BY <1>5, TypeFacts
       DEF PowerCycle, Host, MissFile, Boot, Rise, Install, GiveUp, Stages, Files, Wanted
  <2> QED BY <2>1, TypeFacts, TableStep
<1>6. ASSUME EndProcess, crashes' \in 0 .. MaxCrashes PROVE TypeInv'
  <2>1. /\ tftp' \in [Handlers -> Transfers] /\ \A h \in Handlers : TransferOK(tftp'[h])
        /\ worker' \in [Workers -> Jobs] /\ \A w \in Workers : JobOK(worker'[w])
        /\ ks' \in Kickstarts /\ KickstartOK'
    BY <1>6, FreeOK DEF EndProcess, KickstartOK
  <2> QED BY <1>6, <2>1, TypeFacts, TypeFrom DEF EndProcess
<1>7. ASSUME Crash \/ \E w \in Workers : CannotConfigure(w) PROVE TypeInv'
  BY <1>6, <1>7, TypeFacts DEF Crash, CannotConfigure
<1>8. CASE UNCHANGED vars
  BY <1>8, TypeFacts, TableStep DEF vars
<1> QED BY <1>1, <1>2, <1>3, <1>4, <1>5, <1>7, <1>8 DEF Next

\* A worker at work has a copy of the row and attempts left, in both loops
\* together (postconfig.go:108, :593), however many transfers, workers and
\* administrators there are and whatever they do at whatever time.
THEOREM TypeCorrect == Spec => []TypeOK
<1>1. TypeInv => TypeOK
  BY DEF TypeInv
<1> QED BY <1>1, TypeInit, TypeNext, PTL DEF Spec

-----------------------------------------------------------------------------
(* One installation for each request. *)

\* What administrators do while a host is in progress is to cancel and to delete.
Patient == {"reimage", "create", "configure", "restart"} \cap Anytime = {}

\* Transfers, the kickstart handler and a worker have copies of the row one after
\* the other; only transfers have several.
OneCopy ==
  /\ \A w, v \in Workers : worker[w] # Free /\ worker[v] # Free => w = v
  /\ \A w \in Workers : worker[w] # Free => ks = Free
  /\ \A h \in Handlers, w \in Workers : tftp[h] # Free => worker[w] = Free
  /\ \A h \in Handlers : tftp[h] # Free => ks = Free

\* Transfers are over before the host is installed, and the host waits for its
\* kickstart file unless it gave up; no worker is at work while it loads its files.
Waiting ==
  /\ \A h \in Handlers : tftp[h] # Free => stage \in Files \cup {"ks.cfg", "off"}
  /\ ks # Free => stage \in {"ks.cfg", "off"}
  /\ \A w \in Workers : worker[w] # Free => stage \in {"installing", "off", "reset", "disk", "up"}

\* Where the flag is set, and where the host is about to be installed, an
\* installation was asked for and none has started since.
FlagWanted ==
  /\ Flagged => wanted # "no"
  /\ stage \in Files \cup {"ks.cfg"} => wanted # "no"
  /\ \A h \in Handlers : tftp[h] # Free => wanted # "no"
  /\ ks.pc = "serve" => ~ks.item.reimage
  /\ ks # Free /\ stage = "off" => wanted # "yes"
  /\ \A w \in Workers : worker[w] # Free => ~worker[w].item.reimage /\ ~Flagged /\ wanted # "yes"

PatientInv == TypeInv /\ OneCopy /\ Waiting /\ FlagWanted /\ CompletedInstalled

LEMMA PatientInit == Init => PatientInv
<1> SUFFICES ASSUME Init PROVE PatientInv
  OBVIOUS
<1>1. TypeInv
  BY TypeInit
<1> QED BY <1>1
           DEF Init, PatientInv, OneCopy, Waiting, FlagWanted, CompletedInstalled, Flagged, Free,
               Files

\* Where no goroutine is at work, only the row and the stage matter.
LEMMA NobodyAtWork ==
  ASSUME TypeInv', \A h \in Handlers : tftp'[h] = Free, ks' = Free,
         \A w \in Workers : worker'[w] = Free,
         Flagged' => wanted' # "no", stage' \in Files \cup {"ks.cfg"} => wanted' # "no",
         CompletedInstalled'
  PROVE  PatientInv'
BY DEF PatientInv, OneCopy, Waiting, FlagWanted, Free

LEMMA TransferPatient ==
  ASSUME Patient, PatientInv, NEW h \in Handlers, Transfer(h) PROVE PatientInv'
<1>1. TypeInv /\ TypeInv'
  BY TypeNext DEF PatientInv, Next
<1>2. CASE ReadFile(h)
  <2>1. stage \in Files /\ UNCHANGED <<row, stage, ks, worker, wanted, crashes>>
    BY <1>2 DEF ReadFile
  <2>2. \A g \in Handlers \ {h} : tftp'[g] = tftp[g]
    BY <1>1, <1>2, TypeFacts DEF ReadFile
  <2>3. ks = Free /\ \A w \in Workers : worker[w] = Free
    BY <2>1 DEF PatientInv, Waiting, Files
  <2>4. wanted # "no"
    BY <2>1 DEF PatientInv, FlagWanted
  <2> QED BY <1>1, <2>1, <2>2, <2>3, <2>4
             DEF PatientInv, OneCopy, Waiting, FlagWanted, CompletedInstalled, Flagged, Free
<1>3. CASE SendFile(h)
  <2>1. tftp[h] # Free /\ tftp[h].file \in Files /\ tftp[h].item \in Items
    BY <1>1, <1>3 DEF SendFile, TypeInv, TransferOK, Free
  <2>2. /\ wanted # "no" /\ ks = Free /\ \A w \in Workers : worker[w] = Free
        /\ stage \in Files \cup {"ks.cfg", "off"}
    BY <2>1 DEF PatientInv, OneCopy, Waiting, FlagWanted
  <2>3. \A g \in Handlers : tftp'[g] # Free => tftp'[g] = tftp[g]
    BY <1>1, <1>3, TypeFacts DEF SendFile
  <2>4. row'.progress # 100
    BY <1>3, <2>1 DEF SendFile, Reached, Files, Items
  <2>5. CompletedInstalled'
    BY <2>4 DEF CompletedInstalled
  <2>6. stage' \in Files \cup {"ks.cfg", "off"} /\ UNCHANGED <<ks, worker, wanted, crashes>>
    BY <1>3, <2>1, <2>2 DEF SendFile, After, Files
  <2> QED BY <1>1, <2>2, <2>3, <2>5, <2>6 DEF PatientInv, OneCopy, Waiting, FlagWanted, Free
<1> QED BY <1>2, <1>3 DEF Transfer

LEMMA KickstartPatient == ASSUME Patient, PatientInv, Settled', Kickstart PROVE PatientInv'
<1>1. TypeInv /\ TypeInv'
  BY TypeNext DEF PatientInv, Next
<1>2. /\ stage = "ks.cfg" => \A w \in Workers : worker[w] = Free
      /\ ks # Free => \A h \in Handlers : tftp[h] = Free
  BY DEF PatientInv, OneCopy, Waiting, Files
<1>3. CASE KsLoad
  <2>1. /\ stage = "ks.cfg" /\ ks = Free /\ ks'.pc = "clear"
        /\ UNCHANGED <<row, stage, tftp, worker, wanted>>
    BY <1>3 DEF KsLoad, Free
  <2>2. \A h \in Handlers : tftp'[h] = Free
    BY <2>1 DEF Settled, Free
  <2> QED BY <1>1, <1>2, <2>1, <2>2
             DEF PatientInv, OneCopy, Waiting, FlagWanted, CompletedInstalled, Flagged
<1>4. CASE KsClear
  <2>1. ks # Free /\ ks.item \in Items /\ ks \in Kickstarts
    BY <1>1, <1>4, TypeFacts DEF KsClear, TypeInv, KickstartOK, Free
  <2>2. /\ stage \in {"ks.cfg", "off"} /\ (stage = "off" => wanted # "yes")
        /\ \A w \in Workers : worker[w] = Free
        /\ UNCHANGED <<stage, tftp, worker, wanted, crashes>>
    BY <1>4, <2>1 DEF KsClear, PatientInv, Waiting, FlagWanted, OneCopy
  <2>3. ~ks'.item.reimage
    BY <1>4, <2>1 DEF KsClear, Kickstarts, Items
  <2>4. ~Flagged' /\ CompletedInstalled'
    <3>1. CASE row = NoRow
      BY <1>4, <3>1 DEF KsClear, Flagged, CompletedInstalled
    <3>2. CASE row # NoRow
      <4>1. row \in Items
        BY <1>1, <3>2, TypeFacts DEF Copies
      <4>2. ~row'.reimage /\ row'.progress = row.progress
        BY <1>4, <3>2, <4>1 DEF KsClear, Items
      <4> QED BY <2>2, <3>2, <4>2 DEF Flagged, CompletedInstalled, PatientInv
    <3> QED BY <3>1, <3>2
  <2> QED BY <1>1, <1>2, <2>1, <2>2, <2>3, <2>4 DEF PatientInv, OneCopy, Waiting, FlagWanted
<1>5. ASSUME NEW w \in Workers, KsServe(w) PROVE PatientInv'
  <2> DEFINE item == [ks.item EXCEPT !.progress = 50]
             j == [Free EXCEPT !.pc = "start", !.item = item, !.i = 1]
  <2>1. ks # Free /\ ks.pc = "serve" /\ ks.item \in Items
    BY <1>1, <1>5 DEF KsServe, TypeInv, KickstartOK, Free
  <2>2. /\ stage \in {"ks.cfg", "off"} /\ (stage = "off" => wanted # "yes")
        /\ ~ks.item.reimage /\ \A v \in Workers : worker[v] = Free
    BY <2>1 DEF PatientInv, Waiting, FlagWanted, OneCopy
  <2>3. /\ row' = item /\ worker' = [worker EXCEPT ![w] = j] /\ ks' = Free
        /\ stage' \in {"installing", "off"} /\ wanted' # "yes" /\ UNCHANGED tftp
    BY <1>5, <2>2 DEF KsServe, Start
  <2>4. ~item.reimage /\ item.progress = 50
    BY <2>1, <2>2 DEF Items
  <2>5. j.item = item
    BY DEF Free
  <2> HIDE DEF item, j
  <2>6. worker'[w] = j /\ \A v \in Workers \ {w} : worker'[v] = Free
    BY <1>1, <1>2, <2>2, <2>3, TypeFacts
  <2>7. CompletedInstalled' /\ ~Flagged'
    BY <2>3, <2>4 DEF CompletedInstalled, Flagged
  <2> QED BY <1>1, <1>2, <2>1, <2>2, <2>3, <2>4, <2>5, <2>6, <2>7
             DEF PatientInv, OneCopy, Waiting, FlagWanted, Free, Files
<1>6. CASE KsError
  BY <1>1, <1>6
     DEF KsError, PatientInv, OneCopy, Waiting, FlagWanted, CompletedInstalled, Flagged, Free
<1> QED BY <1>3, <1>4, <1>5, <1>6 DEF Kickstart, Answer

\* A worker at work is alone, and what it saves has no flag.
LEMMA WorkPatient ==
  ASSUME Patient, PatientInv, NEW w \in Workers, Work(w) PROVE PatientInv'
<1>1. TypeInv /\ TypeInv'
  BY TypeNext DEF PatientInv, Next
<1> DEFINE j == worker[w]
<1>2. j # Free /\ j \in Jobs /\ j.item \in Items
  <2>1. j.pc # "free"
    BY DEF Work, Begin, Recheck, Configure, Reboot, Await, Finish, Connect
  <2> QED BY <1>1, <2>1, TypeFacts DEF TypeInv, JobOK, Free
<1>3. /\ ~j.item.reimage /\ ~Flagged /\ wanted # "yes"
      /\ ks = Free /\ \A h \in Handlers : tftp[h] = Free
      /\ \A v \in Workers \ {w} : worker[v] = Free
      /\ stage \in {"installing", "off", "reset", "disk", "up"}
  BY <1>2 DEF PatientInv, OneCopy, Waiting, FlagWanted
<1>4. \A p \in Progress : [j.item EXCEPT !.progress = p] \in Items
                          /\ ~[j.item EXCEPT !.progress = p].reimage
  BY <1>2, <1>3 DEF Items
<1>5. /\ UNCHANGED <<tftp, ks, wanted, crashes>>
      /\ stage' \in {stage, "reset"}
      /\ \A v \in Workers \ {w} : worker'[v] = Free
      /\ row' = row \/ row' \in {[j.item EXCEPT !.progress = p] : p \in Progress}
      /\ worker'[w] = Free \/ ~worker'[w].item.reimage
  <2>1. CASE Begin(w)
    <3>1. worker'[w].item = [j.item EXCEPT !.progress = 75]
      BY <1>1, <1>2, <2>1, TypeFacts DEF Begin, Jobs
    <3> QED BY <1>1, <1>3, <1>4, <2>1, <3>1, TypeFacts DEF Begin, Saved, Progress
  <2>2. CASE Recheck(w)
    <3>1. CASE worker' = [worker EXCEPT ![w] = Free]
      BY <1>1, <1>3, <2>2, <3>1, TypeFacts DEF Recheck
    <3>2. CASE /\ row # NoRow
               /\ worker' = [worker EXCEPT ![w].pc = "connect", ![w].item = row]
      <4>1. worker'[w].item = row
        BY <1>1, <1>2, <3>2, TypeFacts DEF Jobs
      <4> QED BY <1>1, <1>3, <2>2, <3>2, <4>1, TypeFacts DEF Recheck, Flagged
    <3> QED BY <2>2, <3>1, <3>2 DEF Recheck, End
  <2>3. ASSUME NEW pc, NEW again, NEW connected, Connect(w, pc, again, connected)
        PROVE  /\ worker'[w].item = j.item /\ \A v \in Workers \ {w} : worker'[v] = worker[v]
               /\ UNCHANGED <<row, stage, tftp, ks, wanted, crashes>>
    BY <1>1, <1>2, <2>3, TypeFacts DEF Connect, Jobs
  <2>4. ASSUME Configure(w) \/ Await(w)
        PROVE  /\ worker'[w].item = j.item /\ \A v \in Workers \ {w} : worker'[v] = worker[v]
               /\ UNCHANGED <<row, stage, tftp, ks, wanted, crashes>>
    BY <1>1, <1>2, <2>4, TypeFacts DEF Configure, Await, Jobs
  <2>5. CASE Reboot(w)
    <3>1. worker'[w].item = [j.item EXCEPT !.progress = 90]
      BY <1>1, <1>2, <2>5, TypeFacts DEF Reboot, Jobs
    <3> QED BY <1>1, <1>3, <1>4, <2>5, <3>1, TypeFacts DEF Reboot, Saved, Progress
  <2>6. CASE Finish(w)
    BY <1>1, <1>3, <2>6, TypeFacts DEF Finish, Saved, End, Progress
  <2> QED BY <1>3, <2>1, <2>2, <2>3, <2>4, <2>5, <2>6 DEF Work
<1>6. ~Flagged' /\ CompletedInstalled'
  <2>1. CASE row' = row
    BY <1>3, <1>5, <2>1 DEF Flagged, CompletedInstalled, PatientInv
  <2>2. CASE row' \in {[j.item EXCEPT !.progress = p] : p \in Progress}
    <3>1. ~row'.reimage
      BY <1>4, <2>2
    <3>2. wanted' # "yes"
      BY <1>3, <1>5
    <3> QED BY <3>1, <3>2 DEF Flagged, CompletedInstalled
  <2> QED BY <1>5, <2>1, <2>2
<1>7. stage' \in {"installing", "off", "reset", "disk", "up"}
  BY <1>3, <1>5
<1> QED BY <1>1, <1>3, <1>5, <1>6, <1>7
           DEF PatientInv, OneCopy, Waiting, FlagWanted, Free, Files

LEMMA AdministratePatient == ASSUME Patient, PatientInv, Administrate PROVE PatientInv'
<1>1. TypeInv /\ TypeInv'
  BY TypeNext DEF PatientInv, Next
<1>2. ASSUME Quiet, Reimage \/ CreateAddress PROVE PatientInv'
  <2>1. row'.progress = 0 /\ UNCHANGED <<stage, tftp, ks, worker, crashes>>
    BY <1>2 DEF Reimage, CreateAddress
  <2>2. Flagged' => wanted' # "no"
    BY <1>2 DEF Reimage, CreateAddress, Flagged
  <2>3. CompletedInstalled'
    BY <2>1 DEF CompletedInstalled
  <2>4. stage' \notin Files \cup {"ks.cfg"}
    BY <1>2, <2>1 DEF Quiet, Files
  <2> QED BY <1>1, <1>2, <2>1, <2>2, <2>3, <2>4, NobodyAtWork DEF Quiet
<1>3. ASSUME Cancel \/ DeleteAddress PROVE PatientInv'
  <2>1. ~Flagged' /\ CompletedInstalled' /\ UNCHANGED <<stage, tftp, ks, worker, crashes>>
    BY <1>3 DEF Cancel, DeleteAddress, Flagged, CompletedInstalled
  <2>2. wanted' # "yes" /\ (wanted # "no" => wanted' # "no")
    BY <1>3 DEF Cancel, DeleteAddress, Withdraw
  <2> QED BY <1>1, <2>1, <2>2 DEF PatientInv, OneCopy, Waiting, FlagWanted
<1>4. ASSUME Quiet, NEW w \in Workers, PostConfigID(w) PROVE PatientInv'
  <2> DEFINE j == [Free EXCEPT !.pc = "start", !.item = row, !.i = 1]
  <2>1. j.item = row
    BY DEF Free
  <2>2. worker'[w] = j /\ \A v \in Workers \ {w} : worker'[v] = Free
    BY <1>1, <1>4, TypeFacts DEF PostConfigID, Start, Quiet
  <2>3. ~row.reimage /\ ~Flagged /\ wanted # "yes" /\ UNCHANGED <<row, stage, tftp, ks, wanted>>
    BY <1>4 DEF PostConfigID, PatientInv, CompletedInstalled, Patient, Flagged
  <2> HIDE DEF j
  <2>4. ks' = Free /\ (\A h \in Handlers : tftp'[h] = Free) /\ stage' \in {"off", "up"}
    BY <1>4, <2>3 DEF Quiet
  <2> QED BY <1>1, <2>1, <2>2, <2>3, <2>4
             DEF PatientInv, OneCopy, Waiting, FlagWanted, CompletedInstalled, Flagged, Free, Files
<1> QED BY <1>2, <1>3, <1>4
           DEF Administrate, Reimage, CreateAddress, PostConfigID, Allowed, Patient

LEMMA HostPatient == ASSUME Patient, PatientInv, PowerCycle \/ Host \/ MissFile PROVE PatientInv'
<1>1. TypeInv /\ TypeInv'
  BY TypeNext DEF PatientInv, Next
<1>2. CompletedInstalled' /\ Flagged' = Flagged /\ UNCHANGED <<row, tftp, ks, worker>>
  BY DEF PowerCycle, Host, MissFile, Boot, Rise, Install, GiveUp, PatientInv, CompletedInstalled,
         Flagged
<1>3. CASE PowerCycle
  <2>1. Quiet /\ stage' = "reset" /\ wanted' = wanted
    BY <1>3 DEF PowerCycle, Allowed, Patient
  <2> QED BY <1>1, <1>2, <2>1, NobodyAtWork DEF Quiet, PatientInv, FlagWanted, Files
<1>4. CASE MissFile
  BY <1>1, <1>2, <1>4
     DEF MissFile, PatientInv, OneCopy, Waiting, FlagWanted, Files
<1>5. CASE GiveUp
  <2>1. stage' = "off" /\ wanted' # "yes" /\ wanted # "no" /\ wanted' # "no"
    BY <1>5 DEF GiveUp, PatientInv, FlagWanted
  <2>2. \A w \in Workers : worker[w] = Free
    BY <1>5 DEF GiveUp, PatientInv, Waiting, Files
  <2> QED BY <1>1, <1>2, <2>1, <2>2
             DEF PatientInv, OneCopy, Waiting, FlagWanted, Files
<1>6. CASE Boot /\ Flagged
  <2>1. ks = Free /\ \A w \in Workers : worker[w] = Free
    BY <1>6 DEF PatientInv, Waiting, FlagWanted, Boot
  <2>2. \A h \in Handlers : tftp[h] = Free
    BY <1>6 DEF PatientInv, Waiting, Boot, Files
  <2> QED BY <1>1, <1>2, <1>6, <2>1, <2>2, NobodyAtWork DEF Boot, PatientInv, FlagWanted
<1>7. ASSUME Rise \/ Install \/ (Boot /\ ~Flagged) PROVE PatientInv'
  <2>1. /\ stage \in {"disk", "installing", "reset"} /\ stage' \in {"off", "disk", "up", "reset"}
        /\ wanted' = wanted
    BY <1>7 DEF Rise, Install, Boot
  <2>2. ks = Free /\ \A h \in Handlers : tftp[h] = Free
    BY <2>1 DEF PatientInv, Waiting, Files
  <2> QED BY <1>1, <1>2, <2>1, <2>2
             DEF PatientInv, OneCopy, Waiting, FlagWanted, Files
<1> QED BY <1>3, <1>4, <1>5, <1>6, <1>7 DEF Host

LEMMA PatientNext == Patient /\ PatientInv /\ Settled' /\ [Next]_vars => PatientInv'
<1> SUFFICES ASSUME Patient, PatientInv, Settled', [Next]_vars PROVE PatientInv'
  OBVIOUS
<1>1. TypeInv'
  BY TypeNext DEF PatientInv
<1>2. CASE EndProcess
  BY <1>1, <1>2, NobodyAtWork
     DEF EndProcess, PatientInv, FlagWanted, CompletedInstalled, Flagged
<1>3. CASE UNCHANGED vars
  BY <1>1, <1>3 DEF vars, PatientInv, OneCopy, Waiting, FlagWanted, CompletedInstalled, Flagged
<1> QED BY <1>2, <1>3, TransferPatient, KickstartPatient, WorkPatient, AdministratePatient,
           HostPatient DEF Next, Crash, CannotConfigure

LEMMA PatientAlways == ASSUME Patient PROVE Spec /\ []Settled => []PatientInv
BY PatientInit, PatientNext, PTL DEF Spec

\* Where transfers end before the kickstart file is put together, and nobody starts
\* anything for a host in progress, the flag that ks.go:58 clears is not brought back
\* by what the handler and the worker save (ks.go:137, postconfig.go:99, :270).
THEOREM CompletedIsInstalled == ASSUME Patient PROVE Spec /\ []Settled => []CompletedInstalled
<1>1. PatientInv => CompletedInstalled
  BY DEF PatientInv
<1> QED BY <1>1, PatientAlways, PTL

\* An installation starts only in the kickstart handler, with the host waiting.
LEMMA InstallsWanted ==
  PatientInv /\ [Next]_vars => (stage # "installing" /\ stage' = "installing" => wanted # "no")
<1> SUFFICES ASSUME PatientInv, [Next]_vars, stage # "installing", stage' = "installing"
             PROVE  wanted # "no"
  OBVIOUS
<1>1. \A h \in Handlers : ~SendFile(h)
  BY DEF SendFile, After, PatientInv, TypeInv, TypeOK, Files
<1>2. PICK w \in Workers : KsServe(w)
  BY <1>1 DEF Next, Transfer, ReadFile, Kickstart, Answer, KsLoad, KsClear, KsError, Work, Begin,
              Recheck, Connect, Configure, Reboot, Await, Finish, Administrate, Reimage, Cancel,
              DeleteAddress, CreateAddress, PostConfigID, PowerCycle, Host, MissFile, Boot, Rise,
              Install, GiveUp, Crash, CannotConfigure, EndProcess, vars
<1>3. stage = "ks.cfg"
  BY <1>2 DEF KsServe
<1> QED BY <1>3 DEF PatientInv, Waiting, FlagWanted

\* ks.go:70: no installation starts that was not asked for, and none twice.
THEOREM InstalledOnceOnly == ASSUME Patient PROVE Spec /\ []Settled => InstalledOnce
<1>1. PatientInv /\ [Next]_vars => [stage # "installing" /\ stage' = "installing" => wanted # "no"]_vars
  BY InstallsWanted
<1> QED BY <1>1, PatientAlways, PTL DEF Spec, InstalledOnce

-----------------------------------------------------------------------------
(* Workers end. *)

LEMMA StepsLeftIn ==
  ASSUME NEW j \in Jobs, JobOK(j)
  PROVE  /\ StepsLeft(j) \in Nat
         /\ StepsLeft(j) <= 2 * Timeout + 9
         /\ j.pc # "free" => StepsLeft(j) > 0
BY DEF StepsLeft, Jobs, JobOK

\* A step of a worker: its program counter advances, or an attempt is used up.
LEMMA WorkWindsDown ==
  ASSUME TypeInv, NEW w \in Workers, Work(w)
  PROVE  StepsLeft(worker'[w]) < StepsLeft(worker[w])
<1> DEFINE j == worker[w]
           k == worker'[w]
<1>1. j \in Jobs /\ JobOK(j) /\ worker \in [Workers -> Jobs]
  BY TypeFacts DEF TypeInv
<1>2. Free.pc = "free" /\ StepsLeft(Free) = 0
  BY DEF Free, StepsLeft
<1>3. CASE k = Free
  <2>1. j.pc # "free"
    BY DEF Work, Begin, Recheck, Configure, Reboot, Await, Finish, Connect
  <2> QED BY <1>1, <1>2, <1>3, <2>1, StepsLeftIn
<1>4. CASE Begin(w)
  <2>1. j.pc = "start" /\ k.pc = "read" /\ k.i = j.i
    BY <1>1, <1>4 DEF Begin, Jobs
  <2> QED BY <1>1, <2>1 DEF StepsLeft, Jobs
<1>5. CASE Recheck(w) /\ k # Free
  <2>1. j.pc = "read" /\ k.pc = "connect" /\ k.i = j.i
    BY <1>1, <1>5 DEF Recheck, End, Jobs
  <2> QED BY <1>1, <2>1 DEF StepsLeft, Jobs
<1>6. CASE Configure(w)
  <2>1. j.pc = "configure" /\ k.pc \in {"certificate", "finish"} /\ k.i = j.i
    BY <1>1, <1>6 DEF Configure, Jobs
  <2> QED BY <1>1, <2>1 DEF StepsLeft, Jobs
<1>7. CASE Reboot(w)
  <2>1. j.pc = "certificate" /\ k.pc = "return" /\ k.i = j.i
    BY <1>1, <1>7 DEF Reboot, Jobs
  <2> QED BY <1>1, <2>1 DEF StepsLeft, Jobs
<1>8. CASE Await(w)
  <2>1. j.pc = "return" /\ k.pc \in {"finish", "reconnect"} /\ k.i = j.i
    BY <1>1, <1>8 DEF Await, Jobs
  <2> QED BY <1>1, <2>1 DEF StepsLeft, Jobs
<1>9. CASE Finish(w)
  BY <1>1, <1>3, <1>9 DEF Finish, End
<1>10. CASE Connect(w, "connect", "read", "configure")
  <2>1. /\ j.pc = "connect"
        /\ <<k.pc, k.i>> \in {<<"configure", j.i>>, <<"read", j.i + 1>>}
    BY <1>1, <1>10 DEF Connect, Jobs
  <2> QED BY <1>1, <2>1 DEF StepsLeft, Jobs
<1>11. CASE Connect(w, "reconnect", "return", "finish")
  <2>1. /\ j.pc = "reconnect" /\ j.i <= Timeout
        /\ <<k.pc, k.i>> \in {<<"finish", j.i>>, <<"return", j.i + 1>>}
    BY <1>1, <1>11 DEF Connect, Jobs, JobOK
  <2> QED BY <1>1, <2>1 DEF StepsLeft, Jobs
<1> QED BY <1>3, <1>4, <1>5, <1>6, <1>7, <1>8, <1>9, <1>10, <1>11 DEF Work

\* Nobody else changes a worker that is at work, but the end of the process.
LEMMA OthersLeaveWorkers ==
  ASSUME TypeInv, NEW w \in Workers, worker[w].pc # "free", [Next]_vars, ~Work(w)
  PROVE  worker'[w] = worker[w] \/ worker'[w] = Free
<1>1. worker \in [Workers -> Jobs] /\ Free.pc = "free"
  BY TypeFacts DEF Free
<1>2. CASE UNCHANGED worker
  BY <1>2
<1>3. ASSUME NEW v \in Workers, KsServe(v) \/ PostConfigID(v) PROVE worker'[w] = worker[w]
  BY <1>1, <1>3 DEF KsServe, PostConfigID, Start
<1>4. ASSUME NEW v \in Workers, Work(v) PROVE worker'[w] = worker[w]
  BY <1>1, <1>4 DEF Work, Begin, Recheck, Configure, Reboot, Await, Finish, Connect, End
<1>5. CASE EndProcess
  BY <1>5 DEF EndProcess
<1> QED BY <1>2, <1>3, <1>4, <1>5 DEF Next, vars, Transfer, ReadFile, SendFile, Kickstart, Answer,
       KsLoad, KsClear, KsError, Administrate, Reimage, Cancel, DeleteAddress, CreateAddress,
       PowerCycle, Host, MissFile, Boot, Rise, Install, GiveUp, Crash, CannotConfigure

LEMMA WindDownStep ==
  ASSUME TypeInv, [Next]_vars, NEW w \in Workers, worker[w].pc # "free"
  PROVE  worker'[w] = worker[w] \/ StepsLeft(worker'[w]) < StepsLeft(worker[w])
<1>1. CASE Work(w)
  BY <1>1, WorkWindsDown
<1>2. CASE ~Work(w)
  <2>1. StepsLeft(Free) = 0
    BY DEF Free, StepsLeft
  <2>2. StepsLeft(worker[w]) > 0
    BY StepsLeftIn, TypeFacts DEF TypeInv
  <2> QED BY <1>2, <2>1, <2>2, OthersLeaveWorkers
<1> QED BY <1>1, <1>2

\* Whatever administrators, hosts and other workers do, a worker gets through its
\* two loops (postconfig.go:108, :592): a bounded number of steps ends it, and
\* nothing adds to them, so that it ends wherever its goroutine goes on at all.
THEOREM WorkersGetDone == Spec => WorkersWindDown
<1> DEFINE Down ==
      \A w \in Workers :
        worker[w].pc # "free" =>
          worker'[w] = worker[w] \/ StepsLeft(worker'[w]) < StepsLeft(worker[w])
<1>1. TypeInv /\ [Next]_vars => [Down]_vars
  BY WindDownStep
<1> HIDE DEF Down
<1>2. Spec => [][Down]_vars
  BY <1>1, TypeInit, TypeNext, PTL DEF Spec
<1> QED BY <1>2 DEF WorkersWindDown, Down
=============================================================================
