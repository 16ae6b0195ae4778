----------------------------- MODULE Provisioning -----------------------------
(***************************************************************************)
(* The installation of one host: its row in the table addresses, the TFTP  *)
(* server (tftpd.go), the kickstart handler (api/ks.go), the workers that  *)
(* configure an installed host (api/postconfig.go), and the REST handlers  *)
(* by which administrators start and cancel a re-imaging.                  *)
(*                                                                         *)
(* Every goroutine keeps a copy of the row it read and writes the whole    *)
(* copy back with gorm's Save, which inserts the row again when it is gone *)
(* (finisher_api.go); the read and the write are steps of their own.  A    *)
(* REST handler is one step.                                               *)
(*                                                                         *)
(* The pool serves flagged hosts only, as the web interface creates pools: *)
(* a host whose row is not flagged gets no DHCP answer and boots from its  *)
(* disk.  The host is external; its stages are what the server answers to. *)
(* It asks again for a file it did not get, and gives up when it will.     *)
(***************************************************************************)
EXTENDS Integers

CONSTANTS
  Handlers,     \* bound: the TFTP transfers at one time
  Workers,      \* bound: the provisioning workers at one time
  Timeout,      \* the attempts of a worker to reach the host: 360
  Certificate,  \* the group has options.Certificate
  Anytime,      \* what administrators do even while the host is in progress
  MaxCrashes,   \* bound: the crashes of the process
  NoRow         \* the row is not there

ASSUME BoundAssumption ==
  /\ Timeout \in Nat \ {0} /\ MaxCrashes \in Nat
  /\ Certificate \in BOOLEAN

VARIABLES
  row,      \* the row of the host, or NoRow
  stage,    \* what the host is doing
  tftp,     \* per transfer, the handler
  ks,       \* the kickstart handler
  worker,   \* per worker slot, its program counter, copy and attempts
  wanted,   \* history: an installation was asked for, and has not started: "yes";
            \* the request was "withdrawn", the host "gave up"; otherwise "no"
  blank,    \* there is a row of no host, without an address
  crashes   \* counts the crashes

vars == <<row, stage, tftp, ks, worker, wanted, blank, crashes>>

Wanted == {"no", "yes", "withdrawn", "gave up"}

Progress == {0, 10, 12, 15, 50, 75, 90, 100}

Items == [reimage : BOOLEAN, progress : Progress]

ASSUME RowAssumption == NoRow \notin Items

\* The files a host loads in turn, and the progress each stands for.
Files == {"mboot.efi", "crypto64.efi", "boot.cfg"}

After(file) == CASE file = "mboot.efi" -> "crypto64.efi"
                 [] file = "crypto64.efi" -> "boot.cfg"
                 [] file = "boot.cfg" -> "ks.cfg"

Reached(file) == CASE file = "mboot.efi" -> 10
                   [] file = "crypto64.efi" -> 12
                   [] file = "boot.cfg" -> 15

Free == [pc |-> "free", file |-> "none", item |-> NoRow, i |-> 0]

Init ==
  /\ row = [reimage |-> FALSE, progress |-> 0]
  /\ stage \in {"off", "up"}
  /\ tftp = [h \in Handlers |-> Free]
  /\ ks = Free
  /\ worker = [w \in Workers |-> Free]
  /\ wanted = "no" /\ blank = FALSE /\ crashes = 0

(***************************************************************************)
(* The TFTP server.                                                        *)
(***************************************************************************)
\* readHandler: the host asks for a file, or asks again, and its row is read.
ReadFile(h) ==
  /\ stage \in Files /\ tftp[h] = Free
  /\ row # NoRow
  /\ tftp' = [tftp EXCEPT ![h] = [Free EXCEPT !.pc = "save", !.file = stage, !.item = row]]
  /\ UNCHANGED <<row, stage, ks, worker, wanted, blank, crashes>>

\* For a host without row the handler saves a row that it has not read: the table
\* gets one without an address, and there is no image to take the file from.
MissFile ==
  /\ stage \in Files /\ row = NoRow
  /\ blank' = TRUE
  /\ UNCHANGED <<row, stage, tftp, ks, worker, wanted, crashes>>

\* The row is saved with the progress of the file, and the file sent: the transfer
\* may fail then, and the host asks again.
SendFile(h) ==
  /\ tftp[h].pc = "save"
  /\ row' = [tftp[h].item EXCEPT !.progress = Reached(tftp[h].file)]
  /\ \/ stage = tftp[h].file /\ stage' = After(stage)
     \/ UNCHANGED stage
  /\ tftp' = [tftp EXCEPT ![h] = Free]
  /\ UNCHANGED <<ks, worker, wanted, blank, crashes>>

(***************************************************************************)
(* The kickstart handler.  It does not look at the flag.                   *)
(***************************************************************************)
KsLoad ==
  /\ stage = "ks.cfg" /\ ks = Free /\ row # NoRow
  /\ ks' = [Free EXCEPT !.pc = "clear", !.item = row]
  /\ UNCHANGED <<row, stage, tftp, worker, wanted, blank, crashes>>

\* Mutant: the flag is left as it is.
KsKeep ==
  /\ ks.pc = "clear"
  /\ ks' = [ks EXCEPT !.pc = "serve"]
  /\ UNCHANGED <<row, stage, tftp, worker, wanted, blank, crashes>>

\* Mutant: the flag is cleared in the table only, and the copy saved with it.
KsClearTable ==
  /\ ks.pc = "clear"
  /\ row' = IF row = NoRow THEN NoRow ELSE [row EXCEPT !.reimage = FALSE]
  /\ ks' = [ks EXCEPT !.pc = "serve"]
  /\ UNCHANGED <<stage, tftp, worker, wanted, blank, crashes>>

\* UPDATE addresses SET reimage = false, in the table and in the copy.
KsClear ==
  /\ ks.pc = "clear"
  /\ row' = IF row = NoRow THEN NoRow ELSE [row EXCEPT !.reimage = FALSE]
  /\ ks' = [ks EXCEPT !.pc = "serve", !.item.reimage = FALSE]
  /\ UNCHANGED <<stage, tftp, worker, wanted, blank, crashes>>

\* The UPDATE is refused, because of another row of the address without flag; or the
\* template is a bad one, when the flag has been cleared.  No worker is started.
KsError ==
  /\ ks.pc \in {"clear", "serve"} /\ ks' = Free
  /\ UNCHANGED <<row, stage, tftp, worker, wanted, blank, crashes>>

Start(w, item) ==
  worker' = [worker EXCEPT ![w] = [Free EXCEPT !.pc = "start", !.item = item, !.i = 1]]

\* The row is saved, a worker started, and the installation begins.
KsServe(w) ==
  LET item == [ks.item EXCEPT !.progress = 50] IN
  /\ ks.pc = "serve" /\ worker[w] = Free
  /\ row' = item
  /\ Start(w, item)
  /\ ks' = Free
  /\ IF stage = "ks.cfg" THEN stage' = "installing" /\ wanted' = "no"
                         ELSE UNCHANGED <<stage, wanted>>
  /\ UNCHANGED <<tftp, blank, crashes>>

(***************************************************************************)
(* ProvisioningWorker.                                                     *)
(***************************************************************************)
Saved(w, progress) == row' = [worker[w].item EXCEPT !.progress = progress]

End(w) == worker' = [worker EXCEPT ![w] = Free]

Begin(w) ==
  /\ worker[w].pc = "start" /\ Saved(w, 75)
  /\ worker' = [worker EXCEPT ![w].pc = "read", ![w].item.progress = 75]
  /\ UNCHANGED <<stage, tftp, ks, wanted, blank, crashes>>

\* The worker gives up after Timeout attempts, when the row is gone, and when
\* the re-imaging was cancelled; otherwise it takes a new copy of the row.
Recheck(w) ==
  /\ worker[w].pc = "read"
  /\ IF worker[w].i > Timeout \/ row = NoRow THEN End(w)
     ELSE IF row.progress = 0 THEN End(w)
     ELSE worker' = [worker EXCEPT ![w].pc = "connect", ![w].item = row]
  /\ UNCHANGED <<row, stage, tftp, ks, wanted, blank, crashes>>

\* Mutant: attempts are not counted.
ConnectForever(w, pc, again, connected) ==
  /\ worker[w].pc = pc
  /\ \/ stage = "up" /\ worker' = [worker EXCEPT ![w].pc = connected]
     \/ worker' = [worker EXCEPT ![w].pc = again]
  /\ UNCHANGED <<row, stage, tftp, ks, wanted, blank, crashes>>

\* govmomi.NewClient: it may fail while the host is up.
Connect(w, pc, again, connected) ==
  /\ worker[w].pc = pc
  /\ \/ stage = "up" /\ worker' = [worker EXCEPT ![w].pc = connected]
     \/ worker' = [worker EXCEPT ![w].pc = again, ![w].i = @ + 1]
  /\ UNCHANGED <<row, stage, tftp, ks, wanted, blank, crashes>>

\* The errors of the steps that configure a connected host are logged and dropped;
\* CannotConfigure has those that end the process.
Configure(w) ==
  /\ worker[w].pc = "configure"
  /\ \E pc \in IF Certificate THEN {"certificate", "finish"} ELSE {"finish"} :
       worker' = [worker EXCEPT ![w].pc = pc]
  /\ UNCHANGED <<row, stage, tftp, ks, wanted, blank, crashes>>

\* PostConfigCertificate: the host reboots with its new certificate.
Reboot(w) ==
  /\ worker[w].pc = "certificate" /\ Saved(w, 90)
  /\ worker' = [worker EXCEPT ![w].pc = "return", ![w].item.progress = 90]
  /\ stage' = IF stage = "up" THEN "reset" ELSE stage
  /\ UNCHANGED <<tftp, ks, wanted, blank, crashes>>

\* Mutant: the second loop has no limit.
AwaitForever(w) ==
  /\ worker[w].pc = "return"
  /\ worker' = [worker EXCEPT ![w].pc = "reconnect"]
  /\ UNCHANGED <<row, stage, tftp, ks, wanted, blank, crashes>>

\* The loop that waits for the host goes on counting the attempts of the first
\* one; running out of them returns no error.
Await(w) ==
  /\ worker[w].pc = "return"
  /\ worker' = [worker EXCEPT ![w].pc = IF worker[w].i > Timeout THEN "finish" ELSE "reconnect"]
  /\ UNCHANGED <<row, stage, tftp, ks, wanted, blank, crashes>>

Finish(w) ==
  /\ worker[w].pc = "finish" /\ Saved(w, 100)
  /\ End(w)
  /\ UNCHANGED <<stage, tftp, ks, wanted, blank, crashes>>

(***************************************************************************)
(* Administrators.                                                         *)
(***************************************************************************)
Quiet ==
  /\ stage \in {"off", "up"}
  /\ ks = Free
  /\ \A h \in Handlers : tftp[h] = Free
  /\ \A w \in Workers : worker[w] = Free

Allowed(deed) == deed \in Anytime \/ Quiet

\* Mutant: the flag of the form is not taken.
ReimageUnflagged ==
  /\ Allowed("reimage") /\ row # NoRow
  /\ row' = [row EXCEPT !.progress = 0] /\ wanted' = "yes"
  /\ UNCHANGED <<stage, tftp, ks, worker, blank, crashes>>

\* UpdateAddress with the form of the button that starts a re-imaging.
Reimage ==
  /\ Allowed("reimage") /\ row # NoRow
  /\ row' = [reimage |-> TRUE, progress |-> 0] /\ wanted' = "yes"
  /\ UNCHANGED <<stage, tftp, ks, worker, blank, crashes>>

Withdraw == wanted' = IF wanted = "yes" THEN "withdrawn" ELSE wanted

\* ... and of the button that cancels it.
Cancel ==
  /\ Allowed("cancel") /\ row # NoRow
  /\ row' = [reimage |-> FALSE, progress |-> 0] /\ Withdraw
  /\ UNCHANGED <<stage, tftp, ks, worker, blank, crashes>>

DeleteAddress ==
  /\ Allowed("delete") /\ row # NoRow
  /\ row' = NoRow /\ Withdraw
  /\ UNCHANGED <<stage, tftp, ks, worker, blank, crashes>>

CreateAddress ==
  /\ Allowed("create") /\ row = NoRow
  /\ \E flag \in BOOLEAN :
       /\ row' = [reimage |-> flag, progress |-> 0]
       /\ wanted' = IF flag THEN "yes" ELSE wanted
  /\ UNCHANGED <<stage, tftp, ks, worker, blank, crashes>>

\* A worker for a host that is not being installed, started by hand; a patient
\* administrator starts it for a host that was completed.
PostConfigID(w) ==
  /\ Allowed("configure") /\ row # NoRow /\ worker[w] = Free
  /\ "configure" \in Anytime \/ row.progress = 100
  /\ Start(w, row)
  /\ UNCHANGED <<row, stage, tftp, ks, wanted, blank, crashes>>

(***************************************************************************)
(* The host, and the process.                                              *)
(***************************************************************************)
PowerCycle ==
  /\ Allowed("restart") /\ stage' = "reset"
  /\ UNCHANGED <<row, tftp, ks, worker, wanted, blank, crashes>>

Flagged == row # NoRow /\ row.reimage

\* The DHCP server answers a flagged host only; otherwise there is the disk,
\* which may hold no system.
Boot ==
  /\ stage = "reset"
  /\ IF Flagged THEN stage' = "mboot.efi" ELSE stage' \in {"off", "disk"}
  /\ UNCHANGED <<row, tftp, ks, worker, wanted, blank, crashes>>

\* The system is up and serves its SOAP interface.
Rise ==
  /\ stage = "disk" /\ stage' = "up"
  /\ UNCHANGED <<row, tftp, ks, worker, wanted, blank, crashes>>

\* The kickstart file ends with a reboot.
Install ==
  /\ stage = "installing" /\ stage' = "reset"
  /\ UNCHANGED <<row, tftp, ks, worker, wanted, blank, crashes>>

\* The host stops to wait for a file or for its kickstart file.
GiveUp ==
  /\ stage \in Files \cup {"ks.cfg"} /\ stage' = "off"
  /\ wanted' = IF wanted = "yes" THEN "gave up" ELSE wanted
  /\ UNCHANGED <<row, tftp, ks, worker, blank, crashes>>

\* Nothing resumes what was running.
EndProcess ==
  /\ tftp' = [h \in Handlers |-> Free]
  /\ ks' = Free
  /\ worker' = [w \in Workers |-> Free]
  /\ UNCHANGED <<row, stage, wanted, blank>>

\* A connected host without a host system leaves the worker with nil, which panics
\* outside of a request; a CA that cannot be read is log.Fatal.
CannotConfigure(w) ==
  /\ worker[w].pc = "configure" /\ EndProcess
  /\ UNCHANGED crashes

Crash ==
  /\ crashes < MaxCrashes /\ crashes' = crashes + 1
  /\ EndProcess

Transfer(h) == ReadFile(h) \/ SendFile(h)

Answer == KsClear \/ KsError \/ \E w \in Workers : KsServe(w)

Kickstart == KsLoad \/ Answer

Work(w) ==
  \/ Begin(w) \/ Recheck(w) \/ Configure(w) \/ Reboot(w) \/ Await(w) \/ Finish(w)
  \/ Connect(w, "connect", "read", "configure")
  \/ Connect(w, "reconnect", "return", "finish")

Administrate ==
  \/ Reimage \/ Cancel \/ DeleteAddress \/ CreateAddress
  \/ \E w \in Workers : PostConfigID(w)

Host == Boot \/ Rise \/ Install \/ GiveUp

Next ==
  \/ \E h \in Handlers : Transfer(h)
  \/ Kickstart
  \/ \E w \in Workers : Work(w) \/ CannotConfigure(w)
  \/ MissFile \/ Administrate \/ PowerCycle \/ Host \/ Crash

\* Goroutines are scheduled fairly; the host goes on by itself, and need not ask
\* for anything, but does not wait for ever; a host that is to be installed is
\* restarted in the end.
Fairness ==
  /\ \A h \in Handlers : WF_vars(SendFile(h))
  /\ WF_vars(Answer)
  /\ \A w \in Workers : WF_vars(Work(w))
  /\ WF_vars(Host)
  /\ WF_vars(Flagged /\ PowerCycle)

Spec == Init /\ [][Next]_vars /\ Fairness

(***************************************************************************)
(* Properties.                                                             *)
(***************************************************************************)
Copies == Items \cup {NoRow}

\* The types of the variables; a worker makes Timeout attempts, in both of its
\* loops together.
TypeOK ==
  /\ row \in Copies
  /\ stage \in Files \cup {"ks.cfg", "installing", "off", "reset", "disk", "up"}
  /\ tftp \in [Handlers -> [pc : {"free", "save"}, file : Files \cup {"none"}, item : Copies,
                           i : {0}]]
  /\ ks \in [pc : {"free", "clear", "serve"}, file : {"none"}, item : Copies, i : {0}]
  /\ worker \in [Workers -> [pc : {"free", "start", "read", "connect", "configure", "certificate",
                                   "return", "reconnect", "finish"},
                             file : {"none"}, item : Copies, i : 0 .. Timeout + 1]]
  /\ wanted \in Wanted /\ blank \in BOOLEAN /\ crashes \in 0 .. MaxCrashes

\* ks.go:70 "Disabling re-imaging for host to avoid re-install looping": every
\* installation that starts was asked for, and each request starts one.
InstalledOnce == [][stage # "installing" /\ stage' = "installing" => wanted # "no"]_vars

\* ks.go:58, :70: a host that is shown as completed is not installed again when it
\* restarts, and no request for it is outstanding: the flag is cleared in the table
\* and in the copy that the kickstart handler saves and hands to the worker, and
\* neither of them brings it back.
CompletedInstalled ==
  row # NoRow /\ row.progress = 100 => ~row.reimage /\ wanted # "yes"

\* The transfers of a host are over when its kickstart file is put together, the
\* ones it asked for again included.
Settled == ks # Free => \A h \in Handlers : tftp[h] = Free

\* A request does not stay open: the host is installed, or it gave up waiting for a
\* file or its kickstart file, or the request is withdrawn, whether or not the server
\* crashes or answers with an error.
RequestServed == wanted = "yes" ~> wanted # "yes"

\* A worker ends: its two loops share one count of attempts.
WorkersEnd == \A w \in Workers : worker[w].pc # "free" ~> worker[w].pc = "free"

\* The steps a worker has left at most, by the attempts it has left.
StepsLeft(job) ==
  LET attempts == Timeout + 1 - job.i IN
  CASE job.pc = "start"       -> 2 * attempts + 7
    [] job.pc = "read"        -> 2 * attempts + 6
    [] job.pc = "connect"     -> 2 * attempts + 5
    [] job.pc = "configure"   -> 2 * attempts + 4
    [] job.pc = "certificate" -> 2 * attempts + 3
    [] job.pc = "return"      -> 2 * attempts + 2
    [] job.pc = "reconnect"   -> 2 * attempts + 1
    [] job.pc = "finish"      -> 1
    [] job.pc = "free"        -> 0

\* What ends a worker, without fairness: each of its steps takes it nearer to its
\* end, through both loops, and nothing else sets it back, whatever is done to
\* the host and its row meanwhile.
WorkersWindDown ==
  [][\A w \in Workers :
       worker[w].pc # "free" =>
         worker'[w] = worker[w] \/ StepsLeft(worker'[w]) < StepsLeft(worker[w])]_vars
=============================================================================
