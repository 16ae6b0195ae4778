# Verification of go-via

go-via installs VMware ESXi hosts over the network. It is one Go process: a DHCP server, a TFTP server, an HTTPS
server with a REST interface, a kickstart endpoint and a web interface, one goroutine per installed host that
configures it, and a websocket log feed. All of them share one sqlite database through gorm; there are no
transactions and, but for the log server, no locks. This directory holds the TLA+ model of that program, its
TLC runs and its TLAPS proofs. Paths below are relative to the repository's root.

## Inventory

| Component | State | Operations | Modelled by |
|---|---|---|---|
| DHCP server: `serve.go`, `dhcp.go` | none of its own; table `addresses` | DISCOVER, REQUEST, DECLINE | `Dhcp` |
| Address pools: `models/pool.go`, `models/address.go`, `api/pools.go` | tables `pools`, `addresses` | availability, next free address, `FindPool`, create, update, delete | `AddressPool`, `PoolQuery`, `Dhcp`, `Inventory` (in part) |
| Addresses REST: `api/addresses.go` | table `addresses` | create, update, delete | `Dhcp`, `Provisioning`, `Inventory` (in part) |
| Kickstart: `api/ks.go` | table `addresses` | serve `ks.cfg`, clear the flag, start a worker | `Provisioning`, `Dhcp`, `Inventory` (references) |
| Provisioning worker: `api/postconfig.go` | its copy of a row, its attempts | wait for the host, configure it, install a certificate, report | `Provisioning`; its saves `Dhcp`, `Inventory` |
| TFTP server: `tftpd.go` | table `addresses` | serve boot files, record progress | `Provisioning`; its saves `Dhcp`, `Inventory` |
| Log server: `websockets/main.go` | history, subscribers | hook, subscribe, close slow clients | `LogServer`, `LogFeed` |
| DHCP options: `AddOptions`, `models/option.go`, `api/options.go`, `api/device_classes.go` | tables `options`, `device_classes` | choose options by level, create, update, delete | `DhcpOptions`; the built-in classes `Startup` |
| Images: `api/image.go` | table `images`, directories | upload, check, unpack, update, delete | `Inventory` |
| Groups: `api/groups.go` | table `groups` | create, update, delete | `Inventory` (references), `Startup` (password) |
| Users: `api/users.go`, `api/login.go` | table `users` | create, update, delete, login | `Startup` |
| Start-up: `main.go`, `secrets/`, `crypto/`, `db/` | key and certificate files, the database | start, restart | `Startup` |
| iLO check, version, log formatter, web interface, generated code | none | | not modelled: stateless, presentation or generated |

**Interactions.** The DHCP server gives a host its address, and, in a pool that serves flagged hosts only
(`OnlyServeReimage`), decides by the flag `reimage` of its row whether it boots from the network at all. The host
then loads `mboot.efi`, `crypto64.efi` and `boot.cfg` by TFTP and `ks.cfg` by HTTPS; each handler looks the row up
by the host's address, changes it, and saves it whole. `Ks` clears the flag, so that the installed host boots from
its disk, and starts a worker, which polls the host, configures it and reports it as completed. Administrators set
and reset the flag and the progress through the same table; progress 0 is how a worker learns that it is cancelled.

A host names its group and its pool, a group its pool and its image, an image the directory it was unpacked to. The
database knows no foreign keys: only the handlers keep these names valid. A group's password is encrypted with the key
that the first start wrote to `secret/secret.key`, and the TFTP and kickstart handlers and the workers need all of it: the
group, the image's files, the password.

**What is hard.** Every handler reads a row, works on its copy and writes the copy back, so any two of them may
undo each other. Availability is checked on rows loaded earlier, and the table has a unique index on
`(ip, reimage)` whose refusals are dropped. Rows come back after they were deleted, because gorm's `Save` inserts
what it cannot update. A client's lease and the server's record of it have clocks of their own. Workers last for up
to an hour and vanish with the process. The history of the log server is shared with its readers without a lock.
What is deleted is checked to be unused before, not while, it is deleted. An upload makes a file, a directory and a row,
one after the other, and may stop in between. The first start writes several files and rows, and later starts take what
they find to be complete.

**What makes each component correct.**
DHCP: an address has one holder, a packet for one client costs no other its lease, what is offered is granted, a
running lease can be renewed. Options: a client is sent those of the highest level that are meant for it. Pools: the scan finds the least free address. Provisioning: each request installs a
host once, a completed host is not about to be installed again, a worker ends. Log server: order, no loss for an open
subscriber, an intact history, logging that never waits. Pools, groups and images: references resolve, the files of an
image in use stay, only complete images are listed, what one request deletes does not end the process in another.
Start-up and accounts: every start ends in a complete server, what was encrypted can be decrypted, a user logs in with
the last password and, as far as bcrypt tells passwords apart, no other.

## Plan

1. `AddressPool`, `PoolQuery`, `Dhcp`, abstract `LeaseService`; proofs of the scan, of types, exclusive leases and the
   refinement. *Done.*
2. `Provisioning`: TFTP, kickstart, worker, administrators, host, with `ProvisioningProofs`. *Done.*
3. `LogServer`, abstract `LogFeed`, with `LogServerProofs`. *Done.*
4. `DhcpOptions`: `AddOptions` against the levels its comment lists, with `OptionsProofs`. *Done.*
5. `Inventory`: pools, groups, images and their directories, with `InventoryProofs`. *Done.*
6. `Startup`: start, crash and restart, and the passwords that outlive them, with `StartupProofs`. *Done.*
7. The edit form that changes `ip` or `mac`, with the writers of `Dhcp`. Two interfaces serving two networks: `Dhcp` with several pools, whose handlers decide of different addresses
   (`Apart`) though not one at a time, and the theorems with it.

## Modules

### AddressPool

Pure definitions, no variables. An address is a number; a pool is a record with `block`, the size of its network.
`Contains`, `IsAvailableExcept`, `IsAvailable` and `Next` (whose loop is `Scan`) are the methods of `models/pool.go`;
an error is `NoIP`, or falsity. `IsAvailable` excludes the empty MAC address, as the code does. `Insert` and `Save`
are gorm's `Create` and `Save` on a set of rows under the unique index. `Scan` is a recursive function, so that the
modules proved about may extend this one. `Last` is the last address it may reach: where it can stop, or else the end
of the network.

### PoolQuery

`Next` asked once, of any pool and any table: `pool` and `rows` are chosen, `answer` is what `Ask` makes of them. What the
answer is to be, `Usable`, is said without `IsAvailableExcept`: the addresses that no row reserves or leases.
`NextIsLeastFree` is stated of tables in which no declined address is blocked (`NoneBlocked`). A DECLINE is meant to
"block that address from being used for a while" (`dhcp.go:278`), but it does so with a row without MAC address, which
is what `IsAvailable` passes over (`pool.go:107`): of such a table the code offers the declined address again.

### Dhcp

`rows` is the table, `only` the pool's flag, `now` the clock, `proc` the packet each interface's goroutine is handling,
`held` the copy of a row that each other writer of the table is going to save, `client` what the clients remember: an
address, and until when they may use it. A packet is handled in up to four steps, and the writers act between them:

| Code | Action |
|---|---|
| `serve` receives; reservations and `FindPool` are read | `Discover`, `Request`, `Decline` |
| `processDiscover` decides and answers | `HandleDiscover` |
| `processRequest`: NAK / no answer / lease filled in | `RefuseRequest` / `IgnoreRequest` / `GrantRequest` |
| `Create`, then ACK | `CreateLease` |
| `DELETE` of an expired row of the address | `PurgeLease` |
| `Save`, then ACK | `SaveLease` |
| `processDecline`, then the nil response is dereferenced and the process ends | `HandleDecline` |
| `CreateAddress`, `DeleteAddress`, `UpdatePool` | `CreateHost`, `DeleteHost`, `UpdatePool` |
| `UpdateAddress`: load (`addresses.go:226`) / `Save` (`:245`) | `LoadUpdate` / `SaveCopy` |
| `readHandler`: load / `Save` (`tftpd.go:79`, `92`, `208`) | `LoadTransfer` / `SaveCopy` |
| `Ks`: load / `UPDATE reimage` / `Save` (`ks.go:137`), then a worker | `LoadKickstart` / `ClearFlag` / `SaveCopy` |
| `PostConfig`, `PostConfigID`: load, then a worker | `StartWorker` |
| worker: `Save` 75, 90, 100 (`postconfig.go:99`, `590`, `270`) / its loop reads the row again (`:117`) | `SaveCopy` / `Poll` |

Reservations are read again at each availability check, so `AvailableTo` and `Available` look at `rows` as well as at
the loaded list. An answer may be lost (`Answer`); a client may repeat a request, and may ask for an address it had
long ago. A client's lease starts when it asked, the record when the server wrote it.

Every writer saves its copy whole: address, MAC address, expiry and flag as they were when it loaded them, and gorm's
`Save` inserts the row again if it is gone. So a host may come back with its lease: an update loads the row (1, address
5, A, not flagged, leased), the row is deleted, 5 is granted to B, and the update inserts (1, 5, A, flagged, leased)
again, which does not clash with B's row because the flag differs. Then two leases of 5 run, with one interface. Nothing in
the code prevents it, and the model does not either: TLC finds it within `Spec`. `SavesFresh` is the hypothesis under
which the leases are exclusive, of the run and of the theorems: when a copy with a running lease is saved, the table
still has that lease. It is about running leases only: a copy of a host without a lease, or of one whose lease
has ended, may be saved at any time, over a row that was re-flagged or renewed or in place of one that was deleted, and
a copy with a running lease may shorten it, or set a flag that was cleared.

Abstractions: there is one pool (an interface's network); the two loading queries are one step, and so is what
`CreateAddress` and `DeleteAddress` do; of a writer's copy the progress and the group are left out (`Provisioning`,
`Inventory`), and so is the row without address that a transfer makes when there is none for the client
(`Provisioning!MissFile`, `Inventory!LoadTransfer`); a worker may take any time between its steps, and only the last of
its reads matters; a client remembers one address and asks for no other; DECLINE names an address; a row without pool
occurs only among the initial tables; the edit form that changes `ip` or `mac` is left out; the database is never
busy; the server's zone is UTC, where `datetime('now','utc')` is the time in whole seconds: `PurgeLease` takes this
instant or the one before. A new row has the id after the largest one, as sqlite assigns it without AUTOINCREMENT.

### LeaseService

What the DHCP server promises about the leases it records: who holds an address. Granting gives an address to nobody
but its holder or to whoever finds it free and costs no other client anything; otherwise an address is lost by time or
withdrawn, one at a time: declined, deleted, or written over by an older copy of its row. `Dhcp` implements it under
`holder <- HolderOf`, when saves are fresh (`SavesFresh`) and one handler at a time decides (`OneAtATime`).
`Apart`, that no two decide of the same address at a time, is less; one interface, `SingleListener`, ensures both.

### DhcpOptions

`options`, `classes` and `hosts` are the tables; a device class is the set of clients whose vendor class contains its
own. `Selected` is the query of `AddOptions`, `Before` its order, `Group` the loop that keeps the highest level, `Sent`
what the answer gets from the table. Nothing of the answer is kept, so the properties
quantify over the answers that may be given in a state: over the client, the id of its lease and the codes it requests.
That id is none in an OFFER to a client without a usable row, and 0 in the ACK of a new lease, which is written after its
options were chosen. The other actions are the REST handlers; `UpdateOption` leaves the columns that are 0 in the form,
as mergo does. `lost` is history: the row an option refers to was deleted, and a later row may have its id.
`HighestLevelSent` leaves two cases out, because the code does not do what its list says there: options of a class for
all pools, which the query never selects for a lease with an id, and options that name both a pool and an address.
Abstractions: a client has one row and sends one vendor class; `number` tells whether the data of a numeric
code is a number; the bytes of an option are left out, and so is the row's list of missing options. What the server
makes itself for a code that nothing is configured for is not modelled, the panic of a route list (121) in a pool
whose gateway does not parse (`dhcp.go:432`) included.

### Provisioning

One host and its row, `row`. `stage` is what the host is doing: the file it asks for next, `installing`, `reset`,
`disk` (booting), `up` or `off`. `tftp`, `ks` and `worker` are goroutines with the copy of the row each holds.

| Code | Action |
|---|---|
| `readHandler` reads the row / saves its progress and sends the file, or fails to | `ReadFile` / `SendFile`; `MissFile` without a row |
| `Ks`: lookup / `UPDATE reimage` / save, `go ProvisioningWorker`, answer | `KsLoad` / `KsClear` / `KsServe` |
| `Ks`: the `UPDATE` is refused (`ks.go:58`), the template is bad (`:112`) | `KsError` |
| worker: save 75 / loop head / `NewClient` / configuration | `Begin` / `Recheck` / `Connect` / `Configure`, `CannotConfigure` |
| `PostConfigCertificate`: reboot, save 90 / second loop | `Reboot` / `Await`, `Connect` |
| save 100 | `Finish` |
| PATCH of the two buttons, DELETE, POST, `/postconfig` | `Reimage`, `Cancel`, `DeleteAddress`, `CreateAddress`, `PostConfigID` |

`CannotConfigure` ends the process: a connected host that answers without its host system leaves the worker with a nil,
since the errors at `postconfig.go:155-166` are logged and dropped, and an unreadable CA is a `logrus.Fatal`
(`crypto/main.go:69`). `MissFile` leaves a row without an address in the table (`blank`): the transfer saves a row that it
never read.

The host (`Boot`, `Rise`, `Install`, `GiveUp`, `PowerCycle`) is external. `wanted` is a history variable: a request
was made and no installation has started since (`yes`), it was cancelled or its host deleted (`withdrawn`), or the host
stopped waiting for a file (`gave up`). `Anytime` names what administrators do even while the host is
in progress; everything else they do only when the server is doing nothing for it. Abstractions: the
table holds one row for the host's address, and it is the last of the table, so that a host created after a deletion
has its id; the DHCP exchange of a booting host and what a REST handler does to the row are one step each (`Dhcp` has the
two steps of an update); the names of files are in one case; configuration commands have no effect on the row; the
progress of an upload and the callback at the end are left out. `Settled` is a hypothesis of runs and theorems, not
of the model: no transfer is under way while the kickstart file is put together. `StepsLeft` counts the steps
that a worker has left at most, by its place and its attempts. `MCProvisioning` adds `SettledSpec`, the behaviours
that are settled throughout. A call to the host returns: `NewClient` is given a
context without deadline, and if it hung for ever the worker would, too.

### LogServer

Messages are numbered. `history` is a slice (array, first cell, length) and `heap` holds the backing arrays, because
`subscribe` copies the slice header under the lock and reads the cells without it. `append` writes in place when the
array has a cell left and else allocates, with a spare capacity that is the runtime's choice. `Fire` is two steps,
`Send` and `Record`, both under `subscribersMu` (`firing`), so that a snapshot may fall between them. logrus runs
its hooks under a mutex, so messages do not overlap.

### LogFeed

What the log server promises a client, without arrays, snapshots and closing goroutines: a copy of the last messages
(`Latest`), what is waiting for it (`todo`) and what it got (`got`). `Subscribe` needs the copy to be sent and no
message to be half logged; a client is let go (`Closed`) before it comes to more than its queue holds. `LogServer`
implements it under `FeedOf`: what is waiting for a client that is sending its history is the part of the shared array it
has not sent, read as it is now.

### Inventory

`pools`, `images`, `groups` and `hosts` are the tables, of which only ids and references are kept; `iso` and `dir` are the
uploaded file and the directory of each name. `req` holds the requests and workers under way: the operation, its next
step, and its local variables. `died` is history: a race of requests ended the process.

| Code | Action |
|---|---|
| `CreatePool`; `UpdatePool`: load / save; `DeletePool`: check / delete | `CreatePool`; `LoadPool` / `SavePool`; `CheckPool` / `DeletePool` |
| `CreateImage`: create the file / copy / hash / open / unpack and remove the file / row | `CreateFile` / `WriteFile` / `CheckHash` / `OpenFile` / `Unpack` / `CreateImage` |
| `UpdateImage`: load / save; `DeleteImage`: check / directory / row | `LoadImage` / `SaveImage`; `CheckImage` / `RemoveAll` / `DeleteImage` |
| `CreateGroup`: form / row; `UpdateGroup`; `DeleteGroup`: check / delete | `FillGroup` / `CreateGroup`; `LoadGroup` / `SaveGroup`; `CheckGroup` / `DeleteGroup` |
| `CreateAddress`: form / row; `UpdateAddress`; `DeleteAddress` | `FillHost` / `CreateAddress`; `LoadAddress` / `SaveAddress`; `DeleteAddress` |
| `processRequest`, `processDecline`: load / write, for what they do to pool and group | `LoadLease` / `SaveLease` |
| `readHandler`; `Ks` | `LoadTransfer` / `SaveTransfer`; `LoadKickstart` / `ServeKickstart` |
| the worker: start / first save / loop's read / last save | `StartWorker` (or after `Ks`) / `SaveWorker` / `ReadWorker` / `EndWorker`, `FailWorker` |

Hosts need not have a group: the rows that DHCP makes have none (`dhcp.go:212`), and those of a transfer to an unknown
client have neither group nor pool. Three things end the process, and with it all requests. A deletion race: a worker
that finds the group of its host gone decrypts nothing and panics outside of a request (`postconfig.go:82`), an upload
whose file another one removed is a `log.Fatal` (`Die`). A worker for a host that never had a group panics at the same
line (`StartWorker`, its last disjunct). And a worker fails to configure its host (`FailWorker`, as `CannotConfigure` above).
`RacesSurvived` is about the first; the other two need no race and are simply left to happen.

The code does not keep requests from disturbing each other. What it leaves to its users is `Orderly`, in three parts.
`Separate`: no request deletes a row while another one is going to save a row that refers to it, to save that row
itself, or to delete it, too (`Against`). `Named`: groups have names. `OwnNames`: a file name belongs to one image or one
upload. Each is a predicate of the state that theorems assume of a behaviour, and `OrderlySpec` are the behaviours that
have it throughout; nothing of `Next` depends on it.

Two things of gorm decide the outcome. `SaveHost`: a row loaded with its group and pool is saved with them, so that
they are inserted again if they are gone. `ReadWorker`: reading a row into a filled structure replaces its columns,
not its associations, and the next save writes the ids of the old pool back. `InUse` is the check before a deletion:
the first group found is in the way only if it has a name.

Abstractions: one file per upload request; removing a directory does not fail, nor does reading the form; the
queries of one `Preload` are one step; which address a lease is of, and whether it is granted, is left to `Dhcp`. Forms choose from the lists of existing rows, as the web interface does, which they need not be
any more when the request comes to its write.

### Startup

`pc` is what `main` is about to do, in its order; a file is absent (`None`), created and not written (`Blank`), or a number
that says which draw of keys it holds. `given` and `touched` are history: the password last set for each user, and the
built-in device classes that administrators made, edited or deleted. A row of `classes` is what it has of name and vendor
class: those of a built-in class, or other ones; `FirstOrCreate` looks for both.

| Code | Action |
|---|---|
| `secrets.Init`: look / create and write | `FindSecret` / `WriteSecret` |
| `db.Connect`; `AutoMigrate`; the two device classes; the administrator | `Connect`; `AutoMigrate`; `CreateBuiltin`; `CreateAdmin` |
| `server.crt` looked for; `CreateCA`, `CreateCert`; `RunTLS` | `FindCertificate`; `CreateFile`, `WriteFile` of each file; `RunTLS` |
| `CreateUser`; `UpdateUser`: load / save; `DeleteUser` | `CreateUser`; `LoadUser` / `SaveUser`; `DeleteUser` |
| `CreateGroup`; `UpdateGroup`: load / save; `DeleteGroup`, for the password | `CreateGroup`; `LoadGroup` / `SaveGroup`; `DeleteGroup` |
| `CreateDeviceClass`; `UpdateDeviceClass`: load / save; `DeleteDeviceClass` | `CreateDeviceClass`; `LoadDeviceClass` / `SaveDeviceClass`; `DeleteDeviceClass` |
| `Login`, `BasicAuth` | the operator `Login` |

The process is started again (`Start`) after a crash or an end of its own, by the cluster that runs
`deploy/k8s-deployment.yaml` or by hand. Abstractions: a password is the classes of its characters, its length and its
first 72 bytes (`first`), which is what the checks and bcrypt look at: hashing refuses more than 72 bytes, while comparing
has no limit and reads the first 72; passwords with a NUL are left aside; a hash is what was hashed and how often;
a file cut off in writing counts as not written; the database file is made in one step and `FirstOrCreate` is one;
the three directories outlive the process, as volumes (`deploy/compose.yaml`); the configuration is fixed.

## Runs

| Run | Bounds | Shows |
|---|---|---|
| `dhcp_leases` | 2 clients, 1 interface, 1 writer, a network of 4 with a pool of 1 address, times 0 and 1, 1 edit, ids up to 2; `SavesFresh` | `TypeOK`, `RecordedExclusive`, `LiveLeaseKept`, `LeaseServiceSpec`, `OfferAccepted`, `RenewalGranted` hold |
| `dhcp_double_hold` | a pool of 2, times 0 to 2, no writers or edits | `NoDoubleHold` fails |
| `dhcp_two_interfaces` | the same with 2 interfaces and a table of 3 rows | `RecordedExclusive` fails without `SingleListener` |
| `address_pool` | every pool of a network of 4, tables of up to 2 rows, declined addresses among them | `NextIsLeastFree` holds |
| `dhcp_options` | 2 clients, 2 options of 2 codes and 2 pools, 1 class, 2 hosts | `TypeOK`, `HighestLevelSent` hold |
| `dhcp_options_meant` | the same | `OptionsMeantForHost` fails |
| `provisioning` | 2 transfers, `Settled`; 2 workers, 2 attempts, 1 crash; cancel and delete at any time | `TypeOK`, `CompletedInstalled`, `InstalledOnce`, `RequestServed`, `WorkersEnd`, `WorkersWindDown` hold |
| `provisioning_reinstall` | 2 transfers, not `Settled` | `InstalledOnce` fails |
| `log_server` | 2 clients, history of 2, buffer of 1, 3 messages | `TypeOK`, `HistoryIsLast`, `SnapshotKept`, `InOrder`, `SubscriberComplete`, `LoggingProceeds`, `ClosedLeaves`, `LogFeedSpec` hold |
| `inventory` | 1 pool, 2 images, 2 names, 2 groups, 1 host, 2 requests; `Orderly` | `TypeOK`, `RefsResolve`, `RacesSurvived`, `UsedFilesKept`, `ListedComplete` hold |
| `inventory_shared_files` | 2 pools, 1 group, 1 request; `Named`, not `OwnNames` | `UsedFilesKept` fails |
| `startup` | 2 names, the administrator and 1 user, 1 group, 1 class besides the built-in ones, 3 and 4 passwords in forms, 1 update at a time, 1 crash | `TypeOK`, `PasswordsReadable`, `LoginWorks`, `ServesComplete`, `ServesUnlessTorn` hold |

**Why the bounds are enough.** Two clients suffice for one to take, block or lose what the other has, and one address to
quarrel about; the initial tables have more: a host at another address without a pool, a managed host, a host created
twice, an address of two hosts, flagged and not. Two rows are all an address can have. Two instants let a lease run,
end and be taken over while a handler or a writer is between its steps; one copy that is held is one more than the
handler's, and an update's, a transfer's, a kickstart's and a worker's are all tried; one edit is a deletion, a creation or
the load of an update, and what two edits would do begins in the initial tables. The scenario of `SavesFresh`, whose lease is
granted, loaded, withdrawn, granted to another and saved back, fits into these bounds: with `Spec` in place of
`FreshSpec` the run finds all four lease properties violated. Two options show every pair of levels, and a pair is what
one level has to prevail over; code 51 is numeric, code 6 is not. `Timeout` 2 lets a worker
fail in either loop and in both. A history of 2 with three messages is filled and shifted, with and without spare
capacity, while a client is reading it; a buffer of 1 is full after one message. Two requests
are what an interleaving needs, two images what a group can move between, and two groups a host, while one is deleted; a
pool is checked and deleted as an image is; a deleted id that was the largest is given out again. The passwords of the forms lie on both sides of each check: three classes, seven
characters, 72 bytes, none at all; the two long ones have their first 72 bytes in common. One crash cuts a first start
off anywhere, and the second start meets what it left, edited device classes included.

**Violations** are what the code does against its own words: the ACK of a lease that was not recorded
(`dhcp.go:244`), the check and write that two interfaces interleave, the flag a repeated TFTP request brings back
(`tftpd.go:205`), the options of other pools in the ACK of a new lease (`dhcp.go:344`), and the directory that a second
upload of a name, and then the deletion of either image, takes from an image in use (`api/image.go:155`).
The models show more, for which there is no run: a stale save brings back a lease whose address is another client's by
now (`addresses.go:245`, above); a declined address is offered again, since availability passes over its row
(`dhcp.go:312`, `pool.go:107`); anybody without a password logs in as a user whose password was too long and who was then
updated without one (`api/users.go:180`); a certificate that timed out is reported as completed
(`api/postconfig.go:598`); a slow subscriber may be sent later messages before it is closed (`websockets/main.go:56`).

**What the passing run of `Dhcp` assumes** is `SavesFresh`, described above; nothing enforces it. Crashes, deletions,
declines, time and every other save of a copy are left free. `OfferAccepted` needs no hypothesis, but says of itself
that the client has one row at most: of two rows DISCOVER takes the first usable one and REQUEST the last, and what is
offered may then be refused.

**What the passing runs of `Provisioning` assume.** With nothing in `Anytime` but `cancel` and `delete`, an
administrator starts or configures a host, creates or restarts it, only while nothing is in progress for it (`Patient`). A
host may ask for a file again while its first request is still served, but all transfers end before its kickstart file
is put together (`Settled`). The code enforces neither. Adding any of `reimage`, `create`, `configure` or `restart` to
`Anytime` breaks `CompletedInstalled`: a worker that is past its loop writes 100 over the new request. All but `restart` break
`InstalledOnce` as well: a worker that took its copy while the host was flagged saves the flag again after the
installation. A transfer that outlasts the kickstart handler's lookup does the same: that is the run
`provisioning_reinstall`. `CompletedInstalled` is
about the flag: that a worker completes a host whose re-imaging was cancelled meanwhile, and overwrites the progress that
the cancellation reset, is part of the run and contradicts nothing the property says.

`RequestServed` says that a request comes to an end, and which one is in `wanted`: an installation, a withdrawal, or a
host that gave up. The server may fail it in each of the modelled ways: a transfer that fails, an `UPDATE` that is refused,
a bad template after the flag was cleared, a crash. Then the host, which need not ask again, gives up at some time.

**What the passing run of `Inventory` assumes** is `Orderly`. Each part is needed: a group is written between the check
and the deletion of its pool, a host, a transfer or a worker saves the row of a group that goes, an image is deleted
while an update brings its row back, or twice (`Separate`); a group without a name does not count as a user of its pool
or image (`Named`: `api/pools.go:318`, `api/image.go:317`); two uploads share a directory, or one finds the file of the
other gone (`OwnNames`). TLC finds one of `RefsResolve`, `RacesSurvived`, `UsedFilesKept` and `ListedComplete`
violated without it. Everything else overlaps freely: only requests about the same row are kept apart, not their kinds.

**What `Startup` leaves open**, and its properties therefore name: a crash between `server.crt` and `server.key` leaves a
pair with which no later start serves (`main.go:296`); a crash while the key is written leaves an empty one, with which
groups cannot be created, though nothing unreadable is ever stored; after an update without a password no password logs in
as the user, because the hash is hashed again (`api/users.go:180`), unless there was no password, or one of more than 72
bytes, before: then the empty one does; a password of 72 bytes lets in every longer one that begins with it; a built-in
device class that an administrator deletes is missing until the next start, and one whose name or vendor class was
edited is made a second time by it (`main.go:146`).

**Fairness.** `Dhcp` has none and states safety only. `Provisioning`: goroutines are scheduled fairly (Go's
scheduler): a transfer that has loaded its row, a kickstart handler at work, a worker. A host goes on by itself, though it
need not ask for anything: it boots, installs, or gives up what it is waiting for. And a flagged host is restarted in
the end. Administrators, and the requests of hosts, are not fair.
`LogServer`: the logging goroutine and the closing ones are fair; a handler only once its connection is closed, since
a write to an open one may hang up to its timeout; the two acquisitions of `subscribersMu` are strongly fair, because
Go's mutex does not starve a waiter. `LoggingProceeds` uses no fairness of clients at all. `Inventory` has none and
states safety only. `Startup`: the steps of `main` are fair, restarts included, because `main` does not wait for
anything and the cluster restarts it; requests are not.

`DEADLOCK` is checked everywhere but in `address_pool`, which asks one question and stops.

## Proofs

For every value of the constants that satisfies the assumptions (every pool, every set of clients, names and ids, every
initial table that obeys the keys, every bound):

- `AddressPoolProofs!NextIsLeast`, about the scan alone; `PoolQueryProofs!NextFindsLeastFree`: `Spec => []NextIsLeastFree`,
  over any table that blocks no declined address.
- `DhcpProofs!TypeCorrect`: `Spec => []TypeOK`, for any number of interfaces. `TypeOK` is inductive: it includes
  the keys of the table, which `Insert` and `Save` preserve (lemmas of their own), and what a busy goroutine knows.
- `DhcpProofs!OffersAreGranted`: without hypotheses, for clients with one row at most, as `OfferAccepted` says.
- `DhcpProofs!LeasesExclusive`, `RenewalsGranted`: under `[][SavesFresh]_vars` and `[]Apart`. `LiveLeasesKept`,
  `ImplementsLeaseService`: under `[][SavesFresh]_vars` and `[]OneAtATime`. With one interface, `SingleListener`, only
  `SavesFresh` remains (`OneInterface`); for any number of writers, in all of them.

That the recursive function of the scan exists is `ScanEquation`, with what is found at the first address where the scan
stops as the witness; that it has this value, `ScanStops`, because the least address of the same value is the first;
that the scan stops at all, `NetworkEnds`. It reaches no further than `Last`, the end of the pool or, where it cannot stop there, the end of
the network.

The invariant behind the leases is `LeaseInv`. `RecordedExclusive` is not inductive alone: between the check and the
write of a request the table must still satisfy what the check found. `LeaseInv` adds that leased rows belong to the
pool (the check reads the pool's rows only), that the snapshot still contains every running lease of others, or a longer one
of the same client under the same id (`Loaded`, by `Covers`), and
that a request that was decided is for an address no other client has leased (`Decided`). Of other goroutines it needs
only that they decide of other addresses. `LiveLeaseKept` and the refinement need more, because a handler writes by
id: `IdInv` says that what it loaded has every running lease under its id (`Current`), and that the id it is about to
write is of no other client's lease (`Owned`). Another goroutine may break this, even for another address, when the
row was purged meanwhile and its id given out again; hence `OneAtATime`. Both follow step by step from the two
invariants, one step of the proof per action.

Only handlers make leases. Every other step, the save of a fresh copy included, satisfies `NoNewLease`: what is leased
after it was leased before, to the same client under the same id, and as long at least (`WriterNoNewLease`,
`OtherNoNewLease`). Such a step keeps both invariants (`NoNewLeaseStep`), whatever else it does to the table. For the
lease service it is a withdrawal of the one address whose row was written over or deleted, or nothing.

- `InventoryProofs!TypeCorrect`: `Spec => []TypeOK`.
- `InventoryProofs!ReferencesResolve`: under `[](Separate /\ Named)`. `RacesAreSurvived`, `UsedImagesKept`,
  `ListedImagesComplete`: under `[]Orderly`. `OrderlyRuns`: the behaviours of the run are among those.

The hypotheses are about the states of a behaviour, not about which operations there are: requests of all kinds overlap, as
long as no two of them are about one row in a way that `Against` names. Their invariant is in three parts. `TypeInv`
says what a request at each step holds. `RefInv` is `RefsResolve` and what it needs of the requests (`Refs`): the
references of every copy that is still to be saved resolve as well, and what a request will delete is not referred to.
`Named` makes `InUse` find a group whenever there is one: this is where the least id comes in (`LeastNat`). `FileInv`
says what an upload past each step finds, and that the row an update or a deletion is about is still there
(`FileOK`). `ImagesChange` and `DirChange` list the
steps that touch images and directories, so that the two action properties have few cases.

- `StartupProofs!TypeCorrect`, `GroupPasswordsReadable`, `UsersLogIn`, `ServersComplete`: without hypotheses.

Each has an invariant of its own. `KeyInv`: the running process read what is in the file, and everything encrypted, in the
table or about to be saved, was encrypted with it; the file, once written, never changes. `HashInv`: a stored hash is that of
`given`; after a form without a password it is one that was hashed twice, with which nothing compares equal, or that of
the empty password (`Stored`). What a hash compares equal to follows from the first 72 bytes, in which the forms differ
unless both have that many (`StoredCompares`, from
`PasswordAssumption`). `CertInv`: the files before the one being written are of this start, and a
serving process found all four of one start. `TableInv`: tables and built-in rows are there as far as `main` has come, and a
built-in class that nobody touched has one row.

- `OptionsProofs!TypeCorrect`, `HighestLevelIsSent`: without hypotheses.

A new id is past the greatest one, so that ids are keys (`NewIdsNew`); the other one is about the answers of any
state of the types. The lines of the comment are the levels of the code (`LinesAreLevels`), the order of the query is the
order of the levels (`OrderIsLevel`), and so the rows that the loop keeps, those not below the first, are the highest line
that has any (`GroupIsTop`).

- `ProvisioningProofs!TypeCorrect`, `WorkersGetDone` (`Spec => WorkersWindDown`): without hypotheses.
  `CompletedIsInstalled`, `InstalledOnceOnly`: under `Patient` and `[]Settled`, for any number of transfers.

Only transfers have copies of the row at the same time (`OneCopy`); they are over when the host is installed, the host
waits for its kickstart file unless it gave up, and no worker is at work while it loads its files (`Waiting`); wherever the
row or a copy may flag the host again, an installation was asked for and none has started since, and the copies of
workers have no flag (`FlagWanted`).

`WorkersGetDone` is what can be proved of the ending of workers without fairness: `StepsLeft`, at most twice the attempts and
seven, falls with every step of a worker, and no step of anybody else raises it. It needs the types and nothing more.

- `LogServerProofs!TypeCorrect`, `HistoryIsTheLast`, `SnapshotsAreKept`, `MessagesInOrder`, `SubscribersComplete`,
  `ImplementsLogFeed`: without hypotheses.

The invariant is about cells of arrays. `RecordCells` says what `append` does to them: it writes one cell, just past the
history, or none of the old ones. `SendsKept`: a slice that is being sent from ends before that cell or lies in an older
array, and its cells hold successive messages of which the client has got the first; `InTurn`: what a client has got,
followed by what is queued for it, rises up to the last message, so that moving a message from the queue to the client
changes nothing (`HeadMoves`); `Complete`: from the subscription on it has no gaps.

`ImplementsLogFeed` has a lemma per action, named after what it is to the feed. `SnapshotValue` is why `Record` is
invisible to clients: a slice that is being sent has the same cells after the step. `HistoryIsLatest` is why
`Snapshot` hands out what a copy would: both are the same messages. `FailHistory` and a connection that closes while
its handler is at work become `Leave` and `LetGo`, which the feed allows at any time.

Assumptions on constants, which TLC evaluates, are in the modules that declare them: `MacAssumption`,
`PoolAssumption`, `LeaseAssumption`, `SeedAssumption`, `QueryAssumption`; `OptionsAssumption`; `RowAssumption`,
`SizeAssumption`; `IdAssumption`, `NameAssumption`; `FileAssumption`, `PasswordAssumption`;
`BoundAssumption` of `Provisioning` and of `Startup`; `ClassAssumption`. `SavesFresh`, `Apart`, `OneAtATime`, `Separate`,
`Named`, `OwnNames`, `Patient` and `Settled` are hypotheses of the theorems instead, since the code does not ensure them:
`dhcp_two_interfaces`, `inventory_shared_files` and `provisioning_reinstall` find counterexamples without `Apart`, `OwnNames`
and `Settled`.
That a set of ids has a least member is proved (`LeastNat`, `LeastExists`) from the well-foundedness of `<`.

Only model-checked: liveness (`RequestServed`, `WorkersEnd`, `LoggingProceeds`, `ClosedLeaves`, `ServesUnlessTorn`), which
is out of the provers' reach. Every invariant, every action property and both refinements of the passing runs are theorems.

## Not modelled

The iLO check and the version keep no state; the log formatter is layout; the web interface is presentation, but for the
requests it sends; `docs/` and the embedded assets are generated. The configuration file, and the errors of a bad one, are
read once and end the process. Of the pools and addresses, changing the range of a pool with leases, several pools
behind one interface, the edit form that changes `ip` or `mac`, and `GetNextFreeIP`, an answer nothing is kept of
(its query calls `NOW()`, which sqlite does not have).
