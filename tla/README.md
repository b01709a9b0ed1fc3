# Formal model of go-fs

go-fs serves one folder over many protocols from one process: FTP, SFTP, HTTP
(with WebDAV, S3, an OCI registry, package repositories and pages of its own),
TFTP, and disk images over NBD. This directory holds TLA+ modules of the parts
of it that run concurrently, the TLC configurations that check them on small
instances, and proofs that TLAPS checks for every instance.

1. [Inventory](#inventory)
2. [Modules](#modules)
3. [Runs](#runs)
4. [Fairness](#fairness)
5. [What is proved](#what-is-proved)
6. [What the runs found](#what-the-runs-found)
7. [Plan](#plan)
8. [Not modelled](#not-modelled)

## Inventory

The parts that carry logic of the program's own, with what each keeps, what
changes it, what is hard about it, what makes it correct, and its module.

| Part | State | Operations | Hard | Correct when | Module |
|---|---|---|---|---|---|
| `disks` registry (`locks.go`) | an entry per image: writer, readers, holds, exclusive; sessions by id; work marks; a mutex per upload | `acquire`, `release`, takeover, `Close`, `Disconnect` | two connections of one client racing for their own old session; timeouts; a lease given back after its successor has one | leases held at once are compatible; the entry is what is held; every `acquire` returns | `DiskLocks`, `DiskRegistry` |
| `disks` folder (`disks.go`, `jobs.go`, `upload.go`) | images, staging files, jobs | create, resize, rename, delete, attach, download, clone, upload in chunks, sweep | each is several system calls, looks before it locks, and can fail or be stopped at every one | no disk is resized under a VM, written by two, or overwritten; a copy is of one moment; an upload is whole | `DiskFolder` |
| `nbd` server (`server.go`, `conn.go`) | settings, connections, their phase and login | accept, TLS, login, attach, reply, end; `Reload`; `Shutdown` | all of these at once; a reload in the middle of a handshake; a takeover in the middle of a reply | the leases go with the connections; only who is admitted stays; `Shutdown` returns | `NbdServer` |
| `nbd` transmission (`transmission.go`, `image.go`) | requests in flight, budget, slots, the write mutex, the file | read, workers, FUA, flush, replies, the end | workers finish out of order; every path has to give back budget and slot; a client that does not read | replies are true; nothing touches the image after the end; closing frees everyone | `NbdTransmission` |
| `supervisor`, `main` | running services, the configuration applied, the stamp of the file | first start, watch, hangup, reload, apply, shutdown | the file changes while it is read and applied; any service may fail and the others go on | good sections run; what runs comes to be what the file says | `Supervisor` |
| `config`, `admin` | the configuration file, its `.bak` | apply, save of a server, a sync, a repository; the start; edits by hand | saves that log in to a server for seconds between read and write; a page that is old | no edit is undone by another's save | `ConfigFile` |
| `selfupdate` | the binary, the staged update | upload, verify, replace, restart | a crash or a failure between two renames | there is always a binary; only a signed one is run | `SelfUpdate` |
| `tftp` | transfers, admissions, hosts; per transfer a window or an expected block | request, DATA, ACK, timeout, retransmission, shutdown | a network that loses, duplicates and delays; block numbers mod 2^16; lost wake-ups | what is acknowledged is stored; a file arrives whole; `Shutdown` returns | `TftpServer` |
| `ftp` | control connections with two goroutines, data channels | commands, passive set-up, transfers, ABOR, shutdown | an answer given by either goroutine; a channel set up anew while the last one accepts | one answer to each command, in order; data over its own channel; nothing is left open | `FtpServer` |
| `sftp` | connections and their counters, sessions, timers | login, grace time, sessions, idle watch, keepalives, reload, shutdown | timers that run beside what they watch | who is there is counted; a silent client goes | `SftpServer` |
| the served folder (`httpd` uploads, WebDAV, S3, fetch; `ftp`, `sftp` files) | files, staging files, upload locks, WebDAV locks and claims | upload in one piece and in chunks, PUT, move, delete, sweep | each looks and acts in two steps beside all the others | a file is whole and of one upload; others' files are not overwritten without the right | `SharedFolder` |
| `httpd` S3 multipart | parts, uploads | create, part, complete, abort | completion beside parts still arriving | an object is the parts named | `MultipartUpload` |
| `httpd` S3 objects and listings | the files and folders of a bucket | put, copy, delete one or several, list | folders made and pruned while objects are placed in them; listings over several pages | objects are whole and stay; empty folders go; no key is missed or named twice | `S3Objects` |
| `trash`, `httpd` trash page | the trash folder, its index | move in, restore, delete, empty, purge | merging folders; the index is written after the files moved | a file is purged by the day it was deleted | `Trash` |
| `httpd` OCI registry | blobs, links, manifests, tags | push, mount, pull, import, delete, garbage collection | the collection runs beside pushes and pulls whose manifest comes last | a tag names what is all there | `OciStore` |
| `httpd` jobs (`registry_jobs.go`, fetch, import) | jobs, accepted choices, uploaded archives | start, choose, stop, end, shutdown | stop, choice and timer race | a job ends as it says and leaves nothing | `TransferJobs` |
| `httpd` sessions and throttle | tokens (held by the browser), failures per address | login, renewal, logout, requests; failures, locks, sweeps | answers taken in any order; all that came in before a lock are judged after it | no session outlives its expiry; guesses are bounded | `Sessions`, `LoginThrottle` |
| `syncer` | status and snapshot of each sync, both sides | plan, run, trigger, stop, reload | a run stopped half way; the sides changing under the plan; runners replaced while they run | a removal is passed on once, and never guessed; one run of a sync at a time | `SyncRun`, `SyncManager` |
| `repository` | packages, metadata, signature, cache of each repository | look, read, prune, sign, write, record, reload | files that change while they are read; metadata in several files | clients come to see the folder, and nothing else | `Repository` |
| `store`, shares, temporary users | buckets of records with expiry, in one bbolt file | get, put, delete, scan, sweep | every operation is one transaction of the library | an expired record is not found | — |
| `httpd` listing, archives, pages, Jellyfin; `vfs`, `sparse`, `cleanup`, `remote`, `cryptomator`, formats | none, or files | computation and single file operations | parsing, cryptography, I/O | by test | — |

How they interact. `main` loads the configuration and hands it to the
supervisor, which starts, reloads and stops each service behind one interface
(`service.Server`: `Start`, `Reload`, `Shutdown`). The admin page edits the
configuration file; the supervisor sees that as any other edit. The Disks page
and the NBD server share one folder of images per directory, and through it one
registry of leases: this is the only state two services share that decides what
either may do, which is why it is modelled first. All other services meet in the
served folder, where each is a writer among others (`SharedFolder`), with the
trash behind the deletes of the http server. The rest keep their state to
themselves: a runner per repository and sync, a table of addresses, a store of
images.

## Modules

```
DiskLocks                the promise: leases per image, any two compatible
   ^ implements
DiskRegistry             the registry of leases          DiskRegistry_proofs
   ^ instance        ^ instance
DiskFolder           NbdServer           NbdTransmission         OciStore
DiskFolder_proofs    Nbd_proofs (of both)                        OciStore_proofs

Storage       = SharedFolder | MultipartUpload
                Storage_proofs
MCStorage     = Storage | Trash | S3Objects
MCServices    = SyncRun | LoginThrottle | Sessions | TransferJobs | Repository
                Services_proofs
MCServers     = TftpServer | FtpServer | SftpServer
                Servers_proofs
MCSupervisor  = Supervisor | ConfigFile | SelfUpdate | SyncManager
                Supervisor_proofs
MCDiskRegistry, MCDiskFolder, MCNbdServer, MCNbdTransmission, MCOciStore, MCTrash
```

The four MC modules with a `|` check several parts of the system in one run. A
variable `part`, which never changes, says which of them is looked at; the parts
share no variable, and the others stay as they are. A property of one part holds
of the others at once, so that nothing is lost or won by this but the number of
runs; parts that do meet are in one module.

**DiskLocks** is what the comments of type `Mode` promise, without saying how:
a set of leases per image; a lease is taken when it is compatible with all the
others, or dropped, or all are dropped by a restart.

**DiskRegistry** is `locks.go`. `entries` is `registry.entries` (an entry that
is empty is the one the map does not hold), `pc` is how far `acquire` or the
session it was for has come, `victim` and `closed` are the session taken over
and `closeOnce`. `acquire` is one action per time it holds the mutex: `Attach`,
`Refuse` or `PickVictim`; then `Evict` (the call of `Close`, without the mutex),
and `Retry` or `GiveUp` (the `select` on `released` and the timer). A page
request or job takes leases by `TakeLease` and `DropLease` and never waits.
`Restart` forgets everything, as the process does. `ImplementsLocks` maps the
attached sessions and the leases of tasks to the leases of `DiskLocks`.

**DiskFolder** is `disks.go`, `jobs.go`, `upload.go` and the part of the Disks
page that calls them, on top of an instance of `DiskRegistry` over the same
variables. Files are inodes: a handle goes on reaching a file that was renamed
or removed, which is where the hard behaviours are. One step is one system call
or one call of the registry; every operation of the code is the list of its
steps, with the early returns where the code has them, and any step that can
fail may. A chunk of an upload is written block by block, can break off, is cut
off again, and can be sent again or start over; a restart keeps the directory
and the staging files only. `Sweep` is three steps (sees an old file, looks at
the mark, removes), as in the code. `load` is the workload: which sessions come
and which operations each task runs, so that one run covers several mixes.

**NbdServer** is `server.go` and `conn.go`: `phase` is the line of `serve` a
connection is at, `using` the settings the current step took before it
(`startTLS` takes them before the handshake, the accept loop before the mutex),
`id` the login and `cut` the closed sockets. `Reload` is its three steps in the
code's order: swap, take the list, judge one by one. `Shutdown` likewise: mark
and list, close the listener, close the listed, wait. A connection is a session
of `DiskRegistry`, so takeovers are the registry's own actions; a session taken
over is closed by `Evict`. What happens between attach and the end is one phase.

**NbdTransmission** is `transmission.go` and the budget of `image.go`: the
reader (`at`, `now`) takes a header, pays the budget, loads the payload, waits
for a slot; a worker (`state`) runs the request, syncs, waits for the socket,
replies, refunds, and leaves. `written` and `stable` are what is in the file and
what survives a power cut; `covers` is what a sync began with. The budget's own
close is not modelled: nobody is left to wait for it when it happens.

**Supervisor** is `supervisor.go` and its call in `main.go`: the file with a
stamp, the watcher's last stamp, `reload` in its steps (stamp, load, compare,
apply) and `Apply` one service at a time. A service that needs another port is
stopped and started again, and may fail in between. What a service does with
its section is left out; a section is a name and a port.

**ConfigFile** is the file that supervisor follows, under those who write it:
`handleApply` of `admin/server.go`, `file.Save` with the mutex `saving` and its
callers in `servers.go`, `syncs.go` and `repositories.go`, `Migrate` and
`EnsureSecrets` at the start, and a person with an editor. The file is a handful
of keys, one for each thing that is saved apart, and each has the number of the
edit that gave it its value; an open page (`editor`) has what it was shown, and
makes one request. A save reads the file anew under the mutex, puts its own part
in and replaces the file by a rename; between the read and the rename it may log
in to the server it saves. `author` is history: who changed a key last.

**SelfUpdate** is `updater.go`, the update handler and the end of `main.go`: an
upload is received beside the executable, its trailer cut off and its signature
judged, the file is run with `-version`, staged, and the server shuts down;
`main` renames the executable to `.old` and the staged file into its place, and
starts it. A file that is received, cut or renamed may fail at each step, and
the process may end between any two. `ran` is history: what was ever executed.

**SyncManager** and **SyncRun** are `syncer`. In `SyncManager` the n-th runner
of a sync goes by the build that made it: `Reload` stops the runners whose job
changed and builds new ones beside the old ones that still run; a run is started
by the clock or by who asks (`asker`), `enlisted` and `shown` are the two maps of
the statuses, `kept` what the store says of the last run. In `SyncRun` both sides
are functions of all paths; a run lists one side, then the other,
plans (`OneWay` and `Both`, as `plan.go` decides by snapshot and times), and does its steps
one by one while people edit and remove on both sides. A step can fail, and a
run be stopped after any. `Works` is what the file systems let happen, whatever is
at the path by then: here a removal goes through `os.Remove`, or through the trash
(`trash`), which takes along a folder that came in the place of the file (`After`);
a server is one of SFTP, since a sync needs to set times, and removes an empty folder
as it does a file. `besides` says that each side has more than the model's paths, so
that none is ever empty. Left out are a folder that is only half moved to the trash,
which is a subject of `Trash`, and a server that cannot rename over a file and fails
between removing the old one and placing the new (`sftpFS.replace`).

**TftpServer** is `server.go`, `read.go` and `write.go`. `at` is how far a
request is: the dispatcher, one goroutine, takes it through `Admits`, `Looks` and
`Begins`, or `Refuses` it; the goroutine of its transfer waits (`Receives`,
`TimesOut`), handles what it read (`Handshake`, `HandlesAck`, `HandlesData`,
`Fails`), and ends (`Places`, `Finishes`, `CleansUp`, `Releases`). `transfers`,
`pending` and `hostTransfers` are the server's own. `Shutdown` is its four steps:
mark and list, cancel one by one, close, wait. `Wakes` is the goroutine that sets
the read deadline of a cancelled transfer to now, and a transfer that is not in a
read then sets it anew: only `TransferTimeout` ends such a one (`GetsLate`). The
network has no state of its own: whatever was sent once may arrive any number of
times, late, or never, so retransmissions change nothing in the model but
`attempts`. It is assumed that a packet is not delivered so late that its number
has come round again, which the protocol cannot do without, and that a window is
smaller than the block numbers are. All uploads of a run have one destination. The
clients are external: they take blocks in order, acknowledge what they took, and
send the block after the last one acknowledged. The option negotiation, netascii,
`Reload`, and a request repeated after its transfer ended are left out.

**FtpServer** is `server.go`, `conn.go`, `data.go` and `auth.go` of `ftp`. A
connection (`conn`) has a reader, which takes lines, answers an ABOR during a
transfer and an AUTH before the login itself and puts the rest into a channel of
`Capacity`, and a loop that takes commands from it. A data channel that cannot be
opened is left out, since its command then changes nothing but what was closed. `setup` lists the passive
data channels of a connection, each with the goroutine that accepts for it;
`closeData` closes the last one while that goroutine may hold a connection. A
client is a script of commands it may send one on top of the other. `Shutdown`
marks, takes the list of connections, closes them one by one and waits; `missed`
are those it did not reach.

**SftpServer** is `server.go` and `auth.go` of `sftp`: the counters `conns` and
`perHost`, the handshake with the timer of its grace time (`grace`: its function
may have begun when `Stop` is called), the sessions of a connection, the watch
for idle clients, which sets itself anew, and the keepalives with their count of
missed answers. A client may fall silent at any time. `Reload` adds or drops the
account: a login is judged by the settings of now, a session of it is opened by those
the connection began with, and who is logged in stays connected.

**SharedFolder** is the served folder as all its writers share it: the page's
uploads in one piece and in chunks with `uploadLocks`, WebDAV's `PUT`, `MOVE` and
`DELETE` with its locks, S3's `PutObject`, fetched files, FTP's `STOR`, `APPE`,
`RNFR`/`RNTO` and `DELE`, SFTP's opens and renames. A request is one of these on
one name, with or without the right to overwrite, in the steps in which it looks
and acts; files are inodes and the content of a piece is who sent it. `claims` is
`davHold`: what the page holds of a name a WebDAV client may have locked. A rename
remembers which file it moved, which is history.

**MultipartUpload** is `s3multipart.go`: an upload is a folder with a record and,
for each part, its file and the one with its MD5, and there is no lock on it. A
request creates a part, completes or aborts, one file operation at a time.

**S3Objects** is `s3objects.go`, `s3list.go` and `s3body.go`: a bucket is a tree
of five keys, chosen so that the order of S3 and that of folders differ, and
`Writers` put, copy and delete in it, a system call at a time: `Receives` is the
body with whatever its sender declared of it and whatever happened to it on the
way, `Climbs`, `Makes` and `Renames` are `placeS3File` under the lock of its key,
`Removes` and `Prunes` a delete. `list` is a client that lists page by page;
`always` and `ever` record which keys were there all the time and at any time.

**Trash** is `trash.go` of `trash` and of `httpd`: `live` and `kept` are the
served folder and the trash as functions of all paths, `index` the dates. `Move`
merges a folder with what the trash has at its path; each change is one step, as
it is made under one lock, and may stop half way with the files moved and the
index not written.

**OciStore** is `registry_*.go`: the blobs of the store, and for each repository
its links, manifests and tags. A push, a mount, a pull, an import, a delete or a
cleanup is a process whose steps under the locks are single file operations
(`todo`), any of which can fail and between any two of which the server can
crash; a tag that gathers the platforms of several builders is read, rebuilt and
written (`mergeIndex`). Cleanups mark what was not used since the last period
and sweep what is marked.

**TransferJobs** is `registry_jobs.go` and the jobs that imports and fetches run
in: a job waits for the choice of the page, which is accepted under a mutex and
passed through a channel, for a timer and for the stop, runs, and ends in one of
its states; `uploads` are the archives that are still there. A fetched folder is
done, with a message, also when folders below it could not be read: what it was told
to store is what it could list. `Shutdown` cancels
all and waits for those started.

**LoginThrottle** is `throttle.go`: `clients` is its table with its windows of
failures, locks, sweeps and shedding; a request asks, and is judged later.

**Sessions** is `token.go`, `session.go` and `auth.go`: a token carries the time
of the login, its expiry and the password it was issued for, the server keeps
nothing of it, and a browser (`jar`) with several requests at once takes the
answers in any order, while the settings change.

**Repository** is the runner of a repository of packages (`repository`): it looks
at the folder every so often, or when it is told to, also while files are being
written, reads what is new (`cache` keeps it), prunes old versions, signs, writes the
metadata file by file and records what it wrote, for RPM, F-Droid and Jellyfin in the
order of each. A file is its version, who signed it and whether it is whole; to have
listed nothing yet is the same as to have listed that there is nothing (`Unread`), as
it is in the code. The runner knows a file again by its size and time; here it does so
by the file, so that one put in the place of another of the same size and time, as in
`cache_test.go`, is left out.

Names in the modules are the code's where TLA+ allows it; `PROJECT.json` maps
each definition to its lines.

## Runs

| Run | Instance | Shows |
|---|---|---|
| `registry` | 1 image, 3 connections of one client and 1 without certificate, 2 tasks | `EntriesMatchLeases`, `LeasesExclude`, `WaitsForItsOwnWriter`, `ImplementsLocks`, `AcquireReturns` |
| `files` | 2 images of up to 2 blocks, 2 requests, 1 or 2 sessions; eight workloads: rename, resize, delete and create beside each other; clones and Sweep; an upload beside a session, and beside a delete; a takeover beside resize and download | `CopyIsOfOneMoment`, `OpenImagesAreSafe`, `NothingLeftBehind`, `PutInPlaceAsAsked` |
| `nbd` | 2 connections of one client, settings that let it write (2 connections) or only read (1 connection) | `OneVMWrites`, `ServedUnderALease`, `OnlyTheAdmittedAndMissedStay`, `UsesTheRegistry`, `ShutdownComesBack` |
| `nbd_lease` | 1 connection | violates `LeaseEndsWithItsConnection` |
| `transmission` | a write, a write with FUA, a read, a flush; 2 slots, a budget two of them fill | `BudgetIsKept`, `RepliesAreTrue`, `QuietAtTheEnd`, `NobodyIsLeftWaiting` |
| `oci` | 2 processes with 2 requests, 2 repositories, 1 tag, 2 images of two platforms, a crash or failures, 1 period | `TagsAreWhole`, `PlatformsAreKept` |
| `oci_pulls` | the same, with cleanups that fall into a pull | violates `TagsAreWhole` |
| `storage` | the folder: 2 names, 2 requests of any kind and a delete or an upload to the other name, 2 pieces, 1 lost answer; a multipart upload: 2 parts, 4 requests; the trash: a folder in a folder with a file each, 3 days, 1 failure or crash; a bucket: 5 keys, 2 requests of 2 writers, or of one beside a listing, pages of 2 | `FilesAreWhole`, `OthersFilesAreMinded`, `ObjectIsAsNamed`, `DatesAreKept`, `ObjectsAreTrue` |
| `trash_merge` | the trash without failures | violates `ComesWithItsDate` |
| `services` | a sync of a folder and a file, of either direction, 3 edits, 1 failure or stop, both ways with the trash and 3 other changes or without it and 2; the throttle: 3 addresses, 2 requests, 2 attempts, a table of 2; a browser: 2 requests at once, 2 logins, 3 settings, 1 change of them, 4 units of time; 2 jobs; a repository: 2 names, 3 configurations, 4 files, 1 version kept, 2 changes, 1 reload, 1 fault | `SyncIsTrue`, `GuessesAreBounded`, `SessionsEnd`, `JobsEndAsTheySay`, `KeepsItsRepository` |
| `servers` | TFTP: 3 clients of 2 hosts, 2 slots and 1 per host, block numbers modulo 5, six workloads with downloads of up to 9 blocks; FTP: six scripts, timeouts on and off, 1 place; SFTP: 3 connections of 2 addresses for 2 places, or 2 that are watched | `TransfersAreWhole`, `NothingStaysBehind`, `OneAnswerEach`, `SilentClientsGo`, `EveryShutdownComesBack` |
| `supervisor` | 3 services (one in the background), 4 configurations, 3 edits, 2 failures; the file: 2 pages, 1 hand edit, 1 crash; the update: 2 uploads, 4 binaries, 2 failures, 1 crash; the syncs: 1 sync, 3 builds, 3 times, 1 who asks, 1 fault | `GoodSectionsRun`, `FollowsTheFile`, `NoEditIsLost`, `AVersionIsThere`, `SyncsTakeTurns` |

Why the bounds are enough to be interesting. The registry needs three
connections of one client for two newcomers to wait for the same old session,
and a fourth to be refused; entries of different images do not touch, so one
image is enough, and `DiskFolder` uses two where an operation takes two leases.
Two blocks let an image be half written, half copied and extended by zeros; two
block values tell an old chunk from a new one. The eight workloads put together
each operation with the one it shares a file with; `Inodes` is six because no
state of these runs has more in use. In `transmission` the requests need more
slots and more bytes than there are, so that the reader waits for both.

In `oci` two processes are every pair of operations, two repositories let a blob
be shared and mounted, two images of two platforms let two builders meet in one
tag, and one period makes what was new old once, which is what a cleanup needs.
In `storage` two requests and a delete are every pair of writers with a change
of the name between a look and an act of either, by a delete or by a rename of a
file that was there or was uploaded (a fetch and a write of S3 do the same here,
so that one of them is enough); two pieces make an upload that is half there; four senders are two for one part, one for the other and one that
completes. Three days are before, at and after the retention of one.

A sync of a folder and a file in it has every pair of what the sides can be at a
path and above it, and three edits let both sides and the snapshot differ. Three
other changes remove a file on one side, and on the other put a folder in its place,
which only a trash can take away; without the trash there are two. `trash` and `besides`
are taken together, and with both ways only, since what the other directions may lose
is not limited; the theorem has them apart. A table of two addresses for three makes the throttle shed, and two attempts make
a window that is half used. Two logins and one change of the settings let a
request be judged by settings that are gone with a token that is older still. A
repository with two names has an old version and a new one, and a change of each
file between any two steps, or a package that comes and goes before a reload.

In TFTP the numbers come round once and almost twice while a window is open;
every timeout and retry up to two is taken, and Shutdown may come at any step.
The scripts of FTP put commands behind a transfer that is aborted twice, set up
data channels twice, and send AUTH where the reader answers it. Three edits let
the configuration file change while it is loaded, while it is applied, and go
back; two failures let one service fail twice or two once. Two pages and a hand
edit are any three who write the file.

Deadlock is not checked: connections are used once and edits are counted, so
every run really stops; that nobody waits for ever is said by the liveness
properties instead. No run checks a `TypeOK`: those of the proof modules are
proved, and a module that leaves its types fails in a guard or in a property.

## Fairness

No fairness is assumed of what others may do: a client need not come, send,
answer or leave, the page need not disconnect, the file need not be edited.

- `DiskRegistry`: a goroutine that can go on goes on, and its timer fires. A
  session need *not* let go, not even when its connection was closed, since it
  may hang in the file system; this is what `takeoverWait` is for, and
  `AcquireReturns` holds without it.
- `NbdServer`: goroutines run; a handshake ends, by its deadline at the latest;
  a transmission whose socket is closed ends, which `NobodyIsLeftWaiting` shows
  of the transmission on its own.
- `NbdTransmission`: goroutines run and the disk answers. A worker in the middle
  of a reply goes on when the client reads, or when the socket is closed: weak
  fairness of the two together, so that a client may block it until one happens.
- `TftpServer`: goroutines run, a read times out, and `transferTimeout` passes
  (it is 300 seconds unless it is set to 0; with 0 a transfer that Shutdown
  missed or could not wake goes on as long as its client answers, and Shutdown
  with it). Nothing is assumed of the network or the clients.
- `FtpServer`: the reader, the loop and the goroutine that accepts go on, and a
  deadline that is set passes. With the timeouts off a connection may stay for
  ever, which is why they are a part of the workload.
- `SftpServer`: goroutines go on and timers that are set run out; the network
  breaks the session of a connection whose socket was closed.
- `MCServers` states the three together: a client of each and its goroutines
  share a conjunct through `Either`, and since `part` never changes, exactly one
  of the three disjuncts is what is fair.
- `Supervisor`: the watcher's goroutine runs and its ticker ticks.
- `DiskFolder` has no liveness property: a page request ends when its client
  does. The modules of `storage`, `oci` and `services`, and `ConfigFile`,
  `SelfUpdate` and `SyncManager` state safety only, about every prefix of what
  happens, and need no fairness.

## What is proved

`DiskRegistry_proofs` proves of `DiskRegistry`, for any images, sessions, tasks
and certificates:

| Theorem | States |
|---|---|
| `TypeCorrect` | `Spec => []TypeOK` |
| `EntriesAreTheLeases` | `Spec => []EntriesMatchLeases` |
| `LeasesAreExclusive` | `Spec => []LeasesExclude` |
| `TakeoversDoNotWaitForEachOther` | `Spec => []WaitsForItsOwnWriter` |
| `RegistryImplementsLocks` | `Spec => ImplementsLocks` |

The assumptions are those of the module: `None` is no session, and the tasks are
finitely many and no sessions. The argument is one inductive invariant of four parts besides
`TypeOK`. `EntriesMatchLeases` alone is not inductive: that a lease may be added
is decided by the entry, so it needs that entries are compatible with
themselves (`EntriesExclude`: no writer beside a hold, nothing beside exclusive),
and that a flag `exclusive` stands for one lease only, or the first of two to be
released would clear it for both (`OneExclusive`). Counting the holds of an
entry as the cardinality of the tasks that hold needs the tasks to be finite.
Exclusion follows from the entries and what they say is held, and the
refinement from both: a step of the registry that changes an entry changes the
same lease of `DiskLocks`. `WaitsForItsOwnWriter` rests on `EntriesMatchLeases`
too: the session a newcomer picks is the writer of the entry, which is therefore
attached, and can only be released after that.

`Nbd_proofs` proves of `NbdServer`, for any connections, certificates,
images and settings:

| Theorem | States |
|---|---|
| `WritesAlone` | `Spec => []OneVMWrites` |
| `ServesUnderALease` | `Spec => []ServedUnderALease` |
| `ReloadFindsTheRest` | `Spec => []OnlyTheAdmittedAndMissedStay` |
| `ServerUsesRegistry` | `Spec => UsesTheRegistry` |

It assumes that `None` is neither a connection nor a login. The invariant ties
the phase of a connection to how far its session of the registry is (`InStep`),
its login to the mode it asked for (`LoggedIn`), and says that an attached
writer is the one its entry names (`WritersAreNamed`), which two writers of one
image cannot both be. For the reload it needs more: a connection is stale when
the settings refuse it or when it is in a handshake on older settings, and a
stale one is either known as missed, or there is a swap the reload has not
looked at the list after, or it is on the list and yet to be judged
(`StaleIsKnown`). This holds only because `Reload` swaps before it looks: a
connection that comes in between is on the list.

It proves of `NbdTransmission`, for any requests, slots and
budget:

| Theorem | States |
|---|---|
| `RepliesAreKept` | `TransmissionSpec => []RepliesAreTrue` |
| `EndIsQuiet` | `TransmissionSpec => []QuietAtTheEnd` |
| `BudgetStaysKept` | `TransmissionSpec => []BudgetIsKept` |

A write is in the file, or covered by a sync, from the step that did it to the
reply that says so (`Synchronised`); the request in the hands of the reader is no
worker's (`InHand`). For the budget each step is shown to leave the requests that
are charged as they are, or to add or take away one and its cost (`Balanced`).
That a sum over a finite set changes by that cost is proved by induction over the
subsets of the set, said of a set of subsets and not of an operator, since the
provers cannot instantiate the library's induction theorems.

`DiskFolder_proofs` proves of `DiskFolder`, for any images and sessions:

| Theorem | States |
|---|---|
| `NothingStaysLocked` | `Spec /\ []RoomForAFile => []NothingLeftBehind` |
| `OpenImagesStaySafe` | `Spec /\ [](RoomForAFile /\ KeepsOut) => []OpenImagesAreSafe` |
| `CopiesAreOfOneMoment` | `Spec /\ [](RoomForAFile /\ KeepsOut) => []CopyIsOfOneMoment` |
| `FolderIsSafe` | `Spec =>` all three, where one task uploads and files do not run out |
| `UploadsArePlacedAsAsked` | `Spec /\ [](RoomForAFile /\ FinishesAlone /\ SweepKeepsOff) => PutInPlaceAsAsked` |
| `UploadsArriveWhole` | `Spec => PutInPlaceAsAsked`, where one task uploads, no workload both uploads and sweeps, and files do not run out |

The first three are for any tasks and have two conditions, which are states' and
so can be true of some behaviours and not of others. `RoomForAFile` says that one
of the model's files is unused, which is about the model. `KeepsOut` says that no
upload is put in place while another request holds its mutex, which the code does
not see to (`upload.go:140`, and "What the runs found"); two uploads of one image
at once are what breaks it, and the copy and the open image with it.
`FolderIsSafe` shows that both are met, so that the theorems are not empty, when
there is no end of files and at most one task of a workload uploads: images,
sessions and tasks are finite, and each has a handful of files in use. The run
`files` has one uploader in each of its workloads.

The invariant is in layers, each inductive with those before it. `Typed` is the
types. `Control` says what a task has at each step of its operation: the leases
it took and will drop, the mutex, the files it has open; and the registry's own
invariant (`IInv` of `DiskRegistry_proofs`) comes with it, since every step of
the folder is one of the registry or leaves it alone, which is shown step by
step. `WorkOK` says that the mark on a staging file counts the tasks at work on
it, a cardinality, which needs them to be finite. These give `NothingLeftBehind`,
since a task that is idle is at no step. `FilesOK` says that a file has at most
one name (`OnlyName`), that what a session has open is the image it has a lease
on, of the length its client was told (`OpenOK`), that what a task reads is the
image it asked for (`ReadOK`), and that what it writes is an image it has for
itself or a staging file nobody else writes or can reach (`WriteOK`). None of
these holds without the leases: a rename keeps `OpenOK` because it is exclusive
of the session that has the image open; and none holds without the others: that
a new file is nobody's follows from names and handles together. `CopiesOK` says
that what was copied so far equals what is there, and needs that the source is
held and the staging file private.

`PutInPlaceAsAsked` needs two layers more. `UploadsOK` compares contents: what is
staged of an upload is the beginning of what was sent of it, zeros standing for
the blocks that are yet to be written (`StagedOK`); a chunk that is being written
agrees with what was sent up to where it is, starts within what is staged and
writes to that file or to one without a name (`ChunkOK`); an upload that finishes
is as long as it said; and a file nobody has a name for or open is empty
(`FreeOK`), which is what a first chunk begins with. An undo cuts back to a
beginning of what was sent, which is why the equality is up to a length and not
of whole files. `NamesFree` says that the name a rename, a clone or an upload is
about to give was free when it looked and is so until it moves, since it holds
the name exclusively. The conditions are the two windows that the code leaves open
("What the runs found"): `FinishesAlone`, which implies `KeepsOut`, says that
nobody sends a chunk of an upload that another request finishes, and
`SweepKeepsOff` that no chunk begins on a staging file whose mark `Sweep` has
looked at and found to be none. `UploadsArriveWhole` shows them met by workloads
like those of the run `files`.

`OciStore_proofs` proves of `OciStore`, for any processes, repositories, images
and blobs:

| Theorem | States |
|---|---|
| `TagsStayWhole` | `~CleansDuringPulls => (Spec => []TagsAreWhole)` |
| `PlatformsStay` | `~CleansDuringPulls => (Spec => PlatformsAreKept)` |

`CleansDuringPulls` is a constant, and with it the run `oci_pulls` violates the
property. A process carries the list of the writes it has still to do, and the
invariant is about that list: whoever is to write a revision or a tag has the
lock, and what it names is in the store, or comes earlier in the list
(`ProcOK`); a cleanup has marked whatever is named and was not just added
(`Marked`); what is in the store is named whole (`RevisionsAreWhole`,
`TagsAreRevisions`). For the platforms the list has at most one write of a tag,
and what it writes was read under the lock that is still held (`PutsOK`).

`Services_proofs` proves, for any settings, times, jobs, limits, trees of files and
packages:

| Theorem | States |
|---|---|
| `SessionsDoEnd` | `Browser!SessionSpec => []SessionsEnd` |
| `JobsDoEnd` | `Transfers!JobSpec => []JobsEndAsTheySay` |
| `SyncStaysTrue` | `SyncSpec => SyncIsTrue` |
| `GuessesStayBounded` | `Throttle!ThrottleSpec => []GuessesAreBounded` |
| `ServesWhatIsThere` | `Repo!RepositorySpec => KeepsItsRepository` |

Every token that is
anywhere, in a request, an answer or the browser, is of a login, with its time and
password (`TokensAreOfLogins`), and nothing was used later than now; a job's state
agrees with what its goroutine has done at each step (`JobOK`), and the jobs that
run are fewer than the limit when one is admitted.

A sync has two invariants. `QuietInv`, of any direction, is about a run nobody
disturbs: there is one step for a path, which fits what is there as long as it is
to be done, and when there is none left the sides are alike there. `SyncInv`, of a
sync both ways, is about everybody else. It cannot say that a file of a given time
is the same on both sides, since a copy is of the file as it is when it is made,
under the time it was listed with; what holds is that a time both sides have is
of contents both have had (`Alike`), and that a time the snapshot keeps is that, or
no side has it any more (`Unlike`). From this follows what the plan rests on,
`ListsOK` while only one side is listed and `StepOK` for each step to be done: a
file that is missing on a side that once had it was removed there by people. The
steps are those of one path each, which are shown once: what people do and what
makes or removes a folder (`Gentle`), a copy (`Copied`), and the removal of a file,
after which neither side has the time of the snapshot (`RemovalKeeps`). What goes
although nobody removed it on the other side is what came here in the place of a file
or a folder that is to be removed. Both invariants need that what is in something is
in a folder (`TreesAreClosed`), on the sides and as they were listed, and of these
paths that they were not there when the plan was made (`StrayOK`), so that what the
snapshot says of them is of neither side any more (`Loose`): were it not so, the next
run would take the removal for one of people. Of the paths it is assumed that a tree
has what each is in (`TreeAssumption`).

The bound of the lock is inductive once it says what the record of an address
knows of its wrong passwords (`CountOK`): of the window, as many as it has counted;
while the address is not locked, at most a window more; and while it is locked,
together with the requests that came in before, two windows and as many as there
are requests. A lock that ends leaves only what came after it began, since it lasts
as long as a window, and a record that says nothing any more is of no guess of the
last lockout but those it has counted, which is why it may be forgotten.

The invariant of a repository (`RepositoryInv`) has four parts beside the types.
`Knows` is about a file: what the cache, the runner and the look know of it is one
package, unless it was replaced while it was read; and what the look found is what is
there, as long as nobody touched it since, and what was known, if it was read before.
`Sees` is about the folder: in a look during which it stands still, each package is
still to be looked at, or was skipped as unreadable, or is known as it is.
`KeepsTheNewest` says of each package that is still to be removed that enough newer
ones stay, counted among those that are not to go. The code counts all the newer
ones, of which some go too; the two agree since the newest of those that go has only
such before it as stay, and these are before the others as well (`TheNewestStay`,
from the order of versions and names). So it does not matter in which order they go,
nor which of the removals fail. `MetadataOK` follows the files of the metadata through
their writing, in the order of each type: which of them are already the new ones,
that the lists of the last two lists of lists are there, that an index about to be
written is later than the one there, and that all are of one writing unless the last
was cut short. From these the two halves of the property follow,
what clients find and what a step may change (`ChangesOnlyIt`). For a restart
`CacheAgrees` says that a cache that lists something lists what is published, under
the title and key it was written for, as long as nothing failed and the metadata was
not cut short; where the cache lists nothing, `Starts` itself compares.

`Storage_proofs` proves of the served folder, for any requests, names and number
of pieces, and of a multipart upload, for any requests and parts:

| Theorem | States |
|---|---|
| `FilesStayWhole` | `Spec => []FilesAreWhole` |
| `OthersFilesStayMinded` | `Spec => OthersFilesAreMinded` |
| `ObjectsStayAsNamed` | `Multipart!MultipartSpec => []ObjectIsAsNamed` |

The invariant of the folder (`FolderInv`) says of each request what its step says
of it (`Correct`): a request that is about to place something has all of it
(`HasItAll`), has the lock of the name (`HoldsItsLock`) and the claims it took
(`HoldsItsClaims`), and, without the right to overwrite, finds the name free or one
of the windows (`FindsItFree`), which is the hard part: what it saw when it looked
stays true until it places, because whoever could put a complete file there takes
the same lock, or goes through a window. Of the files it says that a name is of a file that was
there before or of an upload that wrote it (`NamedAreMade`), and what such a file
holds (`Contents`); of chunks, that they are staged in their order
(`StagedInOrder`), which is why one that is sent again may be left out. One step
is of one request, and the others keep what they had (`OthersStay`).

This proof found an error of the property. It excepted files that were moved to
the name only when they had been there from the start, but what one upload stored
elsewhere and a rename brought here may be overwritten as well, and the run had no
upload to the other name. It has one now, and the window is that of any file that
was moved to the name (`MovedTo`).

The invariant of the multipart upload (`PartInv`) is about the parts that were not
written by two requests at once: an MD5 that was answered is of what is in the file
of the part, if there is one (`OfOneSender`), so that a match of the MD5 is a match
of the file; and from the match to the end of the join the file is the one that was
listed, or gone (`JoinsTheListed`).

`Supervisor_proofs` proves `TypeCorrect` (`Spec => []TypeOK`) and
`GoodSectionsStayUp` (`Spec => []GoodSectionsRun`), for any services in any order:
a service that `Apply` has been at runs the loaded section or is reported, and the
others are left.

It also proves `ThereIsAVersion` (`TheUpdate!UpdateSpec => []AVersionIsThere`) of
`SelfUpdate`, for any uploads and binaries. The property looks at the binaries only; the invariant adds what
the process at work knows of them: what is staged was checked
(`UploadsAreChecked`), which of the two files is there at each step of `Apply` and
after a crash (`FilesAreThere`), and that what runs is in place or in `.old`.

Of `SyncManager` it proves `SyncsDoTakeTurns`
(`TheSyncs!SyncManagerSpec => SyncsTakeTurns`), for any syncs, interval and
bounds: of one sync at most one runner is at work, the others are told to stop and
wait for it, and nobody waits on a time that is earlier than the one that was kept.
Of `ConfigFile` it proves `NoEditGoesUnseen` (`TheFile!ConfigSpec => NoEditIsLost`),
for any keys and administrators: a save that has read the file holds the saves, and
what it will write differs from the file, beside its own record, only where the
last to change that was no save (`FileInv`).

`Servers_proofs` proves of the file servers, for any clients, hosts, files,
scripts of commands, limits and size of the channel of commands:

| Theorem | States |
|---|---|
| `TransfersStayWhole` | `Spec /\ Ftp!Spec => []TransfersAreWhole` |
| `NothingDoesStay` | `Spec /\ Ftp!Spec /\ Sftp!Spec => []NothingStaysBehind` |
| `AnswersStayInOrder` | `Ftp!Spec => []OneAnswerEach` |
| `ServersAreSafe` | `ServersSpec =>` all three |

Each server has an invariant of its own, since they share no variable. That of TFTP
(`TftpInv`) has the slots, counted as cardinalities of the clients that hold one
(`SlotsOK`), what is at the destination of the uploads (`FileOK`), and what a
transfer, its client and the packets between them have counted (`TransferOK`).
Blocks are numbered modulo `BlockNumbers`, so what a number means has to be
proved: two counts less than a round apart are equal when their numbers are
(`SameRound`), and an acknowledgement that is not a round old moves the window by
what it says (`WindowMoves`). Both need a window smaller than the numbers there
are. That of FTP (`FtpInv`) says of each connection that every data
channel but the last, and every channel of a connection that is gone, was drained
(`ChannelsOK`), that a transfer is active exactly while the loop has it
(`LoopOK`), and who owes which answer: the reader, the queue, the loop and the
transfer's ABOR owe increasing numbers, each of which fits behind the answers
given so far (`QueueOK`, `AnswersOK`), and a command that was read is answered, or
owed by one of them, or an ABOR after the one the transfer took (`Accounted`).
`OneAnswerEach` is what is left of that when nothing is queued or runs. The steps
are shown once for a connection taken by itself (`TakesLine`, `HandsLine`,
`TakesHead`, `AnswersRun`, `AnswersAborted`, `AlikeOwes`) and put together by
`OneChanges`. That of SFTP (`SftpInv`) is `CountersAreTrue` with the types and
that finitely many are counted.

What these assume of the constants is named where they are declared
(`FolderAssumption`, `WorkAssumption`, `SendersAssumption`, `RequestsAssumption`, `LimitsAssumption`, `StoreAssumption`,
`UpdateAssumption`, `ServicesAssumption`, `LoadsAssumption`, `ServersAssumption`, `TreeAssumption`,
`AdminsAssumption`, `SyncsAssumption`, `ThrottleAssumption`, `RepositoryAssumption`): that what stands for nothing is none of
the others, that what is finite in the program (tasks, requests, images) is, that
limits and times are numbers, that an index is no image, and of a client of the
servers what it may send. TLC evaluates them
on every run.

Only model-checked:

- the liveness properties, since TLAPS does not prove fairness and ENABLED;
- `DatesAreKept` of `Trash`, which declares operators that are recursive over
  paths, as the code is, so that no theorem can be stated of it, nor of
  `MCStorage`, which puts it beside the others: this is why `Storage` is a module
  of its own;
- `ObjectsAreTrue` of `S3Objects`: a listing is the sorted sequence of a set of
  keys, which is defined by induction over data.

The proofs about `DiskRegistry` are of its own specification; `ServerUsesRegistry`
carries them over to the NBD server, and the invariant of `DiskFolder_proofs` has
the registry's as a part.

## What the runs found

1. **A lease that is never given back** (`nbd_lease`). A connection that has
   attached its image and cannot send the reply returns without closing the
   image or releasing its lease: the image stays in use until go-fs restarts.
2. **A cleanup that falls into a pull** (`oci_pulls`). `fetchBlob` looks for a
   blob before it takes the registry's lock and links it afterwards without
   looking again; a cleanup that sweeps it in between leaves a tag that names an
   image with a layer missing.
3. **A folder deleted over an older entry** (`trash_merge`). What comes into the
   trash with its folder, below a path that has an entry of its own, is shown and
   purged by the older date.

The properties of the passing runs are the promises without these cases, and
without the following ones, which were met while modelling. Each is excepted
where the property is defined, so that the runs show there are no others.

*Disks and NBD.* `FinishUpload` takes no mutex: with two uploads of one image it
can put the staging file in place while another request's `WriteChunk` goes on
writing it, which is then an image that is open for writing twice. With one
upload the open images are safe, as is proved; beside a `Sweep` only what an
upload puts in place may be wrong. `Sweep` looks at the mark of an old staging file and removes it in
two steps, so that a chunk resuming the upload in between is stored behind zeros.
A reload in the middle of a TLS handshake leaves a client that was judged by the
old settings.

*Supervisor.* A reload that failed for one service has been applied to the
others, and a file put back to the old configuration is passed over as saying
what already runs (`supervisor.go:451`). An edit between the first load and the
first stamp is not seen (`supervisor.go:397`). The watcher may start services
after `Shutdown` took the mutex before it (`supervisor.go:458`).

*Configuration file.* `handleApply` does not take `saving` and writes the
defaults with what the page posted, which undoes what was edited since the page
was loaded (`admin/server.go:333`, against `admin/file.go:13`); when the file
does not parse then, the servers and repositories the page does not carry are
dropped. An edit by hand between a save's read and its rename is lost, and a
save that logs in to a server leaves seconds for it. `.bak` may be of either of
an Apply and a save that meet. `EnsureSecrets` overwrites a secret that was set
by hand since the load.

*Update.* A crash between the two renames leaves the `.old` file only; when both
renames fail there is none in place, although `main.go:297` says the previous
binary is left where it was. The start removes `.old` before an update can fail.
`Stage` does not compare versions. Two instances that share one executable are
not modelled.

*Syncs.* A run that ends between `newRunner`'s read of the kept status and the
stop of the old runner is forgotten, and the next is early; a run asked of a
runner that was just replaced never runs, and one asked for beside a due timer
runs twice. `Reload` and `Shutdown` wait in `stop` without the deadline. A file
that changed since it was listed is removed by a plan that did not know it. What comes
to a path between the plan and its step goes with it: a file in the place of a folder
to be removed is destroyed by `os.Remove`, and a folder in the place of a file goes to
the trash with all that is in it, although `remove` is to take a file, or a folder with
nothing in it (`syncer/side.go:32`). `SyncLosesNothing` names both (`PutInItsPlace`).

*Served folder.* TFTP and FTP ask whether a name is taken when the request
arrives and replace it when the upload ends; S3 compares `If-Unmodified-Since`
before the body: `OverwritesOnlyInTheWindows` names these windows. A rename takes
no upload lock, so that a file it brings to a name after `finalizeUpload` looked is
replaced. Two clients'
chunks of one name share a staging file. `pruneTrash` drops the date of a file a
restore left behind (`httpd/trash.go:203`).

*S3.* `If-None-Match: *` is looked at before the body only, so that two such
writes may both succeed. A prune between `MkdirAll` and the rename makes an
upload fail with 500. With the trash on, deleting a folder key takes along a file
that came since the folder was read. The prune after the last key removes the
folder of the bucket, which no request may remove otherwise (`s3.go:301`).
`stageCopy` opens the source anew and copies as many bytes as were there before:
what came meanwhile is cut short. A trailer checksum that was announced and does
not come is not missed.

*Sessions and jobs.* A registry login sent beside a session is accepted with a
login older than a cap that was shortened (`docs/BROWSER.md:51`). Fixed windows
let twice the attempts, and what came in at once, through in one minute where
`docs/CONFIGURATION.md:341` says five. An answer that is late may undo a login or
a logout in the browser. A choice of an import that was accepted may be lost to
the timer or a stop. `startJob` may start a job after `Shutdown` returned.

*Servers.* FTP checks `maxConnections` before `serve` registers the connection,
so the limit may be exceeded, and one that registers after `Shutdown` took its
list is not closed (`ftp/server.go:262`); `abortTransfer` finds nothing while a
data connection is awaited (`server.go:229`). During a transfer the idle deadline
is only looked at when it passes (`docs/CONFIGURATION.md:328`). Two ABORs in one
transfer get one answer; a connection accepted after `closeData` drained the
channel is left open; AUTH is answered out of order; the reader blocks for ever
on a full channel when the loop has returned. SFTP: a grace timer that has begun
but not stored `fired` when `serve` looks closes a connection that is logged in;
a session may be opened by settings older than the login's. TFTP has no upper
limit of `windowsize` (`config.go:2078`), and lets a window be as large as the
block numbers.

*Repositories.* A package that is replaced between its read and the last `Stat`
is known by its new time with its old data; `Sign` renames over what came since;
an old version is pruned before the new one is admitted; when writing fails after
`repomd.xml` the signature is missing until the next change; a crash between
writing and recording with a folder put back leaves old metadata; a cache that
could not be dropped after a change of the key is taken for one of the new key. An empty folder is taken for listed by a runner
that has listed nothing yet, since both are `""` (`runner.go:42`, `350`): when the
configuration or the key has changed, or the cache cannot be read, and the last package
was removed before the next look, the look says it went well and the metadata of before
stays, with packages that are gone, an old title or an old signature. Putting a package,
a look, removing it, a reload with another title, a restart and a look show it, against
`runner.go:103`; for RPM always, for F-Droid where there is no icon. `docs/REPOSITORIES.md` says `repomd.xml` is
replaced last, and its signature is; the comment of `WriteIndex` says `entry.jar`
comes last, and it is replaced after the index it names. `Manager.Shutdown` and
`Reload` wait for a look under the mutex without their deadline.

## Plan

Done in this order, since the registry of leases is what two services share and
the operations on images are what can lose a disk: `DiskLocks`, `DiskRegistry`,
`DiskFolder`, `NbdServer`, `NbdTransmission`, `Supervisor`, `TftpServer`, and the
proofs of the registry, of NBD and of the supervisor; then what shares the served
folder and the stores beside it (`SharedFolder`, `MultipartUpload`, `Trash`,
`OciStore`, `S3Objects`), what runs in the background (`SyncRun`, `SyncManager`, `Repository`,
`TransferJobs`), who is let in (`LoginThrottle`, `Sessions`), the other servers
(`FtpServer`, `SftpServer`), and the server's own files (`ConfigFile`,
`SelfUpdate`).

Next:

1. `Reload` of the limits of TFTP and FTP under running transfers; active data
   channels.
2. An abstract served folder that `SharedFolder` implements (an upload replaces a
   file in one step).

## Not modelled

- Answers that are computed from one request: listings, archives, the pages, the
  Jellyfin API, query parameters, ranges. They keep no state between requests,
  and what they read is modelled by its writers.
- Formats and cryptography (RPM, F-Droid, PGP, audio, vaults, S3 signatures,
  JSON and YAML, the schema of the configuration): functions from bytes to bytes
  whose cases are their inputs, which tests enumerate better than states do.
- Clients of other servers (`remote`, `remote_view.go`, the release feed): their
  state is the other server's.
- What libraries do: WebDAV's protocol and lock system, SSH, TLS, bbolt.
- Sparse files below the calls `DiskFolder` makes, log rotation, certificate
  loading: I/O of one call.
- `store`: every operation is one transaction of bbolt, and what would go wrong
  between two of them is in the modules of those who use it.
