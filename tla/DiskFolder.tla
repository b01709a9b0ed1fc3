------------------------------ MODULE DiskFolder ------------------------------
(***************************************************************************)
(* The folder of disk images: the operations of the Disks page and the NBD *)
(* server on the files, with the leases of DiskRegistry around them        *)
(* (internal/disks: disks.go, jobs.go, upload.go).  Files are inodes that  *)
(* directory entries and open handles refer to, so that a handle goes on   *)
(* reaching a file that has been renamed or removed.  An image is a        *)
(* sequence of blocks, 0 being a block of zeros.                           *)
(*                                                                         *)
(* A task runs one operation at a time, one system call or one call of the *)
(* registry per step.  Names are taken for keys: a filesystem that ignores *)
(* case opens one file by all spellings of a key.                          *)
(***************************************************************************)
EXTENDS Naturals, Sequences, FiniteSets

CONSTANTS Keys, Sessions, Tasks, Cert, NoCert, None,  \* of DiskRegistry
          Inodes,     \* what files may be made of: enough for all in use
          Blocks,     \* what a block may hold, 0 among it
          MaxLen,     \* the largest image, in blocks
          Loads       \* the workloads of a run: the sessions that come, the
                      \* operations each task may run, the images the tasks run
                      \* them on, and whether Sweep runs

Ops == {"create", "resize", "rename", "delete", "download", "clone", "upload"}
Kinds == {"upload", "clone"}

ASSUME FolderAssumption ==
    /\ 0 \in Blocks /\ MaxLen \in Nat
    /\ None \notin Inodes \union Keys \union Tasks \union Sessions
    /\ IsFiniteSet(Tasks) /\ Tasks \intersect Sessions = {}
    /\ Loads \subseteq [sessions : SUBSET Sessions, may : [Tasks -> SUBSET Ops],
                       on : SUBSET Keys, sweeps : BOOLEAN]
    /\ \E f \in [Keys -> Inodes] : \A k, l \in Keys : f[k] = f[l] => k = l

VARIABLES entries, pc, ask, victim, closed, leases   \* of DiskRegistry
VARIABLES dir,        \* image -> inode of that name, or None
          staged,     \* kind and image -> inode of its staging file, or None
          data        \* inode -> blocks
VARIABLES file,       \* session -> inode of the image it has open, or None
          told,       \* session -> blocks it told its client of, or None
          reads,      \* task -> inode it has open for reading, or None
          writes      \* task -> inode it has open for writing, or None
VARIABLES job,        \* task -> the operation it is in
          uploading,  \* registry.uploads: image -> task that has its mutex
          work,       \* registry.work: kind and image -> marks on it
          sweep       \* what Sweep is looking at
VARIABLE  load        \* the workload of this behaviour, which stays the same
VARIABLE  sent        \* history: image -> blocks sent for its upload so far

Reg == INSTANCE DiskRegistry

regVars == <<entries, pc, ask, victim, closed, leases>>
handleVars == <<file, told, reads, writes>>
taskVars == <<job, uploading, work, sweep, sent>>
fileVars == <<dir, staged, data>>
vars == <<regVars, fileVars, handleVars, taskVars, load>>

Idle == [at |-> "idle", op |-> None, from |-> None, to |-> None, size |-> 0,
         may |-> FALSE, start |-> 0, end |-> 0, pos |-> 0, got |-> <<>>]
NoSweep == [at |-> "idle", kind |-> "upload", key |-> None]

-----------------------------------------------------------------------------
(* Files.                                                                   *)

Zeros(n) == [i \in 1..n |-> 0]

(* ftruncate: cuts off, or extends by a hole that reads as zeros.           *)
Truncated(blocks, n) == [i \in 1..n |-> IF i <= Len(blocks) THEN blocks[i] ELSE 0]

(* pwrite of one block, which extends a file that ends before it.           *)
Written(blocks, i, v) ==
    [Truncated(blocks, IF i > Len(blocks) THEN i ELSE Len(blocks)) EXCEPT ![i] = v]

InUse(i) ==
    \/ \E k \in Keys : dir[k] = i
    \/ \E x \in Kinds \X Keys : staged[x] = i
    \/ \E s \in Sessions : file[s] = i
    \/ \E t \in Tasks : i \in {reads[t], writes[t]}

NewInode == CHOOSE i \in Inodes : ~InUse(i)

(* The contents become what c says; an inode nobody has open or a name for  *)
(* is freed.  Last conjunct of an action, after dir, staged and handles.    *)
Store(c) == data' = [i \in Inodes |-> IF InUse(i)' THEN c[i] ELSE <<>>]

-----------------------------------------------------------------------------
(* NBD sessions: Folder.Attach, the writes of its client, and its end.      *)

(* Attach looks for the image before it asks for the lease.                 *)
Ask(s) ==
    /\ s \in load.sessions /\ dir[ask[s].key] # None
    /\ Reg!Ask(s)
    /\ UNCHANGED <<fileVars, handleVars, taskVars>>

Acquire(s) ==
    /\ \/ Reg!Attach(s) \/ Reg!Refuse(s) \/ Reg!PickVictim(s) \/ Reg!Evict(s)
       \/ Reg!Retry(s) \/ Reg!GiveUp(s)
    /\ UNCHANGED <<fileVars, handleVars, taskVars>>

Disconnect(s) ==
    /\ Reg!Disconnect(s)
    /\ UNCHANGED <<fileVars, handleVars, taskVars>>

(* Attach opens the image once it has the lease; its size is what the       *)
(* client is told the disk has.                                             *)
Open(s) ==
    LET i == dir[ask[s].key] IN
    /\ pc[s] = "attached" /\ told[s] = None
    /\ i # None
    /\ file' = [file EXCEPT ![s] = i]
    /\ told' = [told EXCEPT ![s] = Len(data[i])]
    /\ UNCHANGED <<regVars, fileVars, reads, writes, taskVars>>

(* The guest writes a block of its disk.  A session that was closed still   *)
(* works through what its client had sent.                                  *)
Write(s, b, v) ==
    /\ file[s] # None /\ ask[s].mode = "Writer"
    /\ b <= told[s]
    /\ data' = [data EXCEPT ![file[s]] = Written(@, b, v)]
    /\ UNCHANGED <<regVars, dir, staged, handleVars, taskVars>>

(* transmit is over: the file is closed before the lease is released.       *)
Shut(s) ==
    /\ file[s] # None
    /\ file' = [file EXCEPT ![s] = None]
    /\ UNCHANGED <<regVars, dir, staged, told, reads, writes, taskVars>>
    /\ Store(data)

(* Mutated: the lease goes before the file is closed.                       *)
DetachBeforeClose(s) ==
    /\ Reg!Detach(s)
    /\ UNCHANGED <<fileVars, handleVars, taskVars>>

(* The lease of a session that is over, or could not open the image.        *)
Detach(s) ==
    /\ file[s] = None
    /\ Reg!Detach(s)
    /\ UNCHANGED <<fileVars, handleVars, taskVars>>

-----------------------------------------------------------------------------
(* What tasks have in common.                                               *)

Go(t, at) == job' = [job EXCEPT ![t].at = at]
At(t, op, at) == job[t].op = op /\ job[t].at = at

(* A request comes in and its operation starts.                             *)
Start(t, j) ==
    /\ job[t].at = "idle" /\ j.op \in load.may[t] /\ {j.from, j.to} \ {None} \subseteq load.on
    /\ job' = [job EXCEPT ![t] = j]
    /\ UNCHANGED <<regVars, fileVars, handleVars, uploading, work, sweep, sent>>

(* acquire, which never waits for a task: with the lease the task goes on,  *)
(* refused it gives up and lets go of the lease it may have already.        *)
Lock(t, k, mode, next) ==
    /\ \/ Reg!TakeLease(t, k, mode) /\ Go(t, next)
       \/ Reg!Refused(entries[k], mode) /\ Go(t, "release") /\ UNCHANGED regVars
    /\ UNCHANGED <<fileVars, handleVars, uploading, work, sweep, sent>>

(* Leases are released in the order they were taken, and the task is over.  *)
Release(t) ==
    LET first == IF \E l \in leases[t] : l[1] = job[t].from THEN job[t].from ELSE job[t].to IN
    /\ job[t].at = "release"
    /\ IF leases[t] = {}
       THEN /\ job' = [job EXCEPT ![t] = Idle]
            /\ UNCHANGED regVars
            /\ work' = IF job[t].op = "clone" /\ job[t].may
                       THEN [work EXCEPT ![<<"clone", job[t].to>>] = @ - 1] ELSE work
       ELSE /\ \E mode \in Reg!TaskModes : Reg!DropLease(t, first, mode)
            /\ UNCHANGED <<job, work>>
    /\ UNCHANGED <<fileVars, handleVars, uploading, sweep, sent>>

(* A step on the names and contents of files that touches nothing else.     *)
NoHandles == UNCHANGED <<handleVars, uploading, work, sweep, sent, regVars>>

(* Closes what the task has open.                                           *)
CloseFiles(t) ==
    /\ reads' = [reads EXCEPT ![t] = None]
    /\ writes' = [writes EXCEPT ![t] = None]
    /\ UNCHANGED <<file, told>>

-----------------------------------------------------------------------------
(* Create: O_EXCL under the name, then the size; what fails is removed.     *)

StartCreate(t, k, n) ==
    Start(t, [Idle EXCEPT !.op = "create", !.at = "lock", !.from = k, !.size = n])

CreateOpen(t) ==
    LET k == job[t].from IN
    /\ At(t, "create", "act")
    /\ IF dir[k] # None
       THEN Go(t, "release") /\ UNCHANGED <<fileVars, handleVars>>
       ELSE LET i == NewInode IN
            /\ dir' = [dir EXCEPT ![k] = i]
            /\ writes' = [writes EXCEPT ![t] = i]
            /\ Go(t, "extend")
            /\ UNCHANGED <<staged, file, told, reads>>
            /\ Store([data EXCEPT ![i] = <<>>])
    /\ UNCHANGED <<regVars, uploading, work, sweep, sent>>

CreateExtend(t) ==
    /\ At(t, "create", "extend")
    /\ CloseFiles(t)
    /\ UNCHANGED staged
    /\ \/ /\ UNCHANGED dir
          /\ Store([data EXCEPT ![writes[t]] = Truncated(@, job[t].size)])
       \/ /\ dir' = [dir EXCEPT ![job[t].from] = None]
          /\ Store(data)
    /\ Go(t, "release")
    /\ UNCHANGED <<regVars, uploading, work, sweep, sent>>

(* Resize: Stat, lease, open, then the size; may is shrink.                 *)
StartResize(t, k, n, shrink) ==
    /\ dir[k] # None
    /\ Start(t, [Idle EXCEPT !.op = "resize", !.at = "lock", !.from = k, !.size = n,
                             !.may = shrink])

ResizeOpen(t) ==
    LET i == dir[job[t].from] IN
    /\ At(t, "resize", "act")
    /\ IF i = None THEN Go(t, "release") /\ UNCHANGED handleVars
       ELSE Go(t, "extend") /\ writes' = [writes EXCEPT ![t] = i] /\ UNCHANGED <<file, told, reads>>
    /\ UNCHANGED <<regVars, fileVars, uploading, work, sweep, sent>>

ResizeTruncate(t) ==
    /\ At(t, "resize", "extend")
    /\ CloseFiles(t)
    /\ UNCHANGED <<dir, staged>>
    /\ IF job[t].size < Len(data[writes[t]]) /\ ~job[t].may
       THEN Store(data)
       ELSE Store([data EXCEPT ![writes[t]] = Truncated(@, job[t].size)])
    /\ Go(t, "release")
    /\ UNCHANGED <<regVars, uploading, work, sweep, sent>>

(* Rename: both names exclusively, or one when only its case changes.       *)
StartRename(t, a, b) ==
    /\ dir[a] # None
    /\ Start(t, [Idle EXCEPT !.op = "rename", !.at = "lock", !.from = a, !.to = b])

RenameCheck(t) ==
    /\ At(t, "rename", "act")
    /\ Go(t, IF job[t].from # job[t].to /\ dir[job[t].to] # None THEN "release" ELSE "move")
    /\ UNCHANGED fileVars /\ NoHandles

RenameMove(t) ==
    LET a == job[t].from  b == job[t].to IN
    /\ At(t, "rename", "move")
    /\ dir' = IF a = b \/ dir[a] = None THEN dir ELSE [dir EXCEPT ![b] = dir[a], ![a] = None]
    /\ Go(t, "release")
    /\ UNCHANGED staged /\ NoHandles
    /\ Store(data)

StartDelete(t, k) ==
    /\ dir[k] # None
    /\ Start(t, [Idle EXCEPT !.op = "delete", !.at = "lock", !.from = k])

Remove(t) ==
    /\ At(t, "delete", "act")
    /\ dir' = [dir EXCEPT ![job[t].from] = None]
    /\ Go(t, "release")
    /\ UNCHANGED staged /\ NoHandles
    /\ Store(data)

-----------------------------------------------------------------------------
(* A download: OpenRead, and the image read from front to end.              *)

StartDownload(t, k) ==
    /\ dir[k] # None
    /\ Start(t, [Idle EXCEPT !.op = "download", !.at = "lock", !.from = k])

DownloadOpen(t) ==
    LET i == dir[job[t].from] IN
    /\ At(t, "download", "act")
    /\ IF i = None THEN Go(t, "release") /\ UNCHANGED handleVars
       ELSE Go(t, "copy") /\ reads' = [reads EXCEPT ![t] = i] /\ UNCHANGED <<file, told, writes>>
    /\ UNCHANGED <<regVars, fileVars, uploading, work, sweep, sent>>

DownloadBlock(t) ==
    LET n == Len(job[t].got) + 1 IN
    /\ At(t, "download", "copy")
    /\ n <= Len(data[reads[t]])
    /\ job' = [job EXCEPT ![t].got = Append(@, data[reads[t]][n])]
    /\ UNCHANGED fileVars /\ NoHandles

(* All of it was sent, or the client went away.                             *)
DownloadEnd(t) ==
    /\ At(t, "download", "copy")
    /\ CloseFiles(t)
    /\ Go(t, "release")
    /\ UNCHANGED <<regVars, dir, staged, uploading, work, sweep, sent>>
    /\ Store(data)

-----------------------------------------------------------------------------
(* Clone: the source held, the new name taken, the copy made in a staging   *)
(* file.  may is set once the job has marked its work.                      *)

StartClone(t, src, dst) ==
    /\ dir[src] # None /\ src # dst
    /\ Start(t, [Idle EXCEPT !.op = "clone", !.at = "lock", !.from = src, !.to = dst])

CloneCheck(t) ==
    /\ At(t, "clone", "act")
    /\ Go(t, IF dir[job[t].to] # None THEN "release" ELSE "clear")
    /\ UNCHANGED fileVars /\ NoHandles

(* Whatever an earlier clone into the name left behind is removed ...       *)
CloneClear(t) ==
    /\ At(t, "clone", "clear")
    /\ staged' = [staged EXCEPT ![<<"clone", job[t].to>>] = None]
    /\ Go(t, "begin")
    /\ UNCHANGED dir /\ NoHandles
    /\ Store(data)

(* Mutated: the mark is never taken back.                                   *)
CloneBeginUnended(t) ==
    /\ At(t, "clone", "begin")
    /\ work' = [work EXCEPT ![<<"clone", job[t].to>>] = @ + 1]
    /\ Go(t, "copy")
    /\ UNCHANGED <<regVars, fileVars, handleVars, uploading, sweep, sent>>

(* ... and then the job marks the work that Sweep is to leave alone.        *)
CloneBegin(t) ==
    /\ At(t, "clone", "begin")
    /\ work' = [work EXCEPT ![<<"clone", job[t].to>>] = @ + 1]
    /\ job' = [job EXCEPT ![t].at = "copy", ![t].may = TRUE]
    /\ UNCHANGED <<regVars, fileVars, handleVars, uploading, sweep, sent>>

(* sparse.CopyFile opens the source and makes the staging file, O_EXCL:     *)
(* with the blocks of the source, where the filesystem shares them, or of   *)
(* its length and empty.  Where either fails, the staging name is cleared.  *)
CloneOpen(t) ==
    LET x == <<"clone", job[t].to>>  i == dir[job[t].from]  new == NewInode
        Made(at, blocks) ==
            /\ i # None /\ staged[x] = None
            /\ staged' = [staged EXCEPT ![x] = new]
            /\ Go(t, at)
            /\ Store([data EXCEPT ![new] = blocks])
    IN
    /\ At(t, "clone", "copy")
    /\ UNCHANGED <<regVars, dir, file, told, uploading, work, sweep, sent>>
    /\ \/ UNCHANGED <<reads, writes>> /\ Made("check", data[i])
       \/ /\ reads' = [reads EXCEPT ![t] = i]
          /\ writes' = [writes EXCEPT ![t] = new]
          /\ Made("block", Zeros(Len(data[i])))
       \/ /\ UNCHANGED <<reads, writes>>
          /\ staged' = [staged EXCEPT ![x] = None]
          /\ Go(t, "release")
          /\ Store(data)

CloneBlock(t) ==
    LET n == job[t].pos + 1 IN
    /\ At(t, "clone", "block")
    /\ n <= Len(data[reads[t]])
    /\ data' = [data EXCEPT ![writes[t]] = Written(@, n, data[reads[t]][n])]
    /\ job' = [job EXCEPT ![t].pos = n]
    /\ UNCHANGED <<dir, staged>> /\ NoHandles

CloneCopied(t) ==
    /\ At(t, "clone", "block")
    /\ job[t].pos >= Len(data[reads[t]])
    /\ CloseFiles(t)
    /\ Go(t, "check")
    /\ UNCHANGED <<regVars, dir, staged, uploading, work, sweep, sent>>
    /\ Store(data)

(* The copy is cancelled, or fails: what it made is removed.                *)
CloneStop(t) ==
    /\ At(t, "clone", "block")
    /\ CloseFiles(t)
    /\ staged' = [staged EXCEPT ![<<"clone", job[t].to>>] = None]
    /\ Go(t, "release")
    /\ UNCHANGED <<regVars, dir, uploading, work, sweep, sent>>
    /\ Store(data)

CloneCheckAgain(t) ==
    /\ At(t, "clone", "check")
    /\ IF dir[job[t].to] # None
       THEN /\ staged' = [staged EXCEPT ![<<"clone", job[t].to>>] = None]
            /\ Go(t, "release")
       ELSE Go(t, "move") /\ UNCHANGED staged
    /\ UNCHANGED dir /\ NoHandles
    /\ Store(data)

CloneMove(t) ==
    LET x == <<"clone", job[t].to>> IN
    /\ At(t, "clone", "move")
    /\ dir' = IF staged[x] = None THEN dir ELSE [dir EXCEPT ![job[t].to] = staged[x]]
    /\ staged' = [staged EXCEPT ![x] = None]
    /\ Go(t, "release")
    /\ NoHandles
    /\ Store(data)

-----------------------------------------------------------------------------
(* An upload, as diskUpload of the Disks page runs it: WriteChunk of one    *)
(* chunk under the mutex of the upload, from block start up to block end    *)
(* of size blocks, and FinishUpload when the chunk was the last; may is     *)
(* replace.                                                                 *)

Staging(t) == <<"upload", job[t].from>>

StartUpload(t, k, start, end, total, replace) ==
    /\ start < end /\ end <= total
    /\ ~(start = 0 /\ ~replace /\ dir[k] # None)
    /\ Start(t, [Idle EXCEPT !.op = "upload", !.at = "mutex", !.from = k, !.size = total,
                             !.start = start, !.end = end, !.pos = start, !.may = replace])

(* TryLock, and the mark on the work.                                       *)
UploadBegin(t) ==
    LET k == job[t].from IN
    /\ At(t, "upload", "mutex")
    /\ IF uploading[k] # None
       THEN Go(t, "release") /\ UNCHANGED <<uploading, work>>
       ELSE /\ uploading' = [uploading EXCEPT ![k] = t]
            /\ work' = [work EXCEPT ![Staging(t)] = @ + 1]
            /\ Go(t, "fit")
    /\ UNCHANGED <<regVars, fileVars, handleVars, sweep, sent>>

(* A chunk has to start where what is staged ends; one that has landed      *)
(* already is done.                                                         *)
UploadFit(t) ==
    LET i == staged[Staging(t)] IN
    /\ At(t, "upload", "fit")
    /\ Go(t, IF job[t].start = 0 THEN "open"
             ELSE IF i = None THEN "unlock"
             ELSE IF Len(data[i]) = job[t].start THEN "open"
             ELSE IF Len(data[i]) = job[t].end THEN "landed" ELSE "unlock")
    /\ UNCHANGED fileVars /\ NoHandles

UploadOpen(t) ==
    LET x == Staging(t)  i == IF staged[x] = None THEN NewInode ELSE staged[x] IN
    /\ At(t, "upload", "open")
    /\ staged' = [staged EXCEPT ![x] = i]
    /\ writes' = [writes EXCEPT ![t] = i]
    /\ Go(t, IF job[t].start = 0 THEN "clear" ELSE "block")
    /\ UNCHANGED <<regVars, dir, file, told, reads, uploading, work, sweep, sent>>
    /\ Store(data)

(* Mutated: starting over leaves what an abandoned upload staged.           *)
UploadNotCleared(t) ==
    /\ At(t, "upload", "clear")
    /\ Go(t, "block")
    /\ UNCHANGED fileVars /\ NoHandles

(* A chunk from byte zero starts the upload over.                           *)
UploadClear(t) ==
    /\ At(t, "upload", "clear")
    /\ data' = [data EXCEPT ![writes[t]] = <<>>]
    /\ Go(t, "block")
    /\ UNCHANGED <<dir, staged>> /\ NoHandles

(* A block of the body, which is not written when it is zeros.              *)
UploadBlock(t, v) ==
    LET n == job[t].pos + 1 IN
    /\ At(t, "upload", "block")
    /\ n <= job[t].end
    /\ data' = IF v = 0 THEN data ELSE [data EXCEPT ![writes[t]] = Written(@, n, v)]
    /\ sent' = [sent EXCEPT ![job[t].from] = Append(Truncated(@, job[t].pos), v)]
    /\ job' = [job EXCEPT ![t].pos = n]
    /\ UNCHANGED <<regVars, dir, staged, handleVars, uploading, work, sweep>>

(* The body ended early: back to where the chunk started.                   *)
UploadUndo(t) ==
    /\ At(t, "upload", "block")
    /\ data' = [data EXCEPT ![writes[t]] = Truncated(@, job[t].start)]
    /\ Go(t, "unlock")
    /\ UNCHANGED <<dir, staged>> /\ NoHandles

UploadExtend(t) ==
    /\ At(t, "upload", "block")
    /\ job[t].pos = job[t].end
    /\ data' = [data EXCEPT ![writes[t]] = Truncated(@, job[t].end)]
    /\ Go(t, "landed")
    /\ UNCHANGED <<dir, staged>> /\ NoHandles

(* WriteChunk returns: its file is closed, its mark and its mutex are gone. *)
UploadUnlock(t) ==
    LET k == job[t].from IN
    /\ job[t].op = "upload" /\ job[t].at \in {"unlock", "landed"}
    /\ CloseFiles(t)
    /\ uploading' = [uploading EXCEPT ![k] = None]
    /\ work' = [work EXCEPT ![Staging(t)] = @ - 1]
    /\ Go(t, IF job[t].at = "landed" /\ job[t].end = job[t].size THEN "whole" ELSE "release")
    /\ UNCHANGED <<regVars, dir, staged, sweep, sent>>
    /\ Store(data)

(* FinishUpload: all of it has to be staged, and then the lease.            *)
FinishStat(t) ==
    LET i == staged[Staging(t)] IN
    /\ At(t, "upload", "whole")
    /\ Go(t, IF i # None /\ Len(data[i]) = job[t].size THEN "lock" ELSE "release")
    /\ UNCHANGED fileVars /\ NoHandles

FinishCheck(t) ==
    /\ At(t, "upload", "act")
    /\ Go(t, IF dir[job[t].from] # None /\ ~job[t].may THEN "release" ELSE "move")
    /\ UNCHANGED fileVars /\ NoHandles

FinishMove(t) ==
    LET x == Staging(t) IN
    /\ At(t, "upload", "move")
    /\ dir' = IF staged[x] = None THEN dir ELSE [dir EXCEPT ![job[t].from] = staged[x]]
    /\ staged' = [staged EXCEPT ![x] = None]
    /\ Go(t, "release")
    /\ NoHandles
    /\ Store(data)

-----------------------------------------------------------------------------
(* Sweep: a staging file untouched for maxAge, which a step may always find *)
(* since any time may pass between two steps; then the mark; then the file. *)

SweepSees(kind, k) ==
    /\ sweep.at = "idle" /\ load.sweeps
    /\ staged[<<kind, k>>] # None
    /\ sweep' = [at |-> "seen", kind |-> kind, key |-> k]
    /\ UNCHANGED <<regVars, fileVars, handleVars, job, uploading, work, sent>>

SweepChecks ==
    /\ sweep.at = "seen"
    /\ sweep' = IF work[<<sweep.kind, sweep.key>>] > 0 THEN NoSweep ELSE [sweep EXCEPT !.at = "remove"]
    /\ UNCHANGED <<regVars, fileVars, handleVars, job, uploading, work, sent>>

SweepRemoves ==
    /\ sweep.at = "remove"
    /\ staged' = [staged EXCEPT ![<<sweep.kind, sweep.key>>] = None]
    /\ sweep' = NoSweep
    /\ UNCHANGED <<regVars, dir, handleVars, job, uploading, work, sent>>
    /\ Store(data)

-----------------------------------------------------------------------------
(* Some images are there from the start, of full size.                      *)
FirstInode ==
    CHOOSE f \in [Keys -> Inodes] : \A k, l \in Keys : f[k] = f[l] => k = l

Init ==
    /\ Reg!Init
    /\ load \in Loads
    /\ \E images \in SUBSET load.on :
          dir = [k \in Keys |-> IF k \in images THEN FirstInode[k] ELSE None]
    /\ staged = [x \in Kinds \X Keys |-> None]
    /\ data = [i \in Inodes |-> IF \E k \in Keys : dir[k] = i THEN Zeros(MaxLen) ELSE <<>>]
    /\ file = [s \in Sessions |-> None]
    /\ told = [s \in Sessions |-> None]
    /\ reads = [t \in Tasks |-> None]
    /\ writes = [t \in Tasks |-> None]
    /\ job = [t \in Tasks |-> Idle]
    /\ uploading = [k \in Keys |-> None]
    /\ work = [x \in Kinds \X Keys |-> 0]
    /\ sweep = NoSweep
    /\ sent = [k \in Keys |-> <<>>]

(* The server stops and starts again: the files stay as they are.           *)
Restart ==
    /\ Reg!Restart
    /\ UNCHANGED <<dir, staged, told, sent>>
    /\ file' = [s \in Sessions |-> None]
    /\ reads' = [t \in Tasks |-> None]
    /\ writes' = [t \in Tasks |-> None]
    /\ job' = [t \in Tasks |-> Idle]
    /\ uploading' = [k \in Keys |-> None]
    /\ work' = [x \in Kinds \X Keys |-> 0]
    /\ sweep' = NoSweep
    /\ Store(data)

Session(s) ==
    \/ Ask(s) \/ Acquire(s) \/ Disconnect(s) \/ Open(s) \/ Shut(s) \/ Detach(s)
    \/ \E b \in 1..MaxLen, v \in Blocks : Write(s, b, v)

Request(t) ==
    \/ \E k \in Keys :
         \/ StartDelete(t, k) \/ StartDownload(t, k)
         \/ \E n \in 1..MaxLen : StartCreate(t, k, n)
         \/ \E n \in 1..MaxLen, shrink \in BOOLEAN : StartResize(t, k, n, shrink)
         \/ \E l \in Keys : StartRename(t, k, l) \/ StartClone(t, k, l)
         \/ \E b \in 0..MaxLen, e, n \in 1..MaxLen, replace \in BOOLEAN :
                StartUpload(t, k, b, e, n, replace)

(* The leases an operation takes after its Stat.                            *)
Locks(t) ==
    LET j == job[t]  mode == IF j.op \in {"download", "clone"} THEN "Hold" ELSE "Exclusive" IN
    \/ /\ j.at = "lock"
       /\ Lock(t, j.from, mode,
               IF j.op = "clone" \/ (j.op = "rename" /\ j.to # j.from) THEN "lock2" ELSE "act")
    \/ /\ j.at = "lock2"
       /\ Lock(t, j.to, "Exclusive", "act")

Operation(t) ==
    \/ Locks(t) \/ Release(t)
    \/ CreateOpen(t) \/ CreateExtend(t)
    \/ ResizeOpen(t) \/ ResizeTruncate(t)
    \/ RenameCheck(t) \/ RenameMove(t) \/ Remove(t)
    \/ DownloadOpen(t) \/ DownloadBlock(t) \/ DownloadEnd(t)
    \/ CloneCheck(t) \/ CloneClear(t) \/ CloneBegin(t) \/ CloneOpen(t) \/ CloneBlock(t)
    \/ CloneCopied(t) \/ CloneStop(t) \/ CloneCheckAgain(t) \/ CloneMove(t)
    \/ UploadBegin(t) \/ UploadFit(t) \/ UploadOpen(t) \/ UploadClear(t)
    \/ \E v \in Blocks : UploadBlock(t, v)
    \/ UploadUndo(t) \/ UploadExtend(t) \/ UploadUnlock(t)
    \/ FinishStat(t) \/ FinishCheck(t) \/ FinishMove(t)

Sweep == (\E x \in Kinds \X Keys : SweepSees(x[1], x[2])) \/ SweepChecks \/ SweepRemoves

Next ==
    /\ \/ \E s \in Sessions : Session(s)
       \/ \E t \in Tasks : Request(t) \/ Operation(t)
       \/ Sweep
       \/ Restart
    /\ UNCHANGED load

Spec == Init /\ [][Next]_vars

-----------------------------------------------------------------------------
(* The package promises "that a disk is never resized under a VM, and never *)
(* attached read-write by two" (disks.go:5).  Said of files and not of      *)
(* leases: the image a session has open keeps the size its client was told; *)
(* no file is open for writing twice, by two guests or by a guest and an    *)
(* operation of the page; and what a session has open, or a download or     *)
(* clone reads, stays the image of that name, though each looked for it     *)
(* before it had a lease.                                                   *)
OpenImagesAreSafe ==
    /\ \A s \in Sessions : file[s] # None =>
          Len(data[file[s]]) = told[s] /\ file[s] = dir[ask[s].key]
    /\ \A t \in Tasks : reads[t] # None => reads[t] = dir[job[t].from]
    /\ \A i \in Inodes :
          Cardinality({s \in Sessions : file[s] = i /\ ask[s].mode = "Writer"}
                      \union {t \in Tasks : writes[t] = i}) <= 1

(* A download and a clone are of the image as it is: nothing read so far    *)
(* has changed since, so that the copy is of one moment (jobs.go:69).       *)
CopyIsOfOneMoment ==
    \A t \in Tasks :
        /\ At(t, "download", "copy") =>
              \A n \in 1..Len(job[t].got) : job[t].got[n] = data[reads[t]][n]
        /\ At(t, "clone", "block") =>
              \A n \in 1..job[t].pos : data[writes[t]][n] = data[reads[t]][n]
        /\ At(t, "clone", "move") =>
              LET i == staged[<<"clone", job[t].to>>] IN
              i # None => data[i] = data[dir[job[t].from]]

(* What a step may put in place.                                            *)
PlacedAsAsked ==
    /\ \A k \in Keys :
          dir[k] # None /\ dir'[k] \notin {dir[k], None} =>
            \E t \in Tasks : At(t, "upload", "move") /\ job[t].from = k /\ job[t].may
    /\ \A t \in Tasks :
          At(t, "upload", "move") /\ staged[Staging(t)] # None
              /\ dir'[job[t].from] = staged[Staging(t)]
            => /\ Len(data[staged[Staging(t)]]) = job[t].size
               /\ data[staged[Staging(t)]] = Truncated(sent[job[t].from], job[t].size)

(* An image is never put over another one, by a rename, a clone or an       *)
(* upload that looked for it earlier, but where the upload says replace.    *)
(* FinishUpload "puts the complete upload of the image name of total bytes  *)
(* in place" (upload.go:128): the image it puts in place is as long as the  *)
(* upload, and holds the blocks that were sent, in whatever chunks, with    *)
(* whatever failing, being sent again or starting over in between.          *)
PutInPlaceAsAsked == [][PlacedAsAsked]_vars

(* No image stays locked behind a request that is over, whichever step of   *)
(* it failed: an idle task holds nothing, and a staging file is marked as   *)
(* being worked on exactly by the tasks that are.                           *)
Works(t, x) ==
    \/ job[t].op = "clone" /\ job[t].may /\ x = <<"clone", job[t].to>>
    \/ job[t].op = "upload" /\ x = Staging(t)
       /\ job[t].at \in {"fit", "open", "clear", "block", "landed", "unlock"}

NothingLeftBehind ==
    /\ \A t \in Tasks : job[t].at = "idle" =>
          leases[t] = {} /\ reads[t] = None /\ writes[t] = None
    /\ \A k \in Keys :
          {t \in Tasks : Works(t, <<"upload", k>>)} = {uploading[k]} \ {None}
    /\ \A x \in Kinds \X Keys : work[x] = Cardinality({t \in Tasks : Works(t, x)})
=============================================================================
