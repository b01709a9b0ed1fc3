---------------------------- MODULE SharedFolder ----------------------------
(***************************************************************************)
(* The served folder as its writers share it: uploads of the page in one   *)
(* piece and in chunks, WebDAV, S3 and fetched files, FTP and SFTP, beside  *)
(* renames and deletes of any of them.  All of them are processes of the   *)
(* same file system, and what each may rely on is all there is between     *)
(* them: O_EXCL, the lock of an upload's target, and the claim on a path a *)
(* WebDAV client may have locked.                                          *)
(*                                                                         *)
(* Files are inodes.  A request makes at most one, and the inode has its   *)
(* name.  Content is what came from whom: piece k of an upload is <<r, k>>.*)
(*                                                                         *)
(* Left out: folders, conditions on the time of a file, restarts of FTP    *)
(* uploads at an offset, and a staging folder on another file system,      *)
(* which the documentation advises against.                                *)
(***************************************************************************)
EXTENDS Naturals, Sequences, FiniteSets

CONSTANTS
  Names,      \* names in a folder that is there
  Requests,
  Work,       \* request -> what it may be: records of op, name, to, right
  Pieces,     \* bound: pieces of an upload
  MaxLost,    \* bound: answers to a chunk that are lost
  None

Claiming == {"put", "webdav", "move", "delete", "finder"}
Staging == {"webdav", "s3", "fetch"}
InPlace == {"put", "stor", "appe", "sftp"}
Uploads == {"chunks"} \cup Staging \cup InPlace
Moving == {"move", "rename"}        \* of the page and WebDAV, of FTP and SFTP
Deleting == {"delete", "remove"}

(* What may come to the folder: a rename is to a name, too.                *)
ASSUME WorkAssumption ==
  /\ IsFiniteSet(Requests) /\ Names \cap Requests = {} /\ None \notin Names \cup Requests
  /\ Pieces \in Nat \ {0}
  /\ \A r \in Requests : \A j \in Work[r] :
       /\ j.op \in Uploads \cup Moving \cup Deleting \cup {"finder"}
       /\ j.name \in Names /\ j.right \in BOOLEAN
       /\ j.to \in Names \cup {None} /\ (j.op \in Moving => j.to \in Names)

VARIABLES
  names,      \* name -> the inode it has, or None
  data,       \* inode -> its pieces
  staged,     \* name -> pieces of its chunked upload, None when there is none
  locks,      \* uploadLocks: name -> who holds it
  claims,     \* dav.locks: name -> who has claimed it
  req,        \* what each request is and how far it has come
  webdav,     \* http.webdav
  lost

vars == <<names, data, staged, locks, claims, req, webdav, lost>>
folder == <<names, data>>

Inodes == Names \cup Requests
Hole == <<None, 0>>

Exists(n) == names[n] # None
At(r, pc) == req[r].pc = pc
Name(r) == req[r].name
Goes(r, pc) == req' = [req EXCEPT ![r].pc = pc]
Stays == UNCHANGED <<folder, staged, locks, claims, webdav, lost>>

(* The end of a request gives back the locks and claims it has. *)
Freed(held, r) == [n \in Names |-> IF held[n] = r THEN None ELSE held[n]]
LetsGo(r) == locks' = Freed(locks, r) /\ claims' = Freed(claims, r)
Answers(r, pc) == Goes(r, pc) /\ LetsGo(r) /\ UNCHANGED <<webdav, lost>>
Refuses(r) == Answers(r, "refused") /\ UNCHANGED <<folder, staged>>

(* A write at an offset: what is skipped over reads as zeros. *)
Put(s, k, piece) ==
  [j \in 1 .. (IF k > Len(s) THEN k ELSE Len(s)) |->
     IF j = k THEN piece ELSE IF j <= Len(s) THEN s[j] ELSE Hole]

Links(n, i) == names' = [names EXCEPT ![n] = i]
Creates(r) ==
  /\ Links(Name(r), r) /\ data' = [data EXCEPT ![r] = <<>>]
  /\ req' = [req EXCEPT ![r].pc = "writes", ![r].file = r]
Opens(r, truncates) ==
  LET i == names[Name(r)]
  IN /\ data' = IF truncates THEN [data EXCEPT ![i] = <<>>] ELSE data
     /\ req' = [req EXCEPT ![r].pc = "writes", ![r].file = i]
     /\ UNCHANGED names

(***************************************************************************)
(* A request comes.  With WebDAV on, davHold claims what it is about to    *)
(* change for as long as it takes, and WebDAV does the same.               *)
(***************************************************************************)
(* Mutated: a rename claims what it renames, and not the name it takes.     *)
ClaimsTheSource(j) == IF ~webdav \/ j.op \notin Claiming THEN {} ELSE {j.name}
Claims(j) == IF ~webdav \/ j.op \notin Claiming THEN {}
             ELSE IF j.op = "move" THEN {j.name, j.to} ELSE {j.name}

Comes(r, j) ==
  /\ At(r, "idle")
  /\ j.op \in {"webdav", "finder"} => webdav
  /\ LET locked == \E n \in Claims(j) : claims[n] # None
     IN /\ req' = [req EXCEPT ![r] = [op |-> j.op, name |-> j.name, to |-> j.to,
                     right |-> j.right, pc |-> IF locked THEN "refused" ELSE "looks",
                     saw |-> FALSE, file |-> None, sent |-> 0, temp |-> <<>>]]
        /\ claims' = [n \in Names |-> IF ~locked /\ n \in Claims(j) THEN r ELSE claims[n]]
  /\ UNCHANGED <<folder, staged, locks, webdav, lost>>

(* LOCK, and what becomes of the lock: UNLOCK, or its time is over. *)
FinderUnlocks(r) ==
  req[r].op = "finder" /\ At(r, "looks") /\ Answers(r, "done") /\ UNCHANGED <<folder, staged>>

(* Taken: the name is there and may not be replaced. *)
Taken(r) == Exists(Name(r)) /\ ~req[r].right

(***************************************************************************)
(* Uploads into the file itself.                                           *)
(***************************************************************************)
(* Every upload looks before the body, or the data connection, comes. *)
Looks(r) ==
  /\ req[r].op \in InPlace \cup Staging /\ At(r, "looks")
  /\ IF Taken(r) THEN Refuses(r)
     ELSE /\ req' = [req EXCEPT ![r].pc = IF req[r].op \in Staging THEN "receives" ELSE "opens",
                                ![r].saw = Exists(Name(r))]
          /\ Stays

(* store: O_EXCL, unless the dispatch found a file the account may replace. *)
PutOpens(r) ==
  /\ req[r].op = "put" /\ At(r, "opens")
  /\ IF Exists(Name(r)) /\ ~req[r].saw THEN Refuses(r)
     ELSE /\ IF Exists(Name(r)) THEN Opens(r, TRUE) ELSE Creates(r)
          /\ UNCHANGED <<staged, locks, claims, webdav, lost>>

(* openForWrite: what the command looked for before the data connection    *)
(* does not matter any more.                                               *)
StorOpens(r) ==
  /\ req[r].op \in {"stor", "appe"} /\ At(r, "opens")
  /\ IF Exists(Name(r)) THEN Opens(r, req[r].op = "stor") ELSE Creates(r)
  /\ UNCHANGED <<staged, locks, claims, webdav, lost>>

(* Filewrite: what was permitted as a create stays one. *)
SftpOpens(r) ==
  /\ req[r].op = "sftp" /\ At(r, "opens")
  /\ IF Exists(Name(r)) /\ ~req[r].saw THEN Refuses(r)
     ELSE /\ IF Exists(Name(r)) THEN \E truncates \in BOOLEAN : Opens(r, truncates)
             ELSE Creates(r)
          /\ UNCHANGED <<staged, locks, claims, webdav, lost>>

Writes(r) ==
  LET i == req[r].file
      k == req[r].sent + 1
  IN /\ At(r, "writes") /\ k <= Pieces
     /\ data' = [data EXCEPT ![i] =
                   Put(@, IF req[r].op = "appe" THEN Len(@) + 1 ELSE k, <<r, k>>)]
     /\ req' = [req EXCEPT ![r].sent = k]
     /\ UNCHANGED <<names, staged, locks, claims, webdav, lost>>

Ends(r) ==
  At(r, "writes") /\ req[r].sent = Pieces /\ Answers(r, "done") /\ UNCHANGED <<folder, staged>>

(* The page removes what it could not complete, FTP and SFTP leave it. *)
Breaks(r) ==
  /\ At(r, "writes")
  /\ names' = IF req[r].op = "put" THEN [names EXCEPT ![Name(r)] = None] ELSE names
  /\ Answers(r, "failed") /\ UNCHANGED <<data, staged>>

(***************************************************************************)
(* Uploads that are staged, and put in their place when they are complete. *)
(***************************************************************************)
LockIsFree(n) == locks[n] = None

Locks(r, pc) ==
  /\ LockIsFree(Name(r))
  /\ locks' = [locks EXCEPT ![Name(r)] = r] /\ Goes(r, pc)
  /\ UNCHANGED <<folder, staged, claims, webdav, lost>>

Receives(r) ==
  /\ req[r].op \in Staging /\ At(r, "receives")
  /\ \/ /\ req' = [req EXCEPT ![r].pc = "staged", ![r].temp = [k \in 1 .. Pieces |-> <<r, k>>]]
        /\ Stays
     \/ Answers(r, "failed") /\ UNCHANGED <<folder, staged>>

StagedLocks(r) == req[r].op \in Staging /\ At(r, "staged") /\ Locks(r, "checks")

(* davUpload.Close goes by what create saw, S3 and a fetch by the right. *)
Refused(r) ==
  Exists(Name(r)) /\ IF req[r].op = "webdav" THEN ~req[r].saw ELSE ~req[r].right

Checks(r) ==
  /\ req[r].op \in Staging /\ At(r, "checks")
  /\ IF Refused(r) THEN Refuses(r) ELSE Goes(r, "places") /\ Stays

(* finalizeUpload: one rename, whatever is there. *)
Places(r) ==
  /\ At(r, "places")
  /\ Links(Name(r), r) /\ data' = [data EXCEPT ![r] = req[r].temp]
  /\ staged' = IF req[r].op = "chunks" THEN [staged EXCEPT ![Name(r)] = None] ELSE staged
  /\ req' = [req EXCEPT ![r].pc = "done", ![r].file = r]
  /\ LetsGo(r) /\ UNCHANGED <<webdav, lost>>

(***************************************************************************)
(* Uploads in chunks.  A client sends them one after another and a chunk   *)
(* again when it got no answer; each is a request of its own.              *)
(***************************************************************************)
Have(n) == IF staged[n] = None THEN 0 ELSE Len(staged[n])

(* The dispatch judges every chunk as a request of its own. *)
ChunkComes(r) ==
  LET n == Name(r)
  IN /\ req[r].op = "chunks" /\ At(r, "looks") /\ claims[n] = None
     /\ IF Taken(r) THEN Refuses(r)
        ELSE /\ req' = [req EXCEPT ![r].pc = "waits", ![r].saw = Exists(n)]
             /\ claims' = IF webdav THEN [claims EXCEPT ![n] = r] ELSE claims
             /\ UNCHANGED <<folder, staged, locks, webdav, lost>>

ChunkLocks(r) == req[r].op = "chunks" /\ At(r, "waits") /\ Locks(r, "chunk")

TakenSince(r) == Exists(Name(r)) /\ ~req[r].saw

(* 416, and where to go on from. *)
OutOfSync(r) ==
  /\ req' = [req EXCEPT ![r].pc = "looks", ![r].sent = Have(Name(r))]
  /\ LetsGo(r) /\ UNCHANGED <<folder, staged, webdav, lost>>

(* The answer to a chunk, which may be lost. *)
Acknowledges(r, k) ==
  /\ \/ req' = [req EXCEPT ![r].pc = "looks", ![r].sent = k] /\ UNCHANGED lost
     \/ lost < MaxLost /\ lost' = lost + 1 /\ Goes(r, "looks")
  /\ LetsGo(r)

(* writeRangeChunk: the chunk is written, was already, or is cut off again. *)
Fits(n, k) == k = 1 \/ Have(n) = k - 1
(* Mutated: the first chunk goes behind what an earlier attempt left.       *)
KeptFromEarlier(n, k) == IF staged[n] = None THEN <<>> ELSE staged[n]
KeptBefore(n, k) == IF k = 1 THEN <<>> ELSE staged[n]
Applies(r) ==
  LET n == Name(r)
      k == req[r].sent + 1
      kept == KeptBefore(n, k)
  IN /\ req[r].op = "chunks" /\ At(r, "chunk")
     /\ IF k = 1 /\ TakenSince(r) THEN Refuses(r)
        ELSE IF k > 1 /\ staged[n] # None /\ Have(n) = k
        THEN Goes(r, "applied") /\ Stays
        ELSE IF ~Fits(n, k) THEN OutOfSync(r)
        ELSE \/ /\ staged' = [staged EXCEPT ![n] = kept \o <<<<r, k>>>>]
                /\ Goes(r, "applied")
                /\ UNCHANGED <<folder, locks, claims, webdav, lost>>
             \/ /\ staged' = [staged EXCEPT ![n] = kept]
                /\ Goes(r, "looks") /\ LetsGo(r)
                /\ UNCHANGED <<folder, webdav, lost>>

(* The last chunk: what is staged has to be all of it. *)
Applied(r) ==
  LET n == Name(r)
      k == req[r].sent + 1
  IN /\ req[r].op = "chunks" /\ At(r, "applied")
     /\ IF k < Pieces THEN Acknowledges(r, k) /\ UNCHANGED <<folder, staged, webdav>>
        ELSE IF Have(n) # Pieces \/ TakenSince(r) THEN Refuses(r)
        ELSE req' = [req EXCEPT ![r].pc = "places", ![r].temp = staged[n]] /\ Stays

(* A client goes away for good, and a sweep removes what it left. *)
Leaves(r) == req[r].op = "chunks" /\ At(r, "looks") /\ Answers(r, "failed")
               /\ UNCHANGED <<folder, staged>>

Sweeps(n) ==
  /\ staged[n] # None /\ staged' = [staged EXCEPT ![n] = None]
  /\ UNCHANGED <<folder, locks, claims, req, webdav, lost>>

(***************************************************************************)
(* Renames and deletes, of every protocol.                                 *)
(***************************************************************************)
MoveLooks(r) ==
  /\ req[r].op \in Moving /\ At(r, "looks")
  /\ IF ~Exists(Name(r)) \/ Exists(req[r].to) THEN Refuses(r)
     ELSE Goes(r, "renames") /\ Stays

MoveRenames(r) ==
  /\ req[r].op \in Moving /\ At(r, "renames")
  /\ IF ~Exists(Name(r)) THEN Refuses(r)
     ELSE /\ names' = [names EXCEPT ![req[r].to] = names[Name(r)], ![Name(r)] = None]
          /\ req' = [req EXCEPT ![r].pc = "done", ![r].file = names[Name(r)]]
          /\ LetsGo(r) /\ UNCHANGED <<data, staged, webdav, lost>>

DeleteLooks(r) ==
  /\ req[r].op \in Deleting /\ At(r, "looks")
  /\ IF ~Exists(Name(r)) THEN Refuses(r) ELSE Goes(r, "removes") /\ Stays

DeleteRemoves(r) ==
  /\ req[r].op \in Deleting /\ At(r, "removes")
  /\ IF ~Exists(Name(r)) THEN Refuses(r)
     ELSE Links(Name(r), None) /\ Answers(r, "done") /\ UNCHANGED <<data, staged>>

Nothing == [op |-> "none", name |-> None, to |-> None, right |-> FALSE, pc |-> "idle",
            saw |-> FALSE, file |-> None, sent |-> 0, temp |-> <<>>]

Init ==
  /\ names \in [Names -> Names \cup {None}]
  /\ \A n \in Names : names[n] \in {n, None}
  /\ data = [i \in Inodes |-> IF i \in Names THEN [k \in 1 .. Pieces |-> <<i, k>>] ELSE <<>>]
  /\ staged = [n \in Names |-> None]
  /\ locks = [n \in Names |-> None] /\ claims = [n \in Names |-> None]
  /\ req = [r \in Requests |-> Nothing]
  /\ webdav \in BOOLEAN /\ lost = 0

Next ==
  \/ \E r \in Requests :
       \/ \E j \in Work[r] : Comes(r, j)
       \/ Looks(r) \/ PutOpens(r) \/ StorOpens(r) \/ SftpOpens(r)
       \/ Writes(r) \/ Ends(r) \/ Breaks(r)
       \/ Receives(r) \/ StagedLocks(r) \/ Checks(r) \/ Places(r)
       \/ ChunkComes(r) \/ ChunkLocks(r) \/ Applies(r) \/ Applied(r) \/ Leaves(r)
       \/ MoveLooks(r) \/ MoveRenames(r) \/ DeleteLooks(r) \/ DeleteRemoves(r)
       \/ FinderUnlocks(r)
  \/ \E n \in Names : Sweeps(n)

Spec == Init /\ [][Next]_vars

(***************************************************************************)
(* Properties.                                                             *)
(***************************************************************************)
Opened(i) == {r \in Requests : req[r].op \in InPlace /\ req[r].file = i}
InOrder(s) == Len(s) = Pieces /\ \A k \in 1 .. Pieces : s[k] # Hole /\ s[k][2] = k
OfOne(s) == \A j, k \in DOMAIN s : s[j][1] = s[k][1]
Chunked(n) == {r \in Requests : req[r].op = "chunks" /\ req[r].name = n}

(* A file that was staged is never seen half written: at its name it has   *)
(* all pieces in their order, also when chunks were sent again, failed,    *)
(* came out of step or were swept, and they are one upload's unless two    *)
(* clients sent chunks to one name.  A file that one upload wrote in place *)
(* is whole when the upload was answered.                                  *)
FilesAreWhole ==
  \A n \in Names :
    LET i == names[n]
    IN i \in Requests =>
         /\ req[i].op \notin InPlace /\ Opened(i) = {} =>
              /\ InOrder(data[i])
              /\ OfOne(data[i]) \/ Cardinality(Chunked(req[i].name)) > 1
         /\ req[i].op \in InPlace \ {"appe"} /\ Opened(i) = {i} /\ req[i].pc = "done" =>
              InOrder(data[i]) /\ OfOne(data[i])

(* What a step of r does to a file that is complete and not its own.       *)
Complete(i) == i \in Names \/ (i \in Requests /\ req[i].pc = "done")
Overwrites(r, n) ==
  /\ req'[r] # req[r] /\ Exists(n) /\ names[n] # r /\ Complete(names[n])
  /\ \/ names'[n] \notin {names[n], None}
     \/ names'[n] = names[n] /\ data'[names[n]] # data[names[n]] /\ ~At(r, "writes")

(* A rename gave the file this name.                                       *)
MovedTo(i, n) == \E m \in Requests : req[m].op \in Moving /\ req[m].to = n /\ req[m].file = i

(* Who may not overwrite does not, but for three windows the code leaves   *)
(* between looking and acting: FTP opens a file that came while it waited  *)
(* for the data connection, a rename takes a name that came since it       *)
(* looked, and an upload under its target's lock takes one that somebody   *)
(* put there without that lock.  O_EXCL leaves none                        *)
(* (src/internal/sftp/handlers.go:143).                                    *)
OverwritesOnlyInTheWindows ==
  [][\A r \in Requests, n \in Names :
       Overwrites(r, n) /\ ~req[r].right =>
         \/ req[r].op \in {"stor", "appe"} /\ ~req[r].saw
         \/ req[r].op \in Moving /\ n = req[r].to
         \/ /\ req[r].op \in Staging \cup {"chunks"}
            /\ names[n] \in Names \/ req[names[n]].op \in InPlace \/ MovedTo(names[n], n)]_vars

(* A file a WebDAV client has locked is not changed under it by the page   *)
(* (src/internal/httpd/server.go:717).                                     *)
LockedIsLeftAlone ==
  [][\A f, r \in Requests :
       /\ req[f].op = "finder" /\ At(f, "looks")
       /\ req'[r] # req[r] /\ req[r].op \in (Claiming \ {"finder"}) \cup {"chunks"}
       => names'[Name(f)] = names[Name(f)]
            /\ (Exists(Name(f)) /\ Name(r) = Name(f)
                  => data'[names[Name(f)]] = data[names[Name(f)]])]_vars

(* Nobody changes a complete file without the right to, and no file that   *)
(* somebody holds, whatever protocols are at it.                           *)
OthersFilesAreMinded == OverwritesOnlyInTheWindows /\ LockedIsLeftAlone
=============================================================================
