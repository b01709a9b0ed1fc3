------------------------------ MODULE S3Objects ------------------------------
(***************************************************************************)
(* The objects of an S3 bucket (src/internal/httpd/s3*.go): a bucket is a  *)
(* folder, a key a path in it.  Requests put, copy and delete objects, one *)
(* file operation at a time, and make and remove the folders they need,    *)
(* while a client lists the bucket page by page.                           *)
(*                                                                         *)
(* The keys are numbers in the order S3 sorts them by, byte for byte:      *)
(* d.t, d/, d/e/, d/e/x and d/y.  In its folder d comes before d.t.        *)
(*                                                                         *)
(* Left out: signatures, ranges, prefixes other than the delimiter "/",    *)
(* links, conditions on times, and a file and a folder of one name.        *)
(***************************************************************************)
EXTENDS Naturals, Sequences, FiniteSets
LOCAL INSTANCE SequencesExt
LOCAL INSTANCE FiniteSetsExt

CONSTANTS
  Writers,      \* who changes objects, numbered
  PageSize,     \* max-keys, at least 1
  MaxRequests   \* bound: changes of a behaviour

VARIABLES
  tree,     \* path -> what is there
  trashes,  \* whether there is a trash
  work,     \* writer -> its request and how far it has come
  sent,     \* how many requests were made
  wanted,   \* history: empty folders that are to stay
  list      \* the client that lists, and what it was answered

s3Vars == <<tree, trashes, work, sent, wanted, list>>

Bucket == 0
Folders == {Bucket, 2, 3}
Files == {1, 4, 5}
Paths == Folders \cup Files
Above == <<Bucket, Bucket, 2, 3, 2>>
ByName(f) == CASE f = Bucket -> <<2, 1>> [] f = 2 -> <<3, 5>> [] f = 3 -> <<4>>

Absent == [is |-> "absent"]
Folder == [is |-> "folder"]
(* What writer w put, or was there for 0; whether that is all of it as it   *)
(* was sent, and whether nobody could have told.                            *)
Object(w, length, whole, excused) ==
  [is |-> "object", of |-> w, length |-> length, whole |-> whole, excused |-> excused]

There(t, p) == t[p] # Absent
In(t, f) == {k \in Paths \ {Bucket} : Above[k] = f /\ There(t, k)}
EmptyFolder(t, f) == t[f] = Folder /\ In(t, f) = {}
AllAbove == <<{Bucket}, {Bucket}, {Bucket, 2}, {Bucket, 2, 3}, {Bucket, 2}>>

NoRequest == [op |-> "none", key |-> 0, from |-> 0, rest |-> <<>>, right |-> FALSE, new |-> FALSE,
              pc |-> "idle", saw |-> Absent, staged |-> Absent, makes |-> {}, at |-> 0]
Becomes(w, new) == work' = [work EXCEPT ![w] = new]
Goes(w, pc) == Becomes(w, [work[w] EXCEPT !.pc = pc])
Finishes(w) == Becomes(w, NoRequest)
Same == UNCHANGED <<tree, trashes, sent, wanted, list>>

(* What a client that lists is to see: the files and the empty folders, or  *)
(* with the delimiter the files and folders of the bucket itself.           *)
Shown(t) ==
  IF list.folded THEN In(t, Bucket)
  ELSE {k \in Paths \ {Bucket} : t[k].is = "object" \/ (k \in Folders /\ EmptyFolder(t, k))}

(* A change of the folder, and what could be seen meanwhile.                *)
Changes(t, stays) ==
  /\ tree' = t
  /\ wanted' = {f \in wanted \cup stays : t[f] = Folder}
  /\ list' = [list EXCEPT !.always = @ \cap Shown(t), !.ever = @ \cup Shown(t)]
  /\ UNCHANGED <<trashes, sent>>

-----------------------------------------------------------------------------
(* What comes.  right is the one to replace, and for deletes the one to     *)
(* remove folders.                                                          *)
Asked ==
  LET Of(op, keys, from, rest, rights, new) ==
        [op : op, key : keys, from : from, rest : rest, right : rights, new : new]
  IN Of({"put"}, {4}, {0}, {<<>>}, {TRUE}, BOOLEAN) \cup Of({"put"}, {5}, {0}, {<<>>}, BOOLEAN, {FALSE})
       \cup Of({"folder"}, {3}, {0}, {<<>>}, {TRUE}, {FALSE}) \cup Of({"copy"}, {4}, {5}, {<<>>}, {TRUE}, {FALSE})
       \cup Of({"delete"}, {2, 3}, {0}, {<<>>}, {TRUE}, {FALSE})
       \cup Of({"delete"}, {4, 5}, {0}, {<<>>}, BOOLEAN, {FALSE})
       \cup Of({"delete"}, {5}, {0}, {<<4, 3>>}, {TRUE}, {FALSE})

(* handleS3, routeS3: the bucket is looked for first.  Beside a listing     *)
(* only one writer is at work (a bound).                                    *)
Comes(w) ==
  /\ work[w] = NoRequest /\ sent < MaxRequests /\ tree[Bucket] = Folder
  /\ list.at = "off" \/ \A v \in Writers : work[v] = NoRequest
  /\ \E q \in Asked :
       Becomes(w, [k \in DOMAIN NoRequest |-> IF k \in DOMAIN q THEN q[k] ELSE
                     IF k = "pc" THEN "looks" ELSE NoRequest[k]])
  /\ sent' = sent + 1
  /\ UNCHANGED <<tree, trashes, wanted, list>>

-----------------------------------------------------------------------------
(* s3PutObject: the right and the conditions, before the body is read.      *)
May(q) == There(tree, q.key) => q.right
PutLooks(w) ==
  LET q == work[w] IN
  /\ q.op = "put" /\ q.pc = "looks"
  /\ IF May(q) /\ ~(q.new /\ There(tree, q.key)) THEN Becomes(w, [q EXCEPT !.pc = "receives", !.saw = tree[q.key]])
     ELSE Finishes(w)
  /\ Same

(* openS3Body, chunkedReader and verify.  What a client declares of a body  *)
(* is the hash in its signature, signed chunks, or nothing; Content-MD5;    *)
(* and a checksum in a header or a trailer.                                 *)
Bodies ==
  [payload : {"hash", "unsigned", "signed chunks", "unsigned chunks"}, md5 : BOOLEAN,
   checksum : {"none", "header", "trailer"}, harm : {"none", "changed", "cut", "changed, trailer cut"}]
Chunked(b) == b.payload \in {"signed chunks", "unsigned chunks"}
HasTrailer(b) == Chunked(b) /\ b.checksum = "trailer"
Sends(b) == (b.checksum = "trailer" => Chunked(b)) /\ (b.harm = "changed, trailer cut" => HasTrailer(b))
(* The end of an unsigned trailer may be missing.                           *)
Arrives(b) == b.harm # "cut" /\ (b.harm = "changed, trailer cut" => b.payload = "unsigned chunks")
Told(b) == \/ b.payload \in {"hash", "signed chunks"} \/ b.md5
           \/ b.checksum = "header" \/ (HasTrailer(b) /\ b.harm # "changed, trailer cut")
Accepted(b) == Arrives(b) /\ (b.harm = "none" \/ ~Told(b))

(* stageS3Body: nothing reaches the bucket before its hashes are compared.  *)
Receives(w) ==
  LET q == work[w] IN
  /\ q.op = "put" /\ q.pc = "receives"
  /\ \E b \in Bodies :
       /\ Sends(b)
       /\ IF Accepted(b) THEN Becomes(w, [q EXCEPT !.pc = "checks",
                                !.staged = Object(w, 2, b.harm = "none", b.harm # "none" /\ ~Told(b))])
          ELSE Finishes(w)
  /\ Same

(* s3CopyObject: the source, then the object it becomes.                    *)
CopyLooks(w) ==
  LET q == work[w] IN
  /\ q.op = "copy" /\ q.pc = "looks"
  /\ IF There(tree, q.from) THEN Becomes(w, [q EXCEPT !.pc = "judges", !.saw = tree[q.from]]) ELSE Finishes(w)
  /\ Same
CopyJudges(w) ==
  LET q == work[w] IN
  /\ q.op = "copy" /\ q.pc = "judges"
  /\ IF May(q) THEN Goes(w, "copies") ELSE Finishes(w)
  /\ Same

(* stageCopy opens the source anew, and copies as much as it saw.           *)
Copies(w) ==
  LET q == work[w]
      source == tree[q.from]
      copied == Object(source.of, Min({source.length, q.saw.length}),
                       source.whole /\ source.length <= q.saw.length, source.excused \/ source # q.saw) IN
  /\ q.op = "copy" /\ q.pc = "copies"
  /\ IF source # Absent THEN Becomes(w, [q EXCEPT !.pc = "checks", !.staged = copied]) ELSE Finishes(w)
  /\ Same

(* uploadLock.                                                              *)
LockIsFree(k) == \A v \in Writers : work[v].pc \in {"climbs", "makes", "renames"} =>
                                      work[v].op = "folder" \/ work[v].key # k

(* placeS3File: the right again, under the lock.                            *)
Checks(w) ==
  LET q == work[w] IN
  /\ q.pc = "checks" /\ LockIsFree(q.key)
  /\ IF May(q) THEN Goes(w, "climbs") ELSE Finishes(w)
  /\ Same

(* s3PutFolder and makeFolder.                                              *)
FolderLooks(w) ==
  LET q == work[w] IN
  /\ q.op = "folder" /\ q.pc = "looks"
  /\ IF There(tree, q.key) THEN Finishes(w) /\ Changes(tree, {q.key}) ELSE Goes(w, "climbs") /\ Same

(* MkdirAll: up to the first folder that is there, and down again.          *)
Climbs(w) ==
  LET q == work[w]
      wants == AllAbove[q.key] \cup IF q.op = "folder" THEN {q.key} ELSE {} IN
  /\ q.pc = "climbs"
  /\ Becomes(w, [q EXCEPT !.pc = "makes", !.makes = {f \in wants : ~There(tree, f)}])
  /\ Same
Makes(w) ==
  LET q == work[w]
      f == Min(q.makes) IN
  /\ q.pc = "makes"
  /\ IF q.makes = {} THEN IF q.op = "folder" THEN Finishes(w) /\ Changes(tree, {q.key}) ELSE Goes(w, "renames") /\ Same
     ELSE IF f # Bucket /\ ~There(tree, Above[f]) THEN Finishes(w) /\ Same
     ELSE Becomes(w, [q EXCEPT !.makes = @ \ {f}]) /\ Changes([tree EXCEPT ![f] = Folder], {})

(* finalizeUpload.                                                          *)
Renames(w) ==
  LET q == work[w] IN
  /\ q.pc = "renames" /\ Finishes(w)
  /\ IF There(tree, Above[q.key]) THEN Changes([tree EXCEPT ![q.key] = q.staged], {}) ELSE Same

-----------------------------------------------------------------------------
(* s3DeleteObjects: the next key, as s3DeleteObject.                        *)
NextKey(w) ==
  LET q == work[w] IN
  IF q.rest = <<>> THEN Finishes(w)
  ELSE Becomes(w, [q EXCEPT !.pc = "looks", !.key = Head(q.rest), !.rest = Tail(q.rest)])

DeleteLooks(w) ==
  LET q == work[w] IN
  /\ q.op = "delete" /\ q.pc = "looks"
  /\ IF There(tree, q.key) /\ (q.key \in Folders => q.right /\ In(tree, q.key) = {})
     THEN Goes(w, "removes") ELSE NextKey(w)
  /\ Same

(* discard: a folder that was filled meanwhile goes into the trash with it. *)
Removes(w) ==
  LET q == work[w]
      t == [p \in Paths |-> IF p = q.key \/ (p # Bucket /\ q.key \in AllAbove[p]) THEN Absent ELSE tree[p]]
      f == Above[q.key] IN
  /\ q.pc = "removes"
  /\ IF There(tree, q.key) /\ (q.key \in Folders => trashes \/ In(tree, q.key) = {})
     THEN /\ Becomes(w, [q EXCEPT !.pc = "prunes", !.at = f])
          /\ Changes(t, IF ~q.right /\ EmptyFolder(t, f) THEN {f} ELSE {})
     ELSE NextKey(w) /\ Same

(* pruneFolders: os.Remove of one folder after another.                     *)
(* Mutated: the folder is removed with what is in it.                       *)
Standing(f) == tree[f] = Folder
Removable(f) == EmptyFolder(tree, f)
Prunes(w) ==
  LET q == work[w]
      t == [p \in Paths |-> IF p = q.at \/ (p # Bucket /\ q.at \in AllAbove[p]) THEN Absent ELSE tree[p]] IN
  /\ q.pc = "prunes"
  /\ IF q.right /\ Removable(q.at)
     THEN /\ Changes(t, {})
          /\ IF q.at = Bucket THEN NextKey(w) ELSE Becomes(w, [q EXCEPT !.at = Above[q.at]])
     ELSE NextKey(w) /\ Same

-----------------------------------------------------------------------------
(* s3ListObjects: a page, from the one after the last key of the last page. *)
StartsPage ==
  /\ list.at = "starts"
  /\ list' = IF tree[Bucket] # Folder THEN [list EXCEPT !.at = "failed"]
             ELSE [list EXCEPT !.at = "walks", !.todo = <<Bucket>>, !.found = {},
                     !.always = IF list.after = 0 THEN Shown(tree) ELSE @,
                     !.ever = IF list.after = 0 THEN Shown(tree) ELSE @]
  /\ UNCHANGED <<tree, trashes, work, sent, wanted>>

(* s3Walk and s3Folder: a folder is read, what is in it is looked at.  A    *)
(* bucket that went meanwhile lists as nothing.                             *)
Walks ==
  LET p == Head(list.todo)
      inside == SelectSeq(ByName(p), LAMBDA k : There(tree, k)) IN
  /\ list.at = "walks" /\ list.todo # <<>>
  /\ list' =
       IF p = Bucket \/ (p \in Folders /\ ~list.folded)
       THEN IF ~There(tree, p) THEN [list EXCEPT !.todo = Tail(@)]
            ELSE [list EXCEPT !.todo = inside \o Tail(@),
                              !.found = IF inside = <<>> /\ p # Bucket THEN @ \cup {p} ELSE @]
       ELSE [list EXCEPT !.todo = Tail(@), !.found = IF There(tree, p) THEN @ \cup {p} ELSE @]
  /\ UNCHANGED <<tree, trashes, work, sent, wanted>>

(* The next page begins behind the last key of this one.                    *)
(* Mutated: behind as many keys as were answered.                           *)
BehindAsMany(k) == k > Len(list.answered)
Behind(k) == k > list.after
Answers ==
  LET entries == SetToSortSeq({k \in list.found : Behind(k)}, LAMBDA k, l : k < l)
      truncated == Len(entries) > PageSize
      page == IF truncated THEN SubSeq(entries, 1, PageSize) ELSE entries IN
  /\ list.at = "walks" /\ list.todo = <<>>
  /\ list' = [list EXCEPT !.answered = @ \o page, !.at = IF truncated THEN "starts" ELSE "done",
                !.after = IF truncated THEN Last(page) ELSE @]
  /\ UNCHANGED <<tree, trashes, work, sent, wanted>>

-----------------------------------------------------------------------------
(* What there is when the first requests come: folders and files in them,   *)
(* a trash or none, a client that lists or none.                            *)
S3Init ==
  \E there \in SUBSET (Paths \ {Bucket}), folded, lists \in BOOLEAN :
    /\ \A p \in there : AllAbove[p] \ {Bucket} \subseteq there
    /\ (lists <=> 1 \in there) /\ (folded => lists)
    /\ tree = [p \in Paths |-> CASE p = Bucket -> Folder [] p # Bucket /\ p \notin there -> Absent
                                 [] p \in there \cap Folders -> Folder
                                 [] p \in there \cap Files -> Object(0, 1, TRUE, FALSE)]
    /\ wanted = {f \in Folders : EmptyFolder(tree, f)}
    /\ list = [at |-> IF lists THEN "starts" ELSE "off", folded |-> folded, after |-> 0, todo |-> <<>>,
               found |-> {}, answered |-> <<>>, always |-> {}, ever |-> {}]
    /\ trashes \in (IF lists THEN {FALSE} ELSE BOOLEAN) /\ sent = 0 /\ work = [w \in Writers |-> NoRequest]

S3Next ==
  \/ \E w \in Writers : Comes(w) \/ PutLooks(w) \/ Receives(w) \/ CopyLooks(w) \/ CopyJudges(w) \/ Copies(w)
                          \/ Checks(w) \/ FolderLooks(w) \/ Climbs(w) \/ Makes(w) \/ Renames(w)
                          \/ DeleteLooks(w) \/ Removes(w) \/ Prunes(w)
  \/ StartsPage \/ Walks \/ Answers

S3Spec == S3Init /\ [][S3Next]_s3Vars

-----------------------------------------------------------------------------
(* A listing of several pages, while keys come and go: every key once and   *)
(* in order, every one that was there all the time, and none that never     *)
(* was.                                                                     *)
ListingsAreTrue ==
  list.at = "done" =>
    /\ \A i, j \in DOMAIN list.answered : i < j => list.answered[i] < list.answered[j]
    /\ list.always \subseteq ToSet(list.answered) /\ ToSet(list.answered) \subseteq list.ever

(* Where nothing is under way no empty folder is left that nobody asked for *)
(* or left there without the right to remove it.                            *)
FoldersGo == (\A w \in Writers : work[w] = NoRequest) => \A f \in Folders : EmptyFolder(tree, f) => f \in wanted

(* An object is all of what was sent for it, or a copy of all of such a one *)
(* - where anything could tell.                                             *)
ObjectsAreWhole == \A k \in Files : There(tree, k) => tree[k].whole \/ tree[k].excused

(* What is at a key changes only by a request for it: a put that asked for  *)
(* a new object had found none, and the removal of folders takes none along *)
(* - but for a folder that is filled on its way into the trash.             *)
ObjectsStay ==
  \A k \in Files : tree'[k] # tree[k] =>
    \E w \in Writers :
      \/ work[w].pc = "renames" /\ work[w].key = k /\ (work[w].new => work[w].saw = Absent)
      \/ work[w].pc = "removes" /\ (work[w].key = k \/ (trashes /\ work[w].key \in AllAbove[k]))

(* All of these.                                                            *)
ObjectsAreTrue == [](ListingsAreTrue /\ FoldersGo /\ ObjectsAreWhole) /\ [][ObjectsStay]_s3Vars
=============================================================================
