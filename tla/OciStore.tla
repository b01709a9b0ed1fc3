------------------------------ MODULE OciStore ------------------------------
(***************************************************************************)
(* The container registry of src/internal/httpd/registry_*.go: the blobs   *)
(* of the store, and for every repository the links to the blobs it may    *)
(* serve, the manifests it holds (its revisions) and its tags.             *)
(*                                                                         *)
(* A request or a job is a process.  What it does under its locks is a     *)
(* list of file operations, each of which is atomic on the disk (a rename, *)
(* a remove, a new time); the process may fail before any of them, and the *)
(* whole server may crash between any two.  Uploads and downloads of       *)
(* content touch nothing that is shared until it is complete, so they have *)
(* no steps of their own.                                                  *)
(*                                                                         *)
(* Left out: referrers, foreign layers and attestations.                   *)
(***************************************************************************)
EXTENDS Naturals, Sequences, FiniteSets

CONSTANTS
  Processes,          \* requests, jobs and cleanups at work at one time
  Repos, Tags,
  Blobs,              \* configurations and layers
  Images,             \* manifests of one image each
  ConfigOf,           \* the configuration of an image
  LayersOf,           \* its layers
  PlatformOf,         \* its platform, None for an artifact
  Offered,            \* the sets of images there are indexes of elsewhere
  CleansDuringPulls,  \* whether a cleanup may fall into a pull
  MaxRequests,        \* bound: requests and jobs of a behaviour
  MaxPeriods,         \* bound: how often what is new becomes old
  None

VARIABLES
  blob,      \* "gone", "new" or "old": older than the cutoff of a cleanup
  link,      \* the same for the links of each repository
  rev,       \* "none", "pushed", or "merged" by the registry itself
  tags,
  proc,      \* what each process is about
  deleted,   \* what a client asked to be deleted, and has not put back
  requests, periods

vars == <<blob, link, rev, tags, proc, deleted, requests, periods>>

(***************************************************************************)
(* Content.  An index is known by what it names and by who wrote it, which *)
(* is all its digest tells apart here.                                     *)
(***************************************************************************)
Index(S, by) == [of |-> S, by |-> by]
Pushable == Images \cup {Index(S, "client") : S \in Offered}
Mergeable == {Index(S, "registry") : S \in (SUBSET Images) \ {{}}}
Manifests == Pushable \cup Mergeable
Digests == Blobs \cup Manifests

IsImage(m) == m \in Images
Entries(m) == IF IsImage(m) THEN {m} ELSE m.of
Needs(i) == {ConfigOf[i]} \cup LayersOf[i]
BlobsOf(m) == UNION {Needs(i) : i \in Entries(m)}

(* Blobs and manifests are known by their digests: what differs in content *)
(* differs in name.                                                        *)
ASSUME StoreAssumption ==
  /\ IsFiniteSet(Images) /\ IsFiniteSet(Blobs)
  /\ ConfigOf \in [Images -> Blobs] /\ LayersOf \in [Images -> SUBSET Blobs]
  /\ Offered \subseteq SUBSET Images
  /\ \A S \in SUBSET Images, by \in {"client", "registry"} : Index(S, by) \notin Images
  /\ Blobs \cap Manifests = {} /\ None \notin Manifests

InStore(d) == blob[d] # "gone"
RepoBlob(r, b) == link[r][b] # "gone" /\ InStore(b)
HasRevision(r, m) == rev[r][m] # "none"

(***************************************************************************)
(* Locks.  The registry's lock is shared by whoever adds a reference and   *)
(* exclusive to the cleanup; a repository's lock is exclusive.             *)
(***************************************************************************)
Idle == [op |-> "idle", repo |-> None, man |-> None, tag |-> None,
         left |-> {}, locks |-> {}, todo |-> <<>>, marked |-> {}]

IsIdle(p) == proc[p].op = "idle"
Shared == \A p \in Processes : "registry" \in proc[p].locks => proc[p].op # "clean"
(* Mutated: a cleanup shares the lock with those who add references. *)
AloneAmongCleanups == \A p \in Processes : "registry" \in proc[p].locks => proc[p].op # "clean"
Alone == \A p \in Processes : "registry" \notin proc[p].locks
(* Mutated: pushes to one repository do not wait for each other. *)
AnyRepo(r) == TRUE
RepoFree(r) ==
  \A p \in Processes : "repository" \in proc[p].locks => proc[p].repo # r

Requested == requests < MaxRequests /\ requests' = requests + 1
Becomes(p, q) == proc' = [proc EXCEPT ![p] = q]
StoreUnchanged == UNCHANGED <<blob, link, rev, tags, deleted>>

(***************************************************************************)
(* The file operations.                                                    *)
(***************************************************************************)
CommitBlob(d) == [do |-> "commit", digest |-> d]
LinkBlob(r, b) == [do |-> "link", repo |-> r, digest |-> b]
WriteRevision(r, m, as) == [do |-> "revision", repo |-> r, digest |-> m, as |-> as]
WriteTags(r, to) == [do |-> "tags", repo |-> r, tags |-> to]

(* A manifest is a blob first and a revision of its repository then: two of *)
(* them.                                                                    *)
StoreManifest(r, m, as) == [do |-> "store", repo |-> r, digest |-> m, as |-> as]

(* For each of a set, in some order.                                        *)
InOrder(S) ==
  CHOOSE f \in [1 .. Cardinality(S) -> S] : \A x \in S : \E k \in 1 .. Cardinality(S) : f[k] = x
Commits(S) == [k \in 1 .. Cardinality(S) |-> CommitBlob(InOrder(S)[k])]
Links(r, S) == [k \in 1 .. Cardinality(S) |-> LinkBlob(r, InOrder(S)[k])]
Stores(r, S) == [k \in 1 .. Cardinality(S) |-> StoreManifest(r, InOrder(S)[k], "pushed")]

(* dropMergedOrphan: an index the registry built goes with its last tag. *)
DropMergedOrphan(r, m, left) ==
  IF m # None /\ (\A t \in Tags : left[t] # m) /\ rev[r][m] = "merged"
  THEN <<WriteRevision(r, m, "none")>> ELSE <<>>

PointTag(r, t, m) ==
  LET to == [tags[r] EXCEPT ![t] = m]
  IN <<WriteTags(r, to)>> \o DropMergedOrphan(r, tags[r][t], to)

(* tagManifest: an image joins what the tag holds for other platforms. *)
PlatformKnown(i) == PlatformOf[i] # None /\ InStore(ConfigOf[i])
Merges(r, t, m) ==
  LET current == tags[r][t]
  IN /\ current \notin {None, m}
     /\ IsImage(m) /\ PlatformKnown(m)
     /\ HasRevision(r, current) /\ InStore(current)
     /\ IsImage(current) =>
          PlatformKnown(current) /\ PlatformOf[current] # PlatformOf[m]

TagManifest(r, t, m) ==
  LET current == tags[r][t]
      others == {i \in Entries(current) : PlatformOf[i] # PlatformOf[m]}
      index == Index(others \cup {m}, "registry")
  IN IF ~Merges(r, t, m) THEN PointTag(r, t, m)
     ELSE IF m \in Entries(current) THEN <<>>
     ELSE <<StoreManifest(r, index, "merged")>> \o PointTag(r, t, index)

(***************************************************************************)
(* Requests of clients.                                                    *)
(***************************************************************************)
(* completeUpload: the upload has the digest it should have. *)
PushBlob(p, r, b) ==
  /\ IsIdle(p) /\ Shared /\ Requested
  /\ Becomes(p, [Idle EXCEPT !.op = "blob", !.locks = {"registry"},
                             !.todo = <<CommitBlob(b), LinkBlob(r, b)>>])
  /\ StoreUnchanged /\ UNCHANGED periods

(* mountBlob looks for the blob before it takes the lock. *)
MountLooks(p, r, from, b) ==
  /\ IsIdle(p) /\ Requested
  /\ RepoBlob(from, b)
  /\ Becomes(p, [Idle EXCEPT !.op = "mount", !.repo = r, !.left = {b}])
  /\ StoreUnchanged /\ UNCHANGED periods

MountLinks(p) ==
  /\ proc[p].op = "mount" /\ proc[p].todo = <<>> /\ Shared
  /\ \E b \in proc[p].left :
       Becomes(p, [proc[p] EXCEPT !.left = {}, !.locks = {"registry"},
                                  !.todo = <<LinkBlob(proc[p].repo, b)>>])
  /\ StoreUnchanged /\ UNCHANGED <<requests, periods>>

(* checkReferences *)
HasReferences(r, m) ==
  IF IsImage(m) THEN \A b \in Needs(m) : RepoBlob(r, b)
  ELSE \A i \in Entries(m) : HasRevision(r, i)

(* putManifest; a manifest put by its digest sets no tag. *)
PutManifest(p, r, m, t) ==
  /\ IsIdle(p) /\ Shared /\ RepoFree(r) /\ Requested
  /\ HasReferences(r, m)
  /\ Becomes(p, [Idle EXCEPT
       !.op = "put", !.repo = r, !.man = m, !.tag = t,
       !.locks = {"registry", "repository"},
       !.todo = <<StoreManifest(r, m, "pushed")>>
                  \o (IF t = None THEN <<>> ELSE TagManifest(r, t, m))])
  /\ StoreUnchanged /\ UNCHANGED periods

(* untag, of a request and of the page: only the repository is locked. *)
Untag(p, r, t) ==
  /\ IsIdle(p) /\ RepoFree(r) /\ Requested
  /\ tags[r][t] # None
  /\ Becomes(p, [Idle EXCEPT !.op = "delete", !.repo = r, !.locks = {"repository"},
                             !.todo = PointTag(r, t, None)])
  /\ StoreUnchanged /\ UNCHANGED periods

(* deleteManifest by digest: the revision first, then the tags it had. *)
DeleteManifest(p, r, m) ==
  LET to == [t \in Tags |-> IF tags[r][t] = m THEN None ELSE tags[r][t]]
  IN /\ IsIdle(p) /\ RepoFree(r) /\ Requested
     /\ HasRevision(r, m)
     /\ Becomes(p, [Idle EXCEPT
          !.op = "delete", !.repo = r, !.locks = {"repository"},
          !.todo = <<WriteRevision(r, m, "none")>>
                     \o (IF to = tags[r] THEN <<>> ELSE <<WriteTags(r, to)>>)])
     /\ deleted' = deleted \cup {<<r, m>>}
     /\ UNCHANGED <<blob, link, rev, tags, periods>>

(* deleteBlob takes no lock at all. *)
DeleteBlob(p, r, b) ==
  /\ IsIdle(p) /\ Requested
  /\ link[r][b] # "gone"
  /\ link' = [link EXCEPT ![r][b] = "gone"]
  /\ deleted' = deleted \cup {<<r, b>>}
  /\ UNCHANGED <<blob, rev, tags, proc, periods>>

(***************************************************************************)
(* Jobs.                                                                   *)
(***************************************************************************)
(* pullImage has read the manifests of the image. *)
PullBegins(p, r, m, t) ==
  /\ IsIdle(p) /\ Requested
  /\ CleansDuringPulls \/ \A c \in Processes : proc[c].op # "clean"
  /\ Becomes(p, [Idle EXCEPT !.op = "pull", !.repo = r, !.man = m, !.tag = t,
                             !.left = BlobsOf(m)])
  /\ StoreUnchanged /\ UNCHANGED periods

(* fetchBlob looks for the blob and fetches it or not, before the lock. *)
PullFetches(p) ==
  LET q == proc[p]
  IN /\ q.op = "pull" /\ q.locks = {} /\ q.todo = <<>>
     /\ \E b \in q.left :
          Becomes(p, [q EXCEPT
            !.left = @ \ {b},
            !.todo = (IF InStore(b) THEN <<>> ELSE <<CommitBlob(b)>>)
                       \o <<LinkBlob(q.repo, b)>>])
     /\ StoreUnchanged /\ UNCHANGED <<requests, periods>>

PullLocks(p) ==
  /\ proc[p].op = "pull" /\ proc[p].locks = {} /\ proc[p].todo # <<>> /\ Shared
  /\ proc' = [proc EXCEPT ![p].locks = {"registry"}]
  /\ StoreUnchanged /\ UNCHANGED <<requests, periods>>

(* storePulled and storePulledLocked: the manifests an index names before  *)
(* the index, and the tag, replaced, last.                                 *)
StorePulled(q) ==
  (IF IsImage(q.man) THEN <<>> ELSE Stores(q.repo, q.man.of))
    \o <<StoreManifest(q.repo, q.man, "pushed")>> \o PointTag(q.repo, q.tag, q.man)

PullStores(p) ==
  LET q == proc[p]
  IN /\ q.op = "pull" /\ q.left = {} /\ q.locks = {} /\ q.todo = <<>>
     /\ Shared /\ RepoFree(q.repo)
     /\ Becomes(p, [q EXCEPT !.locks = {"registry", "repository"},
                             !.todo = StorePulled(q)])
     /\ StoreUnchanged /\ UNCHANGED <<requests, periods>>

(* storeImport: blobs, links and manifests under one hold of the lock. *)
ImportCommits(p, r, m, t) ==
  /\ IsIdle(p) /\ Shared /\ Requested
  /\ Becomes(p, [Idle EXCEPT !.op = "import", !.repo = r, !.man = m, !.tag = t,
                             !.locks = {"registry"},
                             !.todo = Commits(BlobsOf(m))])
  /\ StoreUnchanged /\ UNCHANGED periods

ImportStores(p) ==
  LET q == proc[p]
  IN /\ q.op = "import" /\ q.locks = {"registry"} /\ q.todo = <<>>
     /\ RepoFree(q.repo)
     /\ Becomes(p, [q EXCEPT !.locks = @ \cup {"repository"},
                             !.todo = Links(q.repo, BlobsOf(q.man)) \o StorePulled(q)])
     /\ StoreUnchanged /\ UNCHANGED <<requests, periods>>

(***************************************************************************)
(* The steps of a request.                                                 *)
(***************************************************************************)
Applies(w) ==
  /\ blob' = IF w.do \in {"commit", "store"} THEN [blob EXCEPT ![w.digest] = "new"] ELSE blob
  /\ link' = IF w.do = "link" THEN [link EXCEPT ![w.repo][w.digest] = "new"] ELSE link
  /\ rev' = IF w.do = "revision" THEN [rev EXCEPT ![w.repo][w.digest] = w.as] ELSE rev
  /\ tags' = IF w.do = "tags" THEN [tags EXCEPT ![w.repo] = w.tags] ELSE tags
  /\ deleted' = IF w.do = "link" \/ (w.do = "revision" /\ w.as # "none")
                THEN deleted \ {<<w.repo, w.digest>>} ELSE deleted

(* A pull lets go of the lock after every blob; an import keeps it. *)
Goes(q) ==
  IF Head(q.todo).do = "store" THEN [q EXCEPT !.todo[1].do = "revision"]
  ELSE IF Len(q.todo) > 1 THEN [q EXCEPT !.todo = Tail(@)]
  ELSE IF "repository" \notin q.locks /\ q.op \in {"pull", "import"}
       THEN [q EXCEPT !.todo = <<>>,
                      !.locks = IF q.op = "pull" THEN {} ELSE @]
  ELSE Idle

Writes(p) ==
  /\ proc[p].locks # {} /\ proc[p].todo # <<>>
  /\ Applies(Head(proc[p].todo))
  /\ Becomes(p, Goes(proc[p]))
  /\ UNCHANGED <<requests, periods>>

(* A request that fails returns at once, and lets go of its locks. *)
Fails(p) ==
  /\ proc[p].op \notin {"idle", "clean"}
  /\ Becomes(p, Idle)
  /\ StoreUnchanged /\ UNCHANGED <<requests, periods>>

Crash ==
  /\ proc # [p \in Processes |-> Idle]
  /\ proc' = [p \in Processes |-> Idle]
  /\ StoreUnchanged /\ UNCHANGED <<requests, periods>>

(***************************************************************************)
(* The cleanup, hourly or asked for on the page.                           *)
(***************************************************************************)
(* markManifest; a manifest that cannot be read marks itself only. *)
Reached(m) ==
  {m} \cup (IF ~InStore(m) THEN {}
            ELSE IF IsImage(m) THEN Needs(m)
            ELSE Entries(m) \cup UNION {Needs(i) : i \in {j \in Entries(m) : InStore(j)}})
Referenced(r) == UNION {Reached(m) : m \in {n \in Manifests : HasRevision(r, n)}}

(* What becomes of the links, and what they and the manifests mark. *)
CollectMarks(p) ==
  LET Kept(r) == {b \in Blobs : link[r][b] = "new"}
  IN /\ IsIdle(p) /\ Alone /\ Requested
     /\ CleansDuringPulls \/ \A q \in Processes : proc[q].op # "pull"
     /\ Becomes(p, [Idle EXCEPT !.op = "clean", !.locks = {"registry"},
          !.marked = UNION {Referenced(r) \cup Kept(r) : r \in Repos}])
     /\ link' = [r \in Repos |-> [b \in Blobs |->
          IF link[r][b] = "old" /\ b \notin Referenced(r) THEN "gone" ELSE link[r][b]]]
     /\ UNCHANGED <<blob, rev, tags, deleted, periods>>

CollectSweeps(p) ==
  /\ proc[p].op = "clean"
  /\ blob' = [d \in Digests |->
       IF blob[d] = "old" /\ d \notin proc[p].marked THEN "gone" ELSE blob[d]]
  /\ Becomes(p, Idle)
  /\ UNCHANGED <<link, rev, tags, deleted, requests, periods>>

(* Time passes: what is there is now older than the cutoff. *)
Passes ==
  /\ periods < MaxPeriods /\ periods' = periods + 1
  /\ blob' = [d \in Digests |-> IF blob[d] = "new" THEN "old" ELSE blob[d]]
  /\ link' = [r \in Repos |-> [b \in Blobs |->
                IF link[r][b] = "new" THEN "old" ELSE link[r][b]]]
  /\ UNCHANGED <<rev, tags, proc, deleted, requests>>

(***************************************************************************)
(* A store that was filled long ago: some images, and what is left of      *)
(* others that were deleted, with its links.                               *)
(***************************************************************************)
Init ==
  \E held \in [Repos -> SUBSET Images], stray \in {{}, Blobs} :
    LET Of(r) == UNION {Needs(i) : i \in held[r]}
        stored == stray \cup UNION {held[r] \cup Of(r) : r \in Repos}
    IN /\ blob = [d \in Digests |-> IF d \in stored THEN "old" ELSE "gone"]
       /\ link = [r \in Repos |-> [b \in Blobs |-> IF b \in Of(r) \cup stray
                                             THEN "old" ELSE "gone"]]
       /\ rev = [r \in Repos |-> [m \in Manifests |->
                   IF m \in held[r] THEN "pushed" ELSE "none"]]
       /\ tags \in [Repos -> [Tags -> Images \cup {None}]]
       /\ \A r \in Repos, t \in Tags : IF held[r] = {} THEN tags[r][t] = None
                                       ELSE tags[r][t] \in held[r]
       /\ proc = [p \in Processes |-> Idle]
       /\ deleted = {} /\ requests = 0 /\ periods = 0

Steps(p) ==
  \/ MountLinks(p) \/ PullFetches(p) \/ PullLocks(p) \/ PullStores(p)
  \/ ImportStores(p) \/ Writes(p) \/ CollectSweeps(p)

Next ==
  \/ \E p \in Processes :
       \/ Steps(p) \/ Fails(p) \/ CollectMarks(p)
       \/ \E r \in Repos :
            \/ \E b \in Blobs : PushBlob(p, r, b) \/ DeleteBlob(p, r, b)
            \/ \E from \in Repos \ {r}, b \in Blobs : MountLooks(p, r, from, b)
            \/ \E m \in Pushable, t \in Tags \cup {None} : PutManifest(p, r, m, t)
            \/ \E m \in Manifests : DeleteManifest(p, r, m)
            \/ \E t \in Tags : Untag(p, r, t)
            \/ \E m \in Pushable, t \in Tags :
                 PullBegins(p, r, m, t) \/ ImportCommits(p, r, m, t)
  \/ Crash \/ Passes

Spec == Init /\ [][Next]_vars

(***************************************************************************)
(* Properties.                                                             *)
(***************************************************************************)
(* Everything an image of a repository consists of can be pulled, but for  *)
(* what a client asked to be deleted.                                      *)
ThereOrDeleted(r, d, there) == there \/ <<r, d>> \in deleted
WholeImage(r, i) ==
  /\ ThereOrDeleted(r, i, HasRevision(r, i) /\ InStore(i))
  /\ <<r, i>> \notin deleted => \A b \in Needs(i) : ThereOrDeleted(r, b, RepoBlob(r, b))
Whole(r, m) ==
  ThereOrDeleted(r, m, /\ HasRevision(r, m) /\ InStore(m)
                       /\ \A i \in Entries(m) : WholeImage(r, i))

(* A tag never names an image that is not all there (registry_transfer.go: *)
(* 18-26), whatever the cleanup, crashes and concurrent pushes do.         *)
TagsAreWhole ==
  \A r \in Repos, t \in Tags : tags[r][t] # None => Whole(r, tags[r][t])

(* Platforms pushed to one tag at once are all under it in the end: a push *)
(* of an image takes from the tag what it replaces and nothing else        *)
(* (registry_manifest.go:429-440).                                         *)
Pushes(p, r, t) ==
  /\ proc[p].op = "put" /\ proc[p].repo = r /\ proc[p].tag = t
  /\ IsImage(proc[p].man) /\ PlatformOf[proc[p].man] # None
PlatformsAreKept ==
  [][\A p \in Processes, r \in Repos, t \in Tags :
       Pushes(p, r, t) /\ proc'[p] # proc[p] /\ tags'[r][t] # tags[r][t]
         /\ tags[r][t] # None /\ HasRevision(r, tags[r][t])
       => \A i \in Entries(tags[r][t]) :
            \/ i \in Entries(tags'[r][t])
            \/ PlatformOf[i] \in {None, PlatformOf[proc[p].man]}
            \/ <<r, i>> \in deleted \/ <<r, ConfigOf[i]>> \in deleted]_vars
=============================================================================
