------------------------------- MODULE Trash -------------------------------
(***************************************************************************)
(* The trash (src/internal/trash/trash.go, src/internal/httpd/trash.go):   *)
(* what the http server deletes is moved to a folder at the path it had,   *)
(* merged with what is there, and an index beside it says when each path   *)
(* was deleted.  The Trash page restores and deletes for good, and the     *)
(* hourly sweep purges what has been there for too long.                   *)
(*                                                                         *)
(* Every change is made under one lock and is one step here.  It may fail  *)
(* at any path or end with the process: files have been moved then, and    *)
(* the index has not been written.  A tree is a function of all paths.     *)
(*                                                                         *)
(* An undated file counts from its modification time, which may be any.    *)
(***************************************************************************)
EXTENDS Naturals, Sequences
LOCAL INSTANCE SequencesExt
LOCAL INSTANCE FiniteSetsExt

CONSTANTS
  Paths,      \* sequences of names, with every prefix; a bound: what has no
              \* path below it is never a folder
  Retention,  \* general.trashRetentionDays
  MaxTime,    \* bound of the clock
  MaxFaults   \* bound: changes that fail or that a crash cuts short

VARIABLES
  live, kept,  \* the served folder and the trash: path -> none, file, folder
  index,       \* path -> when it was deleted, 0 without an entry
  clock, faults

trashVars == <<live, kept, index, clock, faults>>

Root == <<>>
Under(p, f) == IsPrefix(f, p)
Below(tree, f) == {p \in Paths : Under(p, f) /\ p # f /\ tree[p] # "none"}
Children(tree, f) == {p \in Below(tree, f) : Front(p) = f}
Above(p) == [k \in 1 .. Len(p) - 1 |-> SubSeq(p, 1, k)]
Cut(tree, f) == [p \in Paths |-> IF Under(p, f) THEN "none" ELSE tree[p]]
Graft(tree, f, from) == [p \in Paths |-> IF Under(p, f) THEN from[p] ELSE tree[p]]

(* The index. *)
Drop(ix, f) == [p \in Paths |-> IF Under(p, f) THEN 0 ELSE ix[p]]
HasBelow(ix, f) == \E p \in Paths : p # f /\ Under(p, f) /\ ix[p] # 0
Deleted(ix, p) ==
  LET own == {k \in 1 .. Len(p) : ix[SubSeq(p, 1, k)] # 0}
  IN IF own = {} THEN 0 ELSE ix[SubSeq(p, 1, Max(own))]

(* A change works on all three; from where it failed nothing more is done. *)
Begin == [live |-> live, kept |-> kept, index |-> index, ok |-> TRUE]
Failed(t) == [t EXCEPT !.ok = FALSE]
ForAll(S, step(_, _), t) == FoldSet(LAMBDA p, u : IF u.ok THEN step(u, p) ELSE u, t, S)

(***************************************************************************)
(* Move.                                                                   *)
(***************************************************************************)
(* A file among the folders above is of an earlier delete, and goes.       *)
TrashFolder(t, f) ==
  IF t.kept[f] = "folder" THEN t
  ELSE [t EXCEPT !.kept = [Cut(t.kept, f) EXCEPT ![f] = "folder"],
                 !.index = IF t.kept[f] = "file" THEN Drop(t.index, f) ELSE t.index]
TrashFolders(t, p) == FoldLeft(TrashFolder, t, Above(p))

(* What this delete leaves alone keeps its date. *)
(* Mutated: it takes the one this delete gives the folder.                  *)
TakesTheNewDate(t, f) == t.index
KeepsDates(t, f) ==
  LET left == Children(t.kept, f) \ Children(t.live, f)
  IN [p \in Paths |-> IF p \in left THEN Deleted(t.index, p) ELSE t.index[p]]

RECURSIVE PlaceInTrash(_, _, _, _)
PlaceInTrash(t, p, fails, cleared) ==
  IF t.live[p] = "folder" /\ t.kept[p] = "folder"
  THEN LET place(u, q) == PlaceInTrash(u, q, fails, cleared)
           u == ForAll(Children(t.live, p), place, [t EXCEPT !.index = KeepsDates(t, p)])
       IN IF p = fails \/ ~u.ok THEN Failed(u) ELSE [u EXCEPT !.live[p] = "none"]
  ELSE IF p = fails
  THEN Failed([t EXCEPT !.kept = IF cleared THEN Cut(t.kept, p) ELSE t.kept])
  ELSE [t EXCEPT !.kept = Graft(t.kept, p, t.live), !.live = Cut(t.live, p),
                 !.index = Drop(t.index, p)]

(***************************************************************************)
(* Restoring.                                                              *)
(***************************************************************************)
(* A file in the place of a folder is in the way. *)
LiveFolder(t, f, overwrite) ==
  IF ~t.ok \/ t.live[f] = "folder" THEN t
  ELSE IF t.live[f] = "file" /\ ~overwrite THEN Failed(t)
  ELSE [t EXCEPT !.live[f] = "folder"]
LiveFolders(t, p, overwrite) == FoldLeft(LAMBDA u, f : LiveFolder(u, f, overwrite), t, Above(p))

RECURSIVE RestoreTree(_, _, _, _)
RestoreTree(t, p, overwrite, fails) ==
  IF p = fails THEN Failed(t)
  ELSE IF t.live[p] = "folder" /\ t.kept[p] = "folder"
  THEN LET restore(u, q) == RestoreTree(u, q, overwrite, fails)
           u == ForAll(Children(t.kept, p), restore, t)
       IN IF ~u.ok \/ Children(u.kept, p) # {} THEN u
          ELSE [u EXCEPT !.kept[p] = "none", !.index = Drop(u.index, p)]
  ELSE IF t.live[p] # "none" /\ ~overwrite THEN t
  ELSE [t EXCEPT !.live = Graft(t.live, p, t.kept), !.kept = Cut(t.kept, p),
                 !.index = Drop(t.index, p)]

(* pruneTrash: what is no folder with something in it is dropped, a file   *)
(* that stayed in the trash too.                                           *)
RECURSIVE PruneUp(_, _)
PruneUp(t, p) ==
  IF p = Root \/ Children(t.kept, p) # {} THEN t
  ELSE PruneUp([t EXCEPT !.kept[p] = IF @ = "folder" THEN "none" ELSE @,
                         !.index = Drop(t.index, p)], Front(p))
Prune(t, p) ==
  LET u == PruneUp(t, p)
  IN [u EXCEPT !.index = [q \in Paths |-> IF u.kept[q] = "none" THEN 0 ELSE u.index[q]]]

(***************************************************************************)
(* The purge.                                                              *)
(***************************************************************************)
Overdue(when, aged) == IF when = 0 THEN aged ELSE when + Retention < clock

RECURSIVE PurgeTree(_, _, _, _)
PurgeTree(t, p, inherited, aged) ==
  LET when == IF t.index[p] # 0 THEN t.index[p] ELSE inherited
      gone(u) == [u EXCEPT !.kept = Cut(u.kept, p), !.index = Drop(u.index, p)]
      purge(u, q) == PurgeTree(u, q, when, aged)
      v == ForAll(Children(t.kept, p), purge, t)
  IN IF t.kept[p] = "file" \/ (when # 0 /\ ~HasBelow(t.index, p))
     THEN IF Overdue(when, aged) THEN gone(t) ELSE t
     ELSE IF Children(v.kept, p) = {} /\ (when = 0 \/ Overdue(when, aged)) THEN gone(v) ELSE v

Purged(aged) ==
  LET purge(t, p) == PurgeTree(t, p, 0, aged)
  IN ForAll(Children(kept, Root), purge, Begin)

(***************************************************************************)
(* Steps.                                                                  *)
(***************************************************************************)
Changes(t, written) ==
  /\ live' = t.live /\ kept' = t.kept /\ index' = IF written THEN t.index ELSE index
  /\ UNCHANGED clock
Faulty(fault) == IF fault THEN faults < MaxFaults /\ faults' = faults + 1 ELSE UNCHANGED faults

(* Where a change to p fails; one that does not may be cut short before    *)
(* the index is written.                                                   *)
Fails(p) == IF faults < MaxFaults THEN {Root} \cup {q \in Paths : Under(q, p)} ELSE {Root}
Cuts == IF faults < MaxFaults THEN BOOLEAN ELSE {FALSE}

Move(p, fails, cut) ==
  LET t == PlaceInTrash(TrashFolders(Begin, p), p, fails, cut)
  IN /\ live[p] # "none"
     /\ Changes([t EXCEPT !.index[p] = clock], t.ok /\ ~cut)
     /\ Faulty(~t.ok \/ cut)

Restore(p, overwrite, fails, cut) ==
  LET t == LiveFolders(Begin, p, overwrite)
      u == IF t.ok THEN RestoreTree(t, p, overwrite, fails) ELSE t
  IN /\ kept[p] # "none"
     /\ Changes(IF cut THEN u ELSE Prune(u, p), ~cut)
     /\ Faulty(cut \/ (t.ok /\ ~u.ok))

DeleteFromTrash(p, cut) ==
  LET t == [Begin EXCEPT !.kept = Cut(kept, p), !.index = Drop(index, p)]
  IN /\ kept[p] # "none"
     /\ Changes(IF cut THEN t ELSE Prune(t, Front(p)), ~cut)
     /\ Faulty(cut)

(* The index is one of the files, and goes in its turn. *)
EmptyTrash(gone, indexGone) ==
  /\ Changes([Begin EXCEPT !.kept = [p \in Paths |-> IF SubSeq(p, 1, 1) \in gone THEN "none" ELSE kept[p]],
                           !.index = [p \in Paths |-> 0]], indexGone)
  /\ Faulty(~indexGone \/ gone # Children(kept, Root))

PurgeTrash(aged, cut) == Changes(Purged(aged), ~cut) /\ Faulty(cut)

(* What else is done in the served folder; FTP and SFTP delete for good. *)
Creates(p, kind) ==
  /\ live[p] = "none" /\ (Len(p) > 1 => live[Front(p)] = "folder")
  /\ kind = "folder" => \E q \in Paths : q # p /\ Under(q, p)
  /\ live' = [live EXCEPT ![p] = kind] /\ UNCHANGED <<kept, index, clock, faults>>
Removes(p) ==
  /\ live[p] # "none" /\ live' = Cut(live, p) /\ UNCHANGED <<kept, index, clock, faults>>

Passes == clock < MaxTime /\ clock' = clock + 1 /\ UNCHANGED <<live, kept, index, faults>>

TrashInit ==
  /\ live = [p \in Paths |-> "none"] /\ kept = live
  /\ index = [p \in Paths |-> 0]
  /\ clock = 1 /\ faults = 0

TrashNext ==
  \/ \E p \in Paths, cut \in Cuts :
       \/ \E fails \in Fails(p) :
            \/ Move(p, fails, cut)
            \/ \E overwrite \in BOOLEAN : Restore(p, overwrite, fails, cut)
       \/ DeleteFromTrash(p, cut)
  \/ \E gone \in SUBSET Children(kept, Root), indexGone \in BOOLEAN : EmptyTrash(gone, indexGone)
  \/ \E aged \in BOOLEAN, cut \in Cuts : PurgeTrash(aged, cut)
  \/ \E p \in Paths : Removes(p) \/ \E kind \in {"file", "folder"} : Creates(p, kind)
  \/ Passes

TrashSpec == TrashInit /\ [][TrashNext]_trashVars

(***************************************************************************)
(* Properties.                                                             *)
(***************************************************************************)
Came(p) ==
  /\ live[p] = "file" /\ live'[p] = "none" /\ kept'[p] = "file"
  /\ kept' # kept \/ index' # index
(* A file the trash keeps over a step, and that the step did not bring,    *)
(* keeps the date of its deletion, however folders are merged above it, in *)
(* part restored or purged, and whatever failed or was cut short.  But for *)
(* a file a restore was asked for and left where it is, whose entry        *)
(* pruneTrash drops.                                                       *)
Skipped(p) == index[p] # 0 /\ index'[p] = 0 /\ kept' = kept
LeftAloneKeepsItsDate ==
  [][\A p \in Paths :
       kept[p] = "file" /\ kept'[p] = "file" /\ ~Came(p) /\ Deleted(index, p) # 0 =>
         \/ Deleted(index', p) = Deleted(index, p) \/ Skipped(p)
         \/ index' = [q \in Paths |-> 0]]_trashVars

(* The purge, which goes down the tree and takes folders as a whole, takes *)
(* exactly the files whose date, as the page shows it, is overdue.         *)
PurgeGoesByTheDate ==
  \A aged \in BOOLEAN, p \in Paths :
    kept[p] = "file" =>
      (Purged(aged).kept[p] = "none" <=> Overdue(Deleted(index, p), aged))

(* No change of the trash, and no folder that is merged, restored in part   *)
(* or purged, gives a file another date than that of its own deletion, and *)
(* the purge takes what is overdue by it and nothing else.                 *)
DatesAreKept == []PurgeGoesByTheDate /\ LeftAloneKeepsItsDate

(* "The deepest entry at or above a path is when that path was deleted"    *)
(* (src/internal/trash/trash.go:12): of a file that comes, now.            *)
ComesWithItsDate ==
  [][\A p \in Paths : Came(p) /\ faults' = faults => Deleted(index', p) = clock]_trashVars
=============================================================================
