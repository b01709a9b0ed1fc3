------------------------------ MODULE SyncRun ------------------------------
(***************************************************************************)
(* One sync of src/internal/syncer: a folder here and one of a server are  *)
(* listed, a plan is made from the two listings and the snapshot of what   *)
(* was alike after the last run, and its steps are done one after another, *)
(* while people work on both sides.  A run that is stopped keeps no        *)
(* snapshot, and a path a step failed for keeps what the last one said.    *)
(*                                                                         *)
(* A side is a function of all paths.  A file is its content and its       *)
(* modification time, both of them the number of the edit; all files are   *)
(* of one size, so that only the time tells them apart.                    *)
(*                                                                         *)
(* Left out: links, the reserved folder, a copy that arrives and cannot be *)
(* given its time, or that a server without a rename over files makes room *)
(* for and then cannot place, edits that keep the time of a file, and a    *)
(* folder that is only half moved to the trash (Trash).                    *)
(***************************************************************************)
EXTENDS Naturals, FiniteSets, SequencesExt

CONSTANTS
  Tree,        \* paths: sequences of names, with every prefix
  Directions,  \* of both, push, pull
  MaxEdits,    \* bound: edits of files
  MaxChanges,  \* bound: files and folders removed or made by people
  MaxFaults    \* bound: steps that fail, runs that are stopped

Sides == {"local", "remote"}
Other(s) == IF s = "local" THEN "remote" ELSE "local"

VARIABLES
  side,      \* side -> path -> entry
  snapshot,  \* path -> entry
  direction, \* direction of the sync
  delete,    \* and whether it removes
  trash,     \* whether what is removed here goes to the trash
  besides,   \* whether both sides have files that nobody touches, beside these
  run,       \* the run in progress: where it is, its listings, what is left
  edits, changes, troubles,
  removed,   \* side -> files people removed there since it was listed with them
  shared     \* path -> contents that were on both sides

settings == <<direction, delete, trash, besides>>
syncVars ==
  <<side, snapshot, settings, run, edits, changes, troubles, removed, shared>>
people == <<edits, changes>>

Absent == <<0, 0>>
Folder == <<0, 1>>
File(c, t) == <<c, t>>
IsFile(e) == e[1] > 0
Content(e) == e[1]
Mod(e) == e[2]
Nowhere == [p \in Tree |-> Absent]
Inside(p, f) == IsPrefix(f, p) /\ p # f
Parent(p) == Front(p)
HasParent(tree, p) == Len(p) > 1 => tree[Parent(p)] = Folder
IsEmpty(tree, f) == \A p \in Tree : Inside(p, f) => tree[p] = Absent

(* A folder that a path is in is the one it is right in, or one that is in.  *)
ASSUME TreeAssumption ==
  /\ \A p, f \in Tree : Inside(p, f) =>
       Len(p) > 1 /\ Parent(p) \in Tree /\ (f = Parent(p) \/ Inside(Parent(p), f))
  /\ \A p, q, f \in Tree : Inside(p, q) /\ Inside(q, f) => Inside(p, f)

Same(a, b) == IF IsFile(a) /\ IsFile(b) THEN Mod(a) = Mod(b) ELSE a = b

(***************************************************************************)
(* The plan.                                                               *)
(***************************************************************************)
Step(kind, p, to, e) == [kind |-> kind, path |-> p, to |-> to, entry |-> e]

Clashes(l, r) == {p \in Tree : Absent \notin {l[p], r[p]} /\ IsFile(l[p]) # IsFile(r[p])}

Differs(s, d) == ~Same(s, d)

OneWay(src, dst, to, del) ==
  LET paths == {p \in Tree : src[p] # Absent} \ Clashes(src, dst)
  IN {Step("mkdir", p, to, src[p]) : p \in {q \in paths : src[q] = Folder /\ dst[q] = Absent}}
     \cup {Step("copy", p, to, src[p]) :
             p \in {q \in paths : IsFile(src[q]) /\ Differs(src[q], dst[q])}}
     \cup {Step(IF IsFile(dst[p]) THEN "remove" ELSE "rmdir", p, to, dst[p]) :
             p \in {q \in Tree : del /\ src[q] = Absent /\ dst[q] # Absent}}

RemovedElsewhere(here, there, last, del, p) ==
  del /\ IsFile(here[p]) /\ there[p] = Absent /\ last[p] # Absent /\ Same(here[p], last[p])

(* A folder goes when all that is in it does. *)
FolderGoes(here, there, last, del, p) ==
  /\ del /\ here[p] = Folder /\ there[p] = Absent /\ last[p] # Absent
  /\ \A q \in Tree : Inside(q, p) /\ here[q] # Absent =>
       \/ RemovedElsewhere(here, there, last, del, q)
       \/ here[q] = Folder /\ there[q] = Absent /\ last[q] # Absent

(* Of a file on both sides: who gives it, the one that changed it, or the  *)
(* newer; the local one when neither is.                                   *)
Giver(l, r, s) ==
  LET changed(e) == s = Absent \/ ~Same(e, s)
  IN IF changed(l) # changed(r) THEN IF changed(l) THEN "local" ELSE "remote"
     ELSE IF Mod(r) > Mod(l) THEN "remote" ELSE "local"

Both(tree, last, del) ==
  LET l == tree["local"]
      r == tree["remote"]
      only(s) == {p \in Tree \ Clashes(l, r) : tree[s][p] # Absent /\ tree[Other(s)][p] = Absent}
      goes(s, p) == IF IsFile(tree[s][p])
                    THEN RemovedElsewhere(tree[s], tree[Other(s)], last, del, p)
                    ELSE FolderGoes(tree[s], tree[Other(s)], last, del, p)
      alone(s, p) ==
        IF goes(s, p) THEN Step(IF IsFile(tree[s][p]) THEN "remove" ELSE "rmdir", p, s, tree[s][p])
        ELSE Step(IF IsFile(tree[s][p]) THEN "copy" ELSE "mkdir", p, Other(s), tree[s][p])
      differ == {p \in Tree : IsFile(l[p]) /\ IsFile(r[p]) /\ ~Same(l[p], r[p])}
  IN {Step("copy", p, Other(Giver(l[p], r[p], last[p])), tree[Giver(l[p], r[p], last[p])][p]) :
        p \in differ}
     \cup UNION {{alone(s, p) : p \in only(s)} : s \in Sides}

InSync(l, r) == [p \in Tree |-> IF l[p] # Absent /\ Same(l[p], r[p]) THEN l[p] ELSE Absent]

(* Folders are made from the top down, then files copied, then removed,    *)
(* then folders removed from the bottom up.                                *)
Rank(s) ==
  CASE s.kind = "mkdir" -> Len(s.path)
    [] s.kind = "copy" -> 10
    [] s.kind = "remove" -> 20
    [] s.kind = "rmdir" -> 30 - Len(s.path)

(***************************************************************************)
(* A run.                                                                  *)
(***************************************************************************)
Listed(s) == removed' = [removed EXCEPT ![s] = {p \in removed[s] : ~IsFile(side[s][p])}]

Idle == [pc |-> "idle", seen |-> [s \in Sides |-> Nowhere], last |-> Nowhere, todo |-> {},
         made |-> Nowhere, broken |-> {}, quiet |-> TRUE]

(* The snapshot may be of other folders, or not to be read. *)
ListsLocal ==
  /\ run.pc = "idle"
  /\ \E last \in {snapshot, Nowhere} :
       run' = [Idle EXCEPT !.pc = "lists", !.seen["local"] = side["local"],
                           !.last = IF direction = "both" THEN last ELSE Nowhere]
  /\ Listed("local")
  /\ UNCHANGED <<side, snapshot, settings, troubles, people, shared>>

(* A side that is empty while the other is not has nothing removed for it. *)
Emptied(tree, s) == ~besides /\ tree[s] = Nowhere /\ tree[Other(s)] # Nowhere
Refuses(tree) ==
  CASE direction = "push" -> Emptied(tree, "local")
    [] direction = "pull" -> Emptied(tree, "remote")
    [] OTHER -> run.last # Nowhere /\ \E s \in Sides : Emptied(tree, s)

ListsRemote ==
  LET tree == [run.seen EXCEPT !["remote"] = side["remote"]]
      del == delete /\ ~Refuses(tree)
  IN /\ run.pc = "lists"
     /\ run' = [run EXCEPT !.pc = "executes", !.seen = tree,
                  !.todo = CASE direction = "push" -> OneWay(tree["local"], tree["remote"], "remote", del)
                             [] direction = "pull" -> OneWay(tree["remote"], tree["local"], "local", del)
                             [] OTHER -> Both(tree, run.last, del),
                  !.broken = Clashes(tree["local"], tree["remote"])]
     /\ Listed("remote")
     /\ UNCHANGED <<side, snapshot, settings, troubles, people, shared>>

Due(s) == run.pc = "executes" /\ s \in run.todo /\ \A t \in run.todo : Rank(s) <= Rank(t)

(* A file that is removed here is moved to the trash, and so is whatever    *)
(* has come in its place, a folder with all that is in it.                 *)
Trashes(s) == trash /\ s.kind = "remove" /\ s.to = "local"

(* A file goes, or an empty folder, whichever it was to be; but a server    *)
(* does not take a file for a folder.                                      *)
IsEmptyFolder(tree, p) == tree[p] = Folder /\ IsEmpty(tree, p)
Removable(s) ==
  LET tree == side[s.to]
  IN \/ IsFile(tree[s.path]) /\ (s.kind = "remove" \/ s.to = "local")
     \/ IsEmptyFolder(tree, s.path)
     \/ Trashes(s) /\ tree[s.path] # Absent

(* Whether the file systems let it happen: what a server cannot rename over *)
(* it removes first.                                                       *)
Works(s) ==
  LET tree == side[s.to]
      at == s.path
  IN CASE s.kind = "mkdir" -> tree[at] = Absent /\ HasParent(tree, at)
       [] s.kind = "copy" -> /\ IsFile(side[Other(s.to)][at])
                             /\ tree[at] # Folder \/ (s.to = "remote" /\ IsEmptyFolder(tree, at))
                             /\ HasParent(tree, at)
       [] OTHER -> Removable(s)

(* A copy is of the file as it is now, with the time it was listed with. *)
Made(s) == IF s.kind = "copy" THEN File(Content(side[Other(s.to)][s.path]), Mod(s.entry))
           ELSE IF s.kind = "mkdir" THEN Folder ELSE Absent

After(s) ==
  [p \in Tree |-> IF p = s.path THEN Made(s)
                  ELSE IF Trashes(s) /\ Inside(p, s.path) THEN Absent ELSE side[s.to][p]]

(* It has failed also when the file is in the trash, and the trash cannot   *)
(* note when it came.                                                      *)
Does(s) ==
  /\ Due(s) /\ Works(s)
  /\ side' = [side EXCEPT ![s.to] = After(s)]
  /\ \E noted \in BOOLEAN :
       /\ IF noted THEN UNCHANGED troubles
          ELSE Trashes(s) /\ troubles < MaxFaults /\ troubles' = troubles + 1
       /\ run' = [run EXCEPT !.todo = @ \ {s}, !.broken = IF noted THEN @ ELSE @ \cup {s.path},
                    !.made[s.path] = IF s.kind \in {"mkdir", "copy"} THEN s.entry ELSE Absent]
  /\ shared' = IF s.kind = "copy" THEN [shared EXCEPT ![s.path] = @ \cup {Content(Made(s))}] ELSE shared
  /\ UNCHANGED <<snapshot, settings, people, removed>>

Breaks(s) ==
  /\ Due(s)
  /\ IF Works(s) THEN troubles < MaxFaults /\ troubles' = troubles + 1 ELSE UNCHANGED troubles
  /\ run' = [run EXCEPT !.todo = @ \ {s}, !.broken = @ \cup {s.path}]
  /\ UNCHANGED <<side, snapshot, settings, people, removed, shared>>

(* Mutated: what a step failed for is taken for alike.                      *)
KeptOfAll ==
  [p \in Tree |->
     IF run.made[p] # Absent THEN run.made[p]
     ELSE LET l == run.seen["local"][p] IN IF l # Absent THEN l ELSE run.seen["remote"][p]]
Kept ==
  LET insync == InSync(run.seen["local"], run.seen["remote"])
  IN [p \in Tree |-> IF p \in run.broken /\ run.last[p] # Absent THEN run.last[p]
                     ELSE IF run.made[p] # Absent THEN run.made[p] ELSE insync[p]]

Ends ==
  /\ run.pc = "executes" /\ run.todo = {}
  /\ run' = Idle
  /\ snapshot' = IF direction = "both" THEN Kept ELSE snapshot
  /\ UNCHANGED <<side, settings, troubles, people, removed, shared>>

(* The run is stopped, or the server dies, or the snapshot cannot be kept. *)
Stops ==
  /\ run.pc # "idle" /\ troubles < MaxFaults
  /\ troubles' = troubles + 1 /\ run' = Idle
  /\ UNCHANGED <<side, snapshot, settings, people, removed, shared>>

(***************************************************************************)
(* People, on both sides.                                                  *)
(***************************************************************************)
Meanwhile == run' = [run EXCEPT !.quiet = FALSE]

Edits(s, p) ==
  /\ edits < MaxEdits /\ side[s][p] # Folder /\ HasParent(side[s], p)
  /\ side' = [side EXCEPT ![s][p] = File(edits + 1, edits + 1)]
  /\ edits' = edits + 1 /\ Meanwhile
  /\ UNCHANGED <<snapshot, settings, changes, troubles, removed, shared>>

MakesFolder(s, p) ==
  /\ changes < MaxChanges /\ side[s][p] = Absent /\ HasParent(side[s], p)
  /\ side' = [side EXCEPT ![s][p] = Folder]
  /\ changes' = changes + 1 /\ Meanwhile
  /\ UNCHANGED <<snapshot, settings, edits, troubles, removed, shared>>

RemovesAll(s, p) ==
  LET gone == {q \in Tree : q = p \/ Inside(q, p)}
  IN /\ changes < MaxChanges /\ side[s][p] # Absent
     /\ side' = [side EXCEPT ![s] = [q \in Tree |-> IF q \in gone THEN Absent ELSE @[q]]]
     /\ removed' = [removed EXCEPT ![s] = @ \cup {q \in gone : IsFile(side[s][q])}]
     /\ changes' = changes + 1 /\ Meanwhile
     /\ UNCHANGED <<snapshot, settings, edits, troubles, shared>>

SyncInit ==
  /\ side = [s \in Sides |-> Nowhere] /\ snapshot = Nowhere
  /\ direction \in Directions /\ delete \in BOOLEAN
  /\ trash \in BOOLEAN /\ (trash => delete /\ direction # "push")
  /\ besides \in BOOLEAN /\ (besides => delete)
  /\ run = Idle /\ edits = 0 /\ changes = 0 /\ troubles = 0
  /\ removed = [s \in Sides |-> {}] /\ shared = [p \in Tree |-> {}]

SyncNext ==
  \/ ListsLocal \/ ListsRemote \/ Ends \/ Stops
  \/ \E s \in run.todo : Does(s) \/ Breaks(s)
  \/ \E s \in Sides, p \in Tree : Edits(s, p) \/ MakesFolder(s, p) \/ RemovesAll(s, p)

SyncSpec == SyncInit /\ [][SyncNext]_syncVars

(***************************************************************************)
(* Properties.                                                             *)
(***************************************************************************)
(* The file was put here, since this side was listed, in the place of a    *)
(* folder that is to be removed, or of a file, with a folder around it.    *)
PutInItsPlace(p) ==
  \/ run.seen["local"][p] = Folder /\ run.seen["remote"][p] = Absent
  \/ trash /\ \E q \in removed["remote"] : Inside(p, q) /\ IsFile(run.seen["local"][q])

(* What a step of a sync both ways may not do to a file.                   *)
LosesNothing(s, p) ==
  LET was == side[s][p]
      is == side'[s][p]
  IN direction = "both" /\ edits' = edits /\ changes' = changes /\ IsFile(was) =>
       /\ is = Absent => p \in removed[Other(s)] \/ (s = "local" /\ PutInItsPlace(p))
       /\ IsFile(is) /\ was # is =>
            \/ Content(was) \in shared[p] \/ Content(was) < Content(is)
            \/ run.seen[s][p] # was

(* A sync both ways removes a file only where people removed it on the     *)
(* other side, and never takes for removed what the other side never had,  *)
(* whatever failed, was stopped, or was changed meanwhile; and a copy      *)
(* replaces only what both sides once had, what is older, or what was      *)
(* changed since it was listed.  Excepted is what people put here, while   *)
(* the run is on, in the place of what is to be removed: a file in the     *)
(* place of a folder goes, and a folder in the place of a file goes to the *)
(* trash with all that is in it.                                           *)
SyncLosesNothing == [][\A s \in Sides, n \in Tree : LosesNothing(s, n)]_syncVars

(* A run that was undisturbed leaves both sides alike, or with one way and *)
(* without delete, the one with all the other has.                         *)
AlikeAfterwards ==
  run.pc = "executes" /\ run.todo = {} /\ run.quiet =>
    \A p \in Tree \ run.broken :
      \/ Same(side["local"][p], side["remote"][p])
      \/ direction = "push" /\ run.seen["local"][p] = Absent
      \/ direction = "pull" /\ run.seen["remote"][p] = Absent

(* A sync leaves both sides alike, and what people did on either is not    *)
(* lost over it.                                                           *)
SyncIsTrue == []AlikeAfterwards /\ SyncLosesNothing
=============================================================================
