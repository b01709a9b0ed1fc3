----------------------------- MODULE Repository -----------------------------
(***************************************************************************)
(* A package repository (src/internal/repository): a runner looks at its   *)
(* folder every so often, reads the packages that are new, removes the old *)
(* versions, signs the rest and writes what clients read the repository    *)
(* by, while people change the folder.  What was read is kept in a cache   *)
(* across restarts.  Any step may fail, and the process may end after any. *)
(*                                                                         *)
(* The packages are versions of one, and their names are numbers in the    *)
(* order of the names.  An entry is the file its package was read of, and  *)
(* the one that was looked at again, for the checksum or the time.         *)
(*                                                                         *)
(* Left out: a file put in the place of another of the same size and time, *)
(* which the runner takes for the one it knows; the files beside the       *)
(* packages (covers, icons, texts), keys and definitions beside the        *)
(* metadata, folders below the repository.                                 *)
(***************************************************************************)
EXTENDS Naturals, FiniteSets, FiniteSetsExt

CONSTANTS
  Names,      \* a set of numbers
  Kinds,      \* of rpm, fdroid, jellyfin
  Settings,   \* configurations: records of key and title
  Files,      \* what people put there: version, key that signed it, whole
  Keep,       \* repository.keep
  MaxTime,    \* bound of the clock, which may be put back
  MaxChanges, \* bound: changes of the folder by others
  MaxReloads, \* bound: reloads and restarts
  MaxFaults,  \* bound: steps that fail, and crashes
  Nothing

VARIABLES
  kind, config,  \* repo.Type, and the rest of repo
  folder,        \* name -> file, or Nothing
  metadata,      \* what clients read: see Blank
  cache,         \* what the store keeps
  runner,        \* where it is, what it knows, what it listed last
  look,          \* the look in progress, or how the last one ended
  recent,        \* history: the lists the last two lists of lists name
  cut,           \* history: the metadata is not what was listed last says
  left           \* what is left of the bounds

repositoryVars ==
  <<kind, config, folder, metadata, cache, runner, look, recent, cut, left>>

(* What the variables are of.                                              *)
Keys == {set.key : set \in Settings} \cup {f.key : f \in Files} \cup {Nothing}
Titles == {set.title : set \in Settings}
Packages == [version : Nat, key : Keys, whole : BOOLEAN]
Knowledge == [read : Packages, second : Packages, stamp : Packages, doubt : BOOLEAN]
Finds == [file : Packages, before : BOOLEAN]
Contents == [Names -> (Packages \X Packages) \cup {Nothing}]
Listings == [Names -> Packages \cup {Nothing}] \cup Contents
Docs == [entries : Contents, title : Titles, key : Keys, at : Nat]

(* Nothing known, and nothing listed: as before the first time, so when the *)
(* folder is empty.                                                        *)
Unread == [n \in Names |-> Nothing]
Blank == [lists |-> {}, repomd |-> Nothing, signature |-> Nothing,
          index |-> Nothing, entry |-> Nothing, jar |-> Nothing, library |-> Nothing]
NoCache == [listed |-> Unread, title |-> Nothing, key |-> Nothing, known |-> Unread]
NoLook == [todo |-> {}, found |-> Unread, listing |-> Unread, skipped |-> {}, copy |-> Nothing,
           touched |-> {}, still |-> FALSE, before |-> {}, doc |-> Nothing,
           answer |-> Nothing]
Stopped == [pc |-> "off", quit |-> Nothing, known |-> Unread, listed |-> Nothing]

At(pc) == runner.pc = pc
Goes(pc) == runner' = [runner EXCEPT !.pc = pc]
Faulty == left.faults > 0 /\ left' = [left EXCEPT !.faults = @ - 1]
Present == {n \in Names : folder[n] # Nothing}

(***************************************************************************)
(* People.                                                                 *)
(***************************************************************************)
(* A package comes, goes, is replaced, or is still being written.          *)
Changes(n, file) ==
  /\ left.changes > 0 /\ file # folder[n]
  /\ folder' = [folder EXCEPT ![n] = file]
  /\ left' = [left EXCEPT !.changes = @ - 1]
  /\ look' = [look EXCEPT !.touched = @ \cup {n}, !.still = FALSE]
  /\ UNCHANGED <<kind, config, metadata, cache, runner, recent, cut>>

(* Somebody removes the metadata, while it is not being written. *)
Wipes ==
  /\ left.changes > 0 /\ kind # "jellyfin" /\ metadata # Blank
  /\ runner.pc \notin {"writes", "names", "seals", "cleans", "records"}
  /\ metadata' = Blank /\ recent' = {}
  /\ left' = [left EXCEPT !.changes = @ - 1]
  /\ look' = [look EXCEPT !.still = FALSE]
  /\ UNCHANGED <<kind, config, folder, cache, runner, cut>>

(***************************************************************************)
(* What is listed of packages, and what identifies it.                     *)
(***************************************************************************)
Entries(known) ==
  [n \in Names |-> IF known[n] = Nothing THEN Nothing ELSE <<known[n].read, known[n].second>>]
ListingOf(entries) ==
  [n \in Names |-> IF entries[n] = Nothing \/ kind = "fdroid" THEN entries[n] ELSE entries[n][2]]

(* The file that is replaced first, and the one that is looked for.        *)
Published == [rpm |-> metadata.repomd, fdroid |-> metadata.index, jellyfin |-> metadata.library][kind]
Written == [rpm |-> metadata.repomd, fdroid |-> metadata.jar, jellyfin |-> metadata.library][kind]
             # Nothing

(***************************************************************************)
(* The runner starts, with what the cache has, and stops.                  *)
(***************************************************************************)
(* The metadata there is is not what is listed, which it may be when        *)
(* something failed before, or nothing is.                                 *)
IsOther(listed) ==
  /\ listed = Unread \/ left.faults < MaxFaults
  /\ Published # Nothing /\ <<ListingOf(Published.entries), Published.title, Published.key>>
                              # <<listed, config.title, config.key>>

Starts(known, listed) ==
  /\ At("off")
  /\ runner' = [runner EXCEPT !.pc = "begins", !.known = known, !.listed = listed]
  /\ cut' = (cut \/ IsOther(listed))
  /\ UNCHANGED <<kind, config, folder, metadata, look, recent>>

Restores ==
  /\ cache.key = config.key
  /\ Starts(cache.known, IF cache.title = config.title THEN cache.listed ELSE Unread)
  /\ UNCHANGED <<cache, left>>

Drops ==
  /\ cache.key # config.key /\ Starts(Unread, Unread)
  /\ cache' = NoCache /\ UNCHANGED left

CannotRestore ==
  /\ Starts(Unread, Unread) /\ Faulty
  /\ UNCHANGED cache

(* A reload or a shutdown tells it to stop and waits until it has.         *)
Reloads(to) ==
  /\ left.reloads > 0 /\ left' = [left EXCEPT !.reloads = @ - 1]
  /\ runner.quit = Nothing /\ runner' = [runner EXCEPT !.quit = to]
  /\ UNCHANGED <<kind, config, folder, metadata, cache, look, recent, cut>>

(* The library of a jellyfin repository is in memory. *)
Gone ==
  /\ runner' = Stopped /\ look' = NoLook
  /\ metadata' = [metadata EXCEPT !.library = Nothing]
  /\ config' = IF runner.quit = Nothing THEN config ELSE runner.quit
  /\ UNCHANGED <<kind, folder, cache, recent, cut>>

Stops ==
  /\ runner.quit # Nothing
  /\ At("idle") \/ (runner.pc \in {"reads", "admits"} /\ look.todo # {})
  /\ Gone /\ UNCHANGED left

Crashes == ~At("off") /\ Faulty /\ Gone

(***************************************************************************)
(* A look: the packages are found and read one by one.                     *)
(***************************************************************************)
MayLook == At("begins") \/ (At("idle") /\ runner.quit = Nothing)

Looks ==
  /\ MayLook /\ Goes("reads")
  /\ look' = [NoLook EXCEPT !.todo = Present, !.still = TRUE]
  /\ UNCHANGED <<kind, config, folder, metadata, cache, recent, cut, left>>

Ended(result) == [NoLook EXCEPT !.answer = result, !.skipped = look.skipped, !.still = look.still]
Answers(result) == Goes("idle") /\ look' = Ended(result)

CannotLook ==
  /\ MayLook /\ Faulty /\ Answers("failed")
  /\ UNCHANGED <<kind, config, folder, metadata, cache, recent, cut>>

Working(pc) == At(pc) /\ runner.quit = Nothing /\ look.todo # {}
This == Min(look.todo)
Rest == look.todo \ {This}
Skips == look' = [look EXCEPT !.todo = Rest, !.skipped = @ \cup {This}, !.copy = Nothing]

Known(n) == runner.known[n] # Nothing /\ runner.known[n].stamp = folder[n]

Reads ==
  /\ Working("reads")
  /\ IF folder[This] # Nothing /\ (Known(This) \/ folder[This].whole)
     THEN look' = [look EXCEPT !.todo = Rest, !.touched = @ \ {This},
                     !.found[This] = [file |-> folder[This], before |-> Known(This)]]
     ELSE Skips
  /\ UNCHANGED <<kind, config, folder, metadata, cache, runner, recent, cut, left>>

CannotRead ==
  /\ Working("reads") /\ Faulty /\ Skips
  /\ UNCHANGED <<kind, config, folder, metadata, cache, runner, recent, cut>>

(***************************************************************************)
(* The old versions are removed.                                           *)
(***************************************************************************)
(* A package read before is of the version it had then. *)
Version(n) ==
  IF look.found[n].before THEN runner.known[n].read.version ELSE look.found[n].file.version
Candidates == {n \in Names : look.found[n] # Nothing}
Prunes == kind # "jellyfin" /\ Keep > 0
(* Mutated: the oldest are kept. *)
BeforeByAge(m, n) == Version(m) < Version(n) \/ (Version(m) = Version(n) /\ m < n)
Before(m, n) == Version(m) > Version(n) \/ (Version(m) = Version(n) /\ m < n)
Old == {n \in Candidates : Prunes /\ Cardinality({m \in Candidates : Before(m, n)}) >= Keep}

ReadAll ==
  /\ At("reads") /\ look.todo = {} /\ Goes("prunes")
  /\ look' = [look EXCEPT !.todo = Old]
  /\ UNCHANGED <<kind, config, folder, metadata, cache, recent, cut, left>>

RemovesOld ==
  /\ At("prunes") /\ look.todo # {}
  /\ folder' = [folder EXCEPT ![This] = Nothing]
  /\ look' = [look EXCEPT !.todo = Rest, !.found[This] = Nothing]
  /\ UNCHANGED <<kind, config, metadata, cache, runner, recent, cut, left>>

CannotRemove ==
  /\ At("prunes") /\ look.todo # {} /\ Faulty
  /\ look' = [look EXCEPT !.todo = Rest]
  /\ UNCHANGED <<kind, config, folder, metadata, cache, runner, recent, cut>>

Pruned ==
  /\ At("prunes") /\ look.todo = {} /\ Goes("admits")
  /\ look' = [look EXCEPT !.todo = Candidates]
  /\ UNCHANGED <<kind, config, folder, metadata, cache, recent, cut, left>>

(***************************************************************************)
(* The packages that stay are admitted, one by one: one read before as it  *)
(* was; another is signed where it is not, read again and looked at.       *)
(***************************************************************************)
Opened == look.found[This].file
Unsigned == kind = "rpm" /\ Opened.key # config.key

AdmitsKnown ==
  /\ Working("admits") /\ look.found[This].before
  /\ look' = [look EXCEPT !.todo = Rest, !.listing[This] = runner.known[This]]
  /\ UNCHANGED <<kind, config, folder, metadata, cache, runner, recent, cut, left>>

(* The signature is of what was opened; what it is put before is what the  *)
(* file is by now.  Of two files that makes one that is none.              *)
Copies ==
  /\ Working("admits") /\ ~look.found[This].before /\ Unsigned
  /\ IF folder[This] = Nothing
     THEN Skips /\ UNCHANGED runner
     ELSE /\ look' = [look EXCEPT !.copy =
               IF folder[This] = Opened THEN [Opened EXCEPT !.key = config.key]
               ELSE [folder[This] EXCEPT !.key = Nothing, !.whole = FALSE]]
          /\ Goes("signs")
  /\ UNCHANGED <<kind, config, folder, metadata, cache, recent, cut, left>>

Signs ==
  /\ At("signs")
  /\ folder' = [folder EXCEPT ![This] = look.copy]
  /\ look' = [look EXCEPT !.found[This].file = look.copy, !.copy = Nothing]
  /\ Goes("signed")
  /\ UNCHANGED <<kind, config, metadata, cache, recent, cut, left>>

ReadsAgain ==
  /\ \/ Working("admits") /\ ~look.found[This].before /\ ~Unsigned
     \/ At("signed")
  /\ IF folder[This] = Nothing
     THEN Skips /\ Goes("admits")
     ELSE look' = [look EXCEPT !.copy = folder[This]] /\ Goes("stats")
  /\ UNCHANGED <<kind, config, folder, metadata, cache, recent, cut, left>>

(* It is known as it is now. *)
Admits ==
  /\ At("stats") /\ Goes("admits")
  /\ IF folder[This] = Nothing
     THEN Skips
     ELSE look' = [look EXCEPT !.todo = Rest, !.copy = Nothing, !.listing[This] =
                     [read |-> Opened, second |-> look.copy, stamp |-> folder[This],
                      doubt |-> This \in look.touched]]
  /\ UNCHANGED <<kind, config, folder, metadata, cache, recent, cut, left>>

CannotAdmit ==
  /\ runner.pc \in {"signs", "signed", "stats"} /\ Faulty
  /\ Skips /\ Goes("admits")
  /\ UNCHANGED <<kind, config, folder, metadata, cache, recent, cut>>

(***************************************************************************)
(* What is known now is kept, and the metadata written where it lists      *)
(* something else than before.                                             *)
(***************************************************************************)
Changed(n) ==
  look.listing[n] # Nothing
    /\ (runner.known[n] = Nothing \/ runner.known[n].stamp # look.listing[n].stamp)
Removed(n) == look.listing[n] = Nothing /\ runner.known[n] # Nothing

(* What is written says what all of the cache was read for, also what could *)
(* not be dropped: that is in doubt.                                       *)
Others(n) ==
  IF cache.known[n] = Nothing \/ cache.key = config.key THEN cache.known[n]
  ELSE [cache.known[n] EXCEPT !.doubt = TRUE]
Meta(listed, known) == [listed |-> listed, title |-> config.title, key |-> config.key, known |-> known]
Kept ==
  IF \A n \in Names : ~Changed(n) /\ ~Removed(n) THEN cache
  ELSE Meta(runner.listed,
            [n \in Names |-> IF Changed(n) \/ Removed(n) THEN look.listing[n] ELSE Others(n)])

Learns ==
  /\ At("admits") /\ look.todo = {}
  /\ runner' = [runner EXCEPT !.pc = "known", !.known = look.listing]
  /\ UNCHANGED <<kind, config, folder, metadata, look, recent, cut>>
Keeps == Learns /\ cache' = Kept /\ UNCHANGED left
CannotKeep == Learns /\ Faulty /\ UNCHANGED cache

Listing == ListingOf(Entries(runner.known))
UpToDate ==
  /\ At("known") /\ Listing = runner.listed /\ Written /\ Answers("ok")
  /\ UNCHANGED <<kind, config, folder, metadata, cache, recent, cut, left>>

(* The lists of the metadata before are kept.  An index comes later than   *)
(* the one before, whatever the clock said when the look began: as it may   *)
(* be put back, that is any time.                                          *)
Later(now) == IF metadata.entry # Nothing /\ metadata.entry.at >= now
              THEN metadata.entry.at + 1 ELSE now
ListsOf(repomd) == IF repomd = Nothing THEN {} ELSE {repomd.entries}
Begins(now) ==
  /\ At("known") /\ ~(Listing = runner.listed /\ Written) /\ Goes("writes")
  /\ look' = [look EXCEPT
       !.before = ListsOf(metadata.repomd),
       !.doc = [entries |-> Entries(runner.known), title |-> config.title, key |-> config.key,
                at |-> IF kind = "fdroid" THEN Later(now) ELSE 0]]
  /\ UNCHANGED <<kind, config, folder, metadata, cache, recent, cut, left>>

(* Each file is replaced whole, one after the other. *)
Replaces(from, data, to) == At(from) /\ Goes(to) /\ metadata' = data
Aside == UNCHANGED <<kind, config, folder, cache, look, left>>

WritesLists ==
  /\ kind = "rpm" /\ Replaces("writes", [metadata EXCEPT !.lists = @ \cup {look.doc.entries}], "names")
  /\ Aside /\ UNCHANGED <<recent, cut>>
WritesRepomd ==
  /\ kind = "rpm" /\ Replaces("names", [metadata EXCEPT !.repomd = look.doc], "seals")
  /\ recent' = ListsOf(metadata.repomd) \cup {look.doc.entries}
  /\ cut' = TRUE /\ Aside
WritesSignature ==
  /\ kind = "rpm" /\ Replaces("seals", [metadata EXCEPT !.signature = look.doc], "cleans")
  /\ Aside /\ UNCHANGED <<recent, cut>>
KeepsLists == look.before \cup {look.doc.entries}
CleansUp ==
  /\ kind = "rpm" /\ Replaces("cleans", [metadata EXCEPT !.lists = @ \cap KeepsLists], "records")
  /\ Aside /\ UNCHANGED <<recent, cut>>

WritesIndex ==
  /\ kind = "fdroid" /\ Replaces("writes", [metadata EXCEPT !.index = look.doc], "names")
  /\ cut' = TRUE /\ Aside /\ UNCHANGED recent
WritesEntry ==
  /\ kind = "fdroid" /\ Replaces("names", [metadata EXCEPT !.entry = look.doc], "seals")
  /\ Aside /\ UNCHANGED <<recent, cut>>
WritesJar ==
  /\ kind = "fdroid" /\ Replaces("seals", [metadata EXCEPT !.jar = look.doc], "records")
  /\ Aside /\ UNCHANGED <<recent, cut>>

Publishes ==
  /\ kind = "jellyfin" /\ Replaces("writes", [metadata EXCEPT !.library = look.doc], "records")
  /\ cut' = TRUE /\ Aside /\ UNCHANGED recent

CannotWrite ==
  /\ kind # "jellyfin" /\ runner.pc \in {"writes", "names", "seals", "cleans"} /\ Faulty
  /\ Answers("failed")
  /\ UNCHANGED <<kind, config, folder, metadata, cache, recent, cut>>

Lists ==
  /\ At("records")
  /\ cut' = \E n \in Names : runner.known[n] # Nothing /\ runner.known[n].doubt
  /\ runner' = [runner EXCEPT !.pc = "idle", !.listed = Listing] /\ look' = Ended("ok")
  /\ UNCHANGED <<kind, config, folder, metadata, recent>>
Records ==
  /\ Lists /\ UNCHANGED left
  /\ cache' = Meta(Listing, [n \in Names |-> Others(n)])
CannotRecord == Lists /\ Faulty /\ UNCHANGED cache

RepositoryInit ==
  /\ kind \in Kinds /\ config \in Settings
  /\ folder = Unread /\ metadata = Blank /\ cache = NoCache
  /\ runner = Stopped /\ look = NoLook /\ recent = {} /\ cut = FALSE
  /\ left = [changes |-> MaxChanges, reloads |-> MaxReloads, faults |-> MaxFaults]

RepositoryNext ==
  \/ \E n \in Names, file \in {f \in Files : kind = "rpm" \/ f.key = Nothing} \cup {Nothing} : Changes(n, file)
  \/ Wipes
  \/ Restores \/ Drops \/ CannotRestore \/ Stops \/ Crashes
  \/ \E to \in Settings : Reloads(to)
  \/ \E now \in 0 .. MaxTime : (kind = "fdroid" \/ now = 0) /\ Begins(now)
  \/ Looks \/ CannotLook \/ Reads \/ CannotRead \/ ReadAll \/ RemovesOld \/ CannotRemove \/ Pruned
  \/ AdmitsKnown \/ Copies \/ Signs \/ ReadsAgain \/ Admits \/ CannotAdmit
  \/ Keeps \/ CannotKeep \/ UpToDate
  \/ WritesLists \/ WritesRepomd \/ WritesSignature \/ CleansUp
  \/ WritesIndex \/ WritesEntry \/ WritesJar \/ Publishes \/ CannotWrite
  \/ Records \/ CannotRecord

RepositorySpec == RepositoryInit /\ [][RepositoryNext]_repositoryVars

(***************************************************************************)
(* Properties.                                                             *)
(***************************************************************************)
Doubtful(n) == n \in look.touched \/ (runner.known[n] # Nothing /\ runner.known[n].doubt)

(* The file is one package, checked and signed with the key of now.        *)
KnownAsItIs(n) ==
  LET k == runner.known[n]
  IN k # Nothing /\ ~k.doubt =>
       /\ k.read = k.stamp /\ k.second = k.stamp /\ k.stamp.whole
       /\ kind = "rpm" => k.stamp.key = config.key

OfTheFolder(n) ==
  IF n \in look.skipped
  THEN runner.known[n] = Nothing /\ (left.faults = MaxFaults => ~folder[n].whole)
  ELSE IF folder[n] = Nothing THEN runner.known[n] = Nothing
  ELSE runner.known[n] # Nothing /\ runner.known[n].stamp = folder[n]

Whole(doc) ==
  /\ doc # Nothing /\ doc.entries = Entries(runner.known)
  /\ doc.title = config.title /\ doc.key = config.key
  /\ kind = "rpm" => metadata.signature = doc /\ doc.entries \in metadata.lists
  /\ kind = "fdroid" => metadata.entry = doc /\ metadata.jar = doc

(* Once a look has gone well, clients find what is in the folder, with the *)
(* key and the configuration of now, through whatever failed and whenever  *)
(* the process ended; and a client that read the list of lists finds them  *)
(* until it has been replaced twice.  Excepted are a package that is       *)
(* replaced between being read and being looked at again, which is known   *)
(* as the new one with what was read of the old; what was in a cache that  *)
(* could not be dropped with its key; metadata that was cut short, or      *)
(* written and not recorded, while the folder is again as it was listed;   *)
(* and the metadata of before a changed configuration or key, or a cache   *)
(* that was lost, while the folder is empty: to have listed nothing yet is *)
(* the same to the runner as to have listed that there is nothing.         *)
ServesItsFolder ==
  /\ \A n \in Names : KnownAsItIs(n)
  /\ look.answer = "ok" /\ look.still =>
       /\ \A n \in Names : OfTheFolder(n)
       /\ ~cut /\ (\A n \in Names : ~Doubtful(n)) => Whole(Published)
  /\ recent \subseteq metadata.lists

(* The runner signs what it read and removes what is too old, while Keep   *)
(* newer versions are there, and leaves alone what came since it read it;  *)
(* a client never finds an index no later than the one it has.  Excepted   *)
(* is a package replaced since it was read in the same look.               *)
ChangesOnlyIt ==
  /\ left'.changes = left.changes =>
       \A n \in Names : folder'[n] # folder[n] /\ ~Doubtful(n) =>
         \/ kind = "rpm" /\ folder'[n] = [folder[n] EXCEPT !.key = config.key]
         \/ /\ folder'[n] = Nothing
            /\ Cardinality({m \in Names \ {n} : Doubtful(m) \/
                 (folder[m] # Nothing /\ folder[m].whole /\ folder[m].version >= folder[n].version)})
                 >= Keep
  /\ Nothing \notin {metadata.jar, metadata'.jar} /\ metadata'.jar # metadata.jar =>
       metadata'.jar.at > metadata.jar.at
ChangesWhatItRead == [][ChangesOnlyIt]_repositoryVars

(* What is served is of what is in the folder, and the runner changes the  *)
(* folder only by what it read.                                            *)
KeepsItsRepository == []ServesItsFolder /\ ChangesWhatItRead
=============================================================================
