--------------------------- MODULE Supervisor_proofs ---------------------------
(***************************************************************************)
(* Proofs about the server itself.  Supervisor, for any services and       *)
(* configurations: applying one leaves no service out, whichever of them   *)
(* fail.  SelfUpdate, for any uploads and binaries, and as many crashes    *)
(* and failures: a binary that was checked is always there.  SyncManager,  *)
(* for any syncs, intervals, reloads, ends and crashes: one run of a sync   *)
(* at a time, none before it is due.  ConfigFile, for any open pages, edits *)
(* by hand and crashes: no edit is undone by somebody who did not see it.   *)
(***************************************************************************)
EXTENDS MCSupervisor, Integers, SequenceTheorems, TLAPS

Left == {left[n] : n \in DOMAIN left}

(* Who has been seen to and was not reported runs its section.              *)
EachRuns == \A s \in Services \ failed : s \in Left \/ running[s] = loaded[s]

IInv == TypeOK /\ EachRuns

-----------------------------------------------------------------------------
LEMMA LoadedType == TypeOK => loaded \in [Services -> Sections \union {None}]
  BY ConfigsAssumption DEF TypeOK

(* The loop of Apply takes one service from those left.                     *)
LEMMA NextService ==
    ASSUME TypeOK, left # <<>>
    PROVE  /\ Head(left) \in Services /\ Tail(left) \in Seq(Services)
           /\ \A s \in Left : s = Head(left) \/ s \in {Tail(left)[n] : n \in DOMAIN Tail(left)}
<1> USE DEF TypeOK
<1>1. /\ Head(left) \in Services /\ Tail(left) \in Seq(Services)
      /\ Len(Tail(left)) = Len(left) - 1
      /\ \A i \in 1 .. Len(Tail(left)) : Tail(left)[i] = left[i + 1]
  BY HeadTailProperties
<1>2. ASSUME NEW s \in Left, s # Head(left)
      PROVE  s \in {Tail(left)[n] : n \in DOMAIN Tail(left)}
  <2>1. PICK n \in 1..Len(left) : s = left[n]
    BY DEF Left
  <2>2. n # 1
    BY <1>2, <2>1
  <2>3. n - 1 \in 1..Len(Tail(left)) /\ Tail(left)[n - 1] = s
    BY <1>1, <2>1, <2>2
  <2>4. n - 1 \in DOMAIN Tail(left)
    BY <1>1, <2>3
  <2> QED BY <2>3, <2>4, Zenon
<1> QED BY <1>1, <1>2

(* When a configuration is loaded every service is left.                    *)
LEMMA AllLeft == left' = Order => Left' = Services
  BY DEF Left, Services

-----------------------------------------------------------------------------
LEMMA InvInit == Init => IInv
<1> SUFFICES ASSUME Init PROVE IInv
  OBVIOUS
<1>1. Left = Services
  BY DEF Left, Services, Init
<1>2. TypeOK
  BY ConfigsAssumption DEF Init, TypeOK
<1> QED BY <1>1, <1>2 DEF IInv, EachRuns

LEMMA TypeStep == TypeOK /\ [Next]_vars => TypeOK'
<1> SUFFICES ASSUME TypeOK, [Next]_vars PROVE TypeOK'
  OBVIOUS
<1> USE ConfigsAssumption DEF TypeOK
<1>1. CASE UNCHANGED vars
  BY <1>1 DEF vars
<1>2. CASE WatchBegins \/ Tick \/ Hangup
  BY <1>2 DEF WatchBegins, Tick, Hangup
<1>3. CASE LoadFails \/ NothingToDo
  BY <1>3 DEF LoadFails, NothingToDo
<1>4. CASE Loads
  BY <1>4 DEF Loads
<1>5. CASE Succeeds
  <2>1. left # <<>>
    BY <1>5 DEF Succeeds, Applying
  <2> QED BY <1>5, <2>1, NextService, LoadedType DEF Succeeds
<1>6. CASE Fails
  <2>1. left # <<>>
    BY <1>6 DEF Fails, Applying
  <2>2. running' \in [Services -> Sections \union {None}]
    BY <1>6 DEF Fails
  <2> QED BY <1>6, <2>1, <2>2, NextService DEF Fails
<1>7. CASE Applied \/ Started
  BY <1>7 DEF Applied, Started
<1>8. ASSUME NEW new \in Configs \union {Broken, Missing}, Edit(new) PROVE TypeOK'
  BY <1>8 DEF Edit
<1> QED BY <1>1, <1>2, <1>3, <1>4, <1>5, <1>6, <1>7, <1>8 DEF Next, Steps

LEMMA RunsStep == IInv /\ [Next]_vars => EachRuns'
<1> SUFFICES ASSUME IInv, [Next]_vars PROVE EachRuns'
  OBVIOUS
<1> USE DEF IInv, EachRuns
<1>1. CASE UNCHANGED <<left, loaded, failed, running>>
  BY <1>1 DEF Left
<1>2. CASE Loads
  BY <1>2, AllLeft DEF Loads
<1>3. CASE Succeeds \/ Fails
  <2> DEFINE s == Head(left)
  <2>0. left # <<>> /\ left' = Tail(left) /\ loaded' = loaded
    BY <1>3 DEF Succeeds, Fails, Applying
  <2>1. s \in Services /\ \A q \in Left : q = s \/ q \in Left'
    BY <2>0, NextService DEF Left
  <2>2. CASE Succeeds
    <3>1. failed' = failed /\ running'[s] = loaded[s]
          /\ \A q \in Services \ {s} : running'[q] = running[q]
      BY <2>0, <2>1, <2>2 DEF Succeeds, TypeOK
    <3> QED BY <2>0, <2>1, <3>1
  <2>3. CASE Fails
    <3>1. failed' = failed \union {s} /\ \A q \in Services \ {s} : running'[q] = running[q]
      BY <2>0, <2>1, <2>3 DEF Fails, TypeOK
    <3> QED BY <2>0, <2>1, <3>1
  <2> QED BY <1>3, <2>2, <2>3
<1>4. CASE WatchBegins \/ Tick \/ Hangup \/ LoadFails \/ NothingToDo \/ Applied \/ Started
  BY <1>1, <1>4 DEF WatchBegins, Tick, Hangup, LoadFails, NothingToDo, Applied, Started
<1>5. ASSUME NEW new, Edit(new) PROVE EachRuns'
  BY <1>1, <1>5 DEF Edit
<1>6. CASE UNCHANGED vars
  BY <1>1, <1>6 DEF vars
<1> QED BY <1>2, <1>3, <1>4, <1>5, <1>6 DEF Next, Steps

LEMMA Invariance == Spec => []IInv
<1>1. IInv /\ [Next]_vars => IInv'
  BY TypeStep, RunsStep DEF IInv
<1> QED BY <1>1, InvInit, PTL DEF Spec

-----------------------------------------------------------------------------
(* Every variable of the supervisor keeps its type: what is applied is      *)
(* always a configuration that loaded (reload of supervisor.go).            *)
THEOREM TypeCorrect == Spec => []TypeOK
  BY Invariance, PTL DEF IInv

(* Once a configuration is applied every service runs its section of it,    *)
(* but those that were reported, however many fail (Apply).                 *)
THEOREM GoodSectionsStayUp == Spec => []GoodSectionsRun
<1>1. IInv => GoodSectionsRun
  BY DEF IInv, EachRuns, Left, GoodSectionsRun
<1> QED BY <1>1, Invariance, PTL

-----------------------------------------------------------------------------
(* The update of the binary.                                                *)

(* What an upload is that has, or has had, its file beside the binary.      *)
Held == {"copies", "verifies", "smokes", "fails", "passed", "answered", "done"}
Answered == {"answered", "done"}
BeforeApply == {"serves", "stops", "removes", "aside"}
AtWork == BeforeApply \cup {"places"}
Runnable == TheUpdate!Runnable

UpdateTypes ==
  /\ beside \in [Uploads -> StagedFiles \cup {None}]
  /\ upload \in [Uploads -> Held \cup {"none", "refused", "over"}]
  /\ busy \in BOOLEAN /\ staged \in Uploads \cup {None} /\ requested \in BOOLEAN
  /\ process \in [at : AtWork \cup {"back", "restarts", "down"}, runs : Runnable,
                  why : {"none", "signal", "update"}, applied : BOOLEAN]
  /\ crashes \in Nat /\ fails \in Nat

(* Until the second rename at most one upload has a file, and that file is   *)
(* as far checked as the upload has come.                                   *)
UploadsAreChecked ==
  process.at \in AtWork =>
    /\ \A u \in Uploads : beside[u] # None <=> upload[u] \in Held
    /\ \A u \in Uploads : upload[u] \in Held => busy
    /\ \A u, v \in Uploads : upload[u] \in Held /\ upload[v] \in Held => u = v
    /\ \A u \in Uploads : upload[u] \in {"smokes", "fails", "passed"} \cup Answered =>
         beside[u].of \in Signed \cap Native /\ ~beside[u].trailer
    /\ \A u \in Uploads : upload[u] \in {"passed"} \cup Answered => beside[u].of \in Sound
    /\ staged # None => upload[staged] \in Answered
    /\ \A u \in Uploads : upload[u] \in Answered => staged = u
    /\ requested => staged # None
    /\ process.at \notin {"serves", "stops"} \/ process.why = "update" => requested

(* Where the binary that runs is, at every step of Apply.                   *)
FilesAreThere ==
  /\ old \in Runnable \cup {None}
  /\ process.at \in BeforeApply => exe = process.runs
  /\ process.at \in {"places", "back"} => exe = None /\ old = process.runs
  /\ process.at = "back" => fails > 0
  /\ process.at \in {"restarts", "down"} =>
       \/ exe \in Runnable
       \/ /\ exe = None /\ old = process.runs
          /\ fails > 1 \/ (process.at = "down" /\ crashes > 0)
  /\ process.applied => process.at \in {"restarts", "down"}
  /\ process.applied /\ process.at = "restarts" => exe \in Runnable /\ old = process.runs

OnlyCheckedRan == \A f \in ran : f.of \in Signed \cap Native /\ ~f.trailer

UpdateInv == UpdateTypes /\ UploadsAreChecked /\ FilesAreThere /\ OnlyCheckedRan

-----------------------------------------------------------------------------
(* The staged files are no None, and what cuts the trailer off keeps the rest. *)
LEMMA StagedFacts ==
    /\ None \notin Signed \cup Uploads \cup StagedFiles /\ First # None
    /\ TheUpdate!Part \in StagedFiles
    /\ \A bin \in Binaries : TheUpdate!Whole(bin, TRUE) \in StagedFiles
    /\ \A f \in StagedFiles :
         /\ [f EXCEPT !.trailer = FALSE] \in StagedFiles
         /\ [f EXCEPT !.trailer = FALSE].of = f.of
         /\ ~[f EXCEPT !.trailer = FALSE].trailer
  BY UpdateAssumption DEF StagedFiles, TheUpdate!Part, TheUpdate!Whole

LEMMA UpdateInit == TheUpdate!UpdateInit => UpdateInv
<1> SUFFICES ASSUME TheUpdate!UpdateInit PROVE UpdateInv
  OBVIOUS
<1>1. First \in Runnable
  BY DEF Runnable, TheUpdate!Runnable
<1>2. UpdateTypes
  BY <1>1 DEF TheUpdate!UpdateInit, UpdateTypes, AtWork, BeforeApply
<1>3. UploadsAreChecked
  BY StagedFacts DEF TheUpdate!UpdateInit, UploadsAreChecked, Held, Answered
<1>4. FilesAreThere /\ OnlyCheckedRan
  BY <1>1 DEF TheUpdate!UpdateInit, FilesAreThere, OnlyCheckedRan, BeforeApply
<1> QED BY <1>2, <1>3, <1>4 DEF UpdateInv

(* A new process: nothing is staged, and it runs what is in place.          *)
LEMMA NewProcessStep ==
    ASSUME UpdateInv, TheUpdate!NewProcess, exe # None, process.at \in {"restarts", "down"}
    PROVE  UpdateInv'
<1> USE DEF UpdateInv, TheUpdate!NewProcess, TheUpdate!Files, TheUpdate!Bounds
<1>1. exe \in Runnable
  BY DEF FilesAreThere
<1>2. UpdateTypes'
  BY <1>1 DEF UpdateTypes, Held, AtWork, BeforeApply
<1>3. UploadsAreChecked'
  BY DEF UploadsAreChecked, UpdateTypes, Held, Answered, AtWork, BeforeApply
<1>4. FilesAreThere' /\ OnlyCheckedRan'
  BY <1>1 DEF FilesAreThere, OnlyCheckedRan, UpdateTypes, AtWork, BeforeApply, Runnable
<1> QED BY <1>2, <1>3, <1>4

(* What receives, checks and answers an upload leaves both binaries alone.  *)
LEMMA UploadStep ==
    ASSUME UpdateInv, NEW u \in Uploads,
           \/ TheUpdate!Receives(u) \/ TheUpdate!Copies(u) \/ TheUpdate!Verifies(u)
           \/ TheUpdate!Smokes(u) \/ TheUpdate!Stages(u) \/ TheUpdate!Refuses(u)
           \/ TheUpdate!Requests(u)
    PROVE  UpdateInv'
<1> USE StagedFacts
        DEF UpdateInv, TheUpdate!Goes, TheUpdate!Files, TheUpdate!Updater, TheUpdate!Bounds,
            TheUpdate!Serving
<1>1. CASE TheUpdate!Receives(u)
  <2>1. UpdateTypes'
    <3>1. CASE busy
      BY <1>1, <3>1 DEF TheUpdate!Receives, UpdateTypes
    <3>2. CASE ~busy
      BY <1>1, <3>2 DEF TheUpdate!Receives, UpdateTypes, Held
    <3> QED BY <3>1, <3>2
  <2>2. UploadsAreChecked'
    BY <1>1 DEF TheUpdate!Receives, UpdateTypes, UploadsAreChecked,
       Held, Answered, AtWork, BeforeApply
  <2> QED BY <1>1, <2>1, <2>2 DEF TheUpdate!Receives, FilesAreThere, OnlyCheckedRan
<1>2. CASE TheUpdate!Copies(u)
  <2>0. PICK f \in StagedFiles : beside' = [beside EXCEPT ![u] = f]
    BY <1>2 DEF TheUpdate!Copies
  <2>1. UpdateTypes'
    BY <1>2, <2>0 DEF TheUpdate!Copies, UpdateTypes, Held
  <2>2. upload' = [upload EXCEPT ![u] = "verifies"] /\ upload[u] = "copies"
        /\ process.at \in AtWork /\ UNCHANGED <<busy, staged, requested, process>>
    BY <1>2 DEF TheUpdate!Copies, AtWork, BeforeApply
  <2>3. UploadsAreChecked'
    BY <2>0, <2>2 DEF UpdateTypes, UploadsAreChecked, Held, Answered
  <2> QED BY <1>2, <2>1, <2>3 DEF TheUpdate!Copies, FilesAreThere, OnlyCheckedRan
<1>3. CASE TheUpdate!Verifies(u)
  <2>0. /\ beside[u] \in StagedFiles
        /\ beside' = [beside EXCEPT ![u] = [beside[u] EXCEPT !.trailer = FALSE]]
    BY <1>3 DEF TheUpdate!Verifies, UpdateTypes, UploadsAreChecked, Held, AtWork, BeforeApply
  <2>1. UpdateTypes'
    BY <1>3, <2>0 DEF TheUpdate!Verifies, UpdateTypes, Held
  <2>2. UploadsAreChecked'
    BY <1>3, <2>0 DEF TheUpdate!Verifies, TheUpdate!Trusted, UpdateTypes, UploadsAreChecked,
       Held, Answered, AtWork, BeforeApply
  <2> QED BY <1>3, <2>1, <2>2 DEF TheUpdate!Verifies, FilesAreThere, OnlyCheckedRan
<1>4. CASE TheUpdate!Smokes(u)
  <2>1. UpdateTypes'
    BY <1>4 DEF TheUpdate!Smokes, UpdateTypes, Held
  <2>2. UploadsAreChecked'
    BY <1>4 DEF TheUpdate!Smokes, UpdateTypes, UploadsAreChecked, Held, Answered, AtWork,
       BeforeApply
  <2>3. OnlyCheckedRan'
    BY <1>4 DEF TheUpdate!Smokes, OnlyCheckedRan, UploadsAreChecked, AtWork, BeforeApply
  <2> QED BY <1>4, <2>1, <2>2, <2>3 DEF TheUpdate!Smokes, FilesAreThere
<1>5. CASE TheUpdate!Stages(u)
  <2>1. UpdateTypes'
    BY <1>5 DEF TheUpdate!Stages, UpdateTypes, Held
  <2>2. UploadsAreChecked'
    BY <1>5 DEF TheUpdate!Stages, UpdateTypes, UploadsAreChecked, Held, Answered, AtWork,
       BeforeApply
  <2> QED BY <1>5, <2>1, <2>2 DEF TheUpdate!Stages, FilesAreThere, OnlyCheckedRan
<1>6. CASE TheUpdate!Refuses(u)
  <2>1. UpdateTypes'
    BY <1>6 DEF TheUpdate!Refuses, UpdateTypes, Held
  <2>2. UploadsAreChecked'
    BY <1>6 DEF TheUpdate!Refuses, UpdateTypes, UploadsAreChecked, Held, Answered, AtWork,
       BeforeApply
  <2> QED BY <1>6, <2>1, <2>2 DEF TheUpdate!Refuses, FilesAreThere, OnlyCheckedRan
<1>7. CASE TheUpdate!Requests(u)
  <2>1. UpdateTypes'
    BY <1>7 DEF TheUpdate!Requests, UpdateTypes, Held
  <2>2. UploadsAreChecked'
    BY <1>7 DEF TheUpdate!Requests, UpdateTypes, UploadsAreChecked, Held, Answered, AtWork,
       BeforeApply
  <2> QED BY <1>7, <2>1, <2>2 DEF TheUpdate!Requests, FilesAreThere, OnlyCheckedRan
<1> QED BY <1>1, <1>2, <1>3, <1>4, <1>5, <1>6, <1>7

(* main and Apply leave the uploads alone until one of them is in place.    *)
LEMMA MainStep ==
    ASSUME UpdateInv,
           \/ \E why \in {"signal", "update"} : TheUpdate!Ends(why)
           \/ TheUpdate!Closed \/ TheUpdate!RemovesTheOld \/ TheUpdate!MovesAside
           \/ TheUpdate!MovesBack \/ TheUpdate!RenameFails \/ TheUpdate!CannotRestart
           \/ TheUpdate!Crashes \/ TheUpdate!GoesBack
    PROVE  UpdateInv'
<1> USE StagedFacts
        DEF UpdateInv, TheUpdate!Files, TheUpdate!Updater, TheUpdate!Bounds, TheUpdate!Main,
            UpdateTypes, UploadsAreChecked, FilesAreThere, OnlyCheckedRan, AtWork, BeforeApply
<1>1. ASSUME NEW why \in {"signal", "update"}, TheUpdate!Ends(why) PROVE UpdateInv'
  BY <1>1 DEF TheUpdate!Ends
<1>2. CASE TheUpdate!Closed
  BY <1>2 DEF TheUpdate!Closed
<1>3. CASE TheUpdate!RemovesTheOld
  BY <1>3 DEF TheUpdate!RemovesTheOld
<1>4. CASE TheUpdate!MovesAside
  BY <1>4 DEF TheUpdate!MovesAside
<1>5. CASE TheUpdate!MovesBack
  BY <1>5 DEF TheUpdate!MovesBack
<1>6. CASE TheUpdate!RenameFails
  BY <1>6 DEF TheUpdate!RenameFails
<1>7. CASE TheUpdate!CannotRestart
  BY <1>7 DEF TheUpdate!CannotRestart
<1>8. CASE TheUpdate!Crashes
  BY <1>8 DEF TheUpdate!Crashes
<1>9. CASE TheUpdate!GoesBack
  BY <1>9 DEF TheUpdate!GoesBack
<1> QED BY <1>1, <1>2, <1>3, <1>4, <1>5, <1>6, <1>7, <1>8, <1>9

(* The second rename puts a binary in place that was checked.               *)
LEMMA PlacesStep ==
    ASSUME UpdateInv, TheUpdate!Places
    PROVE  UpdateInv'
<1> USE StagedFacts DEF UpdateInv, TheUpdate!Places, TheUpdate!Updater, TheUpdate!Bounds
<1>1. staged \in Uploads /\ upload[staged] \in Answered /\ beside[staged] \in StagedFiles
  BY DEF UpdateTypes, UploadsAreChecked, Held, Answered, AtWork, BeforeApply
<1>2. exe' \in Runnable
  BY <1>1 DEF UploadsAreChecked, UpdateTypes, Runnable, TheUpdate!Runnable, AtWork, BeforeApply
<1>3. UpdateTypes'
  BY <1>1 DEF UpdateTypes
<1>4. UploadsAreChecked'
  BY DEF UploadsAreChecked, UpdateTypes, AtWork, BeforeApply
<1> QED BY <1>2, <1>3, <1>4 DEF FilesAreThere, OnlyCheckedRan, UpdateTypes, AtWork, BeforeApply

LEMMA UpdateInvariance == TheUpdate!UpdateSpec => []UpdateInv
<1>1. ASSUME UpdateInv, [TheUpdate!UpdateNext]_(TheUpdate!updateVars) PROVE UpdateInv'
  <2>1. CASE UNCHANGED TheUpdate!updateVars
    BY <1>1, <2>1 DEF TheUpdate!updateVars, UpdateInv, UpdateTypes, UploadsAreChecked,
       FilesAreThere, OnlyCheckedRan
  <2>2. CASE TheUpdate!Restarts \/ TheUpdate!Boots
    BY <1>1, <2>2, NewProcessStep DEF TheUpdate!Restarts, TheUpdate!Boots
  <2> QED BY <1>1, <2>1, <2>2, UploadStep, MainStep, PlacesStep DEF TheUpdate!UpdateNext
<1> QED BY <1>1, UpdateInit, PTL DEF TheUpdate!UpdateSpec

-----------------------------------------------------------------------------
(* Whatever fails or crashes between the two renames of Apply, a binary      *)
(* that was signed and that runs is in place, or beside it with .old, and    *)
(* only what was checked is ever run (updater.go).                           *)
THEOREM ThereIsAVersion == TheUpdate!UpdateSpec => []AVersionIsThere
<1>1. UpdateInv => AVersionIsThere
  <2> SUFFICES ASSUME UpdateInv PROVE AVersionIsThere
    OBVIOUS
  <2>1. exe \in Runnable \/ (exe = None /\ old = process.runs)
    BY DEF UpdateInv, FilesAreThere, UpdateTypes, AtWork, BeforeApply
  <2>2. \A u, v \in Uploads : process.at = "serves" /\ beside[u] # None /\ beside[v] # None => u = v /\ busy
    BY DEF UpdateInv, UploadsAreChecked, AtWork, BeforeApply
  <2>3. \A f \in ran : f.of \in Signed \cap Native /\ ~f.trailer
    BY DEF UpdateInv, OnlyCheckedRan
  <2>4. /\ old \in Runnable \cup {None}
        /\ exe = None /\ process.at = "down" => crashes > 0 \/ fails > 1
        /\ process.applied /\ process.at = "restarts" => old = process.runs
    <3>1. None \notin Runnable
      BY StagedFacts DEF Runnable, TheUpdate!Runnable
    <3> QED BY <3>1 DEF UpdateInv, FilesAreThere
  <2> QED BY <2>1, <2>2, <2>3, <2>4 DEF AVersionIsThere, TheUpdate!AVersionIsThere, Runnable
<1> QED BY <1>1, UpdateInvariance, PTL

-----------------------------------------------------------------------------
(* When the syncs run.  A runner that waits or works is the one the manager *)
(* runs, and one that was not passed over knows when the last run was.      *)
Steps6 == {"none", "built", "waits", "runs", "keeps", "done"}
SyncRunners ==
    [at : Steps6, job : TheSyncs!Jobs \union {"none", "off", "gone"}, last : Nat, started : Nat, busy : BOOLEAN,
     quit : BOOLEAN, cancelled : BOOLEAN, asked : BOOLEAN, missed : BOOLEAN]
Statuses == [running : BOOLEAN, started : Nat]
AskerStates ==
    [at : {"new", "found", "free", "over"}, runner : TheSyncs!Runners \union {<<0, 0>>}]
Managers == [at : {"idle", "down", "changed", "compares", "stops"}, ends : BOOLEAN, next : [Syncs -> Nat]]

SyncTypes ==
    /\ now \in Nat /\ builds \in 0 .. MaxBuilds
    /\ wants \in [Syncs -> TheSyncs!Jobs \union {"off", "gone"}]
    /\ runs \in [Syncs -> Nat] /\ kept \in [Syncs -> Nat] /\ shown \in [Syncs -> Statuses]
    /\ runner \in [Syncs -> [TheSyncs!Builds -> SyncRunners]]
    /\ manager \in Managers
    /\ asker \in [Askers -> AskerStates]

RunnerOK(s, n) ==
    /\ runner[s][n].at \in {"waits", "runs", "keeps"} => n = runs[s]
    /\ runner[s][n].at \notin {"none", "done"} /\ ~runner[s][n].missed => kept[s] <= runner[s][n].last
    /\ runner[s][n].at \in {"runs", "keeps"} => runner[s][n].started = runner[s][n].last
    /\ runner[s][n].started <= now

SyncOK(s) ==
    /\ kept[s] <= now /\ runs[s] <= builds /\ manager.next[s] <= builds
    /\ runs[s] # 0 => shown[s].started \in {0, runner[s][runs[s]].started}
    /\ runs[s] = 0 => shown[s] = TheSyncs!Nothing
    /\ manager.at = "compares" => runs[s] < builds
    /\ manager.at \in {"compares", "stops"} /\ manager.next[s] \notin {0, runs[s]} =>
          runner[s][manager.next[s]].at = "built"

AskersOK == \A q \in Askers : asker[q].at \in {"found", "free"} => asker[q].runner \in TheSyncs!Runners

SyncsInv ==
    /\ SyncTypes /\ enlisted = runs /\ AskersOK
    /\ \A s \in Syncs : SyncOK(s) /\ \A n \in TheSyncs!Builds : RunnerOK(s, n)

LEMMA SyncsInit == TheSyncs!SyncManagerInit => SyncsInv
<1> SUFFICES ASSUME TheSyncs!SyncManagerInit PROVE SyncsInv
  OBVIOUS
<1> USE SyncsAssumption DEF TheSyncs!SyncManagerInit, TheSyncs!Off, TheSyncs!NoRunner, TheSyncs!Nothing
<1>1. SyncTypes
  BY DEF SyncTypes, SyncRunners, Statuses, AskerStates, Managers, TheSyncs!Jobs, Steps6
<1>2. AskersOK
  BY DEF AskersOK
<1>3. ASSUME NEW s \in Syncs PROVE SyncOK(s)
  BY DEF SyncOK
<1>4. ASSUME NEW s \in Syncs, NEW n \in TheSyncs!Builds PROVE RunnerOK(s, n)
  BY DEF RunnerOK
<1> QED BY <1>1, <1>2, <1>3, <1>4 DEF SyncsInv

LEMMA NoRunnerFacts ==
    TheSyncs!NoRunner \in SyncRunners /\ TheSyncs!NoRunner.at = "none" /\ TheSyncs!NoRunner.started = 0
  BY DEF TheSyncs!NoRunner, SyncRunners, Steps6

LEMMA RunnerFacts ==
    ASSUME SyncsInv, NEW s \in Syncs, NEW n \in TheSyncs!Builds
    PROVE  /\ runner[s][n] \in SyncRunners /\ runner[s] \in [TheSyncs!Builds -> SyncRunners]
           /\ n \in Nat /\ n # 0 /\ n <= MaxBuilds /\ RunnerOK(s, n) /\ SyncOK(s)
           /\ runs[s] \in Nat /\ kept[s] \in Nat /\ now \in Nat /\ shown[s] \in Statuses /\ manager.next[s] \in Nat
  BY SyncsAssumption DEF SyncsInv, SyncTypes, Managers, TheSyncs!Builds

(* One runner becomes x.                                                    *)
LEMMA OneBecomes ==
    ASSUME SyncsInv, NEW s \in Syncs, NEW n \in TheSyncs!Builds, NEW x \in SyncRunners,
           runner' = [runner EXCEPT ![s][n] = x]
    PROVE  /\ runner' \in [Syncs -> [TheSyncs!Builds -> SyncRunners]]
           /\ runner'[s][n] = x
           /\ \A t \in Syncs, m \in TheSyncs!Builds : t # s \/ m # n => runner'[t][m] = runner[t][m]
<1>1. runner \in [Syncs -> [TheSyncs!Builds -> SyncRunners]]
  BY DEF SyncsInv, SyncTypes
<1> QED BY <1>1

(* The manager and the askers stay, one runner becomes x, and shown says    *)
(* what it says.                                                            *)
LEMMA OneRunnerStep ==
    ASSUME SyncsInv, NEW s \in Syncs, NEW n \in TheSyncs!Builds, NEW x \in SyncRunners,
           runner' = [runner EXCEPT ![s][n] = x],
           UNCHANGED <<now, wants, builds, runs, enlisted, manager>>,
           asker' \in [Askers -> AskerStates], AskersOK', kept' = kept,
           shown' \in [Syncs -> Statuses], \A t \in Syncs \ {s} : shown'[t] = shown[t],
           shown'[s] = shown[s] \/ n = runs[s],
           n = runs[s] => shown'[s].started \in {0, x.started},
           RunnerOK(s, n)', runner[s][n].at = "built" => x.at = "built"
    PROVE  SyncsInv'
<1>1. /\ runner' \in [Syncs -> [TheSyncs!Builds -> SyncRunners]] /\ runner'[s][n] = x
      /\ \A t \in Syncs, m \in TheSyncs!Builds : t # s \/ m # n => runner'[t][m] = runner[t][m]
  BY OneBecomes, ZenonT(30)
<1>2. SyncTypes'
  BY <1>1 DEF SyncsInv, SyncTypes
<1>3. ASSUME NEW t \in Syncs, NEW m \in TheSyncs!Builds PROVE RunnerOK(t, m)'
  <2>1. CASE t = s /\ m = n
    BY <2>1
  <2>2. CASE t # s \/ m # n
    BY <1>1, <2>2, RunnerFacts DEF RunnerOK
  <2> QED BY <2>1, <2>2
<1>4. ASSUME NEW t \in Syncs PROVE SyncOK(t)'
  <2>1. SyncOK(t) /\ runs[t] \in Nat /\ manager.next[t] \in Nat /\ builds \in Nat /\ builds <= MaxBuilds /\ n # 0
    BY RunnerFacts, SyncsAssumption DEF SyncsInv, SyncTypes, Managers
  <2>2. /\ runs[t] # 0 => runs[t] \in TheSyncs!Builds
        /\ manager.next[t] # 0 => manager.next[t] \in TheSyncs!Builds
    BY <2>1, SyncsAssumption DEF SyncOK, TheSyncs!Builds
  <2>3. shown'[t].started \in {0, runner'[t][runs[t]].started} \/ runs[t] = 0
    <3>1. CASE t = s /\ n = runs[s]
      BY <3>1, <1>1
    <3>2. CASE ~(t = s /\ n = runs[s])
      BY <3>2, <1>1, <2>1, <2>2 DEF SyncOK
    <3> QED BY <3>1, <3>2
  <2>4. runs[t] = 0 => shown'[t] = TheSyncs!Nothing
    BY <2>1 DEF SyncOK
  <2>5. manager.at \in {"compares", "stops"} /\ manager.next[t] \notin {0, runs[t]} =>
          runner'[t][manager.next[t]].at = "built"
    BY <2>1, <2>2, <1>1 DEF SyncOK
  <2> QED BY <2>1, <2>3, <2>4, <2>5 DEF SyncOK
<1> QED BY <1>2, <1>3, <1>4 DEF SyncsInv

LEMMA OfRunner ==
    ASSUME NEW r \in TheSyncs!Runners
    PROVE  \E s \in Syncs, n \in TheSyncs!Builds : r = <<s, n>> /\ r[1] = s /\ r[2] = n
  BY DEF TheSyncs!Runners

(* The steps of one runner that leave what is kept alone.                   *)
LEMMA RunnerSteps ==
    ASSUME SyncsInv, NEW r \in TheSyncs!Runners,
           TheSyncs!Fires(r) \/ TheSyncs!RunEnds(r) \/ TheSyncs!IsStopped(r) \/ TheSyncs!Cancels(r)
             \/ TheSyncs!Returns(r)
    PROVE  SyncsInv'
<1>1. PICK s \in Syncs, n \in TheSyncs!Builds : r = <<s, n>> /\ r[1] = s /\ r[2] = n
  BY OfRunner
<1>2. PICK o \in SyncRunners : o = runner[s][n] /\ TheSyncs!Of(r) = o
  BY <1>1, RunnerFacts DEF TheSyncs!Of
<1>3. /\ RunnerOK(s, n) /\ SyncOK(s) /\ now \in Nat /\ kept[s] \in Nat /\ shown[s] \in Statuses /\ n # 0
      /\ shown \in [Syncs -> Statuses] /\ asker \in [Askers -> AskerStates] /\ AskersOK /\ enlisted = runs
  BY RunnerFacts DEF SyncsInv, SyncTypes
<1>4. UNCHANGED <<now, wants, builds, runs, enlisted, manager, asker, kept>>
  BY DEF TheSyncs!Fires, TheSyncs!RunEnds, TheSyncs!IsStopped, TheSyncs!Cancels, TheSyncs!Returns, TheSyncs!Manages
<1>5. AskersOK' /\ asker' \in [Askers -> AskerStates]
  BY <1>3, <1>4 DEF AskersOK
<1>6. ASSUME NEW x \in SyncRunners, runner' = [runner EXCEPT ![s][n] = x] PROVE runner'[s][n] = x
  BY <1>6, OneBecomes
<1>7. CASE TheSyncs!Fires(r)
  <2>1. PICK asked \in BOOLEAN : TheSyncs!Becomes(r,
          [o EXCEPT !.at = "runs", !.started = now, !.last = now, !.busy = TRUE, !.missed = FALSE,
                      !.asked = o.asked /\ ~asked])
    BY <1>2, <1>7 DEF TheSyncs!Fires
  <2>2. PICK x : x = [o EXCEPT !.at = "runs", !.started = now, !.last = now, !.busy = TRUE, !.missed = FALSE,
                      !.asked = o.asked /\ ~asked]
    OBVIOUS
  <2>3. /\ x \in SyncRunners /\ x.at = "runs" /\ x.started = now /\ x.last = now /\ ~x.missed
    BY <2>2, <1>3 DEF SyncRunners, Steps6
  <2>4. runner' = [runner EXCEPT ![s][n] = x]
    BY <1>1, <2>1, <2>2 DEF TheSyncs!Becomes
  <2>5. o.at = "waits" /\ n = runs[s]
    BY <1>2, <1>3, <1>7 DEF TheSyncs!Fires, RunnerOK
  <2>6. shown' = [shown EXCEPT ![s] = [running |-> TRUE, started |-> now]]
    BY <1>1, <1>3, <1>7, <2>5 DEF TheSyncs!Fires, TheSyncs!Report, TheSyncs!Reports
  <2>7. RunnerOK(s, n)'
    BY <1>3, <1>4, <1>6, <2>3, <2>4, <2>5 DEF RunnerOK, SyncOK
  <2>8. shown' \in [Syncs -> Statuses] /\ shown'[s].started = now /\ \A t \in Syncs \ {s} : shown'[t] = shown[t]
    BY <1>3, <2>6 DEF Statuses
  <2> QED BY <1>2, <1>4, <1>5, <2>3, <2>4, <2>5, <2>7, <2>8, OneRunnerStep
<1>8. CASE TheSyncs!RunEnds(r)
  <2>1. PICK x : x = [o EXCEPT !.at = "keeps", !.busy = FALSE]
    OBVIOUS
  <2>2. /\ x \in SyncRunners /\ x.at = "keeps" /\ x.started = o.started /\ x.last = o.last /\ x.missed = o.missed
    BY <2>1 DEF SyncRunners, Steps6
  <2>3. runner' = [runner EXCEPT ![s][n] = x] /\ o.at = "runs"
    BY <1>1, <1>2, <1>8, <2>1 DEF TheSyncs!RunEnds, TheSyncs!Becomes
  <2>4. n = runs[s]
    BY <1>2, <1>3, <2>3 DEF RunnerOK
  <2>5. shown' = [shown EXCEPT ![s] = [running |-> FALSE, started |-> o.started]]
    BY <1>1, <1>2, <1>3, <1>8, <2>4 DEF TheSyncs!RunEnds, TheSyncs!Report, TheSyncs!Reports
  <2>6. RunnerOK(s, n)'
    BY <1>2, <1>3, <1>4, <1>6, <2>2, <2>3 DEF RunnerOK
  <2>7. shown' \in [Syncs -> Statuses] /\ shown'[s].started = x.started /\ \A t \in Syncs \ {s} : shown'[t] = shown[t]
    <3>1. o.started \in Nat
      BY DEF SyncRunners
    <3> QED BY <1>3, <2>2, <2>5, <3>1 DEF Statuses
  <2> QED BY <1>2, <1>4, <1>5, <2>2, <2>3, <2>4, <2>6, <2>7, OneRunnerStep
<1>9. ASSUME NEW x \in SyncRunners, runner' = [runner EXCEPT ![s][n] = x], shown' = shown,
             x.started = o.started, x.last = o.last, x.missed = o.missed,
             x.at = o.at \/ (o.at = "runs" /\ x.at = "waits") \/ (o.at = "waits" /\ x.at = "done")
      PROVE  SyncsInv'
  <2>1. RunnerOK(s, n)'
    BY <1>2, <1>3, <1>4, <1>6, <1>9 DEF RunnerOK
  <2>2. n = runs[s] => shown[s].started \in {0, o.started}
    BY <1>2, <1>3 DEF SyncOK
  <2> QED BY <1>2, <1>3, <1>4, <1>5, <1>9, <2>1, <2>2, OneRunnerStep
<1>10. CASE TheSyncs!IsStopped(r)
  <2>1. PICK x : x = [o EXCEPT !.at = "waits"]
    OBVIOUS
  <2>2. /\ x \in SyncRunners /\ x.at = "waits" /\ x.started = o.started /\ x.last = o.last /\ x.missed = o.missed
    BY <2>1 DEF SyncRunners, Steps6
  <2>3. runner' = [runner EXCEPT ![s][n] = x] /\ o.at = "runs" /\ shown' = shown
    BY <1>1, <1>2, <1>10, <2>1 DEF TheSyncs!IsStopped, TheSyncs!Becomes
  <2> QED BY <1>9, <2>2, <2>3
<1>11. CASE TheSyncs!Cancels(r)
  <2>1. PICK x : x = [o EXCEPT !.cancelled = TRUE]
    OBVIOUS
  <2>2. /\ x \in SyncRunners /\ x.at = o.at /\ x.started = o.started /\ x.last = o.last /\ x.missed = o.missed
    BY <2>1 DEF SyncRunners, Steps6
  <2>3. runner' = [runner EXCEPT ![s][n] = x] /\ shown' = shown
    BY <1>1, <1>2, <1>11, <2>1 DEF TheSyncs!Cancels, TheSyncs!Becomes
  <2> QED BY <1>9, <2>2, <2>3
<1>12. CASE TheSyncs!Returns(r)
  <2>1. PICK x : x = [o EXCEPT !.at = "done"]
    OBVIOUS
  <2>2. /\ x \in SyncRunners /\ x.at = "done" /\ x.started = o.started /\ x.last = o.last /\ x.missed = o.missed
    BY <2>1 DEF SyncRunners, Steps6
  <2>3. runner' = [runner EXCEPT ![s][n] = x] /\ o.at = "waits" /\ shown' = shown
    BY <1>1, <1>2, <1>12, <2>1 DEF TheSyncs!Returns, TheSyncs!Becomes
  <2> QED BY <1>9, <2>2, <2>3
<1> QED BY <1>7, <1>8, <1>10, <1>11, <1>12

(* A stop tells the runner to quit; an asker that found one asks it.        *)
LEMMA TellsStep ==
    ASSUME SyncsInv, (\E s \in Syncs : TheSyncs!Quits(s)) \/ (\E q \in Askers : TheSyncs!Sends(q))
    PROVE  SyncsInv'
<1>1. ASSUME NEW r \in TheSyncs!Runners, NEW x \in SyncRunners, TheSyncs!Becomes(r, x),
             x.at = TheSyncs!Of(r).at, x.started = TheSyncs!Of(r).started, x.last = TheSyncs!Of(r).last,
             x.missed = TheSyncs!Of(r).missed,
             UNCHANGED <<now, wants, builds, runs, kept, enlisted, shown, manager>>,
             asker' \in [Askers -> AskerStates], AskersOK'
      PROVE  SyncsInv'
  <2>1. PICK s \in Syncs, n \in TheSyncs!Builds : r = <<s, n>> /\ r[1] = s /\ r[2] = n
    BY OfRunner
  <2>2. PICK o \in SyncRunners : o = runner[s][n] /\ TheSyncs!Of(r) = o
    BY <2>1, RunnerFacts DEF TheSyncs!Of
  <2>3. runner' = [runner EXCEPT ![s][n] = x]
    BY <1>1, <2>1 DEF TheSyncs!Becomes
  <2>4. /\ RunnerOK(s, n) /\ SyncOK(s) /\ shown \in [Syncs -> Statuses] /\ n # 0 /\ runner'[s][n] = x
    BY RunnerFacts, OneBecomes, <2>3 DEF SyncsInv, SyncTypes
  <2>5. RunnerOK(s, n)'
    BY <1>1, <2>2, <2>4 DEF RunnerOK
  <2>6. n = runs[s] => shown[s].started \in {0, o.started}
    BY <2>2, <2>4 DEF SyncOK
  <2> QED BY <1>1, <2>2, <2>3, <2>4, <2>5, <2>6, OneRunnerStep
<1>2. ASSUME NEW s \in Syncs, TheSyncs!Quits(s) PROVE SyncsInv'
  <2>1. PICK r \in TheSyncs!Runners : r = TheSyncs!Old(s)
    <3>1. runs[s] # 0 /\ runs[s] \in Nat /\ runs[s] <= builds /\ builds \in Nat /\ builds <= MaxBuilds
      BY <1>2, SyncsAssumption DEF TheSyncs!Quits, TheSyncs!Leaves, SyncsInv, SyncTypes, SyncOK
    <3>2. runs[s] \in TheSyncs!Builds
      BY <3>1, SyncsAssumption DEF TheSyncs!Builds
    <3>3. <<s, runs[s]>> \in TheSyncs!Runners
      BY <3>2 DEF TheSyncs!Runners
    <3> QED BY <3>3 DEF TheSyncs!Old
  <2>2. PICK o \in SyncRunners : o = TheSyncs!Of(r)
    BY OfRunner, RunnerFacts DEF TheSyncs!Of
  <2>3. PICK x : x = [o EXCEPT !.quit = TRUE]
    OBVIOUS
  <2>4. /\ x \in SyncRunners /\ x.at = o.at /\ x.started = o.started /\ x.last = o.last /\ x.missed = o.missed
    BY <2>3 DEF SyncRunners
  <2>5. /\ TheSyncs!Becomes(r, x) /\ UNCHANGED <<now, wants, builds, runs, kept, enlisted, shown, manager, asker>>
    BY <1>2, <2>1, <2>2, <2>3 DEF TheSyncs!Quits
  <2>6. asker' \in [Askers -> AskerStates] /\ AskersOK'
    BY <2>5 DEF SyncsInv, SyncTypes, AskersOK
  <2> QED BY <1>1, <2>2, <2>4, <2>5, <2>6
<1>3. ASSUME NEW q \in Askers, TheSyncs!Sends(q) PROVE SyncsInv'
  <2>1. PICK r \in TheSyncs!Runners : r = asker[q].runner
    BY <1>3 DEF TheSyncs!Sends, SyncsInv, AskersOK
  <2>2. PICK o \in SyncRunners : o = TheSyncs!Of(r)
    BY OfRunner, RunnerFacts DEF TheSyncs!Of
  <2>3. PICK x : x = [o EXCEPT !.asked = TRUE]
    OBVIOUS
  <2>4. /\ x \in SyncRunners /\ x.at = o.at /\ x.started = o.started /\ x.last = o.last /\ x.missed = o.missed
    BY <2>3 DEF SyncRunners
  <2>5. /\ TheSyncs!Becomes(r, x) /\ UNCHANGED <<now, wants, builds, runs, kept, enlisted, shown, manager>>
        /\ asker' = [asker EXCEPT ![q].at = "over"]
    BY <1>3, <2>1, <2>2, <2>3 DEF TheSyncs!Sends
  <2>6. asker' \in [Askers -> AskerStates] /\ AskersOK'
    BY <2>5 DEF SyncsInv, SyncTypes, AskersOK, AskerStates
  <2> QED BY <1>1, <2>2, <2>4, <2>5, <2>6
<1> QED BY <1>2, <1>3

(* The status of a run is kept, and who was built before that misses it.    *)
LEMMA KeepsStep ==
    ASSUME SyncsInv, NEW r \in TheSyncs!Runners, TheSyncs!Keeps(r)
    PROVE  SyncsInv'
<1>1. PICK s \in Syncs, n \in TheSyncs!Builds : r = <<s, n>> /\ r[1] = s /\ r[2] = n
  BY OfRunner
<1>2. PICK o \in SyncRunners : o = runner[s][n] /\ TheSyncs!Of(r) = o
  BY <1>1, RunnerFacts DEF TheSyncs!Of
<1>3. /\ RunnerOK(s, n) /\ SyncOK(s) /\ now \in Nat /\ kept[s] \in Nat /\ n # 0
      /\ runner \in [Syncs -> [TheSyncs!Builds -> SyncRunners]] /\ kept \in [Syncs -> Nat]
  BY RunnerFacts DEF SyncsInv, SyncTypes
<1>4. /\ UNCHANGED <<now, wants, builds, runs, enlisted, manager, asker, shown>> /\ o.at = "keeps"
      /\ runner' = [runner EXCEPT ![s] = [m \in TheSyncs!Builds |->
            IF m = n THEN [runner[s][m] EXCEPT !.at = "waits"]
            ELSE [runner[s][m] EXCEPT !.missed = runner[s][m].missed \/ runner[s][m].at = "built"]]]
      /\ kept' = [kept EXCEPT ![s] = o.started] \/ kept' = kept
  BY <1>1, <1>2, <1>3 DEF TheSyncs!Keeps, TheSyncs!Manages
<1>5. n = runs[s] /\ o.started = o.last /\ o.started \in Nat /\ o.started <= now
  BY <1>2, <1>3, <1>4 DEF RunnerOK, SyncRunners
<1>6. ASSUME NEW m \in TheSyncs!Builds
      PROVE  /\ runner'[s][m] \in SyncRunners /\ runner'[s][m].started = runner[s][m].started
             /\ runner'[s][m].last = runner[s][m].last
             /\ runner'[s][m].at = IF m = n THEN "waits" ELSE runner[s][m].at
             /\ m # n => (runner'[s][m].missed <=> runner[s][m].missed \/ runner[s][m].at = "built")
  <2>1. PICK x \in SyncRunners : x = runner[s][m]
    BY RunnerFacts
  <2>2. runner'[s][m] = IF m = n THEN [x EXCEPT !.at = "waits"]
                        ELSE [x EXCEPT !.missed = x.missed \/ x.at = "built"]
    BY <1>3, <1>4, <2>1
  <2>3. CASE m = n
    BY <2>1, <2>2, <2>3 DEF SyncRunners, Steps6
  <2>4. CASE m # n
    <3>1. (x.missed \/ x.at = "built") \in BOOLEAN
      OBVIOUS
    <3> QED BY <2>1, <2>2, <2>4, <3>1 DEF SyncRunners
  <2> QED BY <2>3, <2>4
<1>7. \A t \in Syncs \ {s} : runner'[t] = runner[t] /\ kept'[t] = kept[t]
  BY <1>3, <1>4
<1>8. kept' \in [Syncs -> Nat] /\ kept'[s] \in {kept[s], o.started}
  BY <1>3, <1>4, <1>5
<1>9. SyncTypes'
  <2>1. runner' \in [Syncs -> [TheSyncs!Builds -> SyncRunners]]
    <3>1. PICK f : f = [m \in TheSyncs!Builds |->
            IF m = n THEN [runner[s][m] EXCEPT !.at = "waits"]
            ELSE [runner[s][m] EXCEPT !.missed = runner[s][m].missed \/ runner[s][m].at = "built"]]
      OBVIOUS
    <3>2. runner' = [runner EXCEPT ![s] = f] /\ runner'[s] = f
      BY <1>3, <1>4, <3>1
    <3>3. f \in [TheSyncs!Builds -> SyncRunners]
      BY <1>6, <3>1, <3>2
    <3> QED BY <1>3, <3>2, <3>3
  <2> QED BY <1>4, <1>8, <2>1 DEF SyncsInv, SyncTypes
<1>10. ASSUME NEW t \in Syncs, NEW m \in TheSyncs!Builds PROVE RunnerOK(t, m)'
  <2>1. RunnerOK(t, m) /\ kept[t] \in Nat /\ runner[t][m] \in SyncRunners
    BY RunnerFacts
  <2>2. CASE t # s
    BY <1>4, <1>7, <2>1, <2>2 DEF RunnerOK
  <2>3. CASE t = s /\ m = n
    BY <1>2, <1>3, <1>4, <1>5, <1>6, <1>8, <2>1, <2>3 DEF RunnerOK
  <2>4. CASE t = s /\ m # n
    <3>1. runner[s][m].at \in {"none", "built", "done"}
      BY <1>5, <2>1, <2>4 DEF RunnerOK, SyncRunners, Steps6
    <3>2. /\ runner'[s][m].at = runner[s][m].at /\ runner'[s][m].started = runner[s][m].started
          /\ runner[s][m].at = "built" => runner'[s][m].missed
      BY <1>6, <2>4
    <3>3. runner'[s][m].at \notin {"waits", "runs", "keeps"}
      BY <3>1, <3>2
    <3>4. runner'[s][m].at \in {"none", "done"} \/ runner'[s][m].missed
      BY <3>1, <3>2
    <3>5. runner'[s][m].started <= now'
      BY <1>4, <2>1, <2>4, <3>2 DEF RunnerOK
    <3> QED BY <2>4, <3>3, <3>4, <3>5 DEF RunnerOK
  <2> QED BY <2>2, <2>3, <2>4
<1>11. ASSUME NEW t \in Syncs PROVE SyncOK(t)'
  <2>1. SyncOK(t) /\ runs[t] \in Nat /\ manager.next[t] \in Nat /\ builds \in Nat /\ builds <= MaxBuilds
        /\ kept[t] \in Nat /\ now \in Nat
    BY RunnerFacts, SyncsAssumption DEF SyncsInv, SyncTypes, Managers
  <2>2. /\ runs[t] # 0 => runs[t] \in TheSyncs!Builds
        /\ manager.next[t] # 0 => manager.next[t] \in TheSyncs!Builds
    BY <2>1, SyncsAssumption DEF SyncOK, TheSyncs!Builds
  <2>3. kept'[t] <= now
    BY <1>5, <1>7, <1>8, <2>1 DEF SyncOK
  <2>4. \A m \in TheSyncs!Builds : runner'[t][m].started = runner[t][m].started
    BY <1>6, <1>7
  <2>5. \A m \in TheSyncs!Builds : runner[t][m].at = "built" => runner'[t][m].at = "built"
    BY <1>2, <1>4, <1>6, <1>7
  <2> QED BY <1>4, <2>1, <2>2, <2>3, <2>4, <2>5 DEF SyncOK
<1> QED BY <1>4, <1>9, <1>10, <1>11 DEF SyncsInv, AskersOK

(* What the manager does beside the runners: the configuration, an end, and *)
(* what is asked and what time it is.                                       *)
LEMMA AsideStep ==
    ASSUME SyncsInv,
           \/ TheSyncs!NewConfig \/ TheSyncs!Finishes \/ TheSyncs!Passes
           \/ \E q \in Askers : TheSyncs!Looks(q) \/ \E s \in Syncs : TheSyncs!Asks(q, s)
    PROVE  SyncsInv'
<1> USE DEF SyncsInv
<1>1. /\ UNCHANGED <<runner, runs, builds, enlisted, shown>> /\ now \in Nat /\ now' \in Nat /\ now <= now'
      /\ kept \in [Syncs -> Nat]
  BY DEF TheSyncs!NewConfig, TheSyncs!Finishes, TheSyncs!Passes, TheSyncs!Looks, TheSyncs!Asks, SyncTypes
<1>2. \/ manager' = manager
      \/ manager'.at \in {"idle", "down", "changed"} /\ manager' \in Managers /\ \A s \in Syncs : manager'.next[s] <= builds
  <2>1. CASE TheSyncs!NewConfig
    BY <2>1 DEF TheSyncs!NewConfig, SyncTypes, Managers, SyncOK
  <2>2. CASE TheSyncs!Finishes
    <3>1. 0 <= builds
      BY SyncsAssumption DEF SyncTypes
    <3> QED BY <2>2, <3>1 DEF TheSyncs!Finishes, TheSyncs!Off, SyncTypes, Managers
  <2> QED BY <2>1, <2>2 DEF TheSyncs!Passes, TheSyncs!Looks, TheSyncs!Asks
<1>3. kept' \in [Syncs -> Nat] /\ \A s \in Syncs : kept'[s] \in {0, kept[s]}
  BY <1>1 DEF TheSyncs!NewConfig, TheSyncs!Finishes, TheSyncs!Passes, TheSyncs!Looks, TheSyncs!Asks
<1>4. asker' \in [Askers -> AskerStates] /\ AskersOK'
  <2>1. CASE asker' = asker
    BY <2>1 DEF SyncTypes, AskersOK
  <2>2. ASSUME NEW q \in Askers, TheSyncs!Looks(q) PROVE asker' \in [Askers -> AskerStates] /\ AskersOK'
    BY <2>2 DEF TheSyncs!Looks, SyncTypes, AskersOK, AskerStates
  <2>3. ASSUME NEW q \in Askers, NEW s \in Syncs, TheSyncs!Asks(q, s)
        PROVE  asker' \in [Askers -> AskerStates] /\ AskersOK'
    <3>1. enlisted[s] # 0 => <<s, enlisted[s]>> \in TheSyncs!Runners
      <4>1. runs[s] \in Nat /\ runs[s] <= builds /\ builds \in Nat /\ builds <= MaxBuilds
        BY SyncsAssumption DEF SyncTypes, SyncOK
      <4>2. runs[s] # 0 => runs[s] \in TheSyncs!Builds
        BY <4>1, SyncsAssumption DEF TheSyncs!Builds
      <4> QED BY <4>2 DEF TheSyncs!Runners
    <3>2. PICK y : asker' = [asker EXCEPT ![q] = y] /\ y = IF enlisted[s] # 0 THEN [at |-> "found", runner |-> <<s, enlisted[s]>>]
                                   ELSE [asker[q] EXCEPT !.at = "over"]
      BY <2>3 DEF TheSyncs!Asks
    <3>3. y \in AskerStates /\ (y.at \in {"found", "free"} => y.runner \in TheSyncs!Runners)
      <4>1. CASE enlisted[s] # 0
        BY <3>1, <3>2, <4>1 DEF AskerStates
      <4>2. CASE enlisted[s] = 0
        BY <3>2, <4>2 DEF SyncTypes, AskerStates
      <4> QED BY <4>1, <4>2
    <3> QED BY <3>2, <3>3 DEF SyncTypes, AskersOK
  <2> QED BY <2>1, <2>2, <2>3 DEF TheSyncs!NewConfig, TheSyncs!Finishes, TheSyncs!Passes
<1>5. SyncTypes'
  BY <1>1, <1>2, <1>3, <1>4 DEF SyncTypes, TheSyncs!NewConfig, TheSyncs!Finishes, TheSyncs!Passes, TheSyncs!Looks, TheSyncs!Asks
<1>6. ASSUME NEW s \in Syncs, NEW n \in TheSyncs!Builds PROVE RunnerOK(s, n)'
  <2>1. RunnerOK(s, n) /\ runner[s][n] \in SyncRunners
    BY RunnerFacts
  <2> QED BY <2>1, <1>1, <1>3 DEF RunnerOK, SyncRunners
<1>7. ASSUME NEW s \in Syncs PROVE SyncOK(s)'
  <2>1. SyncOK(s) /\ kept[s] \in Nat
    BY <1>1
  <2> QED BY <2>1, <1>1, <1>2, <1>3 DEF SyncOK
<1> QED BY <1>1, <1>4, <1>5, <1>6, <1>7

(* A new configuration is built: a runner that was never started for each   *)
(* sync that is wanted, with what is kept at that moment.                   *)
LEMMA BuildsStep ==
    ASSUME SyncsInv, TheSyncs!BuildsAll
    PROVE  SyncsInv'
<1> USE DEF SyncsInv
<1>1. /\ UNCHANGED <<now, wants, runs, kept, enlisted, shown, asker>> /\ runner' = TheSyncs!Built
      /\ builds \in Nat /\ MaxBuilds \in Nat /\ builds' = builds + 1 /\ builds' <= MaxBuilds
      /\ runner \in [Syncs -> [TheSyncs!Builds -> SyncRunners]] /\ kept \in [Syncs -> Nat] /\ runs \in [Syncs -> Nat]
      /\ now \in Nat
  BY SyncsAssumption DEF TheSyncs!BuildsAll, SyncTypes
<1>2. builds' \in TheSyncs!Builds
  BY <1>1 DEF TheSyncs!Builds
<1>3. PICK new : new = [s \in Syncs |->
          IF TheSyncs!Wanted(s) THEN [TheSyncs!NoRunner EXCEPT !.at = "built", !.job = wants[s], !.last = kept[s]]
          ELSE TheSyncs!NoRunner]
  OBVIOUS
<1>4. ASSUME NEW s \in Syncs
      PROVE  /\ new[s] \in SyncRunners /\ new[s].at \in {"none", "built"} /\ new[s].started = 0
             /\ TheSyncs!Wanted(s) => new[s].at = "built"
             /\ new[s].at = "built" => new[s].last = kept[s]
  <2>1. kept[s] \in Nat
    BY <1>1
  <2>2. CASE TheSyncs!Wanted(s)
    BY <2>1, <2>2, <1>3 DEF TheSyncs!NoRunner, TheSyncs!Wanted, SyncRunners, Steps6
  <2>3. CASE ~TheSyncs!Wanted(s)
    BY <2>3, <1>3 DEF TheSyncs!NoRunner, SyncRunners, Steps6
  <2> QED BY <2>2, <2>3
<1>5. runner' = [s \in Syncs |-> [runner[s] EXCEPT ![builds'] = new[s]]]
  BY <1>1, <1>3 DEF TheSyncs!Built, TheSyncs!LastRun
<1>6. /\ runner' \in [Syncs -> [TheSyncs!Builds -> SyncRunners]]
      /\ \A s \in Syncs : runner'[s][builds'] = new[s]
      /\ \A s \in Syncs, m \in TheSyncs!Builds : m # builds' => runner'[s][m] = runner[s][m]
  BY <1>1, <1>2, <1>4, <1>5
<1>7. /\ manager'.at \in {"compares", "stops"} /\ manager' \in Managers
      /\ \A s \in Syncs : manager'.next[s] = IF TheSyncs!Wanted(s) THEN builds' ELSE 0
  <2>1. PICK f : f = [s \in Syncs |-> IF TheSyncs!Wanted(s) THEN builds' ELSE 0]
    OBVIOUS
  <2>2. PICK where : where = IF manager.at = "changed" THEN "compares" ELSE "stops"
    OBVIOUS
  <2>3. manager' = [manager EXCEPT !.at = where, !.next = f] /\ manager \in Managers
    BY <1>1, <2>1, <2>2 DEF TheSyncs!BuildsAll, SyncTypes
  <2>4. f \in [Syncs -> Nat] /\ where \in {"compares", "stops"}
    BY <1>1, <2>1, <2>2
  <2>5. manager'.at = where /\ manager'.next = f /\ manager' \in Managers
    BY <2>3, <2>4 DEF Managers
  <2> QED BY <2>1, <2>4, <2>5
<1>8. SyncTypes'
  BY <1>1, <1>6, <1>7 DEF SyncTypes
<1>9. ASSUME NEW s \in Syncs, NEW m \in TheSyncs!Builds PROVE RunnerOK(s, m)'
  <2>1. CASE m = builds'
    <3>1. kept[s] \in Nat
      BY <1>1
    <3>2. runner'[s][m] = new[s] /\ kept'[s] = kept[s] /\ now' = now
      BY <2>1, <1>1, <1>6
    <3>3. new[s].at \notin {"waits", "runs", "keeps"} /\ new[s].started <= now
      BY <1>1, <1>4
    <3>4. new[s].at \notin {"none", "done"} => kept[s] <= new[s].last
      BY <3>1, <1>4
    <3> QED BY <3>2, <3>3, <3>4 DEF RunnerOK
  <2>2. CASE m # builds'
    BY <2>2, <1>1, <1>6 DEF RunnerOK
  <2> QED BY <2>1, <2>2
<1>10. ASSUME NEW s \in Syncs PROVE SyncOK(s)'
  <2>1. runs[s] \in Nat /\ runs[s] <= builds /\ SyncOK(s)
    BY <1>1 DEF SyncOK
  <2>2. runs[s] # 0 => runs[s] \in TheSyncs!Builds /\ runs[s] # builds'
    BY <2>1, <1>1 DEF TheSyncs!Builds
  <2>3. runs[s] # 0 => shown'[s].started \in {0, runner'[s][runs[s]].started}
    BY <2>1, <2>2, <1>1, <1>6 DEF SyncOK
  <2>4. manager'.next[s] # 0 => manager'.next[s] = builds' /\ runner'[s][builds'].at = "built"
    BY <1>4, <1>6, <1>7
  <2>5. manager'.next[s] <= builds'
    BY <1>1, <1>7
  <2> QED BY <1>1, <1>7, <2>1, <2>3, <2>4, <2>5 DEF SyncOK
<1>11. AskersOK'
  BY <1>1 DEF AskersOK
<1> QED BY <1>1, <1>8, <1>9, <1>10, <1>11

(* One whose job did not change goes on, and what was built for it goes.    *)
LEMMA ComparesStep ==
    ASSUME SyncsInv, TheSyncs!Compares
    PROVE  SyncsInv'
<1> USE DEF SyncsInv
<1>1. /\ UNCHANGED <<now, wants, builds, runs, kept, enlisted, shown, asker>> /\ manager.at = "compares"
      /\ builds \in Nat /\ builds <= MaxBuilds /\ MaxBuilds \in Nat /\ now \in Nat
      /\ runner \in [Syncs -> [TheSyncs!Builds -> SyncRunners]] /\ kept \in [Syncs -> Nat] /\ runs \in [Syncs -> Nat]
      /\ manager \in Managers
  BY SyncsAssumption DEF TheSyncs!Compares, SyncTypes
<1>2. /\ manager' = [manager EXCEPT !.at = "stops",
             !.next = [s \in Syncs |-> IF TheSyncs!SameJob(s) THEN runs[s] ELSE manager.next[s]]]
      /\ runner' = [s \in Syncs |-> IF TheSyncs!SameJob(s) THEN [runner[s] EXCEPT ![builds] = TheSyncs!NoRunner]
                                    ELSE runner[s]]
  BY DEF TheSyncs!Compares
<1>3. /\ manager' \in Managers /\ manager'.at = "stops"
      /\ \A s \in Syncs : manager'.next[s] = IF TheSyncs!SameJob(s) THEN runs[s] ELSE manager.next[s]
  BY <1>1, <1>2 DEF Managers
<1>4. PICK z : z = TheSyncs!NoRunner /\ z \in SyncRunners /\ z.at = "none" /\ z.started = 0
  BY NoRunnerFacts
<1>5. ASSUME NEW s \in Syncs
      PROVE  /\ runner'[s] \in [TheSyncs!Builds -> SyncRunners]
             /\ \A m \in TheSyncs!Builds : m # builds => runner'[s][m] = runner[s][m]
             /\ runner'[s] = runner[s] \/ (TheSyncs!SameJob(s) /\ builds \in TheSyncs!Builds => runner'[s][builds] = z)
             /\ ~TheSyncs!SameJob(s) => runner'[s] = runner[s]
  BY <1>1, <1>2, <1>4
<1>6. SyncTypes'
  <2>1. runner' \in [Syncs -> [TheSyncs!Builds -> SyncRunners]]
    BY <1>2, <1>5
  <2> QED BY <1>1, <1>3, <2>1 DEF SyncTypes
<1>7. ASSUME NEW s \in Syncs, NEW m \in TheSyncs!Builds PROVE RunnerOK(s, m)'
  <2>1. CASE runner'[s][m] = runner[s][m]
    BY <2>1, <1>1 DEF RunnerOK
  <2>2. CASE runner'[s][m] # runner[s][m]
    <3>1. runner'[s][m] = z
      BY <2>2, <1>5
    <3> QED BY <3>1, <1>1, <1>4 DEF RunnerOK
  <2> QED BY <2>1, <2>2
<1>8. ASSUME NEW s \in Syncs PROVE SyncOK(s)'
  <2>1. runs[s] \in Nat /\ runs[s] <= builds /\ runs[s] < builds /\ SyncOK(s)
    BY <1>1 DEF SyncOK
  <2>2. runs[s] # 0 => runner'[s][runs[s]] = runner[s][runs[s]]
    <3>1. runs[s] # 0 => runs[s] \in TheSyncs!Builds /\ runs[s] # builds
      BY <2>1, <1>1 DEF TheSyncs!Builds
    <3> QED BY <3>1, <1>5
  <2>3. CASE TheSyncs!SameJob(s)
    BY <2>1, <2>2, <2>3, <1>1, <1>3 DEF SyncOK
  <2>4. CASE ~TheSyncs!SameJob(s)
    BY <2>1, <2>4, <1>1, <1>3, <1>5 DEF SyncOK
  <2> QED BY <2>3, <2>4
<1>9. AskersOK'
  BY <1>1 DEF AskersOK
<1> QED BY <1>1, <1>6, <1>7, <1>8, <1>9

(* A runner that has stopped is forgotten: the sync then has none at all.   *)
LEMMA ForgetsStep ==
    ASSUME SyncsInv, NEW s \in Syncs, TheSyncs!Forgets(s)
    PROVE  SyncsInv'
<1> USE DEF SyncsInv
<1>1. /\ UNCHANGED <<now, wants, builds, kept, asker, runner, manager>> /\ manager.at = "stops"
      /\ enlisted = runs /\ runs \in [Syncs -> Nat] /\ shown \in [Syncs -> Statuses]
      /\ builds \in Nat /\ builds <= MaxBuilds /\ MaxBuilds \in Nat
  BY SyncsAssumption DEF TheSyncs!Forgets, SyncTypes
<1>2. /\ runs' = [runs EXCEPT ![s] = 0] /\ enlisted' = [enlisted EXCEPT ![s] = 0]
      /\ shown' = [shown EXCEPT ![s] = TheSyncs!Nothing]
      /\ runs[s] # 0 /\ manager.next[s] # runs[s] /\ runner[s][runs[s]].at = "done"
  BY <1>1 DEF TheSyncs!Forgets, TheSyncs!Leaves, TheSyncs!HasStopped, TheSyncs!Old, TheSyncs!Of
<1>3. /\ runs' \in [Syncs -> Nat] /\ enlisted' = runs' /\ runs'[s] = 0 /\ shown'[s] = TheSyncs!Nothing
      /\ shown' \in [Syncs -> Statuses]
      /\ \A t \in Syncs \ {s} : runs'[t] = runs[t] /\ shown'[t] = shown[t]
  BY <1>1, <1>2 DEF TheSyncs!Nothing, Statuses
<1>4. SyncTypes'
  BY <1>1, <1>3 DEF SyncTypes
<1>5. ASSUME NEW t \in Syncs, NEW m \in TheSyncs!Builds PROVE RunnerOK(t, m)'
  <2>1. CASE t = s
    BY <2>1, <1>1, <1>2 DEF RunnerOK
  <2>2. CASE t # s
    BY <2>2, <1>1, <1>3 DEF RunnerOK
  <2> QED BY <2>1, <2>2
<1>6. ASSUME NEW t \in Syncs PROVE SyncOK(t)'
  <2>1. CASE t = s
    BY <2>1, <1>1, <1>2, <1>3 DEF SyncOK
  <2>2. CASE t # s
    BY <2>2, <1>1, <1>3 DEF SyncOK
  <2> QED BY <2>1, <2>2
<1>7. AskersOK'
  BY <1>1 DEF AskersOK
<1> QED BY <1>1, <1>3, <1>4, <1>5, <1>6, <1>7

(* A runner that was built is launched, for a sync that has none.           *)
LEMMA LaunchesStep ==
    ASSUME SyncsInv, NEW s \in Syncs, TheSyncs!Launches(s)
    PROVE  SyncsInv'
<1> USE DEF SyncsInv
<1>1. /\ UNCHANGED <<now, wants, builds, kept, asker, shown, manager>> /\ manager.at = "stops"
      /\ enlisted = runs /\ runs \in [Syncs -> Nat] /\ manager \in Managers
      /\ builds \in Nat /\ builds <= MaxBuilds /\ MaxBuilds \in Nat /\ runs[s] = 0 /\ manager.next[s] # 0
  BY SyncsAssumption DEF TheSyncs!Launches, SyncTypes
<1>2. PICK n \in TheSyncs!Builds : n = manager.next[s] /\ n # 0 /\ n <= builds
  <2>1. manager.next[s] \in Nat /\ manager.next[s] <= builds
    BY <1>1 DEF Managers, SyncOK
  <2> QED BY <2>1, <1>1 DEF TheSyncs!Builds
<1>3. PICK o \in SyncRunners : o = runner[s][n]
  BY RunnerFacts
<1>4. o.at = "built" /\ SyncOK(s) /\ RunnerOK(s, n)
  BY <1>1, <1>2, <1>3 DEF SyncOK
<1>5. PICK z : z = [o EXCEPT !.at = "waits"]
  OBVIOUS
<1>6. /\ z \in SyncRunners /\ z.at = "waits" /\ z.started = o.started /\ z.last = o.last /\ z.missed = o.missed
  BY <1>5 DEF SyncRunners, Steps6
<1>7. runner' = [runner EXCEPT ![s][n] = z]
  BY <1>1, <1>2, <1>3, <1>5 DEF TheSyncs!Launches
<1>8. /\ runner' \in [Syncs -> [TheSyncs!Builds -> SyncRunners]] /\ runner'[s][n] = z
      /\ \A t \in Syncs, m \in TheSyncs!Builds : t # s \/ m # n => runner'[t][m] = runner[t][m]
  BY <1>6, <1>7, OneBecomes, ZenonT(30)
<1>9. /\ runs' \in [Syncs -> Nat] /\ enlisted' = runs' /\ runs'[s] = n
      /\ \A t \in Syncs \ {s} : runs'[t] = runs[t]
  <2>1. runs' = [runs EXCEPT ![s] = n] /\ enlisted' = [enlisted EXCEPT ![s] = n] /\ n \in Nat
    BY <1>2 DEF TheSyncs!Launches, TheSyncs!Builds
  <2> QED BY <1>1, <2>1
<1>10. SyncTypes'
  BY <1>1, <1>8, <1>9 DEF SyncTypes
<1>11. ASSUME NEW t \in Syncs, NEW m \in TheSyncs!Builds PROVE RunnerOK(t, m)'
  <2>1. CASE t = s /\ m = n
    BY <2>1, <1>1, <1>3, <1>4, <1>6, <1>8, <1>9 DEF RunnerOK
  <2>2. CASE t = s /\ m # n
    <3>1. m # 0
      BY DEF TheSyncs!Builds
    <3> QED BY <2>2, <3>1, <1>1, <1>8 DEF RunnerOK
  <2>3. CASE t # s
    BY <2>3, <1>1, <1>8, <1>9 DEF RunnerOK
  <2> QED BY <2>1, <2>2, <2>3
<1>12. ASSUME NEW t \in Syncs PROVE SyncOK(t)'
  <2>1. CASE t = s
    <3>1. shown[s].started = 0
      BY <1>1, <1>4 DEF SyncOK, TheSyncs!Nothing
    <3> QED BY <2>1, <3>1, <1>1, <1>2, <1>4, <1>9 DEF SyncOK
  <2>2. CASE t # s
    <3>1. SyncOK(t) /\ runs[t] \in Nat /\ manager.next[t] \in Nat
      BY <1>1 DEF Managers
    <3>2. /\ runs[t] # 0 => runs[t] \in TheSyncs!Builds
          /\ manager.next[t] # 0 => manager.next[t] \in TheSyncs!Builds
      BY <3>1, <1>1 DEF SyncOK, TheSyncs!Builds
    <3> QED BY <2>2, <3>1, <3>2, <1>1, <1>8, <1>9 DEF SyncOK
  <2> QED BY <2>1, <2>2
<1>13. AskersOK'
  BY <1>1 DEF AskersOK
<1> QED BY <1>1, <1>9, <1>10, <1>11, <1>12, <1>13

(* An end cancels every runner there is; a crash leaves none.               *)
LEMMA EndsStep ==
    ASSUME SyncsInv, TheSyncs!Shutdown \/ TheSyncs!Crashes
    PROVE  SyncsInv'
<1> USE DEF SyncsInv
<1>1. CASE TheSyncs!Shutdown
  <2>1. /\ UNCHANGED <<now, wants, builds, runs, kept, enlisted, shown, asker>>
        /\ manager'.at = "stops" /\ manager' \in Managers /\ \A s \in Syncs : manager'.next[s] = 0
        /\ runner' = [s \in Syncs |-> [m \in TheSyncs!Builds |->
             IF m = runs[s] THEN [runner[s][m] EXCEPT !.cancelled = TRUE] ELSE runner[s][m]]]
        /\ builds \in Nat /\ MaxBuilds \in Nat /\ runs \in [Syncs -> Nat] /\ builds <= MaxBuilds
    BY <1>1, SyncsAssumption DEF TheSyncs!Shutdown, TheSyncs!Off, SyncTypes, Managers
  <2>2. ASSUME NEW s \in Syncs, NEW m \in TheSyncs!Builds
        PROVE  /\ runner'[s][m] \in SyncRunners /\ runner'[s][m].at = runner[s][m].at
               /\ runner'[s][m].last = runner[s][m].last /\ runner'[s][m].started = runner[s][m].started
               /\ runner'[s][m].missed = runner[s][m].missed
    <3>1. PICK o \in SyncRunners : o = runner[s][m]
      BY RunnerFacts
    <3>2. runner'[s][m] = IF m = runs[s] THEN [o EXCEPT !.cancelled = TRUE] ELSE o
      BY <2>1, <3>1
    <3> QED BY <3>1, <3>2 DEF SyncRunners
  <2>3. SyncTypes'
    <3>1. runner' \in [Syncs -> [TheSyncs!Builds -> SyncRunners]]
      <4>1. ASSUME NEW s \in Syncs PROVE runner'[s] \in [TheSyncs!Builds -> SyncRunners]
        <5>1. PICK f : f = [m \in TheSyncs!Builds |->
                IF m = runs[s] THEN [runner[s][m] EXCEPT !.cancelled = TRUE] ELSE runner[s][m]]
          OBVIOUS
        <5>2. runner'[s] = f
          BY <2>1, <5>1
        <5> QED BY <2>2, <5>1, <5>2
      <4> QED BY <2>1, <4>1
    <3> QED BY <2>1, <3>1 DEF SyncTypes
  <2>4. ASSUME NEW s \in Syncs, NEW m \in TheSyncs!Builds PROVE RunnerOK(s, m)'
    BY <2>1, <2>2 DEF RunnerOK
  <2>5. ASSUME NEW s \in Syncs PROVE SyncOK(s)'
    <3>1. runs[s] \in Nat /\ SyncOK(s) /\ (runs[s] # 0 => runs[s] \in TheSyncs!Builds)
      BY <2>1 DEF SyncOK, TheSyncs!Builds
    <3> QED BY <3>1, <2>1, <2>2 DEF SyncOK
  <2> QED BY <2>1, <2>3, <2>4, <2>5 DEF AskersOK
<1>2. CASE TheSyncs!Crashes
  <2>1. /\ UNCHANGED <<now, wants, builds, kept>> /\ now \in Nat /\ builds \in Nat
        /\ manager' \in Managers /\ manager'.at = "down" /\ \A s \in Syncs : manager'.next[s] = 0
        /\ runs' \in [Syncs -> Nat] /\ enlisted' = runs' /\ \A s \in Syncs : runs'[s] = 0
        /\ shown' \in [Syncs -> Statuses] /\ \A s \in Syncs : shown'[s] = TheSyncs!Nothing
        /\ asker' \in [Askers -> AskerStates] /\ AskersOK'
    BY <1>2, SyncsAssumption DEF TheSyncs!Crashes, TheSyncs!Off, TheSyncs!Nothing, SyncTypes, Managers, Statuses,
          AskerStates, AskersOK
  <2>2. PICK z : z = TheSyncs!NoRunner /\ z \in SyncRunners /\ z.at = "none" /\ z.started = 0
    BY NoRunnerFacts
  <2>3. runner' = [s \in Syncs |-> [m \in TheSyncs!Builds |-> z]]
    BY <1>2, <2>2 DEF TheSyncs!Crashes
  <2>4. SyncTypes'
    BY <2>1, <2>2, <2>3 DEF SyncTypes
  <2>5. ASSUME NEW s \in Syncs, NEW m \in TheSyncs!Builds PROVE RunnerOK(s, m)'
    BY <2>1, <2>2, <2>3 DEF RunnerOK
  <2>6. ASSUME NEW s \in Syncs PROVE SyncOK(s)'
    BY <2>1 DEF SyncOK
  <2> QED BY <2>1, <2>4, <2>5, <2>6
<1> QED BY <1>1, <1>2

(* Every step keeps it.                                                     *)
LEMMA SyncsStep == SyncsInv /\ [TheSyncs!SyncManagerNext]_(TheSyncs!syncManagerVars) => SyncsInv'
<1> SUFFICES ASSUME SyncsInv, [TheSyncs!SyncManagerNext]_(TheSyncs!syncManagerVars) PROVE SyncsInv'
  OBVIOUS
<1>1. ASSUME NEW r \in TheSyncs!Runners,
             TheSyncs!Fires(r) \/ TheSyncs!RunEnds(r) \/ TheSyncs!IsStopped(r) \/ TheSyncs!Cancels(r)
               \/ TheSyncs!Returns(r)
      PROVE  SyncsInv'
  BY <1>1, RunnerSteps
<1>2. ASSUME NEW r \in TheSyncs!Runners, TheSyncs!Keeps(r) PROVE SyncsInv'
  BY <1>2, KeepsStep
<1>3. ASSUME NEW s \in Syncs, TheSyncs!Quits(s) \/ TheSyncs!Forgets(s) \/ TheSyncs!Launches(s) PROVE SyncsInv'
  BY <1>3, TellsStep, ForgetsStep, LaunchesStep
<1>4. CASE TheSyncs!BuildsAll \/ TheSyncs!Compares \/ TheSyncs!Shutdown \/ TheSyncs!Crashes
  BY <1>4, BuildsStep, ComparesStep, EndsStep
<1>5. CASE TheSyncs!NewConfig \/ TheSyncs!Finishes \/ TheSyncs!Passes
  BY <1>5, AsideStep
<1>6. ASSUME NEW q \in Askers, TheSyncs!Looks(q) \/ TheSyncs!Sends(q) \/ \E s \in Syncs : TheSyncs!Asks(q, s)
      PROVE  SyncsInv'
  BY <1>6, TellsStep, AsideStep
<1>7. CASE UNCHANGED TheSyncs!syncManagerVars
  <2>1. UNCHANGED <<now, wants, builds, runs, runner, kept, enlisted, shown, manager, asker>>
    BY <1>7 DEF TheSyncs!syncManagerVars
  <2> QED BY <2>1 DEF SyncsInv, SyncTypes, AskersOK, SyncOK, RunnerOK
<1> QED BY <1>1, <1>2, <1>3, <1>4, <1>5, <1>6, <1>7 DEF TheSyncs!SyncManagerNext

(* What it says: of one sync there is one run.                              *)
LEMMA SyncsInvSays == SyncsInv => TheSyncs!OneRunPerSync
<1> SUFFICES ASSUME SyncsInv, NEW s \in Syncs
             PROVE  /\ \A m, n \in TheSyncs!Builds :
                          TheSyncs!Working(<<s, m>>) /\ TheSyncs!Working(<<s, n>>) => m = n
                    /\ enlisted[s] # 0 => shown[s].started \in {0, runner[s][enlisted[s]].started}
                    /\ manager.at = "idle" => enlisted[s] = runs[s]
                    /\ enlisted[s] = 0 => shown[s] = TheSyncs!Nothing
  BY DEF TheSyncs!OneRunPerSync
<1>1. ASSUME NEW m \in TheSyncs!Builds, TheSyncs!Working(<<s, m>>) PROVE m = runs[s]
  BY <1>1 DEF TheSyncs!Working, TheSyncs!Of, SyncsInv, RunnerOK
<1>2. enlisted = runs /\ SyncOK(s)
  BY DEF SyncsInv
<1> QED BY <1>1, <1>2 DEF SyncOK

(* A runner that waits works only after it has fired.                       *)
LEMMA OnlyFires ==
    ASSUME SyncsInv, [TheSyncs!SyncManagerNext]_(TheSyncs!syncManagerVars), NEW r \in TheSyncs!Runners,
           TheSyncs!Of(r).at = "waits", (TheSyncs!Of(r).at)' = "runs"
    PROVE  TheSyncs!Fires(r)
<1>1. PICK s \in Syncs, n \in TheSyncs!Builds : r = <<s, n>> /\ r[1] = s /\ r[2] = n
  BY OfRunner
<1>2. runner[s][n].at = "waits" /\ runner'[s][n].at = "runs"
  BY <1>1 DEF TheSyncs!Of
<1>3. /\ runner \in [Syncs -> [TheSyncs!Builds -> SyncRunners]] /\ runner[s][n] \in SyncRunners
      /\ builds \in Nat /\ n \in Nat
  BY SyncsAssumption DEF SyncsInv, SyncTypes, TheSyncs!Builds
<1>4. runner' # runner
  BY <1>2
<1>5. ASSUME NEW q \in TheSyncs!Runners, NEW z, TheSyncs!Becomes(q, z), z.at # "runs" \/ q # r
      PROVE  FALSE
  <2>1. PICK t \in Syncs, m \in TheSyncs!Builds : q = <<t, m>> /\ q[1] = t /\ q[2] = m
    BY OfRunner
  <2>2. runner' = [runner EXCEPT ![t][m] = z]
    BY <1>5, <2>1 DEF TheSyncs!Becomes
  <2>3. CASE t = s /\ m = n
    <3>1. runner'[s][n] = z
      BY <2>2, <2>3, <1>3
    <3> QED BY <1>1, <1>2, <1>5, <2>1, <2>3, <3>1
  <2>4. CASE ~(t = s /\ m = n)
    <3>1. runner'[s][n] = runner[s][n]
      BY <2>2, <2>4, <1>3
    <3> QED BY <1>2, <3>1
  <2> QED BY <2>3, <2>4
<1>6. ASSUME NEW q \in TheSyncs!Runners PROVE TheSyncs!Of(q) \in SyncRunners
  BY OfRunner, RunnerFacts DEF TheSyncs!Of
<1>7. ASSUME NEW q \in TheSyncs!Runners, TheSyncs!Fires(q) PROVE TheSyncs!Fires(r)
  <2>1. CASE q = r
    BY <1>7, <2>1
  <2>2. CASE q # r
    BY <1>5, <1>7, <2>2 DEF TheSyncs!Fires
  <2> QED BY <2>1, <2>2
<1>8. ASSUME NEW q \in TheSyncs!Runners,
             \/ TheSyncs!RunEnds(q) \/ TheSyncs!IsStopped(q) \/ TheSyncs!Cancels(q) \/ TheSyncs!Returns(q)
             \/ \E p \in Askers : TheSyncs!Sends(p) /\ asker[p].runner = q
             \/ \E t \in Syncs : TheSyncs!Quits(t) /\ TheSyncs!Old(t) = q
      PROVE  FALSE
  <2>1. PICK o \in SyncRunners : o = TheSyncs!Of(q)
    BY <1>6
  <2>2. q = r => o.at = "waits"
    BY <2>1
  <2>3. \/ TheSyncs!Becomes(q, [o EXCEPT !.at = "keeps", !.busy = FALSE])
        \/ TheSyncs!Becomes(q, [o EXCEPT !.at = "waits"])
        \/ TheSyncs!Becomes(q, [o EXCEPT !.cancelled = TRUE])
        \/ TheSyncs!Becomes(q, [o EXCEPT !.at = "done"])
        \/ TheSyncs!Becomes(q, [o EXCEPT !.asked = TRUE])
        \/ TheSyncs!Becomes(q, [o EXCEPT !.quit = TRUE])
    BY <1>8, <2>1 DEF TheSyncs!RunEnds, TheSyncs!IsStopped, TheSyncs!Cancels, TheSyncs!Returns, TheSyncs!Sends,
          TheSyncs!Quits
  <2>4. PICK z : /\ TheSyncs!Becomes(q, z)
                 /\ z \in {[o EXCEPT !.at = "keeps", !.busy = FALSE], [o EXCEPT !.at = "waits"],
                           [o EXCEPT !.cancelled = TRUE], [o EXCEPT !.at = "done"], [o EXCEPT !.asked = TRUE],
                           [o EXCEPT !.quit = TRUE]}
    BY <2>3
  <2>5. z.at \in {"keeps", "waits", "done", o.at}
    BY <2>4 DEF SyncRunners
  <2> QED BY <1>5, <2>2, <2>4, <2>5
<1>9. ASSUME NEW q \in TheSyncs!Runners, TheSyncs!Keeps(q) PROVE FALSE
  <2>1. PICK t \in Syncs, m \in TheSyncs!Builds : q = <<t, m>> /\ q[1] = t /\ q[2] = m
    BY OfRunner
  <2>2. runner' = [runner EXCEPT ![t] = [k \in TheSyncs!Builds |->
            IF k = m THEN [runner[t][k] EXCEPT !.at = "waits"]
            ELSE [runner[t][k] EXCEPT !.missed = runner[t][k].missed \/ runner[t][k].at = "built"]]]
    BY <1>9, <2>1 DEF TheSyncs!Keeps
  <2>3. CASE t = s
    <3>1. runner'[s][n] = IF n = m THEN [runner[s][n] EXCEPT !.at = "waits"]
            ELSE [runner[s][n] EXCEPT !.missed = runner[s][n].missed \/ runner[s][n].at = "built"]
      BY <2>2, <2>3, <1>3
    <3> QED BY <3>1, <1>2, <1>3 DEF SyncRunners
  <2>4. CASE t # s
    BY <2>2, <2>4, <1>2, <1>3
  <2> QED BY <2>3, <2>4
<1>10. ASSUME NEW t \in Syncs, TheSyncs!Launches(t) PROVE FALSE
  <2>1. PICK m : m = manager.next[t]
    OBVIOUS
  <2>2. runner' = [runner EXCEPT ![t][m].at = "waits"]
    BY <1>10, <2>1 DEF TheSyncs!Launches
  <2>3. CASE t = s /\ m = n
    <3>1. runner'[s][n] = [runner[s][n] EXCEPT !.at = "waits"]
      BY <2>2, <2>3, <1>3
    <3> QED BY <3>1, <1>2, <1>3 DEF SyncRunners
  <2>4. CASE ~(t = s /\ m = n)
    <3>1. runner'[s][n] = runner[s][n]
      BY <2>2, <2>4, <1>3
    <3> QED BY <1>2, <3>1
  <2> QED BY <2>3, <2>4
<1>11. CASE TheSyncs!BuildsAll
  <2>1. runner' = TheSyncs!Built
    BY <1>11 DEF TheSyncs!BuildsAll
  <2>2. CASE n = builds + 1
    <3>1. runner'[s][n] = IF TheSyncs!Wanted(s)
              THEN [TheSyncs!NoRunner EXCEPT !.at = "built", !.job = wants[s], !.last = TheSyncs!LastRun(s)]
              ELSE TheSyncs!NoRunner
      BY <2>1, <2>2, <1>3 DEF TheSyncs!Built
    <3> QED BY <3>1, <1>2 DEF TheSyncs!NoRunner
  <2>3. CASE n # builds + 1
    <3>1. runner'[s][n] = runner[s][n]
      BY <2>1, <2>3, <1>3 DEF TheSyncs!Built
    <3> QED BY <1>2, <3>1
  <2> QED BY <2>2, <2>3
<1>12. CASE TheSyncs!Compares
  <2>1. runner'[s] = IF TheSyncs!SameJob(s) THEN [runner[s] EXCEPT ![builds] = TheSyncs!NoRunner] ELSE runner[s]
    BY <1>12 DEF TheSyncs!Compares
  <2>2. runner'[s][n] \in {runner[s][n], TheSyncs!NoRunner}
    BY <2>1, <1>3
  <2> QED BY <2>2, <1>2, NoRunnerFacts
<1>13. CASE TheSyncs!Shutdown
  <2>1. runner'[s][n] = IF n = runs[s] THEN [runner[s][n] EXCEPT !.cancelled = TRUE] ELSE runner[s][n]
    BY <1>13 DEF TheSyncs!Shutdown
  <2> QED BY <2>1, <1>2, <1>3 DEF SyncRunners
<1>14. CASE TheSyncs!Crashes
  <2>1. runner'[s][n] = TheSyncs!NoRunner
    BY <1>14 DEF TheSyncs!Crashes
  <2> QED BY <2>1, <1>2, NoRunnerFacts
<1>15. ASSUME NEW p \in Askers, TheSyncs!Sends(p) PROVE asker[p].runner \in TheSyncs!Runners
  BY <1>15 DEF TheSyncs!Sends, SyncsInv, AskersOK
<1>16. ASSUME NEW t \in Syncs, TheSyncs!Quits(t) PROVE TheSyncs!Old(t) \in TheSyncs!Runners
  <2>1. runs[t] # 0 /\ runs[t] \in Nat /\ runs[t] <= builds /\ builds <= MaxBuilds /\ MaxBuilds \in Nat
    BY <1>16, SyncsAssumption DEF TheSyncs!Quits, TheSyncs!Leaves, SyncsInv, SyncTypes, SyncOK
  <2>2. runs[t] \in TheSyncs!Builds
    BY <2>1, <1>3 DEF TheSyncs!Builds
  <2> QED BY <2>2 DEF TheSyncs!Old, TheSyncs!Runners
<1>17. ~(UNCHANGED TheSyncs!syncManagerVars)
  BY <1>4 DEF TheSyncs!syncManagerVars
<1>18. ASSUME NEW t \in Syncs, TheSyncs!Forgets(t) PROVE FALSE
  BY <1>4, <1>18 DEF TheSyncs!Forgets
<1>19. ASSUME NEW q \in Askers, TheSyncs!Looks(q) \/ \E t \in Syncs : TheSyncs!Asks(q, t) PROVE FALSE
  BY <1>4, <1>19 DEF TheSyncs!Looks, TheSyncs!Asks
<1>20. ~(TheSyncs!NewConfig \/ TheSyncs!Finishes \/ TheSyncs!Passes)
  BY <1>4 DEF TheSyncs!NewConfig, TheSyncs!Finishes, TheSyncs!Passes
<1>21. ASSUME NEW t \in Syncs, TheSyncs!Quits(t) PROVE FALSE
  BY <1>8, <1>16, <1>21
<1>22. ASSUME NEW p \in Askers, TheSyncs!Sends(p) PROVE FALSE
  BY <1>8, <1>15, <1>22
<1>23. ASSUME NEW q \in TheSyncs!Runners,
              TheSyncs!RunEnds(q) \/ TheSyncs!IsStopped(q) \/ TheSyncs!Cancels(q) \/ TheSyncs!Returns(q)
       PROVE  FALSE
  BY <1>8, <1>23
<1>24. TheSyncs!SyncManagerNext
  BY <1>17
<1> QED BY <1>7, <1>9, <1>10, <1>11, <1>12, <1>13, <1>14, <1>18, <1>19, <1>20, <1>21, <1>22, <1>23, <1>24
        DEF TheSyncs!SyncManagerNext

(* Nobody asked, so it was due, and it knows when the last run was.         *)
LEMMA FiresWhenDue ==
    ASSUME SyncsInv, [TheSyncs!SyncManagerNext]_(TheSyncs!syncManagerVars), NEW r \in TheSyncs!Runners,
           TheSyncs!Of(r).at = "waits", (TheSyncs!Of(r).at)' = "runs", ~TheSyncs!Of(r).asked, ~TheSyncs!Of(r).missed,
           kept[r[1]] # 0
    PROVE  now >= kept[r[1]] + Every
<1>1. PICK s \in Syncs, n \in TheSyncs!Builds : r = <<s, n>> /\ r[1] = s /\ r[2] = n
  BY OfRunner
<1>2. PICK o \in SyncRunners : o = runner[s][n] /\ o = TheSyncs!Of(r)
  BY <1>1, RunnerFacts DEF TheSyncs!Of
<1>3. TheSyncs!Due(r)
  BY OnlyFires DEF TheSyncs!Fires
<1>4. kept[s] <= o.last /\ kept[s] \in Nat /\ o.last \in Nat /\ now \in Nat /\ Every \in Nat
  <2>1. RunnerOK(s, n) /\ kept[s] \in Nat /\ now \in Nat
    BY RunnerFacts
  <2> QED BY <1>2, <2>1, SyncsAssumption DEF RunnerOK, SyncRunners
<1>5. o.last = 0 \/ now >= o.last + Every
  BY <1>2, <1>3 DEF TheSyncs!Due
<1> QED BY <1>1, <1>4, <1>5

(* Of one sync there is one run, whatever is reloaded, asked for and cut    *)
(* short, and what is shown is its status; and no run that nobody asked for *)
(* begins before the interval since the last that was kept is over, through *)
(* reloads, ends and crashes.                                               *)
THEOREM SyncsDoTakeTurns == TheSyncs!SyncManagerSpec => SyncsTakeTurns
<1>1. TheSyncs!SyncManagerSpec => []SyncsInv
  BY SyncsInit, SyncsStep, PTL DEF TheSyncs!SyncManagerSpec
<1>2. SyncsInv /\ [TheSyncs!SyncManagerNext]_(TheSyncs!syncManagerVars) =>
        [\A r \in TheSyncs!Runners :
           TheSyncs!Of(r).at = "waits" /\ TheSyncs!Of(r)'.at = "runs" /\ ~TheSyncs!Of(r).asked
             /\ ~TheSyncs!Of(r).missed /\ kept[r[1]] # 0
             => now >= kept[r[1]] + Every]_(TheSyncs!syncManagerVars)
  BY FiresWhenDue
<1> QED BY <1>1, <1>2, SyncsInvSays, PTL DEF TheSyncs!SyncManagerSpec, SyncsTakeTurns, TheSyncs!SyncsTakeTurns,
             TheSyncs!RunsWhenDue

-----------------------------------------------------------------------------
(* The configuration file.  A save that has read the file holds the saves;  *)
(* what it will write differs from what the file says, beside its own, only *)
(* where somebody else changed it than a save; and whoever was not          *)
(* disturbed since he kept the file will replace what is in the backup.     *)
Contents == [TheFile!Keys -> Nat]
Backups == [says : Contents, parses : BOOLEAN, whole : BOOLEAN]
Kinds == TheFile!Saves \union {"apply"}
Requests ==
    [at : {"away", "open", "refused", "done", "checked", "keeps", "kept"}, kind : Kinds, page : Contents,
     new : Contents, previous : Backups, blind : BOOLEAN, disturbed : BOOLEAN]
Starts ==
    [at : {"loads", "migrates", "keeps", "renames", "ensures", "stores", "serving"}, data : Contents,
     missing : BOOLEAN]
Authors == {"nobody", "hand", "save", "apply", "undone", "start"}

FileTypes ==
    /\ text \in BOOLEAN /\ content \in Contents /\ author \in [TheFile!Keys -> Authors] /\ backup \in Backups
    /\ editor \in [Admins -> Requests] /\ saving \in Nat /\ start \in Starts
    /\ hands \in Nat /\ crashes \in Nat

Copying(e) == editor[e].at \in {"keeps", "kept"}
Saving(e) == TheFile!Writing(e) /\ editor[e].kind # "apply"

HoldsTheSaves(e) ==
    /\ TheFile!Writing(e) => start.at = "serving"
    /\ Saving(e) => saving = e
WillUndoNoSave(e) ==
    Saving(e) => \A k \in TheFile!Keys \ (TheFile!Own(editor[e].kind) \union {"folders"}) :
                    editor[e].new[k] = content[k] \/ author[k] # "save"
WillKeepTheHidden(e) ==
    TheFile!Writing(e) /\ editor[e].kind = "apply" /\ ~editor[e].blind =>
        editor[e].new["hidden"] = content["hidden"] \/ author["hidden"] # "nobody"
HasKept(e) ==
    Copying(e) /\ ~editor[e].disturbed =>
        editor[e].previous = TheFile!Whole /\ (editor[e].at = "kept" => backup = TheFile!Whole)
RequestOK(e) == HoldsTheSaves(e) /\ WillUndoNoSave(e) /\ WillKeepTheHidden(e) /\ HasKept(e)

BesideEachOther ==
    \A e, o \in Admins : e # o /\ Copying(e) /\ Copying(o) => editor[e].disturbed

ByHandOnly(keys) == \A k \in TheFile!Keys \ keys : start.data[k] = content[k] \/ author[k] = "hand"
StartOK ==
    /\ start.at \in {"keeps", "renames"} => ByHandOnly({"folders"})
    /\ start.at = "stores" => ByHandOnly({"secret"})

FileInv ==
    /\ FileTypes /\ StartOK /\ author["hidden"] # "save" /\ BesideEachOther
    /\ \A e \in Admins : RequestOK(e)

LEMMA KeysAre ==
    TheFile!Keys = {"name", "syncOf", "sync", "repository", "settings", "hidden", "secret", "folders"}
  BY DEF TheFile!Keys

LEMMA FileInit == TheFile!ConfigInit => FileInv
<1> SUFFICES ASSUME TheFile!ConfigInit PROVE FileInv
  OBVIOUS
<1> USE DEF TheFile!ConfigInit
<1>1. content \in Contents
  BY DEF Contents
<1>2. TheFile!Whole \in Backups
  BY <1>1 DEF TheFile!Whole, Backups
<1>3. TheFile!NoRequest \in Requests /\ TheFile!NoRequest.at = "away"
  BY <1>1, <1>2 DEF TheFile!NoRequest, Requests, Kinds
<1>4. FileTypes
  BY <1>1, <1>2, <1>3 DEF FileTypes, Starts, Authors
<1>5. \A e \in Admins : editor[e].at = "away"
  BY <1>3
<1> QED BY <1>4, <1>5, KeysAre DEF FileInv, StartOK, BesideEachOther, RequestOK, HoldsTheSaves, WillUndoNoSave, WillKeepTheHidden, HasKept,
             Saving, Copying, TheFile!Writing

(* Who replaces the content is the author of what is another then.          *)
LEMMA ReplacesFacts ==
    ASSUME FileInv, NEW new, NEW who, TheFile!Replaces(new, who), new \in Contents, who \in Authors, who \notin {"nobody", "save"}
    PROVE  /\ text' \in BOOLEAN /\ content' = new /\ content' \in Contents
           /\ author' \in [TheFile!Keys -> Authors] /\ author'["hidden"] # "save"
           /\ \A k \in TheFile!Keys : \/ content'[k] = content[k] /\ author'[k] = author[k]
                                      \/ author'[k] = who
  BY KeysAre DEF TheFile!Replaces, FileInv, FileTypes

LEMMA RequestFacts ==
    ASSUME FileInv, NEW e \in Admins
    PROVE  /\ editor[e] \in Requests /\ editor[e].page \in Contents
           /\ editor[e].new \in Contents /\ editor[e].previous \in Backups /\ editor[e].kind \in Kinds
           /\ TheFile!Whole \in Backups /\ e \in Nat /\ e # 0 /\ RequestOK(e)
  BY AdminsAssumption DEF FileInv, FileTypes, Requests, TheFile!Whole, Backups

LEMMA AnsweredFacts ==
    ASSUME FileInv, NEW e \in Admins, NEW where \in {"refused", "done"}
    PROVE  /\ TheFile!Answered(e, where) \in Requests /\ TheFile!Answered(e, where).at = where
  BY RequestFacts DEF TheFile!Answered, TheFile!NoRequest, FileInv, FileTypes, Requests, Kinds

(* One request becomes y, which writes nothing yet or no more; the backup   *)
(* may have been torn while it was written.                                 *)
LEMMA OneRequestStep ==
    ASSUME FileInv, NEW e \in Admins, NEW y \in Requests, editor' = [editor EXCEPT ![e] = y],
           UNCHANGED <<text, content, author, start, hands, crashes>>,
           y.at \notin {"keeps", "kept"}, backup' \in Backups, backup' = backup \/ Copying(e),
           saving' = saving \/ (saving = 0 /\ saving' = e) \/ (saving = e /\ saving' = 0),
           saving = e /\ saving' = 0 => y.at # "checked",
           y.at = "checked" => start.at = "serving",
           y.at = "checked" /\ y.kind # "apply" =>
              /\ saving' = e
              /\ \A k \in TheFile!Keys \ (TheFile!Own(y.kind) \union {"folders"}) : y.new[k] = content[k],
           y.at = "checked" /\ y.kind = "apply" /\ ~y.blind => y.new["hidden"] = content["hidden"]
    PROVE  FileInv'
<1>1. /\ editor' \in [Admins -> Requests] /\ editor'[e] = y
      /\ \A o \in Admins \ {e} : editor'[o] = editor[o]
  BY DEF FileInv, FileTypes
<1>2. FileTypes'
  BY <1>1, RequestFacts DEF FileInv, FileTypes
<1>3. StartOK' /\ author'["hidden"] # "save"
  BY DEF FileInv, StartOK, ByHandOnly
<1>4. BesideEachOther'
  BY <1>1 DEF FileInv, BesideEachOther, Copying
<1>5. ASSUME NEW o \in Admins PROVE RequestOK(o)'
  <2>1. CASE o = e
    BY <2>1, <1>1 DEF RequestOK, HoldsTheSaves, WillUndoNoSave, WillKeepTheHidden, HasKept, Saving, Copying, TheFile!Writing
  <2>2. CASE o # e
    <3>1. RequestOK(o) /\ o # 0 /\ e # 0
      BY RequestFacts
    <3>2. HoldsTheSaves(o)' /\ WillUndoNoSave(o)' /\ WillKeepTheHidden(o)'
      BY <2>2, <1>1, <3>1 DEF RequestOK, HoldsTheSaves, WillUndoNoSave, WillKeepTheHidden, Saving, TheFile!Writing
    <3>3. HasKept(o)'
      <4>1. Copying(o) /\ ~editor[o].disturbed => ~Copying(e)
        BY <2>2 DEF FileInv, BesideEachOther
      <4> QED BY <2>2, <1>1, <3>1, <4>1 DEF RequestOK, HasKept, Copying, TheFile!Whole
    <3> QED BY <3>2, <3>3 DEF RequestOK
  <2> QED BY <2>1, <2>2
<1> QED BY <1>2, <1>3, <1>4, <1>5 DEF FileInv

LEMMA TornFacts ==
    ASSUME FileInv, NEW written \in BOOLEAN, TheFile!TornWhile(written)
    PROVE  backup' \in Backups /\ (backup' = backup \/ written)
  BY DEF TheFile!TornWhile, FileInv, FileTypes, Backups

LEMMA SavedFacts ==
    ASSUME FileInv, NEW e \in Admins, NEW kind \in TheFile!Saves
    PROVE  /\ TheFile!Saved(kind, e) \in Contents
           /\ \A k \in TheFile!Keys \ TheFile!Own(kind) : TheFile!Saved(kind, e)[k] = content[k]
<1>1. content \in Contents /\ editor[e].page \in Contents /\ e \in Nat
  BY RequestFacts DEF FileInv, FileTypes
<1>2. CASE kind = "server"
  BY <1>1, <1>2, KeysAre DEF TheFile!Saved, TheFile!Own, TheFile!ServerSaved, Contents
<1>3. CASE kind = "sync"
  BY <1>1, <1>3, KeysAre DEF TheFile!Saved, TheFile!Own, TheFile!SyncSaved, Contents
<1>4. CASE kind = "repository"
  BY <1>1, <1>4, KeysAre DEF TheFile!Saved, TheFile!Own, TheFile!RepositorySaved, Contents
<1> QED BY <1>2, <1>3, <1>4 DEF TheFile!Saves

(* A page is loaded, an edit is checked, or fails.                          *)
LEMMA PageSteps ==
    ASSUME FileInv, NEW e \in Admins,
           \/ TheFile!LoadsThePage(e) \/ TheFile!ReadsToApply(e) \/ TheFile!Fails(e)
           \/ \E kind \in TheFile!Saves : TheFile!ReadsToSave(e, kind)
    PROVE  FileInv'
<1>1. /\ editor[e] \in Requests /\ e \in Nat /\ e # 0 /\ RequestOK(e) /\ content \in Contents /\ backup \in Backups
      /\ editor[e].page \in Contents /\ saving \in Nat
  BY RequestFacts DEF FileInv, FileTypes
<1>2. CASE TheFile!LoadsThePage(e)
  <2>1. PICK y : y = [editor[e] EXCEPT !.at = "open", !.page = content]
    OBVIOUS
  <2>2. y \in Requests /\ y.at = "open"
    BY <1>1, <2>1 DEF Requests
  <2>3. /\ editor' = [editor EXCEPT ![e] = y]
        /\ UNCHANGED <<text, content, author, start, hands, crashes, backup, saving>>
    BY <1>2, <2>1 DEF TheFile!LoadsThePage, TheFile!Becomes
  <2> QED BY <1>1, <2>2, <2>3, OneRequestStep
<1>3. ASSUME UNCHANGED <<text, content, author, start, hands, crashes>>, NEW where \in {"refused", "done"},
             TheFile!Becomes(e, TheFile!Answered(e, where)), backup' \in Backups, backup' = backup \/ Copying(e),
             saving' = saving \/ (saving = e /\ saving' = 0)
      PROVE  FileInv'
  <2>1. PICK y : y = TheFile!Answered(e, where)
    OBVIOUS
  <2>2. editor' = [editor EXCEPT ![e] = y] /\ y \in Requests /\ y.at = where
    BY <1>3, <2>1, AnsweredFacts DEF TheFile!Becomes
  <2> QED BY <1>1, <1>3, <2>2, OneRequestStep
<1>4. CASE TheFile!ReadsToApply(e)
  <2>1. PICK new : new = [editor[e].page EXCEPT !["settings"] = e, !["hidden"] = TheFile!NotShown,
                   !["folders"] = IF @ = TheFile!Unset THEN TheFile!Generated ELSE @]
    OBVIOUS
  <2>2. TheFile!NotShown \in Nat
    BY <1>1, KeysAre DEF TheFile!NotShown, TheFile!Gone, Contents
  <2>3. new \in Contents
    BY <1>1, <2>1, <2>2, KeysAre DEF Contents, TheFile!Generated
  <2>4. PICK y : y = [editor[e] EXCEPT !.at = "checked", !.kind = "apply", !.new = new, !.blind = ~text]
    OBVIOUS
  <2>5. y \in Requests /\ y.at = "checked" /\ y.kind = "apply" /\ (~y.blind => y.new["hidden"] = content["hidden"])
    <3>1. new["hidden"] = TheFile!NotShown
      BY <1>1, <2>1, KeysAre DEF Contents
    <3>2. y \in Requests /\ y.at = "checked" /\ y.kind = "apply" /\ y.new = new /\ y.blind = ~text
      BY <1>1, <2>3, <2>4 DEF Requests, Kinds
    <3> QED BY <3>1, <3>2 DEF TheFile!NotShown
  <2>6. /\ UNCHANGED <<text, content, author, start, hands, crashes, backup, saving>> /\ start.at = "serving"
        /\ TheFile!Becomes(e, y) \/ TheFile!Becomes(e, TheFile!Answered(e, "refused"))
    BY <1>4, <2>1, <2>4 DEF TheFile!ReadsToApply, TheFile!Of, TheFile!Serving
  <2>7. CASE TheFile!Becomes(e, y)
    <3>1. editor' = [editor EXCEPT ![e] = y]
      BY <2>7 DEF TheFile!Becomes
    <3>2. ~(saving = e /\ saving' = 0)
      BY <1>1, <2>6
    <3> QED BY <1>1, <2>5, <2>6, <3>1, <3>2, OneRequestStep
  <2> QED BY <1>1, <1>3, <2>6, <2>7
<1>5. ASSUME NEW kind \in TheFile!Saves, TheFile!ReadsToSave(e, kind) PROVE FileInv'
  <2>1. PICK saved : saved = TheFile!Saved(kind, e)
    OBVIOUS
  <2>2. PICK new : new = [saved EXCEPT !["folders"] = IF @ = TheFile!Unset THEN TheFile!Generated ELSE @]
    OBVIOUS
  <2>3. saved \in Contents /\ \A k \in TheFile!Keys \ TheFile!Own(kind) : saved[k] = content[k]
    BY <2>1, SavedFacts
  <2>4. new \in Contents /\ \A k \in TheFile!Keys \ (TheFile!Own(kind) \union {"folders"}) : new[k] = content[k]
    BY <2>2, <2>3, KeysAre DEF Contents, TheFile!Generated
  <2>5. PICK y : y = [editor[e] EXCEPT !.at = "checked", !.kind = kind, !.new = new]
    OBVIOUS
  <2>6. y \in Requests /\ y.at = "checked" /\ y.kind = kind /\ y.new = new /\ kind # "apply"
    BY <1>1, <2>4, <2>5 DEF Requests, Kinds, TheFile!Saves
  <2>7. /\ UNCHANGED <<text, content, author, start, hands, crashes, backup>> /\ start.at = "serving"
        /\ \/ TheFile!Becomes(e, y) /\ saving' = e /\ saving = 0
           \/ TheFile!Becomes(e, TheFile!Answered(e, "refused")) /\ saving' = saving
    BY <1>5, <2>1, <2>2, <2>5 DEF TheFile!ReadsToSave, TheFile!Of, TheFile!Serving, TheFile!NobodySaves
  <2>8. CASE TheFile!Becomes(e, y) /\ saving' = e /\ saving = 0
    <3>1. editor' = [editor EXCEPT ![e] = y]
      BY <2>8 DEF TheFile!Becomes
    <3> QED BY <1>1, <2>4, <2>6, <2>7, <2>8, <3>1, OneRequestStep
  <2> QED BY <1>1, <1>3, <2>7, <2>8
<1>6. CASE TheFile!Fails(e)
  <2>1. backup' \in Backups /\ (backup' = backup \/ Copying(e))
    BY <1>6, TornFacts DEF TheFile!Fails, Copying
  <2>2. saving' = saving \/ (saving = e /\ saving' = 0)
    BY <1>6 DEF TheFile!Fails, TheFile!Released
  <2> QED BY <1>3, <1>6, <2>1, <2>2 DEF TheFile!Fails
<1> QED BY <1>2, <1>4, <1>5, <1>6

(* A step of write: whoever else has kept the file is disturbed.            *)
LEMMA BesideFacts ==
    ASSUME FileInv, NEW e \in Admins, TheFile!Writing(e)
    PROVE  /\ TheFile!Disturbed(TheFile!Beside(e)) \in [Admins -> Requests]
           /\ TheFile!Disturbed(TheFile!Beside(e))[e] = editor[e]
           /\ \A o \in Admins \ {e} :
                 TheFile!Disturbed(TheFile!Beside(e))[o] =
                    IF Copying(o) THEN [editor[o] EXCEPT !.disturbed = TRUE] ELSE editor[o]
<1>1. ASSUME NEW o \in Admins \ {e}, Copying(o) PROVE o \in TheFile!Beside(e)
  <2>1. TheFile!Writing(o)
    BY <1>1 DEF Copying, TheFile!Writing
  <2>2. ~(Saving(e) /\ Saving(o))
    BY RequestFacts DEF RequestOK, HoldsTheSaves
  <2> QED BY <2>1, <2>2 DEF Saving, TheFile!Beside
<1>2. e \notin TheFile!Beside(e)
  BY DEF TheFile!Beside
<1>3. editor \in [Admins -> Requests]
  BY DEF FileInv, FileTypes
<1>4. \A o \in Admins : [editor[o] EXCEPT !.disturbed = TRUE] \in Requests
  BY <1>3 DEF Requests
<1> QED BY <1>1, <1>2, <1>3, <1>4 DEF TheFile!Disturbed, Copying

(* One request of those that write becomes y, and who has kept the file is  *)
(* disturbed.                                                               *)
LEMMA WriteStep ==
    ASSUME FileInv, NEW e \in Admins, TheFile!Writing(e), NEW y \in Requests,
           editor' \in [Admins -> Requests], editor'[e] = y,
           \A o \in Admins \ {e} : editor'[o] = TheFile!Disturbed(TheFile!Beside(e))[o],
           UNCHANGED <<start, hands, crashes>>,
           text' \in BOOLEAN, content' \in Contents, author' \in [TheFile!Keys -> Authors], backup' \in Backups,
           author'["hidden"] # "save", start.at = "serving",
           saving' = saving \/ (saving = e /\ saving' = 0),
           \A o \in Admins \ {e}, k \in TheFile!Keys :
              Saving(o) => \/ content'[k] = content[k] /\ author'[k] = author[k]
                          \/ author'[k] # "save",
           \/ content'["hidden"] = content["hidden"] /\ author'["hidden"] = author["hidden"]
           \/ author'["hidden"] # "nobody",
           RequestOK(e)',
           y.at \in {"keeps", "kept"} => y.disturbed \/ \A o \in Admins \ {e} : ~Copying(o)
    PROVE  FileInv'
<1>1. ASSUME NEW o \in Admins \ {e}
      PROVE  /\ editor'[o].at = editor[o].at /\ editor'[o].kind = editor[o].kind /\ editor'[o].new = editor[o].new
             /\ (Copying(o) => editor'[o].disturbed) /\ editor'[o].blind = editor[o].blind
  <2>1. editor'[o] = IF Copying(o) THEN [editor[o] EXCEPT !.disturbed = TRUE] ELSE editor[o]
    BY BesideFacts
  <2>2. editor[o] \in Requests
    BY RequestFacts
  <2> QED BY <2>1, <2>2 DEF Requests
<1>2. FileTypes'
  BY RequestFacts DEF FileInv, FileTypes
<1>3. StartOK'
  BY DEF StartOK
<1>4. BesideEachOther'
  BY <1>1 DEF BesideEachOther, Copying
<1>5. ASSUME NEW o \in Admins \ {e} PROVE RequestOK(o)'
  <2>1. RequestOK(o) /\ o # 0 /\ e # 0
    BY RequestFacts
  <2>2. HoldsTheSaves(o)'
    BY <1>1, <2>1 DEF RequestOK, HoldsTheSaves, Saving, TheFile!Writing
  <2>3. WillUndoNoSave(o)'
    BY <1>1, <2>1 DEF RequestOK, WillUndoNoSave, Saving, TheFile!Writing
  <2>4. WillKeepTheHidden(o)'
    BY <1>1, <2>1 DEF RequestOK, WillKeepTheHidden, TheFile!Writing
  <2>5. HasKept(o)'
    BY <1>1 DEF HasKept, Copying
  <2> QED BY <2>2, <2>3, <2>4, <2>5 DEF RequestOK
<1> QED BY <1>2, <1>3, <1>4, <1>5 DEF FileInv

LEMMA WriteSteps ==
    ASSUME FileInv, NEW e \in Admins,
           TheFile!ReadsThePrevious(e) \/ TheFile!WritesTheBackup(e) \/ TheFile!Places(e)
    PROVE  FileInv'
<1>1. PICK o \in Requests : o = editor[e]
  BY RequestFacts
<1>2. PICK others \in [Admins -> Requests] : others = TheFile!Disturbed(TheFile!Beside(e)) /\ others[e] = o
  <2>1. TheFile!Writing(e)
    BY DEF TheFile!ReadsThePrevious, TheFile!WritesTheBackup, TheFile!Places, TheFile!Of, TheFile!Writing
  <2> QED BY <1>1, <2>1, BesideFacts
<1>3. /\ start.at = "serving" /\ TheFile!Writing(e) /\ RequestOK(e) /\ e # 0 /\ e \in Nat /\ TheFile!Whole \in Backups
      /\ FileTypes /\ author["hidden"] # "save" /\ UNCHANGED <<start, hands, crashes>> /\ BesideEachOther
  BY RequestFacts DEF FileInv, TheFile!ReadsThePrevious, TheFile!WritesTheBackup, TheFile!Places, TheFile!Of, TheFile!Serving,
     TheFile!Writing
<1>4. CASE TheFile!ReadsThePrevious(e)
  <2>1. PICK d \in BOOLEAN : d = \E p \in TheFile!Beside(e) : editor[p].at \in {"keeps", "kept"}
    OBVIOUS
  <2>2. PICK y : y = [o EXCEPT !.at = "keeps", !.previous = TheFile!Whole, !.disturbed = d]
    OBVIOUS
  <2>3. /\ y \in Requests /\ y.at = "keeps" /\ y.kind = o.kind /\ y.new = o.new /\ y.blind = o.blind /\ y.previous = TheFile!Whole
        /\ y.disturbed = d
    BY <1>3, <2>2 DEF Requests
  <2>4. editor' = [others EXCEPT ![e] = y] /\ UNCHANGED <<text, content, author, backup, saving>>
    BY <1>2, <1>4, <2>1, <2>2 DEF TheFile!ReadsThePrevious
  <2>5. editor' \in [Admins -> Requests] /\ editor'[e] = y /\ \A p \in Admins \ {e} : editor'[p] = others[p]
    BY <2>3, <2>4
  <2>6. RequestOK(e)'
    BY <1>1, <1>3, <2>3, <2>4, <2>5 DEF RequestOK, HoldsTheSaves, WillUndoNoSave, WillKeepTheHidden, HasKept, Saving, Copying, TheFile!Writing,
       TheFile!Whole
  <2>7. d \/ \A p \in Admins \ {e} : ~Copying(p)
    <3>1. ASSUME NEW p \in Admins \ {e}, Copying(p) PROVE p \in TheFile!Beside(e)
      <4>1. TheFile!Writing(p)
        BY <3>1 DEF Copying, TheFile!Writing
      <4>2. ~(Saving(e) /\ Saving(p))
        BY RequestFacts DEF RequestOK, HoldsTheSaves
      <4> QED BY <1>3, <4>1, <4>2 DEF Saving, TheFile!Beside
    <3> QED BY <2>1, <3>1 DEF Copying
  <2>8. /\ text' \in BOOLEAN /\ content' \in Contents /\ author' \in [TheFile!Keys -> Authors] /\ backup' \in Backups
    BY <1>3, <2>4 DEF FileTypes
  <2> QED BY <1>2, <1>3, <2>3, <2>4, <2>5, <2>6, <2>7, <2>8, WriteStep
<1>5. CASE TheFile!WritesTheBackup(e)
  <2>1. PICK y : y = [o EXCEPT !.at = "kept"]
    OBVIOUS
  <2>2. /\ y \in Requests /\ y.at = "kept" /\ y.kind = o.kind /\ y.new = o.new /\ y.blind = o.blind /\ y.previous = o.previous
        /\ y.disturbed = o.disturbed
    BY <2>1 DEF Requests
  <2>3. /\ editor' = [others EXCEPT ![e] = y] /\ UNCHANGED <<text, content, author, saving>> /\ o.at = "keeps"
        /\ backup' = o.previous
    BY <1>1, <1>2, <1>5, <2>1 DEF TheFile!WritesTheBackup, TheFile!Of
  <2>4. editor' \in [Admins -> Requests] /\ editor'[e] = y /\ \A p \in Admins \ {e} : editor'[p] = others[p]
    BY <2>2, <2>3
  <2>5. RequestOK(e)'
    BY <1>1, <1>3, <2>2, <2>3, <2>4 DEF RequestOK, HoldsTheSaves, WillUndoNoSave, WillKeepTheHidden, HasKept, Saving, Copying, TheFile!Writing,
       TheFile!Whole
  <2>6. y.disturbed \/ \A p \in Admins \ {e} : ~Copying(p)
    BY <1>1, <1>3, <2>2, <2>3 DEF BesideEachOther, Copying
  <2>7. /\ text' \in BOOLEAN /\ content' \in Contents /\ author' \in [TheFile!Keys -> Authors] /\ backup' \in Backups
    BY <1>3, <2>3 DEF FileTypes, Requests
  <2> QED BY <1>2, <1>3, <2>2, <2>3, <2>4, <2>5, <2>6, <2>7, WriteStep
<1>6. CASE TheFile!Places(e)
  <2>1. PICK y : y = TheFile!Answered(e, "done")
    OBVIOUS
  <2>2. y \in Requests /\ y.at = "done"
    BY <2>1, AnsweredFacts
  <2>3. /\ editor' = [others EXCEPT ![e] = y] /\ UNCHANGED backup /\ text' = TRUE /\ content' = o.new
        /\ saving' = TheFile!Released(e)
        /\ author' = [k \in TheFile!Keys |-> IF content'[k] = content[k] THEN author[k]
                              ELSE IF o.kind = "apply" THEN "apply"
                              ELSE IF k \in TheFile!Own(o.kind) THEN "save" ELSE "undone"]
    BY <1>1, <1>2, <1>6, <2>1 DEF TheFile!Places
  <2>4. editor' \in [Admins -> Requests] /\ editor'[e] = y /\ \A p \in Admins \ {e} : editor'[p] = others[p]
    BY <2>2, <2>3
  <2>5. RequestOK(e)'
    BY <2>2, <2>4 DEF RequestOK, HoldsTheSaves, WillUndoNoSave, WillKeepTheHidden, HasKept, Saving, Copying, TheFile!Writing
  <2>6. "hidden" \in TheFile!Keys /\ \A kind \in TheFile!Saves : "hidden" \notin TheFile!Own(kind)
    BY KeysAre DEF TheFile!Saves, TheFile!Own
  <2>7. o.kind \in TheFile!Saves \union {"apply"}
    BY DEF Requests, Kinds
  <2>8. /\ author'["hidden"] # "save"
        /\ \/ content'["hidden"] = content["hidden"] /\ author'["hidden"] = author["hidden"]
           \/ author'["hidden"] # "nobody"
    BY <1>3, <2>3, <2>6, <2>7
  <2>9. /\ text' \in BOOLEAN /\ content' \in Contents /\ author' \in [TheFile!Keys -> Authors] /\ backup' \in Backups
    BY <1>3, <2>3 DEF FileTypes, Requests, Authors
  <2>10. ASSUME NEW p \in Admins \ {e}, NEW k \in TheFile!Keys, Saving(p)
         PROVE  \/ content'[k] = content[k] /\ author'[k] = author[k]
                \/ author'[k] # "save"
    <3>1. ~Saving(e)
      BY <2>10, RequestFacts DEF RequestOK, HoldsTheSaves
    <3>2. o.kind = "apply"
      BY <1>1, <1>3, <3>1 DEF Saving
    <3> QED BY <2>3, <3>2
  <2>11. saving' = saving \/ (saving = e /\ saving' = 0)
    BY <2>3 DEF TheFile!Released
  <2> QED BY <1>2, <1>3, <2>2, <2>4, <2>5, <2>8, <2>9, <2>10, <2>11, WriteStep
<1> QED BY <1>4, <1>5, <1>6

(* Somebody replaces the content who saves nothing: by hand, which disturbs *)
(* whoever has kept the file, or the start, beside which nobody writes.     *)
LEMMA EditsStep ==
    ASSUME FileInv, TheFile!EditsByHand
    PROVE  FileInv'
<1>1. /\ UNCHANGED <<backup, saving, start, crashes>> /\ FileTypes /\ hands' = hands + 1
      /\ editor' = TheFile!Disturbed(Admins)
  BY DEF FileInv, TheFile!EditsByHand
<1>2. /\ text' \in BOOLEAN /\ content' \in Contents /\ author' \in [TheFile!Keys -> Authors]
      /\ author'["hidden"] # "save"
      /\ \A k \in TheFile!Keys : \/ content'[k] = content[k] /\ author'[k] = author[k]
                                 \/ author'[k] = "hand"
  <2>1. CASE text' = FALSE /\ UNCHANGED <<content, author>>
    BY <2>1, <1>1 DEF FileInv, FileTypes
  <2>2. ASSUME NEW new \in Contents, TheFile!Replaces(new, "hand")
        PROVE  /\ text' \in BOOLEAN /\ content' \in Contents /\ author' \in [TheFile!Keys -> Authors]
               /\ author'["hidden"] # "save"
               /\ \A k \in TheFile!Keys : \/ content'[k] = content[k] /\ author'[k] = author[k]
                                          \/ author'[k] = "hand"
    BY <2>2, ReplacesFacts DEF Authors
  <2>3. ASSUME NEW k \in {"name", "settings", "hidden", "secret"}, NEW follow \in BOOLEAN,
               NEW value \in Nat, NEW new,
               new = [content EXCEPT ![k] = value, !["syncOf"] = IF k = "name" /\ follow THEN value ELSE @]
        PROVE  new \in Contents
    BY <2>3, <1>1 DEF FileTypes, Contents
  <2>4. ASSUME NEW k \in {"name", "settings", "hidden", "secret"}
        PROVE  (IF k = "secret" THEN TheFile!Unset ELSE 10 + hands) \in Nat
    BY <1>1 DEF FileTypes, TheFile!Unset
  <2>5. content \in Contents
    BY <1>1 DEF FileTypes
  <2> QED BY <2>1, <2>2, <2>3, <2>4, <2>5 DEF TheFile!EditsByHand
<1>3. ASSUME NEW e \in Admins
      PROVE  /\ editor'[e] = IF Copying(e) THEN [editor[e] EXCEPT !.disturbed = TRUE] ELSE editor[e]
             /\ editor'[e] \in Requests /\ editor'[e].at = editor[e].at /\ editor'[e].kind = editor[e].kind
             /\ editor'[e].new = editor[e].new /\ (Copying(e) => editor'[e].disturbed)
             /\ editor'[e].blind = editor[e].blind
  <2>1. editor'[e] = IF Copying(e) THEN [editor[e] EXCEPT !.disturbed = TRUE] ELSE editor[e]
    BY <1>1 DEF TheFile!Disturbed, Copying
  <2> QED BY <2>1, RequestFacts DEF Requests
<1>4. FileTypes'
  <2>1. editor' \in [Admins -> Requests]
    BY <1>1, <1>3 DEF TheFile!Disturbed
  <2> QED BY <1>1, <1>2, <2>1 DEF FileTypes
<1>5. StartOK'
  BY <1>1, <1>2 DEF FileInv, StartOK, ByHandOnly
<1>6. ASSUME NEW e \in Admins PROVE RequestOK(e)'
  <2>1. RequestOK(e)
    BY RequestFacts
  <2>2. HoldsTheSaves(e)' /\ HasKept(e)'
    BY <1>1, <1>3, <2>1 DEF RequestOK, HoldsTheSaves, HasKept, Saving, Copying, TheFile!Writing
  <2>3. WillUndoNoSave(e)'
    BY <1>2, <1>3, <2>1 DEF RequestOK, WillUndoNoSave, Saving, TheFile!Writing
  <2>4. WillKeepTheHidden(e)'
    BY <1>2, <1>3, <2>1, KeysAre DEF RequestOK, WillKeepTheHidden, TheFile!Writing
  <2> QED BY <2>2, <2>3, <2>4 DEF RequestOK
<1>7. BesideEachOther'
  BY <1>3 DEF BesideEachOther, Copying
<1> QED BY <1>2, <1>4, <1>5, <1>6, <1>7 DEF FileInv

(* While the server starts, nobody writes beside it but by hand.            *)
LEMMA StartStep ==
    ASSUME FileInv, start.at # "serving", UNCHANGED <<editor, saving, hands, crashes>>, start' \in Starts,
           text' \in BOOLEAN, content' \in Contents, author' \in [TheFile!Keys -> Authors], backup' \in Backups,
           author'["hidden"] # "save", StartOK'
    PROVE  FileInv'
<1>1. \A e \in Admins : ~TheFile!Writing(e) /\ ~Copying(e) /\ ~Saving(e)
  BY RequestFacts DEF RequestOK, HoldsTheSaves, TheFile!Writing, Copying, Saving
<1>2. FileTypes'
  BY DEF FileInv, FileTypes
<1>3. \A e \in Admins : RequestOK(e)'
  BY <1>1 DEF RequestOK, HoldsTheSaves, WillUndoNoSave, WillKeepTheHidden, HasKept, TheFile!Writing, Copying, Saving
<1>4. BesideEachOther'
  BY <1>1 DEF BesideEachOther, Copying
<1> QED BY <1>2, <1>3, <1>4 DEF FileInv

LEMMA StartStepsKeep ==
    ASSUME FileInv, TheFile!StartSteps
    PROVE  FileInv'
<1>1. /\ text \in BOOLEAN /\ content \in Contents /\ author \in [TheFile!Keys -> Authors] /\ backup \in Backups
      /\ start \in Starts /\ start.data \in Contents /\ crashes \in Nat /\ author["hidden"] # "save" /\ StartOK
  BY DEF FileInv, FileTypes, Starts
<1>2. UNCHANGED <<editor, saving, hands, crashes>> /\ start.at # "serving"
  BY DEF TheFile!StartSteps, TheFile!StartStays, TheFile!Starting, TheFile!Loads, TheFile!MigrateReads, TheFile!MigrateKeeps,
     TheFile!MigrateReplaces, TheFile!EnsureReads, TheFile!EnsureReplaces, TheFile!StartStepFails
<1>3. ASSUME NEW where \in {"loads", "migrates", "keeps", "renames", "ensures", "stores", "serving"},
             NEW d \in Contents, TheFile!Goes(where, d)
      PROVE  start' \in Starts /\ start'.at = where /\ start'.data = d
  BY <1>1, <1>3 DEF TheFile!Goes, Starts
<1>4. CASE TheFile!Loads
  <2>1. start' \in Starts /\ start'.at = "migrates" /\ UNCHANGED <<text, content, author, backup>>
    BY <1>1, <1>4 DEF TheFile!Loads, Starts
  <2>2. StartOK'
    BY <2>1 DEF StartOK
  <2> QED BY <1>1, <1>2, <2>1, <2>2, StartStep
<1>5. CASE TheFile!MigrateReads \/ TheFile!EnsureReads
  <2>1. UNCHANGED <<text, content, author, backup>> /\ \E where \in {"keeps", "ensures", "stores", "serving"} :
           TheFile!Goes(where, content)
    BY <1>5 DEF TheFile!MigrateReads, TheFile!EnsureReads
  <2>2. start' \in Starts /\ start'.data = content
    BY <1>1, <1>3, <2>1
  <2>3. StartOK'
    BY <2>1, <2>2 DEF StartOK, ByHandOnly
  <2> QED BY <1>1, <1>2, <2>1, <2>2, <2>3, StartStep
<1>6. CASE TheFile!MigrateKeeps
  <2>1. /\ start.at = "keeps" /\ TheFile!Goes("renames", start.data) /\ UNCHANGED <<text, content, author>>
        /\ backup' \in Backups
    BY <1>1, <1>6 DEF TheFile!MigrateKeeps, TheFile!Starting, Backups
  <2>2. start' \in Starts /\ start'.at = "renames" /\ start'.data = start.data
    BY <1>1, <1>3, <2>1
  <2>3. StartOK'
    BY <1>1, <2>1, <2>2 DEF StartOK, ByHandOnly
  <2> QED BY <1>1, <1>2, <2>1, <2>2, <2>3, StartStep
<1>7. ASSUME NEW where \in {"ensures", "serving"}, NEW new \in Contents, TheFile!Replaces(new, "start"),
             TheFile!Goes(where, start.data), UNCHANGED backup
      PROVE  FileInv'
  <2>1. start' \in Starts /\ start'.at = where
    BY <1>1, <1>3, <1>7
  <2>2. StartOK'
    BY <2>1 DEF StartOK
  <2>3. /\ text' \in BOOLEAN /\ content' \in Contents /\ author' \in [TheFile!Keys -> Authors]
        /\ author'["hidden"] # "save"
    BY <1>7, ReplacesFacts DEF Authors
  <2> QED BY <1>1, <1>2, <1>7, <2>1, <2>2, <2>3, StartStep
<1>8. CASE TheFile!MigrateReplaces
  <2>1. [start.data EXCEPT !["folders"] = TheFile!Generated] \in Contents
    BY <1>1 DEF Contents, TheFile!Generated
  <2> QED BY <1>7, <1>8, <2>1 DEF TheFile!MigrateReplaces
<1>9. CASE TheFile!EnsureReplaces
  <2>1. [start.data EXCEPT !["secret"] = TheFile!Generated + crashes + 1] \in Contents
    <3>1. TheFile!Generated + crashes + 1 \in Nat
      BY <1>1 DEF TheFile!Generated
    <3> QED BY <1>1, <3>1 DEF Contents
  <2> QED BY <1>7, <1>9, <2>1 DEF TheFile!EnsureReplaces
<1>10. CASE TheFile!StartStepFails
  <2>1. /\ UNCHANGED <<text, content, author>> /\ backup' \in Backups
        /\ \E where \in {"serving", "ensures"} : TheFile!Goes(where, content)
    BY <1>10, TornFacts DEF TheFile!StartStepFails
  <2>2. start' \in Starts /\ start'.at \in {"serving", "ensures"}
    BY <1>1, <1>3, <2>1
  <2>3. StartOK'
    BY <2>2 DEF StartOK
  <2> QED BY <1>1, <1>2, <2>1, <2>2, <2>3, StartStep
<1> QED BY <1>4, <1>5, <1>6, <1>8, <1>9, <1>10 DEF TheFile!StartSteps

(* A crash ends every request.                                              *)
LEMMA CrashStep ==
    ASSUME FileInv, TheFile!Crashes
    PROVE  FileInv'
<1>1. /\ UNCHANGED <<text, content, author, hands>> /\ crashes' = crashes + 1 /\ saving' = 0
      /\ start' = [start EXCEPT !.at = "loads"] /\ FileTypes /\ author["hidden"] # "save"
      /\ editor' = [e \in Admins |-> IF TheFile!Writing(e) THEN TheFile!Answered(e, "refused") ELSE editor[e]]
  BY DEF FileInv, TheFile!Crashes
<1>2. backup' \in Backups
  BY TornFacts DEF TheFile!Crashes
<1>3. ASSUME NEW e \in Admins
      PROVE  editor'[e] \in Requests /\ editor'[e].at \notin {"checked", "keeps", "kept"}
  BY <1>1, RequestFacts, AnsweredFacts DEF TheFile!Writing
<1>4. FileTypes'
  <2>1. start' \in Starts
    BY <1>1 DEF FileTypes, Starts
  <2> QED BY <1>1, <1>2, <1>3, <2>1 DEF FileTypes
<1>5. StartOK'
  BY <1>1 DEF StartOK, FileTypes, Starts
<1>6. \A e \in Admins : RequestOK(e)'
  BY <1>3 DEF RequestOK, HoldsTheSaves, WillUndoNoSave, WillKeepTheHidden, HasKept, Saving, Copying, TheFile!Writing
<1>7. BesideEachOther'
  BY <1>3 DEF BesideEachOther, Copying
<1> QED BY <1>1, <1>4, <1>5, <1>6, <1>7 DEF FileInv

LEMMA FileStep == FileInv /\ [TheFile!ConfigNext]_(TheFile!configVars) => FileInv'
<1> SUFFICES ASSUME FileInv, [TheFile!ConfigNext]_(TheFile!configVars) PROVE FileInv'
  OBVIOUS
<1>1. ASSUME NEW e \in Admins, TheFile!Request(e) PROVE FileInv'
  BY <1>1, PageSteps, WriteSteps DEF TheFile!Request
<1>2. CASE UNCHANGED TheFile!configVars
  <2>1. UNCHANGED <<text, content, author, backup, editor, saving, start, hands, crashes>>
    BY <1>2 DEF TheFile!configVars
  <2> QED BY <2>1 DEF FileInv, FileTypes, StartOK, ByHandOnly, BesideEachOther, RequestOK, HoldsTheSaves, WillUndoNoSave, WillKeepTheHidden,
             HasKept, Saving, Copying, TheFile!Writing, TheFile!Whole
<1> QED BY <1>1, <1>2, EditsStep, CrashStep, StartStepsKeep DEF TheFile!ConfigNext

(* What is placed undoes no save, and what it replaces is in the backup.    *)
LEMMA PlacesFacts ==
    ASSUME FileInv, NEW e \in Admins, TheFile!Places(e)
    PROVE  /\ \A k \in TheFile!Keys : content'[k] # content[k] /\ k \notin TheFile!Own(editor[e].kind) \cup {"folders"}
                /\ editor[e].kind # "apply" => author[k] # "save"
           /\ content'["hidden"] # content["hidden"] /\ editor[e].kind = "apply" =>
                editor[e].blind \/ author["hidden"] # "nobody"
           /\ ~editor[e].disturbed => backup = TheFile!Whole
<1>1. content' = editor[e].new /\ editor[e].at = "kept" /\ RequestOK(e)
  BY RequestFacts DEF TheFile!Places, TheFile!Of
<1> QED BY <1>1 DEF RequestOK, WillUndoNoSave, WillKeepTheHidden, HasKept, Saving, Copying, TheFile!Writing

LEMMA StartReplaces ==
    ASSUME FileInv, NEW k \in TheFile!Keys, content'[k] # content[k]
    PROVE  /\ TheFile!MigrateReplaces /\ k # "folders" => author[k] = "hand"
           /\ TheFile!EnsureReplaces /\ k # "secret" => author[k] = "hand"
<1>1. StartOK /\ start.data \in Contents
  BY DEF FileInv, FileTypes, Starts
<1>2. ASSUME TheFile!MigrateReplaces, k # "folders" PROVE author[k] = "hand"
  <2>1. content'[k] = start.data[k] /\ start.at = "renames"
    BY <1>1, <1>2 DEF TheFile!MigrateReplaces, TheFile!Replaces, TheFile!Starting, Contents
  <2> QED BY <1>1, <1>2, <2>1 DEF StartOK, ByHandOnly
<1>3. ASSUME TheFile!EnsureReplaces, k # "secret" PROVE author[k] = "hand"
  <2>1. content'[k] = start.data[k] /\ start.at = "stores"
    BY <1>1, <1>3 DEF TheFile!EnsureReplaces, TheFile!Replaces, TheFile!Starting, Contents
  <2> QED BY <1>1, <1>3, <2>1 DEF StartOK, ByHandOnly
<1> QED BY <1>2, <1>3

(* No edit of the configuration file is undone by somebody who did not see  *)
(* it, but by an Apply what came since its page was loaded; and what is     *)
(* replaced is in the .bak file, whole, unless somebody wrote in between    *)
(* who does not wait.                                                       *)
THEOREM NoEditGoesUnseen == TheFile!ConfigSpec => NoEditIsLost
<1>1. TheFile!ConfigSpec => []FileInv
  BY FileInit, FileStep, PTL DEF TheFile!ConfigSpec
<1>2. FileInv /\ [TheFile!ConfigNext]_(TheFile!configVars) =>
  [\A k \in TheFile!Keys : content'[k] # content[k] =>
       /\ \A e \in Admins : TheFile!Places(e) /\ k \notin TheFile!Own(editor[e].kind) \cup {"folders"} =>
            IF editor[e].kind = "apply"
            THEN k = "hidden" => editor[e].blind \/ author[k] \notin {"nobody", "save"}
            ELSE author[k] # "save"
       /\ TheFile!MigrateReplaces /\ k # "folders" => author[k] = "hand"
       /\ TheFile!EnsureReplaces /\ k # "secret" => author[k] = "hand"]_(TheFile!configVars)
  <2> SUFFICES ASSUME FileInv, NEW k \in TheFile!Keys, content'[k] # content[k]
               PROVE  /\ \A e \in Admins : TheFile!Places(e) /\ k \notin TheFile!Own(editor[e].kind) \cup {"folders"} =>
                           IF editor[e].kind = "apply"
                           THEN k = "hidden" => editor[e].blind \/ author[k] \notin {"nobody", "save"}
                           ELSE author[k] # "save"
                      /\ TheFile!MigrateReplaces /\ k # "folders" => author[k] = "hand"
                      /\ TheFile!EnsureReplaces /\ k # "secret" => author[k] = "hand"
    OBVIOUS
  <2>1. author["hidden"] # "save"
    BY DEF FileInv
  <2> QED BY <2>1, PlacesFacts, StartReplaces
<1>3. FileInv /\ [TheFile!ConfigNext]_(TheFile!configVars) =>
  [\A e \in Admins : TheFile!Places(e) /\ ~editor[e].disturbed => backup = TheFile!Whole]_(TheFile!configVars)
  BY PlacesFacts
<1> QED BY <1>1, <1>2, <1>3, PTL DEF TheFile!ConfigSpec, NoEditIsLost, TheFile!NoEditIsLost, TheFile!UndoesNoSave,
             TheFile!ReplacedIsKept
=============================================================================
