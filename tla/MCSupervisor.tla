------------------------------ MODULE MCSupervisor ------------------------------
(***************************************************************************)
(* The server itself, one part at a time: the supervisor, the file it      *)
(* follows, the update of the binary, and when the syncs run.  The parts   *)
(* share no variable; the ones that are not looked at stay as they are.    *)
(***************************************************************************)
EXTENDS Supervisor

CONSTANTS http, nbd, cleanup, a, b, c,
          Admins, MaxHands, MaxCrashes,                     \* TheFile
          Uploads, Binaries, Signed, Native, Sound, First,  \* TheUpdate
          Syncs, Askers, Every, MaxTime, MaxBuilds, MaxFaults   \* TheSyncs

VARIABLES
  part,                                                                      \* what is looked at
  text, content, author, backup, editor, saving, start, hands, crashes,      \* TheFile
  exe, old, beside, upload, busy, staged, requested, process, ran, fails,    \* TheUpdate
  now, wants, builds, runs, runner, kept, enlisted, shown, manager, asker, troubles   \* TheSyncs

TheFile == INSTANCE ConfigFile
TheUpdate == INSTANCE SelfUpdate WITH failures <- fails
TheSyncs == INSTANCE SyncManager WITH running <- runs

(* What the update stages is no upload and no binary called None.           *)
StagedFiles == [of : Binaries \cup {None}, trailer : BOOLEAN]
ASSUME UpdateAssumption ==
    None \notin Binaries \cup Signed \cup Uploads \cup {First} \cup StagedFiles

(* An edit has a number, which is not 0.                                    *)
ASSUME AdminsAssumption == Admins \subseteq Nat \ {0}

(* An interval is a number, and so is how many times runners are built.     *)
ASSUME SyncsAssumption == Every \in Nat /\ MaxBuilds \in Nat

Three == <<http, nbd, cleanup>>

(* b changes the accounts of a, c its port.                                 *)
Ports == [x \in Sections |-> IF x = c THEN 2 ELSE 1]

Config(h, n, k) == [s \in Services |-> IF s = http THEN h ELSE IF s = nbd THEN n ELSE k]

(* A configuration, one with other accounts, one with another port of nbd,  *)
(* and one that serves nobody.                                              *)
Files == {Config(a, a, None), Config(b, b, a), Config(a, c, None), Config(None, None, a)}

(* crashes counts those of the part that is looked at.                      *)
ofTheFile == <<text, content, author, backup, editor, saving, start, hands>>
ofTheUpdate == <<exe, old, beside, upload, busy, staged, requested, process, ran, fails>>
ofTheSyncs == <<now, wants, builds, runs, runner, kept, enlisted, shown, manager, asker, troubles>>
serverVars == <<part, vars, ofTheFile, ofTheUpdate, ofTheSyncs, crashes>>

ServerInit ==
  /\ part \in {"supervisor", "file", "update", "syncs"}
  /\ IF part = "supervisor" THEN Init
     ELSE /\ loaded = Config(None, None, a) /\ file = [says |-> loaded, edits |-> 0, stamp |-> 1]
          /\ at = "ended" /\ last = None /\ left = <<>> /\ failed = {} /\ running = loaded
          /\ current = loaded /\ early = FALSE /\ failures = 0
  /\ TheFile!ConfigInit /\ TheUpdate!UpdateInit /\ TheSyncs!SyncManagerInit

ServerNext ==
  \/ part = "supervisor" /\ Next
       /\ UNCHANGED <<part, ofTheFile, ofTheUpdate, ofTheSyncs, crashes>>
  \/ part = "file" /\ TheFile!ConfigNext
       /\ UNCHANGED <<part, vars, ofTheUpdate, ofTheSyncs>>
  \/ part = "update" /\ TheUpdate!UpdateNext
       /\ UNCHANGED <<part, vars, ofTheFile, ofTheSyncs>>
  \/ part = "syncs" /\ TheSyncs!SyncManagerNext
       /\ UNCHANGED <<part, vars, ofTheFile, ofTheUpdate, crashes>>

ServerSpec ==
  /\ ServerInit /\ [][ServerNext]_serverVars
  /\ WF_serverVars(part = "supervisor" /\ Steps /\ UNCHANGED <<part, ofTheFile, ofTheUpdate, ofTheSyncs, crashes>>)

(* Edits are undone by nobody unseen (ConfigFile). *)
NoEditIsLost == TheFile!NoEditIsLost

(* There is a binary that runs (SelfUpdate). *)
AVersionIsThere == TheUpdate!AVersionIsThere

(* One run of a sync at a time, and none before it is due (SyncManager). *)
SyncsTakeTurns == TheSyncs!SyncsTakeTurns
=============================================================================
