------------------------------- MODULE SelfUpdate -------------------------------
(***************************************************************************)
(* The update over HTTP (internal/selfupdate, internal/httpd/update.go, and *)
(* the end of main.go): uploads that are staged beside the executable and   *)
(* checked, the answer, the shutdown, the two renames and the restart, with *)
(* signals and crashes between any two steps.                               *)
(*                                                                          *)
(* A binary is one of Binaries; what is signed with a key of this build is  *)
(* in Signed, what is built for this platform in Native, and what answers    *)
(* -version as go-fs does in Sound.                                         *)
(***************************************************************************)
EXTENDS Naturals

CONSTANTS Uploads, Binaries, Signed, Native, Sound,
          First,                    \* the binary that was installed
          None,
          MaxCrashes, MaxFailures   \* bounds

VARIABLES exe, old,    \* the executable, and the one before it with .old
          beside,      \* upload -> what is in its staged file
          upload,      \* what becomes of it
          busy, staged, requested,   \* Updater.busy, .staged and .done
          process,     \* how far main is, what it runs, and why it ends
          ran,         \* history: what was run with -version
          crashes, failures

updateVars == <<exe, old, beside, upload, busy, staged, requested, process, ran,
                crashes, failures>>

(* A staged file while it is written, and with its trailer.                 *)
Part == [of |-> None, trailer |-> TRUE]
Whole(b, trailer) == [of |-> b, trailer |-> trailer]

Serving == process.at \in {"serves", "stops"}
Goes(u, pc) == upload' = [upload EXCEPT ![u] = pc]
Files == <<exe, old>>
Updater == <<busy, staged, requested>>
Bounds == <<crashes, failures>>

-----------------------------------------------------------------------------
(* acceptUpdate and Stage.  One at a time, and none once one is staged; the *)
(* rpm's binary takes none.                                                 *)
Receives(u) ==
  /\ Serving /\ upload[u] = "none"
  /\ IF busy THEN Goes(u, "refused") /\ UNCHANGED <<beside, busy>>
     ELSE Goes(u, "copies") /\ busy' = TRUE /\ beside' = [beside EXCEPT ![u] = Part]
  /\ UNCHANGED <<Files, staged, requested, process, ran, Bounds>>

Copies(u) ==
  /\ Serving /\ upload[u] = "copies"
  /\ \E b \in Binaries : beside' = [beside EXCEPT ![u] = Whole(b, TRUE)]
  /\ Goes(u, "verifies")
  /\ UNCHANGED <<Files, Updater, process, ran, Bounds>>

Trusted(b) == b \in Signed \cap Native

(* The trailer is cut off what is signed.                                   *)
Verifies(u) ==
  /\ Serving /\ upload[u] = "verifies" /\ Trusted(beside[u].of)
  /\ beside' = [beside EXCEPT ![u].trailer = FALSE]
  /\ Goes(u, "smokes")
  /\ UNCHANGED <<Files, Updater, process, ran, Bounds>>

Smokes(u) ==
  /\ Serving /\ upload[u] = "smokes"
  /\ ran' = ran \cup {beside[u]}
  /\ IF beside[u].of \in Sound THEN Goes(u, "passed") ELSE Goes(u, "fails")
  /\ UNCHANGED <<Files, Updater, beside, process, Bounds>>

Stages(u) ==
  /\ Serving /\ upload[u] = "passed"
  /\ staged' = u /\ Goes(u, "answered")
  /\ UNCHANGED <<Files, beside, busy, requested, process, ran, Bounds>>

(* Broken off, too large, not signed, or stopped: nothing is left behind.   *)
Refuses(u) ==
  /\ Serving /\ upload[u] \in {"copies", "verifies", "smokes", "fails"}
  /\ beside' = [beside EXCEPT ![u] = None] /\ busy' = FALSE
  /\ Goes(u, "refused")
  /\ UNCHANGED <<Files, staged, requested, process, ran, Bounds>>

(* Request, when the answer has had its moment.                             *)
Requests(u) ==
  /\ Serving /\ upload[u] = "answered"
  /\ requested' = TRUE /\ Goes(u, "done")
  /\ UNCHANGED <<Files, beside, busy, staged, process, ran, Bounds>>

-----------------------------------------------------------------------------
(* main: it waits for a signal or the updater, and closes everything.       *)
Main == <<beside, upload, Updater, ran>>

Ends(why) ==
  /\ process.at = "serves" /\ (why = "update" => requested)
  /\ process' = [process EXCEPT !.at = "stops", !.why = why]
  /\ UNCHANGED <<Files, Main, Bounds>>

Closed ==
  /\ process.at = "stops"
  /\ process' = [process EXCEPT !.at = IF process.why = "update" THEN "removes" ELSE "down"]
  /\ UNCHANGED <<Files, Main, Bounds>>

(* Apply: .old is removed, and that may fail unseen.                        *)
RemovesTheOld ==
  /\ process.at = "removes"
  /\ old' \in {None, old} /\ (old' # None => failures < MaxFailures)
  /\ failures' = IF old' # None THEN failures + 1 ELSE failures
  /\ process' = [process EXCEPT !.at = "aside"]
  /\ UNCHANGED <<exe, Main, crashes>>

(* Mutated: the running one is removed, and not kept.                       *)
RemovesTheRunning ==
  /\ process.at = "aside" /\ exe' = None
  /\ process' = [process EXCEPT !.at = "places"]
  /\ UNCHANGED <<old, Main, Bounds>>

MovesAside ==
  /\ process.at = "aside"
  /\ exe' = None /\ old' = exe
  /\ process' = [process EXCEPT !.at = "places"]
  /\ UNCHANGED <<Main, Bounds>>

Places ==
  /\ process.at = "places"
  /\ exe' = beside[staged].of /\ beside' = [beside EXCEPT ![staged] = None]
  /\ process' = [process EXCEPT !.at = "restarts", !.applied = TRUE]
  /\ UNCHANGED <<old, upload, Updater, ran, Bounds>>

MovesBack ==
  /\ process.at = "back"
  /\ exe' = old /\ old' = None
  /\ process' = [process EXCEPT !.at = "restarts"]
  /\ UNCHANGED <<Main, Bounds>>

(* A rename fails; the restart comes anyway.                                *)
RenameFails ==
  /\ failures < MaxFailures /\ failures' = failures + 1
  /\ process.at \in {"aside", "places", "back"}
  /\ process' = [process EXCEPT !.at = IF process.at = "places" THEN "back" ELSE "restarts"]
  /\ UNCHANGED <<Files, Main, crashes>>

-----------------------------------------------------------------------------
(* A start, of what is in place: what was staged before is removed.         *)
NewProcess ==
  /\ process' = [at |-> "serves", runs |-> exe, why |-> "none", applied |-> FALSE]
  /\ beside' = [u \in Uploads |-> None]
  /\ upload' = [u \in Uploads |-> IF upload[u] = "none" THEN "none" ELSE "over"]
  /\ busy' = FALSE /\ staged' = None /\ requested' = FALSE
  /\ UNCHANGED <<Files, ran, Bounds>>

Restarts == process.at = "restarts" /\ exe # None /\ NewProcess
CannotRestart ==
  /\ process.at = "restarts" /\ exe = None
  /\ process' = [process EXCEPT !.at = "down"] /\ UNCHANGED <<Files, Main, Bounds>>

(* It is killed, or the machine goes down; it is started again, and before  *)
(* that somebody may put the previous binary back.                          *)
Crashes ==
  /\ process.at # "down" /\ crashes < MaxCrashes /\ crashes' = crashes + 1
  /\ process' = [process EXCEPT !.at = "down"]
  /\ UNCHANGED <<Files, Main, failures>>

Boots == process.at = "down" /\ exe # None /\ NewProcess

GoesBack ==
  /\ process.at = "down" /\ old # None
  /\ exe' = old /\ old' = None
  /\ UNCHANGED <<process, Main, Bounds>>

-----------------------------------------------------------------------------
UpdateInit ==
  /\ exe = First /\ old = None
  /\ beside = [u \in Uploads |-> None] /\ upload = [u \in Uploads |-> "none"]
  /\ busy = FALSE /\ staged = None /\ requested = FALSE
  /\ process = [at |-> "serves", runs |-> First, why |-> "none", applied |-> FALSE]
  /\ ran = {} /\ crashes = 0 /\ failures = 0

UpdateNext ==
  \/ \E u \in Uploads : Receives(u) \/ Copies(u) \/ Verifies(u) \/ Smokes(u) \/ Stages(u)
                          \/ Refuses(u) \/ Requests(u)
  \/ \E why \in {"signal", "update"} : Ends(why)
  \/ Closed \/ RemovesTheOld \/ MovesAside \/ Places \/ MovesBack \/ RenameFails
  \/ Restarts \/ CannotRestart \/ Crashes \/ Boots \/ GoesBack

UpdateSpec == UpdateInit /\ [][UpdateNext]_updateVars

-----------------------------------------------------------------------------
Runnable == {First} \cup (Signed \cap Native \cap Sound)

(* Whatever fails or crashes between any two steps, there is a binary that  *)
(* was signed and that runs: in place, or, when Apply was cut short, or its *)
(* second rename and the way back failed, with .old; after an update .old   *)
(* is the one that ran before, "the way back should the new one misbehave"  *)
(* (src/internal/selfupdate/updater.go:321).  "Only a signed file is ever   *)
(* run" (updater.go:11), without its trailer; and a server that runs has    *)
(* beside it no staged file but that of the upload it takes or has taken.   *)
AVersionIsThere ==
  /\ exe \in Runnable \/ (exe = None /\ old = process.runs)
  /\ old \in Runnable \cup {None}
  /\ exe = None /\ process.at = "down" => crashes > 0 \/ failures > 1
  /\ process.applied /\ process.at = "restarts" => old = process.runs
  /\ \A f \in ran : f.of \in Signed \cap Native /\ ~f.trailer
  /\ process.at = "serves" =>
       \A u, v \in Uploads : beside[u] # None /\ beside[v] # None => u = v /\ busy
=============================================================================
