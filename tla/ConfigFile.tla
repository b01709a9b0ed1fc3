------------------------------- MODULE ConfigFile -------------------------------
(***************************************************************************)
(* The configuration file under those who write it (internal/admin, and    *)
(* Migrate and EnsureSecrets of internal/config, called by main.go): the   *)
(* admin page, which reads and writes it on every request, the start of    *)
(* the server, which edits it as text, and people with an editor.          *)
(*                                                                         *)
(* The file has a few keys that stand for what is saved apart: the name of *)
(* a remote server, the name a sync calls it by, the rest of the sync, a   *)
(* repository, the settings, what the page does not show since the binary  *)
(* was built without it, the secrets, and whether the folders go by their  *)
(* new names.  The value of a key is the number of the edit that gave it;  *)
(* a page makes one request.                                               *)
(***************************************************************************)
EXTENDS Naturals

CONSTANTS Admins,                  \* numbers of edits, each of one open page
          MaxHands, MaxCrashes     \* bounds

VARIABLES text,     \* whether the file parses
          content,  \* what it says
          author,   \* history: key -> who changed it last
          backup,   \* the .bak file
          editor,   \* an open page, and the request it makes
          saving,   \* Handler.saving: who holds it, 0 for nobody
          start,    \* the start of the server
          hands, crashes   \* history: edits by hand, crashes

configVars == <<text, content, author, backup, editor, saving, start, hands, crashes>>

Keys == {"name", "syncOf", "sync", "repository", "settings", "hidden", "secret", "folders"}

Unset == 0       \* no secret, and the old names of the folders
Gone == 99         \* what was dropped
Generated == 50    \* a secret, or new names, that the start gave

Saves == {"server", "sync", "repository"}
Whole == [says |-> content, parses |-> text, whole |-> TRUE]

NoRequest == [at |-> "away", kind |-> "apply", page |-> content, new |-> content,
              previous |-> Whole, blind |-> FALSE, disturbed |-> FALSE]

(* Validate: a sync names a server there is.  That names are given once,    *)
(* and the rest, holds of every content here.                               *)
Valid(c) == c["syncOf"] = c["name"]

Becomes(e, new) == editor' = [editor EXCEPT ![e] = new]
Writing(e) == editor[e].at \in {"checked", "keeps", "kept"}

(* Somebody writes beside those that have kept what they will replace.      *)
Disturbed(others) ==
  [e \in Admins |-> IF e \in others /\ editor[e].at \in {"keeps", "kept"}
                    THEN [editor[e] EXCEPT !.disturbed = TRUE] ELSE editor[e]]

(* The content is replaced, by somebody.                                    *)
Replaces(new, who) ==
  /\ content' = new /\ text' = TRUE
  /\ author' = [k \in Keys |-> IF new[k] # content[k] THEN who ELSE author[k]]

-----------------------------------------------------------------------------
(* People with an editor: one value, with or without the syncs that name    *)
(* the server, or a file that does not parse.                               *)
EditsByHand ==
  /\ hands < MaxHands /\ hands' = hands + 1
  /\ \/ \E k \in {"name", "settings", "hidden", "secret"}, follow \in BOOLEAN :
          LET value == IF k = "secret" THEN Unset ELSE 10 + hands
              new == [content EXCEPT ![k] = value,
                        !["syncOf"] = IF k = "name" /\ follow THEN value ELSE @]
          IN Replaces(new, "hand")
     \/ text' = FALSE /\ UNCHANGED <<content, author>>
     \/ ~text /\ Replaces(content, "hand")
  /\ editor' = Disturbed(Admins)
  /\ UNCHANGED <<backup, saving, start, crashes>>

-----------------------------------------------------------------------------
(* The admin page.                                                          *)

Serving == start.at = "serving"
Of(e, at) == Serving /\ editor[e].at = at

(* handleState.                                                             *)
LoadsThePage(e) ==
  /\ Of(e, "away") /\ text
  /\ Becomes(e, [editor[e] EXCEPT !.at = "open", !.page = content])
  /\ UNCHANGED <<text, content, author, backup, saving, start, hands, crashes>>

(* What becomes of the file that is read.  The syncs of a server follow it  *)
(* to its new name, and a sync has the server the page knew.                *)
ServerSaved(e) ==
  [content EXCEPT !["name"] = e, !["syncOf"] = IF @ = content["name"] THEN e ELSE @]
SyncSaved(e) == [content EXCEPT !["sync"] = e, !["syncOf"] = editor[e].page["name"]]
RepositorySaved(e) == [content EXCEPT !["repository"] = e]

Saved(kind, e) ==
  CASE kind = "server" -> ServerSaved(e) [] kind = "sync" -> SyncSaved(e)
    [] kind = "repository" -> RepositorySaved(e)

Own(kind) ==
  CASE kind = "server" -> {"name", "syncOf"}
    [] kind = "sync" -> {"sync", "syncOf"}
    [] kind = "repository" -> {"repository"}
    [] kind = "apply" -> {"settings"}

Answered(e, at) == [NoRequest EXCEPT !.at = at, !.page = editor[e].page]

(* Mutated: nobody waits for a save that is under way.                      *)
NobodyWaits == TRUE
NobodySaves == saving = 0

(* The file is read, and the record looked for by the name it had; the new  *)
(* names of the folders are what is written.                                *)
ReadsToSave(e, kind) ==
  /\ Of(e, "open") /\ NobodySaves
  /\ LET new == [Saved(kind, e) EXCEPT !["folders"] = IF @ = Unset THEN Generated ELSE @]
         found == kind = "server" => content["name"] = editor[e].page["name"]
     IN IF text /\ found /\ Valid(new)
        THEN /\ saving' = e
             /\ Becomes(e, [editor[e] EXCEPT !.at = "checked", !.kind = kind, !.new = new])
        ELSE Becomes(e, Answered(e, "refused")) /\ UNCHANGED saving
  /\ UNCHANGED <<text, content, author, backup, start, hands, crashes>>

(* What is not on the page is taken from the file of now, if it can be read.*)
NotShown == IF text THEN content["hidden"] ELSE Gone

(* handleApply: everything else is what the page had when it was loaded.    *)
ReadsToApply(e) ==
  /\ Of(e, "open")
  /\ LET new == [editor[e].page EXCEPT !["settings"] = e, !["hidden"] = NotShown,
                   !["folders"] = IF @ = Unset THEN Generated ELSE @]
     IN IF Valid(new)
        THEN Becomes(e, [editor[e] EXCEPT !.at = "checked", !.kind = "apply", !.new = new,
                                          !.blind = ~text])
        ELSE Becomes(e, Answered(e, "refused"))
  /\ UNCHANGED <<text, content, author, backup, saving, start, hands, crashes>>

-----------------------------------------------------------------------------
(* write.  A save may log in to a server before, for as long as it takes.   *)

Released(e) == IF saving = e THEN 0 ELSE saving

(* Those whose steps in write may come between: not two saves.              *)
Beside(e) == IF editor[e].kind = "apply" THEN Admins \ {e}
             ELSE {o \in Admins \ {e} : editor[o].kind = "apply"}

ReadsThePrevious(e) ==
  /\ Of(e, "checked")
  /\ editor' = [Disturbed(Beside(e)) EXCEPT ![e].at = "keeps", ![e].previous = Whole,
                  ![e].disturbed = \E o \in Beside(e) : editor[o].at \in {"keeps", "kept"}]
  /\ UNCHANGED <<text, content, author, backup, saving, start, hands, crashes>>

WritesTheBackup(e) ==
  /\ Of(e, "keeps")
  /\ backup' = editor[e].previous
  /\ editor' = [Disturbed(Beside(e)) EXCEPT ![e].at = "kept"]
  /\ UNCHANGED <<text, content, author, saving, start, hands, crashes>>

(* The rename.                                                              *)
Places(e) ==
  /\ Of(e, "kept")
  /\ text' = TRUE /\ content' = editor[e].new
  /\ author' = [k \in Keys |-> IF content'[k] = content[k] THEN author[k]
                              ELSE IF editor[e].kind = "apply" THEN "apply"
                              ELSE IF k \in Own(editor[e].kind) THEN "save" ELSE "undone"]
  /\ editor' = [Disturbed(Beside(e)) EXCEPT ![e] = Answered(e, "done")]
  /\ saving' = Released(e)
  /\ UNCHANGED <<backup, start, hands, crashes>>

(* A backup that is not written to its end.                                 *)
TornWhile(written) ==
  backup' \in {backup} \cup IF written THEN {[backup EXCEPT !.whole = FALSE]} ELSE {}

(* The login is refused, or a step of write fails.                          *)
Fails(e) ==
  /\ Serving /\ Writing(e)
  /\ TornWhile(editor[e].at = "keeps")
  /\ Becomes(e, Answered(e, "refused"))
  /\ saving' = Released(e)
  /\ UNCHANGED <<text, content, author, start, hands, crashes>>

-----------------------------------------------------------------------------
(* A crash ends the requests.                                               *)
Crashes ==
  /\ crashes < MaxCrashes /\ crashes' = crashes + 1
  /\ TornWhile(start.at = "keeps" \/ \E e \in Admins : editor[e].at = "keeps")
  /\ editor' = [e \in Admins |-> IF Writing(e) THEN Answered(e, "refused") ELSE editor[e]]
  /\ saving' = 0 /\ start' = [start EXCEPT !.at = "loads"]
  /\ UNCHANGED <<text, content, author, hands>>

-----------------------------------------------------------------------------
(* The start.  Nothing is served until it is over.                          *)

Starting(at) == start.at = at
Goes(at, data) == start' = [start EXCEPT !.at = at, !.data = data]
StartStays == UNCHANGED <<editor, saving, hands, crashes>>

(* Load, of a file that is valid.                                           *)
Loads ==
  /\ Starting("loads") /\ text /\ Valid(content)
  /\ start' = [start EXCEPT !.at = "migrates", !.missing = content["secret"] = Unset]
  /\ UNCHANGED <<text, content, author, backup>> /\ StartStays

(* Migrate reads the file, keeps it, and renames the keys of the folders.   *)
MigrateReads ==
  /\ Starting("migrates")
  /\ IF text /\ content["folders"] = Unset THEN Goes("keeps", content) ELSE Goes("ensures", content)
  /\ UNCHANGED <<text, content, author, backup>> /\ StartStays

MigrateKeeps ==
  /\ Starting("keeps")
  /\ backup' = [says |-> start.data, parses |-> TRUE, whole |-> TRUE]
  /\ Goes("renames", start.data)
  /\ UNCHANGED <<text, content, author>> /\ StartStays

MigrateReplaces ==
  /\ Starting("renames")
  /\ Replaces([start.data EXCEPT !["folders"] = Generated], "start")
  /\ Goes("ensures", start.data)
  /\ UNCHANGED backup /\ StartStays

(* EnsureSecrets reads it again, for the keys the loaded one missed; a file *)
(* that does not parse is left alone.                                       *)
EnsureReads ==
  /\ Starting("ensures")
  /\ IF start.missing /\ text THEN Goes("stores", content) ELSE Goes("serving", content)
  /\ UNCHANGED <<text, content, author, backup>> /\ StartStays

EnsureReplaces ==
  /\ Starting("stores")
  /\ Replaces([start.data EXCEPT !["secret"] = Generated + crashes + 1], "start")
  /\ Goes("serving", start.data)
  /\ UNCHANGED backup /\ StartStays

(* What fails is logged, and the start goes on with the next.               *)
StartStepFails ==
  /\ start.at \in {"keeps", "renames", "stores"}
  /\ TornWhile(start.at = "keeps")
  /\ Goes(IF start.at = "stores" THEN "serving" ELSE "ensures", content)
  /\ UNCHANGED <<text, content, author>> /\ StartStays

-----------------------------------------------------------------------------
ConfigInit ==
  /\ text = TRUE /\ content = [k \in Keys |-> 0]
  /\ author = [k \in Keys |-> "nobody"] /\ backup = Whole
  /\ editor = [e \in Admins |-> NoRequest]
  /\ saving = 0 /\ start = [at |-> "loads", data |-> content, missing |-> FALSE]
  /\ hands = 0 /\ crashes = 0

Request(e) ==
  \/ LoadsThePage(e) \/ ReadsToApply(e) \/ \E kind \in Saves : ReadsToSave(e, kind)
  \/ ReadsThePrevious(e) \/ WritesTheBackup(e) \/ Places(e) \/ Fails(e)

StartSteps ==
  \/ Loads \/ MigrateReads \/ MigrateKeeps \/ MigrateReplaces
  \/ EnsureReads \/ EnsureReplaces \/ StartStepFails

ConfigNext == EditsByHand \/ Crashes \/ StartSteps \/ \E e \in Admins : Request(e)

ConfigSpec == ConfigInit /\ [][ConfigNext]_configVars

-----------------------------------------------------------------------------
(* A save undoes no other save.                                             *)
UndoesNoSave ==
  [][\A k \in Keys : content'[k] # content[k] =>
       /\ \A e \in Admins : Places(e) /\ k \notin Own(editor[e].kind) \cup {"folders"} =>
            IF editor[e].kind = "apply"
            THEN k = "hidden" => editor[e].blind \/ author[k] \notin {"nobody", "save"}
            ELSE author[k] # "save"
       /\ MigrateReplaces /\ k # "folders" => author[k] = "hand"
       /\ EnsureReplaces /\ k # "secret" => author[k] = "hand"]_configVars

(* "The previous file is copied aside first"                                *)
(* (src/internal/admin/file.go:71).                                         *)
ReplacedIsKept ==
  [][\A e \in Admins : Places(e) /\ ~editor[e].disturbed => backup = Whole]_configVars

(* "two saves do not each write a file without the other's server"          *)
(* (src/internal/admin/servers.go:119): what a save changes beside its own  *)
(* record was changed by hand, or by an Apply, since it read the file; what *)
(* the start changes beside its keys, by hand; and of what the page does    *)
(* not show, an Apply that could read the file changes nothing but what     *)
(* somebody else has changed, and no save wrote.  What is replaced is in    *)
(* the .bak file, whole, unless somebody wrote in between who does not      *)
(* wait: a person, or an Apply.  An Apply does undo what came since its     *)
(* page was loaded.                                                         *)
NoEditIsLost == UndoesNoSave /\ ReplacedIsKept
=============================================================================
