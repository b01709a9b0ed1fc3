---------------------------- MODULE TransferJobs ----------------------------
(***************************************************************************)
(* The jobs of httpd/registry_jobs.go: transfers that take too long for a  *)
(* request and run beside it, the ones of the registry and the ones of the *)
(* listing under a limit each.  An import reads an archive, offers what it *)
(* found, waits for a choice of the page, and stores that; a fetch stages  *)
(* a file and moves it to its place.  The page may stop a job at any time, *)
(* a shutdown stops all and waits for them, and none of them hears of it   *)
(* but where it looks.                                                     *)
(*                                                                         *)
(* Left out: progress and speed, the list of the page and what it forgets, *)
(* and pull, push and send, which for what is modelled are as a fetch.     *)
(***************************************************************************)
EXTENDS FiniteSets, Naturals

CONSTANTS
  Jobs,       \* jobs that may ever be started
  Selections, \* what the page may choose of an archive
  Unmade,     \* no choice
  Limit       \* kind of job -> how many of it may run

VARIABLES
  job,
  uploads,  \* archives that were uploaded and are still there, by job
  server    \* up, closing, closed

jobVars == <<job, uploads, server>>

Kinds == {"import", "fetch"}
NoJob == [kind |-> "import", state |-> "none", at |-> "nowhere", stopped |-> FALSE,
          accepted |-> Unmade, channel |-> Unmade, chosen |-> Unmade, kept |-> Unmade, whole |-> FALSE,
          source |-> FALSE, staged |-> FALSE, early |-> FALSE]

Running(j) == job[j].state \in {"running", "ready"}
RunningOf(kind) == {j \in Jobs : Running(j) /\ job[j].kind = kind}

(* A handler may still start one while the server closes, and after. *)
Starts(j, kind) ==
  /\ job[j].state = "none" /\ Cardinality(RunningOf(kind)) < Limit[kind]
  /\ \E source \in IF kind = "import" THEN BOOLEAN ELSE {FALSE} :
       /\ job' = [job EXCEPT ![j] = [NoJob EXCEPT !.kind = kind, !.state = "running",
                    !.at = "opens", !.source = source, !.early = (server = "up")]]
       /\ uploads' = IF source THEN uploads \cup {j} ELSE uploads
  /\ UNCHANGED server

(***************************************************************************)
(* What becomes of a job.                                                  *)
(***************************************************************************)
(* Mutated: a job that was stopped was cancelled, whatever it had done.     *)
StopComesFirst(j, done) ==
  IF job[j].stopped THEN "cancelled" ELSE IF done THEN "done" ELSE "failed"
Outcome(j, done) ==
  IF done THEN "done" ELSE IF job[j].stopped THEN "cancelled" ELSE "failed"

(* On its way out it removes what it staged, and the upload it was given.  *)
Leaves(j, done, record) ==
  /\ job' = [job EXCEPT ![j] = [record EXCEPT !.state = Outcome(j, done), !.at = "over",
                                              !.staged = FALSE]]
  /\ uploads' = uploads \ {j}
  /\ UNCHANGED server

(* The folder or the file is staged that the archive or the answer goes to. *)
Stages(j) ==
  /\ job[j].at = "opens"
  /\ job' = [job EXCEPT ![j].at = "reads", ![j].staged = TRUE]
  /\ UNCHANGED <<uploads, server>>

(* The whole archive was read: the upload is let go, and what was found is *)
(* offered.                                                                *)
Offers(j) ==
  /\ job[j].at = "reads" /\ job[j].kind = "import"
  /\ job' = [job EXCEPT ![j].at = "waits", ![j].state = "ready"]
  /\ uploads' = uploads \ {j}
  /\ UNCHANGED server

(* The page chooses; only the first answer is taken. *)
Chooses(j, choice) ==
  /\ job[j].state = "ready" /\ job[j].accepted = Unmade
  /\ job' = [job EXCEPT ![j].state = "running", ![j].channel = choice, ![j].accepted = choice]
  /\ UNCHANGED <<uploads, server>>

(* Of the choice, the stop and the timer the job takes any that is there.  *)
Takes(j) ==
  /\ job[j].at = "waits" /\ job[j].channel # Unmade
  /\ job' = [job EXCEPT ![j].at = "stores", ![j].chosen = job[j].channel, ![j].channel = Unmade]
  /\ UNCHANGED <<uploads, server>>
GivesUp(j) ==
  /\ job[j].at = "waits"
  /\ Leaves(j, FALSE, job[j])

(* All of it is stored, without a look at the stop; or the half of it. *)
Stores(j) ==
  LET what == IF job[j].kind = "import" THEN job[j].chosen ELSE CHOOSE c \in Selections : TRUE
  IN /\ job[j].at = (IF job[j].kind = "import" THEN "stores" ELSE "reads")
     /\ Leaves(j, TRUE, [job[j] EXCEPT !.kept = what, !.whole = TRUE])
StoresSome(j) ==
  /\ job[j].at = "stores"
  /\ \E kept \in {Unmade, job[j].chosen} : Leaves(j, FALSE, [job[j] EXCEPT !.kept = kept])

(* Without a folder to stage in, the upload stays for another try. *)
FindsNoFolder(j) ==
  /\ job[j].at = "opens" /\ job[j].kind = "import"
  /\ job' = [job EXCEPT ![j].state = Outcome(j, FALSE), ![j].at = "nowhere"]
  /\ UNCHANGED <<uploads, server>>

(* What it reads or connects to fails it, and so does a stop. *)
Fails(j) ==
  /\ job[j].at \in {"opens", "reads"}
  /\ Leaves(j, FALSE, job[j])

(***************************************************************************)
(* Stops.                                                                  *)
(***************************************************************************)
Stop(j) ==
  /\ job' = [job EXCEPT ![j].stopped = TRUE]
  /\ UNCHANGED <<uploads, server>>
Dismisses(j) == Running(j) /\ ~job[j].stopped /\ Stop(j)
HearsOfIt(j) == server # "up" /\ Running(j) /\ ~job[j].stopped /\ Stop(j)

Closes ==
  /\ server = "up" /\ server' = "closing"
  /\ UNCHANGED <<job, uploads>>
Returns ==
  /\ server = "closing" /\ \A j \in Jobs : ~Running(j)
  /\ server' = "closed"
  /\ UNCHANGED <<job, uploads>>

JobInit == job = [j \in Jobs |-> NoJob] /\ uploads = {} /\ server = "up"

JobNext ==
  \/ \E j \in Jobs :
       \/ \E kind \in Kinds : Starts(j, kind)
       \/ \E choice \in Selections : Chooses(j, choice)
       \/ Stages(j) \/ Offers(j) \/ Takes(j) \/ GivesUp(j) \/ Stores(j) \/ StoresSome(j)
       \/ FindsNoFolder(j) \/ Fails(j) \/ Dismisses(j) \/ HearsOfIt(j)
  \/ Closes \/ Returns

JobSpec == JobInit /\ [][JobNext]_jobVars

(* A job says done if and only if all it was told to store is stored; it   *)
(* stores what was accepted first and nothing else; one that is over has   *)
(* left nothing staged or uploaded; and once a shutdown has returned, all  *)
(* that were started before it are over.                                   *)
JobsEndAsTheySay ==
  /\ \A j \in Jobs :
       /\ job[j].state = "done" <=> job[j].whole
       /\ job[j].kind = "import" => job[j].kept \in {Unmade, job[j].accepted}
       /\ job[j].at = "over" => ~Running(j) /\ ~job[j].staged /\ j \notin uploads
       /\ server = "closed" /\ job[j].early => ~Running(j) /\ ~job[j].staged
  /\ \A kind \in Kinds : Cardinality(RunningOf(kind)) <= Limit[kind]
=============================================================================
