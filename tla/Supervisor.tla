------------------------------- MODULE Supervisor -------------------------------
(***************************************************************************)
(* The supervisor (internal/supervisor, and main.go around it): it starts  *)
(* the services the configuration file asks for, watches the file, and     *)
(* brings them in line with it, one after the other, each of which may     *)
(* fail.                                                                   *)
(*                                                                         *)
(* A configuration gives each service its section, or None where it is not *)
(* enabled; two sections with different ports need a restart.  Every edit  *)
(* leaves a stamp of its own.  The server's end is left out.               *)
(***************************************************************************)
EXTENDS Naturals, Sequences

CONSTANTS Order,       \* the services, in their order
          Sections, Port,
          Background,  \* services that serve no client
          Configs,     \* configurations that load
          Broken,      \* the content of a file that does not
          Missing,     \* that of no file
          None,
          MaxEdits, MaxFailures   \* bounds

Services == {Order[n] : n \in DOMAIN Order}

ASSUME ConfigsAssumption ==
    /\ Order \in Seq(Services)
    /\ None \notin Sections /\ Port \in [Sections -> Nat]
    /\ Configs \subseteq [Services -> Sections \union {None}]
    /\ Broken \notin Configs /\ Missing \notin Configs
    /\ MaxEdits \in Nat /\ MaxFailures \in Nat

VARIABLES file,      \* what the file says, and its stamp
          at,        \* how far the supervisor is
          last,      \* the stamp the watcher saw last
          loaded,    \* the configuration it applies, or applied last
          left,      \* the services it has yet to apply it to
          failed,    \* those that could not be brought up: incomplete
          running,   \* service -> the section it runs, or None
          current,   \* Supervisor.current, or None while nothing is applied
          early,     \* history: the file was edited before it was watched
          failures   \* history: how often a service failed

vars == <<file, at, last, loaded, left, failed, running, current, early, failures>>

Serving == {s \in Services \ Background : running[s] # None}

-----------------------------------------------------------------------------
(* Whoever edits the file: by hand, or the admin page.  One that writes by  *)
(* rename leaves a gap.                                                     *)

Edit(c) ==
    /\ file.edits < MaxEdits
    /\ file' = [says |-> c, edits |-> file.edits + 1,
                stamp |-> IF c = Missing THEN 0 ELSE file.edits + 2]
    /\ early' = (early \/ last = None)
    /\ UNCHANGED <<at, last, loaded, left, failed, running, current, failures>>

-----------------------------------------------------------------------------
(* Watch and reload.                                                        *)

WatchBegins ==
    /\ at = "started"
    /\ last' = file.stamp
    /\ at' = "watching"
    /\ UNCHANGED <<file, loaded, left, failed, running, current, early, failures>>

(* The stamp is kept before the file is read.                               *)
Tick ==
    /\ at = "watching" /\ file.stamp # last
    /\ last' = file.stamp
    /\ at' = IF file.says = Missing THEN "watching" ELSE "loading"
    /\ UNCHANGED <<file, loaded, left, failed, running, current, early, failures>>

Hangup ==
    /\ at = "watching"
    /\ last' = file.stamp
    /\ at' = "loading"
    /\ UNCHANGED <<file, loaded, left, failed, running, current, early, failures>>

LoadFails ==
    /\ at = "loading" /\ file.says \notin Configs
    /\ at' = "watching"
    /\ UNCHANGED <<file, last, loaded, left, failed, running, current, early, failures>>

NothingToDo ==
    /\ at = "loading" /\ file.says = current
    /\ at' = "watching"
    /\ UNCHANGED <<file, last, loaded, left, failed, running, current, early, failures>>

Loads ==
    /\ at = "loading" /\ file.says \in Configs \ {current}
    /\ loaded' = file.says
    /\ left' = Order /\ failed' = {}
    /\ at' = "applying"
    /\ UNCHANGED <<file, last, running, current, early, failures>>

-----------------------------------------------------------------------------
(* Apply, one service at a time.                                            *)

Applying == at \in {"starting", "applying"} /\ left # <<>>

Rebinds(a, b) == Port[a] # Port[b]

(* It comes to run its section: it is started, reloaded, restarted or       *)
(* stopped, or was off and stays off.                                       *)
Succeeds ==
    LET s == Head(left) IN
    /\ Applying
    /\ running' = [running EXCEPT ![s] = loaded[s]]
    /\ left' = Tail(left)
    /\ UNCHANGED <<file, at, last, loaded, failed, current, early, failures>>

(* Mutated: the first failure ends the loop.                                *)
FailsAndStops ==
    LET s == Head(left) IN
    /\ Applying /\ loaded[s] # None /\ failures < MaxFailures
    /\ left' = <<>>
    /\ failed' = failed \union {s} /\ failures' = failures + 1
    /\ UNCHANGED <<file, at, last, loaded, running, current, early>>

(* It cannot be started, or reloaded, when it keeps what it runs; or it     *)
(* needs a restart and cannot be started after it was stopped.              *)
Fails ==
    LET s == Head(left) IN
    /\ Applying /\ loaded[s] # None /\ failures < MaxFailures
    /\ running' \in {running} \union
          IF running[s] # None /\ Rebinds(running[s], loaded[s])
          THEN {[running EXCEPT ![s] = None]} ELSE {}
    /\ left' = Tail(left)
    /\ failed' = failed \union {s} /\ failures' = failures + 1
    /\ UNCHANGED <<file, at, last, loaded, current, early>>

(* Mutated: the stamp is taken once the file is applied.                    *)
AppliedAndStamped ==
    /\ at = "applying" /\ left = <<>>
    /\ current' = IF failed = {} THEN loaded ELSE current
    /\ last' = file.stamp
    /\ at' = "watching"
    /\ UNCHANGED <<file, loaded, left, failed, running, early, failures>>

Applied ==
    /\ at = "applying" /\ left = <<>>
    /\ current' = IF failed = {} THEN loaded ELSE current
    /\ at' = "watching"
    /\ UNCHANGED <<file, last, loaded, left, failed, running, early, failures>>

(* The first time, nothing to serve ends the program.                       *)
Started ==
    /\ at = "starting" /\ left = <<>>
    /\ current' = IF failed = {} THEN loaded ELSE current
    /\ at' = IF Serving = {} THEN "ended" ELSE "started"
    /\ UNCHANGED <<file, last, loaded, left, failed, running, early, failures>>

-----------------------------------------------------------------------------
Init ==
    /\ loaded \in Configs
    /\ file = [says |-> loaded, edits |-> 0, stamp |-> 1]
    /\ at = "starting"
    /\ last = None
    /\ left = Order /\ failed = {}
    /\ running = [s \in Services |-> None]
    /\ current = None
    /\ early = FALSE /\ failures = 0

Steps ==
    \/ WatchBegins \/ Tick \/ LoadFails \/ NothingToDo \/ Loads
    \/ Succeeds \/ Fails \/ Applied \/ Started

Next == Steps \/ Hangup \/ \E c \in Configs \union {Broken, Missing} : Edit(c)

Spec == Init /\ [][Next]_vars

(* The watcher's goroutine runs and its ticker ticks.                       *)
FairSpec == Spec /\ WF_vars(Steps)

-----------------------------------------------------------------------------
TypeOK ==
    /\ file \in [says : Configs \union {Broken, Missing}, edits : 0..MaxEdits,
                 stamp : 0..(MaxEdits + 2)]
    /\ at \in {"starting", "ended", "started", "watching", "loading", "applying"}
    /\ last \in (0..MaxEdits + 2) \union {None}
    /\ loaded \in Configs
    /\ left \in Seq(Services)
    /\ failed \subseteq Services
    /\ running \in [Services -> Sections \union {None}]
    /\ current \in Configs \union {None}

(* "a bad section never takes down a good one" (supervisor.go:212): once a  *)
(* configuration is applied every service runs its section, but those that  *)
(* were reported.                                                           *)
GoodSectionsRun ==
    left = <<>> => \A s \in Services \ failed : running[s] = loaded[s]

(* Where every service starts and reloads, what runs comes to be what the   *)
(* file says, however it is edited while it is read and applied; but an     *)
(* edit between the first load and the first stamp is not seen.             *)
FollowsTheFile ==
    \A c \in Configs :
        [](failures = 0 /\ ~early /\ at # "ended") /\ <>[](file.says = c) => <>[](running = c)
=============================================================================
