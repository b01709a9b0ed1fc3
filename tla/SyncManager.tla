------------------------------ MODULE SyncManager ------------------------------
(***************************************************************************)
(* When the syncs run (internal/syncer): the manager, which a reload gives  *)
(* new runners, the runners with their schedules, the runs people ask for,  *)
(* and what is kept of the last run.  What a run does is SyncRun's.         *)
(*                                                                          *)
(* A runner goes by the build that made it: the n-th runner of a sync is    *)
(* runner[sync][n].  Times are numbers, 0 is none.                          *)
(***************************************************************************)
EXTENDS Naturals

CONSTANTS Syncs, Askers, Every,
          MaxTime, MaxBuilds, MaxFaults   \* bounds

Jobs == {"one", "two"}
Builds == 1 .. MaxBuilds

VARIABLES now, wants,        \* the time, and the configuration
          builds, running,   \* Manager.running: sync -> build, 0 for none
          runner,            \* sync -> build -> runner
          kept,              \* persistent: sync -> when its last run started
          enlisted, shown,   \* statuses.runners and statuses.byName
          manager,           \* what it does
          asker,             \* who asks for a run
          troubles

syncManagerVars ==
  <<now, wants, builds, running, runner, kept, enlisted, shown, manager, asker, troubles>>

NoRunner == [at |-> "none", job |-> "none", last |-> 0, started |-> 0, busy |-> FALSE,
             quit |-> FALSE, cancelled |-> FALSE, asked |-> FALSE, missed |-> FALSE]
Nothing == [running |-> FALSE, started |-> 0]
Off == [s \in Syncs |-> 0]
Wanted(s) == wants[s] \in Jobs

Runners == Syncs \X Builds
Of(r) == runner[r[1]][r[2]]
Becomes(r, new) == runner' = [runner EXCEPT ![r[1]][r[2]] = new]
Working(r) == Of(r).at \in {"runs", "keeps"}

-----------------------------------------------------------------------------
(* A runner.                                                                *)

Reports(r) == enlisted[r[1]] = r[2]

Report(r, busy, started) ==
  shown' = IF Reports(r) THEN [shown EXCEPT ![r[1]] = [running |-> busy, started |-> started]]
           ELSE shown

(* next, for a sync at an interval: at once, and then that long after the   *)
(* start of each run.                                                       *)
Due(r) == Of(r).last = 0 \/ now >= Of(r).last + Every

Manages == UNCHANGED <<now, wants, builds, running, enlisted, manager, asker>>

(* The timer, or a run asked for; when both are there, either.              *)
Fires(r) ==
  /\ Of(r).at = "waits" /\ ~Of(r).cancelled
  /\ \E asked \in BOOLEAN :
       /\ IF asked THEN Of(r).asked ELSE Due(r)
       /\ Becomes(r, [Of(r) EXCEPT !.at = "runs", !.started = now, !.last = now, !.busy = TRUE, !.missed = FALSE,
                                   !.asked = Of(r).asked /\ ~asked])
  /\ Report(r, TRUE, now)
  /\ Manages /\ UNCHANGED <<kept, troubles>>

(* A run comes to its end, also one that was to be stopped.                 *)
RunEnds(r) ==
  /\ Of(r).at = "runs"
  /\ Becomes(r, [Of(r) EXCEPT !.at = "keeps", !.busy = FALSE])
  /\ Report(r, FALSE, Of(r).started)
  /\ Manages /\ UNCHANGED <<kept, troubles>>

(* Its status is kept, or that fails.  A runner that was built before does  *)
(* not see it.                                                              *)
Keeps(r) ==
  /\ Of(r).at = "keeps"
  /\ runner' = [runner EXCEPT ![r[1]] = [b \in Builds |->
       IF b = r[2] THEN [runner[r[1]][b] EXCEPT !.at = "waits"]
       ELSE [runner[r[1]][b] EXCEPT !.missed = @ \/ runner[r[1]][b].at = "built"]]]
  /\ \/ kept' = [kept EXCEPT ![r[1]] = Of(r).started] /\ UNCHANGED troubles
     \/ troubles < MaxFaults /\ troubles' = troubles + 1 /\ UNCHANGED kept
  /\ Manages /\ UNCHANGED shown

(* A run that is stopped says nothing, and keeps nothing.                   *)
IsStopped(r) ==
  /\ Of(r).at = "runs" /\ Of(r).cancelled
  /\ Becomes(r, [Of(r) EXCEPT !.at = "waits"])
  /\ Manages /\ UNCHANGED <<kept, shown, troubles>>

(* The goroutine that waits for quit.                                       *)
Cancels(r) ==
  /\ Of(r).quit /\ ~Of(r).cancelled
  /\ Becomes(r, [Of(r) EXCEPT !.cancelled = TRUE])
  /\ Manages /\ UNCHANGED <<kept, shown, troubles>>

Returns(r) ==
  /\ Of(r).at = "waits" /\ Of(r).cancelled
  /\ Becomes(r, [Of(r) EXCEPT !.at = "done"])
  /\ Manages /\ UNCHANGED <<kept, shown, troubles>>

-----------------------------------------------------------------------------
(* The manager: New and Start, Reload, Shutdown.                            *)

(* build: each runner starts from what was kept, at this moment.            *)
(* Mutated: what was kept is not looked at.                                 *)
NoLastRun(s) == 0
LastRun(s) == kept[s]
Built == [s \in Syncs |-> [runner[s] EXCEPT ![builds + 1] =
            IF Wanted(s) THEN [NoRunner EXCEPT !.at = "built", !.job = wants[s], !.last = LastRun(s)]
            ELSE NoRunner]]

NewConfig ==
  /\ manager.at \in {"idle", "down"} /\ builds < MaxBuilds
  /\ wants' \in [Syncs -> Jobs \cup {"off", "gone"}] /\ wants' # wants
  /\ manager' = [manager EXCEPT !.at = IF @ = "down" THEN "down" ELSE "changed"]
  /\ UNCHANGED <<now, builds, running, runner, kept, enlisted, shown, asker, troubles>>

BuildsAll ==
  /\ manager.at \in {"changed", "down"} /\ builds < MaxBuilds
  /\ runner' = Built /\ builds' = builds + 1
  /\ manager' = [manager EXCEPT !.at = IF @ = "changed" THEN "compares" ELSE "stops",
                                !.next = [s \in Syncs |-> IF Wanted(s) THEN builds + 1 ELSE 0]]
  /\ UNCHANGED <<now, wants, running, kept, enlisted, shown, asker, troubles>>

(* One whose job did not change goes on, and the new one is let go.         *)
SameJob(s) ==
  running[s] # 0 /\ manager.next[s] # 0 /\ runner[s][running[s]].job = runner[s][builds].job

Compares ==
  /\ manager.at = "compares"
  /\ manager' = [manager EXCEPT !.at = "stops", !.next =
       [s \in Syncs |-> IF SameJob(s) THEN running[s] ELSE @[s]]]
  /\ runner' = [s \in Syncs |-> IF SameJob(s) THEN [runner[s] EXCEPT ![builds] = NoRunner]
                                ELSE runner[s]]
  /\ UNCHANGED <<now, wants, builds, running, kept, enlisted, shown, asker, troubles>>

Leaves(s) == running[s] # 0 /\ manager.next[s] # running[s]
Old(s) == <<s, running[s]>>

Quits(s) ==
  /\ manager.at = "stops" /\ Leaves(s) /\ ~Of(Old(s)).quit
  /\ \A o \in Syncs : Leaves(o) => ~Of(Old(o)).quit
  /\ Becomes(Old(s), [Of(Old(s)) EXCEPT !.quit = TRUE])
  /\ UNCHANGED <<now, wants, builds, running, kept, enlisted, shown, manager, asker, troubles>>

HasStopped(r) == Of(r).quit /\ Of(r).at = "done"

(* stop has waited; forget.                                                 *)
Forgets(s) ==
  /\ manager.at = "stops" /\ Leaves(s) /\ HasStopped(Old(s))
  /\ running' = [running EXCEPT ![s] = 0]
  /\ IF enlisted[s] = running[s]
     THEN enlisted' = [enlisted EXCEPT ![s] = 0] /\ shown' = [shown EXCEPT ![s] = Nothing]
     ELSE UNCHANGED <<enlisted, shown>>
  /\ UNCHANGED <<now, wants, builds, runner, kept, manager, asker, troubles>>

Launches(s) ==
  /\ manager.at = "stops" /\ \A o \in Syncs : ~Leaves(o)
  /\ running[s] = 0 /\ manager.next[s] # 0
  /\ running' = [running EXCEPT ![s] = manager.next[s]]
  /\ enlisted' = [enlisted EXCEPT ![s] = manager.next[s]]
  /\ runner' = [runner EXCEPT ![s][manager.next[s]].at = "waits"]
  /\ UNCHANGED <<now, wants, builds, kept, shown, manager, asker, troubles>>

(* Prune, by the supervisor; after a Shutdown the program ends.             *)
Finishes ==
  /\ manager.at = "stops" /\ running = manager.next
  /\ manager' = [at |-> IF manager.ends THEN "down" ELSE "idle", ends |-> FALSE, next |-> Off]
  /\ kept' = [s \in Syncs |-> IF wants[s] = "gone" /\ ~manager.ends THEN 0 ELSE kept[s]]
  /\ UNCHANGED <<now, wants, builds, running, runner, enlisted, shown, asker, troubles>>

(* Shutdown: everything is cancelled at once, and then stopped.             *)
Shutdown ==
  /\ manager.at = "idle"
  /\ manager' = [at |-> "stops", ends |-> TRUE, next |-> Off]
  /\ runner' = [s \in Syncs |-> [b \in Builds |->
       IF b = running[s] THEN [runner[s][b] EXCEPT !.cancelled = TRUE] ELSE runner[s][b]]]
  /\ UNCHANGED <<now, wants, builds, running, kept, enlisted, shown, asker, troubles>>

Crashes ==
  /\ troubles < MaxFaults /\ manager.at # "down"
  /\ troubles' = troubles + 1
  /\ manager' = [at |-> "down", ends |-> FALSE, next |-> Off]
  /\ running' = Off /\ enlisted' = Off /\ shown' = [s \in Syncs |-> Nothing]
  /\ runner' = [s \in Syncs |-> [b \in Builds |-> NoRunner]]
  /\ asker' = [a \in Askers |-> [at |-> "over", runner |-> <<0, 0>>]]
  /\ UNCHANGED <<now, wants, builds, kept>>

-----------------------------------------------------------------------------
(* Trigger: the runner is looked for, whether it runs, and it is asked.     *)
Asks(a, s) ==
  /\ asker[a].at = "new"
  /\ asker' = [asker EXCEPT ![a] = IF enlisted[s] # 0 THEN [at |-> "found", runner |-> <<s, enlisted[s]>>]
                                   ELSE [@ EXCEPT !.at = "over"]]
  /\ UNCHANGED <<now, wants, builds, running, runner, kept, enlisted, shown, manager, troubles>>

Looks(a) ==
  /\ asker[a].at = "found"
  /\ asker' = [asker EXCEPT ![a].at = IF Of(asker[a].runner).busy THEN "over" ELSE "free"]
  /\ UNCHANGED <<now, wants, builds, running, runner, kept, enlisted, shown, manager, troubles>>

Sends(a) ==
  /\ asker[a].at = "free"
  /\ Becomes(asker[a].runner, [Of(asker[a].runner) EXCEPT !.asked = TRUE])
  /\ asker' = [asker EXCEPT ![a].at = "over"]
  /\ UNCHANGED <<now, wants, builds, running, kept, enlisted, shown, manager, troubles>>

Passes ==
  /\ now < MaxTime /\ now' = now + 1
  /\ UNCHANGED <<wants, builds, running, runner, kept, enlisted, shown, manager, asker, troubles>>

-----------------------------------------------------------------------------
SyncManagerInit ==
  /\ now = 1 /\ wants = [s \in Syncs |-> "one"]
  /\ builds = 0 /\ running = Off
  /\ runner = [s \in Syncs |-> [b \in Builds |-> NoRunner]]
  /\ kept = Off /\ enlisted = Off /\ shown = [s \in Syncs |-> Nothing]
  /\ manager = [at |-> "down", ends |-> FALSE, next |-> Off]
  /\ asker = [a \in Askers |-> [at |-> "new", runner |-> <<0, 0>>]]
  /\ troubles = 0

SyncManagerNext ==
  \/ \E r \in Runners : Fires(r) \/ RunEnds(r) \/ Keeps(r) \/ IsStopped(r) \/ Cancels(r) \/ Returns(r)
  \/ \E s \in Syncs : Quits(s) \/ Forgets(s) \/ Launches(s)
  \/ NewConfig \/ BuildsAll \/ Compares \/ Finishes \/ Shutdown \/ Crashes
  \/ \E a \in Askers : Looks(a) \/ Sends(a) \/ \E s \in Syncs : Asks(a, s)
  \/ Passes

SyncManagerSpec == SyncManagerInit /\ [][SyncManagerNext]_syncManagerVars

-----------------------------------------------------------------------------
(* "so that the one that replaces it never works on the folders at the same *)
(* time" (src/internal/syncer/runner.go:191): of one sync there is one run, *)
(* whatever is reloaded, asked for and cut short.  What is shown is the     *)
(* status of the runner there is, and nothing of a sync that was taken out. *)
OneRunPerSync ==
  \A s \in Syncs :
    /\ \A b, c \in Builds : Working(<<s, b>>) /\ Working(<<s, c>>) => b = c
    /\ enlisted[s] # 0 => shown[s].started \in {0, runner[s][enlisted[s]].started}
    /\ manager.at = "idle" => enlisted[s] = running[s]
    /\ enlisted[s] = 0 => shown[s] = Nothing

(* Not "again before it is due" (src/internal/syncer/syncer.go:58): a run   *)
(* nobody asked for begins no sooner than the interval after the last whose *)
(* status was kept, through reloads, ends and crashes; but for a runner     *)
(* that was built before that status was kept.                              *)
RunsWhenDue ==
  [][\A r \in Runners :
       Of(r).at = "waits" /\ Of(r)'.at = "runs" /\ ~Of(r).asked /\ ~Of(r).missed /\ kept[r[1]] # 0
         => now >= kept[r[1]] + Every]_syncManagerVars

(* A sync runs when it is due, and never beside itself.                     *)
SyncsTakeTurns == []OneRunPerSync /\ RunsWhenDue
=============================================================================
