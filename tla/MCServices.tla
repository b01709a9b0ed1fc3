----------------------------- MODULE MCServices -----------------------------
(***************************************************************************)
(* What works beside the requests and between them, one part at a time: a  *)
(* sync, the lock of addresses, the session of a browser, the transfers.   *)
(* The parts share no variable; the ones that are not looked at stay as    *)
(* they are.                                                               *)
(***************************************************************************)
EXTENDS SyncRun, TLC

CONSTANTS
  x1, x2, x3, r1, r2, c, d, p, q,
  Addresses, Slots, Attempts, Lockout, EvictAbove, SweepEvery, MaxTracked, ShedBatch,
  Settings, Nobody, Leeway, MaxTime, MaxReloads, MaxLogins, Jobs, Selections, Unmade, Limit,
  k1, k2, t1, t2, PackageNames, PackageKinds, Configs, PackageFiles, KeepNewest, MaxClock, MaxPackages, MaxRestarts

VARIABLES
  part,                                                 \* what is looked at
  clients, swept, now, login, guesses,                  \* Throttle
  current, reloads, clock, jar, request, logins, used,  \* Browser
  job, uploads, server,                                 \* Transfers
  kind, config, packages, metadata, cache, runner, look, recent, cut, left \* Repo

MCTree == {<<"d">>, <<"d", "g">>}

Setting(password, http, registry, idle, max) ==
  [password |-> password, http |-> http, registry |-> registry, idle |-> idle, max |-> max]
MCSettings ==
  {Setting(p, TRUE, TRUE, 2, 3), Setting(q, FALSE, TRUE, 3, 2), Setting(p, TRUE, FALSE, 2, 2)}
MCLimit == [import |-> 2, fetch |-> 1]

Throttle == INSTANCE LoginThrottle
Browser == INSTANCE Sessions
Transfers == INSTANCE TransferJobs

(* Durations and limits are numbers; to choose is not to choose nothing.    *)
ASSUME ServicesAssumption ==
  /\ Settings # {} /\ \A set \in Settings : set.idle \in Nat /\ set.max \in Nat
  /\ Leeway \in Nat /\ MaxTime \in Nat
  /\ IsFiniteSet(Jobs) /\ Limit \in [Transfers!Kinds -> Nat] /\ Selections # {} /\ Unmade \notin Selections

(* The limits of the lock and of its table, as they are configured and       *)
(* declared; and a request that waits for nothing is of no address.         *)
ASSUME ThrottleAssumption ==
  /\ Attempts \in Nat \ {0} /\ Lockout \in Nat \ {0} /\ IsFiniteSet(Slots) /\ Throttle!Free \notin Addresses
  /\ EvictAbove \in Nat /\ MaxTracked \in Nat /\ EvictAbove <= MaxTracked /\ ShedBatch \in 1 .. MaxTracked

Configured(key, title) == [key |-> key, title |-> title]
MCConfigs == {Configured(k1, t1), Configured(k1, t2), Configured(k2, t1)}
Package(version, key, whole) == [version |-> version, key |-> key, whole |-> whole]
MCPackages == {Package(1, Nobody, TRUE), Package(2, Nobody, TRUE), Package(1, k1, TRUE), Package(1, Nobody, FALSE)}
Repo == INSTANCE Repository WITH
  folder <- packages, Names <- PackageNames, Kinds <- PackageKinds, Settings <- Configs,
  Files <- PackageFiles, Keep <- KeepNewest, MaxTime <- MaxClock, MaxChanges <- MaxPackages, MaxReloads <- MaxRestarts, Nothing <- Nobody

(* The packages have an order of their names and of their versions, keep is *)
(* a number of them, and nothing is none of what a repository keeps.        *)
ASSUME RepositoryAssumption ==
  /\ PackageNames \subseteq Nat /\ IsFiniteSet(PackageNames)
  /\ PackageKinds \subseteq {"rpm", "fdroid", "jellyfin"} /\ PackageFiles \subseteq Repo!Packages
  /\ KeepNewest \in Nat /\ {MaxClock, MaxPackages, MaxRestarts, MaxFaults} \subseteq Nat
  /\ Nobody \notin Repo!Packages /\ Nobody \notin Repo!Knowledge /\ Nobody \notin Repo!Finds
  /\ Nobody \notin Repo!Docs /\ Nobody \notin Repo!Listings /\ Nobody \notin {"ok", "failed"}

Symmetry == Permutations(Slots)

ofThrottle == <<clients, swept, now, login, guesses>>
ofBrowser == <<current, reloads, clock, jar, request, logins, used>>
ofTransfers == <<job, uploads, server>>
ofRepo == <<kind, config, packages, metadata, cache, runner, look, recent, cut, left>>
servicesVars == <<part, syncVars, ofThrottle, ofBrowser, ofTransfers, ofRepo>>

(* A sync both ways is taken with the trash and more than the paths here on *)
(* each side, or with neither; to lose files that nobody removed takes the  *)
(* trash and a change more than else: a removal there, one here, a folder.  *)
ServicesInit ==
  /\ part \in {"sync", "throttle", "browser", "transfers", "repository"}
  /\ SyncInit /\ (part # "sync" => direction = "both" /\ ~delete)
  /\ trash = besides /\ (trash => direction = "both")
  /\ Throttle!ThrottleInit
  /\ Browser!SessionInit /\ (part # "browser" => current = Setting(p, TRUE, TRUE, 2, 3))
  /\ Transfers!JobInit
  /\ Repo!RepositoryInit /\ config = Configured(k1, t1) /\ (part # "repository" => kind = "rpm")

ServicesNext ==
  \/ part = "sync" /\ SyncNext /\ (trash \/ changes' < MaxChanges)
       /\ UNCHANGED <<part, ofThrottle, ofBrowser, ofTransfers, ofRepo>>
  \/ part = "throttle" /\ Throttle!ThrottleNext
       /\ UNCHANGED <<part, syncVars, ofBrowser, ofTransfers, ofRepo>>
  \/ part = "browser" /\ Browser!SessionNext
       /\ UNCHANGED <<part, syncVars, ofThrottle, ofTransfers, ofRepo>>
  \/ part = "transfers" /\ Transfers!JobNext
       /\ UNCHANGED <<part, syncVars, ofThrottle, ofBrowser, ofRepo>>
  \/ part = "repository" /\ Repo!RepositoryNext
       /\ UNCHANGED <<part, syncVars, ofThrottle, ofBrowser, ofTransfers>>

ServicesSpec == ServicesInit /\ [][ServicesNext]_servicesVars

(* No address has more passwords judged than two windows and a burst       *)
(* bring (LoginThrottle).                                                  *)
GuessesAreBounded == Throttle!GuessesAreBounded

(* A session is of a login there was, and ends (Sessions).                 *)
SessionsEnd == Browser!SessionsEnd

(* A job ends as it says it did, and leaves nothing (TransferJobs).        *)
JobsEndAsTheySay == Transfers!JobsEndAsTheySay

(* What a repository serves is of its folder, and its runner changes the   *)
(* folder only by what it read (Repository).                                *)
KeepsItsRepository == Repo!KeepsItsRepository
=============================================================================
