----------------------- MODULE DiskFolder_proofs -----------------------
(***************************************************************************)
(* Proofs about DiskFolder, for any images, sessions, tasks and workloads. *)
(* The inductive invariant is built in layers: the types (Typed); what a   *)
(* task holds and has open by how far it is (Control), with what the       *)
(* registry keeps apart (Leases, of DiskRegistry_proofs); the marks on     *)
(* staging files (WorkOK); names, handles and lengths (FilesOK); what a    *)
(* download or a clone has copied (CopiesOK); and what is staged of an     *)
(* upload and the names about to be given (UploadsOK, NamesFree).          *)
(***************************************************************************)
EXTENDS DiskFolder, Integers, FiniteSetTheorems, SequenceTheorems, TLAPS

RegP == INSTANCE DiskRegistry_proofs

-----------------------------------------------------------------------------
(* The folder uses the registry as DiskRegistry says.                       *)

LEMMA SameSets ==
    \A S : (RegP!IsFiniteSet(S) <=> IsFiniteSet(S)) /\ RegP!Cardinality(S) = Cardinality(S)
BY DEF IsFiniteSet, RegP!IsFiniteSet, Cardinality, RegP!Cardinality

LEMMA SessionSteps ==
    ASSUME NEW s \in Sessions, Session(s) PROVE [RegP!Next]_(RegP!regVars)
<1>1. CASE Ask(s)
  BY <1>1 DEF Ask, Reg!Ask, RegP!Ask, Reg!Become, RegP!Become, RegP!Step, RegP!Next
<1>2. CASE Acquire(s)
  <2>1. CASE Reg!Attach(s)
    <3>1. RegP!Attach(s)
      BY <2>1 DEF Reg!Attach, RegP!Attach, Reg!Become, RegP!Become, Reg!SessionRefused, RegP!SessionRefused,
         Reg!RefusedWriter, RegP!RefusedWriter, Reg!Refused, RegP!Refused, Reg!TakesOver, RegP!TakesOver,
         Reg!Granted, RegP!Granted
    <3> QED BY <3>1 DEF RegP!Step, RegP!Next
  <2>2. CASE Reg!Refuse(s)
    <3>1. RegP!Refuse(s)
      BY <2>2 DEF Reg!Refuse, RegP!Refuse, Reg!Become, RegP!Become, Reg!SessionRefused, RegP!SessionRefused,
         Reg!RefusedWriter, RegP!RefusedWriter, Reg!Refused, RegP!Refused, Reg!TakesOver, RegP!TakesOver
    <3> QED BY <3>1 DEF RegP!Step, RegP!Next
  <2>3. CASE Reg!PickVictim(s)
    <3>1. RegP!PickVictim(s)
      BY <2>3 DEF Reg!PickVictim, RegP!PickVictim, Reg!Become, RegP!Become, Reg!SessionRefused, RegP!SessionRefused,
         Reg!RefusedWriter, RegP!RefusedWriter, Reg!Refused, RegP!Refused, Reg!TakesOver, RegP!TakesOver
    <3> QED BY <3>1 DEF RegP!Step, RegP!Next
  <2>4. CASE Reg!Evict(s)
    BY <2>4 DEF Reg!Evict, RegP!Evict, Reg!Become, RegP!Become, RegP!Step, RegP!Next
  <2>5. CASE Reg!Retry(s)
    BY <2>5 DEF Reg!Retry, RegP!Retry, Reg!Become, RegP!Become, RegP!Step, RegP!Next
  <2>6. CASE Reg!GiveUp(s)
    BY <2>6 DEF Reg!GiveUp, RegP!GiveUp, Reg!Become, RegP!Become, RegP!Step, RegP!Next
  <2> QED BY <1>2, <2>1, <2>2, <2>3, <2>4, <2>5, <2>6 DEF Acquire
<1>3. CASE Disconnect(s)
  BY <1>3 DEF Disconnect, Reg!Disconnect, RegP!Disconnect, RegP!Step, RegP!Next
<1>4. CASE Detach(s)
  <2>1. RegP!Detach(s)
    BY <1>4 DEF Detach, Reg!Detach, RegP!Detach, Reg!Become, RegP!Become, Reg!Returned, RegP!Returned
  <2> QED BY <2>1 DEF RegP!Step, RegP!Next
<1>5. CASE Open(s) \/ Shut(s) \/ \E b \in 1..MaxLen, v \in Blocks : Write(s, b, v)
  BY <1>5 DEF Open, Shut, Write, regVars, RegP!regVars
<1> QED BY <1>1, <1>2, <1>3, <1>4, <1>5 DEF Session

LEMMA LeaseSteps ==
    ASSUME NEW t \in Tasks, NEW k \in Keys, NEW mode \in Reg!TaskModes,
           Reg!TakeLease(t, k, mode) \/ Reg!DropLease(t, k, mode)
    PROVE  RegP!Next
<1>1. mode \in RegP!TaskModes
  BY DEF Reg!TaskModes, RegP!TaskModes
<1>2. CASE Reg!TakeLease(t, k, mode)
  <2>1. RegP!TakeLease(t, k, mode)
    BY <1>2 DEF Reg!TakeLease, RegP!TakeLease, Reg!TaskModes, RegP!TaskModes, Reg!Refused, RegP!Refused,
       Reg!Granted, RegP!Granted
  <2> QED BY <1>1, <2>1 DEF RegP!TaskStep, RegP!Next
<1>3. CASE Reg!DropLease(t, k, mode)
  <2>1. RegP!DropLease(t, k, mode)
    BY <1>3 DEF Reg!DropLease, RegP!DropLease, Reg!Returned, RegP!Returned
  <2> QED BY <1>1, <2>1 DEF RegP!TaskStep, RegP!Next
<1> QED BY <1>2, <1>3

LEMMA RestartStep == Restart => RegP!Next
BY DEF Restart, Reg!Restart, RegP!Restart, RegP!Next, Reg!Empty, RegP!Empty

-----------------------------------------------------------------------------
(* What a request may be.                                                   *)
Ats == {"idle", "lock", "lock2", "act", "extend", "move", "copy", "clear", "begin", "block", "check",
        "mutex", "fit", "open", "landed", "unlock", "whole", "release"}

JobRecord ==
    [at : Ats, op : Ops \union {None}, from : Keys \union {None}, to : Keys \union {None},
     size : Nat, may : BOOLEAN, start : Nat, end : Nat, pos : Nat, got : Seq(Blocks)]

(* Where an operation may be.                                               *)
InPlace(j) ==
    \/ j.op \in {"create", "resize"} /\ j.at \in {"lock", "act", "extend", "release"}
    \/ j.op = "rename" /\ j.at \in {"lock", "lock2", "act", "move", "release"}
    \/ j.op = "delete" /\ j.at \in {"lock", "act", "release"}
    \/ j.op = "download" /\ j.at \in {"lock", "act", "copy", "release"}
    \/ j.op = "clone" /\ j.at \in {"lock", "lock2", "act", "clear", "begin", "copy", "block",
                                   "check", "move", "release"}
    \/ j.op = "upload" /\ j.at \in {"mutex", "fit", "open", "clear", "block", "landed", "unlock",
                                    "whole", "lock", "act", "move", "release"}

JobOK(j) ==
    \/ j = Idle
    \/ /\ InPlace(j) /\ j.from \in Keys
       /\ j.op \in {"rename", "clone"} => j.to \in Keys
       /\ j.op = "clone" => j.from # j.to

MayBe(S) == S \union {None}

Typed ==
    /\ dir \in [Keys -> MayBe(Inodes)]
    /\ staged \in [Kinds \X Keys -> MayBe(Inodes)]
    /\ data \in [Inodes -> Seq(Blocks)]
    /\ file \in [Sessions -> MayBe(Inodes)] /\ told \in [Sessions -> MayBe(Nat)]
    /\ reads \in [Tasks -> MayBe(Inodes)] /\ writes \in [Tasks -> MayBe(Inodes)]
    /\ job \in [Tasks -> JobRecord] /\ \A t \in Tasks : JobOK(job[t])
    /\ uploading \in [Keys -> MayBe(Tasks)] /\ work \in [Kinds \X Keys -> Int]
    /\ sweep \in [at : {"idle", "seen", "remove"}, kind : Kinds, key : MayBe(Keys)]
    /\ sweep.at # "idle" => sweep.key \in Keys
    /\ sent \in [Keys -> Seq(Blocks)]

-----------------------------------------------------------------------------
(* What a request holds and has open, by how far it is.                     *)
Mode(op) == IF op \in {"download", "clone"} THEN "Hold" ELSE "Exclusive"
TakesTwo(j) == j.op = "clone" \/ (j.op = "rename" /\ j.to # j.from)
First(j) == <<j.from, Mode(j.op)>>
Second(j) == <<j.to, "Exclusive">>
AllOf(j) == IF TakesTwo(j) THEN {First(j), Second(j)} ELSE {First(j)}

OfAChunk == {"fit", "open", "clear", "block", "landed", "unlock"}
BeforeLeases(j) ==
    j.at \in {"idle", "lock"} \/ (j.op = "upload" /\ j.at \in OfAChunk \union {"mutex", "whole"})

LeasesOK(t) ==
    LET j == job[t] IN
    /\ BeforeLeases(j) => leases[t] = {}
    /\ j.at = "lock2" => leases[t] = {First(j)} /\ TakesTwo(j)
    /\ j.at = "release" => leases[t] \subseteq AllOf(j)
    /\ ~BeforeLeases(j) /\ j.at \notin {"lock2", "release"} => leases[t] = AllOf(j)

ReadsAt(j) == (j.op = "download" /\ j.at = "copy") \/ (j.op = "clone" /\ j.at = "block")
WritesAt(j) ==
    \/ j.op \in {"create", "resize"} /\ j.at = "extend"
    \/ j.op = "clone" /\ j.at = "block"
    \/ j.op = "upload" /\ j.at \in {"clear", "block"}

HandlesOK(t) ==
    /\ reads[t] # None <=> ReadsAt(job[t])
    /\ WritesAt(job[t]) => writes[t] # None
    /\ writes[t] # None => WritesAt(job[t]) \/ (job[t].op = "upload" /\ job[t].at \in {"landed", "unlock"})

MutexOK(t) ==
    \A k \in Keys : uploading[k] = t <=> job[t].op = "upload" /\ job[t].from = k /\ job[t].at \in OfAChunk

Control == \A t \in Tasks : LeasesOK(t) /\ HandlesOK(t) /\ MutexOK(t)

-----------------------------------------------------------------------------
(* Contents of files.                                                       *)
LEMMA TruncatedType ==
    ASSUME NEW b \in Seq(Blocks), NEW n \in Nat
    PROVE  /\ Truncated(b, n) \in Seq(Blocks) /\ Len(Truncated(b, n)) = n
           /\ \A i \in 1..n : Truncated(b, n)[i] = IF i <= Len(b) THEN b[i] ELSE 0
<1>1. Truncated(b, n) \in [1..n -> Blocks]
  BY FolderAssumption DEF Truncated
<1>2. Truncated(b, n) \in Seq(Blocks)
  BY <1>1
<1> QED BY <1>1, <1>2 DEF Truncated

LEMMA WrittenType ==
    ASSUME NEW b \in Seq(Blocks), NEW n \in Nat \ {0}, NEW v \in Blocks
    PROVE  /\ Written(b, n, v) \in Seq(Blocks)
           /\ Len(Written(b, n, v)) = IF n > Len(b) THEN n ELSE Len(b)
           /\ \A i \in 1..Len(Written(b, n, v)) :
                 Written(b, n, v)[i] = IF i = n THEN v ELSE IF i <= Len(b) THEN b[i] ELSE 0
<1>1. PICK m : m = IF n > Len(b) THEN n ELSE Len(b)
  OBVIOUS
<1>2. m \in Nat /\ n \in 1..m
  BY <1>1
<1>3. PICK c : c = Truncated(b, m)
  OBVIOUS
<1>4. /\ c \in Seq(Blocks) /\ Len(c) = m
      /\ \A i \in 1..m : c[i] = IF i <= Len(b) THEN b[i] ELSE 0
  BY <1>2, <1>3, TruncatedType
<1>5. Written(b, n, v) = [c EXCEPT ![n] = v]
  BY <1>1, <1>3 DEF Written
<1> QED BY <1>1, <1>2, <1>4, <1>5

LEMMA ZerosType ==
    ASSUME NEW n \in Nat
    PROVE  Zeros(n) \in Seq(Blocks) /\ Len(Zeros(n)) = n /\ \A i \in 1..n : Zeros(n)[i] = 0
<1>1. Zeros(n) \in [1..n -> Blocks]
  BY FolderAssumption DEF Zeros
<1>2. Zeros(n) \in Seq(Blocks)
  BY <1>1
<1> QED BY <1>1, <1>2 DEF Zeros

LEMMA StoreKeeps ==
    ASSUME NEW c \in [Inodes -> Seq(Blocks)], Store(c)
    PROVE  /\ data' \in [Inodes -> Seq(Blocks)]
           /\ \A i \in Inodes : InUse(i)' => data'[i] = c[i]
<1>1. << >> \in Seq(Blocks)
  OBVIOUS
<1> QED BY <1>1 DEF Store

RoomForAFile == \E i \in Inodes : ~InUse(i)

LEMMA NewInodeIsFree == RoomForAFile => NewInode \in Inodes /\ ~InUse(NewInode)
BY DEF RoomForAFile, NewInode

-----------------------------------------------------------------------------
(* How a job moves on.                                                      *)
SameBut(t) ==
    /\ job'[t].op = job[t].op /\ job'[t].from = job[t].from /\ job'[t].to = job[t].to
    /\ job'[t].size = job[t].size /\ job'[t].start = job[t].start /\ job'[t].end = job[t].end

OthersWait(t) == \A u \in Tasks \ {t} : job'[u] = job[u]

LEMMA GoFacts ==
    ASSUME Typed, NEW t \in Tasks, NEW at \in Ats, Go(t, at)
    PROVE  /\ job' \in [Tasks -> JobRecord] /\ job'[t].at = at /\ SameBut(t) /\ OthersWait(t)
           /\ job'[t].may = job[t].may /\ job'[t].pos = job[t].pos /\ job'[t].got = job[t].got
<1>1. PICK new : new = [job[t] EXCEPT !.at = at]
  OBVIOUS
<1>2. job[t] \in JobRecord
  BY DEF Typed
<1>3. /\ new \in JobRecord /\ new.at = at /\ new.op = job[t].op /\ new.from = job[t].from /\ new.to = job[t].to
      /\ new.size = job[t].size /\ new.start = job[t].start /\ new.end = job[t].end
      /\ new.may = job[t].may /\ new.pos = job[t].pos /\ new.got = job[t].got
  BY <1>1, <1>2 DEF JobRecord
<1>4. job' = [job EXCEPT ![t] = new] /\ job'[t] = new
  BY <1>1 DEF Go, Typed
<1>5. job' \in [Tasks -> JobRecord]
  BY <1>3, <1>4 DEF Typed
<1> QED BY <1>3, <1>4, <1>5 DEF SameBut, OthersWait, Typed

-----------------------------------------------------------------------------
(* What the leases of the registry keep apart.                              *)
Leases ==
    /\ pc \in [Sessions -> RegP!PCs] /\ ask \in [Sessions -> [key : Keys, mode : Reg!SessionModes]]
    /\ leases \in [Tasks -> SUBSET (Keys \X Reg!TaskModes)]
    /\ \A t, u \in Tasks, k \in Keys, m \in Reg!TaskModes :
          <<k, "Exclusive">> \in leases[t] /\ <<k, m>> \in leases[u] => t = u
    /\ \A s \in Sessions, t \in Tasks : pc[s] = "attached" =>
          /\ <<ask[s].key, "Exclusive">> \notin leases[t]
          /\ ask[s].mode = "Writer" => <<ask[s].key, "Hold">> \notin leases[t]
    /\ \A r, s \in Sessions :
          /\ pc[r] = "attached" /\ ask[r].mode = "Writer"
          /\ pc[s] = "attached" /\ ask[s].mode = "Writer" /\ ask[r].key = ask[s].key
          => r = s

LEMMA RegistryFacts == RegP!IInv => Leases
<1> SUFFICES ASSUME RegP!IInv PROVE Leases
  OBVIOUS
<1>1. /\ pc \in [Sessions -> RegP!PCs] /\ ask \in [Sessions -> [key : Keys, mode : Reg!SessionModes]]
      /\ leases \in [Tasks -> SUBSET (Keys \X Reg!TaskModes)]
      /\ entries \in [Keys -> RegP!Entry]
  BY DEF RegP!IInv, RegP!TypeOK, RegP!SessionModes, Reg!SessionModes, RegP!TaskModes, Reg!TaskModes
<1>2. ASSUME NEW k \in Keys
      PROVE  /\ RegP!Attached(k, "Writer") = {entries[k].writer} \ {None}
             /\ RegP!Attached(k, "Reader") = entries[k].readers
             /\ entries[k].exclusive <=> RegP!Holding(k, "Exclusive") # {}
             /\ entries[k].exclusive => entries[k].writer = None /\ entries[k].readers = {} /\ entries[k].holds = 0
             /\ entries[k].writer # None => entries[k].holds = 0
             /\ \A t, u \in RegP!Holding(k, "Exclusive") : t = u
  BY DEF RegP!IInv, RegP!EntriesMatchLeases, RegP!EntriesExclude, RegP!OneExclusive
<1>3. ASSUME NEW k \in Keys, entries[k].holds = 0 PROVE RegP!Holding(k, "Hold") = {}
  BY <1>3, SameSets, FolderAssumption, RegP!NoHolders DEF RegP!IInv
<1>4. ASSUME NEW t \in Tasks, NEW u \in Tasks, NEW k \in Keys, NEW m \in Reg!TaskModes,
             <<k, "Exclusive">> \in leases[t], <<k, m>> \in leases[u]
      PROVE  t = u
  <2>1. t \in RegP!Holding(k, "Exclusive") /\ entries[k].exclusive
    BY <1>2, <1>4 DEF RegP!Holding
  <2>2. RegP!Holding(k, "Hold") = {}
    BY <1>2, <1>3, <2>1
  <2>3. u \notin RegP!Holding(k, "Hold")
    BY <2>2
  <2>4. m = "Exclusive"
    BY <1>4, <2>3 DEF RegP!Holding, Reg!TaskModes
  <2>5. u \in RegP!Holding(k, "Exclusive")
    BY <1>4, <2>4 DEF RegP!Holding
  <2> QED BY <1>2, <2>1, <2>5
<1>5. ASSUME NEW s \in Sessions, pc[s] = "attached"
      PROVE  /\ s \in RegP!Attached(ask[s].key, ask[s].mode) /\ ask[s].key \in Keys
             /\ ask[s].mode \in {"Reader", "Writer"} /\ s # None
  BY <1>1, <1>5, FolderAssumption DEF RegP!Attached, Reg!SessionModes
<1>6. ASSUME NEW s \in Sessions, NEW t \in Tasks, pc[s] = "attached"
      PROVE  /\ <<ask[s].key, "Exclusive">> \notin leases[t]
             /\ ask[s].mode = "Writer" => <<ask[s].key, "Hold">> \notin leases[t]
  <2>1. PICK k \in Keys : k = ask[s].key
    BY <1>5, <1>6
  <2>2. s \in RegP!Attached(k, ask[s].mode)
    BY <1>5, <1>6, <2>1
  <2>3. ~entries[k].exclusive
    BY <1>2, <1>5, <1>6, <2>2
  <2>4. ask[s].mode = "Writer" => entries[k].writer = s /\ entries[k].holds = 0
    BY <1>2, <1>5, <1>6, <2>2
  <2>5. ask[s].mode = "Writer" => RegP!Holding(k, "Hold") = {}
    BY <1>3, <2>4
  <2>6. RegP!Holding(k, "Exclusive") = {}
    BY <1>2, <2>3
  <2> QED BY <2>1, <2>5, <2>6 DEF RegP!Holding
<1>7. ASSUME NEW r \in Sessions, NEW s \in Sessions, pc[r] = "attached", ask[r].mode = "Writer",
             pc[s] = "attached", ask[s].mode = "Writer", ask[r].key = ask[s].key
      PROVE  r = s
  <2>1. PICK k \in Keys : k = ask[s].key
    BY <1>5, <1>7
  <2>2. r \in RegP!Attached(k, "Writer") /\ s \in RegP!Attached(k, "Writer")
    BY <1>5, <1>7, <2>1
  <2> QED BY <1>2, <2>2
<1> QED BY <1>1, <1>4, <1>6, <1>7 DEF Leases

-----------------------------------------------------------------------------
(* The steps by which a job goes on under what it holds.                    *)
GoesFrom(j, at) ==
    \/ j.op \in {"create", "resize"} /\ j.at = "act" /\ at \in {"extend", "release"}
    \/ j.op \in {"create", "resize"} /\ j.at = "extend" /\ at = "release"
    \/ j.op = "rename" /\ j.at = "act" /\ at \in {"move", "release"}
    \/ j.op \in {"rename", "clone", "upload"} /\ j.at = "move" /\ at = "release"
    \/ j.op = "delete" /\ j.at = "act" /\ at = "release"
    \/ j.op = "download" /\ j.at \in {"act", "copy"} /\ at \in {"copy", "release"}
    \/ j.op = "clone" /\ j.at = "act" /\ at \in {"clear", "release"}
    \/ j.op = "clone" /\ j.at = "clear" /\ at = "begin"
    \/ j.op = "clone" /\ j.at = "begin" /\ at = "copy"
    \/ j.op = "clone" /\ j.at \in {"copy", "block"} /\ at \in {"block", "check", "release"}
    \/ j.op = "clone" /\ j.at = "check" /\ at \in {"move", "release"}
    \/ j.op = "upload" /\ j.at = "mutex" /\ at = "release"
    \/ j.op = "upload" /\ j.at = "whole" /\ at \in {"lock", "release"}
    \/ j.op = "upload" /\ j.at = "act" /\ at \in {"move", "release"}
    \/ j.op = "upload" /\ j.at = "fit" /\ at \in {"open", "unlock", "landed"}
    \/ j.op = "upload" /\ j.at = "open" /\ at \in {"clear", "block"}
    \/ j.op = "upload" /\ j.at \in {"clear", "block"} /\ at \in {"block", "unlock", "landed"}

(* ... or takes or lets go of the mutex of an upload.                       *)
PassesMutex(j, at) ==
    \/ j.op = "upload" /\ j.at = "mutex" /\ at = "fit"
    \/ j.op = "upload" /\ j.at \in {"landed", "unlock"} /\ at \in {"whole", "release"}

LEMMA OthersControl ==
    ASSUME Control, NEW t \in Tasks, OthersWait(t),
           \A u \in Tasks \ {t} :
              /\ leases'[u] = leases[u] /\ reads'[u] = reads[u] /\ writes'[u] = writes[u]
              /\ \A k \in Keys : uploading'[k] = u <=> uploading[k] = u,
           LeasesOK(t)', HandlesOK(t)', MutexOK(t)'
    PROVE  Control'
<1>1. ASSUME NEW u \in Tasks \ {t} PROVE LeasesOK(u)' /\ HandlesOK(u)' /\ MutexOK(u)'
  <2>1. LeasesOK(u) /\ HandlesOK(u) /\ MutexOK(u)
    BY DEF Control
  <2>2. job'[u] = job[u]
    BY DEF OthersWait
  <2>3. LeasesOK(u)'
    BY <2>1, <2>2 DEF LeasesOK
  <2>4. HandlesOK(u)'
    BY <2>1, <2>2 DEF HandlesOK
  <2>5. MutexOK(u)'
    BY <2>1, <2>2 DEF MutexOK
  <2> QED BY <2>3, <2>4, <2>5
<1> QED BY <1>1 DEF Control

LEMMA GoesOn ==
    ASSUME Typed, Control, NEW t \in Tasks, SameBut(t),
           GoesFrom(job[t], job'[t].at) \/ PassesMutex(job[t], job'[t].at), UNCHANGED leases
    PROVE  JobOK(job'[t]) /\ LeasesOK(t)'
<1>1. PICK j, n : j = job[t] /\ n = job'[t]
  OBVIOUS
<1>2. /\ n.op = j.op /\ n.from = j.from /\ n.to = j.to
      /\ GoesFrom(j, n.at) \/ PassesMutex(j, n.at)
  BY <1>1 DEF SameBut
<1>3. j.at # "idle"
  BY <1>2 DEF GoesFrom, PassesMutex
<1>4. /\ InPlace(j) /\ j.from \in Keys
      /\ j.op \in {"rename", "clone"} => j.to \in Keys
      /\ j.op = "clone" => j.from # j.to
  BY <1>1, <1>3 DEF Typed, JobOK, Idle
<1>5. InPlace(n)
  BY <1>2, <1>4 DEF InPlace, GoesFrom, PassesMutex
<1>6. JobOK(n)
  BY <1>2, <1>4, <1>5 DEF JobOK
<1>7. /\ BeforeLeases(n) => BeforeLeases(j)
      /\ n.at # "lock2"
      /\ n.at # "release" /\ ~BeforeLeases(n) => ~BeforeLeases(j) /\ j.at \notin {"lock2", "release"}
      /\ j.at \notin {"lock2", "release"}
  BY <1>2 DEF BeforeLeases, GoesFrom, PassesMutex, OfAChunk
<1>8. AllOf(n) = AllOf(j)
  BY <1>2 DEF AllOf, TakesTwo, First, Second
<1>9. LeasesOK(t) /\ leases'[t] = leases[t]
  BY DEF Control
<1>10. BeforeLeases(j) => leases[t] = {}
  BY <1>1, <1>9 DEF LeasesOK
<1>11. ~BeforeLeases(j) => leases[t] = AllOf(j)
  BY <1>1, <1>7, <1>9 DEF LeasesOK
<1>12. LeasesOK(t)'
  BY <1>1, <1>7, <1>8, <1>9, <1>10, <1>11 DEF LeasesOK
<1> QED BY <1>1, <1>6, <1>12

(* The step of a job that leaves leases and mutexes alone.                  *)
LEMMA StaysInControl ==
    ASSUME Typed, Control, NEW t \in Tasks, OthersWait(t), SameBut(t),
           GoesFrom(job[t], job'[t].at), UNCHANGED <<leases, uploading>>,
           \A u \in Tasks \ {t} : reads'[u] = reads[u] /\ writes'[u] = writes[u],
           HandlesOK(t)'
    PROVE  JobOK(job'[t]) /\ Control'
<1>1. JobOK(job'[t]) /\ LeasesOK(t)'
  BY GoesOn
<1>2. MutexOK(t)'
  <2>1. /\ job'[t].op = job[t].op /\ job'[t].from = job[t].from
        /\ (job'[t].op = "upload" /\ job'[t].at \in OfAChunk) <=> (job[t].op = "upload" /\ job[t].at \in OfAChunk)
    BY DEF SameBut, GoesFrom, OfAChunk
  <2>2. MutexOK(t)
    BY DEF Control
  <2> QED BY <2>1, <2>2 DEF MutexOK
<1> QED BY <1>1, <1>2, OthersControl

LEMMA SameHandles ==
    ASSUME Control, NEW t \in Tasks, SameBut(t), reads'[t] = reads[t], writes'[t] = writes[t],
           ReadsAt(job'[t]) <=> ReadsAt(job[t]),
           GoesFrom(job[t], job'[t].at),
           WritesAt(job'[t]) => WritesAt(job[t]),
           WritesAt(job[t]) => WritesAt(job'[t]) \/ (job'[t].op = "upload" /\ job'[t].at \in {"landed", "unlock"})
    PROVE  HandlesOK(t)'
<1>1. HandlesOK(t)
  BY DEF Control
<1>2. ~(job[t].op = "upload" /\ job[t].at \in {"landed", "unlock"})
  BY DEF GoesFrom
<1> QED BY <1>1, <1>2 DEF HandlesOK

-----------------------------------------------------------------------------
(* Types and control of a step of one task.                                 *)
LEMMA TypedStep ==
    ASSUME Typed, NEW t \in Tasks, OthersWait(t), job' \in [Tasks -> JobRecord], JobOK(job'[t]),
           dir' \in [Keys -> MayBe(Inodes)], staged' \in [Kinds \X Keys -> MayBe(Inodes)],
           data' \in [Inodes -> Seq(Blocks)], UNCHANGED <<file, told, sweep>>,
           reads' \in [Tasks -> MayBe(Inodes)], writes' \in [Tasks -> MayBe(Inodes)],
           uploading' \in [Keys -> MayBe(Tasks)], work' \in [Kinds \X Keys -> Int],
           sent' \in [Keys -> Seq(Blocks)]
    PROVE  Typed'
<1>1. \A u \in Tasks : JobOK(job'[u])
  BY DEF OthersWait, Typed
<1> QED BY <1>1 DEF Typed

LEMMA InKeys ==
    ASSUME Typed, NEW t \in Tasks, job[t].at # "idle"
    PROVE  /\ job[t] \in JobRecord /\ InPlace(job[t]) /\ job[t].from \in Keys /\ job[t].op \in Ops
           /\ job[t].op \in {"rename", "clone"} => job[t].to \in Keys
           /\ job[t].op = "clone" => job[t].from # job[t].to
<1>1. job[t] \in JobRecord /\ JobOK(job[t])
  BY DEF Typed
<1>2. job[t] # Idle
  BY DEF Idle
<1>3. InPlace(job[t]) => job[t].op \in Ops
  BY DEF InPlace, Ops
<1> QED BY <1>1, <1>2, <1>3 DEF JobOK

(* A step that only looks.                                                  *)
LEMMA Looks ==
    ASSUME Typed, Control, NEW t \in Tasks,
           \/ RenameCheck(t) \/ CloneCheck(t) \/ UploadFit(t) \/ FinishStat(t) \/ FinishCheck(t)
    PROVE  Typed' /\ Control'
<1>1. ASSUME NEW at \in Ats, Go(t, at), UNCHANGED fileVars, NoHandles, GoesFrom(job[t], at),
             ~ReadsAt(job[t]), ~WritesAt(job[t]), at \in {"move", "release", "open", "unlock", "landed", "lock"}
                                                  \/ (at = "clear" /\ job[t].op = "clone")
      PROVE  Typed' /\ Control'
  <2>1. /\ job' \in [Tasks -> JobRecord] /\ job'[t].at = at /\ SameBut(t) /\ OthersWait(t)
    BY <1>1, GoFacts
  <2>2. UNCHANGED <<leases, uploading, reads, writes, dir, staged, data, file, told, work, sweep, sent>>
    BY <1>1 DEF NoHandles, fileVars, handleVars, regVars
  <2>3. ~ReadsAt(job'[t]) /\ ~WritesAt(job'[t])
    BY <1>1, <2>1 DEF ReadsAt, WritesAt, SameBut
  <2>4. HandlesOK(t)'
    BY <1>1, <2>1, <2>2, <2>3, SameHandles
  <2>5. JobOK(job'[t]) /\ Control'
    BY <1>1, <2>1, <2>2, <2>4, StaysInControl
  <2>6. Typed'
    BY <2>1, <2>2, <2>5, TypedStep DEF Typed
  <2> QED BY <2>5, <2>6
<1>2. CASE RenameCheck(t)
  <2>1. PICK at \in {"move", "release"} : Go(t, at)
    BY <1>2 DEF RenameCheck
  <2>2. GoesFrom(job[t], at) /\ ~ReadsAt(job[t]) /\ ~WritesAt(job[t]) /\ UNCHANGED fileVars /\ NoHandles
        /\ (at = "clear" => job[t].op = "clone")
    BY <1>2 DEF RenameCheck, At, GoesFrom, ReadsAt, WritesAt
  <2>3. at \in Ats
    BY <2>1 DEF Ats
  <2> QED BY <1>1, <2>1, <2>2, <2>3
<1>3. CASE CloneCheck(t)
  <2>1. PICK at \in {"release", "clear"} : Go(t, at)
    BY <1>3 DEF CloneCheck
  <2>2. GoesFrom(job[t], at) /\ ~ReadsAt(job[t]) /\ ~WritesAt(job[t]) /\ UNCHANGED fileVars /\ NoHandles
        /\ (at = "clear" => job[t].op = "clone")
    BY <1>3 DEF CloneCheck, At, GoesFrom, ReadsAt, WritesAt
  <2>3. at \in Ats
    BY <2>1 DEF Ats
  <2> QED BY <1>1, <2>1, <2>2, <2>3
<1>4. CASE UploadFit(t)
  <2>1. PICK at \in {"open", "unlock", "landed"} : Go(t, at)
    BY <1>4 DEF UploadFit
  <2>2. GoesFrom(job[t], at) /\ ~ReadsAt(job[t]) /\ ~WritesAt(job[t]) /\ UNCHANGED fileVars /\ NoHandles
        /\ (at = "clear" => job[t].op = "clone")
    BY <1>4 DEF UploadFit, At, GoesFrom, ReadsAt, WritesAt
  <2>3. at \in Ats
    BY <2>1 DEF Ats
  <2> QED BY <1>1, <2>1, <2>2, <2>3
<1>5. CASE FinishStat(t)
  <2>1. PICK at \in {"lock", "release"} : Go(t, at)
    BY <1>5 DEF FinishStat
  <2>2. GoesFrom(job[t], at) /\ ~ReadsAt(job[t]) /\ ~WritesAt(job[t]) /\ UNCHANGED fileVars /\ NoHandles
        /\ (at = "clear" => job[t].op = "clone")
    BY <1>5 DEF FinishStat, At, GoesFrom, ReadsAt, WritesAt
  <2>3. at \in Ats
    BY <2>1 DEF Ats
  <2> QED BY <1>1, <2>1, <2>2, <2>3
<1>6. CASE FinishCheck(t)
  <2>1. PICK at \in {"move", "release"} : Go(t, at)
    BY <1>6 DEF FinishCheck
  <2>2. GoesFrom(job[t], at) /\ ~ReadsAt(job[t]) /\ ~WritesAt(job[t]) /\ UNCHANGED fileVars /\ NoHandles
        /\ (at = "clear" => job[t].op = "clone")
    BY <1>6 DEF FinishCheck, At, GoesFrom, ReadsAt, WritesAt
  <2>3. at \in Ats
    BY <2>1 DEF Ats
  <2> QED BY <1>1, <2>1, <2>2, <2>3
<1> QED BY <1>2, <1>3, <1>4, <1>5, <1>6

(* A step under the leases a task has, whatever it does to the files.       *)
LEMMA TaskMoves ==
    ASSUME Typed, Control, NEW t \in Tasks, job' \in [Tasks -> JobRecord], SameBut(t), OthersWait(t),
           GoesFrom(job[t], job'[t].at), UNCHANGED <<leases, file, told, uploading, sweep>>,
           dir' \in [Keys -> MayBe(Inodes)], staged' \in [Kinds \X Keys -> MayBe(Inodes)],
           data' \in [Inodes -> Seq(Blocks)], work' \in [Kinds \X Keys -> Int],
           sent' \in [Keys -> Seq(Blocks)],
           reads' \in [Tasks -> MayBe(Inodes)], writes' \in [Tasks -> MayBe(Inodes)],
           \A u \in Tasks \ {t} : reads'[u] = reads[u] /\ writes'[u] = writes[u], HandlesOK(t)'
    PROVE  Typed' /\ Control'
<1>1. JobOK(job'[t]) /\ Control'
  BY StaysInControl
<1>2. Typed'
  BY <1>1, TypedStep DEF Typed
<1> QED BY <1>1, <1>2

(* ... that leaves its handles as they are.                                 *)
LEMMA PlainMoves ==
    ASSUME Typed, Control, NEW t \in Tasks, job' \in [Tasks -> JobRecord], SameBut(t), OthersWait(t),
           GoesFrom(job[t], job'[t].at), UNCHANGED <<regVars, handleVars, uploading, sweep>>,
           dir' \in [Keys -> MayBe(Inodes)], staged' \in [Kinds \X Keys -> MayBe(Inodes)],
           data' \in [Inodes -> Seq(Blocks)], work' \in [Kinds \X Keys -> Int],
           sent' \in [Keys -> Seq(Blocks)],
           ReadsAt(job'[t]) <=> ReadsAt(job[t]), WritesAt(job'[t]) => WritesAt(job[t]),
           WritesAt(job[t]) => WritesAt(job'[t]) \/ (job'[t].op = "upload" /\ job'[t].at \in {"landed", "unlock"})
    PROVE  Typed' /\ Control'
<1>1. UNCHANGED <<leases, file, told, reads, writes>>
  BY DEF regVars, handleVars
<1>2. HandlesOK(t)'
  BY <1>1, SameHandles
<1> QED BY <1>1, <1>2, TaskMoves DEF Typed

LEMMA NamesType ==
    ASSUME Typed, NEW k \in Keys, NEW x \in Kinds \X Keys, NEW i \in MayBe(Inodes)
    PROVE  /\ [dir EXCEPT ![k] = i] \in [Keys -> MayBe(Inodes)]
           /\ [staged EXCEPT ![x] = i] \in [Kinds \X Keys -> MayBe(Inodes)]
           /\ dir[k] \in MayBe(Inodes) /\ staged[x] \in MayBe(Inodes) /\ None \in MayBe(Inodes)
BY DEF Typed, MayBe

(* The names of files change, and nobody opens or closes one.               *)
LEMMA MovesNames ==
    ASSUME Typed, Control, NEW t \in Tasks,
           RenameMove(t) \/ Remove(t) \/ CloneClear(t) \/ CloneCheckAgain(t) \/ CloneMove(t) \/ FinishMove(t)
    PROVE  Typed' /\ Control'
<1> DEFINE D == [Keys -> MayBe(Inodes)]
           S == [Kinds \X Keys -> MayBe(Inodes)]
<1>1. ASSUME NEW at \in Ats, Go(t, at), NoHandles, GoesFrom(job[t], at), Store(data), dir' \in D, staged' \in S,
             ~ReadsAt(job[t]), ~WritesAt(job[t]), at \in {"move", "release", "begin"}
      PROVE  Typed' /\ Control'
  <2>1. /\ job' \in [Tasks -> JobRecord] /\ job'[t].at = at /\ SameBut(t) /\ OthersWait(t)
    BY <1>1, GoFacts
  <2>2. UNCHANGED <<regVars, handleVars, uploading, work, sweep, sent>>
    BY <1>1 DEF NoHandles
  <2>3. ~ReadsAt(job'[t]) /\ ~WritesAt(job'[t])
    BY <1>1, <2>1 DEF ReadsAt, WritesAt, SameBut
  <2>4. data' \in [Inodes -> Seq(Blocks)]
    BY <1>1, StoreKeeps DEF Typed
  <2> QED BY <1>1, <2>1, <2>2, <2>3, <2>4, PlainMoves DEF Typed
<1>2. ASSUME job[t].at # "idle"
      PROVE  /\ job[t].from \in Keys /\ (job[t].op \in {"rename", "clone"} => job[t].to \in Keys)
             /\ <<"upload", job[t].from>> \in Kinds \X Keys
             /\ (job[t].op = "clone" => <<"clone", job[t].to>> \in Kinds \X Keys)
  BY <1>2, InKeys DEF Kinds
<1>3. dir \in D /\ staged \in S
  BY DEF Typed
<1>4. CASE RenameMove(t)
  <2>1. Go(t, "release") /\ NoHandles /\ Store(data) /\ "release" \in Ats
    BY <1>4 DEF RenameMove, Ats
  <2>2. GoesFrom(job[t], "release") /\ ~ReadsAt(job[t]) /\ ~WritesAt(job[t])
    BY <1>4 DEF RenameMove, At, GoesFrom, ReadsAt, WritesAt
  <2>3. job[t].from \in Keys /\ job[t].to \in Keys
    BY <1>2, <1>4 DEF RenameMove, At
  <2>4. dir[job[t].from] \in MayBe(Inodes) /\ None \in MayBe(Inodes)
    BY <1>3, <2>3 DEF MayBe
  <2>5. dir' \in D /\ staged' \in S
    BY <1>3, <1>4, <2>3, <2>4 DEF RenameMove
  <2> QED BY <1>1, <2>1, <2>2, <2>5
<1>5. CASE Remove(t)
  <2>1. Go(t, "release") /\ NoHandles /\ Store(data) /\ "release" \in Ats
    BY <1>5 DEF Remove, Ats
  <2>2. GoesFrom(job[t], "release") /\ ~ReadsAt(job[t]) /\ ~WritesAt(job[t])
    BY <1>5 DEF Remove, At, GoesFrom, ReadsAt, WritesAt
  <2>3. dir' \in D /\ staged' \in S
    BY <1>2, <1>3, <1>5 DEF Remove, At, MayBe
  <2> QED BY <1>1, <2>1, <2>2, <2>3
<1>6. CASE CloneClear(t)
  <2>1. Go(t, "begin") /\ NoHandles /\ Store(data) /\ "begin" \in Ats
    BY <1>6 DEF CloneClear, Ats
  <2>2. GoesFrom(job[t], "begin") /\ ~ReadsAt(job[t]) /\ ~WritesAt(job[t])
    BY <1>6 DEF CloneClear, At, GoesFrom, ReadsAt, WritesAt
  <2>3. dir' \in D /\ staged' \in S
    BY <1>2, <1>3, <1>6 DEF CloneClear, At, MayBe
  <2> QED BY <1>1, <2>1, <2>2, <2>3
<1>7. CASE CloneCheckAgain(t)
  <2>1. PICK at \in {"move", "release"} : Go(t, at) /\ NoHandles /\ Store(data)
    BY <1>7 DEF CloneCheckAgain
  <2>2. GoesFrom(job[t], at) /\ ~ReadsAt(job[t]) /\ ~WritesAt(job[t]) /\ at \in Ats
    BY <1>7 DEF CloneCheckAgain, At, GoesFrom, ReadsAt, WritesAt, Ats
  <2>3. dir' \in D /\ staged' \in S
    BY <1>2, <1>3, <1>7 DEF CloneCheckAgain, At, MayBe
  <2> QED BY <1>1, <2>1, <2>2, <2>3
<1>8. CASE CloneMove(t)
  <2>1. Go(t, "release") /\ NoHandles /\ Store(data) /\ "release" \in Ats
    BY <1>8 DEF CloneMove, Ats
  <2>2. GoesFrom(job[t], "release") /\ ~ReadsAt(job[t]) /\ ~WritesAt(job[t])
    BY <1>8 DEF CloneMove, At, GoesFrom, ReadsAt, WritesAt
  <2>3. PICK x \in Kinds \X Keys : x = <<"clone", job[t].to>>
    BY <1>2, <1>8 DEF CloneMove, At
  <2>4. job[t].to \in Keys /\ staged[x] \in MayBe(Inodes) /\ None \in MayBe(Inodes)
    BY <1>2, <1>3, <1>8 DEF CloneMove, At, MayBe
  <2>5. /\ dir' = IF staged[x] = None THEN dir ELSE [dir EXCEPT ![job[t].to] = staged[x]]
        /\ staged' = [staged EXCEPT ![x] = None]
    BY <1>8, <2>3 DEF CloneMove
  <2>6. dir' \in D /\ staged' \in S
    BY <1>3, <2>4, <2>5
  <2> QED BY <1>1, <2>1, <2>2, <2>6
<1>9. CASE FinishMove(t)
  <2>1. Go(t, "release") /\ NoHandles /\ Store(data) /\ "release" \in Ats
    BY <1>9 DEF FinishMove, Ats
  <2>2. GoesFrom(job[t], "release") /\ ~ReadsAt(job[t]) /\ ~WritesAt(job[t])
    BY <1>9 DEF FinishMove, At, GoesFrom, ReadsAt, WritesAt
  <2>3. PICK x \in Kinds \X Keys : x = Staging(t)
    BY <1>2, <1>9 DEF FinishMove, At, Staging
  <2>4. job[t].from \in Keys /\ staged[x] \in MayBe(Inodes) /\ None \in MayBe(Inodes)
    BY <1>2, <1>3, <1>9 DEF FinishMove, At, MayBe
  <2>5. /\ dir' = IF staged[x] = None THEN dir ELSE [dir EXCEPT ![job[t].from] = staged[x]]
        /\ staged' = [staged EXCEPT ![x] = None]
    BY <1>9, <2>3 DEF FinishMove
  <2>6. dir' \in D /\ staged' \in S
    BY <1>3, <2>4, <2>5
  <2> QED BY <1>1, <2>1, <2>2, <2>6
<1> QED BY <1>4, <1>5, <1>6, <1>7, <1>8, <1>9

(* A record of a job with other fields than at.                             *)
LEMMA JobSet ==
    ASSUME Typed, NEW t \in Tasks, NEW new \in JobRecord, job' = [job EXCEPT ![t] = new],
           new.op = job[t].op, new.from = job[t].from, new.to = job[t].to, new.size = job[t].size,
           new.start = job[t].start, new.end = job[t].end
    PROVE  job' \in [Tasks -> JobRecord] /\ job'[t] = new /\ SameBut(t) /\ OthersWait(t)
<1>1. job \in [Tasks -> JobRecord]
  BY DEF Typed
<1>2. job' \in [Tasks -> JobRecord] /\ job'[t] = new /\ \A u \in Tasks \ {t} : job'[u] = job[u]
  BY <1>1
<1> QED BY <1>2 DEF SameBut, OthersWait

LEMMA OpenWhereDue ==
    ASSUME Typed, Control, NEW t \in Tasks
    PROVE  /\ WritesAt(job[t]) => writes[t] \in Inodes /\ data[writes[t]] \in Seq(Blocks)
           /\ ReadsAt(job[t]) => reads[t] \in Inodes /\ data[reads[t]] \in Seq(Blocks)
           /\ writes[t] \in MayBe(Inodes) /\ reads[t] \in MayBe(Inodes)
<1>1. HandlesOK(t) /\ writes[t] \in MayBe(Inodes) /\ reads[t] \in MayBe(Inodes)
  BY DEF Control, Typed
<1>2. \A i \in Inodes : data[i] \in Seq(Blocks)
  BY DEF Typed
<1> QED BY <1>1, <1>2 DEF HandlesOK, MayBe

(* Blocks are copied, cleared, cut off or sent.                             *)
LEMMA MovesBlocks ==
    ASSUME Typed, Control, NEW t \in Tasks,
           CloneBlock(t) \/ UploadClear(t) \/ UploadUndo(t) \/ UploadExtend(t) \/ DownloadBlock(t)
           \/ CloneBegin(t) \/ \E v \in Blocks : UploadBlock(t, v)
    PROVE  Typed' /\ Control'
<1> DEFINE D == [Inodes -> Seq(Blocks)]
<1>1. job[t].at # "idle"
  BY DEF CloneBlock, UploadClear, UploadUndo, UploadExtend, DownloadBlock, CloneBegin, UploadBlock, At
<1>2. /\ job[t] \in JobRecord /\ job[t].from \in Keys
      /\ (job[t].op = "clone" => <<"clone", job[t].to>> \in Kinds \X Keys)
  BY <1>1, InKeys DEF Kinds
<1>3. /\ job[t].pos \in Nat /\ job[t].start \in Nat /\ job[t].end \in Nat /\ job[t].got \in Seq(Blocks)
  BY <1>2 DEF JobRecord
<1>4. /\ dir \in [Keys -> MayBe(Inodes)] /\ staged \in [Kinds \X Keys -> MayBe(Inodes)] /\ data \in D
      /\ work \in [Kinds \X Keys -> Int] /\ sent \in [Keys -> Seq(Blocks)]
  BY DEF Typed
<1>5. ASSUME NEW b \in Seq(Blocks), data' = [data EXCEPT ![writes[t]] = b] PROVE data' \in D
  BY <1>4, <1>5
<1>6. CASE CloneBlock(t)
  <2>1. PICK n : n = job[t].pos + 1
    OBVIOUS
  <2>2. /\ At(t, "clone", "block") /\ n <= Len(data[reads[t]]) /\ NoHandles /\ UNCHANGED <<dir, staged>>
        /\ data' = [data EXCEPT ![writes[t]] = Written(data[writes[t]], n, data[reads[t]][n])]
        /\ job' = [job EXCEPT ![t].pos = n]
    BY <1>6, <2>1 DEF CloneBlock
  <2>3. writes[t] \in Inodes /\ data[writes[t]] \in Seq(Blocks) /\ data[reads[t]] \in Seq(Blocks)
    BY <2>2, OpenWhereDue DEF At, WritesAt, ReadsAt
  <2>4. n \in Nat \ {0} /\ data[reads[t]][n] \in Blocks
    BY <1>3, <2>1, <2>2, <2>3
  <2>5. Written(data[writes[t]], n, data[reads[t]][n]) \in Seq(Blocks)
    BY <2>3, <2>4, WrittenType
  <2>6. data' \in D
    BY <1>5, <2>2, <2>5
  <2>7. PICK new : new = [job[t] EXCEPT !.pos = n]
    OBVIOUS
  <2>8. /\ new \in JobRecord /\ job' = [job EXCEPT ![t] = new] /\ new.at = "block" /\ new.op = "clone"
        /\ new.op = job[t].op /\ new.from = job[t].from /\ new.to = job[t].to /\ new.size = job[t].size
        /\ new.start = job[t].start /\ new.end = job[t].end
    BY <1>2, <2>2, <2>4, <2>7 DEF JobRecord, At
  <2>9. job' \in [Tasks -> JobRecord] /\ job'[t] = new /\ SameBut(t) /\ OthersWait(t)
    BY <2>8, JobSet
  <2>10. GoesFrom(job[t], new.at) /\ ReadsAt(new) /\ WritesAt(new) /\ ReadsAt(job[t]) /\ WritesAt(job[t])
    BY <2>2, <2>8 DEF At, GoesFrom, ReadsAt, WritesAt
  <2> QED BY <1>4, <2>2, <2>6, <2>9, <2>10, PlainMoves DEF NoHandles
<1>7. ASSUME NEW at \in Ats, Go(t, at), NoHandles, UNCHANGED <<dir, staged>>, NEW b \in Seq(Blocks),
             data' = [data EXCEPT ![writes[t]] = b], job[t].op = "upload",
             \/ job[t].at = "clear" /\ at = "block"
             \/ job[t].at = "block" /\ at \in {"unlock", "landed"}
      PROVE  Typed' /\ Control'
  <2>1. job' \in [Tasks -> JobRecord] /\ job'[t].at = at /\ SameBut(t) /\ OthersWait(t)
    BY <1>7, GoFacts
  <2>2. GoesFrom(job[t], at) /\ ~ReadsAt(job[t]) /\ WritesAt(job[t]) /\ job'[t].op = "upload"
    BY <1>7, <2>1 DEF GoesFrom, ReadsAt, WritesAt, SameBut
  <2>3. ~ReadsAt(job'[t]) /\ (WritesAt(job'[t]) \/ at \in {"landed", "unlock"})
    BY <1>7, <2>1, <2>2 DEF ReadsAt, WritesAt
  <2> QED BY <1>4, <1>5, <1>7, <2>1, <2>2, <2>3, PlainMoves DEF NoHandles
<1>8. CASE UploadClear(t)
  <2>1. << >> \in Seq(Blocks) /\ "block" \in Ats
    BY DEF Ats
  <2> QED BY <1>7, <1>8, <2>1 DEF UploadClear, At
<1>9. CASE UploadUndo(t)
  <2>1. WritesAt(job[t])
    BY <1>9 DEF UploadUndo, At, WritesAt
  <2>2. PICK b \in Seq(Blocks) : b = Truncated(data[writes[t]], job[t].start)
    BY <1>3, <2>1, OpenWhereDue, TruncatedType
  <2>3. "unlock" \in Ats
    BY DEF Ats
  <2> QED BY <1>7, <1>9, <2>2, <2>3 DEF UploadUndo, At
<1>10. CASE UploadExtend(t)
  <2>1. WritesAt(job[t])
    BY <1>10 DEF UploadExtend, At, WritesAt
  <2>2. PICK b \in Seq(Blocks) : b = Truncated(data[writes[t]], job[t].end)
    BY <1>3, <2>1, OpenWhereDue, TruncatedType
  <2>3. "landed" \in Ats
    BY DEF Ats
  <2> QED BY <1>7, <1>10, <2>2, <2>3 DEF UploadExtend, At
<1>11. CASE DownloadBlock(t)
  <2>1. PICK n : n = Len(job[t].got) + 1
    OBVIOUS
  <2>2. /\ At(t, "download", "copy") /\ n <= Len(data[reads[t]]) /\ NoHandles /\ UNCHANGED fileVars
        /\ job' = [job EXCEPT ![t].got = Append(job[t].got, data[reads[t]][n])]
    BY <1>11, <2>1 DEF DownloadBlock
  <2>3. data[reads[t]] \in Seq(Blocks)
    BY <2>2, OpenWhereDue DEF At, ReadsAt
  <2>4. n \in Nat \ {0} /\ data[reads[t]][n] \in Blocks
    BY <1>3, <2>1, <2>2, <2>3
  <2>9. PICK more \in Seq(Blocks) : more = Append(job[t].got, data[reads[t]][n])
    <3>1. PICK g \in Seq(Blocks), b \in Blocks : g = job[t].got /\ b = data[reads[t]][n]
      BY <1>3, <2>4
    <3>2. Append(g, b) \in Seq(Blocks)
      OBVIOUS
    <3> QED BY <3>1, <3>2
  <2>5. PICK new : new = [job[t] EXCEPT !.got = more]
    OBVIOUS
  <2>6. /\ new \in JobRecord /\ job' = [job EXCEPT ![t] = new] /\ new.at = "copy" /\ new.op = "download"
        /\ new.op = job[t].op /\ new.from = job[t].from /\ new.to = job[t].to /\ new.size = job[t].size
        /\ new.start = job[t].start /\ new.end = job[t].end
    BY <1>2, <2>2, <2>5, <2>9 DEF JobRecord, At
  <2>7. job' \in [Tasks -> JobRecord] /\ job'[t] = new /\ SameBut(t) /\ OthersWait(t)
    BY <2>6, JobSet
  <2>8. GoesFrom(job[t], new.at) /\ ReadsAt(new) /\ ~WritesAt(new) /\ ReadsAt(job[t]) /\ ~WritesAt(job[t])
    BY <2>2, <2>6 DEF At, GoesFrom, ReadsAt, WritesAt
  <2> QED BY <1>4, <2>2, <2>7, <2>8, PlainMoves DEF NoHandles, fileVars
<1>12. CASE CloneBegin(t)
  <2>1. PICK new : new = [job[t] EXCEPT !.at = "copy", !.may = TRUE]
    OBVIOUS
  <2>2. At(t, "clone", "begin") /\ job' = [job EXCEPT ![t] = new]
        /\ UNCHANGED <<regVars, fileVars, handleVars, uploading, sweep, sent>>
    BY <1>12, <2>1 DEF CloneBegin
  <2>3. /\ new \in JobRecord /\ new.at = "copy" /\ new.op = "clone"
        /\ new.op = job[t].op /\ new.from = job[t].from /\ new.to = job[t].to /\ new.size = job[t].size
        /\ new.start = job[t].start /\ new.end = job[t].end
    BY <1>2, <2>1, <2>2 DEF JobRecord, At, Ats
  <2>4. job' \in [Tasks -> JobRecord] /\ job'[t] = new /\ SameBut(t) /\ OthersWait(t)
    BY <2>2, <2>3, JobSet
  <2>5. PICK x \in Kinds \X Keys : x = <<"clone", job[t].to>>
    BY <1>2, <2>2 DEF At
  <2>6. work' = [work EXCEPT ![x] = work[x] + 1]
    BY <1>12, <2>5 DEF CloneBegin
  <2>7. work' \in [Kinds \X Keys -> Int]
    BY <1>4, <2>5, <2>6
  <2>8. GoesFrom(job[t], new.at) /\ ~ReadsAt(new) /\ ~WritesAt(new) /\ ~ReadsAt(job[t]) /\ ~WritesAt(job[t])
    BY <2>2, <2>3 DEF At, GoesFrom, ReadsAt, WritesAt
  <2> QED BY <1>4, <2>2, <2>4, <2>7, <2>8, PlainMoves DEF fileVars
<1>13. ASSUME NEW v \in Blocks, UploadBlock(t, v) PROVE Typed' /\ Control'
  <2>1. PICK n : n = job[t].pos + 1
    OBVIOUS
  <2>2. /\ At(t, "upload", "block") /\ job' = [job EXCEPT ![t].pos = n]
        /\ data' = IF v = 0 THEN data ELSE [data EXCEPT ![writes[t]] = Written(data[writes[t]], n, v)]
        /\ sent' = [sent EXCEPT ![job[t].from] = Append(Truncated(sent[job[t].from], job[t].pos), v)]
        /\ UNCHANGED <<regVars, dir, staged, handleVars, uploading, work, sweep>>
    BY <1>13, <2>1 DEF UploadBlock
  <2>3. n \in Nat \ {0}
    BY <1>3, <2>1
  <2>4. WritesAt(job[t]) /\ ~ReadsAt(job[t])
    BY <2>2 DEF At, WritesAt, ReadsAt
  <2>5. Written(data[writes[t]], n, v) \in Seq(Blocks)
    BY <2>3, <2>4, OpenWhereDue, WrittenType
  <2>6. data' \in D
    BY <1>4, <1>5, <2>2, <2>5
  <2>7. Append(Truncated(sent[job[t].from], job[t].pos), v) \in Seq(Blocks)
    <3>1. Truncated(sent[job[t].from], job[t].pos) \in Seq(Blocks)
      BY <1>2, <1>3, <1>4, TruncatedType
    <3> QED BY <3>1
  <2>8. sent' \in [Keys -> Seq(Blocks)]
    BY <1>2, <1>4, <2>2, <2>7
  <2>9. PICK new : new = [job[t] EXCEPT !.pos = n]
    OBVIOUS
  <2>10. /\ new \in JobRecord /\ job' = [job EXCEPT ![t] = new] /\ new.at = "block" /\ new.op = "upload"
         /\ new.op = job[t].op /\ new.from = job[t].from /\ new.to = job[t].to /\ new.size = job[t].size
         /\ new.start = job[t].start /\ new.end = job[t].end
    BY <1>2, <2>2, <2>3, <2>9 DEF JobRecord, At
  <2>11. job' \in [Tasks -> JobRecord] /\ job'[t] = new /\ SameBut(t) /\ OthersWait(t)
    BY <2>10, JobSet
  <2>12. GoesFrom(job[t], new.at) /\ ~ReadsAt(new) /\ WritesAt(new)
    BY <2>2, <2>10 DEF At, GoesFrom, ReadsAt, WritesAt
  <2> QED BY <1>4, <2>2, <2>4, <2>6, <2>8, <2>11, <2>12, PlainMoves
<1> QED BY <1>6, <1>8, <1>9, <1>10, <1>11, <1>12, <1>13

(* A step that opens or closes files: what is open after it is what the     *)
(* place it comes to says.                                                  *)
OpensTo(j, at, r, w) ==
    /\ r # None <=> (at = "copy" /\ j.op = "download") \/ (at = "block" /\ j.op = "clone")
    /\ w # None <=> \/ at = "extend"
                    \/ at = "clear" /\ j.op = "upload"
                    \/ at = "block" /\ j.op \in {"clone", "upload"}

LEMMA OpensOrCloses ==
    ASSUME Typed, Control, NEW t \in Tasks, NEW at \in Ats, Go(t, at), GoesFrom(job[t], at),
           NEW r \in MayBe(Inodes), NEW w \in MayBe(Inodes),
           reads' = [reads EXCEPT ![t] = r], writes' = [writes EXCEPT ![t] = w],
           UNCHANGED <<regVars, file, told, uploading, work, sweep, sent>>,
           dir' \in [Keys -> MayBe(Inodes)], staged' \in [Kinds \X Keys -> MayBe(Inodes)],
           data' \in [Inodes -> Seq(Blocks)], OpensTo(job[t], at, r, w)
    PROVE  Typed' /\ Control'
<1>1. job' \in [Tasks -> JobRecord] /\ job'[t].at = at /\ SameBut(t) /\ OthersWait(t)
  BY GoFacts
<1>2. /\ reads' \in [Tasks -> MayBe(Inodes)] /\ writes' \in [Tasks -> MayBe(Inodes)]
      /\ reads'[t] = r /\ writes'[t] = w
      /\ \A u \in Tasks \ {t} : reads'[u] = reads[u] /\ writes'[u] = writes[u]
  BY DEF Typed
<1>3. job'[t].op = job[t].op
  BY <1>1 DEF SameBut
<1>4. at = "extend" => job[t].op \in {"create", "resize"}
  BY DEF GoesFrom
<1>5. HandlesOK(t)'
  BY <1>1, <1>2, <1>3, <1>4 DEF HandlesOK, ReadsAt, WritesAt, OpensTo
<1> QED BY <1>1, <1>2, <1>5, TaskMoves DEF Typed, regVars

(* A task opens a file.                                                     *)
LEMMA Opens ==
    ASSUME Typed, Control, RoomForAFile, NEW t \in Tasks,
           CreateOpen(t) \/ ResizeOpen(t) \/ DownloadOpen(t) \/ UploadOpen(t)
    PROVE  Typed' /\ Control'
<1> DEFINE D == [Keys -> MayBe(Inodes)]
           S == [Kinds \X Keys -> MayBe(Inodes)]
<1>1. /\ dir \in D /\ staged \in S /\ data \in [Inodes -> Seq(Blocks)] /\ None \in MayBe(Inodes)
      /\ reads \in [Tasks -> MayBe(Inodes)] /\ writes \in [Tasks -> MayBe(Inodes)]
  BY DEF Typed, MayBe
<1>2. job[t].at # "idle"
  BY DEF CreateOpen, ResizeOpen, DownloadOpen, UploadOpen, At
<1>3. job[t].from \in Keys /\ <<"upload", job[t].from>> \in Kinds \X Keys
  BY <1>2, InKeys DEF Kinds
<1>4. reads' = [reads EXCEPT ![t] = reads[t]] <=> reads' = reads
  BY <1>1
<1>5. writes' = [writes EXCEPT ![t] = writes[t]] <=> writes' = writes
  BY <1>1
<1>6. ~ReadsAt(job[t]) /\ ~WritesAt(job[t]) /\ ~(job[t].op = "upload" /\ job[t].at \in {"landed", "unlock"})
  BY DEF CreateOpen, ResizeOpen, DownloadOpen, UploadOpen, At, ReadsAt, WritesAt
<1>7. reads[t] = None /\ writes[t] = None
  BY <1>6 DEF Control, HandlesOK
<1>8. NewInode \in Inodes /\ NewInode \in MayBe(Inodes) /\ NewInode # None
  BY NewInodeIsFree, FolderAssumption DEF MayBe
<1>9. {"release", "extend", "copy", "clear", "block"} \subseteq Ats
  BY DEF Ats
<1>10. CASE CreateOpen(t)
  <2>1. PICK k \in Keys : k = job[t].from
    BY <1>3
  <2>2. At(t, "create", "act") /\ UNCHANGED <<regVars, uploading, work, sweep, sent>>
    BY <1>10 DEF CreateOpen
  <2>3. CASE dir[k] # None
    <3>1. Go(t, "release") /\ UNCHANGED <<fileVars, handleVars>>
      BY <1>10, <2>1, <2>3 DEF CreateOpen
    <3>2. GoesFrom(job[t], "release") /\ OpensTo(job[t], "release", None, None)
      BY <2>2 DEF At, GoesFrom, OpensTo
    <3> QED BY <1>1, <1>4, <1>5, <1>7, <1>9, <2>2, <3>1, <3>2, OpensOrCloses DEF fileVars, handleVars
  <2>4. CASE dir[k] = None
    <3>1. PICK i \in Inodes : i = NewInode
      BY <1>8
    <3>2. /\ dir' = [dir EXCEPT ![k] = i] /\ writes' = [writes EXCEPT ![t] = i] /\ Go(t, "extend")
          /\ UNCHANGED <<staged, file, told, reads>> /\ Store([data EXCEPT ![i] = <<>>])
      BY <1>10, <2>1, <2>4, <3>1 DEF CreateOpen
    <3>3. GoesFrom(job[t], "extend") /\ OpensTo(job[t], "extend", None, i)
      BY <1>8, <2>2, <3>1 DEF At, GoesFrom, OpensTo
    <3>4. dir' \in D /\ i \in MayBe(Inodes)
      BY <1>1, <1>8, <3>1, <3>2
    <3>5. << >> \in Seq(Blocks)
      OBVIOUS
    <3>6. [data EXCEPT ![i] = <<>>] \in [Inodes -> Seq(Blocks)]
      BY <1>1, <3>5
    <3>7. data' \in [Inodes -> Seq(Blocks)]
      BY <3>2, <3>6, StoreKeeps
    <3> QED BY <1>1, <1>4, <1>7, <1>9, <2>2, <3>2, <3>3, <3>4, <3>7, OpensOrCloses
  <2> QED BY <2>3, <2>4
<1>11. CASE ResizeOpen(t)
  <2>1. PICK i \in MayBe(Inodes) : i = dir[job[t].from]
    BY <1>1, <1>3
  <2>2. At(t, "resize", "act") /\ UNCHANGED <<regVars, fileVars, uploading, work, sweep, sent>>
    BY <1>11 DEF ResizeOpen
  <2>3. CASE i = None
    <3>1. Go(t, "release") /\ UNCHANGED handleVars
      BY <1>11, <2>1, <2>3 DEF ResizeOpen
    <3>2. GoesFrom(job[t], "release") /\ OpensTo(job[t], "release", None, None)
      BY <2>2 DEF At, GoesFrom, OpensTo
    <3> QED BY <1>1, <1>4, <1>5, <1>7, <1>9, <2>2, <3>1, <3>2, OpensOrCloses DEF fileVars, handleVars
  <2>4. CASE i # None
    <3>1. Go(t, "extend") /\ writes' = [writes EXCEPT ![t] = i] /\ UNCHANGED <<file, told, reads>>
      BY <1>11, <2>1, <2>4 DEF ResizeOpen
    <3>2. GoesFrom(job[t], "extend") /\ OpensTo(job[t], "extend", None, i)
      BY <2>2, <2>4 DEF At, GoesFrom, OpensTo
    <3> QED BY <1>1, <1>4, <1>7, <1>9, <2>2, <3>1, <3>2, OpensOrCloses DEF fileVars
  <2> QED BY <2>3, <2>4
<1>12. CASE DownloadOpen(t)
  <2>1. PICK i \in MayBe(Inodes) : i = dir[job[t].from]
    BY <1>1, <1>3
  <2>2. At(t, "download", "act") /\ UNCHANGED <<regVars, fileVars, uploading, work, sweep, sent>>
    BY <1>12 DEF DownloadOpen
  <2>3. CASE i = None
    <3>1. Go(t, "release") /\ UNCHANGED handleVars
      BY <1>12, <2>1, <2>3 DEF DownloadOpen
    <3>2. GoesFrom(job[t], "release") /\ OpensTo(job[t], "release", None, None)
      BY <2>2 DEF At, GoesFrom, OpensTo
    <3> QED BY <1>1, <1>4, <1>5, <1>7, <1>9, <2>2, <3>1, <3>2, OpensOrCloses DEF fileVars, handleVars
  <2>4. CASE i # None
    <3>1. Go(t, "copy") /\ reads' = [reads EXCEPT ![t] = i] /\ UNCHANGED <<file, told, writes>>
      BY <1>12, <2>1, <2>4 DEF DownloadOpen
    <3>2. GoesFrom(job[t], "copy") /\ OpensTo(job[t], "copy", i, None)
      BY <2>2, <2>4 DEF At, GoesFrom, OpensTo
    <3> QED BY <1>1, <1>5, <1>7, <1>9, <2>2, <3>1, <3>2, OpensOrCloses DEF fileVars
  <2> QED BY <2>3, <2>4
<1>13. CASE UploadOpen(t)
  <2>1. PICK x \in Kinds \X Keys : x = Staging(t)
    BY <1>3 DEF Staging
  <2>2. PICK i \in Inodes : i = IF staged[x] = None THEN NewInode ELSE staged[x]
    BY <1>1, <1>8 DEF MayBe
  <2>3. PICK at \in {"clear", "block"} : at = IF job[t].start = 0 THEN "clear" ELSE "block"
    OBVIOUS
  <2>4. /\ At(t, "upload", "open") /\ staged' = [staged EXCEPT ![x] = i] /\ writes' = [writes EXCEPT ![t] = i]
        /\ Go(t, at) /\ UNCHANGED <<regVars, dir, file, told, reads, uploading, work, sweep, sent>> /\ Store(data)
    BY <1>13, <2>1, <2>2, <2>3 DEF UploadOpen
  <2>5. i # None /\ i \in MayBe(Inodes)
    BY FolderAssumption DEF MayBe
  <2>6. GoesFrom(job[t], at) /\ OpensTo(job[t], at, None, i) /\ at \in Ats
    BY <1>9, <2>4, <2>5 DEF At, GoesFrom, OpensTo
  <2>7. staged' \in S /\ data' \in [Inodes -> Seq(Blocks)]
    BY <1>1, <2>4, <2>5, StoreKeeps
  <2> QED BY <1>1, <1>4, <1>7, <2>4, <2>5, <2>6, <2>7, OpensOrCloses
<1> QED BY <1>10, <1>11, <1>12, <1>13

(* A task closes what it had open.                                          *)
LEMMA Closes ==
    ASSUME Typed, Control, NEW t \in Tasks,
           CreateExtend(t) \/ ResizeTruncate(t) \/ DownloadEnd(t) \/ CloneCopied(t) \/ CloneStop(t)
    PROVE  Typed' /\ Control'
<1> DEFINE D == [Keys -> MayBe(Inodes)]
           S == [Kinds \X Keys -> MayBe(Inodes)]
<1>1. dir \in D /\ staged \in S /\ data \in [Inodes -> Seq(Blocks)] /\ None \in MayBe(Inodes)
  BY DEF Typed, MayBe
<1>2. job[t].at # "idle"
  BY DEF CreateExtend, ResizeTruncate, DownloadEnd, CloneCopied, CloneStop, At
<1>3. /\ job[t] \in JobRecord /\ job[t].from \in Keys
      /\ (job[t].op = "clone" => <<"clone", job[t].to>> \in Kinds \X Keys)
  BY <1>2, InKeys DEF Kinds
<1>4. PICK at \in {"release", "check"} : Go(t, at) /\ GoesFrom(job[t], at)
  BY DEF CreateExtend, ResizeTruncate, DownloadEnd, CloneCopied, CloneStop, At, GoesFrom
<1>5. CloseFiles(t) /\ UNCHANGED <<regVars, uploading, work, sweep, sent>>
  BY DEF CreateExtend, ResizeTruncate, DownloadEnd, CloneCopied, CloneStop
<1>6. dir' \in D
  <2>1. dir' = dir \/ dir' = [dir EXCEPT ![job[t].from] = None]
    BY DEF CreateExtend, ResizeTruncate, DownloadEnd, CloneCopied, CloneStop
  <2> QED BY <1>1, <1>3, <2>1
<1>7. staged' \in S
  <2>1. staged' = staged \/ staged' = [staged EXCEPT ![<<"clone", job[t].to>>] = None]
    BY DEF CreateExtend, ResizeTruncate, DownloadEnd, CloneCopied, CloneStop
  <2> QED BY <1>1, <1>3, <2>1
<1>8. data' \in [Inodes -> Seq(Blocks)]
  <2>1. PICK b : b = Truncated(data[writes[t]], job[t].size)
    OBVIOUS
  <2>2. \/ Store(data)
        \/ (CreateExtend(t) \/ ResizeTruncate(t)) /\ Store([data EXCEPT ![writes[t]] = b])
    <3>1. CASE CreateExtend(t)
      BY <2>1, <3>1 DEF CreateExtend
    <3>2. CASE ResizeTruncate(t)
      BY <2>1, <3>2 DEF ResizeTruncate
    <3>3. CASE DownloadEnd(t) \/ CloneCopied(t) \/ CloneStop(t)
      BY <3>3 DEF DownloadEnd, CloneCopied, CloneStop
    <3> QED BY <3>1, <3>2, <3>3
  <2>3. CASE Store(data)
    BY <1>1, <2>3, StoreKeeps
  <2>4. CASE (CreateExtend(t) \/ ResizeTruncate(t)) /\ Store([data EXCEPT ![writes[t]] = b])
    <3>1. WritesAt(job[t]) /\ job[t].size \in Nat
      BY <1>3, <2>4 DEF CreateExtend, ResizeTruncate, At, WritesAt, JobRecord
    <3>2. b \in Seq(Blocks)
      BY <2>1, <3>1, OpenWhereDue, TruncatedType
    <3>3. [data EXCEPT ![writes[t]] = b] \in [Inodes -> Seq(Blocks)]
      BY <1>1, <3>2
    <3> QED BY <2>4, <3>3, StoreKeeps
  <2> QED BY <2>2, <2>3, <2>4
<1>9. OpensTo(job[t], at, None, None) /\ at \in Ats
  BY DEF OpensTo, Ats
<1> QED BY <1>1, <1>4, <1>5, <1>6, <1>7, <1>8, <1>9, OpensOrCloses DEF CloseFiles

(* What CloneOpen makes, if it makes the staging file.                      *)
LEMMA CloneOpens ==
    ASSUME Typed, Control, RoomForAFile, NEW t \in Tasks, CloneOpen(t)
    PROVE  Typed' /\ Control'
<1> DEFINE D == [Keys -> MayBe(Inodes)]
           S == [Kinds \X Keys -> MayBe(Inodes)]
           C == [Inodes -> Seq(Blocks)]
<1>1. /\ dir \in D /\ staged \in S /\ data \in C /\ None \in MayBe(Inodes)
      /\ reads \in [Tasks -> MayBe(Inodes)] /\ writes \in [Tasks -> MayBe(Inodes)]
  BY DEF Typed, MayBe
<1>2. At(t, "clone", "copy") /\ UNCHANGED <<regVars, dir, file, told, uploading, work, sweep, sent>>
  BY DEF CloneOpen
<1>3. job[t].from \in Keys /\ <<"clone", job[t].to>> \in Kinds \X Keys
  BY <1>2, InKeys DEF At, Kinds
<1>4. reads[t] = None /\ writes[t] = None
  BY <1>2 DEF Control, HandlesOK, At, ReadsAt, WritesAt
<1>5. /\ UNCHANGED reads => reads' = [reads EXCEPT ![t] = None]
      /\ UNCHANGED writes => writes' = [writes EXCEPT ![t] = None]
  BY <1>1, <1>4
<1>6. PICK new \in Inodes : new = NewInode
  BY NewInodeIsFree
<1>7. new \in MayBe(Inodes) /\ new # None
  BY FolderAssumption DEF MayBe
<1>8. PICK x \in Kinds \X Keys : x = <<"clone", job[t].to>>
  BY <1>3
<1>9. PICK i \in MayBe(Inodes) : i = dir[job[t].from]
  BY <1>1, <1>3
<1>10. \/ /\ i # None /\ staged[x] = None
          /\ staged' = [staged EXCEPT ![x] = new] /\ UNCHANGED <<reads, writes>> /\ Go(t, "check")
          /\ Store([data EXCEPT ![new] = data[i]])
       \/ /\ i # None /\ staged[x] = None
          /\ staged' = [staged EXCEPT ![x] = new]
          /\ reads' = [reads EXCEPT ![t] = i] /\ writes' = [writes EXCEPT ![t] = new] /\ Go(t, "block")
          /\ Store([data EXCEPT ![new] = Zeros(Len(data[i]))])
       \/ /\ UNCHANGED <<reads, writes>> /\ staged' = [staged EXCEPT ![x] = None]
          /\ Go(t, "release") /\ Store(data)
  BY <1>6, <1>8, <1>9 DEF CloneOpen
<1>11. staged' \in S
  BY <1>1, <1>7, <1>10
<1>12. i # None => data[i] \in Seq(Blocks) /\ Zeros(Len(data[i])) \in Seq(Blocks)
  <2>1. i # None => data[i] \in Seq(Blocks)
    BY <1>1, <1>9 DEF MayBe
  <2> QED BY <2>1, ZerosType
<1>13. data' \in C
  <2>1. ASSUME NEW b \in Seq(Blocks), Store([data EXCEPT ![new] = b]) PROVE data' \in C
    <3>1. [data EXCEPT ![new] = b] \in C
      BY <1>1
    <3> QED BY <2>1, <3>1, StoreKeeps
  <2> QED BY <1>1, <1>10, <1>12, <2>1, StoreKeeps
<1>14. GoesFrom(job[t], "check") /\ GoesFrom(job[t], "block") /\ GoesFrom(job[t], "release")
       /\ {"check", "block", "release"} \subseteq Ats
  BY <1>2 DEF At, GoesFrom, Ats
<1>15. /\ OpensTo(job[t], "check", None, None) /\ OpensTo(job[t], "release", None, None)
       /\ i # None => OpensTo(job[t], "block", i, new)
  BY <1>2, <1>7 DEF At, OpensTo
<1>16. CASE Go(t, "check") /\ UNCHANGED <<reads, writes>>
  BY <1>1, <1>2, <1>5, <1>11, <1>13, <1>14, <1>15, <1>16, OpensOrCloses
<1>17. CASE Go(t, "release") /\ UNCHANGED <<reads, writes>>
  BY <1>1, <1>2, <1>5, <1>11, <1>13, <1>14, <1>15, <1>17, OpensOrCloses
<1>18. CASE i # None /\ Go(t, "block") /\ reads' = [reads EXCEPT ![t] = i] /\ writes' = [writes EXCEPT ![t] = new]
  BY <1>1, <1>2, <1>7, <1>11, <1>13, <1>14, <1>15, <1>18, OpensOrCloses
<1> QED BY <1>10, <1>16, <1>17, <1>18

(* The mutex of an upload is taken, or let go of with the file.             *)
LEMMA PassesTheMutex ==
    ASSUME Typed, Control, NEW t \in Tasks, UploadBegin(t) \/ UploadUnlock(t)
    PROVE  Typed' /\ Control'
<1>1. job[t].op = "upload" /\ job[t].at \in {"mutex", "landed", "unlock"}
  BY DEF UploadBegin, UploadUnlock, At
<1>2. job[t].from \in Keys /\ <<"upload", job[t].from>> \in Kinds \X Keys
  BY <1>1, InKeys DEF Kinds
<1>3. PICK k \in Keys, x \in Kinds \X Keys : k = job[t].from /\ x = Staging(t)
  BY <1>2 DEF Staging
<1>4. /\ uploading \in [Keys -> MayBe(Tasks)] /\ work \in [Kinds \X Keys -> Int] /\ data \in [Inodes -> Seq(Blocks)]
      /\ reads \in [Tasks -> MayBe(Inodes)] /\ writes \in [Tasks -> MayBe(Inodes)]
      /\ dir \in [Keys -> MayBe(Inodes)] /\ staged \in [Kinds \X Keys -> MayBe(Inodes)]
      /\ sent \in [Keys -> Seq(Blocks)] /\ None \in MayBe(Inodes) /\ None \in MayBe(Tasks)
  BY DEF Typed, MayBe
<1>5. LeasesOK(t) /\ HandlesOK(t) /\ MutexOK(t)
  BY DEF Control
<1>6. reads[t] = None
  BY <1>1, <1>5 DEF HandlesOK, ReadsAt
<1>7. CASE UploadBegin(t) /\ uploading[k] # None
  <2>1. /\ Go(t, "release") /\ UNCHANGED <<uploading, work, regVars, fileVars, handleVars, sweep, sent>>
        /\ job[t].at = "mutex"
    BY <1>3, <1>7 DEF UploadBegin, At
  <2>2. job' \in [Tasks -> JobRecord] /\ job'[t].at = "release" /\ SameBut(t) /\ OthersWait(t)
    <3>1. "release" \in Ats
      BY DEF Ats
    <3> QED BY <2>1, <3>1, GoFacts
  <2>3. GoesFrom(job[t], "release") /\ ~ReadsAt(job[t]) /\ ~WritesAt(job[t])
    BY <1>1, <2>1 DEF GoesFrom, ReadsAt, WritesAt
  <2>4. ~ReadsAt(job'[t]) /\ ~WritesAt(job'[t])
    BY <2>2 DEF ReadsAt, WritesAt
  <2> QED BY <1>4, <2>1, <2>2, <2>3, <2>4, PlainMoves DEF fileVars
<1>8. CASE UploadBegin(t) /\ uploading[k] = None
  <2>1. /\ Go(t, "fit") /\ uploading' = [uploading EXCEPT ![k] = t] /\ work' = [work EXCEPT ![x] = work[x] + 1]
        /\ UNCHANGED <<regVars, fileVars, handleVars, sweep, sent>> /\ job[t].at = "mutex"
    BY <1>3, <1>8 DEF UploadBegin, At
  <2>2. job' \in [Tasks -> JobRecord] /\ job'[t].at = "fit" /\ SameBut(t) /\ OthersWait(t)
    <3>1. "fit" \in Ats
      BY DEF Ats
    <3> QED BY <2>1, <3>1, GoFacts
  <2>3. PassesMutex(job[t], "fit") /\ UNCHANGED <<leases, reads, writes, dir, staged, data, file, told>>
    BY <1>1, <2>1 DEF PassesMutex, regVars, fileVars, handleVars
  <2>4. JobOK(job'[t]) /\ LeasesOK(t)'
    BY <2>2, <2>3, GoesOn
  <2>5. HandlesOK(t)'
    BY <1>1, <1>5, <2>1, <2>2, <2>3 DEF HandlesOK, ReadsAt, WritesAt, SameBut
  <2>6. MutexOK(t)'
    <3>1. job'[t].op = "upload" /\ job'[t].from = k /\ job'[t].at \in OfAChunk
      BY <1>1, <1>3, <2>2 DEF SameBut, OfAChunk
    <3>2. \A l \in Keys : uploading'[l] = t <=> l = k
      BY <1>1, <1>4, <1>5, <2>1 DEF MutexOK, OfAChunk
    <3> QED BY <3>1, <3>2 DEF MutexOK
  <2>7. \A u \in Tasks \ {t} : \A l \in Keys : uploading'[l] = u <=> uploading[l] = u
    BY <1>4, <1>8, <2>1, FolderAssumption
  <2>8. Control'
    BY <2>2, <2>3, <2>4, <2>5, <2>6, <2>7, OthersControl
  <2>9. uploading' \in [Keys -> MayBe(Tasks)] /\ work' \in [Kinds \X Keys -> Int]
    BY <1>4, <2>1 DEF MayBe
  <2> QED BY <1>4, <2>1, <2>2, <2>3, <2>4, <2>8, <2>9, TypedStep
<1>9. CASE UploadUnlock(t)
  <2>1. PICK at \in {"whole", "release"} : Go(t, at)
    BY <1>9 DEF UploadUnlock
  <2>2. /\ CloseFiles(t) /\ uploading' = [uploading EXCEPT ![k] = None] /\ work' = [work EXCEPT ![x] = work[x] - 1]
        /\ UNCHANGED <<regVars, dir, staged, sweep, sent>> /\ job[t].at \in {"landed", "unlock"} /\ Store(data)
    BY <1>3, <1>9 DEF UploadUnlock
  <2>3. job' \in [Tasks -> JobRecord] /\ job'[t].at = at /\ SameBut(t) /\ OthersWait(t)
    <3>1. at \in Ats
      BY <2>1 DEF Ats
    <3> QED BY <2>1, <3>1, GoFacts
  <2>4. PassesMutex(job[t], at) /\ UNCHANGED <<leases, file, told>>
    BY <1>1, <2>1, <2>2 DEF PassesMutex, regVars, CloseFiles
  <2>5. JobOK(job'[t]) /\ LeasesOK(t)'
    BY <2>3, <2>4, GoesOn
  <2>6. /\ reads' = [reads EXCEPT ![t] = None] /\ writes' = [writes EXCEPT ![t] = None]
    BY <2>2 DEF CloseFiles
  <2>7. HandlesOK(t)'
    BY <1>1, <1>4, <2>3, <2>6 DEF HandlesOK, ReadsAt, WritesAt, SameBut
  <2>8. MutexOK(t)'
    <3>1. job'[t].at \notin OfAChunk
      BY <2>3 DEF OfAChunk
    <3>2. \A l \in Keys : uploading[l] = t => l = k
      BY <1>3, <1>5 DEF MutexOK
    <3>3. \A l \in Keys : uploading'[l] # t
      BY <1>4, <2>2, <3>2, FolderAssumption
    <3> QED BY <3>1, <3>3 DEF MutexOK
  <2>9. \A u \in Tasks \ {t} : \A l \in Keys : uploading'[l] = u <=> uploading[l] = u
    <3>1. uploading[k] = t
      BY <1>1, <1>3, <1>5, <2>2 DEF MutexOK, OfAChunk
    <3> QED BY <1>4, <2>2, <3>1, FolderAssumption
  <2>10. \A u \in Tasks \ {t} : leases'[u] = leases[u] /\ reads'[u] = reads[u] /\ writes'[u] = writes[u]
    BY <1>4, <2>4, <2>6
  <2>11. Control'
    BY <2>3, <2>5, <2>7, <2>8, <2>9, <2>10, OthersControl
  <2>12. uploading' \in [Keys -> MayBe(Tasks)] /\ work' \in [Kinds \X Keys -> Int]
         /\ reads' \in [Tasks -> MayBe(Inodes)] /\ writes' \in [Tasks -> MayBe(Inodes)]
    BY <1>4, <2>2, <2>6
  <2>13. data' \in [Inodes -> Seq(Blocks)]
    BY <1>4, <2>2, StoreKeeps
  <2> QED BY <1>4, <2>2, <2>3, <2>4, <2>5, <2>11, <2>12, <2>13, TypedStep
<1> QED BY <1>7, <1>8, <1>9

-----------------------------------------------------------------------------
(* A request starts.                                                        *)
Fresh(t, j) ==
    /\ job[t] = Idle /\ job' = [job EXCEPT ![t] = j]
    /\ j \in JobRecord /\ JobOK(j)
    /\ \/ j.at = "lock" /\ j.op # "upload"
       \/ j.at = "mutex" /\ j.op = "upload"
    /\ j.op = "clone" => ~j.may /\ j.pos = 0
    /\ j.op = "download" => j.got = <<>>
    /\ j.op = "upload" => j.pos = j.start /\ j.start < j.end /\ j.end <= j.size
    /\ UNCHANGED <<regVars, fileVars, handleVars, uploading, work, sweep, sent>>

LEMMA IdleFacts ==
    ASSUME Typed, NEW t \in Tasks, job[t].at = "idle" PROVE job[t] = Idle
<1>1. ~InPlace(job[t])
  BY DEF InPlace
<1> QED BY <1>1 DEF Typed, JobOK

LEMMA RequestsAreFresh ==
    ASSUME Typed, NEW t \in Tasks, Request(t)
    PROVE  \E j : Fresh(t, j)
<1>0. Idle \in JobRecord /\ MaxLen \in Nat
  <2>1. << >> \in Seq(Blocks)
    OBVIOUS
  <2>2. MaxLen \in Nat
    BY FolderAssumption
  <2> QED BY <2>1, <2>2 DEF Idle, JobRecord, Ats
<1>1. ASSUME NEW j \in JobRecord, Start(t, j), InPlace(j), j.from \in Keys,
             j.op \in {"rename", "clone"} => j.to \in Keys, j.op = "clone" => j.from # j.to,
             (j.at = "lock" /\ j.op # "upload") \/ (j.at = "mutex" /\ j.op = "upload"),
             j.op = "clone" => ~j.may /\ j.pos = 0, j.op = "download" => j.got = <<>>,
             j.op = "upload" => j.pos = j.start /\ j.start < j.end /\ j.end <= j.size
      PROVE  Fresh(t, j)
  BY <1>1, IdleFacts DEF Start, Fresh, JobOK
<1>2. ASSUME NEW k \in Keys, NEW n \in 1..MaxLen, StartCreate(t, k, n) PROVE \E j : Fresh(t, j)
  <2>0. n \in Nat
    BY <1>0
  <2>1. PICK j : j = [Idle EXCEPT !.op = "create", !.at = "lock", !.from = k, !.size = n]
    OBVIOUS
  <2>2. j \in JobRecord /\ j.from = k /\ j.op = "create" /\ j.at = "lock"
    BY <1>0, <2>0, <2>1 DEF JobRecord, Ats, Ops
  <2>3. Start(t, j) /\ InPlace(j)
    BY <1>2, <2>1, <2>2 DEF StartCreate, InPlace
  <2> QED BY <1>1, <2>2, <2>3
<1>3. ASSUME NEW k \in Keys, NEW n \in 1..MaxLen, NEW b \in BOOLEAN, StartResize(t, k, n, b) PROVE \E j : Fresh(t, j)
  <2>0. n \in Nat
    BY <1>0
  <2>1. PICK j : j = [Idle EXCEPT !.op = "resize", !.at = "lock", !.from = k, !.size = n, !.may = b]
    OBVIOUS
  <2>2. j \in JobRecord /\ j.from = k /\ j.op = "resize" /\ j.at = "lock"
    BY <1>0, <2>0, <2>1 DEF JobRecord, Ats, Ops
  <2>3. Start(t, j) /\ InPlace(j)
    BY <1>3, <2>1, <2>2 DEF StartResize, InPlace
  <2> QED BY <1>1, <2>2, <2>3
<1>4. ASSUME NEW k \in Keys, NEW l \in Keys, StartRename(t, k, l) PROVE \E j : Fresh(t, j)
  <2>1. PICK j : j = [Idle EXCEPT !.op = "rename", !.at = "lock", !.from = k, !.to = l]
    OBVIOUS
  <2>2. j \in JobRecord /\ j.from = k /\ j.op = "rename" /\ j.at = "lock" /\ j.to = l
    BY <1>0, <2>1 DEF JobRecord, Ats, Ops
  <2>3. Start(t, j) /\ InPlace(j)
    BY <1>4, <2>1, <2>2 DEF StartRename, InPlace
  <2> QED BY <1>1, <2>2, <2>3
<1>5. ASSUME NEW k \in Keys, NEW l \in Keys, StartClone(t, k, l) PROVE \E j : Fresh(t, j)
  <2>1. PICK j : j = [Idle EXCEPT !.op = "clone", !.at = "lock", !.from = k, !.to = l]
    OBVIOUS
  <2>2. j \in JobRecord /\ j.from = k /\ j.op = "clone" /\ j.at = "lock" /\ j.to = l /\ ~j.may /\ j.pos = 0
    BY <1>0, <2>1 DEF JobRecord, Ats, Ops, Idle
  <2>3. Start(t, j) /\ InPlace(j) /\ k # l
    BY <1>5, <2>1, <2>2 DEF StartClone, InPlace
  <2> QED BY <1>1, <2>2, <2>3
<1>6. ASSUME NEW k \in Keys, StartDelete(t, k) PROVE \E j : Fresh(t, j)
  <2>1. PICK j : j = [Idle EXCEPT !.op = "delete", !.at = "lock", !.from = k]
    OBVIOUS
  <2>2. j \in JobRecord /\ j.from = k /\ j.op = "delete" /\ j.at = "lock"
    BY <1>0, <2>1 DEF JobRecord, Ats, Ops
  <2>3. Start(t, j) /\ InPlace(j)
    BY <1>6, <2>1, <2>2 DEF StartDelete, InPlace
  <2> QED BY <1>1, <2>2, <2>3
<1>7. ASSUME NEW k \in Keys, StartDownload(t, k) PROVE \E j : Fresh(t, j)
  <2>1. PICK j : j = [Idle EXCEPT !.op = "download", !.at = "lock", !.from = k]
    OBVIOUS
  <2>2. j \in JobRecord /\ j.from = k /\ j.op = "download" /\ j.at = "lock" /\ j.got = <<>>
    BY <1>0, <2>1 DEF JobRecord, Ats, Ops, Idle
  <2>3. Start(t, j) /\ InPlace(j)
    BY <1>7, <2>1, <2>2 DEF StartDownload, InPlace
  <2> QED BY <1>1, <2>2, <2>3
<1>8. ASSUME NEW k \in Keys, NEW b \in 0..MaxLen, NEW e \in 1..MaxLen, NEW n \in 1..MaxLen, NEW r \in BOOLEAN,
             StartUpload(t, k, b, e, n, r)
      PROVE  \E j : Fresh(t, j)
  <2>0. b \in Nat /\ e \in Nat /\ n \in Nat
    BY <1>0
  <2>1. PICK j : j = [Idle EXCEPT !.op = "upload", !.at = "mutex", !.from = k, !.size = n,
                                  !.start = b, !.end = e, !.pos = b, !.may = r]
    OBVIOUS
  <2>2. j \in JobRecord /\ j.from = k /\ j.op = "upload" /\ j.at = "mutex"
        /\ j.pos = b /\ j.start = b /\ j.end = e /\ j.size = n
    BY <1>0, <2>0, <2>1 DEF JobRecord, Ats, Ops
  <2>3. Start(t, j) /\ InPlace(j) /\ b < e /\ e <= n
    BY <1>8, <2>1, <2>2 DEF StartUpload, InPlace
  <2> QED BY <1>1, <2>2, <2>3
<1> QED BY <1>2, <1>3, <1>4, <1>5, <1>6, <1>7, <1>8 DEF Request

LEMMA Starts ==
    ASSUME Typed, Control, NEW t \in Tasks, Request(t)
    PROVE  Typed' /\ Control'
<1>1. PICK j : Fresh(t, j)
  BY RequestsAreFresh
<1>2. /\ job'[t] = j /\ OthersWait(t) /\ job' \in [Tasks -> JobRecord] /\ job[t] = Idle /\ JobOK(j)
  BY <1>1 DEF Fresh, Typed, OthersWait
<1>3. UNCHANGED <<leases, dir, staged, data, file, told, reads, writes, uploading, work, sweep, sent>>
  BY <1>1 DEF Fresh, regVars, fileVars, handleVars
<1>4. LeasesOK(t) /\ HandlesOK(t) /\ MutexOK(t)
  BY DEF Control
<1>5. job[t].at = "idle"
  BY <1>2 DEF Idle
<1>6. BeforeLeases(job[t]) /\ ~ReadsAt(job[t]) /\ ~WritesAt(job[t]) /\ job[t].at \notin OfAChunk
      /\ job[t].at \notin {"landed", "unlock"}
  BY <1>5 DEF BeforeLeases, ReadsAt, WritesAt, OfAChunk
<1>7. BeforeLeases(j) /\ ~ReadsAt(j) /\ ~WritesAt(j) /\ j.at \notin OfAChunk
      /\ j.at \notin {"lock2", "release", "landed", "unlock"}
  BY <1>1 DEF Fresh, BeforeLeases, ReadsAt, WritesAt, OfAChunk
<1>8. LeasesOK(t)'
  BY <1>2, <1>3, <1>4, <1>6, <1>7 DEF LeasesOK
<1>9. HandlesOK(t)' /\ MutexOK(t)'
  BY <1>2, <1>3, <1>4, <1>6, <1>7 DEF HandlesOK, MutexOK
<1>10. Control'
  BY <1>2, <1>3, <1>8, <1>9, OthersControl
<1>11. Typed'
  BY <1>2, <1>3, TypedStep DEF Typed
<1> QED BY <1>10, <1>11

-----------------------------------------------------------------------------
(* Leases are taken and let go of.                                          *)
LEMMA AfterRelease ==
    ASSUME Typed, Control, NEW t \in Tasks, job[t].at = "release"
    PROVE  reads[t] = None /\ writes[t] = None /\ (\A k \in Keys : uploading[k] # t)
           /\ leases[t] \subseteq AllOf(job[t])
<1>1. ~ReadsAt(job[t]) /\ ~WritesAt(job[t]) /\ job[t].at \notin OfAChunk \union {"landed", "unlock"}
      /\ ~BeforeLeases(job[t])
  BY DEF ReadsAt, WritesAt, OfAChunk, BeforeLeases
<1> QED BY <1>1 DEF Control, HandlesOK, MutexOK, LeasesOK

(* What Locks does: the lease that the job is to have next, or none.        *)
NextLease(j) == IF j.at = "lock" THEN First(j) ELSE Second(j)
NextPlace(j) == IF j.at = "lock" /\ TakesTwo(j) THEN "lock2" ELSE "act"

LEMMA LocksDo ==
    ASSUME Typed, Control, Leases, NEW t \in Tasks, Locks(t)
    PROVE  /\ job[t].at \in {"lock", "lock2"} /\ UNCHANGED <<fileVars, handleVars, uploading, work, sweep, sent>>
           /\ \E k \in Keys, m \in Reg!TaskModes :
                /\ NextLease(job[t]) = <<k, m>>
                /\ \/ Reg!TakeLease(t, k, m) /\ Go(t, NextPlace(job[t]))
                   \/ Go(t, "release") /\ UNCHANGED regVars
<1>1. job[t].at \in {"lock", "lock2"}
  BY DEF Locks
<1>2. job[t].from \in Keys /\ job[t].op \in Ops /\ InPlace(job[t]) /\ (job[t].op \in {"rename", "clone"} => job[t].to \in Keys)
  BY <1>1, InKeys
<1>3. Mode(job[t].op) \in Reg!TaskModes /\ "Exclusive" \in Reg!TaskModes
  BY DEF Mode, Reg!TaskModes
<1>4. CASE job[t].at = "lock"
  <2>1. Lock(t, job[t].from, Mode(job[t].op), NextPlace(job[t]))
    BY <1>4 DEF Locks, Mode, NextPlace, TakesTwo
  <2>2. NextLease(job[t]) = <<job[t].from, Mode(job[t].op)>>
    BY <1>4 DEF NextLease, First
  <2> QED BY <1>2, <1>3, <1>4, <2>1, <2>2 DEF Lock
<1>5. CASE job[t].at = "lock2"
  <2>1. Lock(t, job[t].to, "Exclusive", NextPlace(job[t]))
    BY <1>5 DEF Locks, NextPlace
  <2>2. NextLease(job[t]) = <<job[t].to, "Exclusive">>
    BY <1>5 DEF NextLease, Second
  <2>3. job[t].to \in Keys
    BY <1>2, <1>5 DEF InPlace
  <2> QED BY <1>3, <1>5, <2>1, <2>2, <2>3 DEF Lock
<1> QED BY <1>1, <1>4, <1>5

LEMMA LocksKeep ==
    ASSUME Typed, Control, Leases, NEW t \in Tasks, Locks(t)
    PROVE  Typed' /\ Control' /\ [RegP!Next]_(RegP!regVars)
<1>1. job[t].at \in {"lock", "lock2"} /\ UNCHANGED <<fileVars, handleVars, uploading, work, sweep, sent>>
  BY LocksDo
<1>2. UNCHANGED <<dir, staged, data, file, told, reads, writes, uploading, work, sweep, sent>>
  BY <1>1 DEF fileVars, handleVars
<1>3. PICK k \in Keys, m \in Reg!TaskModes :
        /\ NextLease(job[t]) = <<k, m>>
        /\ \/ Reg!TakeLease(t, k, m) /\ Go(t, NextPlace(job[t]))
           \/ Go(t, "release") /\ UNCHANGED regVars
  BY LocksDo
<1>4. InPlace(job[t]) /\ JobOK(job[t]) /\ LeasesOK(t) /\ HandlesOK(t) /\ MutexOK(t)
  BY <1>1, InKeys DEF Control, Typed
<1>5. ~ReadsAt(job[t]) /\ ~WritesAt(job[t]) /\ job[t].at \notin OfAChunk \union {"landed", "unlock"}
  BY <1>1 DEF ReadsAt, WritesAt, OfAChunk
<1>6. ASSUME NEW at \in {"lock2", "act", "release"}, Go(t, at), at = "lock2" => job[t].op \in {"rename", "clone"},
             \A u \in Tasks \ {t} : leases'[u] = leases[u], LeasesOK(t)'
      PROVE  Typed' /\ Control'
  <2>1. at \in Ats
    BY DEF Ats
  <2>2. job' \in [Tasks -> JobRecord] /\ job'[t].at = at /\ SameBut(t) /\ OthersWait(t)
    BY <1>6, <2>1, GoFacts
  <2>3. job'[t].op = job[t].op /\ job'[t].from = job[t].from /\ job'[t].to = job[t].to
    BY <2>2 DEF SameBut
  <2>4. InPlace(job'[t])
    BY <1>1, <1>4, <1>6, <2>2, <2>3 DEF InPlace
  <2>5. JobOK(job'[t])
    <3>1. job[t] # Idle
      BY <1>1 DEF Idle
    <3> QED BY <1>4, <2>3, <2>4, <3>1 DEF JobOK
  <2>6. ~ReadsAt(job'[t]) /\ ~WritesAt(job'[t]) /\ job'[t].at \notin OfAChunk \union {"landed", "unlock"}
    BY <1>6, <2>2 DEF ReadsAt, WritesAt, OfAChunk
  <2>7. HandlesOK(t)' /\ MutexOK(t)'
    BY <1>2, <1>4, <1>5, <2>6 DEF HandlesOK, MutexOK
  <2>8. Control'
    BY <1>2, <1>6, <2>2, <2>7, OthersControl
  <2>9. Typed'
    BY <1>2, <2>2, <2>5, TypedStep DEF Typed
  <2> QED BY <2>8, <2>9
<1>7. TakesTwo(job[t]) => job[t].op \in {"rename", "clone"}
  BY DEF TakesTwo
<1>8. CASE Go(t, "release") /\ UNCHANGED regVars
  <2>1. UNCHANGED leases
    BY <1>8 DEF regVars
  <2>2. /\ job'[t].at = "release" /\ SameBut(t)
    BY <1>8, GoFacts DEF Ats
  <2>3. leases[t] \subseteq AllOf(job[t])
    BY <1>1, <1>4 DEF LeasesOK, BeforeLeases, AllOf
  <2>4. AllOf(job'[t]) = AllOf(job[t])
    BY <2>2 DEF AllOf, TakesTwo, First, Second, SameBut
  <2>5. LeasesOK(t)'
    BY <2>1, <2>2, <2>3, <2>4 DEF LeasesOK, BeforeLeases, OfAChunk
  <2>6. Typed' /\ Control'
    BY <1>6, <1>8, <2>1, <2>5
  <2> QED BY <1>8, <2>6 DEF regVars, RegP!regVars
<1>9. CASE Reg!TakeLease(t, k, m) /\ Go(t, NextPlace(job[t]))
  <2>1. PICK at : at = NextPlace(job[t])
    OBVIOUS
  <2>2. at \in {"lock2", "act"} /\ (at = "lock2" => TakesTwo(job[t]) /\ job[t].at = "lock")
        /\ (at = "act" => job[t].at = "lock2" \/ ~TakesTwo(job[t]))
    BY <1>1, <2>1 DEF NextPlace
  <2>3. job'[t].at = at /\ SameBut(t)
    BY <1>9, <2>1, <2>2, GoFacts DEF Ats
  <2>4. leases' = [leases EXCEPT ![t] = leases[t] \union {<<k, m>>}]
    BY <1>9 DEF Reg!TakeLease
  <2>5. leases'[t] = leases[t] \union {NextLease(job[t])} /\ \A u \in Tasks \ {t} : leases'[u] = leases[u]
    BY <1>3, <2>4 DEF Leases
  <2>6. AllOf(job'[t]) = AllOf(job[t]) /\ First(job'[t]) = First(job[t]) /\ (TakesTwo(job'[t]) <=> TakesTwo(job[t]))
    BY <2>3 DEF AllOf, TakesTwo, First, Second, SameBut
  <2>7. job[t].at = "lock" => leases[t] = {} /\ leases'[t] = {First(job[t])}
    BY <1>4, <2>5 DEF LeasesOK, BeforeLeases, NextLease
  <2>8. job[t].at = "lock2" => leases'[t] = AllOf(job[t])
    BY <1>4, <2>5 DEF LeasesOK, NextLease, AllOf
  <2>9. ~TakesTwo(job[t]) => AllOf(job[t]) = {First(job[t])}
    BY DEF AllOf
  <2>10. ~BeforeLeases(job'[t])
    BY <2>2, <2>3 DEF BeforeLeases, OfAChunk
  <2>11. at = "lock2" => leases'[t] = {First(job'[t])} /\ TakesTwo(job'[t])
    BY <2>2, <2>6, <2>7
  <2>12. at = "act" => leases'[t] = AllOf(job'[t])
    BY <1>1, <2>2, <2>6, <2>7, <2>8, <2>9
  <2>13. LeasesOK(t)'
    BY <2>2, <2>3, <2>10, <2>11, <2>12 DEF LeasesOK
  <2>14. Typed' /\ Control'
    BY <1>6, <1>7, <1>9, <2>1, <2>2, <2>5, <2>13
  <2>15. RegP!Next
    BY <1>9, LeaseSteps
  <2> QED BY <2>14, <2>15
<1> QED BY <1>3, <1>8, <1>9

LEMMA ReleaseKeeps ==
    ASSUME Typed, Control, Leases, NEW t \in Tasks, Release(t)
    PROVE  Typed' /\ Control' /\ [RegP!Next]_(RegP!regVars)
<1>1. /\ job[t].at = "release" /\ UNCHANGED <<fileVars, handleVars, uploading, sweep, sent>>
  BY DEF Release
<1>2. UNCHANGED <<dir, staged, data, file, told, reads, writes, uploading, sweep, sent>>
  BY <1>1 DEF fileVars, handleVars
<1>3. reads[t] = None /\ writes[t] = None /\ (\A k \in Keys : uploading[k] # t) /\ leases[t] \subseteq AllOf(job[t])
  BY <1>1, AfterRelease
<1>4. job[t] \in JobRecord /\ (job[t].op = "clone" => job[t].to \in Keys)
  BY <1>1, InKeys
<1>5. CASE leases[t] = {}
  <2>1. job' = [job EXCEPT ![t] = Idle] /\ UNCHANGED regVars
        /\ work' = IF job[t].op = "clone" /\ job[t].may THEN [work EXCEPT ![<<"clone", job[t].to>>] = @ - 1] ELSE work
    BY <1>5 DEF Release
  <2>2. Idle \in JobRecord /\ JobOK(Idle)
    <3>1. << >> \in Seq(Blocks)
      OBVIOUS
    <3> QED BY <3>1 DEF Idle, JobRecord, Ats, JobOK
  <2>3. job' \in [Tasks -> JobRecord] /\ job'[t] = Idle /\ OthersWait(t)
    BY <2>1, <2>2 DEF Typed, OthersWait
  <2>4. UNCHANGED leases
    BY <2>1 DEF regVars
  <2>5. BeforeLeases(Idle) /\ ~ReadsAt(Idle) /\ ~WritesAt(Idle) /\ Idle.at \notin OfAChunk
        /\ Idle.at \notin {"lock2", "release", "landed", "unlock"}
    BY DEF Idle, BeforeLeases, ReadsAt, WritesAt, OfAChunk
  <2>6. LeasesOK(t)'
    BY <1>5, <2>3, <2>4, <2>5 DEF LeasesOK
  <2>7. HandlesOK(t)' /\ MutexOK(t)'
    BY <1>2, <1>3, <2>3, <2>5 DEF HandlesOK, MutexOK
  <2>8. Control'
    BY <1>2, <2>3, <2>4, <2>6, <2>7, OthersControl
  <2>9. work' \in [Kinds \X Keys -> Int]
    <3>1. job[t].op = "clone" => <<"clone", job[t].to>> \in Kinds \X Keys
      BY <1>4 DEF Kinds
    <3>2. work \in [Kinds \X Keys -> Int]
      BY DEF Typed
    <3> QED BY <2>1, <3>1, <3>2
  <2>10. Typed'
    BY <1>2, <2>2, <2>3, <2>9, TypedStep DEF Typed
  <2> QED BY <2>1, <2>8, <2>10 DEF regVars, RegP!regVars
<1>6. CASE leases[t] # {}
  <2>12. PICK k : k = IF \E l \in leases[t] : l[1] = job[t].from THEN job[t].from ELSE job[t].to
    OBVIOUS
  <2>1. PICK mode \in Reg!TaskModes : Reg!DropLease(t, k, mode)
    BY <1>6, <2>12 DEF Release
  <2>2. UNCHANGED <<job, work>>
    BY <1>6 DEF Release
  <2>3. <<k, mode>> \in leases[t] /\ leases' = [leases EXCEPT ![t] = leases[t] \ {<<k, mode>>}]
    BY <2>1 DEF Reg!DropLease
  <2>4. leases[t] \in SUBSET (Keys \X Reg!TaskModes)
    BY DEF Leases
  <2>5. k \in Keys
    BY <2>3, <2>4
  <2>6. leases'[t] \subseteq leases[t] /\ \A u \in Tasks \ {t} : leases'[u] = leases[u]
    BY <2>3 DEF Leases
  <2>7. LeasesOK(t)'
    BY <1>1, <1>3, <2>2, <2>6 DEF LeasesOK, BeforeLeases, OfAChunk
  <2>8. HandlesOK(t)' /\ MutexOK(t)'
    BY <1>2, <2>2 DEF Control, HandlesOK, MutexOK
  <2>9. Control'
    BY <1>2, <2>2, <2>6, <2>7, <2>8, OthersControl DEF OthersWait
  <2>10. Typed'
    BY <1>2, <2>2 DEF Typed
  <2>11. RegP!Next
    BY <2>1, <2>5, LeaseSteps
  <2> QED BY <2>9, <2>10, <2>11
<1> QED BY <1>5, <1>6

-----------------------------------------------------------------------------
(* Sessions, the sweep and a restart.                                       *)
LEMMA ControlStays ==
    ASSUME Control, UNCHANGED <<job, uploading, reads, writes, leases>> PROVE Control'
<1>1. ASSUME NEW t \in Tasks PROVE LeasesOK(t)' /\ HandlesOK(t)' /\ MutexOK(t)'
  BY DEF Control, LeasesOK, HandlesOK, MutexOK
<1> QED BY <1>1 DEF Control

LEMMA SessionsKeep ==
    ASSUME Typed, Control, Leases, NEW s \in Sessions, Session(s)
    PROVE  Typed' /\ Control' /\ [RegP!Next]_(RegP!regVars)
<1>1. UNCHANGED <<dir, staged, job, uploading, work, sweep, sent, reads, writes>>
  <2>1. CASE Ask(s)
    BY <2>1 DEF Ask, fileVars, handleVars, taskVars
  <2>2. CASE Acquire(s)
    BY <2>2 DEF Acquire, fileVars, handleVars, taskVars
  <2>3. CASE Disconnect(s) \/ Detach(s)
    BY <2>3 DEF Disconnect, Detach, fileVars, handleVars, taskVars
  <2>4. CASE Open(s) \/ Shut(s) \/ \E b \in 1..MaxLen, v \in Blocks : Write(s, b, v)
    BY <2>4 DEF Open, Shut, Write, fileVars, handleVars, taskVars
  <2> QED BY <2>1, <2>2, <2>3, <2>4 DEF Session
<1>2. UNCHANGED leases
  <2>1. CASE Ask(s)
    BY <2>1 DEF Ask, Reg!Ask
  <2>2. CASE Acquire(s)
    BY <2>2 DEF Acquire, Reg!Attach, Reg!Refuse, Reg!PickVictim, Reg!Evict, Reg!Retry, Reg!GiveUp
  <2>3. CASE Disconnect(s) \/ Detach(s)
    BY <2>3 DEF Disconnect, Detach, Reg!Disconnect, Reg!Detach
  <2>4. CASE Open(s) \/ Shut(s) \/ \E b \in 1..MaxLen, v \in Blocks : Write(s, b, v)
    BY <2>4 DEF Open, Shut, Write, regVars
  <2> QED BY <2>1, <2>2, <2>3, <2>4 DEF Session
<1>3. dir \in [Keys -> MayBe(Inodes)] /\ data \in [Inodes -> Seq(Blocks)] /\ ask[s].key \in Keys
      /\ file \in [Sessions -> MayBe(Inodes)] /\ told \in [Sessions -> MayBe(Nat)]
  BY DEF Typed, Leases
<1>4. /\ data' \in [Inodes -> Seq(Blocks)] /\ file' \in [Sessions -> MayBe(Inodes)] /\ told' \in [Sessions -> MayBe(Nat)]
  <2>1. CASE Ask(s) \/ Acquire(s) \/ Disconnect(s) \/ Detach(s)
    BY <1>3, <2>1 DEF Ask, Acquire, Disconnect, Detach, fileVars, handleVars
  <2>2. CASE Open(s)
    <3>1. PICK i \in Inodes : i = dir[ask[s].key]
      BY <1>3, <2>2 DEF Open, MayBe
    <3>2. file' = [file EXCEPT ![s] = i] /\ told' = [told EXCEPT ![s] = Len(data[i])] /\ UNCHANGED data
      BY <2>2, <3>1 DEF Open, fileVars
    <3>3. Len(data[i]) \in MayBe(Nat) /\ i \in MayBe(Inodes)
      BY <1>3 DEF MayBe
    <3> QED BY <1>3, <3>2, <3>3
  <2>3. CASE Shut(s)
    <3>1. None \in MayBe(Inodes)
      BY DEF MayBe
    <3> QED BY <1>3, <2>3, <3>1, StoreKeeps DEF Shut
  <2>4. ASSUME NEW b \in 1..MaxLen, NEW v \in Blocks, Write(s, b, v)
        PROVE  /\ data' \in [Inodes -> Seq(Blocks)] /\ UNCHANGED <<file, told>>
    <3>1. PICK i \in Inodes : i = file[s]
      BY <1>3, <2>4 DEF Write, MayBe
    <3>2. PICK w : w = Written(data[i], b, v)
      OBVIOUS
    <3>3. b \in Nat \ {0}
      BY FolderAssumption
    <3>4. w \in Seq(Blocks)
      BY <1>3, <3>2, <3>3, WrittenType
    <3>5. data' = [data EXCEPT ![i] = w] /\ UNCHANGED <<file, told>>
      BY <2>4, <3>1, <3>2 DEF Write, handleVars
    <3> QED BY <1>3, <3>4, <3>5
  <2> QED BY <1>3, <2>1, <2>2, <2>3, <2>4 DEF Session
<1>5. Typed'
  BY <1>1, <1>4 DEF Typed
<1>6. Control'
  BY <1>1, <1>2, ControlStays
<1> QED BY <1>5, <1>6, SessionSteps

LEMMA SweepKeeps ==
    ASSUME Typed, Control, Sweep PROVE Typed' /\ Control' /\ UNCHANGED regVars
<1>1. UNCHANGED <<regVars, dir, handleVars, job, uploading, work, sent>>
  BY DEF Sweep, SweepSees, SweepChecks, SweepRemoves, fileVars
<1>2. UNCHANGED <<leases, file, told, reads, writes>>
  BY <1>1 DEF regVars, handleVars
<1>3. /\ staged \in [Kinds \X Keys -> MayBe(Inodes)] /\ data \in [Inodes -> Seq(Blocks)] /\ None \in MayBe(Inodes)
      /\ sweep \in [at : {"idle", "seen", "remove"}, kind : Kinds, key : MayBe(Keys)]
      /\ sweep.at # "idle" => sweep.key \in Keys
  BY DEF Typed, MayBe
<1>4. NoSweep \in [at : {"idle", "seen", "remove"}, kind : Kinds, key : MayBe(Keys)] /\ NoSweep.at = "idle"
  BY DEF NoSweep, Kinds, MayBe
<1>5. /\ staged' \in [Kinds \X Keys -> MayBe(Inodes)] /\ data' \in [Inodes -> Seq(Blocks)]
      /\ sweep' \in [at : {"idle", "seen", "remove"}, kind : Kinds, key : MayBe(Keys)]
      /\ sweep'.at # "idle" => sweep'.key \in Keys
  <2>1. ASSUME NEW x \in Kinds \X Keys, SweepSees(x[1], x[2])
        PROVE  /\ sweep' \in [at : {"idle", "seen", "remove"}, kind : Kinds, key : MayBe(Keys)]
               /\ sweep'.key \in Keys /\ UNCHANGED <<staged, data>>
    <3>1. PICK kd \in Kinds, k \in Keys : kd = x[1] /\ k = x[2]
      OBVIOUS
    <3>2. sweep' = [at |-> "seen", kind |-> kd, key |-> k] /\ UNCHANGED <<staged, data>>
      BY <2>1, <3>1 DEF SweepSees, fileVars
    <3> QED BY <3>2 DEF MayBe
  <2>2. CASE SweepChecks
    <3>1. sweep' = NoSweep \/ sweep' = [sweep EXCEPT !.at = "remove"]
      BY <2>2 DEF SweepChecks
    <3>2. sweep.key \in Keys /\ UNCHANGED <<staged, data>>
      BY <1>3, <2>2 DEF SweepChecks, fileVars
    <3> QED BY <1>3, <1>4, <3>1, <3>2
  <2>3. CASE SweepRemoves
    <3>1. PICK x \in Kinds \X Keys : x = <<sweep.kind, sweep.key>>
      BY <1>3, <2>3 DEF SweepRemoves
    <3>2. staged' = [staged EXCEPT ![x] = None] /\ sweep' = NoSweep /\ Store(data)
      BY <2>3, <3>1 DEF SweepRemoves
    <3> QED BY <1>3, <1>4, <3>2, StoreKeeps
  <2> QED BY <1>3, <2>1, <2>2, <2>3 DEF Sweep
<1>6. Typed'
  BY <1>1, <1>2, <1>5 DEF Typed
<1> QED BY <1>1, <1>2, <1>6, ControlStays

LEMMA RestartKeeps ==
    ASSUME Typed, Control, Restart PROVE Typed' /\ Control'
<1>1. /\ UNCHANGED <<dir, staged, told, sent>> /\ Store(data)
      /\ file' = [s \in Sessions |-> None] /\ reads' = [t \in Tasks |-> None] /\ writes' = [t \in Tasks |-> None]
      /\ job' = [t \in Tasks |-> Idle] /\ uploading' = [k \in Keys |-> None]
      /\ work' = [x \in Kinds \X Keys |-> 0] /\ sweep' = NoSweep /\ leases' = [t \in Tasks |-> {}]
  BY DEF Restart, Reg!Restart
<1>2. Idle \in JobRecord /\ JobOK(Idle)
  <2>1. << >> \in Seq(Blocks)
    OBVIOUS
  <2> QED BY <2>1 DEF Idle, JobRecord, Ats, JobOK
<1>3. data' \in [Inodes -> Seq(Blocks)]
  BY <1>1, StoreKeeps DEF Typed
<1>4. Typed'
  BY <1>1, <1>2, <1>3 DEF Typed, MayBe, NoSweep, Kinds
<1>5. BeforeLeases(Idle) /\ ~ReadsAt(Idle) /\ ~WritesAt(Idle) /\ Idle.at \notin OfAChunk
      /\ Idle.at \notin {"lock2", "release", "landed", "unlock"}
  BY DEF Idle, BeforeLeases, ReadsAt, WritesAt, OfAChunk
<1>6. ASSUME NEW t \in Tasks PROVE LeasesOK(t)' /\ HandlesOK(t)' /\ MutexOK(t)'
  <2>1. leases'[t] = {} /\ job'[t] = Idle /\ reads'[t] = None /\ writes'[t] = None /\ \A k \in Keys : uploading'[k] # t
    BY <1>1, FolderAssumption
  <2> QED BY <1>5, <2>1 DEF LeasesOK, HandlesOK, MutexOK
<1> QED BY <1>4, <1>6 DEF Control

LEMMA Starting == Init => Typed /\ Control /\ RegP!Init
<1> SUFFICES ASSUME Init PROVE Typed /\ Control /\ RegP!Init
  OBVIOUS
<1>1. RegP!Init
  BY DEF Init, Reg!Init, RegP!Init, Reg!Empty, RegP!Empty, Reg!SessionModes, RegP!SessionModes
<1>2. /\ staged = [x \in Kinds \X Keys |-> None]
      /\ file = [s \in Sessions |-> None] /\ reads = [t \in Tasks |-> None] /\ writes = [t \in Tasks |-> None]
      /\ told = [s \in Sessions |-> None] /\ sent = [k \in Keys |-> <<>>]
      /\ job = [t \in Tasks |-> Idle] /\ uploading = [k \in Keys |-> None]
      /\ work = [x \in Kinds \X Keys |-> 0] /\ sweep = NoSweep /\ leases = [t \in Tasks |-> {}]
  BY DEF Init, Reg!Init
<1>3. << >> \in Seq(Blocks) /\ Zeros(MaxLen) \in Seq(Blocks)
  BY FolderAssumption, ZerosType
<1>4. Idle \in JobRecord /\ JobOK(Idle)
  BY <1>3 DEF Idle, JobRecord, Ats, JobOK
<1>5. FirstInode \in [Keys -> Inodes]
  BY FolderAssumption DEF FirstInode
<1>6. dir \in [Keys -> MayBe(Inodes)]
  <2>1. PICK images : dir = [k \in Keys |-> IF k \in images THEN FirstInode[k] ELSE None]
    BY DEF Init
  <2> QED BY <1>5, <2>1 DEF MayBe
<1>7. data \in [Inodes -> Seq(Blocks)]
  BY <1>3 DEF Init
<1>8. Typed
  BY <1>2, <1>3, <1>4, <1>6, <1>7 DEF Typed, MayBe, NoSweep, Kinds
<1>9. BeforeLeases(Idle) /\ ~ReadsAt(Idle) /\ ~WritesAt(Idle) /\ Idle.at \notin OfAChunk
      /\ Idle.at \notin {"lock2", "release", "landed", "unlock"}
  BY DEF Idle, BeforeLeases, ReadsAt, WritesAt, OfAChunk
<1>10. ASSUME NEW t \in Tasks PROVE LeasesOK(t) /\ HandlesOK(t) /\ MutexOK(t)
  <2>1. leases[t] = {} /\ job[t] = Idle /\ reads[t] = None /\ writes[t] = None /\ \A k \in Keys : uploading[k] # t
    BY <1>2, FolderAssumption
  <2> QED BY <1>9, <2>1 DEF LeasesOK, HandlesOK, MutexOK
<1> QED BY <1>1, <1>8, <1>10 DEF Control

(* Every step of the folder is one of the registry, or leaves it alone, and *)
(* keeps to what jobs hold and have open.                                   *)
LEMMA TypedControl ==
    ASSUME Typed, Control, Leases, RoomForAFile, [Next]_vars
    PROVE  Typed' /\ Control' /\ [RegP!Next]_(RegP!regVars)
<1>1. CASE UNCHANGED vars
  <2>1. UNCHANGED <<entries, pc, ask, victim, closed, leases, dir, staged, data, file, told, reads, writes,
                    job, uploading, work, sweep, sent>>
    BY <1>1 DEF vars, regVars, fileVars, handleVars, taskVars
  <2> QED BY <2>1, ControlStays DEF Typed, RegP!regVars
<1>2. ASSUME NEW s \in Sessions, Session(s) PROVE Typed' /\ Control' /\ [RegP!Next]_(RegP!regVars)
  BY <1>2, SessionsKeep
<1>3. ASSUME NEW t \in Tasks, Request(t) PROVE Typed' /\ Control' /\ [RegP!Next]_(RegP!regVars)
  <2>1. UNCHANGED regVars
    BY <1>3, RequestsAreFresh DEF Fresh
  <2> QED BY <1>3, <2>1, Starts DEF regVars, RegP!regVars
<1>4. ASSUME NEW t \in Tasks, Operation(t) PROVE Typed' /\ Control' /\ [RegP!Next]_(RegP!regVars)
  <2>1. CASE Locks(t)
    BY <2>1, LocksKeep
  <2>2. CASE Release(t)
    BY <2>2, ReleaseKeeps
  <2>3. CASE RenameCheck(t) \/ CloneCheck(t) \/ UploadFit(t) \/ FinishStat(t) \/ FinishCheck(t)
    <3>1. UNCHANGED regVars
      BY <2>3 DEF RenameCheck, CloneCheck, UploadFit, FinishStat, FinishCheck, NoHandles
    <3> QED BY <2>3, <3>1, Looks DEF regVars, RegP!regVars
  <2>4. CASE RenameMove(t) \/ Remove(t) \/ CloneClear(t) \/ CloneCheckAgain(t) \/ CloneMove(t) \/ FinishMove(t)
    <3>1. UNCHANGED regVars
      BY <2>4 DEF RenameMove, Remove, CloneClear, CloneCheckAgain, CloneMove, FinishMove, NoHandles
    <3> QED BY <2>4, <3>1, MovesNames DEF regVars, RegP!regVars
  <2>5. CASE CloneBlock(t) \/ UploadClear(t) \/ UploadUndo(t) \/ UploadExtend(t) \/ DownloadBlock(t)
             \/ CloneBegin(t) \/ \E v \in Blocks : UploadBlock(t, v)
    <3>1. UNCHANGED regVars
      BY <2>5 DEF CloneBlock, UploadClear, UploadUndo, UploadExtend, DownloadBlock, CloneBegin, UploadBlock, NoHandles
    <3> QED BY <2>5, <3>1, MovesBlocks DEF regVars, RegP!regVars
  <2>6. CASE CreateOpen(t) \/ ResizeOpen(t) \/ DownloadOpen(t) \/ UploadOpen(t)
    <3>1. UNCHANGED regVars
      BY <2>6 DEF CreateOpen, ResizeOpen, DownloadOpen, UploadOpen
    <3> QED BY <2>6, <3>1, Opens DEF regVars, RegP!regVars
  <2>7. CASE CreateExtend(t) \/ ResizeTruncate(t) \/ DownloadEnd(t) \/ CloneCopied(t) \/ CloneStop(t)
    <3>1. UNCHANGED regVars
      BY <2>7 DEF CreateExtend, ResizeTruncate, DownloadEnd, CloneCopied, CloneStop
    <3> QED BY <2>7, <3>1, Closes DEF regVars, RegP!regVars
  <2>8. CASE CloneOpen(t)
    <3>1. UNCHANGED regVars
      BY <2>8 DEF CloneOpen
    <3> QED BY <2>8, <3>1, CloneOpens DEF regVars, RegP!regVars
  <2>9. CASE UploadBegin(t) \/ UploadUnlock(t)
    <3>1. UNCHANGED regVars
      BY <2>9 DEF UploadBegin, UploadUnlock
    <3> QED BY <2>9, <3>1, PassesTheMutex DEF regVars, RegP!regVars
  <2> QED BY <1>4, <2>1, <2>2, <2>3, <2>4, <2>5, <2>6, <2>7, <2>8, <2>9 DEF Operation
<1>5. CASE Sweep
  BY <1>5, SweepKeeps DEF regVars, RegP!regVars
<1>6. CASE Restart
  BY <1>6, RestartKeeps, RestartStep
<1> QED BY <1>1, <1>2, <1>3, <1>4, <1>5, <1>6 DEF Next

-----------------------------------------------------------------------------
(* The marks on staging files.                                              *)
Early == {"lock", "lock2", "act", "clear", "begin"}
Unmarked(t) == job[t].op = "clone" /\ job[t].at \in Early => ~job[t].may
Workers(x) == {t \in Tasks : Works(t, x)}
WorkOK ==
    /\ \A x \in Kinds \X Keys : work[x] = Cardinality(Workers(x))
    /\ \A t \in Tasks : Unmarked(t)

LEMMA SameWork ==
    ASSUME WorkOK, NEW t \in Tasks, OthersWait(t), UNCHANGED work,
           \A x \in Kinds \X Keys : Works(t, x)' <=> Works(t, x), Unmarked(t)'
    PROVE  WorkOK'
<1>1. \A u \in Tasks \ {t} : (\A x \in Kinds \X Keys : Works(u, x)' <=> Works(u, x)) /\ (Unmarked(u)' <=> Unmarked(u))
  BY DEF OthersWait, Works, Staging, Unmarked
<1>2. \A x \in Kinds \X Keys : Workers(x)' = Workers(x)
  BY <1>1 DEF Workers
<1> QED BY <1>1, <1>2 DEF WorkOK

(* One task more, or one less, works on a staging file.                     *)
LEMMA OneMoreOrLess ==
    ASSUME WorkOK, NEW t \in Tasks, OthersWait(t), NEW y \in Kinds \X Keys, Unmarked(t)',
           work \in [Kinds \X Keys -> Int],
           \A x \in (Kinds \X Keys) \ {y} : ~Works(t, x) /\ ~Works(t, x)',
           \/ ~Works(t, y) /\ Works(t, y)' /\ work' = [work EXCEPT ![y] = work[y] + 1]
           \/ Works(t, y) /\ ~Works(t, y)' /\ work' = [work EXCEPT ![y] = work[y] - 1]
    PROVE  WorkOK'
<1>1. \A u \in Tasks \ {t} : (\A x \in Kinds \X Keys : Works(u, x)' <=> Works(u, x)) /\ (Unmarked(u)' <=> Unmarked(u))
  BY DEF OthersWait, Works, Staging, Unmarked
<1>2. \A x \in (Kinds \X Keys) \ {y} : Workers(x)' = Workers(x) /\ work'[x] = work[x]
  BY <1>1 DEF Workers
<1>3. IsFiniteSet(Workers(y))
  BY FolderAssumption, FS_Subset DEF Workers
<1>4. work[y] = Cardinality(Workers(y)) /\ work[y] \in Int
  BY DEF WorkOK
<1>5. CASE ~Works(t, y) /\ Works(t, y)' /\ work' = [work EXCEPT ![y] = work[y] + 1]
  <2>1. Workers(y)' = Workers(y) \union {t} /\ t \notin Workers(y)
    BY <1>1, <1>5 DEF Workers
  <2>2. Cardinality(Workers(y) \union {t}) = Cardinality(Workers(y)) + 1
    BY <1>3, <2>1, FS_AddElement
  <2>3. work'[y] = Cardinality(Workers(y)')
    BY <1>4, <1>5, <2>1, <2>2
  <2> QED BY <1>1, <1>2, <2>3 DEF WorkOK
<1>6. CASE Works(t, y) /\ ~Works(t, y)' /\ work' = [work EXCEPT ![y] = work[y] - 1]
  <2>1. Workers(y)' = Workers(y) \ {t} /\ t \in Workers(y)
    BY <1>1, <1>6 DEF Workers
  <2>2. Cardinality(Workers(y) \ {t}) = Cardinality(Workers(y)) - 1
    BY <1>3, <2>1, FS_RemoveElement
  <2>3. work'[y] = Cardinality(Workers(y)')
    BY <1>4, <1>6, <2>1, <2>2
  <2> QED BY <1>1, <1>2, <2>3 DEF WorkOK
<1> QED BY <1>5, <1>6

(* Where a job goes that does not change who works on what.                 *)
Onward(t) ==
    /\ OthersWait(t) /\ SameBut(t) /\ job'[t].may = job[t].may /\ UNCHANGED work
    /\ \/ GoesFrom(job[t], job'[t].at)
       \/ job[t].at \in {"lock", "lock2"} /\ job'[t].at \in {"lock2", "act", "release"}

LEMMA OnwardKeepsWork ==
    ASSUME WorkOK, NEW t \in Tasks, Onward(t) PROVE WorkOK'
<1>1. /\ job'[t].op = job[t].op /\ job'[t].from = job[t].from /\ job'[t].to = job[t].to /\ job'[t].may = job[t].may
      /\ OthersWait(t) /\ UNCHANGED work
  BY DEF Onward, SameBut
<1>2. job[t].op = "upload" => (job'[t].at \in OfAChunk <=> job[t].at \in OfAChunk)
  BY DEF Onward, GoesFrom, OfAChunk
<1>3. job[t].op = "clone" /\ job'[t].at \in Early => job[t].at \in Early
  BY DEF Onward, GoesFrom, Early
<1>4. \A x \in Kinds \X Keys : Works(t, x)' <=> Works(t, x)
  BY <1>1, <1>2 DEF Works, Staging, OfAChunk
<1>5. Unmarked(t)'
  BY <1>1, <1>3 DEF WorkOK, Unmarked
<1> QED BY <1>1, <1>4, <1>5, SameWork

LEMMA OperationsOnward ==
    ASSUME Typed, Control, Leases, NEW t \in Tasks, Operation(t),
           ~Release(t), ~CloneBegin(t), ~UploadUnlock(t), ~UploadBegin(t)
    PROVE  Onward(t)
<1>1. ASSUME NEW at \in Ats, Go(t, at), UNCHANGED work,
             GoesFrom(job[t], at) \/ (job[t].at \in {"lock", "lock2"} /\ at \in {"lock2", "act", "release"})
      PROVE  Onward(t)
  BY <1>1, GoFacts DEF Onward
<1>2. CASE Locks(t)
  <2>1. PICK at \in {"lock2", "act", "release"} : Go(t, at)
    BY <1>2, LocksDo DEF NextPlace
  <2>2. job[t].at \in {"lock", "lock2"} /\ UNCHANGED work /\ at \in Ats
    BY <1>2, LocksDo DEF Ats
  <2> QED BY <1>1, <2>1, <2>2
<1>3. CASE RenameCheck(t) \/ CloneCheck(t) \/ UploadFit(t) \/ FinishStat(t) \/ FinishCheck(t)
  <2>1. PICK at \in Ats : Go(t, at) /\ GoesFrom(job[t], at)
    BY <1>3 DEF RenameCheck, CloneCheck, UploadFit, FinishStat, FinishCheck, At, GoesFrom, Ats
  <2>2. UNCHANGED work
    BY <1>3 DEF RenameCheck, CloneCheck, UploadFit, FinishStat, FinishCheck, NoHandles
  <2> QED BY <1>1, <2>1, <2>2
<1>4. CASE RenameMove(t) \/ Remove(t) \/ CloneClear(t) \/ CloneCheckAgain(t) \/ CloneMove(t) \/ FinishMove(t)
  <2>1. PICK at \in Ats : Go(t, at) /\ GoesFrom(job[t], at)
    BY <1>4 DEF RenameMove, Remove, CloneClear, CloneCheckAgain, CloneMove, FinishMove, At, GoesFrom, Ats
  <2>2. UNCHANGED work
    BY <1>4 DEF RenameMove, Remove, CloneClear, CloneCheckAgain, CloneMove, FinishMove, NoHandles
  <2> QED BY <1>1, <2>1, <2>2
<1>5. CASE UploadClear(t) \/ UploadUndo(t) \/ UploadExtend(t)
  <2>1. PICK at \in Ats : Go(t, at) /\ GoesFrom(job[t], at)
    BY <1>5 DEF UploadClear, UploadUndo, UploadExtend, At, GoesFrom, Ats
  <2>2. UNCHANGED work
    BY <1>5 DEF UploadClear, UploadUndo, UploadExtend, NoHandles
  <2> QED BY <1>1, <2>1, <2>2
<1>6. CASE CloneBlock(t) \/ DownloadBlock(t) \/ \E v \in Blocks : UploadBlock(t, v)
  <2>1. \/ \E n : job' = [job EXCEPT ![t].pos = n]
        \/ \E g : job' = [job EXCEPT ![t].got = g]
    BY <1>6 DEF CloneBlock, DownloadBlock, UploadBlock
  <2>2. job \in [Tasks -> JobRecord]
    BY DEF Typed
  <2>3. SameBut(t) /\ OthersWait(t) /\ job'[t].at = job[t].at /\ job'[t].may = job[t].may
    <3>1. ASSUME NEW n, job' = [job EXCEPT ![t].pos = n]
          PROVE  SameBut(t) /\ OthersWait(t) /\ job'[t].at = job[t].at /\ job'[t].may = job[t].may
      <4>1. PICK new : new = [job[t] EXCEPT !.pos = n]
        OBVIOUS
      <4>2. job' = [job EXCEPT ![t] = new]
        BY <3>1, <4>1
      <4>3. /\ new.at = job[t].at /\ new.op = job[t].op /\ new.from = job[t].from /\ new.to = job[t].to
            /\ new.size = job[t].size /\ new.start = job[t].start /\ new.end = job[t].end /\ new.may = job[t].may
        BY <2>2, <4>1 DEF JobRecord
      <4> QED BY <2>2, <4>2, <4>3 DEF SameBut, OthersWait
    <3>2. ASSUME NEW g, job' = [job EXCEPT ![t].got = g]
          PROVE  SameBut(t) /\ OthersWait(t) /\ job'[t].at = job[t].at /\ job'[t].may = job[t].may
      <4>1. PICK new : new = [job[t] EXCEPT !.got = g]
        OBVIOUS
      <4>2. job' = [job EXCEPT ![t] = new]
        BY <3>2, <4>1
      <4>3. /\ new.at = job[t].at /\ new.op = job[t].op /\ new.from = job[t].from /\ new.to = job[t].to
            /\ new.size = job[t].size /\ new.start = job[t].start /\ new.end = job[t].end /\ new.may = job[t].may
        BY <2>2, <4>1 DEF JobRecord
      <4> QED BY <2>2, <4>2, <4>3 DEF SameBut, OthersWait
    <3> QED BY <2>1, <3>1, <3>2
  <2>4. GoesFrom(job[t], job[t].at)
    BY <1>6 DEF CloneBlock, DownloadBlock, UploadBlock, At, GoesFrom
  <2>5. UNCHANGED work
    BY <1>6 DEF CloneBlock, DownloadBlock, UploadBlock, NoHandles
  <2> QED BY <2>3, <2>4, <2>5 DEF Onward
<1>7. CASE CreateOpen(t) \/ ResizeOpen(t) \/ DownloadOpen(t) \/ UploadOpen(t) \/ CloneOpen(t)
  <2>1. PICK at \in Ats : Go(t, at) /\ GoesFrom(job[t], at)
    BY <1>7 DEF CreateOpen, ResizeOpen, DownloadOpen, UploadOpen, CloneOpen, At, GoesFrom, Ats
  <2>2. UNCHANGED work
    BY <1>7 DEF CreateOpen, ResizeOpen, DownloadOpen, UploadOpen, CloneOpen
  <2> QED BY <1>1, <2>1, <2>2
<1>8. CASE CreateExtend(t) \/ ResizeTruncate(t) \/ DownloadEnd(t) \/ CloneCopied(t) \/ CloneStop(t)
  <2>1. PICK at \in Ats : Go(t, at) /\ GoesFrom(job[t], at)
    BY <1>8 DEF CreateExtend, ResizeTruncate, DownloadEnd, CloneCopied, CloneStop, At, GoesFrom, Ats
  <2>2. UNCHANGED work
    BY <1>8 DEF CreateExtend, ResizeTruncate, DownloadEnd, CloneCopied, CloneStop
  <2> QED BY <1>1, <2>1, <2>2
<1> QED BY <1>2, <1>3, <1>4, <1>5, <1>6, <1>7, <1>8 DEF Operation

LEMMA WorkStep ==
    ASSUME Typed, Control, Leases, WorkOK, [Next]_vars PROVE WorkOK'
<1>1. work \in [Kinds \X Keys -> Int]
  BY DEF Typed
<1>2. ASSUME UNCHANGED <<job, work>> PROVE WorkOK'
  BY <1>2 DEF WorkOK, Workers, Works, Staging, Unmarked
<1>3. ASSUME NEW t \in Tasks, Request(t) PROVE WorkOK'
  <2>1. PICK j : Fresh(t, j)
    BY <1>3, RequestsAreFresh
  <2>2. job'[t] = j /\ OthersWait(t) /\ job[t] = Idle /\ UNCHANGED work
    BY <2>1 DEF Fresh, Typed, OthersWait
  <2>3. \A x \in Kinds \X Keys : ~Works(t, x) /\ ~Works(t, x)'
    BY <2>1, <2>2 DEF Works, Fresh, Idle
  <2>4. Unmarked(t)'
    BY <2>1, <2>2 DEF Fresh, Unmarked
  <2> QED BY <2>2, <2>3, <2>4, SameWork
<1>4. ASSUME NEW t \in Tasks, CloneBegin(t) PROVE WorkOK'
  <2>1. PICK new : new = [job[t] EXCEPT !.at = "copy", !.may = TRUE]
    OBVIOUS
  <2>2. job[t] \in JobRecord /\ job[t].to \in Keys
    BY <1>4, InKeys DEF CloneBegin, At
  <2>3. PICK y \in Kinds \X Keys : y = <<"clone", job[t].to>>
    BY <2>2 DEF Kinds
  <2>4. job' = [job EXCEPT ![t] = new] /\ At(t, "clone", "begin") /\ work' = [work EXCEPT ![y] = work[y] + 1]
    BY <1>4, <2>1, <2>3 DEF CloneBegin
  <2>5. new.at = "copy" /\ new.may /\ new.op = "clone" /\ new.to = job[t].to
    BY <2>1, <2>2, <2>4 DEF JobRecord, At
  <2>6. job'[t] = new /\ OthersWait(t)
    BY <2>4 DEF Typed, OthersWait
  <2>7. ~job[t].may
    BY <2>4 DEF WorkOK, Unmarked, At, Early
  <2>8. \A x \in Kinds \X Keys : ~Works(t, x) /\ (Works(t, x)' <=> x = y)
    BY <2>3, <2>4, <2>5, <2>6, <2>7 DEF Works, At
  <2>9. Unmarked(t)'
    BY <2>5, <2>6 DEF Unmarked, Early
  <2> QED BY <1>1, <2>4, <2>6, <2>8, <2>9, OneMoreOrLess
<1>5. ASSUME NEW t \in Tasks, UploadBegin(t) PROVE WorkOK'
  <2>1. job[t].from \in Keys /\ At(t, "upload", "mutex")
    BY <1>5, InKeys DEF UploadBegin, At
  <2>2. PICK y \in Kinds \X Keys : y = Staging(t)
    BY <2>1 DEF Kinds, Staging
  <2>3. CASE Go(t, "release") /\ UNCHANGED work
    <3>1. job'[t].at = "release" /\ SameBut(t) /\ OthersWait(t) /\ job'[t].may = job[t].may
      BY <2>3, GoFacts DEF Ats
    <3>2. GoesFrom(job[t], job'[t].at)
      BY <2>1, <3>1 DEF GoesFrom, At
    <3> QED BY <2>3, <3>1, <3>2, OnwardKeepsWork DEF Onward
  <2>4. CASE Go(t, "fit") /\ work' = [work EXCEPT ![y] = work[y] + 1]
    <3>1. job'[t].at = "fit" /\ SameBut(t) /\ OthersWait(t)
      BY <2>4, GoFacts DEF Ats
    <3>2. \A x \in Kinds \X Keys : ~Works(t, x) /\ (Works(t, x)' <=> x = y)
      BY <2>1, <2>2, <3>1 DEF Works, SameBut, At, Staging
    <3>3. Unmarked(t)'
      BY <2>1, <3>1 DEF Unmarked, SameBut, At
    <3> QED BY <1>1, <2>4, <3>1, <3>2, <3>3, OneMoreOrLess
  <2> QED BY <1>5, <2>2, <2>3, <2>4 DEF UploadBegin
<1>6. ASSUME NEW t \in Tasks, UploadUnlock(t) PROVE WorkOK'
  <2>1. job[t].from \in Keys /\ job[t].op = "upload" /\ job[t].at \in {"unlock", "landed"}
    BY <1>6, InKeys DEF UploadUnlock, At
  <2>2. PICK y \in Kinds \X Keys : y = Staging(t)
    BY <2>1 DEF Kinds, Staging
  <2>3. PICK at \in {"whole", "release"} : Go(t, at)
    BY <1>6 DEF UploadUnlock
  <2>4. work' = [work EXCEPT ![y] = work[y] - 1]
    BY <1>6, <2>2 DEF UploadUnlock
  <2>5. job'[t].at = at /\ SameBut(t) /\ OthersWait(t)
    BY <2>3, GoFacts DEF Ats
  <2>6. \A x \in Kinds \X Keys : ~Works(t, x)' /\ (Works(t, x) <=> x = y)
    BY <2>1, <2>2, <2>5 DEF Works, SameBut, Staging
  <2>7. Unmarked(t)'
    BY <2>1, <2>5 DEF Unmarked, SameBut
  <2> QED BY <1>1, <2>4, <2>5, <2>6, <2>7, OneMoreOrLess
<1>7. ASSUME NEW t \in Tasks, Release(t) PROVE WorkOK'
  <2>1. CASE leases[t] # {}
    BY <1>2, <1>7, <2>1 DEF Release
  <2>2. CASE leases[t] = {}
    <3>1. job' = [job EXCEPT ![t] = Idle] /\ job[t].at = "release"
          /\ work' = IF job[t].op = "clone" /\ job[t].may THEN [work EXCEPT ![<<"clone", job[t].to>>] = @ - 1] ELSE work
      BY <1>7, <2>2 DEF Release
    <3>2. job'[t] = Idle /\ OthersWait(t) /\ (job[t].op = "clone" => job[t].to \in Keys)
      BY <3>1, InKeys DEF Typed, OthersWait
    <3>3. \A x \in Kinds \X Keys : ~Works(t, x)'
      BY <3>2 DEF Works, Idle
    <3>4. Unmarked(t)'
      BY <3>2 DEF Unmarked, Idle, Early
    <3>5. CASE job[t].op = "clone" /\ job[t].may
      <4>1. PICK y \in Kinds \X Keys : y = <<"clone", job[t].to>>
        BY <3>2, <3>5 DEF Kinds
      <4>2. work' = [work EXCEPT ![y] = work[y] - 1]
        BY <3>1, <3>5, <4>1
      <4>3. \A x \in Kinds \X Keys : Works(t, x) <=> x = y
        BY <3>5, <4>1 DEF Works
      <4> QED BY <1>1, <3>2, <3>3, <3>4, <4>2, <4>3, OneMoreOrLess
    <3>6. CASE ~(job[t].op = "clone" /\ job[t].may)
      <4>1. \A x \in Kinds \X Keys : ~Works(t, x)
        BY <3>1, <3>6 DEF Works
      <4> QED BY <3>1, <3>2, <3>3, <3>4, <3>6, <4>1, SameWork
    <3> QED BY <3>5, <3>6
  <2> QED BY <2>1, <2>2
<1>8. CASE Restart
  <2>1. /\ job' = [t \in Tasks |-> Idle] /\ work' = [x \in Kinds \X Keys |-> 0]
    BY <1>8 DEF Restart
  <2>2. \A x \in Kinds \X Keys : Workers(x)' = {}
    BY <2>1 DEF Workers, Works, Idle
  <2>3. \A t \in Tasks : Unmarked(t)'
    BY <2>1 DEF Unmarked, Idle, Early
  <2>4. Cardinality({}) = 0
    BY FS_EmptySet
  <2> QED BY <2>1, <2>2, <2>3, <2>4 DEF WorkOK
<1>9. ASSUME NEW s \in Sessions, Session(s) PROVE UNCHANGED <<job, work>>
  BY <1>9, SessionsKeep DEF Session, Ask, Acquire, Disconnect, Open, Shut, Detach, Write, taskVars
<1>10. CASE Sweep
  BY <1>2, <1>10 DEF Sweep, SweepSees, SweepChecks, SweepRemoves
<1>11. CASE UNCHANGED vars
  BY <1>2, <1>11 DEF vars, taskVars
<1>12. ASSUME NEW t \in Tasks, Operation(t) PROVE WorkOK'
  BY <1>4, <1>5, <1>6, <1>7, <1>12, OperationsOnward, OnwardKeepsWork
<1> QED BY <1>2, <1>3, <1>8, <1>9, <1>10, <1>11, <1>12 DEF Next

(* What holds of the folder and of its registry whatever is done to files.  *)
KeptInv == RegP!IInv /\ Typed /\ Control /\ WorkOK

LEMMA KeptInit == Init => KeptInv
<1> SUFFICES ASSUME Init PROVE KeptInv
  OBVIOUS
<1>1. RegP!IInv /\ Typed /\ Control
  BY Starting, SameSets, FolderAssumption, RegP!InvInit
<1>2. job = [t \in Tasks |-> Idle] /\ work = [x \in Kinds \X Keys |-> 0]
  BY DEF Init
<1>3. \A x \in Kinds \X Keys : Workers(x) = {}
  BY <1>2 DEF Workers, Works, Idle
<1>4. \A t \in Tasks : Unmarked(t)
  BY <1>2 DEF Unmarked, Idle, Early
<1>5. Cardinality({}) = 0
  BY FS_EmptySet
<1> QED BY <1>1, <1>2, <1>3, <1>4, <1>5 DEF KeptInv, WorkOK

LEMMA KeptStep == KeptInv /\ RoomForAFile /\ [Next]_vars => KeptInv'
<1> SUFFICES ASSUME KeptInv, RoomForAFile, [Next]_vars PROVE KeptInv'
  OBVIOUS
<1>1. RegP!IInv /\ Typed /\ Control /\ WorkOK
  BY DEF KeptInv
<1>2. Leases
  BY <1>1, RegistryFacts
<1>3. Typed' /\ Control' /\ [RegP!Next]_(RegP!regVars)
  BY <1>1, <1>2, TypedControl
<1>4. RegP!IInv'
  BY <1>1, <1>3, SameSets, FolderAssumption, RegP!InvStep
<1>5. WorkOK'
  BY <1>1, <1>2, WorkStep
<1> QED BY <1>3, <1>4, <1>5 DEF KeptInv

LEMMA NothingIsLeft == Typed /\ Control /\ WorkOK => NothingLeftBehind
<1> SUFFICES ASSUME Typed, Control, WorkOK PROVE NothingLeftBehind
  OBVIOUS
<1>1. ASSUME NEW t \in Tasks, job[t].at = "idle"
      PROVE  leases[t] = {} /\ reads[t] = None /\ writes[t] = None
  <2>1. BeforeLeases(job[t]) /\ ~ReadsAt(job[t]) /\ ~WritesAt(job[t])
    BY <1>1 DEF BeforeLeases, ReadsAt, WritesAt
  <2> QED BY <1>1, <2>1 DEF Control, LeasesOK, HandlesOK
<1>2. ASSUME NEW k \in Keys PROVE {t \in Tasks : Works(t, <<"upload", k>>)} = {uploading[k]} \ {None}
  <2>1. uploading[k] \in Tasks \union {None}
    BY DEF Typed, MayBe
  <2>2. \A t \in Tasks : Works(t, <<"upload", k>>) <=> uploading[k] = t
    BY DEF Control, MutexOK, Works, Staging, OfAChunk
  <2>3. \A t \in Tasks : t # None
    BY FolderAssumption
  <2> QED BY <2>1, <2>2, <2>3
<1>3. \A x \in Kinds \X Keys : work[x] = Cardinality({t \in Tasks : Works(t, x)})
  BY DEF WorkOK, Workers
<1> QED BY <1>1, <1>2, <1>3 DEF NothingLeftBehind

(* An idle task holds no lease and has no file open, and a staging file is  *)
(* marked as being worked on exactly by the tasks that are: whichever step  *)
(* of an operation fails, whoever comes, goes or restarts in between (the   *)
(* deferred releases of jobs.go and upload.go).                             *)
THEOREM NothingStaysLocked == Spec /\ []RoomForAFile => []NothingLeftBehind
<1>1. Init => KeptInv
  BY KeptInit
<1>2. KeptInv /\ RoomForAFile /\ [Next]_vars => KeptInv'
  BY KeptStep
<1>3. KeptInv => NothingLeftBehind
  BY NothingIsLeft DEF KeptInv
<1> QED BY <1>1, <1>2, <1>3, PTL DEF Spec

-----------------------------------------------------------------------------
(* Names and handles of files.  A file has one name at most, under which it *)
(* is an image or staged; what a session has open is the image it has a     *)
(* lease on, of the length its client was told; what a task reads is the    *)
(* image it holds; and what it writes is an image it has for itself, or a   *)
(* staging file nobody else writes and nobody can reach as an image.        *)
OnlyName ==
    /\ \A k, l \in Keys : dir[k] # None /\ dir[k] = dir[l] => k = l
    /\ \A x, y \in Kinds \X Keys : staged[x] # None /\ staged[x] = staged[y] => x = y
    /\ \A k \in Keys, x \in Kinds \X Keys : dir[k] # None => dir[k] # staged[x]

OpenOK(s) ==
    file[s] # None =>
        pc[s] = "attached" /\ file[s] = dir[ask[s].key] /\ Len(data[file[s]]) = told[s]

ReadOK(t) == reads[t] # None => reads[t] = dir[job[t].from]

StagingOf(t) == IF job[t].op = "clone" THEN <<"clone", job[t].to>> ELSE Staging(t)

Private(t) ==
    /\ \A k \in Keys : dir[k] # writes[t]
    /\ \A x \in Kinds \X Keys : staged[x] = writes[t] => x = StagingOf(t)
    /\ \A u \in Tasks : writes[u] = writes[t] => u = t

WriteOK(t) ==
    writes[t] # None =>
        IF job[t].op \in {"create", "resize"} THEN writes[t] = dir[job[t].from] ELSE Private(t)

FilesOK ==
    /\ OnlyName
    /\ \A s \in Sessions : OpenOK(s)
    /\ \A t \in Tasks : ReadOK(t) /\ WriteOK(t)

(* What one step of a task may do to them.                                  *)
Excl(t, k) == <<k, "Exclusive">> \in leases[t]

Owns(t, x) ==
    /\ x = StagingOf(t)
    /\ \/ job[t].op = "clone" /\ Excl(t, job[t].to)
       \/ job[t].op = "upload" /\ job[t].at \in {"open", "move"}

NewFile(i) == i \in Inodes /\ ~InUse(i)

Renames(t) ==
    \/ UNCHANGED <<dir, staged>>
    \/ \E k \in Keys, i \in Inodes \union {None} :
          Excl(t, k) /\ (i = None \/ NewFile(i)) /\ dir' = [dir EXCEPT ![k] = i] /\ UNCHANGED staged
    \/ \E a, b \in Keys : a # b /\ Excl(t, a) /\ Excl(t, b)
                          /\ dir' = [dir EXCEPT ![b] = dir[a], ![a] = None] /\ UNCHANGED staged
    \/ \E x \in Kinds \X Keys, i \in Inodes \union {None} :
          Owns(t, x) /\ (i = None \/ NewFile(i)) /\ staged' = [staged EXCEPT ![x] = i] /\ UNCHANGED dir
    \/ \E x \in Kinds \X Keys, k \in Keys :
          /\ Owns(t, x) /\ Excl(t, k) /\ staged[x] # None /\ job[t].at = "move"
          /\ dir' = [dir EXCEPT ![k] = staged[x]] /\ staged' = [staged EXCEPT ![x] = None]

NewWrites(t, w) ==
    \/ w = None
    \/ w = writes[t] /\ UNCHANGED <<dir, staged>>
    \/ job[t].op = "create" /\ NewFile(w) /\ dir'[job[t].from] = w
    \/ job[t].op = "resize" /\ w = dir[job[t].from] /\ UNCHANGED dir
    \/ /\ job[t].op \in {"clone", "upload"} /\ NewFile(w) /\ UNCHANGED dir
       /\ \A x \in Kinds \X Keys : x # StagingOf(t) => staged'[x] = staged[x]
    \/ job[t].op = "upload" /\ job[t].at = "open" /\ w = staged[Staging(t)] /\ UNCHANGED <<dir, staged>>

DataKept(t) == \A i \in Inodes : InUse(i) /\ InUse(i)' /\ i # writes[t] => data'[i] = data[i]

Effects(t) ==
    /\ Renames(t) /\ NewWrites(t, writes'[t]) /\ DataKept(t)
    /\ reads'[t] \in {None, reads[t], dir[job[t].from]}
    /\ \A u \in Tasks \ {t} : reads'[u] = reads[u] /\ writes'[u] = writes[u]
    /\ UNCHANGED <<file, told, pc, ask>>
    /\ job[t].at # "idle" /\ OthersWait(t) /\ (SameBut(t) \/ job'[t] = Idle)

LEMMA StoreDataKept ==
    ASSUME NEW t \in Tasks, NEW c, Store(c), \A i \in Inodes : InUse(i) /\ i # writes[t] => c[i] = data[i]
    PROVE  DataKept(t)
BY DEF Store, DataKept

LEMMA ExclFacts ==
    ASSUME Typed, Control, NEW t \in Tasks
    PROVE  /\ job[t].op \in {"create", "resize", "delete", "rename", "upload"}
                /\ job[t].at \in {"act", "extend", "move"} => Excl(t, job[t].from)
           /\ job[t].op = "rename" /\ job[t].at \in {"act", "move"} /\ job[t].to # job[t].from => Excl(t, job[t].to)
           /\ job[t].op = "clone" /\ job[t].at \in {"act", "clear", "begin", "copy", "block", "check", "move"}
                => Excl(t, job[t].to) /\ <<job[t].from, "Hold">> \in leases[t]
           /\ job[t].op = "download" /\ job[t].at \in {"act", "copy"} => <<job[t].from, "Hold">> \in leases[t]
           /\ job[t].op \in {"download", "clone"} => ~Excl(t, job[t].from)
<1>1. PICK j : j = job[t]
  OBVIOUS
<1>2. LeasesOK(t) /\ JobOK(j)
  BY <1>1 DEF Control, Typed
<1>3. /\ j.op \in Ops /\ j.at \in {"act", "extend", "move", "begin", "copy", "check"} => leases[t] = AllOf(j)
      /\ j.op = "clone" /\ j.at \in {"clear", "block"} => leases[t] = AllOf(j)
  BY <1>1, <1>2 DEF LeasesOK, BeforeLeases, OfAChunk
<1>4. j.op \in {"create", "resize", "delete", "rename", "upload"} => Mode(j.op) = "Exclusive"
  BY DEF Mode
<1>5. j.op \in {"clone", "download"} => Mode(j.op) = "Hold"
  BY DEF Mode
<1>6. First(j) \in AllOf(j) /\ First(j) = <<j.from, Mode(j.op)>>
  BY DEF AllOf, First
<1>7. TakesTwo(j) => <<j.to, "Exclusive">> \in AllOf(j)
  BY DEF AllOf, Second
<1>8. leases[t] \subseteq AllOf(j)
  BY <1>1, <1>2 DEF LeasesOK, AllOf
<1>9. j.op \in {"download", "clone"} => ~Excl(t, j.from)
  <2>1. j = Idle => leases[t] = {}
    BY <1>1, <1>2 DEF LeasesOK, BeforeLeases, Idle
  <2>2. j # Idle /\ j.op = "clone" => j.from # j.to
    BY <1>2 DEF JobOK
  <2> QED BY <1>5, <1>8, <2>1, <2>2 DEF AllOf, First, Second, TakesTwo, Excl
<1>10. /\ j.op \in {"create", "resize", "delete", "rename", "upload"}
                /\ j.at \in {"act", "extend", "move"} => Excl(t, j.from)
       /\ j.op = "download" /\ j.at \in {"act", "copy"} => <<j.from, "Hold">> \in leases[t]
  BY <1>3, <1>4, <1>5, <1>6 DEF Excl, Ops
<1>11. /\ j.op = "rename" /\ j.at \in {"act", "move"} /\ j.to # j.from => Excl(t, j.to)
       /\ j.op = "clone" /\ j.at \in {"act", "clear", "begin", "copy", "block", "check", "move"}
                => Excl(t, j.to) /\ <<j.from, "Hold">> \in leases[t]
  BY <1>3, <1>5, <1>6, <1>7 DEF Excl, TakesTwo, Ops
<1> QED BY <1>1, <1>9, <1>10, <1>11

LEMMA JobsOn ==
    ASSUME Typed, Control, Leases, NEW t \in Tasks, Operation(t)
    PROVE  job[t].at # "idle" /\ OthersWait(t) /\ (SameBut(t) \/ job'[t] = Idle)
<1>4. job[t].at # "idle"
  <2>1. CASE Locks(t) \/ Release(t)
    BY <2>1 DEF Locks, Release
  <2>2. CASE \/ UploadBegin(t) \/ CloneBegin(t) \/ DownloadBlock(t)
             \/ RenameCheck(t) \/ CloneCheck(t) \/ UploadFit(t) \/ FinishStat(t) \/ FinishCheck(t)
    BY <2>2 DEF UploadBegin, CloneBegin, DownloadBlock, RenameCheck, CloneCheck, UploadFit, FinishStat, FinishCheck, At
  <2>3. CASE \/ CloneBlock(t) \/ UploadClear(t) \/ UploadUndo(t) \/ UploadExtend(t)
             \/ \E v \in Blocks : UploadBlock(t, v)
    BY <2>3 DEF CloneBlock, UploadClear, UploadUndo, UploadExtend, UploadBlock, At
  <2>4. CASE RenameMove(t) \/ Remove(t) \/ CloneClear(t) \/ CloneCheckAgain(t) \/ CloneMove(t) \/ FinishMove(t)
    BY <2>4 DEF RenameMove, Remove, CloneClear, CloneCheckAgain, CloneMove, FinishMove, At
  <2>5. CASE \/ CreateExtend(t) \/ ResizeTruncate(t) \/ DownloadEnd(t) \/ CloneCopied(t) \/ CloneStop(t)
             \/ UploadUnlock(t)
    BY <2>5 DEF CreateExtend, ResizeTruncate, DownloadEnd, CloneCopied, CloneStop, UploadUnlock, At
  <2>6. CASE CreateOpen(t) \/ ResizeOpen(t) \/ DownloadOpen(t) \/ UploadOpen(t) \/ CloneOpen(t)
    BY <2>6 DEF CreateOpen, ResizeOpen, DownloadOpen, UploadOpen, CloneOpen, At
  <2> QED BY <2>1, <2>2, <2>3, <2>4, <2>5, <2>6 DEF Operation
<1>1. CASE Release(t)
  <2>1. job' = job \/ job' = [job EXCEPT ![t] = Idle]
    BY <1>1 DEF Release
  <2> QED BY <1>4, <2>1 DEF Typed, OthersWait, SameBut
<1>2. CASE CloneBegin(t)
  <2>1. PICK new : new = [job[t] EXCEPT !.at = "copy", !.may = TRUE]
    OBVIOUS
  <2>2. job[t] \in JobRecord /\ job' = [job EXCEPT ![t] = new] /\ job \in [Tasks -> JobRecord]
    BY <1>2, <2>1 DEF CloneBegin, Typed
  <2>3. /\ new.op = job[t].op /\ new.from = job[t].from /\ new.to = job[t].to
        /\ new.size = job[t].size /\ new.start = job[t].start /\ new.end = job[t].end
    BY <2>1, <2>2 DEF JobRecord
  <2> QED BY <1>4, <2>2, <2>3 DEF SameBut, OthersWait
<1>3. CASE UploadBegin(t) \/ UploadUnlock(t)
  <2>1. PICK at \in Ats : Go(t, at)
    BY <1>3 DEF UploadBegin, UploadUnlock, Ats
  <2> QED BY <1>4, <2>1, GoFacts
<1> QED BY <1>1, <1>2, <1>3, <1>4, OperationsOnward DEF Onward

LEMMA QuietEffects ==
    ASSUME Typed, Control, Leases, NEW t \in Tasks, Operation(t), UNCHANGED <<fileVars, handleVars, pc, ask>>
    PROVE  Effects(t)
<1>1. UNCHANGED <<dir, staged, data, file, told, reads, writes>>
  BY DEF fileVars, handleVars
<1> QED BY <1>1, JobsOn DEF Effects, Renames, NewWrites, DataKept

(* Steps that look, take or release a lease, or mark work.                  *)
LEMMA LookEffects ==
    ASSUME Typed, Control, Leases, NEW t \in Tasks, Operation(t),
           \/ Locks(t) \/ Release(t) \/ UploadBegin(t) \/ CloneBegin(t) \/ DownloadBlock(t)
           \/ RenameCheck(t) \/ CloneCheck(t) \/ UploadFit(t) \/ FinishStat(t) \/ FinishCheck(t)
    PROVE  Effects(t)
<1>1. CASE Locks(t)
  <2>1. UNCHANGED <<pc, ask>>
    BY <1>1, LocksDo DEF Reg!TakeLease, regVars
  <2> QED BY <1>1, <2>1, LocksDo, QuietEffects
<1>2. CASE Release(t)
  <2>1. UNCHANGED <<pc, ask, fileVars, handleVars>>
    BY <1>2 DEF Release, Reg!DropLease, regVars
  <2> QED BY <2>1, QuietEffects
<1>3. CASE UploadBegin(t) \/ CloneBegin(t)
  BY <1>3, QuietEffects DEF UploadBegin, CloneBegin, regVars
<1>4. CASE DownloadBlock(t) \/ RenameCheck(t) \/ CloneCheck(t) \/ UploadFit(t) \/ FinishStat(t) \/ FinishCheck(t)
  BY <1>4, QuietEffects DEF DownloadBlock, RenameCheck, CloneCheck, UploadFit, FinishStat, FinishCheck, NoHandles, regVars
<1> QED BY <1>1, <1>2, <1>3, <1>4

(* Steps on the contents of what a task has open.                           *)
LEMMA BlockEffects ==
    ASSUME Typed, Control, Leases, NEW t \in Tasks, Operation(t),
           \/ CloneBlock(t) \/ UploadClear(t) \/ UploadUndo(t) \/ UploadExtend(t)
           \/ \E v \in Blocks : UploadBlock(t, v)
    PROVE  Effects(t)
<1>1. UNCHANGED <<dir, staged, handleVars, regVars>>
  BY DEF CloneBlock, UploadClear, UploadUndo, UploadExtend, UploadBlock, NoHandles
<1>2. UNCHANGED <<dir, staged, file, told, reads, writes, pc, ask>>
  BY <1>1 DEF handleVars, regVars
<1>3. data' = data \/ \E b : data' = [data EXCEPT ![writes[t]] = b]
  <2>1. CASE CloneBlock(t)
    BY <2>1 DEF CloneBlock
  <2>2. CASE UploadClear(t) \/ UploadUndo(t) \/ UploadExtend(t)
    BY <2>2 DEF UploadClear, UploadUndo, UploadExtend
  <2>3. ASSUME NEW v \in Blocks, UploadBlock(t, v)
        PROVE  data' = data \/ \E b : data' = [data EXCEPT ![writes[t]] = b]
    BY <2>3 DEF UploadBlock
  <2> QED BY <2>1, <2>2, <2>3
<1>4. DataKept(t)
  BY <1>3 DEF DataKept, Typed
<1> QED BY <1>2, <1>4, JobsOn DEF Effects, Renames, NewWrites

(* Steps on names alone.                                                    *)
LEMMA NameEffects ==
    ASSUME Typed, Control, Leases, NEW t \in Tasks, Operation(t),
           RenameMove(t) \/ Remove(t) \/ CloneClear(t) \/ CloneCheckAgain(t) \/ CloneMove(t) \/ FinishMove(t)
    PROVE  Effects(t)
<1>1. NoHandles /\ Store(data)
  BY DEF RenameMove, Remove, CloneClear, CloneCheckAgain, CloneMove, FinishMove
<1>2. UNCHANGED <<file, told, reads, writes, pc, ask>>
  BY <1>1 DEF NoHandles, handleVars, regVars
<1>3. ~ReadsAt(job[t]) /\ ~WritesAt(job[t]) /\ ~(job[t].op = "upload" /\ job[t].at \in {"landed", "unlock"})
  BY DEF RenameMove, Remove, CloneClear, CloneCheckAgain, CloneMove, FinishMove, At, ReadsAt, WritesAt
<1>4. writes[t] = None
  BY <1>3 DEF Control, HandlesOK
<1>5. DataKept(t)
  BY <1>1, StoreDataKept
<1>6. job[t].at # "idle"
  BY DEF RenameMove, Remove, CloneClear, CloneCheckAgain, CloneMove, FinishMove, At
<1>7. /\ job[t].from \in Keys /\ (job[t].op \in {"rename", "clone"} => job[t].to \in Keys)
      /\ <<"upload", job[t].from>> \in Kinds \X Keys
      /\ (job[t].op = "clone" => <<"clone", job[t].to>> \in Kinds \X Keys)
  BY <1>6, InKeys DEF Kinds
<1>8. Renames(t)
  <2>1. CASE RenameMove(t)
    <3>1. PICK a, b \in Keys : a = job[t].from /\ b = job[t].to
      BY <1>7, <2>1 DEF RenameMove, At
    <3>2. UNCHANGED staged /\ (dir' = dir \/ (a # b /\ dir' = [dir EXCEPT ![b] = dir[a], ![a] = None]))
      BY <2>1, <3>1 DEF RenameMove
    <3>3. a # b => Excl(t, a) /\ Excl(t, b)
      BY <2>1, <3>1, ExclFacts DEF RenameMove, At
    <3> QED BY <3>2, <3>3 DEF Renames
  <2>2. CASE Remove(t)
    <3>1. Excl(t, job[t].from)
      BY <2>2, ExclFacts DEF Remove, At
    <3> QED BY <1>7, <2>2, <3>1 DEF Remove, Renames
  <2>3. CASE CloneClear(t) \/ CloneCheckAgain(t)
    <3>1. PICK x \in Kinds \X Keys : x = <<"clone", job[t].to>>
      BY <1>7, <2>3 DEF CloneClear, CloneCheckAgain, At
    <3>2. Owns(t, x)
      BY <2>3, <3>1, ExclFacts DEF CloneClear, CloneCheckAgain, At, Owns, StagingOf
    <3>3. UNCHANGED dir /\ (staged' = staged \/ staged' = [staged EXCEPT ![x] = None])
      BY <2>3, <3>1 DEF CloneClear, CloneCheckAgain
    <3> QED BY <3>2, <3>3 DEF Renames
  <2>4. CASE CloneMove(t)
    <3>1. PICK x \in Kinds \X Keys, k \in Keys : x = <<"clone", job[t].to>> /\ k = job[t].to
      BY <1>7, <2>4 DEF CloneMove, At
    <3>2. Owns(t, x) /\ Excl(t, k) /\ job[t].at = "move"
      BY <2>4, <3>1, ExclFacts DEF CloneMove, At, Owns, StagingOf
    <3>3. /\ dir' = IF staged[x] = None THEN dir ELSE [dir EXCEPT ![k] = staged[x]]
          /\ staged' = [staged EXCEPT ![x] = None]
      BY <2>4, <3>1 DEF CloneMove
    <3> QED BY <3>2, <3>3 DEF Renames
  <2>5. CASE FinishMove(t)
    <3>1. PICK x \in Kinds \X Keys, k \in Keys : x = Staging(t) /\ k = job[t].from
      BY <1>7, <2>5 DEF Staging
    <3>2. Owns(t, x) /\ Excl(t, k) /\ job[t].at = "move"
      BY <2>5, <3>1, ExclFacts DEF FinishMove, At, Owns, StagingOf
    <3>3. /\ dir' = IF staged[x] = None THEN dir ELSE [dir EXCEPT ![k] = staged[x]]
          /\ staged' = [staged EXCEPT ![x] = None]
      BY <2>5, <3>1 DEF FinishMove
    <3> QED BY <3>2, <3>3 DEF Renames
  <2> QED BY <2>1, <2>2, <2>3, <2>4, <2>5
<1> QED BY <1>2, <1>4, <1>5, <1>8, JobsOn DEF Effects, NewWrites

(* Steps that close files.                                                  *)
LEMMA CloseEffects ==
    ASSUME Typed, Control, Leases, NEW t \in Tasks, Operation(t),
           \/ CreateExtend(t) \/ ResizeTruncate(t) \/ DownloadEnd(t) \/ CloneCopied(t) \/ CloneStop(t)
           \/ UploadUnlock(t)
    PROVE  Effects(t)
<1>1. CloseFiles(t) /\ UNCHANGED regVars
  BY DEF CreateExtend, ResizeTruncate, DownloadEnd, CloneCopied, CloneStop, UploadUnlock
<1>2. UNCHANGED <<file, told, pc, ask>> /\ reads' = [reads EXCEPT ![t] = None] /\ writes' = [writes EXCEPT ![t] = None]
  BY <1>1 DEF CloseFiles, regVars
<1>3. /\ reads'[t] = None /\ writes'[t] = None
      /\ \A u \in Tasks \ {t} : reads'[u] = reads[u] /\ writes'[u] = writes[u]
  BY <1>2 DEF Typed
<1>4. job[t].at # "idle"
  BY DEF CreateExtend, ResizeTruncate, DownloadEnd, CloneCopied, CloneStop, UploadUnlock, At
<1>5. job[t].from \in Keys /\ (job[t].op = "clone" => <<"clone", job[t].to>> \in Kinds \X Keys)
  BY <1>4, InKeys DEF Kinds
<1>6. DataKept(t)
  <2>1. Store(data) \/ \E b : Store([data EXCEPT ![writes[t]] = b])
    <3>1. CASE CreateExtend(t)
      BY <3>1 DEF CreateExtend
    <3>2. CASE ResizeTruncate(t)
      BY <3>2 DEF ResizeTruncate
    <3>3. CASE DownloadEnd(t) \/ CloneCopied(t) \/ CloneStop(t) \/ UploadUnlock(t)
      BY <3>3 DEF DownloadEnd, CloneCopied, CloneStop, UploadUnlock
    <3> QED BY <3>1, <3>2, <3>3
  <2>2. CASE Store(data)
    BY <2>2, StoreDataKept
  <2>3. ASSUME NEW b, Store([data EXCEPT ![writes[t]] = b]) PROVE DataKept(t)
    <3>1. \A i \in Inodes : i # writes[t] => [data EXCEPT ![writes[t]] = b][i] = data[i]
      BY DEF Typed
    <3> QED BY <2>3, <3>1, StoreDataKept
  <2> QED BY <2>1, <2>2, <2>3
<1>7. Renames(t)
  <2>1. CASE CreateExtend(t)
    <3>1. Excl(t, job[t].from)
      BY <2>1, ExclFacts DEF CreateExtend, At
    <3>2. UNCHANGED staged /\ (dir' = dir \/ dir' = [dir EXCEPT ![job[t].from] = None])
      BY <2>1 DEF CreateExtend
    <3> QED BY <1>5, <3>1, <3>2 DEF Renames
  <2>2. CASE ResizeTruncate(t) \/ DownloadEnd(t) \/ CloneCopied(t) \/ UploadUnlock(t)
    BY <2>2 DEF ResizeTruncate, DownloadEnd, CloneCopied, UploadUnlock, Renames
  <2>3. CASE CloneStop(t)
    <3>1. PICK x \in Kinds \X Keys : x = <<"clone", job[t].to>>
      BY <1>5, <2>3 DEF CloneStop, At
    <3>2. Owns(t, x)
      BY <2>3, <3>1, ExclFacts DEF CloneStop, At, Owns, StagingOf
    <3>3. UNCHANGED dir /\ staged' = [staged EXCEPT ![x] = None]
      BY <2>3, <3>1 DEF CloneStop
    <3> QED BY <3>2, <3>3 DEF Renames
  <2> QED BY <2>1, <2>2, <2>3
<1> QED BY <1>2, <1>3, <1>6, <1>7, JobsOn DEF Effects, NewWrites

(* Steps that open files.                                                   *)
LEMMA OpenEffects ==
    ASSUME Typed, Control, Leases, RoomForAFile, NEW t \in Tasks, Operation(t),
           CreateOpen(t) \/ ResizeOpen(t) \/ DownloadOpen(t) \/ UploadOpen(t) \/ CloneOpen(t)
    PROVE  Effects(t)
<1>1. UNCHANGED regVars /\ UNCHANGED <<file, told>>
  BY DEF CreateOpen, ResizeOpen, DownloadOpen, UploadOpen, CloneOpen, handleVars
<1>2. UNCHANGED <<pc, ask, file, told>>
  BY <1>1 DEF regVars
<1>3. reads \in [Tasks -> MayBe(Inodes)] /\ writes \in [Tasks -> MayBe(Inodes)] /\ data \in [Inodes -> Seq(Blocks)]
  BY DEF Typed
<1>4. ~ReadsAt(job[t]) /\ ~WritesAt(job[t]) /\ ~(job[t].op = "upload" /\ job[t].at \in {"landed", "unlock"})
  BY DEF CreateOpen, ResizeOpen, DownloadOpen, UploadOpen, CloneOpen, At, ReadsAt, WritesAt
<1>5. writes[t] = None /\ reads[t] = None
  BY <1>4 DEF Control, HandlesOK
<1>6. PICK new \in Inodes : new = NewInode
  BY NewInodeIsFree
<1>7. NewFile(new) /\ new # None
  BY <1>6, NewInodeIsFree, FolderAssumption DEF NewFile
<1>8. job[t].at # "idle"
  BY DEF CreateOpen, ResizeOpen, DownloadOpen, UploadOpen, CloneOpen, At
<1>9. PICK k \in Keys : k = job[t].from
  BY <1>8, InKeys
<1>10. PICK i : i = dir[k]
  OBVIOUS
<1>11. ASSUME NEW r \in {None, i}, NEW w, reads' = [reads EXCEPT ![t] = r], writes' = [writes EXCEPT ![t] = w],
              NewWrites(t, w), DataKept(t), Renames(t)
       PROVE  Effects(t)
  <2>1. reads'[t] = r /\ writes'[t] = w /\ \A u \in Tasks \ {t} : reads'[u] = reads[u] /\ writes'[u] = writes[u]
    BY <1>3, <1>11
  <2> QED BY <1>2, <1>9, <1>10, <1>11, <2>1, JobsOn DEF Effects
<1>12. /\ UNCHANGED reads => reads' = [reads EXCEPT ![t] = None]
       /\ UNCHANGED writes => writes' = [writes EXCEPT ![t] = None]
       /\ NewWrites(t, None)
  BY <1>3, <1>5 DEF NewWrites
<1>13. ASSUME NEW b, Store([data EXCEPT ![new] = b]) PROVE DataKept(t)
  <2>1. \A n \in Inodes : InUse(n) => [data EXCEPT ![new] = b][n] = data[n]
    BY <1>3, <1>7 DEF NewFile
  <2> QED BY <1>13, <2>1, StoreDataKept
<1>14. CASE UNCHANGED <<fileVars, handleVars>>
  BY <1>2, <1>14, QuietEffects
<1>15. CASE CreateOpen(t) /\ i = None
  <2>1. /\ dir' = [dir EXCEPT ![k] = new] /\ writes' = [writes EXCEPT ![t] = new] /\ At(t, "create", "act")
        /\ UNCHANGED <<staged, reads>> /\ Store([data EXCEPT ![new] = <<>>])
    BY <1>6, <1>9, <1>10, <1>15 DEF CreateOpen
  <2>2. Excl(t, k)
    BY <1>9, <2>1, ExclFacts DEF At
  <2>3. Renames(t)
    BY <1>7, <2>1, <2>2 DEF Renames
  <2>4. NewWrites(t, new)
    BY <1>7, <1>9, <2>1 DEF NewWrites, At, Typed
  <2>5. DataKept(t)
    BY <1>13, <2>1
  <2> QED BY <1>11, <1>12, <2>1, <2>3, <2>4, <2>5
<1>16. CASE CreateOpen(t) /\ i # None
  BY <1>9, <1>10, <1>14, <1>16 DEF CreateOpen
<1>17. CASE ResizeOpen(t)
  <2>1. UNCHANGED fileVars /\ At(t, "resize", "act")
    BY <1>17 DEF ResizeOpen
  <2>2. CASE i = None
    BY <1>9, <1>10, <1>14, <1>17, <2>2 DEF ResizeOpen
  <2>3. CASE i # None
    <3>1. writes' = [writes EXCEPT ![t] = i] /\ UNCHANGED <<reads, dir, staged, data>>
      BY <1>9, <1>10, <1>17, <2>3 DEF ResizeOpen, fileVars
    <3>2. NewWrites(t, i) /\ Renames(t) /\ DataKept(t)
      BY <1>9, <1>10, <2>1, <3>1 DEF NewWrites, Renames, DataKept, At
    <3> QED BY <1>11, <1>12, <3>1, <3>2
  <2> QED BY <2>2, <2>3
<1>18. CASE DownloadOpen(t)
  <2>1. UNCHANGED fileVars /\ At(t, "download", "act")
    BY <1>18 DEF DownloadOpen
  <2>2. CASE i = None
    BY <1>9, <1>10, <1>14, <1>18, <2>2 DEF DownloadOpen
  <2>3. CASE i # None
    <3>1. reads' = [reads EXCEPT ![t] = i] /\ UNCHANGED <<writes, dir, staged, data>>
      BY <1>9, <1>10, <1>18, <2>3 DEF DownloadOpen, fileVars
    <3>2. Renames(t) /\ DataKept(t)
      BY <3>1 DEF Renames, DataKept
    <3> QED BY <1>11, <1>12, <3>1, <3>2
  <2> QED BY <2>2, <2>3
<1>19. CASE UploadOpen(t)
  <2>1. PICK x \in Kinds \X Keys : x = Staging(t)
    BY <1>9 DEF Staging, Kinds
  <2>2. PICK w : w = IF staged[x] = None THEN new ELSE staged[x]
    OBVIOUS
  <2>3. /\ staged' = [staged EXCEPT ![x] = w] /\ writes' = [writes EXCEPT ![t] = w] /\ At(t, "upload", "open")
        /\ UNCHANGED <<dir, reads>> /\ Store(data)
    BY <1>6, <1>19, <2>1, <2>2 DEF UploadOpen
  <2>4. x = StagingOf(t) /\ Owns(t, x)
    BY <2>1, <2>3 DEF StagingOf, Owns, At
  <2>5. DataKept(t)
    BY <2>3, StoreDataKept
  <2>6. staged \in [Kinds \X Keys -> MayBe(Inodes)]
    BY DEF Typed
  <2>7. \A y \in Kinds \X Keys : y # x => staged'[y] = staged[y]
    BY <2>3, <2>6
  <2>8. CASE staged[x] = None
    <3>1. NewWrites(t, w)
      BY <1>7, <2>2, <2>3, <2>4, <2>7, <2>8 DEF NewWrites, At
    <3>2. Renames(t)
      BY <1>7, <2>2, <2>3, <2>4, <2>8 DEF Renames
    <3> QED BY <1>11, <1>12, <2>3, <2>5, <3>1, <3>2
  <2>9. CASE staged[x] # None
    <3>1. staged' = staged
      BY <2>2, <2>3, <2>6, <2>9
    <3>2. NewWrites(t, w) /\ Renames(t)
      BY <2>1, <2>2, <2>3, <2>9, <3>1 DEF NewWrites, At, Renames
    <3> QED BY <1>11, <1>12, <2>3, <2>5, <3>2
  <2> QED BY <2>8, <2>9
<1>20. CASE CloneOpen(t)
  <2>1. PICK x \in Kinds \X Keys : x = <<"clone", job[t].to>>
    BY <1>8, <1>20, InKeys DEF CloneOpen, At, Kinds
  <2>2. At(t, "clone", "copy") /\ UNCHANGED dir
    BY <1>20 DEF CloneOpen
  <2>3. x = StagingOf(t) /\ Owns(t, x)
    BY <2>1, <2>2, ExclFacts DEF StagingOf, Owns, At
  <2>4. \/ /\ staged' = [staged EXCEPT ![x] = new] /\ UNCHANGED <<reads, writes>>
           /\ Store([data EXCEPT ![new] = data[i]])
        \/ /\ staged' = [staged EXCEPT ![x] = new]
           /\ reads' = [reads EXCEPT ![t] = i] /\ writes' = [writes EXCEPT ![t] = new]
           /\ Store([data EXCEPT ![new] = Zeros(Len(data[i]))])
        \/ /\ UNCHANGED <<reads, writes>> /\ staged' = [staged EXCEPT ![x] = None] /\ Store(data)
    BY <1>6, <1>9, <1>10, <1>20, <2>1 DEF CloneOpen
  <2>5. Renames(t)
    BY <1>7, <2>2, <2>3, <2>4 DEF Renames
  <2>6. DataKept(t)
    BY <1>13, <2>4, StoreDataKept
  <2>7. \A y \in Kinds \X Keys : y # x => staged'[y] = staged[y]
    BY <2>4 DEF Typed
  <2>8. NewWrites(t, new)
    BY <1>7, <2>2, <2>3, <2>7 DEF NewWrites, At
  <2> QED BY <1>11, <1>12, <2>4, <2>5, <2>6, <2>8
<1> QED BY <1>15, <1>16, <1>17, <1>18, <1>19, <1>20

LEMMA OperationEffects ==
    ASSUME Typed, Control, Leases, RoomForAFile, NEW t \in Tasks, Operation(t)
    PROVE  Effects(t)
<1>1. CASE \/ Locks(t) \/ Release(t) \/ UploadBegin(t) \/ CloneBegin(t) \/ DownloadBlock(t)
           \/ RenameCheck(t) \/ CloneCheck(t) \/ UploadFit(t) \/ FinishStat(t) \/ FinishCheck(t)
  BY <1>1, LookEffects
<1>2. CASE \/ CloneBlock(t) \/ UploadClear(t) \/ UploadUndo(t) \/ UploadExtend(t)
           \/ \E v \in Blocks : UploadBlock(t, v)
  BY <1>2, BlockEffects
<1>3. CASE RenameMove(t) \/ Remove(t) \/ CloneClear(t) \/ CloneCheckAgain(t) \/ CloneMove(t) \/ FinishMove(t)
  BY <1>3, NameEffects
<1>4. CASE \/ CreateExtend(t) \/ ResizeTruncate(t) \/ DownloadEnd(t) \/ CloneCopied(t) \/ CloneStop(t)
           \/ UploadUnlock(t)
  BY <1>4, CloseEffects
<1>5. CASE CreateOpen(t) \/ ResizeOpen(t) \/ DownloadOpen(t) \/ UploadOpen(t) \/ CloneOpen(t)
  BY <1>5, OpenEffects
<1> QED BY <1>1, <1>2, <1>3, <1>4, <1>5 DEF Operation

-----------------------------------------------------------------------------
(* No upload is put in place while another request sends a chunk of it:     *)
(* FinishUpload does not look at the mutex of the upload.                   *)
KeepsOut == \A t \in Tasks : At(t, "upload", "move") => uploading[job[t].from] = None

LEMMA OnlyNameStep ==
    ASSUME Typed, OnlyName, NEW t \in Tasks, Renames(t) PROVE OnlyName'
<1>1. dir \in [Keys -> MayBe(Inodes)] /\ staged \in [Kinds \X Keys -> MayBe(Inodes)]
  BY DEF Typed
<1>2. CASE UNCHANGED <<dir, staged>>
  BY <1>2 DEF OnlyName
<1>3. ASSUME NEW k \in Keys, NEW i \in Inodes \union {None}, i = None \/ NewFile(i),
             dir' = [dir EXCEPT ![k] = i], UNCHANGED staged
      PROVE  OnlyName'
  <2>1. i # None => (\A l \in Keys : dir[l] # i) /\ (\A x \in Kinds \X Keys : staged[x] # i)
    BY <1>3 DEF NewFile, InUse
  <2>2. \A l \in Keys : dir'[l] = IF l = k THEN i ELSE dir[l]
    BY <1>1, <1>3
  <2> QED BY <1>3, <2>1, <2>2 DEF OnlyName
<1>4. ASSUME NEW a \in Keys, NEW b \in Keys, a # b, dir' = [dir EXCEPT ![b] = dir[a], ![a] = None], UNCHANGED staged
      PROVE  OnlyName'
  <2>1. \A l \in Keys : dir'[l] = IF l = a THEN None ELSE IF l = b THEN dir[a] ELSE dir[l]
    BY <1>1, <1>4
  <2>2. \A k, l \in Keys : dir'[k] # None /\ dir'[k] = dir'[l] => k = l
    BY <1>4, <2>1 DEF OnlyName
  <2>3. \A k \in Keys : dir'[k] # None => \E l \in Keys : dir'[k] = dir[l]
    BY <1>4, <2>1
  <2>4. staged' = staged
    BY <1>4
  <2>5. \A k \in Keys, x \in Kinds \X Keys : dir'[k] # None => dir'[k] # staged'[x]
    BY <2>3, <2>4 DEF OnlyName
  <2>6. \A x, y \in Kinds \X Keys : staged'[x] # None /\ staged'[x] = staged'[y] => x = y
    BY <2>4 DEF OnlyName
  <2> QED BY <2>2, <2>5, <2>6 DEF OnlyName
<1>5. ASSUME NEW x \in Kinds \X Keys, NEW i \in Inodes \union {None}, i = None \/ NewFile(i),
             staged' = [staged EXCEPT ![x] = i], UNCHANGED dir
      PROVE  OnlyName'
  <2>1. i # None => (\A l \in Keys : dir[l] # i) /\ (\A y \in Kinds \X Keys : staged[y] # i)
    BY <1>5 DEF NewFile, InUse
  <2>2. \A y \in Kinds \X Keys : staged'[y] = IF y = x THEN i ELSE staged[y]
    BY <1>1, <1>5
  <2> QED BY <1>5, <2>1, <2>2 DEF OnlyName
<1>6. ASSUME NEW x \in Kinds \X Keys, NEW k \in Keys, staged[x] # None,
             dir' = [dir EXCEPT ![k] = staged[x]], staged' = [staged EXCEPT ![x] = None]
      PROVE  OnlyName'
  <2>1. \A l \in Keys : dir'[l] = IF l = k THEN staged[x] ELSE dir[l]
    BY <1>1, <1>6
  <2>2. \A y \in Kinds \X Keys : staged'[y] = IF y = x THEN None ELSE staged[y]
    BY <1>1, <1>6
  <2>3. \A k1, l1 \in Keys : dir'[k1] # None /\ dir'[k1] = dir'[l1] => k1 = l1
    BY <1>6, <2>1 DEF OnlyName
  <2>4. \A y, z \in Kinds \X Keys : staged'[y] # None /\ staged'[y] = staged'[z] => y = z
    BY <2>2 DEF OnlyName
  <2>5. \A k1 \in Keys, y \in Kinds \X Keys : dir'[k1] # None => dir'[k1] # staged'[y]
    BY <1>6, <2>1, <2>2 DEF OnlyName
  <2> QED BY <2>3, <2>4, <2>5 DEF OnlyName
<1> QED BY <1>2, <1>3, <1>4, <1>5, <1>6 DEF Renames

(* The name of an image changes only under an exclusive lease on it, and a  *)
(* staging file only by a task that works on it.                            *)
LEMMA NamesStay ==
    ASSUME Typed, NEW t \in Tasks, Renames(t)
    PROVE  /\ \A k \in Keys : ~Excl(t, k) => dir'[k] = dir[k]
           /\ \A x \in Kinds \X Keys : ~Owns(t, x) => staged'[x] = staged[x]
           /\ \A x \in Kinds \X Keys : staged'[x] \in {staged[x], None} \/ NewFile(staged'[x])
           /\ \A k \in Keys : \/ dir'[k] = None \/ NewFile(dir'[k]) \/ \E l \in Keys : dir'[k] = dir[l]
                              \/ \E x \in Kinds \X Keys : Owns(t, x) /\ job[t].at = "move" /\ dir'[k] = staged[x]
<1>1. dir \in [Keys -> MayBe(Inodes)] /\ staged \in [Kinds \X Keys -> MayBe(Inodes)]
  BY DEF Typed
<1>2. CASE UNCHANGED <<dir, staged>>
  BY <1>2
<1>3. CASE \E k \in Keys, i \in Inodes \union {None} :
             Excl(t, k) /\ (i = None \/ NewFile(i)) /\ dir' = [dir EXCEPT ![k] = i] /\ UNCHANGED staged
  BY <1>1, <1>3
<1>4. CASE \E a, b \in Keys : a # b /\ Excl(t, a) /\ Excl(t, b)
                          /\ dir' = [dir EXCEPT ![b] = dir[a], ![a] = None] /\ UNCHANGED staged
  <2>1. PICK a \in Keys, b \in Keys : a # b /\ Excl(t, a) /\ Excl(t, b)
                          /\ dir' = [dir EXCEPT ![b] = dir[a], ![a] = None] /\ UNCHANGED staged
    BY <1>4
  <2>2. \A l \in Keys : dir'[l] = IF l = a THEN None ELSE IF l = b THEN dir[a] ELSE dir[l]
    BY <1>1, <2>1
  <2> QED BY <2>1, <2>2
<1>5. CASE \E x \in Kinds \X Keys, i \in Inodes \union {None} :
             Owns(t, x) /\ (i = None \/ NewFile(i)) /\ staged' = [staged EXCEPT ![x] = i] /\ UNCHANGED dir
  BY <1>1, <1>5
<1>6. CASE \E x \in Kinds \X Keys, k \in Keys :
             /\ Owns(t, x) /\ Excl(t, k) /\ staged[x] # None /\ job[t].at = "move"
             /\ dir' = [dir EXCEPT ![k] = staged[x]] /\ staged' = [staged EXCEPT ![x] = None]
  <2>1. PICK x \in Kinds \X Keys, k \in Keys :
             /\ Owns(t, x) /\ Excl(t, k) /\ staged[x] # None /\ job[t].at = "move"
             /\ dir' = [dir EXCEPT ![k] = staged[x]] /\ staged' = [staged EXCEPT ![x] = None]
    BY <1>6
  <2>2. \A l \in Keys : dir'[l] = IF l = k THEN staged[x] ELSE dir[l]
    BY <1>1, <2>1
  <2>3. \A y \in Kinds \X Keys : staged'[y] = IF y = x THEN None ELSE staged[y]
    BY <1>1, <2>1
  <2> QED BY <2>1, <2>2, <2>3
<1> QED BY <1>2, <1>3, <1>4, <1>5, <1>6 DEF Renames

(* A task writes to an image under an exclusive lease on it only.           *)
LEMMA WritesUnderLease ==
    ASSUME Typed, Control, OnlyName, NEW t \in Tasks, WriteOK(t), NEW k \in Keys, dir[k] # None, ~Excl(t, k)
    PROVE  dir[k] # writes[t]
<1>1. CASE writes[t] = None
  BY <1>1
<1>2. CASE writes[t] # None /\ job[t].op \in {"create", "resize"}
  <2>1. job[t].at = "extend"
    BY <1>2 DEF Control, HandlesOK, WritesAt
  <2>2. Excl(t, job[t].from) /\ job[t].from \in Keys
    BY <1>2, <2>1, ExclFacts, InKeys
  <2> QED BY <1>2, <2>2 DEF WriteOK, OnlyName
<1>3. CASE writes[t] # None /\ job[t].op \notin {"create", "resize"}
  BY <1>3 DEF WriteOK, Private
<1> QED BY <1>1, <1>2, <1>3

LEMMA SessionsUndisturbed ==
    ASSUME Typed, Control, Leases, FilesOK, NEW t \in Tasks, Effects(t), NEW s \in Sessions
    PROVE  OpenOK(s)'
<1>1. UNCHANGED <<file, told, pc, ask>> /\ Renames(t) /\ DataKept(t) /\ OnlyName /\ OpenOK(s) /\ WriteOK(t)
  BY DEF Effects, FilesOK
<1>2. CASE file[s] = None
  BY <1>1, <1>2 DEF OpenOK
<1>3. CASE file[s] # None
  <2>1. PICK k \in Keys : k = ask[s].key
    BY DEF Leases
  <2>2. PICK i \in Inodes : i = file[s]
    BY <1>3 DEF Typed, MayBe
  <2>3. pc[s] = "attached" /\ i = dir[k] /\ Len(data[i]) = told[s]
    BY <1>1, <1>3, <2>1, <2>2 DEF OpenOK
  <2>4. ~Excl(t, k)
    BY <2>1, <2>3 DEF Leases, Excl
  <2>5. dir'[k] = i /\ i # writes[t]
    BY <1>1, <1>3, <2>2, <2>3, <2>4, NamesStay, WritesUnderLease
  <2>6. InUse(i) /\ InUse(i)'
    BY <2>3, <2>5 DEF InUse
  <2>7. data'[i] = data[i]
    BY <1>1, <2>5, <2>6 DEF DataKept
  <2> QED BY <1>1, <2>1, <2>2, <2>3, <2>5, <2>7 DEF OpenOK
<1> QED BY <1>2, <1>3

(* A task that reads an image holds it, so that no other has it for itself. *)
LEMMA ReadersHold ==
    ASSUME Typed, Control, Leases, NEW u \in Tasks, ReadsAt(job[u]), NEW t \in Tasks
    PROVE  ~Excl(t, job[u].from) /\ job[u].from \in Keys
<1>1. job[u].at # "idle"
  BY DEF ReadsAt
<1>2. job[u].from \in Keys /\ job[u].op \in {"download", "clone"}
  BY <1>1, InKeys DEF ReadsAt
<1>3. <<job[u].from, "Hold">> \in leases[u]
  BY ExclFacts DEF ReadsAt
<1>4. ~Excl(u, job[u].from)
  BY <1>2, ExclFacts
<1>5. Excl(t, job[u].from) => t = u
  BY <1>2, <1>3 DEF Leases, Excl, Reg!TaskModes
<1> QED BY <1>2, <1>4, <1>5

LEMMA ReadersUndisturbed ==
    ASSUME Typed, Control, Leases, FilesOK, NEW t \in Tasks, Effects(t), NEW u \in Tasks \ {t}
    PROVE  ReadOK(u)'
<1>1. reads'[u] = reads[u] /\ job'[u] = job[u] /\ Renames(t) /\ ReadOK(u)
  BY DEF Effects, OthersWait, FilesOK
<1>2. CASE reads[u] = None
  BY <1>1, <1>2 DEF ReadOK
<1>3. CASE reads[u] # None
  <2>1. ReadsAt(job[u])
    BY <1>3 DEF Control, HandlesOK
  <2>2. ~Excl(t, job[u].from) /\ job[u].from \in Keys
    BY <2>1, ReadersHold
  <2>3. dir'[job[u].from] = dir[job[u].from]
    BY <1>1, <2>2, NamesStay
  <2> QED BY <1>1, <2>3 DEF ReadOK
<1> QED BY <1>2, <1>3

LEMMA ReaderItself ==
    ASSUME Typed, Control, Leases, FilesOK, NEW t \in Tasks, Effects(t), Control'
    PROVE  ReadOK(t)'
<1>1. Renames(t) /\ ReadOK(t) /\ reads'[t] \in {None, reads[t], dir[job[t].from]} /\ (SameBut(t) \/ job'[t] = Idle)
  BY DEF Effects, FilesOK
<1>2. CASE reads'[t] = None
  BY <1>2 DEF ReadOK
<1>3. CASE reads'[t] # None
  <2>1. ReadsAt(job'[t])
    BY <1>3 DEF Control, HandlesOK
  <2>2. SameBut(t)
    BY <1>1, <2>1 DEF ReadsAt, Idle
  <2>3. job[t].op \in {"download", "clone"} /\ job'[t].from = job[t].from
    BY <2>1, <2>2 DEF ReadsAt, SameBut
  <2>4. ~Excl(t, job[t].from)
    BY <2>3, ExclFacts
  <2>5. reads'[t] = dir[job[t].from]
    BY <1>1, <1>3 DEF ReadOK
  <2>6. job[t].from \in Keys
    BY InKeys DEF Effects
  <2>7. dir'[job[t].from] = dir[job[t].from]
    BY <1>1, <2>4, <2>6, NamesStay
  <2> QED BY <2>3, <2>5, <2>7 DEF ReadOK
<1> QED BY <1>2, <1>3

(* A staging file that a task writes is of nobody else.                     *)
LEMMA StagingIsOfOne ==
    ASSUME Typed, Control, Leases, KeepsOut, NEW t \in Tasks, NEW u \in Tasks, writes[u] # None,
           job[u].op \notin {"create", "resize"}, Owns(t, StagingOf(u))
    PROVE  t = u
<1>1. \/ job[u].op = "clone" /\ job[u].at = "block"
      \/ job[u].op = "upload" /\ job[u].at \in {"clear", "block", "landed", "unlock"}
  BY DEF Control, HandlesOK, WritesAt
<1>2. job[u].at # "idle"
  BY <1>1
<1>3. job[u].from \in Keys /\ (job[u].op = "clone" => job[u].to \in Keys)
  BY <1>2, InKeys
<1>4. \/ job[t].op = "clone" /\ Excl(t, job[t].to) /\ StagingOf(t) = <<"clone", job[t].to>>
      \/ job[t].op = "upload" /\ job[t].at \in {"open", "move"} /\ StagingOf(t) = <<"upload", job[t].from>>
  BY DEF Owns, StagingOf, Staging
<1>5. StagingOf(u) = StagingOf(t)
  BY DEF Owns
<1>6. CASE job[u].op = "clone"
  <2>1. job[t].op = "clone" /\ Excl(t, job[t].to) /\ job[t].to = job[u].to
    BY <1>4, <1>5, <1>6 DEF StagingOf
  <2>2. Excl(u, job[u].to)
    BY <1>1, <1>6, ExclFacts
  <2> QED BY <1>3, <1>6, <2>1, <2>2 DEF Leases, Excl, Reg!TaskModes
<1>7. CASE job[u].op = "upload"
  <2>1. job[t].op = "upload" /\ job[t].at \in {"open", "move"} /\ job[t].from = job[u].from
    BY <1>4, <1>5, <1>7 DEF StagingOf, Staging
  <2>2. uploading[job[u].from] = u
    BY <1>1, <1>3, <1>7 DEF Control, MutexOK, OfAChunk
  <2>3. CASE job[t].at = "open"
    BY <1>3, <2>1, <2>2, <2>3 DEF Control, MutexOK, OfAChunk
  <2>4. CASE job[t].at = "move"
    BY <2>1, <2>2, <2>4, FolderAssumption DEF KeepsOut, At
  <2> QED BY <2>1, <2>3, <2>4
<1> QED BY <1>1, <1>6, <1>7

LEMMA WritersUndisturbed ==
    ASSUME Typed, Control, Leases, FilesOK, KeepsOut, NEW t \in Tasks, Effects(t), NEW u \in Tasks \ {t}
    PROVE  WriteOK(u)'
<1>1. /\ job'[u] = job[u] /\ Renames(t) /\ WriteOK(u) /\ NewWrites(t, writes'[t])
      /\ \A v \in Tasks \ {t} : writes'[v] = writes[v]
      /\ job[t].from \in Keys
  BY InKeys DEF Effects, OthersWait, FilesOK
<1>2. CASE writes[u] = None
  BY <1>1, <1>2 DEF WriteOK
<1>3. CASE writes[u] # None /\ job[u].op \in {"create", "resize"}
  <2>1. job[u].at = "extend"
    BY <1>3 DEF Control, HandlesOK, WritesAt
  <2>2. Excl(u, job[u].from) /\ job[u].from \in Keys
    BY <1>3, <2>1, ExclFacts, InKeys
  <2>3. ~Excl(t, job[u].from)
    BY <2>2 DEF Leases, Excl, Reg!TaskModes
  <2>4. dir'[job[u].from] = dir[job[u].from]
    BY <1>1, <2>2, <2>3, NamesStay
  <2> QED BY <1>1, <1>3, <2>4 DEF WriteOK
<1>4. CASE writes[u] # None /\ job[u].op \notin {"create", "resize"}
  <2>1. PICK w \in Inodes : w = writes[u]
    BY <1>4 DEF Typed, MayBe
  <2>2. Private(u)
    BY <1>1, <1>4 DEF WriteOK
  <2>3. ~NewFile(w) /\ w # None
    BY <1>4, <2>1 DEF NewFile, InUse
  <2>4. ~Owns(t, StagingOf(u))
    BY <1>4, StagingIsOfOne
  <2>5. ASSUME NEW k \in Keys, dir'[k] = w PROVE FALSE
    <3>1. \/ \E l \in Keys : w = dir[l]
          \/ \E x \in Kinds \X Keys : Owns(t, x) /\ w = staged[x]
      BY <1>1, <2>3, <2>5, NamesStay
    <3> QED BY <2>1, <2>2, <2>4, <3>1 DEF Private
  <2>6. ASSUME NEW x \in Kinds \X Keys, staged'[x] = w PROVE x = StagingOf(u)
    <3>1. staged[x] = w
      BY <1>1, <2>3, <2>6, NamesStay
    <3> QED BY <2>1, <2>2, <3>1 DEF Private
  <2>7. StagingOf(u)' = StagingOf(u)
    BY <1>1 DEF StagingOf, Staging
  <2>8. writes'[t] # w
    <3>1. SUFFICES ASSUME writes'[t] = w PROVE FALSE
      OBVIOUS
    <3>2. w # writes[t]
      BY <2>1, <2>2 DEF Private
    <3>3. w # dir[job[t].from]
      BY <1>1, <2>1, <2>2 DEF Private
    <3>4. job[t].op = "upload" /\ job[t].at = "open" /\ w = staged[Staging(t)]
      BY <1>1, <2>3, <3>1, <3>2, <3>3 DEF NewWrites
    <3>5. Staging(t) \in Kinds \X Keys /\ Staging(t) = StagingOf(t)
      BY <1>1, <3>4 DEF Staging, Kinds, StagingOf
    <3>6. Staging(t) = StagingOf(u)
      BY <2>1, <2>2, <3>4, <3>5 DEF Private
    <3>7. Owns(t, StagingOf(u))
      BY <3>4, <3>5, <3>6 DEF Owns
    <3> QED BY <2>4, <3>7
  <2>9. \A v \in Tasks : writes'[v] = w => v = u
    BY <1>1, <2>1, <2>2, <2>8 DEF Private
  <2>10. writes'[u] = w
    BY <1>1, <2>1
  <2>11. Private(u)'
    BY <2>5, <2>6, <2>7, <2>9, <2>10 DEF Private
  <2> QED BY <1>1, <1>4, <2>11 DEF WriteOK
<1> QED BY <1>2, <1>3, <1>4

LEMMA WriterItself ==
    ASSUME Typed, Control, Leases, FilesOK, KeepsOut, NEW t \in Tasks, Effects(t), Control'
    PROVE  WriteOK(t)'
<1>1. PICK w : w = writes'[t]
  OBVIOUS
<1>2. /\ Renames(t) /\ WriteOK(t) /\ NewWrites(t, w) /\ (SameBut(t) \/ job'[t] = Idle) /\ OnlyName
      /\ \A v \in Tasks \ {t} : writes'[v] = writes[v] /\ WriteOK(v)
      /\ job[t].from \in Keys
  BY <1>1, InKeys DEF Effects, OthersWait, FilesOK
<1>3. CASE w = None
  BY <1>1, <1>3 DEF WriteOK
<1>4. CASE w # None
  <2>1. WritesAt(job'[t]) \/ (job'[t].op = "upload" /\ job'[t].at \in {"landed", "unlock"})
    BY <1>1, <1>4 DEF Control, HandlesOK
  <2>2. SameBut(t)
    BY <1>2, <2>1 DEF WritesAt, Idle
  <2>3. job'[t].op = job[t].op /\ job'[t].from = job[t].from /\ StagingOf(t)' = StagingOf(t)
    BY <2>2 DEF SameBut, StagingOf, Staging
  <2>4. CASE w = writes[t] /\ UNCHANGED <<dir, staged>>
    <3>1. CASE job[t].op \in {"create", "resize"}
      BY <1>1, <1>2, <1>4, <2>3, <2>4, <3>1 DEF WriteOK
    <3>2. CASE job[t].op \notin {"create", "resize"}
      <4>1. Private(t)
        BY <1>2, <1>4, <2>4, <3>2 DEF WriteOK
      <4>2. Private(t)'
        BY <1>1, <1>2, <2>3, <2>4, <4>1 DEF Private
      <4> QED BY <2>3, <3>2, <4>2 DEF WriteOK
    <3> QED BY <3>1, <3>2
  <2>5. CASE job[t].op = "create" /\ NewFile(w) /\ dir'[job[t].from] = w
    BY <1>1, <2>3, <2>5 DEF WriteOK
  <2>6. CASE job[t].op = "resize" /\ w = dir[job[t].from] /\ UNCHANGED dir
    BY <1>1, <2>3, <2>6 DEF WriteOK
  <2>7. CASE /\ job[t].op \in {"clone", "upload"} /\ NewFile(w) /\ UNCHANGED dir
             /\ \A x \in Kinds \X Keys : x # StagingOf(t) => staged'[x] = staged[x]
    <3>1. /\ \A k \in Keys : dir[k] # w
          /\ \A x \in Kinds \X Keys : staged[x] # w
          /\ \A u \in Tasks : writes[u] # w
      BY <2>7 DEF NewFile, InUse
    <3>2. Private(t)'
      BY <1>1, <1>2, <2>3, <2>7, <3>1 DEF Private
    <3> QED BY <2>3, <2>7, <3>2 DEF WriteOK
  <2>8. CASE job[t].op = "upload" /\ job[t].at = "open" /\ w = staged[Staging(t)] /\ UNCHANGED <<dir, staged>>
    <3>1. Staging(t) \in Kinds \X Keys /\ Staging(t) = StagingOf(t)
      BY <1>2, <2>8 DEF Staging, Kinds, StagingOf
    <3>2. \A k \in Keys : dir'[k] # w
      BY <1>2, <1>4, <2>8, <3>1 DEF OnlyName
    <3>3. \A x \in Kinds \X Keys : staged'[x] = w => x = StagingOf(t)'
      BY <1>2, <1>4, <2>3, <2>8, <3>1 DEF OnlyName
    <3>4. ASSUME NEW u \in Tasks \ {t}, writes[u] = w PROVE FALSE
      <4>1. job[u].at # "idle"
        BY <1>4, <3>4 DEF Control, HandlesOK, WritesAt
      <4>2. job[u].from \in Keys
        BY <4>1, InKeys
      <4>3. job[u].op \notin {"create", "resize"}
        BY <1>2, <1>4, <2>8, <3>2, <3>4, <4>2 DEF WriteOK
      <4>4. Private(u)
        BY <1>2, <1>4, <3>4, <4>3 DEF WriteOK
      <4>5. StagingOf(t) = StagingOf(u)
        BY <2>8, <3>1, <3>4, <4>4 DEF Private
      <4>6. Owns(t, StagingOf(u))
        BY <2>8, <4>5 DEF Owns
      <4> QED BY <1>4, <3>4, <4>3, <4>6, StagingIsOfOne
    <3>5. Private(t)'
      BY <1>1, <1>2, <3>2, <3>3, <3>4 DEF Private
    <3> QED BY <2>3, <2>8, <3>5 DEF WriteOK
  <2> QED BY <1>2, <1>4, <2>4, <2>5, <2>6, <2>7, <2>8 DEF NewWrites
<1> QED BY <1>3, <1>4

LEMMA OperationKeepsFiles ==
    ASSUME Typed, Control, Leases, FilesOK, KeepsOut, NEW t \in Tasks, Effects(t), Control'
    PROVE  FilesOK'
<1>1. OnlyName'
  BY OnlyNameStep DEF Effects, FilesOK
<1>2. \A s \in Sessions : OpenOK(s)'
  BY SessionsUndisturbed
<1>3. \A u \in Tasks : ReadOK(u)' /\ WriteOK(u)'
  BY ReaderItself, ReadersUndisturbed, WriterItself, WritersUndisturbed
<1> QED BY <1>1, <1>2, <1>3 DEF FilesOK

(* A file that is looked at and not changed stays as it was.                *)
LEMMA WritesSameLength ==
    ASSUME Typed, NEW s \in Sessions, OpenOK(s), NEW b \in 1..MaxLen, NEW v \in Blocks, Write(s, b, v)
    PROVE  /\ file[s] \in Inodes /\ data' = [data EXCEPT ![file[s]] = Written(data[file[s]], b, v)]
           /\ \A i \in Inodes : Len(data'[i]) = Len(data[i])
           /\ \A i \in Inodes \ {file[s]} : data'[i] = data[i]
<1>1. PICK i \in Inodes : i = file[s]
  BY DEF Write, Typed, MayBe
<1>2. /\ i # None /\ b <= told[s] /\ data' = [data EXCEPT ![i] = Written(data[i], b, v)]
  BY <1>1, FolderAssumption DEF Write
<1>3. told[s] = Len(data[i]) /\ data[i] \in Seq(Blocks)
  BY <1>1, <1>2 DEF OpenOK, Typed
<1>4. PICK w : w = Written(data[i], b, v)
  OBVIOUS
<1>5. b \in Nat \ {0}
  BY FolderAssumption
<1>6. Len(w) = Len(data[i])
  BY <1>2, <1>3, <1>4, <1>5, WrittenType
<1>7. data \in [Inodes -> Seq(Blocks)]
  BY DEF Typed
<1> QED BY <1>1, <1>2, <1>4, <1>6, <1>7

LEMMA SessionsLeaveTasks ==
    ASSUME NEW s \in Sessions, Session(s)
    PROVE  UNCHANGED <<dir, staged, job, reads, writes, uploading, leases, ask>>
<1>1. CASE Ask(s)
  BY <1>1 DEF Ask, Reg!Ask, fileVars, handleVars, taskVars
<1>2. CASE Acquire(s)
  <2>1. UNCHANGED <<leases, ask>>
    BY <1>2 DEF Acquire, Reg!Attach, Reg!Refuse, Reg!PickVictim, Reg!Evict, Reg!Retry, Reg!GiveUp
  <2> QED BY <1>2, <2>1 DEF Acquire, fileVars, handleVars, taskVars
<1>3. CASE Disconnect(s) \/ Detach(s)
  BY <1>3 DEF Disconnect, Detach, Reg!Disconnect, Reg!Detach, fileVars, handleVars, taskVars
<1>4. CASE Open(s) \/ Shut(s) \/ \E b \in 1..MaxLen, v \in Blocks : Write(s, b, v)
  BY <1>4 DEF Open, Shut, Write, fileVars, handleVars, taskVars, regVars
<1> QED BY <1>1, <1>2, <1>3, <1>4 DEF Session

HandlesFit == \A s \in Sessions : OpenOK(s)

LEMMA SessionKeepsFiles ==
    ASSUME Typed, Control, Leases, FilesOK, NEW s \in Sessions, Session(s)
    PROVE  FilesOK'
<1>1. UNCHANGED <<dir, staged, job, reads, writes, ask>>
  BY SessionsLeaveTasks
<1>2. OnlyName' /\ \A t \in Tasks : ReadOK(t)' /\ WriteOK(t)'
  <2>1. OnlyName'
    BY <1>1 DEF FilesOK, OnlyName
  <2>2. ASSUME NEW t \in Tasks PROVE ReadOK(t)' /\ WriteOK(t)'
    <3>1. ReadOK(t) /\ WriteOK(t)
      BY DEF FilesOK
    <3>2. StagingOf(t)' = StagingOf(t)
      BY <1>1 DEF StagingOf, Staging
    <3>3. Private(t)' <=> Private(t)
      BY <1>1, <3>2 DEF Private
    <3> QED BY <1>1, <3>1, <3>3 DEF ReadOK, WriteOK
  <2> QED BY <2>1, <2>2
<1>3. \A r \in Sessions : OpenOK(r)
  BY DEF FilesOK
<1> SUFFICES HandlesFit'
  BY <1>2 DEF FilesOK, HandlesFit
<1>4. ASSUME UNCHANGED <<file, told, data>>, \A r \in Sessions \ {s} : pc'[r] = pc[r],
             file[s] = None \/ pc'[s] = pc[s]
      PROVE  HandlesFit'
  BY <1>1, <1>3, <1>4 DEF OpenOK, HandlesFit
<1>5. pc \in [Sessions -> RegP!PCs]
  BY DEF Leases
<1>6. CASE Ask(s)
  <2>1. /\ UNCHANGED <<file, told, data>> /\ pc[s] = "new" /\ pc' = [pc EXCEPT ![s] = "asking"]
    BY <1>6 DEF Ask, Reg!Ask, Reg!Become, fileVars, handleVars
  <2>2. file[s] = None
    BY <1>3, <2>1 DEF OpenOK
  <2> QED BY <1>4, <1>5, <2>1, <2>2
<1>7. CASE Acquire(s)
  <2>1. UNCHANGED <<file, told, data>>
    BY <1>7 DEF Acquire, fileVars, handleVars
  <2>2. pc[s] # "attached" /\ \E now : pc' = [pc EXCEPT ![s] = now]
    BY <1>7 DEF Acquire, Reg!Attach, Reg!Refuse, Reg!PickVictim, Reg!Evict, Reg!Retry, Reg!GiveUp, Reg!Become
  <2>3. file[s] = None
    BY <1>3, <2>2 DEF OpenOK
  <2> QED BY <1>4, <1>5, <2>1, <2>2, <2>3
<1>8. CASE Disconnect(s)
  BY <1>4, <1>8 DEF Disconnect, Reg!Disconnect, fileVars, handleVars
<1>9. CASE Detach(s)
  <2>1. UNCHANGED <<file, told, data>> /\ file[s] = None /\ pc' = [pc EXCEPT ![s] = "released"]
    BY <1>9 DEF Detach, Reg!Detach, Reg!Become, fileVars, handleVars
  <2> QED BY <1>4, <1>5, <2>1
<1>10. CASE Open(s)
  <2>1. PICK i : i = dir[ask[s].key]
    OBVIOUS
  <2>2. /\ file' = [file EXCEPT ![s] = i] /\ told' = [told EXCEPT ![s] = Len(data[i])]
        /\ pc[s] = "attached" /\ UNCHANGED <<pc, data>>
    BY <1>10, <2>1 DEF Open, regVars, fileVars
  <2>3. /\ file'[s] = i /\ told'[s] = Len(data[i])
        /\ \A r \in Sessions \ {s} : file'[r] = file[r] /\ told'[r] = told[r]
    BY <2>2 DEF Typed
  <2>4. OpenOK(s)'
    BY <1>1, <2>1, <2>2, <2>3 DEF OpenOK
  <2>5. \A r \in Sessions \ {s} : OpenOK(r)'
    BY <1>1, <1>3, <2>2, <2>3 DEF OpenOK
  <2> QED BY <2>4, <2>5 DEF HandlesFit
<1>11. ASSUME NEW b \in 1..MaxLen, NEW v \in Blocks, Write(s, b, v)
       PROVE  HandlesFit'
  <2>1. \A i \in Inodes : Len(data'[i]) = Len(data[i])
    BY <1>3, <1>11, WritesSameLength
  <2>2. UNCHANGED <<file, told, pc>>
    BY <1>11 DEF Write, regVars, handleVars
  <2>3. \A r \in Sessions : file[r] # None => file[r] \in Inodes
    BY DEF Typed, MayBe
  <2> QED BY <1>1, <1>3, <2>1, <2>2, <2>3 DEF OpenOK, HandlesFit
<1>12. CASE Shut(s)
  <2>1. file' = [file EXCEPT ![s] = None] /\ UNCHANGED <<told, pc>> /\ Store(data)
    BY <1>12 DEF Shut, regVars
  <2>2. file'[s] = None /\ \A r \in Sessions \ {s} : file'[r] = file[r]
    BY <2>1 DEF Typed
  <2>3. ASSUME NEW r \in Sessions \ {s}, file[r] # None PROVE data'[file[r]] = data[file[r]]
    <3>1. file[r] \in Inodes
      BY <2>3 DEF Typed, MayBe
    <3>2. InUse(file[r])'
      BY <2>2 DEF InUse
    <3> QED BY <2>1, <3>1, <3>2 DEF Store
  <2> QED BY <1>1, <1>3, <2>1, <2>2, <2>3 DEF OpenOK, HandlesFit
<1> QED BY <1>6, <1>7, <1>8, <1>9, <1>10, <1>11, <1>12 DEF Session

LEMMA SweepKeepsFiles ==
    ASSUME Typed, FilesOK, Sweep PROVE FilesOK'
<1>1. UNCHANGED <<regVars, dir, handleVars, job>>
  BY DEF Sweep, SweepSees, SweepChecks, SweepRemoves, fileVars
<1>2. UNCHANGED <<dir, job, file, told, reads, writes, pc, ask>>
  BY <1>1 DEF regVars, handleVars
<1>3. staged \in [Kinds \X Keys -> MayBe(Inodes)]
  BY DEF Typed
<1>4. \A x \in Kinds \X Keys : staged'[x] \in {staged[x], None}
  <2>1. CASE SweepRemoves
    BY <1>3, <2>1 DEF SweepRemoves
  <2>2. CASE SweepChecks \/ \E x \in Kinds \X Keys : SweepSees(x[1], x[2])
    BY <2>2 DEF SweepChecks, SweepSees, fileVars
  <2> QED BY <2>1, <2>2 DEF Sweep
<1>5. UNCHANGED data \/ Store(data)
  BY DEF Sweep, SweepSees, SweepChecks, SweepRemoves, fileVars
<1>6. OnlyName'
  BY <1>2, <1>4 DEF FilesOK, OnlyName
<1>7. ASSUME NEW s \in Sessions PROVE OpenOK(s)'
  <2>1. OpenOK(s)
    BY DEF FilesOK
  <2>2. CASE file[s] = None
    BY <1>2, <2>2 DEF OpenOK
  <2>3. CASE file[s] # None
    <3>1. file[s] \in Inodes
      BY <2>3 DEF Typed, MayBe
    <3>2. data'[file[s]] = data[file[s]]
      <4>1. PICK i \in Inodes : i = file[s]
        BY <3>1
      <4>2. InUse(i)'
        BY <1>2, <4>1 DEF InUse
      <4>3. CASE Store(data)
        BY <4>1, <4>2, <4>3 DEF Store
      <4> QED BY <1>5, <4>1, <4>3
    <3> QED BY <1>2, <2>1, <3>2 DEF OpenOK
  <2> QED BY <2>2, <2>3
<1>8. ASSUME NEW t \in Tasks PROVE ReadOK(t)' /\ WriteOK(t)'
  <2>1. ReadOK(t) /\ WriteOK(t)
    BY DEF FilesOK
  <2>2. StagingOf(t)' = StagingOf(t)
    BY <1>2 DEF StagingOf, Staging
  <2>3. writes[t] # None /\ Private(t) => Private(t)'
    <3>1. SUFFICES ASSUME writes[t] # None, Private(t) PROVE Private(t)'
      OBVIOUS
    <3>2. \A x \in Kinds \X Keys : staged'[x] = writes[t] => staged[x] = writes[t]
      BY <1>4, <3>1
    <3> QED BY <1>2, <2>2, <3>1, <3>2 DEF Private
  <2> QED BY <1>2, <2>1, <2>3 DEF ReadOK, WriteOK
<1> QED BY <1>6, <1>7, <1>8 DEF FilesOK

LEMMA FilesInit == Init => FilesOK
<1> SUFFICES ASSUME Init PROVE FilesOK
  OBVIOUS
<1>1. /\ staged = [x \in Kinds \X Keys |-> None] /\ file = [s \in Sessions |-> None]
      /\ reads = [t \in Tasks |-> None] /\ writes = [t \in Tasks |-> None]
  BY DEF Init
<1>2. PICK images : dir = [k \in Keys |-> IF k \in images THEN FirstInode[k] ELSE None]
  BY DEF Init
<1>3. \A k, l \in Keys : FirstInode[k] = FirstInode[l] => k = l
  BY FolderAssumption DEF FirstInode
<1>4. OnlyName
  BY <1>1, <1>2, <1>3 DEF OnlyName
<1> QED BY <1>1, <1>4 DEF FilesOK, OpenOK, ReadOK, WriteOK

LEMMA FilesStep ==
    ASSUME Typed, Control, Leases, FilesOK, RoomForAFile, KeepsOut, [Next]_vars, Control'
    PROVE  FilesOK'
<1>1. CASE UNCHANGED vars
  <2>1. UNCHANGED <<pc, ask, dir, staged, data, file, told, reads, writes, job>>
    BY <1>1 DEF vars, regVars, fileVars, handleVars, taskVars
  <2> QED BY <2>1 DEF FilesOK, OnlyName, OpenOK, ReadOK, WriteOK, Private, StagingOf, Staging
<1>2. ASSUME NEW t \in Tasks, Request(t) PROVE FilesOK'
  <2>1. PICK j : Fresh(t, j)
    BY <1>2, RequestsAreFresh
  <2>2. UNCHANGED <<pc, ask, dir, staged, data, file, told, reads, writes>>
    BY <2>1 DEF Fresh, regVars, fileVars, handleVars
  <2>3. OnlyName' /\ \A s \in Sessions : OpenOK(s)'
    BY <2>2 DEF FilesOK, OnlyName, OpenOK
  <2>4. \A u \in Tasks \ {t} : job'[u] = job[u]
    BY <2>1 DEF Fresh, Typed
  <2>5. ASSUME NEW u \in Tasks \ {t} PROVE ReadOK(u)' /\ WriteOK(u)'
    <3>1. StagingOf(u)' = StagingOf(u)
      BY <2>4 DEF StagingOf, Staging
    <3>2. Private(u)' <=> Private(u)
      BY <2>2, <3>1 DEF Private
    <3> QED BY <2>2, <2>4, <3>2 DEF FilesOK, ReadOK, WriteOK
  <2>6. reads[t] = None /\ writes[t] = None
    <3>1. job[t].at = "idle"
      BY <2>1 DEF Fresh, Idle
    <3>2. ~ReadsAt(job[t]) /\ ~WritesAt(job[t])
      BY <3>1 DEF ReadsAt, WritesAt
    <3> QED BY <3>1, <3>2 DEF Control, HandlesOK
  <2>7. ReadOK(t)' /\ WriteOK(t)'
    BY <2>2, <2>6 DEF ReadOK, WriteOK
  <2> QED BY <2>3, <2>5, <2>7 DEF FilesOK
<1>3. CASE Restart
  <2>1. /\ UNCHANGED <<dir, staged>>
        /\ file' = [s \in Sessions |-> None] /\ reads' = [t \in Tasks |-> None] /\ writes' = [t \in Tasks |-> None]
    BY <1>3 DEF Restart
  <2> QED BY <2>1 DEF FilesOK, OnlyName, OpenOK, ReadOK, WriteOK
<1> QED BY <1>1, <1>2, <1>3, SessionKeepsFiles, SweepKeepsFiles, OperationEffects, OperationKeepsFiles DEF Next

(* What the package promises of files, from what is kept of them.           *)
LEMMA FilesAreSafe ==
    ASSUME Typed, Control, Leases, FilesOK PROVE OpenImagesAreSafe
<1>1. \A s \in Sessions : file[s] # None => Len(data[file[s]]) = told[s] /\ file[s] = dir[ask[s].key]
  BY DEF FilesOK, OpenOK
<1>2. \A t \in Tasks : reads[t] # None => reads[t] = dir[job[t].from]
  BY DEF FilesOK, ReadOK
<1>3. ASSUME NEW i \in Inodes
      PROVE  Cardinality({s \in Sessions : file[s] = i /\ ask[s].mode = "Writer"}
                         \union {t \in Tasks : writes[t] = i}) <= 1
  <2>1. i # None
    BY FolderAssumption
  <2>2. ASSUME NEW r \in Sessions, NEW s \in Sessions, file[r] = i, ask[r].mode = "Writer",
               file[s] = i, ask[s].mode = "Writer"
        PROVE  r = s
    <3>1. OpenOK(r) /\ OpenOK(s) /\ ask[r].key \in Keys /\ ask[s].key \in Keys
      BY DEF FilesOK, Leases
    <3>2. ask[r].key = ask[s].key
      BY <2>1, <2>2, <3>1 DEF OpenOK, FilesOK, OnlyName
    <3> QED BY <2>1, <2>2, <3>1, <3>2 DEF OpenOK, Leases
  <2>3. ASSUME NEW s \in Sessions, NEW t \in Tasks, file[s] = i, writes[t] = i PROVE FALSE
    <3>1. OpenOK(s) /\ ask[s].key \in Keys /\ WriteOK(t) /\ OnlyName
      BY DEF FilesOK, Leases
    <3>2. pc[s] = "attached" /\ dir[ask[s].key] = i
      BY <2>1, <2>3, <3>1 DEF OpenOK
    <3>3. ~Excl(t, ask[s].key)
      BY <3>2 DEF Leases, Excl
    <3> QED BY <2>1, <2>3, <3>1, <3>2, <3>3, WritesUnderLease
  <2>4. ASSUME NEW t \in Tasks, NEW u \in Tasks, writes[t] = i, writes[u] = i PROVE t = u
    <3>1. WriteOK(t) /\ WriteOK(u) /\ OnlyName
      BY DEF FilesOK
    <3>2. CASE job[t].op \notin {"create", "resize"} \/ job[u].op \notin {"create", "resize"}
      BY <2>1, <2>4, <3>1, <3>2 DEF WriteOK, Private
    <3>3. CASE job[t].op \in {"create", "resize"} /\ job[u].op \in {"create", "resize"}
      <4>1. job[t].at = "extend" /\ job[u].at = "extend"
        BY <2>1, <2>4, <3>3 DEF Control, HandlesOK, WritesAt
      <4>2. job[t].from \in Keys /\ job[u].from \in Keys /\ Excl(t, job[t].from) /\ Excl(u, job[u].from)
        BY <3>3, <4>1, InKeys, ExclFacts
      <4>3. job[t].from = job[u].from
        BY <2>1, <2>4, <3>1, <3>3, <4>2 DEF WriteOK, OnlyName
      <4> QED BY <4>2, <4>3 DEF Leases, Excl, Reg!TaskModes
    <3> QED BY <3>2, <3>3
  <2>5. PICK W : W = {s \in Sessions : file[s] = i /\ ask[s].mode = "Writer"} \union {t \in Tasks : writes[t] = i}
    OBVIOUS
  <2>6. \A a, b \in W : a = b
    BY <2>2, <2>3, <2>4, <2>5
  <2>7. W = {} \/ \E a : W = {a}
    BY <2>6
  <2>8. Cardinality(W) \in {0, 1}
    BY <2>7, FS_EmptySet, FS_Singleton
  <2> QED BY <2>5, <2>8
<1> QED BY <1>1, <1>2, <1>3 DEF OpenImagesAreSafe

FilesInv == KeptInv /\ FilesOK

LEMMA FilesInvStep == FilesInv /\ RoomForAFile /\ KeepsOut /\ [Next]_vars => FilesInv'
<1> SUFFICES ASSUME FilesInv, RoomForAFile, KeepsOut, [Next]_vars PROVE FilesInv'
  OBVIOUS
<1>1. KeptInv /\ FilesOK /\ RegP!IInv /\ Typed /\ Control
  BY DEF FilesInv, KeptInv
<1>2. KeptInv'
  BY <1>1, KeptStep
<1>3. Leases /\ Control'
  BY <1>1, <1>2, RegistryFacts DEF KeptInv
<1>4. FilesOK'
  BY <1>1, <1>3, FilesStep
<1> QED BY <1>2, <1>4 DEF FilesInv

(* The promise of disks.go:5, said of files: the image a session has open   *)
(* keeps the size its client was told and its name, what a download or a    *)
(* clone reads keeps its name, and no file is open for writing twice.  It   *)
(* holds as long as nobody takes the mutex of an upload that another        *)
(* request is about to put in place (upload.go:140).                        *)
THEOREM OpenImagesStaySafe == Spec /\ [](RoomForAFile /\ KeepsOut) => []OpenImagesAreSafe
<1>1. Init => FilesInv
  BY KeptInit, FilesInit DEF FilesInv
<1>2. FilesInv /\ (RoomForAFile /\ KeepsOut) /\ [Next]_vars => FilesInv'
  BY FilesInvStep
<1>3. FilesInv => OpenImagesAreSafe
  BY RegistryFacts, FilesAreSafe DEF FilesInv, KeptInv
<1> QED BY <1>1, <1>2, <1>3, PTL DEF Spec

-----------------------------------------------------------------------------
(* What a download has read, or a clone has copied.  The image is held, so  *)
(* that no guest and no operation of the page writes it, and the staging    *)
(* file is the clone's own: Sweep may take its name, never its blocks.      *)
NothingCopied(t) ==
    /\ job[t].op = "download" /\ job[t].at \in {"lock", "act"} => job[t].got = <<>>
    /\ job[t].op = "clone" /\ job[t].at \in {"lock", "lock2", "act", "clear", "begin", "copy"} => job[t].pos = 0

ReadSoFar(t) ==
    At(t, "download", "copy") => \A n \in 1..Len(job[t].got) : job[t].got[n] = data[reads[t]][n]

CopiedSoFar(t) ==
    At(t, "clone", "block") =>
        /\ Len(data[writes[t]]) = Len(data[reads[t]])
        /\ staged[<<"clone", job[t].to>>] \in {None, writes[t]}
        /\ \A n \in 1..job[t].pos : data[writes[t]][n] = data[reads[t]][n]

CopiedWhole(t) ==
    job[t].op = "clone" /\ job[t].at \in {"check", "move"} =>
        LET i == staged[<<"clone", job[t].to>>]  j == dir[job[t].from] IN
        j # None /\ (i # None => data[i] = data[j])

CopyOK(t) == NothingCopied(t) /\ ReadSoFar(t) /\ CopiedSoFar(t) /\ CopiedWhole(t)

CopiesOK == \A t \in Tasks : CopyOK(t)

(* The step of somebody else leaves what the task copies from and to.       *)
Steady(u) ==
    /\ job'[u] = job[u] /\ reads'[u] = reads[u] /\ writes'[u] = writes[u]
    /\ ReadsAt(job[u]) => data'[reads[u]] = data[reads[u]]
    /\ job[u].op = "clone" /\ job[u].at \in {"block", "check", "move"} =>
          staged'[<<"clone", job[u].to>>] \in {None, staged[<<"clone", job[u].to>>]}
    /\ At(u, "clone", "block") => data'[writes[u]] = data[writes[u]]
    /\ job[u].op = "clone" /\ job[u].at \in {"check", "move"} =>
          LET i == staged'[<<"clone", job[u].to>>]  j == dir[job[u].from] IN
          dir'[job[u].from] = j /\ data'[j] = data[j] /\ (i # None => data'[i] = data[i])

LEMMA SteadyCopy ==
    ASSUME NEW u \in Tasks, Steady(u), CopyOK(u) PROVE CopyOK(u)'
<1>1. job'[u] = job[u] /\ reads'[u] = reads[u] /\ writes'[u] = writes[u]
  BY DEF Steady
<1>2. NothingCopied(u)'
  BY <1>1 DEF CopyOK, NothingCopied
<1>3. ReadSoFar(u)'
  BY <1>1 DEF Steady, CopyOK, ReadSoFar, ReadsAt, At
<1>4. CopiedSoFar(u)'
  BY <1>1 DEF Steady, CopyOK, CopiedSoFar, ReadsAt, At
<1>5. CopiedWhole(u)'
  BY <1>1 DEF Steady, CopyOK, CopiedWhole
<1> QED BY <1>2, <1>3, <1>4, <1>5 DEF CopyOK

(* An image is held by the task that copies it.                             *)
LEMMA CopiersHold ==
    ASSUME Typed, Control, Leases, NEW u \in Tasks, NEW t \in Tasks,
           ReadsAt(job[u]) \/ (job[u].op = "clone" /\ job[u].at \in {"check", "move"})
    PROVE  /\ job[u].from \in Keys /\ <<job[u].from, "Hold">> \in leases[u] /\ ~Excl(t, job[u].from)
           /\ job[u].op = "clone" => job[u].to \in Keys /\ Excl(u, job[u].to) /\ job[u].at # "idle"
<1>1. job[u].at # "idle"
  BY DEF ReadsAt
<1>2. job[u].from \in Keys /\ job[u].op \in {"download", "clone"} /\ (job[u].op = "clone" => job[u].to \in Keys)
  BY <1>1, InKeys DEF ReadsAt
<1>3. <<job[u].from, "Hold">> \in leases[u] /\ (job[u].op = "clone" => Excl(u, job[u].to))
  BY ExclFacts DEF ReadsAt
<1>4. ~Excl(u, job[u].from)
  BY <1>2, ExclFacts
<1>5. Excl(t, job[u].from) => t = u
  BY <1>2, <1>3 DEF Leases, Excl, Reg!TaskModes
<1> QED BY <1>1, <1>2, <1>3, <1>4, <1>5

LEMMA OthersSteady ==
    ASSUME Typed, Control, Leases, FilesOK, CopiesOK, NEW t \in Tasks, Effects(t), NEW u \in Tasks \ {t}
    PROVE  Steady(u)
<1>1. /\ job'[u] = job[u] /\ reads'[u] = reads[u] /\ writes'[u] = writes[u]
      /\ Renames(t) /\ DataKept(t) /\ OnlyName /\ ReadOK(u) /\ WriteOK(t) /\ WriteOK(u) /\ CopyOK(u)
  BY DEF Effects, OthersWait, FilesOK, CopiesOK
<1>2. ASSUME ReadsAt(job[u]) PROVE data'[reads[u]] = data[reads[u]]
  <2>1. PICK i \in Inodes : i = reads[u] /\ i # None
    BY <1>2 DEF Typed, MayBe, Control, HandlesOK
  <2>2. PICK k \in Keys : k = job[u].from /\ ~Excl(t, k)
    BY <1>2, CopiersHold
  <2>3. i = dir[k] /\ i # writes[t]
    BY <1>1, <2>1, <2>2, WritesUnderLease DEF ReadOK
  <2>4. InUse(i) /\ InUse(i)'
    BY <1>1, <2>1 DEF InUse
  <2> QED BY <1>1, <2>1, <2>3, <2>4 DEF DataKept
<1>3. ASSUME At(u, "clone", "block") PROVE data'[writes[u]] = data[writes[u]]
  <2>1. PICK i \in Inodes : i = writes[u] /\ i # None
    BY <1>3 DEF Typed, MayBe, Control, HandlesOK, WritesAt, At
  <2>2. Private(u)
    BY <1>1, <1>3, <2>1 DEF WriteOK, At
  <2>3. i # writes[t]
    BY <2>1, <2>2 DEF Private
  <2>4. InUse(i) /\ InUse(i)'
    BY <1>1, <2>1 DEF InUse
  <2> QED BY <1>1, <2>1, <2>3, <2>4 DEF DataKept
<1>4. ASSUME job[u].op = "clone", job[u].at \in {"block", "check", "move"}
      PROVE  /\ staged'[<<"clone", job[u].to>>] = staged[<<"clone", job[u].to>>]
             /\ <<"clone", job[u].to>> \in Kinds \X Keys
             /\ writes[t] # None => staged[<<"clone", job[u].to>>] # writes[t]
  <2>1. job[u].to \in Keys /\ Excl(u, job[u].to)
    BY <1>4, CopiersHold DEF ReadsAt
  <2>2. PICK x \in Kinds \X Keys : x = <<"clone", job[u].to>>
    BY <2>1 DEF Kinds
  <2>3. ASSUME StagingOf(t) = x, WritesAt(job[t]) \/ Excl(t, job[t].to) PROVE FALSE
    <3>1. job[t].op = "clone" /\ job[t].to = job[u].to
      BY <2>2, <2>3 DEF StagingOf, Staging
    <3>2. Excl(t, job[t].to)
      BY <2>3, <3>1, ExclFacts DEF WritesAt
    <3> QED BY <2>1, <3>1, <3>2 DEF Leases, Excl, Reg!TaskModes
  <2>4. ~Owns(t, x)
    BY <2>2, <2>3 DEF Owns, StagingOf, Staging
  <2>5. staged'[x] = staged[x]
    BY <1>1, <2>4, NamesStay
  <2>6. ASSUME writes[t] # None, staged[x] = writes[t] PROVE FALSE
    <3>1. job[t].at # "idle"
      BY <2>6 DEF Control, HandlesOK, WritesAt
    <3>2. job[t].from \in Keys
      BY <3>1, InKeys
    <3>3. CASE job[t].op \in {"create", "resize"}
      BY <1>1, <2>6, <3>2, <3>3 DEF WriteOK, OnlyName
    <3>4. CASE job[t].op \notin {"create", "resize"}
      <4>1. StagingOf(t) = x
        BY <1>1, <2>6, <3>4 DEF WriteOK, Private
      <4>2. job[t].op = "clone"
        BY <2>2, <4>1 DEF StagingOf, Staging
      <4>3. WritesAt(job[t])
        BY <2>6, <4>2 DEF Control, HandlesOK
      <4> QED BY <2>3, <4>1, <4>3
    <3> QED BY <3>3, <3>4
  <2> QED BY <2>2, <2>5, <2>6
<1>5. ASSUME job[u].op = "clone", job[u].at \in {"check", "move"}
      PROVE  LET i == staged'[<<"clone", job[u].to>>]  j == dir[job[u].from] IN
             dir'[job[u].from] = j /\ data'[j] = data[j] /\ (i # None => data'[i] = data[i])
  <2>1. PICK k \in Keys : k = job[u].from /\ ~Excl(t, k)
    BY <1>5, CopiersHold
  <2>2. PICK j \in Inodes : j = dir[k] /\ j # None
    BY <1>1, <1>5, <2>1 DEF CopyOK, CopiedWhole, Typed, MayBe
  <2>3. dir'[k] = j /\ j # writes[t]
    BY <1>1, <2>1, <2>2, NamesStay, WritesUnderLease
  <2>4. data'[j] = data[j]
    <3>1. InUse(j) /\ InUse(j)'
      BY <2>2, <2>3 DEF InUse
    <3> QED BY <1>1, <2>3, <3>1 DEF DataKept
  <2>5. PICK x \in Kinds \X Keys : x = <<"clone", job[u].to>>
    BY <1>4, <1>5
  <2>6. staged'[x] = staged[x] /\ (writes[t] # None => staged[x] # writes[t])
    BY <1>4, <1>5, <2>5
  <2>7. ASSUME staged'[x] # None PROVE data'[staged'[x]] = data[staged'[x]]
    <3>1. PICK i \in Inodes : i = staged[x]
      BY <2>6, <2>7 DEF Typed, MayBe
    <3>2. InUse(i) /\ InUse(i)' /\ i # writes[t]
      BY <2>6, <2>7, <3>1 DEF InUse
    <3> QED BY <1>1, <2>6, <3>1, <3>2 DEF DataKept
  <2> QED BY <2>1, <2>2, <2>3, <2>4, <2>5, <2>7
<1> QED BY <1>1, <1>2, <1>3, <1>4, <1>5 DEF Steady

(* A guest writes to an image no task reads and nobody copies.              *)
LEMMA SessionsLeaveCopies ==
    ASSUME Typed, Control, Leases, FilesOK, CopiesOK, NEW s \in Sessions, Session(s), NEW u \in Tasks
    PROVE  Steady(u)
<1>1. UNCHANGED <<dir, staged, job, reads, writes>>
  BY SessionsLeaveTasks
<1>2. OnlyName /\ ReadOK(u) /\ WriteOK(u) /\ CopyOK(u) /\ OpenOK(s)
  BY DEF FilesOK, CopiesOK
<1>3. ASSUME NEW i \in Inodes,
             \/ (\E k \in Keys : dir[k] = i /\ <<k, "Hold">> \in leases[u])
             \/ \A k \in Keys : dir[k] # i,
             \/ \E k \in Keys : dir[k] = i
             \/ \E x \in Kinds \X Keys : staged[x] = i
             \/ i \in {reads[u], writes[u]}
      PROVE  data'[i] = data[i]
  <2>1. InUse(i)'
    BY <1>1, <1>3 DEF InUse
  <2>2. CASE UNCHANGED data
    BY <2>2
  <2>3. CASE Store(data)
    BY <2>1, <2>3 DEF Store
  <2>4. ASSUME NEW b \in 1..MaxLen, NEW v \in Blocks, Write(s, b, v) PROVE data'[i] = data[i]
    <3>1. PICK k \in Keys : k = ask[s].key
      BY DEF Leases
    <3>2. file[s] # None /\ ask[s].mode = "Writer" /\ pc[s] = "attached" /\ file[s] = dir[k]
      BY <1>2, <2>4, <3>1 DEF Write, OpenOK
    <3>3. <<k, "Hold">> \notin leases[u]
      BY <3>1, <3>2 DEF Leases
    <3>4. i # file[s]
      BY <1>2, <1>3, <3>2, <3>3 DEF OnlyName
    <3> QED BY <1>2, <2>4, <3>4, WritesSameLength
  <2>5. CASE Ask(s) \/ Acquire(s) \/ Disconnect(s) \/ Open(s) \/ Detach(s)
    BY <2>2, <2>5 DEF Ask, Acquire, Disconnect, Open, Detach, fileVars
  <2> QED BY <2>3, <2>4, <2>5 DEF Session, Shut
<1>4. ASSUME ReadsAt(job[u]) PROVE data'[reads[u]] = data[reads[u]]
  <2>1. PICK i \in Inodes : i = reads[u] /\ i # None
    BY <1>4 DEF Typed, MayBe, Control, HandlesOK
  <2>2. job[u].from \in Keys /\ <<job[u].from, "Hold">> \in leases[u] /\ dir[job[u].from] = i
    BY <1>2, <1>4, <2>1, CopiersHold DEF ReadOK
  <2> QED BY <1>3, <2>1, <2>2
<1>5. ASSUME At(u, "clone", "block") PROVE data'[writes[u]] = data[writes[u]]
  <2>1. PICK i \in Inodes : i = writes[u] /\ i # None
    BY <1>5 DEF Typed, MayBe, Control, HandlesOK, WritesAt, At
  <2>2. \A k \in Keys : dir[k] # i
    BY <1>2, <1>5, <2>1 DEF WriteOK, Private, At
  <2> QED BY <1>3, <2>1, <2>2
<1>6. ASSUME job[u].op = "clone", job[u].at \in {"check", "move"}
      PROVE  LET i == staged'[<<"clone", job[u].to>>]  j == dir[job[u].from] IN
             dir'[job[u].from] = j /\ data'[j] = data[j] /\ (i # None => data'[i] = data[i])
  <2>1. PICK k \in Keys : k = job[u].from /\ <<k, "Hold">> \in leases[u]
    BY <1>6, CopiersHold
  <2>2. PICK j \in Inodes : j = dir[k] /\ j # None
    BY <1>2, <1>6, <2>1 DEF CopyOK, CopiedWhole, Typed, MayBe
  <2>3. data'[j] = data[j]
    BY <1>3, <2>1, <2>2
  <2>4. PICK x \in Kinds \X Keys : x = <<"clone", job[u].to>>
    BY <1>6, CopiersHold DEF Kinds
  <2>5. ASSUME staged[x] # None PROVE data'[staged[x]] = data[staged[x]]
    <3>1. PICK i \in Inodes : i = staged[x]
      BY <2>5 DEF Typed, MayBe
    <3>2. \A l \in Keys : dir[l] # i
      BY <1>2, <2>5, <3>1 DEF OnlyName
    <3> QED BY <1>3, <3>1, <3>2
  <2> QED BY <1>1, <2>1, <2>2, <2>3, <2>4, <2>5
<1> QED BY <1>1, <1>4, <1>5, <1>6 DEF Steady

LEMMA SweepLeavesCopies ==
    ASSUME Typed, Control, Leases, CopiesOK, Sweep, NEW u \in Tasks
    PROVE  Steady(u)
<1>1. UNCHANGED <<dir, reads, writes, job>>
  BY DEF Sweep, SweepSees, SweepChecks, SweepRemoves, fileVars, handleVars
<1>2. staged \in [Kinds \X Keys -> MayBe(Inodes)]
  BY DEF Typed
<1>3. \A x \in Kinds \X Keys : staged'[x] \in {staged[x], None}
  <2>1. CASE SweepRemoves
    BY <1>2, <2>1 DEF SweepRemoves
  <2>2. CASE SweepChecks \/ \E x \in Kinds \X Keys : SweepSees(x[1], x[2])
    BY <2>2 DEF SweepChecks, SweepSees, fileVars
  <2> QED BY <2>1, <2>2 DEF Sweep
<1>4. UNCHANGED data \/ Store(data)
  BY DEF Sweep, SweepSees, SweepChecks, SweepRemoves, fileVars
<1>5. ASSUME NEW i \in Inodes,
             \/ \E k \in Keys : dir'[k] = i
             \/ \E x \in Kinds \X Keys : staged'[x] = i
             \/ i \in {reads'[u], writes'[u]}
      PROVE  data'[i] = data[i]
  <2>1. InUse(i)'
    BY <1>5 DEF InUse
  <2>2. CASE Store(data)
    BY <2>1, <2>2 DEF Store
  <2> QED BY <1>4, <2>2
<1>6. ASSUME ReadsAt(job[u]) PROVE data'[reads[u]] = data[reads[u]]
  <2>1. PICK i \in Inodes : i = reads[u]
    BY <1>6 DEF Typed, MayBe, Control, HandlesOK
  <2> QED BY <1>1, <1>5, <2>1
<1>7. ASSUME At(u, "clone", "block") PROVE data'[writes[u]] = data[writes[u]]
  <2>1. PICK i \in Inodes : i = writes[u]
    BY <1>7 DEF Typed, MayBe, Control, HandlesOK, WritesAt, At
  <2> QED BY <1>1, <1>5, <2>1
<1>8. ASSUME job[u].op = "clone", job[u].at \in {"block", "check", "move"}
      PROVE  staged'[<<"clone", job[u].to>>] \in {None, staged[<<"clone", job[u].to>>]}
  <2>1. PICK x \in Kinds \X Keys : x = <<"clone", job[u].to>>
    BY <1>8, CopiersHold DEF Kinds, ReadsAt
  <2> QED BY <1>3, <2>1
<1>9. ASSUME job[u].op = "clone", job[u].at \in {"check", "move"}
      PROVE  LET i == staged'[<<"clone", job[u].to>>]  j == dir[job[u].from] IN
             dir'[job[u].from] = j /\ data'[j] = data[j] /\ (i # None => data'[i] = data[i])
  <2>1. PICK k \in Keys : k = job[u].from
    BY <1>9, CopiersHold
  <2>2. PICK j \in Inodes : j = dir[k]
    BY <1>9, <2>1 DEF CopiesOK, CopyOK, CopiedWhole, Typed, MayBe
  <2>3. data'[j] = data[j]
    BY <1>1, <1>5, <2>2
  <2>4. PICK x \in Kinds \X Keys : x = <<"clone", job[u].to>>
    BY <1>9, CopiersHold DEF Kinds
  <2>5. ASSUME staged'[x] # None PROVE data'[staged'[x]] = data[staged'[x]]
    <3>1. PICK i \in Inodes : i = staged'[x]
      BY <1>2, <1>3, <2>5 DEF MayBe
    <3> QED BY <1>5, <3>1
  <2> QED BY <1>1, <2>1, <2>2, <2>3, <2>4, <2>5
<1> QED BY <1>1, <1>6, <1>7, <1>8, <1>9 DEF Steady

(* A step of the task itself: where a download or a clone begins, goes on   *)
(* and ends.                                                                *)
LEMMA PlainOwnStep ==
    ASSUME NEW t \in Tasks, CopyOK(t),
           \/ job'[t].op \notin {"download", "clone"} \/ job'[t].at \in {"release", "idle"}
           \/ /\ job'[t].op = job[t].op /\ job'[t].pos = job[t].pos /\ job'[t].got = job[t].got
              /\ \/ job[t].op = "download" /\ {job[t].at, job'[t].at} \subseteq {"lock", "act"}
                 \/ job[t].op = "clone"
                    /\ {job[t].at, job'[t].at} \subseteq {"lock", "lock2", "act", "clear", "begin", "copy"}
    PROVE  CopyOK(t)'
BY DEF CopyOK, NothingCopied, ReadSoFar, CopiedSoFar, CopiedWhole, At

LEMMA DownloadOwnStep ==
    ASSUME Typed, Control, NEW t \in Tasks, CopyOK(t), DownloadOpen(t) \/ DownloadBlock(t)
    PROVE  CopyOK(t)'
<1>1. CASE DownloadOpen(t)
  <2>1. job[t].op = "download" /\ job[t].got = <<>>
    BY <1>1 DEF DownloadOpen, At, CopyOK, NothingCopied
  <2>2. Go(t, "release") \/ Go(t, "copy")
    BY <1>1 DEF DownloadOpen
  <2>3. job'[t].op = "download" /\ job'[t].at \in {"release", "copy"} /\ job'[t].got = <<>>
    BY <2>1, <2>2, GoFacts DEF Ats, SameBut
  <2> QED BY <2>3 DEF CopyOK, NothingCopied, ReadSoFar, CopiedSoFar, CopiedWhole, At
<1>2. CASE DownloadBlock(t)
  <2>1. At(t, "download", "copy") /\ UNCHANGED <<data, reads>>
    BY <1>2 DEF DownloadBlock, NoHandles, handleVars, fileVars
  <2>2. PICK g \in Seq(Blocks) : g = job[t].got
    BY DEF Typed, JobRecord
  <2>3. PICK d \in Seq(Blocks) : d = data[reads[t]]
    BY <2>1, OpenWhereDue DEF At, ReadsAt
  <2>4. PICK n : n = Len(g) + 1
    OBVIOUS
  <2>5. n \in Nat \ {0} /\ n <= Len(d)
    BY <1>2, <2>2, <2>3, <2>4 DEF DownloadBlock
  <2>6. PICK b \in Blocks : b = d[n]
    BY <2>5
  <2>7. PICK more : more = Append(g, b)
    OBVIOUS
  <2>8. Len(more) = n /\ \A m \in 1..n : more[m] = IF m = n THEN b ELSE g[m]
    BY <2>4, <2>7
  <2>9. PICK new : new = [job[t] EXCEPT !.got = more]
    OBVIOUS
  <2>10. job' = [job EXCEPT ![t] = new]
    BY <1>2, <2>2, <2>3, <2>4, <2>6, <2>7, <2>9 DEF DownloadBlock
  <2>11. job'[t] = new /\ new.got = more /\ new.op = "download" /\ new.at = "copy"
    BY <2>1, <2>9, <2>10 DEF Typed, JobRecord, At
  <2>12. \A m \in 1..Len(g) : g[m] = d[m]
    BY <2>1, <2>2, <2>3 DEF CopyOK, ReadSoFar
  <2>13. \A m \in 1..Len(more) : more[m] = d[m]
    BY <2>4, <2>6, <2>8, <2>12
  <2> QED BY <2>1, <2>3, <2>11, <2>13 DEF CopyOK, NothingCopied, ReadSoFar, CopiedSoFar, CopiedWhole, At
<1> QED BY <1>1, <1>2

LEMMA CloneOpenOwnStep ==
    ASSUME Typed, Control, RoomForAFile, NEW t \in Tasks, CopyOK(t), CloneOpen(t)
    PROVE  CopyOK(t)'
<1>1. At(t, "clone", "copy") /\ UNCHANGED dir /\ job[t].pos = 0
  BY DEF CloneOpen, At, CopyOK, NothingCopied
<1>2. PICK k \in Keys : k = job[t].from
  BY <1>1, InKeys DEF At
<1>3. PICK x \in Kinds \X Keys : x = <<"clone", job[t].to>>
  BY <1>1, InKeys DEF At, Kinds
<1>4. PICK new \in Inodes : new = NewInode /\ ~InUse(new) /\ new # None
  BY NewInodeIsFree, FolderAssumption
<1>5. PICK i : i = dir[k]
  OBVIOUS
<1>6. ASSUME NEW at \in Ats, NEW blocks, i # None, staged' = [staged EXCEPT ![x] = new], Go(t, at),
             Store([data EXCEPT ![new] = blocks])
      PROVE  /\ i \in Inodes /\ data'[new] = blocks /\ data'[i] = data[i] /\ staged'[x] = new
             /\ job'[t].at = at /\ SameBut(t) /\ job'[t].pos = 0
  <2>1. i \in Inodes /\ i # new
    BY <1>2, <1>4, <1>5, <1>6 DEF Typed, MayBe, InUse
  <2>2. staged'[x] = new
    BY <1>6 DEF Typed
  <2>3. InUse(new)' /\ InUse(i)'
    BY <1>1, <1>2, <1>5, <2>2 DEF InUse
  <2>4. data'[new] = blocks /\ data'[i] = data[i]
    BY <1>4, <1>6, <2>1, <2>3 DEF Store, Typed
  <2> QED BY <1>1, <1>6, <2>1, <2>2, <2>4, GoFacts
<1>7. CASE i # None /\ staged' = [staged EXCEPT ![x] = new] /\ Go(t, "check") /\ Store([data EXCEPT ![new] = data[i]])
  <2>1. "check" \in Ats
    BY DEF Ats
  <2>2. /\ data'[new] = data[i] /\ data'[i] = data[i] /\ staged'[x] = new
        /\ job'[t].at = "check" /\ SameBut(t)
    BY <1>6, <1>7, <2>1
  <2>3. job'[t].op = "clone" /\ job'[t].to = job[t].to /\ job'[t].from = k
    BY <1>1, <1>2, <2>2 DEF SameBut, At
  <2> QED BY <1>1, <1>3, <1>5, <1>7, <2>2, <2>3 DEF CopyOK, NothingCopied, ReadSoFar, CopiedSoFar, CopiedWhole, At
<1>8. CASE /\ i # None /\ staged' = [staged EXCEPT ![x] = new] /\ Go(t, "block")
           /\ Store([data EXCEPT ![new] = Zeros(Len(data[i]))])
           /\ reads' = [reads EXCEPT ![t] = i] /\ writes' = [writes EXCEPT ![t] = new]
  <2>1. "block" \in Ats
    BY DEF Ats
  <2>2. /\ data'[new] = Zeros(Len(data[i])) /\ data'[i] = data[i] /\ staged'[x] = new /\ i \in Inodes
        /\ job'[t].at = "block" /\ SameBut(t) /\ job'[t].pos = 0
    BY <1>6, <1>8, <2>1
  <2>3. job'[t].op = "clone" /\ job'[t].to = job[t].to
    BY <1>1, <2>2 DEF SameBut, At
  <2>4. reads'[t] = i /\ writes'[t] = new
    BY <1>8 DEF Typed
  <2>5. Len(data[i]) \in Nat
    BY <2>2 DEF Typed
  <2>6. Len(data'[new]) = Len(data'[i])
    BY <2>2, <2>5, ZerosType
  <2> QED BY <1>3, <2>2, <2>3, <2>4, <2>6 DEF CopyOK, NothingCopied, ReadSoFar, CopiedSoFar, CopiedWhole, At
<1>9. CASE Go(t, "release")
  BY <1>9, GoFacts, PlainOwnStep DEF Ats
<1> QED BY <1>2, <1>3, <1>4, <1>5, <1>7, <1>8, <1>9 DEF CloneOpen

LEMMA CloneBlockOwnStep ==
    ASSUME Typed, Control, FilesOK, NEW t \in Tasks, CopyOK(t), CloneBlock(t)
    PROVE  CopyOK(t)'
<1>1. At(t, "clone", "block") /\ UNCHANGED <<reads, writes, staged>>
  BY DEF CloneBlock, NoHandles, handleVars
<1>2. PICK r \in Inodes, w \in Inodes : r = reads[t] /\ w = writes[t] /\ r # None /\ w # None
  BY <1>1, OpenWhereDue, FolderAssumption DEF At, WritesAt, ReadsAt
<1>3. r # w
  <2>1. job[t].from \in Keys
    BY <1>1, InKeys DEF At
  <2> QED BY <1>1, <1>2, <2>1 DEF FilesOK, ReadOK, WriteOK, Private, At
<1>4. PICK src \in Seq(Blocks), dst \in Seq(Blocks) : src = data[r] /\ dst = data[w]
  BY DEF Typed
<1>5. PICK p \in Nat : p = job[t].pos
  BY DEF Typed, JobRecord
<1>6. Len(dst) = Len(src) /\ staged[<<"clone", job[t].to>>] \in {None, w} /\ \A m \in 1..p : dst[m] = src[m]
  BY <1>1, <1>2, <1>4, <1>5 DEF CopyOK, CopiedSoFar
<1>7. PICK n \in Nat \ {0} : n = p + 1
  OBVIOUS
<1>8. n \in Nat \ {0} /\ n <= Len(src)
  BY <1>2, <1>4, <1>5, <1>7 DEF CloneBlock
<1>9. PICK now : now = Written(dst, n, src[n])
  OBVIOUS
<1>10. src[n] \in Blocks
  BY <1>8
<1>11. Len(now) = Len(src) /\ \A m \in 1..Len(src) : now[m] = IF m = n THEN src[n] ELSE dst[m]
  <2>1. PICK b \in Blocks : b = src[n]
    BY <1>10
  <2>2. /\ Len(now) = IF n > Len(dst) THEN n ELSE Len(dst)
        /\ \A m \in 1..Len(now) : now[m] = IF m = n THEN b ELSE IF m <= Len(dst) THEN dst[m] ELSE 0
    <3>1. /\ Len(Written(dst, n, b)) = IF n > Len(dst) THEN n ELSE Len(dst)
          /\ \A m \in 1..Len(Written(dst, n, b)) :
                 Written(dst, n, b)[m] = IF m = n THEN b ELSE IF m <= Len(dst) THEN dst[m] ELSE 0
      BY WrittenType
    <3>2. now = Written(dst, n, b)
      BY <1>9, <2>1
    <3> QED BY <3>1, <3>2
  <2>3. Len(now) = Len(src) /\ Len(src) \in Nat
    BY <1>6, <1>8, <2>2
  <2> QED BY <1>6, <2>1, <2>2, <2>3
<1>12. \A m \in 1..n : now[m] = src[m]
  BY <1>5, <1>6, <1>7, <1>8, <1>11
<1>13. data' = [data EXCEPT ![w] = now]
  BY <1>2, <1>4, <1>5, <1>7, <1>9 DEF CloneBlock
<1>14. data'[w] = now /\ data'[r] = src
  BY <1>3, <1>4, <1>13 DEF Typed
<1>15. PICK new : new = [job[t] EXCEPT !.pos = n]
  OBVIOUS
<1>16. job' = [job EXCEPT ![t] = new]
  BY <1>5, <1>7, <1>15 DEF CloneBlock
<1>17. job'[t] = new /\ new.pos = n /\ new.op = "clone" /\ new.at = "block" /\ new.to = job[t].to
  BY <1>1, <1>15, <1>16 DEF Typed, JobRecord, At
<1> QED BY <1>1, <1>2, <1>6, <1>11, <1>12, <1>14, <1>17
        DEF CopyOK, NothingCopied, ReadSoFar, CopiedSoFar, CopiedWhole, At

LEMMA CloneEndOwnStep ==
    ASSUME Typed, Control, FilesOK, NEW t \in Tasks, CopyOK(t), CloneCopied(t) \/ CloneCheckAgain(t)
    PROVE  CopyOK(t)'
<1>1. job[t].op = "clone" /\ job[t].at \in {"block", "check"} /\ UNCHANGED dir
  BY DEF CloneCopied, CloneCheckAgain, At
<1>2. PICK k \in Keys : k = job[t].from
  BY <1>1, InKeys
<1>3. PICK x \in Kinds \X Keys : x = <<"clone", job[t].to>>
  BY <1>1, InKeys DEF Kinds
<1>4. ASSUME NEW j \in Inodes, j # None, dir[k] = j, UNCHANGED staged, Store(data), NEW at \in {"check", "move"}, Go(t, at),
             staged[x] # None => data[staged[x]] = data[j]
      PROVE  CopyOK(t)'
  <2>1. job'[t].op = "clone" /\ job'[t].at \in {"check", "move"} /\ job'[t].to = job[t].to /\ job'[t].from = k
    BY <1>1, <1>2, <1>4, GoFacts DEF Ats, SameBut
  <2>2. data'[j] = data[j]
    <3>1. InUse(j)'
      BY <1>1, <1>4 DEF InUse
    <3> QED BY <1>4, <3>1 DEF Store
  <2>3. ASSUME staged[x] # None PROVE data'[staged[x]] = data[staged[x]]
    <3>1. PICK i \in Inodes : i = staged[x]
      BY <2>3 DEF Typed, MayBe
    <3>2. InUse(i)'
      BY <1>4, <3>1 DEF InUse
    <3> QED BY <1>4, <3>1, <3>2 DEF Store
  <2> QED BY <1>1, <1>3, <1>4, <2>1, <2>2, <2>3 DEF CopyOK, NothingCopied, ReadSoFar, CopiedSoFar, CopiedWhole, At
<1>5. CASE CloneCopied(t)
  <2>1. At(t, "clone", "block") /\ UNCHANGED staged /\ Store(data) /\ Go(t, "check") /\ job[t].pos >= Len(data[reads[t]])
    BY <1>5 DEF CloneCopied
  <2>2. PICK r \in Inodes, w \in Inodes : r = reads[t] /\ w = writes[t] /\ r # None /\ w # None
    BY <2>1, OpenWhereDue, FolderAssumption DEF At, WritesAt, ReadsAt
  <2>3. PICK src \in Seq(Blocks), dst \in Seq(Blocks) : src = data[r] /\ dst = data[w]
    BY DEF Typed
  <2>4. Len(dst) = Len(src) /\ staged[x] \in {None, w} /\ \A m \in 1..Len(src) : dst[m] = src[m]
    <3>1. job[t].pos \in Nat
      BY DEF Typed, JobRecord
    <3> QED BY <1>3, <2>1, <2>2, <2>3, <3>1 DEF CopyOK, CopiedSoFar
  <2>5. dst = src
    BY <2>4, SeqEqual
  <2>6. dir[k] = r
    BY <1>2, <2>2 DEF FilesOK, ReadOK
  <2> QED BY <1>4, <2>1, <2>2, <2>3, <2>4, <2>5, <2>6
<1>6. CASE CloneCheckAgain(t)
  <2>1. CASE Go(t, "release")
    BY <2>1, GoFacts, PlainOwnStep DEF Ats
  <2>2. CASE Go(t, "move") /\ UNCHANGED staged
    <3>1. job[t].at = "check" /\ Store(data)
      BY <1>6 DEF CloneCheckAgain, At
    <3>2. PICK j : j = dir[k]
      OBVIOUS
    <3>3. j # None /\ (staged[x] # None => data[staged[x]] = data[j])
      BY <1>1, <1>2, <1>3, <3>1, <3>2 DEF CopyOK, CopiedWhole
    <3>4. j \in Inodes
      BY <3>2, <3>3 DEF Typed, MayBe
    <3> QED BY <1>4, <2>2, <3>1, <3>2, <3>3, <3>4
  <2> QED BY <1>6, <2>1, <2>2 DEF CloneCheckAgain
<1> QED BY <1>5, <1>6

LEMMA OwnStep ==
    ASSUME Typed, Control, Leases, FilesOK, RoomForAFile, NEW t \in Tasks, CopyOK(t), Operation(t)
    PROVE  CopyOK(t)'
<1>1. SameBut(t) \/ job'[t] = Idle
  BY JobsOn
<1>2. CASE job'[t].op \notin {"download", "clone"} \/ job'[t].at \in {"release", "idle"}
  BY <1>2, PlainOwnStep
<1>3. CASE job'[t].op \in {"download", "clone"} /\ job'[t].at \notin {"release", "idle"}
  <2>1. job[t].op = job'[t].op
    BY <1>1, <1>3 DEF Idle, SameBut
  <2>2. CASE Locks(t)
    <3>1. PICK at \in {"lock2", "act", "release"} : Go(t, at) /\ (at = NextPlace(job[t]) \/ at = "release")
      BY <2>2, LocksDo DEF NextPlace
    <3>2. job'[t].at = at /\ job'[t].pos = job[t].pos /\ job'[t].got = job[t].got
      BY <3>1, GoFacts DEF Ats
    <3>3. job[t].at \in {"lock", "lock2"} /\ InPlace(job[t])
      BY <2>2, LocksDo, InKeys
    <3>4. job[t].op = "download" => job[t].at = "lock" /\ at = "act"
      BY <1>3, <3>1, <3>2, <3>3 DEF InPlace, NextPlace, TakesTwo
    <3> QED BY <1>3, <2>1, <3>1, <3>2, <3>3, <3>4, PlainOwnStep
  <2>3. CASE CloneCheck(t) \/ CloneClear(t)
    <3>1. PICK at \in {"release", "clear", "begin"} : Go(t, at)
      BY <2>3 DEF CloneCheck, CloneClear
    <3>2. job[t].at \in {"act", "clear"} /\ job[t].op = "clone"
      BY <2>3 DEF CloneCheck, CloneClear, At
    <3> QED BY <1>3, <2>1, <3>1, <3>2, GoFacts, PlainOwnStep DEF Ats
  <2>4. CASE CloneBegin(t)
    <3>1. PICK new : new = [job[t] EXCEPT !.at = "copy", !.may = TRUE]
      OBVIOUS
    <3>2. job' = [job EXCEPT ![t] = new] /\ At(t, "clone", "begin")
      BY <2>4, <3>1 DEF CloneBegin
    <3>3. job'[t] = new /\ new.at = "copy" /\ new.pos = job[t].pos /\ new.got = job[t].got
      BY <3>1, <3>2 DEF Typed, JobRecord
    <3> QED BY <2>1, <3>2, <3>3, PlainOwnStep DEF At
  <2>5. CASE DownloadOpen(t) \/ DownloadBlock(t)
    BY <2>5, DownloadOwnStep
  <2>6. CASE CloneOpen(t)
    BY <2>6, CloneOpenOwnStep
  <2>7. CASE CloneBlock(t)
    BY <2>7, CloneBlockOwnStep
  <2>8. CASE CloneCopied(t) \/ CloneCheckAgain(t)
    BY <2>8, CloneEndOwnStep
  <2>9. CASE DownloadEnd(t) \/ CloneStop(t) \/ CloneMove(t)
    <3>1. Go(t, "release")
      BY <2>9 DEF DownloadEnd, CloneStop, CloneMove
    <3> QED BY <1>3, <3>1, GoFacts DEF Ats
  <2>10. CASE Release(t)
    <3>1. job' = job \/ job' = [job EXCEPT ![t] = Idle]
      BY <2>10 DEF Release
    <3>2. job'[t] = job[t] \/ job'[t] = Idle
      BY <3>1 DEF Typed
    <3> QED BY <1>3, <2>10, <3>2 DEF Release, Idle
  <2>11. CASE \/ CreateOpen(t) \/ CreateExtend(t) \/ ResizeOpen(t) \/ ResizeTruncate(t)
              \/ RenameCheck(t) \/ RenameMove(t) \/ Remove(t)
    BY <1>3, <2>1, <2>11 DEF CreateOpen, CreateExtend, ResizeOpen, ResizeTruncate, RenameCheck, RenameMove, Remove, At
  <2>12. CASE \/ UploadBegin(t) \/ UploadFit(t) \/ UploadOpen(t) \/ UploadClear(t)
              \/ (\E v \in Blocks : UploadBlock(t, v))
              \/ UploadUndo(t) \/ UploadExtend(t) \/ UploadUnlock(t)
              \/ FinishStat(t) \/ FinishCheck(t) \/ FinishMove(t)
    BY <1>3, <2>1, <2>12 DEF UploadBegin, UploadFit, UploadOpen, UploadClear, UploadBlock, UploadUndo, UploadExtend,
       UploadUnlock, FinishStat, FinishCheck, FinishMove, At
  <2> QED BY <2>2, <2>3, <2>4, <2>5, <2>6, <2>7, <2>8, <2>9, <2>10, <2>11, <2>12 DEF Operation
<1> QED BY <1>2, <1>3

LEMMA CopiesStep ==
    ASSUME Typed, Control, Leases, FilesOK, CopiesOK, RoomForAFile, [Next]_vars
    PROVE  CopiesOK'
<1>1. CASE UNCHANGED vars
  <2>1. UNCHANGED <<dir, staged, data, reads, writes, job>>
    BY <1>1 DEF vars, fileVars, handleVars, taskVars
  <2> QED BY <2>1 DEF CopiesOK, CopyOK, NothingCopied, ReadSoFar, CopiedSoFar, CopiedWhole, At
<1>2. ASSUME NEW t \in Tasks, Request(t) PROVE CopiesOK'
  <2>1. PICK j : Fresh(t, j)
    BY <1>2, RequestsAreFresh
  <2>2. UNCHANGED <<dir, staged, data, reads, writes>> /\ job'[t] = j
    BY <2>1 DEF Fresh, fileVars, handleVars, Typed
  <2>3. CopyOK(t)'
    BY <2>1, <2>2 DEF Fresh, CopyOK, NothingCopied, ReadSoFar, CopiedSoFar, CopiedWhole, At
  <2>4. ASSUME NEW u \in Tasks \ {t} PROVE CopyOK(u)'
    <3>1. job'[u] = job[u]
      BY <2>1 DEF Fresh, Typed
    <3>2. CopyOK(u)
      BY DEF CopiesOK
    <3> QED BY <2>2, <3>1, <3>2 DEF CopyOK, NothingCopied, ReadSoFar, CopiedSoFar, CopiedWhole, At
  <2> QED BY <2>3, <2>4 DEF CopiesOK
<1>3. CASE Restart
  <2>1. job' = [t \in Tasks |-> Idle]
    BY <1>3 DEF Restart
  <2>2. \A t \in Tasks : job'[t].op = None /\ job'[t].at = "idle"
    BY <2>1 DEF Idle
  <2> QED BY <2>2 DEF CopiesOK, CopyOK, NothingCopied, ReadSoFar, CopiedSoFar, CopiedWhole, At
<1>4. ASSUME NEW s \in Sessions, Session(s) PROVE CopiesOK'
  BY <1>4, SessionsLeaveCopies, SteadyCopy DEF CopiesOK
<1>5. CASE Sweep
  BY <1>5, SweepLeavesCopies, SteadyCopy DEF CopiesOK
<1>6. ASSUME NEW t \in Tasks, Operation(t) PROVE CopiesOK'
  <2>1. CopyOK(t)'
    BY <1>6, OwnStep DEF CopiesOK
  <2>2. Effects(t)
    BY <1>6, OperationEffects
  <2>3. \A u \in Tasks \ {t} : CopyOK(u)'
    BY <2>2, OthersSteady, SteadyCopy DEF CopiesOK
  <2> QED BY <2>1, <2>3 DEF CopiesOK
<1> QED BY <1>1, <1>2, <1>3, <1>4, <1>5, <1>6 DEF Next

LEMMA CopiesInit == Init => CopiesOK
<1> SUFFICES ASSUME Init PROVE CopiesOK
  OBVIOUS
<1>1. job = [t \in Tasks |-> Idle]
  BY DEF Init
<1>2. \A t \in Tasks : job[t].op = None /\ job[t].at = "idle"
  BY <1>1 DEF Idle
<1> QED BY <1>2 DEF CopiesOK, CopyOK, NothingCopied, ReadSoFar, CopiedSoFar, CopiedWhole, At

(* A download and a clone are of the image as it is (jobs.go:69): what has  *)
(* been read or copied of it so far has not changed since, whatever guests, *)
(* other operations of the page, Sweep and restarts do in between; and what *)
(* a clone puts in place is the whole of its source.                        *)
THEOREM CopiesAreOfOneMoment == Spec /\ [](RoomForAFile /\ KeepsOut) => []CopyIsOfOneMoment
<1>1. Init => FilesInv /\ CopiesOK
  BY KeptInit, FilesInit, CopiesInit DEF FilesInv
<1>2. FilesInv /\ CopiesOK /\ (RoomForAFile /\ KeepsOut) /\ [Next]_vars => (FilesInv /\ CopiesOK)'
  <2>1. FilesInv => Typed /\ Control /\ Leases /\ FilesOK
    BY RegistryFacts DEF FilesInv, KeptInv
  <2> QED BY <2>1, FilesInvStep, CopiesStep
<1>3. CopiesOK => CopyIsOfOneMoment
  BY DEF CopiesOK, CopyOK, ReadSoFar, CopiedSoFar, CopiedWhole, CopyIsOfOneMoment, At
<1> QED BY <1>1, <1>2, <1>3, PTL DEF Spec

-----------------------------------------------------------------------------
(***************************************************************************)
(* What is put in place.  What is staged of an upload is the beginning of  *)
(* what was sent of it, zeros standing for what is yet to be written; and  *)
(* a name that was free stays so until it is taken.                        *)
(***************************************************************************)
Block(b, n) == IF n <= Len(b) THEN b[n] ELSE 0
Same(b, c, n) == \A m \in 1..n : Block(b, m) = Block(c, m)

StagedFor(k) == staged[<<"upload", k>>]
StagedOK(k) == StagedFor(k) # None => Same(data[StagedFor(k)], sent[k], Len(data[StagedFor(k)]))

ChunkOK(t) ==
    LET i == StagedFor(job[t].from) IN
    /\ At(t, "upload", "clear") => job[t].start = 0
    /\ job[t].op = "upload" /\ job[t].at \in {"mutex", "fit", "open", "clear"} => job[t].pos = job[t].start
    /\ At(t, "upload", "open") /\ job[t].start > 0 => i # None /\ Len(data[i]) = job[t].start
    /\ job[t].op = "upload" /\ job[t].at \in {"clear", "block"} => i \in {None, writes[t]}
    /\ At(t, "upload", "block") /\ i # None =>
          /\ job[t].start <= Len(data[i]) /\ Len(data[i]) <= job[t].pos
          /\ Same(data[i], sent[job[t].from], job[t].pos)
    /\ At(t, "upload", "block") => job[t].start <= job[t].pos
    /\ job[t].op = "upload" /\ job[t].at \in {"lock", "act", "move"} /\ i # None => Len(data[i]) = job[t].size

FreeOK == \A i \in Inodes : ~InUse(i) => data[i] = <<>>

UploadsOK == FreeOK /\ (\A k \in Keys : StagedOK(k)) /\ \A t \in Tasks : ChunkOK(t)

(* The name an operation is about to give a file.                           *)
TakesName(t) ==
    /\ At(t, "rename", "move") /\ job[t].from # job[t].to => dir[job[t].to] = None
    /\ At(t, "clone", "move") => dir[job[t].to] = None
    /\ At(t, "upload", "move") /\ ~job[t].may => dir[job[t].from] = None

(* Nobody sends a chunk of an upload that another request finishes, and     *)
(* none begins on a staging file whose mark Sweep has looked at.            *)
FinishesAlone ==
    \A t \in Tasks : job[t].op = "upload" /\ job[t].at \in {"lock", "act", "move"} => uploading[job[t].from] = None
SweepKeepsOff == sweep.at = "remove" /\ sweep.kind = "upload" => work[<<"upload", sweep.key>>] = 0

-----------------------------------------------------------------------------
LEMMA TruncatedBlocks ==
    ASSUME NEW b \in Seq(Blocks), NEW n \in Nat
    PROVE  /\ Truncated(b, n) \in Seq(Blocks) /\ Len(Truncated(b, n)) = n
           /\ \A m \in 1..n : Block(Truncated(b, n), m) = Block(b, m)
           /\ \A m \in Nat : m > n => Block(Truncated(b, n), m) = 0
BY TruncatedType DEF Block

(* A block that was sent, and written or left to be a hole.                 *)
LEMMA SentBlocks ==
    ASSUME NEW b \in Seq(Blocks), NEW p \in Nat, NEW v \in Blocks
    PROVE  LET c == Append(Truncated(b, p), v) IN
           /\ c \in Seq(Blocks) /\ Len(c) = p + 1
           /\ Block(c, p + 1) = v /\ \A m \in 1..p : Block(c, m) = Block(b, m)
<1>1. PICK d \in Seq(Blocks) : d = Truncated(b, p) /\ Len(d) = p /\ \A m \in 1..p : Block(d, m) = Block(b, m)
  BY TruncatedBlocks
<1>2. PICK c : c = Append(d, v)
  OBVIOUS
<1>3. c \in Seq(Blocks) /\ Len(c) = p + 1 /\ c[p + 1] = v /\ \A m \in 1..p : c[m] = d[m]
  BY <1>1, <1>2
<1>4. Block(c, p + 1) = v /\ \A m \in 1..p : Block(c, m) = Block(b, m)
  BY <1>1, <1>3 DEF Block
<1> QED BY <1>1, <1>2, <1>3, <1>4

LEMMA WrittenBlocks ==
    ASSUME NEW b \in Seq(Blocks), NEW p \in Nat, NEW v \in Blocks, Len(b) <= p
    PROVE  LET c == Written(b, p + 1, v) IN
           /\ c \in Seq(Blocks) /\ Len(c) = p + 1
           /\ Block(c, p + 1) = v /\ \A m \in 1..p : Block(c, m) = Block(b, m)
<1>1. PICK c : c = Written(b, p + 1, v)
  OBVIOUS
<1>2. /\ c \in Seq(Blocks) /\ Len(c) = p + 1
      /\ \A i \in 1..p + 1 : c[i] = IF i = p + 1 THEN v ELSE IF i <= Len(b) THEN b[i] ELSE 0
  <2>1. PICK n \in Nat \ {0} : n = p + 1 /\ n > Len(b)
    OBVIOUS
  <2>2. /\ Written(b, n, v) \in Seq(Blocks)
        /\ Len(Written(b, n, v)) = IF n > Len(b) THEN n ELSE Len(b)
        /\ \A i \in 1..Len(Written(b, n, v)) :
              Written(b, n, v)[i] = IF i = n THEN v ELSE IF i <= Len(b) THEN b[i] ELSE 0
    BY WrittenType
  <2>3. c = Written(b, n, v)
    BY <1>1, <2>1
  <2>4. /\ c \in Seq(Blocks) /\ Len(c) = n
        /\ \A i \in 1..n : c[i] = IF i = n THEN v ELSE IF i <= Len(b) THEN b[i] ELSE 0
    BY <2>1, <2>2, <2>3
  <2> QED BY <2>1, <2>4
<1>3. Block(c, p + 1) = v /\ \A m \in 1..p : Block(c, m) = Block(b, m)
  BY <1>2 DEF Block
<1> QED BY <1>1, <1>2, <1>3

(* What is the beginning of what was sent is what was sent, cut there.      *)
LEMMA SameIsTruncated ==
    ASSUME NEW b \in Seq(Blocks), NEW c \in Seq(Blocks), Same(b, c, Len(b))
    PROVE  b = Truncated(c, Len(b))
<1>1. PICK n \in Nat : n = Len(b)
  OBVIOUS
<1>2. PICK d : d = Truncated(c, n)
  OBVIOUS
<1>3. d \in Seq(Blocks) /\ Len(d) = n /\ \A m \in 1..n : d[m] = IF m <= Len(c) THEN c[m] ELSE 0
  BY <1>2, TruncatedType
<1>4. \A m \in 1..n : b[m] = d[m]
  BY <1>1, <1>3 DEF Same, Block
<1>5. b = d
  BY <1>1, <1>3, <1>4, SeqEqual
<1> QED BY <1>1, <1>2, <1>5

LEMMA FinishesAloneKeepsOut == FinishesAlone => KeepsOut
BY DEF FinishesAlone, KeepsOut, At

-----------------------------------------------------------------------------
(* A file nobody has a name for or open has nothing in it.                  *)
LEMMA FreeStaysFree ==
    ASSUME Typed, FreeOK,
           \/ \E c : Store(c)
           \/ /\ \A i \in Inodes : InUse(i) => InUse(i)'
              /\ (data' = data \/ \E j \in Inodes : \E b : InUse(j) /\ data' = [data EXCEPT ![j] = b])
    PROVE  FreeOK'
<1>1. CASE \E c : Store(c)
  BY <1>1 DEF Store, FreeOK
<1>2. CASE /\ \A i \in Inodes : InUse(i) => InUse(i)'
           /\ (data' = data \/ \E j \in Inodes : \E b : InUse(j) /\ data' = [data EXCEPT ![j] = b])
  <2>1. ASSUME NEW i \in Inodes, ~InUse(i)' PROVE data'[i] = <<>>
    <3>1. ~InUse(i) /\ data[i] = <<>>
      BY <1>2, <2>1 DEF FreeOK
    <3>2. data'[i] = data[i]
      BY <1>2, <3>1 DEF Typed
    <3> QED BY <3>1, <3>2
  <2> QED BY <2>1 DEF FreeOK
<1> QED BY <1>1, <1>2

LEMMA SameNamesSameUse ==
    ASSUME UNCHANGED <<dir, staged, file, reads, writes>>
    PROVE  \A i \in Inodes : InUse(i) => InUse(i)'
BY DEF InUse

LEMMA OperationKeepsFree ==
    ASSUME Typed, Control, Leases, FreeOK, NEW t \in Tasks, Operation(t)
    PROVE  FreeOK'
<1>1. CASE \E c : Store(c)
  BY <1>1, FreeStaysFree
<1>2. CASE \/ (CreateOpen(t) /\ dir[job[t].from] = None) \/ CreateExtend(t) \/ ResizeTruncate(t) \/ RenameMove(t)
           \/ Remove(t) \/ DownloadEnd(t) \/ CloneClear(t) \/ CloneOpen(t) \/ CloneCopied(t) \/ CloneStop(t)
           \/ CloneCheckAgain(t) \/ CloneMove(t) \/ UploadOpen(t) \/ UploadUnlock(t) \/ FinishMove(t)
  <2>1. \E c : Store(c)
    <3>1. CASE CreateOpen(t) /\ dir[job[t].from] = None
      BY <3>1 DEF CreateOpen
    <3>2. CASE CreateExtend(t) \/ ResizeTruncate(t)
      BY <3>2 DEF CreateExtend, ResizeTruncate
    <3>3. CASE RenameMove(t) \/ Remove(t) \/ DownloadEnd(t)
      BY <3>3 DEF RenameMove, Remove, DownloadEnd
    <3>4. CASE CloneClear(t) \/ CloneCopied(t) \/ CloneStop(t) \/ CloneCheckAgain(t) \/ CloneMove(t)
      BY <3>4 DEF CloneClear, CloneCopied, CloneStop, CloneCheckAgain, CloneMove
    <3>5. CASE CloneOpen(t)
      BY <3>5 DEF CloneOpen
    <3>6. CASE UploadOpen(t) \/ UploadUnlock(t) \/ FinishMove(t)
      BY <3>6 DEF UploadOpen, UploadUnlock, FinishMove
    <3> QED BY <1>2, <3>1, <3>2, <3>3, <3>4, <3>5, <3>6
  <2> QED BY <2>1, <1>1
<1>3. CASE \/ Locks(t) \/ Release(t) \/ UploadBegin(t) \/ CloneBegin(t) \/ DownloadBlock(t)
           \/ RenameCheck(t) \/ CloneCheck(t) \/ UploadFit(t) \/ FinishStat(t) \/ FinishCheck(t)
           \/ (CreateOpen(t) /\ dir[job[t].from] # None)
  <2>1. UNCHANGED <<dir, staged, data, file, reads, writes>>
    <3>1. CASE Locks(t)
      BY <3>1, LocksDo DEF fileVars, handleVars
    <3>2. CASE Release(t) \/ UploadBegin(t) \/ CloneBegin(t)
      BY <3>2 DEF Release, UploadBegin, CloneBegin, fileVars, handleVars
    <3>3. CASE DownloadBlock(t) \/ RenameCheck(t) \/ CloneCheck(t) \/ UploadFit(t) \/ FinishStat(t) \/ FinishCheck(t)
      BY <3>3 DEF DownloadBlock, RenameCheck, CloneCheck, UploadFit, FinishStat, FinishCheck, NoHandles, fileVars, handleVars
    <3>4. CASE CreateOpen(t) /\ dir[job[t].from] # None
      BY <3>4 DEF CreateOpen, fileVars, handleVars
    <3> QED BY <1>3, <3>1, <3>2, <3>3, <3>4
  <2> QED BY <2>1, SameNamesSameUse, FreeStaysFree
<1>4. CASE CloneBlock(t) \/ UploadClear(t) \/ UploadUndo(t) \/ UploadExtend(t) \/ \E v \in Blocks : UploadBlock(t, v)
  <2>1. UNCHANGED <<dir, staged, file, reads, writes>>
    BY <1>4 DEF CloneBlock, UploadClear, UploadUndo, UploadExtend, UploadBlock, NoHandles, handleVars
  <2>2. WritesAt(job[t])
    BY <1>4 DEF CloneBlock, UploadClear, UploadUndo, UploadExtend, UploadBlock, At, WritesAt
  <2>3. writes[t] \in Inodes /\ InUse(writes[t])
    BY <2>2 DEF Control, HandlesOK, Typed, MayBe, InUse
  <2>4. data' = data \/ (\E b : data' = [data EXCEPT ![writes[t]] = b])
    <3>1. CASE CloneBlock(t)
      BY <3>1 DEF CloneBlock
    <3>2. CASE UploadClear(t) \/ UploadUndo(t) \/ UploadExtend(t)
      BY <3>2 DEF UploadClear, UploadUndo, UploadExtend
    <3>3. ASSUME NEW v \in Blocks, UploadBlock(t, v) PROVE data' = data \/ \E b : data' = [data EXCEPT ![writes[t]] = b]
      BY <3>3 DEF UploadBlock
    <3> QED BY <1>4, <3>1, <3>2, <3>3
  <2> QED BY <2>1, <2>3, <2>4, SameNamesSameUse, FreeStaysFree
<1>5. CASE ResizeOpen(t) \/ DownloadOpen(t)
  <2>1. UNCHANGED <<dir, staged, data, file>>
    BY <1>5 DEF ResizeOpen, DownloadOpen, fileVars, handleVars
  <2>2. ~ReadsAt(job[t]) /\ ~WritesAt(job[t]) /\ job[t].at \notin {"landed", "unlock"}
    BY <1>5 DEF ResizeOpen, DownloadOpen, At, ReadsAt, WritesAt
  <2>3. reads[t] = None /\ writes[t] = None
    BY <2>2 DEF Control, HandlesOK
  <2>4. \A u \in Tasks \ {t} : reads'[u] = reads[u] /\ writes'[u] = writes[u]
    BY <1>5 DEF ResizeOpen, DownloadOpen, handleVars, Typed
  <2>5. \A i \in Inodes : InUse(i) => InUse(i)'
    BY <2>1, <2>3, <2>4, FolderAssumption DEF InUse
  <2> QED BY <2>1, <2>5, FreeStaysFree
<1> QED BY <1>2, <1>3, <1>4, <1>5 DEF Operation

(* The steps of an upload itself.  A step that writes nothing of it leaves  *)
(* what is staged as it is.                                                 *)
LEMMA StagedType ==
    ASSUME Typed, NEW k \in Keys
    PROVE  /\ <<"upload", k>> \in Kinds \X Keys /\ StagedFor(k) \in MayBe(Inodes)
           /\ StagedFor(k) # None => data[StagedFor(k)] \in Seq(Blocks)
           /\ sent[k] \in Seq(Blocks)
<1>1. <<"upload", k>> \in Kinds \X Keys
  BY DEF Kinds
<1> QED BY <1>1 DEF Typed, StagedFor, MayBe

LEMMA StagedStays ==
    ASSUME Typed, NEW k \in Keys, StagedOK(k), StagedFor(k)' \in {None, StagedFor(k)}, sent'[k] = sent[k],
           StagedFor(k)' # None => data'[StagedFor(k)] = data[StagedFor(k)]
    PROVE  StagedOK(k)'
BY DEF StagedOK, Same

(* Contents that are stored as they are stay where a file has a name.       *)
LEMMA StoredStaged ==
    ASSUME Typed, NEW k \in Keys, Store(data), StagedFor(k)' # None, StagedFor(k)' = StagedFor(k)
    PROVE  data'[StagedFor(k)] = data[StagedFor(k)]
<1>1. <<"upload", k>> \in Kinds \X Keys /\ StagedFor(k) \in Inodes
  BY StagedType DEF MayBe
<1>2. InUse(StagedFor(k))'
  BY <1>1 DEF InUse, StagedFor
<1> QED BY <1>1, <1>2 DEF Store

(* The fields of a job that goes on.                                        *)
LEMMA UploadGoes ==
    ASSUME Typed, NEW t \in Tasks, NEW at \in Ats, Go(t, at), job[t].op = "upload"
    PROVE  /\ job'[t].op = "upload" /\ job'[t].at = at /\ job'[t].from = job[t].from /\ job'[t].pos = job[t].pos
           /\ job'[t].start = job[t].start /\ job'[t].size = job[t].size /\ job'[t].end = job[t].end
BY GoFacts DEF SameBut

LEMMA UploadLooks ==
    ASSUME Typed, Control, NEW t \in Tasks, NEW k \in Keys, job[t].op = "upload", job[t].from = k, job[t].at # "idle",
           StagedOK(k), ChunkOK(t),
           UploadBegin(t) \/ UploadFit(t) \/ FinishStat(t) \/ FinishCheck(t)
    PROVE  StagedOK(k)' /\ ChunkOK(t)'
<1>1. UNCHANGED <<staged, data, sent, writes>>
  BY DEF UploadBegin, UploadFit, FinishStat, FinishCheck, NoHandles, fileVars, handleVars
<1>2. StagedFor(k)' = StagedFor(k) /\ StagedOK(k)'
  BY <1>1, StagedStays DEF StagedFor
<1>3. /\ job[t] \in JobRecord /\ job[t].start \in Nat
  BY InKeys DEF JobRecord
<1>4. CASE UploadBegin(t)
  <2>1. job[t].at = "mutex" /\ (Go(t, "release") \/ Go(t, "fit"))
    BY <1>4 DEF UploadBegin, At
  <2>2. /\ job'[t].op = "upload" /\ job'[t].at \in {"release", "fit"} /\ job'[t].from = k /\ job'[t].pos = job[t].pos
        /\ job'[t].start = job[t].start
    BY <2>1, UploadGoes DEF Ats
  <2> QED BY <1>1, <1>2, <2>1, <2>2 DEF ChunkOK, At
<1>5. CASE UploadFit(t)
  <2>1. PICK at \in {"open", "unlock", "landed"} :
          /\ job[t].at = "fit" /\ Go(t, at)
          /\ at = "open" => job[t].start = 0 \/ (StagedFor(k) # None /\ Len(data[StagedFor(k)]) = job[t].start)
    BY <1>5 DEF UploadFit, At, StagedFor, Staging
  <2>2. /\ job'[t].op = "upload" /\ job'[t].at = at /\ job'[t].from = k /\ job'[t].pos = job[t].pos
        /\ job'[t].start = job[t].start
    BY <2>1, UploadGoes DEF Ats
  <2> QED BY <1>1, <1>2, <1>3, <2>1, <2>2 DEF ChunkOK, At
<1>6. CASE FinishStat(t)
  <2>1. PICK at \in {"lock", "release"} :
          /\ job[t].at = "whole" /\ Go(t, at)
          /\ at = "lock" => Len(data[StagedFor(k)]) = job[t].size
    BY <1>6 DEF FinishStat, At, StagedFor, Staging
  <2>2. /\ job'[t].op = "upload" /\ job'[t].at = at /\ job'[t].from = k /\ job'[t].size = job[t].size
    BY <2>1, UploadGoes DEF Ats
  <2> QED BY <1>1, <1>2, <2>1, <2>2 DEF ChunkOK, At
<1>7. CASE FinishCheck(t)
  <2>1. PICK at \in {"move", "release"} : job[t].at = "act" /\ Go(t, at)
    BY <1>7 DEF FinishCheck, At
  <2>2. /\ job'[t].op = "upload" /\ job'[t].at = at /\ job'[t].from = k /\ job'[t].size = job[t].size
    BY <2>1, UploadGoes DEF Ats
  <2> QED BY <1>1, <1>2, <2>1, <2>2 DEF ChunkOK, At
<1> QED BY <1>2, <1>4, <1>5, <1>6, <1>7

LEMMA ChunkBegins ==
    ASSUME NEW t \in Tasks, NEW k \in Keys, job'[t].op = "upload", job'[t].from = k,
           StagedFor(k)' = writes'[t],
           \/ job'[t].at = "clear" /\ job'[t].start = 0 /\ job'[t].pos = job'[t].start
           \/ /\ job'[t].at = "block" /\ job'[t].start <= job'[t].pos
              /\ job'[t].start <= Len(data'[StagedFor(k)']) /\ Len(data'[StagedFor(k)']) <= job'[t].pos
              /\ Same(data'[StagedFor(k)'], sent'[k], job'[t].pos)
    PROVE  ChunkOK(t)'
BY DEF ChunkOK, At

LEMMA UploadOpens ==
    ASSUME Typed, Control, RoomForAFile, FreeOK, NEW t \in Tasks, NEW k \in Keys, job[t].from = k,
           StagedOK(k), ChunkOK(t), UploadOpen(t)
    PROVE  StagedOK(k)' /\ ChunkOK(t)'
<1>1. PICK i : i = IF StagedFor(k) = None THEN NewInode ELSE StagedFor(k)
  OBVIOUS
<1>2. PICK at \in {"clear", "block"} :
        /\ job[t].op = "upload" /\ job[t].at = "open" /\ Go(t, at)
        /\ at = IF job[t].start = 0 THEN "clear" ELSE "block"
        /\ staged' = [staged EXCEPT ![<<"upload", k>>] = i] /\ writes' = [writes EXCEPT ![t] = i]
        /\ sent' = sent /\ Store(data)
  BY <1>1 DEF UploadOpen, At, StagedFor, Staging
<1>3. /\ job'[t].op = "upload" /\ job'[t].at = at /\ job'[t].from = k /\ job'[t].pos = job[t].pos
      /\ job'[t].start = job[t].start
  BY <1>2, UploadGoes DEF Ats
<1>4. i \in Inodes /\ (StagedFor(k) = None => data[i] = <<>>)
  BY <1>1, NewInodeIsFree, StagedType DEF FreeOK, MayBe
<1>5. StagedFor(k)' = i /\ writes'[t] = i
  BY <1>2, StagedType DEF StagedFor, Typed
<1>6. InUse(i)'
  BY <1>4, <1>5, StagedType DEF InUse, StagedFor
<1>7. data'[i] = data[i] /\ data[i] \in Seq(Blocks)
  BY <1>2, <1>4, <1>6 DEF Store, Typed
<1>8. i # None
  BY <1>4, FolderAssumption
<1>9. StagedOK(k)'
  <2>1. CASE StagedFor(k) = None
    BY <1>4, <1>5, <1>7, <2>1 DEF StagedOK, Same
  <2>2. CASE StagedFor(k) # None
    BY <1>1, <1>2, <1>5, <1>7, <2>2 DEF StagedOK, Same
  <2> QED BY <2>1, <2>2
<1>10. job[t].start \in Nat /\ job[t].pos = job[t].start
  BY <1>2, InKeys DEF JobRecord, ChunkOK
<1>11. CASE job[t].start = 0
  <2>1. job'[t].at = "clear" /\ job'[t].start = 0 /\ job'[t].pos = job'[t].start
    BY <1>2, <1>3, <1>10, <1>11
  <2> QED BY <1>3, <1>5, <1>9, <2>1, ChunkBegins
<1>12. CASE job[t].start # 0
  <2>1. StagedFor(k) # None /\ Len(data[StagedFor(k)]) = job[t].start
    BY <1>2, <1>10, <1>12 DEF ChunkOK, At
  <2>2. i = StagedFor(k) /\ Len(data'[i]) = job[t].start /\ Same(data[i], sent[k], job[t].start)
    BY <1>1, <1>7, <2>1 DEF StagedOK
  <2>3. Same(data'[i], sent'[k], job'[t].pos)
    BY <1>2, <1>3, <1>7, <1>10, <2>2
  <2>4. job'[t].at = "block" /\ job'[t].op = "upload"
    BY <1>2, <1>3, <1>12
  <2>5. job'[t].start <= Len(data'[i]) /\ Len(data'[i]) <= job'[t].pos /\ job'[t].start <= job'[t].pos
    BY <1>3, <1>10, <2>2
  <2> QED BY <1>3, <1>5, <1>9, <2>3, <2>4, <2>5, ChunkBegins
<1> QED BY <1>9, <1>11, <1>12

(* What a chunk has open, by how far it is.                                 *)
LEMMA UploadHas ==
    ASSUME Typed, Control, NEW t \in Tasks, job[t].op = "upload", job[t].at \in {"clear", "block"}
    PROVE  /\ writes[t] \in Inodes /\ writes[t] # None /\ data[writes[t]] \in Seq(Blocks)
           /\ job[t].pos \in Nat /\ job[t].start \in Nat /\ job[t].end \in Nat
<1>1. writes[t] # None
  BY DEF Control, HandlesOK, WritesAt
<1>2. job[t] \in JobRecord
  BY DEF Typed
<1> QED BY <1>1, <1>2 DEF Typed, MayBe, JobRecord

LEMMA UploadClears ==
    ASSUME Typed, Control, NEW t \in Tasks, NEW k \in Keys, job[t].from = k, StagedOK(k), ChunkOK(t), UploadClear(t)
    PROVE  StagedOK(k)' /\ ChunkOK(t)'
<1>1. /\ job[t].op = "upload" /\ job[t].at = "clear" /\ Go(t, "block")
      /\ data' = [data EXCEPT ![writes[t]] = <<>>] /\ UNCHANGED <<staged, writes, sent>>
  BY DEF UploadClear, At, NoHandles, handleVars
<1>2. /\ job'[t].op = "upload" /\ job'[t].at = "block" /\ job'[t].from = k /\ job'[t].pos = job[t].pos
      /\ job'[t].start = job[t].start
  BY <1>1, UploadGoes DEF Ats
<1>3. data'[writes[t]] = <<>>
  BY <1>1, UploadHas DEF Typed
<1>4. StagedFor(k)' = StagedFor(k) /\ StagedFor(k) \in {None, writes[t]} /\ job[t].pos = 0 /\ job[t].start = 0
  BY <1>1 DEF ChunkOK, At, StagedFor
<1> QED BY <1>1, <1>2, <1>3, <1>4 DEF StagedOK, Same, ChunkOK, At

(* What a step leaves of a chunk that goes on or ends.                      *)
LEMMA ChunkLeaves ==
    ASSUME NEW t \in Tasks, NEW k \in Keys, job'[t].op = "upload", job'[t].from = k,
           StagedFor(k)' \in {None, writes'[t]}, NEW n \in Nat,
           StagedFor(k)' # None => Len(data'[StagedFor(k)']) <= n /\ Same(data'[StagedFor(k)'], sent'[k], n),
           \/ job'[t].at \in {"unlock", "landed"}
           \/ /\ job'[t].at = "block" /\ job'[t].pos = n /\ job'[t].start <= n
              /\ StagedFor(k)' # None => job'[t].start <= Len(data'[StagedFor(k)']),
           StagedFor(k)' # None => Len(data'[StagedFor(k)']) \in Nat
    PROVE  StagedOK(k)' /\ ChunkOK(t)'
<1>1. StagedOK(k)'
  BY DEF StagedOK, Same
<1>2. ChunkOK(t)'
  BY DEF ChunkOK, At
<1> QED BY <1>1, <1>2

LEMMA UploadBlocks ==
    ASSUME Typed, Control, NEW t \in Tasks, NEW k \in Keys, job[t].from = k, StagedOK(k), ChunkOK(t),
           NEW v \in Blocks, UploadBlock(t, v)
    PROVE  StagedOK(k)' /\ ChunkOK(t)'
<1>1. PICK i, p, b, s, c : i = writes[t] /\ p = job[t].pos /\ b = data[i] /\ s = sent[k] /\ c = Append(Truncated(s, p), v)
  OBVIOUS
<1>2. /\ job[t].op = "upload" /\ job[t].at = "block"
      /\ data' = IF v = 0 THEN data ELSE [data EXCEPT ![i] = Written(b, p + 1, v)]
      /\ sent' = [sent EXCEPT ![k] = c]
      /\ job' = [job EXCEPT ![t].pos = p + 1] /\ UNCHANGED <<staged, writes>>
  BY <1>1 DEF UploadBlock, At, handleVars
<1>3. i \in Inodes /\ i # None /\ b \in Seq(Blocks) /\ p \in Nat /\ job[t].start \in Nat /\ s \in Seq(Blocks)
      /\ data \in [Inodes -> Seq(Blocks)] /\ sent \in [Keys -> Seq(Blocks)]
  BY <1>1, <1>2, UploadHas DEF Typed
<1>4. /\ job'[t].op = "upload" /\ job'[t].at = "block" /\ job'[t].from = k /\ job'[t].start = job[t].start
      /\ job'[t].pos = p + 1
  <2>1. job \in [Tasks -> JobRecord] /\ job[t] \in JobRecord
    BY DEF Typed
  <2>2. PICK new : new = [job[t] EXCEPT !.pos = p + 1]
    OBVIOUS
  <2>3. new.op = job[t].op /\ new.at = job[t].at /\ new.from = k /\ new.start = job[t].start /\ new.pos = p + 1
    BY <2>1, <2>2 DEF JobRecord
  <2>4. job'[t] = new
    BY <1>2, <2>1, <2>2
  <2> QED BY <1>2, <2>3, <2>4
<1>5. c \in Seq(Blocks) /\ Block(c, p + 1) = v /\ (\A m \in 1..p : Block(c, m) = Block(s, m)) /\ sent'[k] = c
  <2>1. LET e == Append(Truncated(s, p), v) IN
        e \in Seq(Blocks) /\ Block(e, p + 1) = v /\ \A m \in 1..p : Block(e, m) = Block(s, m)
    BY <1>3, SentBlocks
  <2>2. sent'[k] = c
    BY <1>2, <1>3
  <2> QED BY <1>1, <2>1, <2>2
<1>6. StagedFor(k)' = StagedFor(k) /\ StagedFor(k) \in {None, i} /\ job[t].start <= p
  BY <1>1, <1>2 DEF ChunkOK, At, StagedFor
<1>7. ASSUME StagedFor(k) # None
      PROVE  /\ Len(data'[i]) \in Nat /\ Len(data'[i]) <= p + 1 /\ job[t].start <= Len(data'[i])
             /\ Same(data'[i], sent'[k], p + 1)
  <2>1. job[t].start <= Len(b) /\ Len(b) <= p /\ Same(b, s, p)
    BY <1>1, <1>2, <1>6, <1>7 DEF ChunkOK, At
  <2>2. PICK d \in Seq(Blocks) : d = data'[i]
    <3>1. v # 0 => Written(b, p + 1, v) \in Seq(Blocks)
      BY <1>3, <2>1, WrittenBlocks
    <3> QED BY <1>1, <1>2, <1>3, <3>1
  <2>3. /\ Len(d) <= p + 1 /\ job[t].start <= Len(d)
        /\ Block(d, p + 1) = v /\ \A m \in 1..p : Block(d, m) = Block(b, m)
    <3>1. CASE v = 0
      <4>1. d = b
        BY <1>1, <1>2, <2>2, <3>1
      <4>2. Block(b, p + 1) = 0
        BY <1>3, <2>1 DEF Block
      <4> QED BY <1>3, <2>1, <3>1, <4>1, <4>2
    <3>2. CASE v # 0
      <4>1. d = Written(b, p + 1, v)
        BY <1>2, <1>3, <2>2, <3>2
      <4>2. Len(d) = p + 1 /\ Block(d, p + 1) = v /\ \A m \in 1..p : Block(d, m) = Block(b, m)
        BY <1>3, <2>1, <4>1, WrittenBlocks
      <4> QED BY <1>3, <1>6, <4>2
    <3> QED BY <3>1, <3>2
  <2>4. \A m \in 1..p + 1 : Block(d, m) = Block(c, m)
    <3>1. ASSUME NEW m \in 1..p + 1 PROVE Block(d, m) = Block(c, m)
      <4>1. CASE m = p + 1
        BY <1>5, <2>3, <4>1
      <4>2. CASE m # p + 1
        <5>1. m \in 1..p
          BY <1>3, <4>2
        <5>2. Block(b, m) = Block(s, m)
          BY <2>1, <5>1 DEF Same
        <5> QED BY <1>5, <2>3, <5>1, <5>2
      <4> QED BY <4>1, <4>2
    <3> QED BY <3>1
  <2> QED BY <1>5, <2>2, <2>3, <2>4 DEF Same
<1>8. job'[t].start <= p + 1 /\ p + 1 \in Nat
  BY <1>3, <1>4, <1>6
<1> QED BY <1>1, <1>2, <1>4, <1>6, <1>7, <1>8, ChunkLeaves

LEMMA UploadEnds ==
    ASSUME Typed, Control, NEW t \in Tasks, NEW k \in Keys, job[t].from = k, StagedOK(k), ChunkOK(t),
           UploadUndo(t) \/ UploadExtend(t)
    PROVE  StagedOK(k)' /\ ChunkOK(t)'
<1>1. PICK i, b, n : i = writes[t] /\ b = data[i] /\ n = IF UploadUndo(t) THEN job[t].start ELSE job[t].end
  OBVIOUS
<1>2. PICK at \in {"unlock", "landed"} :
        /\ job[t].op = "upload" /\ job[t].at = "block" /\ Go(t, at)
        /\ data' = [data EXCEPT ![i] = Truncated(b, n)] /\ UNCHANGED <<staged, writes, sent>>
        /\ n = job[t].start \/ n = job[t].pos
  BY <1>1 DEF UploadUndo, UploadExtend, At, NoHandles, handleVars
<1>3. i \in Inodes /\ i # None /\ b \in Seq(Blocks) /\ n \in Nat /\ data \in [Inodes -> Seq(Blocks)]
      /\ job[t].start \in Nat /\ job[t].pos \in Nat
  BY <1>1, <1>2, UploadHas DEF Typed
<1>4. job'[t].op = "upload" /\ job'[t].at = at /\ job'[t].from = k
  BY <1>2, UploadGoes DEF Ats
<1>5. StagedFor(k)' = StagedFor(k) /\ StagedFor(k) \in {None, i} /\ n <= job[t].pos
  BY <1>1, <1>2, <1>3 DEF ChunkOK, At, StagedFor
<1>6. ASSUME StagedFor(k) # None PROVE Len(data'[i]) = n /\ Same(data'[i], sent'[k], n)
  <2>1. Same(b, sent[k], job[t].pos)
    BY <1>1, <1>2, <1>5, <1>6 DEF ChunkOK, At
  <2>2. data'[i] = Truncated(b, n)
    BY <1>2, <1>3
  <2>3. Len(data'[i]) = n /\ \A m \in 1..n : Block(data'[i], m) = Block(b, m)
    BY <1>3, <2>2, TruncatedBlocks
  <2>4. \A m \in 1..n : m \in 1..job[t].pos
    BY <1>3, <1>5
  <2> QED BY <1>2, <2>1, <2>3, <2>4 DEF Same
<1> QED BY <1>1, <1>2, <1>3, <1>4, <1>5, <1>6, ChunkLeaves

LEMMA UploadMoves ==
    ASSUME Typed, Control, NEW t \in Tasks, NEW k \in Keys, job[t].op = "upload", job[t].from = k, job[t].at # "idle",
           StagedOK(k), ChunkOK(t), Leases,
           UploadUnlock(t) \/ FinishMove(t) \/ Locks(t) \/ Release(t)
    PROVE  StagedOK(k)' /\ ChunkOK(t)'
<1>1. CASE UploadUnlock(t)
  <2>1. PICK at \in {"whole", "release"} : Go(t, at) /\ UNCHANGED <<staged, sent>> /\ Store(data)
    BY <1>1 DEF UploadUnlock
  <2>2. job'[t].op = "upload" /\ job'[t].at = at
    BY <2>1, UploadGoes DEF Ats
  <2>3. StagedFor(k)' = StagedFor(k)
    BY <2>1 DEF StagedFor
  <2>4. StagedOK(k)'
    BY <2>1, <2>3, StagedStays, StoredStaged
  <2> QED BY <2>2, <2>4 DEF ChunkOK, At
<1>2. CASE FinishMove(t)
  <2>1. Go(t, "release") /\ staged' = [staged EXCEPT ![<<"upload", k>>] = None]
    BY <1>2 DEF FinishMove, Staging
  <2>2. job'[t].op = "upload" /\ job'[t].at = "release"
    BY <2>1, UploadGoes DEF Ats
  <2>3. StagedFor(k)' = None
    BY <2>1, StagedType DEF StagedFor, Typed
  <2> QED BY <2>2, <2>3 DEF StagedOK, ChunkOK, At
<1>3. CASE Locks(t)
  <2>1. /\ UNCHANGED <<staged, data, sent>> /\ job[t].at \in {"lock", "lock2"}
        /\ Go(t, NextPlace(job[t])) \/ Go(t, "release")
    BY <1>3, LocksDo DEF fileVars
  <2>2. InPlace(job[t])
    BY InKeys
  <2>3. job[t].at = "lock" /\ NextPlace(job[t]) = "act"
    BY <2>1, <2>2 DEF InPlace, NextPlace, TakesTwo
  <2>4. /\ job'[t].op = "upload" /\ job'[t].at \in {"act", "release"} /\ job'[t].from = k /\ job'[t].size = job[t].size
    BY <2>1, <2>3, UploadGoes DEF Ats
  <2>5. StagedFor(k)' = StagedFor(k) /\ StagedOK(k)'
    BY <2>1, StagedStays DEF StagedFor
  <2> QED BY <2>1, <2>3, <2>4, <2>5 DEF ChunkOK, At
<1>4. CASE Release(t)
  <2>1. UNCHANGED <<staged, data, sent>> /\ job[t].at = "release" /\ (job' = job \/ job' = [job EXCEPT ![t] = Idle])
    BY <1>4 DEF Release, fileVars
  <2>2. job'[t] = job[t] \/ job'[t] = Idle
    BY <2>1 DEF Typed
  <2>3. job'[t].at \in {"release", "idle"}
    BY <2>1, <2>2 DEF Idle
  <2>4. StagedFor(k)' = StagedFor(k) /\ StagedOK(k)'
    BY <2>1, StagedStays DEF StagedFor
  <2> QED BY <2>3, <2>4 DEF ChunkOK, At
<1> QED BY <1>1, <1>2, <1>3, <1>4

(* The steps of others.  An operation that is not an upload of an image     *)
(* leaves what is staged of it, and what was sent, as it is.                *)
LEMMA SentByUploads ==
    ASSUME Typed, NEW t \in Tasks, Operation(t), NEW k \in Keys,
           ~(job[t].op = "upload" /\ job[t].at = "block" /\ job[t].from = k)
    PROVE  sent'[k] = sent[k]
<1>1. CASE \E v \in Blocks : UploadBlock(t, v)
  <2>1. job[t].op = "upload" /\ job[t].at = "block" /\ \E c : sent' = [sent EXCEPT ![job[t].from] = c]
    BY <1>1 DEF UploadBlock, At
  <2> QED BY <2>1 DEF Typed
<1>2. CASE Locks(t) \/ Release(t)
  BY <1>2 DEF Locks, Lock, Release
<1>3. CASE \/ CreateOpen(t) \/ CreateExtend(t) \/ ResizeOpen(t) \/ ResizeTruncate(t)
           \/ RenameCheck(t) \/ RenameMove(t) \/ Remove(t)
           \/ DownloadOpen(t) \/ DownloadBlock(t) \/ DownloadEnd(t)
  BY <1>3 DEF CreateOpen, CreateExtend, ResizeOpen, ResizeTruncate, RenameCheck, RenameMove, Remove,
     DownloadOpen, DownloadBlock, DownloadEnd, NoHandles
<1>4. CASE \/ CloneCheck(t) \/ CloneClear(t) \/ CloneBegin(t) \/ CloneOpen(t) \/ CloneBlock(t)
           \/ CloneCopied(t) \/ CloneStop(t) \/ CloneCheckAgain(t) \/ CloneMove(t)
  BY <1>4 DEF CloneCheck, CloneClear, CloneBegin, CloneOpen, CloneBlock, CloneCopied, CloneStop, CloneCheckAgain,
     CloneMove, NoHandles
<1>5. CASE \/ UploadBegin(t) \/ UploadFit(t) \/ UploadOpen(t) \/ UploadClear(t) \/ UploadUndo(t) \/ UploadExtend(t)
           \/ UploadUnlock(t) \/ FinishStat(t) \/ FinishCheck(t) \/ FinishMove(t)
  BY <1>5 DEF UploadBegin, UploadFit, UploadOpen, UploadClear, UploadUndo, UploadExtend, UploadUnlock, FinishStat,
     FinishCheck, FinishMove, NoHandles
<1> QED BY <1>1, <1>2, <1>3, <1>4, <1>5 DEF Operation

LEMMA OthersLeaveUpload ==
    ASSUME Typed, Control, Leases, FilesOK, NEW t \in Tasks, Operation(t), Effects(t), NEW k \in Keys,
           ~(job[t].op = "upload" /\ job[t].from = k)
    PROVE  /\ StagedFor(k)' = StagedFor(k) /\ sent'[k] = sent[k]
           /\ StagedFor(k) # None => data'[StagedFor(k)] = data[StagedFor(k)]
<1>1. Renames(t) /\ DataKept(t) /\ WriteOK(t) /\ OnlyName
  BY DEF Effects, FilesOK
<1>2. PICK x \in Kinds \X Keys : x = <<"upload", k>>
  BY StagedType
<1>3. job[t].op \in {"clone", "upload"} => x # StagingOf(t)
  BY <1>2 DEF StagingOf, Staging
<1>4. staged'[x] = staged[x]
  BY <1>1, <1>3, NamesStay DEF Owns
<1>5. ASSUME staged[x] # None PROVE data'[staged[x]] = data[staged[x]]
  <2>1. PICK i \in Inodes : i = staged[x]
    BY <1>5 DEF Typed, MayBe
  <2>2. InUse(i) /\ InUse(i)'
    BY <1>4, <2>1 DEF InUse
  <2>3. i # writes[t]
    <3>1. SUFFICES ASSUME writes[t] = i PROVE FALSE
      OBVIOUS
    <3>2. writes[t] # None
      BY <1>5, <2>1, <3>1
    <3>3. CASE job[t].op \in {"create", "resize"}
      <4>1. job[t].at # "idle"
        BY <3>2 DEF Control, HandlesOK, WritesAt
      <4>2. job[t].from \in Keys /\ dir[job[t].from] = i
        BY <1>1, <3>1, <3>2, <3>3, <4>1, InKeys DEF WriteOK
      <4> QED BY <1>1, <1>5, <2>1, <4>2 DEF OnlyName
    <3>4. CASE job[t].op \notin {"create", "resize"}
      <4>1. job[t].op \in {"clone", "upload"}
        BY <3>2, <3>4 DEF Control, HandlesOK, WritesAt
      <4> QED BY <1>1, <1>3, <2>1, <3>1, <3>2, <3>4, <4>1 DEF WriteOK, Private
    <3> QED BY <3>3, <3>4
  <2> QED BY <1>1, <2>1, <2>2, <2>3 DEF DataKept
<1>6. sent'[k] = sent[k]
  BY SentByUploads
<1> QED BY <1>2, <1>4, <1>5, <1>6 DEF StagedFor

(* Another request for the same upload that does not have its mutex leaves  *)
(* it as it is, or puts it in place.                                        *)
LEMMA WaitersLeaveUpload ==
    ASSUME Typed, Control, Leases, NEW t \in Tasks, Operation(t), Effects(t), NEW k \in Keys,
           job[t].op = "upload", job[t].from = k, job[t].at \notin OfAChunk
    PROVE  /\ StagedFor(k)' \in {None, StagedFor(k)} /\ sent'[k] = sent[k]
           /\ StagedFor(k)' # None => data'[StagedFor(k)] = data[StagedFor(k)]
           /\ job[t].at # "move" => StagedFor(k)' = StagedFor(k)
<1>1. Renames(t) /\ DataKept(t)
  BY DEF Effects
<1>2. PICK x \in Kinds \X Keys : x = <<"upload", k>>
  BY StagedType
<1>3. sent'[k] = sent[k]
  BY SentByUploads DEF OfAChunk
<1>4. writes[t] = None
  BY DEF Control, HandlesOK, WritesAt, OfAChunk
<1>5. staged'[x] \in {None, staged[x]}
  <2>1. CASE FinishMove(t)
    BY <1>2, <2>1 DEF FinishMove, Staging, Typed
  <2>2. CASE ~FinishMove(t)
    <3>1. Locks(t) \/ Release(t) \/ UploadBegin(t) \/ FinishStat(t) \/ FinishCheck(t)
      <4>1. ~(CreateOpen(t) \/ CreateExtend(t) \/ ResizeOpen(t) \/ ResizeTruncate(t) \/ RenameCheck(t)
              \/ RenameMove(t) \/ Remove(t) \/ DownloadOpen(t) \/ DownloadBlock(t) \/ DownloadEnd(t))
        BY DEF CreateOpen, CreateExtend, ResizeOpen, ResizeTruncate, RenameCheck, RenameMove, Remove, DownloadOpen,
           DownloadBlock, DownloadEnd, At
      <4>2. ~(CloneCheck(t) \/ CloneClear(t) \/ CloneBegin(t) \/ CloneOpen(t) \/ CloneBlock(t)
              \/ CloneCopied(t) \/ CloneStop(t) \/ CloneCheckAgain(t) \/ CloneMove(t))
        BY DEF CloneCheck, CloneClear, CloneBegin, CloneOpen, CloneBlock, CloneCopied, CloneStop, CloneCheckAgain,
           CloneMove, At
      <4>3. ~(UploadFit(t) \/ UploadOpen(t) \/ UploadClear(t) \/ (\E v \in Blocks : UploadBlock(t, v))
              \/ UploadUndo(t) \/ UploadExtend(t) \/ UploadUnlock(t))
        BY DEF UploadFit, UploadOpen, UploadClear, UploadBlock, UploadUndo, UploadExtend, UploadUnlock, At, OfAChunk
      <4> QED BY <2>2, <4>1, <4>2, <4>3 DEF Operation
    <3>2. staged' = staged
      <4>1. CASE Locks(t)
        BY <4>1, LocksDo DEF fileVars
      <4>2. CASE Release(t) \/ UploadBegin(t) \/ FinishStat(t) \/ FinishCheck(t)
        BY <4>2 DEF Release, UploadBegin, FinishStat, FinishCheck, fileVars
      <4> QED BY <3>1, <4>1, <4>2
    <3> QED BY <3>2
  <2> QED BY <2>1, <2>2
<1>6. ASSUME staged'[x] # None PROVE data'[staged[x]] = data[staged[x]]
  <2>1. PICK i \in Inodes : i = staged[x] /\ i = staged'[x]
    BY <1>5, <1>6 DEF Typed, MayBe
  <2>2. InUse(i) /\ InUse(i)' /\ i # None
    BY <2>1, FolderAssumption DEF InUse
  <2> QED BY <1>1, <1>4, <2>1, <2>2 DEF DataKept
<1>7. job[t].at # "move" => staged'[x] = staged[x]
  BY <1>1, NamesStay DEF Owns, OfAChunk
<1> QED BY <1>2, <1>3, <1>5, <1>6, <1>7 DEF StagedFor

(* A chunk waits where it is while nobody disturbs it.                      *)
LEMMA ChunkWaits ==
    ASSUME Typed, NEW u \in Tasks, NEW k \in Keys, ChunkOK(u), job'[u] = job[u], writes'[u] = writes[u],
           job[u].op = "upload", job[u].from = k,
           StagedFor(k)' \in {None, StagedFor(k)}, sent'[k] = sent[k],
           StagedFor(k)' # None => data'[StagedFor(k)] = data[StagedFor(k)],
           At(u, "upload", "open") => StagedFor(k)' = StagedFor(k)
    PROVE  ChunkOK(u)'
<1>1. CASE StagedFor(k)' = StagedFor(k)
  <2>1. StagedFor(k) # None => data'[StagedFor(k)] = data[StagedFor(k)]
    BY <1>1
  <2> QED BY <1>1, <2>1 DEF ChunkOK, At, Same
<1>2. CASE StagedFor(k)' = None /\ ~At(u, "upload", "open")
  BY <1>2 DEF ChunkOK, At
<1> QED BY <1>1, <1>2

LEMMA NoChunk ==
    ASSUME NEW u \in Tasks, job'[u].op # "upload" \/ job'[u].at \in {"mutex", "idle", "whole", "release"},
           job'[u].op = "upload" /\ job'[u].at = "mutex" => job'[u].pos = job'[u].start
    PROVE  ChunkOK(u)'
BY DEF ChunkOK, At

(* Who waits for the mutex of an upload, and who finishes one.              *)
LEMMA UploadersApart ==
    ASSUME Typed, Control, FinishesAlone, NEW t \in Tasks, NEW u \in Tasks \ {t}, NEW k \in Keys,
           job[t].op = "upload", job[t].from = k, job[u].op = "upload", job[u].from = k
    PROVE  /\ job[u].at \in OfAChunk \union {"lock", "act", "move"} => job[t].at \notin OfAChunk
           /\ job[u].at \in OfAChunk => job[t].at # "move"
<1>1. \A v \in {t, u} : job[v].at \in OfAChunk => uploading[k] = v
  BY DEF Control, MutexOK
<1>2. \A v \in {t, u} : job[v].at \in {"lock", "act", "move"} => uploading[k] = None
  BY DEF FinishesAlone
<1> QED BY <1>1, <1>2, FolderAssumption

LEMMA OthersChunk ==
    ASSUME Typed, Control, Leases, FilesOK, FinishesAlone, NEW t \in Tasks, Operation(t), Effects(t),
           NEW u \in Tasks \ {t}, ChunkOK(u)
    PROVE  ChunkOK(u)'
<1>1. job'[u] = job[u] /\ writes'[u] = writes[u]
  BY DEF Effects, OthersWait
<1>2. CASE job[u].op # "upload" \/ job[u].at \notin OfAChunk \union {"lock", "act", "move"}
  <2>1. job[u].op = "upload" => job[u].at \in {"mutex", "idle", "whole", "release"}
    <3>1. job[u] = Idle \/ InPlace(job[u])
      BY DEF Typed, JobOK
    <3> QED BY <1>2, <3>1 DEF InPlace, Idle, OfAChunk
  <2>2. job[u].op = "upload" /\ job[u].at = "mutex" => job[u].pos = job[u].start
    BY DEF ChunkOK
  <2> QED BY <1>1, <2>1, <2>2, NoChunk
<1>3. CASE job[u].op = "upload" /\ job[u].at \in OfAChunk \union {"lock", "act", "move"}
  <2>1. PICK k \in Keys : k = job[u].from
    BY <1>3, InKeys DEF OfAChunk
  <2>2. CASE ~(job[t].op = "upload" /\ job[t].from = k)
    BY <1>1, <1>3, <2>1, <2>2, OthersLeaveUpload, ChunkWaits
  <2>3. CASE job[t].op = "upload" /\ job[t].from = k
    <3>1. job[t].at \notin OfAChunk /\ (At(u, "upload", "open") => job[t].at # "move")
      BY <1>3, <2>1, <2>3, UploadersApart DEF At, OfAChunk
    <3>2. /\ StagedFor(k)' \in {None, StagedFor(k)} /\ sent'[k] = sent[k]
          /\ StagedFor(k)' # None => data'[StagedFor(k)] = data[StagedFor(k)]
          /\ job[t].at # "move" => StagedFor(k)' = StagedFor(k)
      BY <2>3, <3>1, WaitersLeaveUpload
    <3> QED BY <1>1, <1>3, <2>1, <3>1, <3>2, ChunkWaits
  <2> QED BY <2>2, <2>3
<1> QED BY <1>2, <1>3

(* The step of a task itself, whatever it is at.                            *)
LEMMA UploadItself ==
    ASSUME Typed, Control, Leases, RoomForAFile, FreeOK, NEW t \in Tasks, Operation(t), NEW k \in Keys,
           job[t].op = "upload", job[t].from = k, job[t].at # "idle", StagedOK(k), ChunkOK(t)
    PROVE  StagedOK(k)' /\ ChunkOK(t)'
<1>1. ~(CreateOpen(t) \/ CreateExtend(t) \/ ResizeOpen(t) \/ ResizeTruncate(t) \/ RenameCheck(t)
        \/ RenameMove(t) \/ Remove(t) \/ DownloadOpen(t) \/ DownloadBlock(t) \/ DownloadEnd(t))
  BY DEF CreateOpen, CreateExtend, ResizeOpen, ResizeTruncate, RenameCheck, RenameMove, Remove, DownloadOpen,
     DownloadBlock, DownloadEnd, At
<1>2. ~(CloneCheck(t) \/ CloneClear(t) \/ CloneBegin(t) \/ CloneOpen(t) \/ CloneBlock(t)
        \/ CloneCopied(t) \/ CloneStop(t) \/ CloneCheckAgain(t) \/ CloneMove(t))
  BY DEF CloneCheck, CloneClear, CloneBegin, CloneOpen, CloneBlock, CloneCopied, CloneStop, CloneCheckAgain,
     CloneMove, At
<1>3. \/ UploadBegin(t) \/ UploadFit(t) \/ FinishStat(t) \/ FinishCheck(t)
      \/ UploadOpen(t) \/ UploadClear(t) \/ (\E v \in Blocks : UploadBlock(t, v)) \/ UploadUndo(t) \/ UploadExtend(t)
      \/ UploadUnlock(t) \/ FinishMove(t) \/ Locks(t) \/ Release(t)
  BY <1>1, <1>2 DEF Operation
<1> QED BY <1>3, UploadLooks, UploadOpens, UploadClears, UploadBlocks, UploadEnds, UploadMoves

LEMMA OperationKeepsUploads ==
    ASSUME Typed, Control, Leases, FilesOK, RoomForAFile, FinishesAlone, UploadsOK,
           NEW t \in Tasks, Operation(t), Effects(t)
    PROVE  UploadsOK'
<1>1. FreeOK /\ (\A k \in Keys : StagedOK(k)) /\ \A u \in Tasks : ChunkOK(u)
  BY DEF UploadsOK
<1>2. FreeOK'
  BY <1>1, OperationKeepsFree
<1>3. job[t].at # "idle" /\ job[t].from \in Keys
  BY JobsOn, InKeys
<1>4. ASSUME NEW k \in Keys PROVE StagedOK(k)'
  <2>1. CASE job[t].op = "upload" /\ job[t].from = k
    BY <1>1, <1>3, <2>1, UploadItself
  <2>2. CASE ~(job[t].op = "upload" /\ job[t].from = k)
    <3>1. /\ StagedFor(k)' = StagedFor(k) /\ sent'[k] = sent[k]
          /\ StagedFor(k) # None => data'[StagedFor(k)] = data[StagedFor(k)]
      BY <2>2, OthersLeaveUpload
    <3> QED BY <1>1, <3>1, StagedStays
  <2> QED BY <2>1, <2>2
<1>5. ChunkOK(t)'
  <2>1. CASE job[t].op = "upload"
    BY <1>1, <1>3, <2>1, UploadItself
  <2>2. CASE job[t].op # "upload"
    <3>1. SameBut(t) \/ job'[t] = Idle
      BY DEF Effects
    <3>2. job'[t].op = job[t].op \/ job'[t].at = "idle"
      BY <3>1 DEF SameBut, Idle
    <3> QED BY <2>2, <3>2, NoChunk
  <2> QED BY <2>1, <2>2
<1>6. \A u \in Tasks \ {t} : ChunkOK(u)'
  BY <1>1, OthersChunk
<1> QED BY <1>2, <1>4, <1>5, <1>6 DEF UploadsOK

(* Guests, Sweep, new requests and a restart leave an upload as it is.      *)
LEMMA StagedKept ==
    ASSUME Typed, NEW k \in Keys,
           UNCHANGED data \/ Store(data), StagedFor(k)' # None, StagedFor(k)' = StagedFor(k)
    PROVE  data'[StagedFor(k)] = data[StagedFor(k)]
BY StoredStaged

(* What is needed of a step for uploads to stay as they are.                *)
LEMMA UploadsStay ==
    ASSUME Typed, UploadsOK, FreeOK', UNCHANGED <<sent, writes, job>>,
           \A k \in Keys : /\ StagedFor(k)' \in {None, StagedFor(k)}
                           /\ StagedFor(k)' # None => data'[StagedFor(k)] = data[StagedFor(k)],
           \A u \in Tasks : At(u, "upload", "open") => StagedFor(job[u].from)' = StagedFor(job[u].from)
    PROVE  UploadsOK'
<1>1. (\A k \in Keys : StagedOK(k)) /\ \A u \in Tasks : ChunkOK(u)
  BY DEF UploadsOK
<1>2. \A k \in Keys : StagedOK(k)'
  BY <1>1, StagedStays
<1>3. ASSUME NEW u \in Tasks PROVE ChunkOK(u)'
  <2>1. CASE job[u].op # "upload" \/ job[u].at = "idle"
    BY <2>1, NoChunk
  <2>2. CASE job[u].op = "upload" /\ job[u].at # "idle"
    <3>1. PICK k \in Keys : k = job[u].from
      BY <2>2, InKeys
    <3>2. At(u, "upload", "open") => StagedFor(k)' = StagedFor(k)
      BY <3>1
    <3> QED BY <1>1, <2>2, <3>1, <3>2, ChunkWaits
  <2> QED BY <2>1, <2>2
<1> QED BY <1>2, <1>3 DEF UploadsOK

LEMMA SessionsLeaveUploads ==
    ASSUME Typed, Control, Leases, FilesOK, UploadsOK, NEW s \in Sessions, Session(s)
    PROVE  UploadsOK'
<1>1. UNCHANGED <<dir, staged, job, reads, writes>>
  BY SessionsLeaveTasks
<1>2. OnlyName /\ OpenOK(s)
  BY DEF FilesOK
<1>3. UNCHANGED sent
  BY DEF Session, Ask, Acquire, Disconnect, Open, Write, Shut, Detach, taskVars
<1>4. ASSUME NEW b \in 1..MaxLen, NEW v \in Blocks, Write(s, b, v)
      PROVE  /\ UNCHANGED file /\ file[s] \in Inodes /\ InUse(file[s])
             /\ data' = [data EXCEPT ![file[s]] = Written(data[file[s]], b, v)]
             /\ \A k \in Keys : StagedFor(k) # None => StagedFor(k) # file[s]
  <2>1. UNCHANGED file /\ file[s] # None
    BY <1>4 DEF Write, handleVars
  <2>2. file[s] \in Inodes /\ data' = [data EXCEPT ![file[s]] = Written(data[file[s]], b, v)]
    BY <1>2, <1>4, WritesSameLength
  <2>3. InUse(file[s])
    BY <2>1 DEF InUse
  <2>4. PICK k \in Keys : file[s] = dir[k]
    BY <1>2, <2>1 DEF OpenOK, Leases
  <2>5. ASSUME NEW l \in Keys, StagedFor(l) # None PROVE StagedFor(l) # file[s]
    BY <1>2, <2>1, <2>4, <2>5, StagedType DEF OnlyName, StagedFor
  <2> QED BY <2>1, <2>2, <2>3, <2>5
<1>5. FreeOK'
  <2>1. FreeOK
    BY DEF UploadsOK
  <2>2. CASE Shut(s)
    BY <2>1, <2>2, FreeStaysFree DEF Shut
  <2>3. CASE Ask(s) \/ Acquire(s) \/ Disconnect(s) \/ Detach(s)
    <3>1. UNCHANGED <<dir, staged, data, file, reads, writes>>
      BY <2>3 DEF Ask, Acquire, Disconnect, Detach, fileVars, handleVars
    <3> QED BY <2>1, <3>1, SameNamesSameUse, FreeStaysFree
  <2>4. CASE Open(s)
    <3>1. UNCHANGED data /\ file' = [file EXCEPT ![s] = dir[ask[s].key]]
      BY <2>4 DEF Open, fileVars
    <3>2. \A r \in Sessions : file[r] # None => file'[r] = file[r]
      BY <1>2, <3>1 DEF OpenOK, Typed
    <3>3. \A i \in Inodes : InUse(i) => InUse(i)'
      BY <1>1, <3>2, FolderAssumption DEF InUse
    <3> QED BY <2>1, <3>1, <3>3, FreeStaysFree
  <2>5. ASSUME NEW b \in 1..MaxLen, NEW v \in Blocks, Write(s, b, v) PROVE FreeOK'
    <3>1. \A i \in Inodes : InUse(i) => InUse(i)'
      BY <1>1, <1>4, <2>5, SameNamesSameUse
    <3>2. \E j \in Inodes : \E c : InUse(j) /\ data' = [data EXCEPT ![j] = c]
      BY <1>4, <2>5
    <3> QED BY <2>1, <3>1, <3>2, FreeStaysFree
  <2> QED BY <2>2, <2>3, <2>4, <2>5 DEF Session
<1>6. ASSUME NEW k \in Keys
      PROVE  StagedFor(k)' = StagedFor(k) /\ (StagedFor(k)' # None => data'[StagedFor(k)] = data[StagedFor(k)])
  <2>1. StagedFor(k)' = StagedFor(k)
    BY <1>1 DEF StagedFor
  <2>2. CASE UNCHANGED data \/ Store(data)
    BY <2>1, <2>2, StagedKept
  <2>3. ASSUME NEW b \in 1..MaxLen, NEW v \in Blocks, Write(s, b, v), StagedFor(k) # None
        PROVE  data'[StagedFor(k)] = data[StagedFor(k)]
    <3>1. StagedFor(k) \in Inodes /\ StagedFor(k) # file[s]
      BY <1>4, <2>3, StagedType DEF MayBe
    <3> QED BY <1>4, <2>3, <3>1 DEF Typed
  <2>4. \/ UNCHANGED data \/ Store(data)
        \/ \E b \in 1..MaxLen, v \in Blocks : Write(s, b, v)
    BY DEF Session, Ask, Acquire, Disconnect, Open, Shut, Detach, fileVars
  <2> QED BY <2>1, <2>2, <2>3, <2>4
<1>7. \A u \in Tasks : At(u, "upload", "open") => StagedFor(job[u].from)' = StagedFor(job[u].from)
  BY <1>1 DEF StagedFor
<1> QED BY <1>1, <1>3, <1>5, <1>6, <1>7, UploadsStay

(* Sweep removes nothing of an upload that has begun to open its file.      *)
LEMMA SweepLeavesUploads ==
    ASSUME Typed, WorkOK, SweepKeepsOff, UploadsOK, Sweep PROVE UploadsOK'
<1>1. UNCHANGED <<dir, file, reads, writes, job, sent>>
  BY DEF Sweep, SweepSees, SweepChecks, SweepRemoves, fileVars, handleVars
<1>2. UNCHANGED <<staged, data>> \/ (SweepRemoves /\ Store(data))
  BY DEF Sweep, SweepSees, SweepChecks, SweepRemoves, fileVars
<1>3. FreeOK'
  <2>1. FreeOK
    BY DEF UploadsOK
  <2>2. CASE UNCHANGED <<staged, data>>
    BY <1>1, <2>1, <2>2, SameNamesSameUse, FreeStaysFree
  <2> QED BY <1>2, <2>1, <2>2, FreeStaysFree
<1>4. ASSUME NEW k \in Keys
      PROVE  /\ StagedFor(k)' \in {None, StagedFor(k)}
             /\ StagedFor(k)' # StagedFor(k) => sweep.at = "remove" /\ sweep.kind = "upload" /\ sweep.key = k
  <2>1. <<"upload", k>> \in Kinds \X Keys
    BY StagedType
  <2>2. CASE UNCHANGED staged
    BY <2>2 DEF StagedFor
  <2>3. CASE SweepRemoves
    <3>1. sweep.at = "remove" /\ staged' = [staged EXCEPT ![<<sweep.kind, sweep.key>>] = None]
      BY <2>3 DEF SweepRemoves
    <3> QED BY <2>1, <3>1 DEF StagedFor, Typed
  <2> QED BY <1>2, <2>2, <2>3
<1>5. ASSUME NEW u \in Tasks, At(u, "upload", "open") PROVE StagedFor(job[u].from)' = StagedFor(job[u].from)
  <2>1. PICK k \in Keys : k = job[u].from /\ job[u].op = "upload" /\ job[u].at = "open"
    BY <1>5, InKeys DEF At
  <2>2. PICK x \in Kinds \X Keys : x = <<"upload", k>>
    BY StagedType
  <2>3. u \in Workers(x)
    BY <2>1, <2>2 DEF Workers, Works, Staging
  <2>4. IsFiniteSet(Workers(x))
    BY FolderAssumption, FS_Subset DEF Workers
  <2>5. work[x] # 0
    BY <2>3, <2>4, FS_EmptySet DEF WorkOK
  <2>6. StagedFor(k)' = StagedFor(k)
    BY <1>4, <2>2, <2>5 DEF SweepKeepsOff
  <2> QED BY <1>1, <2>1, <2>6 DEF StagedFor
<1>6. \A k \in Keys : StagedFor(k)' # None => data'[StagedFor(k)] = data[StagedFor(k)]
  BY <1>2, <1>4, StagedKept
<1> QED BY <1>1, <1>3, <1>4, <1>5, <1>6, UploadsStay

LEMMA UploadsStep ==
    ASSUME Typed, Control, Leases, WorkOK, FilesOK, RoomForAFile, FinishesAlone, SweepKeepsOff, UploadsOK, [Next]_vars
    PROVE  UploadsOK'
<1>0. FreeOK /\ (\A k \in Keys : StagedOK(k)) /\ \A u \in Tasks : ChunkOK(u)
  BY DEF UploadsOK
<1>1. CASE UNCHANGED vars
  <2>1. UNCHANGED <<dir, staged, data, file, reads, writes, job, sent>>
    BY <1>1 DEF vars, fileVars, handleVars, taskVars
  <2>2. FreeOK'
    BY <1>0, <2>1, SameNamesSameUse, FreeStaysFree
  <2>3. \A k \in Keys : StagedFor(k)' = StagedFor(k) /\ data'[StagedFor(k)] = data[StagedFor(k)]
    BY <2>1 DEF StagedFor
  <2>4. \A u \in Tasks : StagedFor(job[u].from)' = StagedFor(job[u].from)
    BY <2>1 DEF StagedFor
  <2> QED BY <2>1, <2>2, <2>3, <2>4, UploadsStay
<1>2. ASSUME NEW t \in Tasks, Request(t) PROVE UploadsOK'
  <2>1. PICK j : Fresh(t, j)
    BY <1>2, RequestsAreFresh
  <2>2. UNCHANGED <<dir, staged, data, file, reads, writes, sent>> /\ job'[t] = j
    BY <2>1 DEF Fresh, fileVars, handleVars, Typed
  <2>3. FreeOK'
    BY <1>0, <2>2, SameNamesSameUse, FreeStaysFree
  <2>4. \A k \in Keys : StagedOK(k)'
    BY <1>0, <2>2 DEF StagedOK, StagedFor, Same
  <2>5. ChunkOK(t)'
    BY <2>1, <2>2, NoChunk DEF Fresh
  <2>6. ASSUME NEW u \in Tasks \ {t} PROVE ChunkOK(u)'
    <3>1. job'[u] = job[u]
      BY <2>1 DEF Fresh, Typed
    <3>2. ChunkOK(u)
      BY <1>0
    <3> QED BY <2>2, <3>1, <3>2 DEF ChunkOK, At, Same, StagedFor
  <2> QED BY <2>3, <2>4, <2>5, <2>6 DEF UploadsOK
<1>3. CASE Restart
  <2>1. UNCHANGED <<staged, sent>> /\ job' = [t \in Tasks |-> Idle] /\ Store(data)
    BY <1>3 DEF Restart
  <2>2. FreeOK'
    BY <1>0, <2>1, FreeStaysFree
  <2>3. ASSUME NEW k \in Keys PROVE StagedOK(k)'
    <3>1. StagedFor(k)' = StagedFor(k)
      BY <2>1 DEF StagedFor
    <3> QED BY <1>0, <2>1, <3>1, StagedStays, StoredStaged
  <2>4. \A t \in Tasks : job'[t].op = None /\ job'[t].at = "idle"
    BY <2>1 DEF Idle
  <2>5. \A t \in Tasks : ChunkOK(t)'
    BY <2>4, NoChunk
  <2> QED BY <2>2, <2>3, <2>5 DEF UploadsOK
<1>4. ASSUME NEW t \in Tasks, Operation(t) PROVE UploadsOK'
  BY <1>4, OperationEffects, OperationKeepsUploads
<1> QED BY <1>1, <1>2, <1>3, <1>4, SessionsLeaveUploads, SweepLeavesUploads DEF Next

LEMMA UploadsInit == Init => UploadsOK
<1> SUFFICES ASSUME Init PROVE UploadsOK
  OBVIOUS
<1>1. job = [t \in Tasks |-> Idle] /\ staged = [x \in Kinds \X Keys |-> None]
      /\ data = [i \in Inodes |-> IF \E k \in Keys : dir[k] = i THEN Zeros(MaxLen) ELSE <<>>]
  BY DEF Init
<1>2. FreeOK
  BY <1>1 DEF FreeOK, InUse
<1>3. \A k \in Keys : StagedOK(k)
  BY <1>1 DEF StagedOK, StagedFor, Kinds
<1>4. \A t \in Tasks : job[t].op = None /\ job[t].at = "idle"
  BY <1>1 DEF Idle
<1>5. \A t \in Tasks : ChunkOK(t)
  BY <1>4 DEF ChunkOK, At
<1> QED BY <1>2, <1>3, <1>5 DEF UploadsOK

-----------------------------------------------------------------------------
(* The name an operation is about to give a file was free when it looked,   *)
(* and its lease keeps it free.                                             *)
NamesFree == \A t \in Tasks : TakesName(t)

LEMMA TakesItself ==
    ASSUME Typed, Control, Leases, NEW t \in Tasks, Operation(t)
    PROVE  TakesName(t)'
<1>1. CASE RenameCheck(t)
  <2>1. PICK at \in {"release", "move"} :
          /\ job[t].op = "rename" /\ Go(t, at) /\ dir' = dir
          /\ at = "move" /\ job[t].from # job[t].to => dir[job[t].to] = None
    BY <1>1 DEF RenameCheck, At, fileVars
  <2>2. at \in Ats
    BY DEF Ats
  <2>3. /\ job'[t].op = "rename" /\ job'[t].at = at /\ job'[t].from = job[t].from /\ job'[t].to = job[t].to
    BY <2>1, <2>2, GoFacts DEF SameBut
  <2> QED BY <2>1, <2>3 DEF TakesName, At
<1>2. CASE CloneCheckAgain(t)
  <2>1. PICK at \in {"release", "move"} :
          job[t].op = "clone" /\ Go(t, at) /\ dir' = dir /\ (at = "move" => dir[job[t].to] = None)
    BY <1>2 DEF CloneCheckAgain, At
  <2>2. at \in Ats
    BY DEF Ats
  <2>3. /\ job'[t].op = "clone" /\ job'[t].at = at /\ job'[t].to = job[t].to
    BY <2>1, <2>2, GoFacts DEF SameBut
  <2> QED BY <2>1, <2>3 DEF TakesName, At
<1>3. CASE FinishCheck(t)
  <2>1. PICK at \in {"release", "move"} :
          job[t].op = "upload" /\ Go(t, at) /\ dir' = dir /\ (at = "move" => dir[job[t].from] = None \/ job[t].may)
    BY <1>3 DEF FinishCheck, At, fileVars
  <2>2. at \in Ats
    BY DEF Ats
  <2>3. /\ job'[t].op = "upload" /\ job'[t].at = at /\ job'[t].from = job[t].from /\ job'[t].may = job[t].may
    BY <2>1, <2>2, GoFacts DEF SameBut
  <2> QED BY <2>1, <2>3 DEF TakesName, At
<1>4. CASE ~RenameCheck(t) /\ ~CloneCheckAgain(t) /\ ~FinishCheck(t)
  <2>1. job'[t].at # "move"
    <3>1. CASE Release(t)
      <4>1. job[t].at = "release" /\ (job' = job \/ job' = [job EXCEPT ![t] = Idle])
        BY <3>1 DEF Release
      <4> QED BY <4>1 DEF Typed, Idle
    <3>2. CASE CloneBegin(t)
      <4>1. PICK new : new = [job[t] EXCEPT !.at = "copy", !.may = TRUE]
        OBVIOUS
      <4>2. job[t] \in JobRecord /\ job' = [job EXCEPT ![t] = new] /\ job \in [Tasks -> JobRecord]
        BY <3>2, <4>1 DEF CloneBegin, Typed
      <4>3. new.at = "copy"
        BY <4>1, <4>2 DEF JobRecord
      <4> QED BY <4>2, <4>3
    <3>3. CASE UploadUnlock(t) \/ UploadBegin(t)
      <4>1. PICK at \in {"whole", "release", "fit"} : Go(t, at)
        BY <3>3 DEF UploadUnlock, UploadBegin
      <4>2. at \in Ats
        BY DEF Ats
      <4> QED BY <4>1, <4>2, GoFacts
    <3>4. CASE ~Release(t) /\ ~CloneBegin(t) /\ ~UploadUnlock(t) /\ ~UploadBegin(t)
      <4>1. Onward(t)
        BY <3>4, OperationsOnward
      <4>2. SUFFICES ASSUME job'[t].at = "move" PROVE FALSE
        OBVIOUS
      <4>3. \/ job[t].op = "rename" /\ job[t].at = "act"
            \/ job[t].op = "clone" /\ job[t].at = "check"
            \/ job[t].op = "upload" /\ job[t].at = "act"
        BY <4>1, <4>2 DEF Onward, GoesFrom
      <4>4. ~Locks(t) /\ ~(CreateOpen(t) \/ CreateExtend(t) \/ ResizeOpen(t) \/ ResizeTruncate(t)
              \/ RenameMove(t) \/ Remove(t) \/ DownloadOpen(t) \/ DownloadBlock(t) \/ DownloadEnd(t))
        BY <4>3 DEF Locks, CreateOpen, CreateExtend, ResizeOpen, ResizeTruncate, RenameMove, Remove,
           DownloadOpen, DownloadBlock, DownloadEnd, At
      <4>5. ~(CloneCheck(t) \/ CloneClear(t) \/ CloneOpen(t) \/ CloneBlock(t)
              \/ CloneCopied(t) \/ CloneStop(t) \/ CloneMove(t))
        BY <4>3 DEF CloneCheck, CloneClear, CloneOpen, CloneBlock, CloneCopied, CloneStop, CloneMove, At
      <4>6. ~(UploadFit(t) \/ UploadOpen(t) \/ UploadClear(t) \/ (\E v \in Blocks : UploadBlock(t, v))
              \/ UploadUndo(t) \/ UploadExtend(t) \/ FinishStat(t) \/ FinishMove(t))
        BY <4>3 DEF UploadFit, UploadOpen, UploadClear, UploadBlock, UploadUndo, UploadExtend, FinishStat,
           FinishMove, At
      <4> QED BY <1>4, <3>4, <4>4, <4>5, <4>6 DEF Operation
    <3> QED BY <3>1, <3>2, <3>3, <3>4
  <2> QED BY <2>1 DEF TakesName, At
<1> QED BY <1>1, <1>2, <1>3, <1>4

LEMMA NamesStayFree ==
    ASSUME Typed, Control, Leases, RoomForAFile, NamesFree, [Next]_vars PROVE NamesFree'
<1>1. ASSUME UNCHANGED <<dir, job>> PROVE NamesFree'
  BY <1>1 DEF NamesFree, TakesName, At
<1>2. ASSUME NEW t \in Tasks, Request(t) PROVE NamesFree'
  <2>1. PICK j : Fresh(t, j)
    BY <1>2, RequestsAreFresh
  <2>2. dir' = dir /\ job'[t] = j /\ j.at # "move" /\ \A u \in Tasks \ {t} : job'[u] = job[u]
    BY <2>1 DEF Fresh, fileVars, Typed
  <2> QED BY <2>2 DEF NamesFree, TakesName, At
<1>3. CASE Restart
  <2>1. \A t \in Tasks : job'[t].at = "idle"
    BY <1>3 DEF Restart, Idle
  <2> QED BY <2>1 DEF NamesFree, TakesName, At
<1>4. ASSUME NEW t \in Tasks, Operation(t) PROVE NamesFree'
  <2>1. Effects(t)
    BY <1>4, OperationEffects
  <2>2. ASSUME NEW u \in Tasks \ {t} PROVE TakesName(u)'
    <3>1. job'[u] = job[u] /\ TakesName(u)
      BY <2>1 DEF Effects, OthersWait, NamesFree
    <3>2. ASSUME NEW k \in Keys, Excl(u, k) PROVE dir'[k] = dir[k]
      <4>1. ~Excl(t, k)
        BY <3>2 DEF Leases, Excl, Reg!TaskModes
      <4> QED BY <2>1, <4>1, NamesStay DEF Effects
    <3>3. CASE job[u].at # "move"
      BY <3>1, <3>3 DEF TakesName, At
    <3>4. CASE job[u].at = "move" /\ job[u].op = "rename"
      <4>1. job[u].to # job[u].from => job[u].to \in Keys /\ Excl(u, job[u].to)
        BY <3>4, ExclFacts, InKeys
      <4> QED BY <3>1, <3>2, <3>4, <4>1 DEF TakesName, At
    <3>5. CASE job[u].at = "move" /\ job[u].op = "clone"
      <4>1. job[u].to \in Keys /\ Excl(u, job[u].to)
        BY <3>5, ExclFacts, InKeys
      <4> QED BY <3>1, <3>2, <3>5, <4>1 DEF TakesName, At
    <3>6. CASE job[u].at = "move" /\ job[u].op = "upload"
      <4>1. job[u].from \in Keys /\ Excl(u, job[u].from)
        BY <3>6, ExclFacts, InKeys
      <4> QED BY <3>1, <3>2, <3>6, <4>1 DEF TakesName, At
    <3>7. CASE job[u].at = "move" /\ job[u].op \notin {"rename", "clone", "upload"}
      BY <3>1, <3>7 DEF TakesName, At
    <3> QED BY <3>3, <3>4, <3>5, <3>6, <3>7
  <2> QED BY <1>4, <2>2, TakesItself DEF NamesFree
<1>5. ASSUME NEW s \in Sessions, Session(s) PROVE NamesFree'
  BY <1>1, <1>5, SessionsLeaveTasks
<1>6. CASE Sweep
  BY <1>1, <1>6 DEF Sweep, SweepSees, SweepChecks, SweepRemoves, fileVars
<1>7. CASE UNCHANGED vars
  BY <1>1, <1>7 DEF vars, fileVars, taskVars
<1> QED BY <1>2, <1>3, <1>4, <1>5, <1>6, <1>7 DEF Next

(* No step puts a file over an image, but an upload that says replace.      *)
LEMMA NothingPutOver ==
    ASSUME Typed, Control, Leases, NamesFree, Next,
           NEW k \in Keys, dir[k] # None, dir'[k] \notin {dir[k], None}
    PROVE  \E t \in Tasks : At(t, "upload", "move") /\ job[t].from = k /\ job[t].may
<1>1. \E t \in Tasks : Operation(t)
  <2>1. ASSUME NEW s \in Sessions, Session(s) PROVE FALSE
    BY <2>1, SessionsLeaveTasks
  <2>2. ASSUME NEW t \in Tasks, Request(t) PROVE FALSE
    BY <2>2, RequestsAreFresh DEF Fresh, fileVars
  <2>3. CASE Sweep \/ Restart
    BY <2>3 DEF Sweep, SweepSees, SweepChecks, SweepRemoves, Restart, fileVars
  <2> QED BY <2>1, <2>2, <2>3 DEF Next
<1>2. PICK t \in Tasks : Operation(t)
  BY <1>1
<1>3. dir \in [Keys -> MayBe(Inodes)] /\ TakesName(t)
  BY DEF Typed, NamesFree
<1>4. ~(Locks(t) \/ Release(t))
  <2>1. Locks(t) \/ Release(t) => dir' = dir
    BY LocksDo DEF Release, fileVars
  <2> QED BY <2>1
<1>5. ~(CreateOpen(t) \/ CreateExtend(t) \/ ResizeOpen(t) \/ ResizeTruncate(t) \/ RenameCheck(t) \/ Remove(t))
  BY <1>3 DEF CreateOpen, CreateExtend, ResizeOpen, ResizeTruncate, RenameCheck, Remove, fileVars
<1>6. ~RenameMove(t)
  <2>1. SUFFICES ASSUME RenameMove(t) PROVE FALSE
    OBVIOUS
  <2>2. PICK a, b : a = job[t].from /\ b = job[t].to
    OBVIOUS
  <2>3. /\ job[t].op = "rename" /\ job[t].at = "move" /\ a # b
        /\ dir' = [dir EXCEPT ![b] = dir[a], ![a] = None]
    BY <2>1, <2>2 DEF RenameMove, At
  <2>4. dir[b] = None
    BY <1>3, <2>2, <2>3 DEF TakesName, At
  <2>5. \A l \in Keys : dir'[l] = IF l = a THEN None ELSE IF l = b THEN dir[a] ELSE dir[l]
    BY <1>3, <2>3
  <2> QED BY <2>4, <2>5
<1>7. ~(DownloadOpen(t) \/ DownloadBlock(t) \/ DownloadEnd(t))
  BY DEF DownloadOpen, DownloadBlock, DownloadEnd, fileVars
<1>8. ~(CloneCheck(t) \/ CloneClear(t) \/ CloneBegin(t) \/ CloneOpen(t) \/ CloneBlock(t)
        \/ CloneCopied(t) \/ CloneStop(t) \/ CloneCheckAgain(t))
  BY DEF CloneCheck, CloneClear, CloneBegin, CloneOpen, CloneBlock, CloneCopied, CloneStop, CloneCheckAgain, fileVars
<1>9. ~CloneMove(t)
  BY <1>3 DEF CloneMove, TakesName, At
<1>10. ~(UploadBegin(t) \/ UploadFit(t) \/ UploadOpen(t) \/ UploadClear(t) \/ (\E v \in Blocks : UploadBlock(t, v))
         \/ UploadUndo(t) \/ UploadExtend(t) \/ UploadUnlock(t) \/ FinishStat(t) \/ FinishCheck(t))
  BY DEF UploadBegin, UploadFit, UploadOpen, UploadClear, UploadBlock, UploadUndo, UploadExtend, UploadUnlock,
     FinishStat, FinishCheck, fileVars
<1>11. FinishMove(t)
  BY <1>2, <1>4, <1>5, <1>6, <1>7, <1>8, <1>9, <1>10 DEF Operation
<1>12. /\ job[t].op = "upload" /\ job[t].at = "move"
       /\ dir' = dir \/ \E i : dir' = [dir EXCEPT ![job[t].from] = i]
  BY <1>11 DEF FinishMove, At
<1>13. job[t].from = k
  BY <1>3, <1>12
<1> QED BY <1>3, <1>12, <1>13 DEF TakesName, At

(* What is staged when an upload is put in place is all that was sent.      *)
LEMMA WholeWhenPlaced ==
    ASSUME Typed, UploadsOK, NEW t \in Tasks, At(t, "upload", "move"), staged[Staging(t)] # None
    PROVE  /\ Len(data[staged[Staging(t)]]) = job[t].size
           /\ data[staged[Staging(t)]] = Truncated(sent[job[t].from], job[t].size)
<1>1. PICK k \in Keys : k = job[t].from
  BY InKeys DEF At
<1>2. PICK i : i = StagedFor(k)
  OBVIOUS
<1>3. i = staged[Staging(t)] /\ i # None
  BY <1>1, <1>2 DEF StagedFor, Staging
<1>4. data[i] \in Seq(Blocks) /\ sent[k] \in Seq(Blocks)
  BY <1>2, <1>3, StagedType
<1>5. Len(data[i]) = job[t].size
  BY <1>1, <1>2, <1>3 DEF UploadsOK, ChunkOK, At
<1>6. Same(data[i], sent[k], Len(data[i]))
  BY <1>2, <1>3 DEF UploadsOK, StagedOK
<1>7. data[i] = Truncated(sent[k], Len(data[i]))
  BY <1>4, <1>6, SameIsTruncated
<1> QED BY <1>1, <1>3, <1>5, <1>7

LEMMA StepsPlaceAsAsked ==
    ASSUME Typed, Control, Leases, NamesFree, UploadsOK, Next PROVE PlacedAsAsked
BY NothingPutOver, WholeWhenPlaced DEF PlacedAsAsked

(* An image is put over another one only by an upload that says replace,    *)
(* and what FinishUpload puts in place (upload.go:128) is as long as the    *)
(* upload and holds the blocks that were sent, whatever chunks failed, were *)
(* sent again or started over, and whatever guests, operations of the page  *)
(* and restarts do in between.  The conditions are the two windows the code *)
(* leaves open: FinishUpload does not take the mutex of the upload          *)
(* (upload.go:140), and Sweep removes a staging file whose mark it looked   *)
(* at before.                                                               *)
THEOREM UploadsArePlacedAsAsked ==
    Spec /\ [](RoomForAFile /\ FinishesAlone /\ SweepKeepsOff) => PutInPlaceAsAsked
<1>1. Init => FilesInv /\ UploadsOK /\ NamesFree
  <2>1. Init => NamesFree
    BY DEF Init, NamesFree, TakesName, At, Idle
  <2> QED BY <2>1, KeptInit, FilesInit, UploadsInit DEF FilesInv
<1>2. FilesInv => Typed /\ Control /\ Leases /\ FilesOK /\ WorkOK
  BY RegistryFacts DEF FilesInv, KeptInv
<1>3. FilesInv /\ UploadsOK /\ NamesFree /\ (RoomForAFile /\ FinishesAlone /\ SweepKeepsOff) /\ [Next]_vars
        => (FilesInv /\ UploadsOK /\ NamesFree)'
  BY <1>2, FilesInvStep, UploadsStep, NamesStayFree, FinishesAloneKeepsOut
<1>4. FilesInv /\ UploadsOK /\ NamesFree /\ [Next]_vars => [PlacedAsAsked]_vars
  BY <1>2, StepsPlaceAsAsked
<1> QED BY <1>1, <1>3, <1>4, PTL DEF Spec, PutInPlaceAsAsked

-----------------------------------------------------------------------------
(* When the hypotheses hold.  There is room for a file wherever what files  *)
(* are made of does not run out: names and handles are finitely many.       *)
LEMMA AlwaysRoom ==
    ASSUME Typed, IsFiniteSet(Keys), IsFiniteSet(Sessions), ~IsFiniteSet(Inodes) PROVE RoomForAFile
<1> SUFFICES ASSUME ~RoomForAFile PROVE FALSE
  OBVIOUS
<1>1. IsFiniteSet(Tasks) /\ IsFiniteSet(Kinds)
  <2>1. IsFiniteSet({}) /\ IsFiniteSet({} \union {"upload"})
    BY FS_EmptySet, FS_AddElement
  <2>2. IsFiniteSet(({} \union {"upload"}) \union {"clone"})
    BY <2>1, FS_AddElement
  <2>3. Kinds = ({} \union {"upload"}) \union {"clone"}
    BY DEF Kinds
  <2> QED BY <2>2, <2>3, FolderAssumption
<1>2. IsFiniteSet(Kinds \X Keys)
  BY <1>1, FS_Product
<1>3. PICK d \in [Keys -> MayBe(Inodes)], f \in [Sessions -> MayBe(Inodes)], r \in [Tasks -> MayBe(Inodes)],
           w \in [Tasks -> MayBe(Inodes)], g \in [Kinds \X Keys -> MayBe(Inodes)] :
           d = dir /\ f = file /\ r = reads /\ w = writes /\ g = staged
  BY DEF Typed
<1>4. PICK A : A = {d[k] : k \in Keys}
  OBVIOUS
<1>5. PICK B : B = {f[s] : s \in Sessions}
  OBVIOUS
<1>6. PICK C : C = {r[t] : t \in Tasks}
  OBVIOUS
<1>7. PICK D : D = {w[t] : t \in Tasks}
  OBVIOUS
<1>8. PICK E : E = {g[x] : x \in Kinds \X Keys}
  OBVIOUS
<1>9. IsFiniteSet(A)
  <2>1. d \in Surjection(Keys, A)
    BY <1>4 DEF Surjection
  <2> QED BY <2>1, FS_Surjection
<1>10. IsFiniteSet(B)
  <2>1. f \in Surjection(Sessions, B)
    BY <1>5 DEF Surjection
  <2> QED BY <2>1, FS_Surjection
<1>11. IsFiniteSet(C)
  <2>1. r \in Surjection(Tasks, C)
    BY <1>6 DEF Surjection
  <2> QED BY <1>1, <2>1, FS_Surjection
<1>12. IsFiniteSet(D)
  <2>1. w \in Surjection(Tasks, D)
    BY <1>7 DEF Surjection
  <2> QED BY <1>1, <2>1, FS_Surjection
<1>13. IsFiniteSet(E)
  <2>1. g \in Surjection(Kinds \X Keys, E)
    BY <1>8 DEF Surjection
  <2> QED BY <1>2, <2>1, FS_Surjection
<1>14. IsFiniteSet(A \union B) /\ IsFiniteSet(C \union D)
  BY <1>9, <1>10, <1>11, <1>12, FS_Union
<1>15. IsFiniteSet((A \union B) \union (C \union D))
  BY <1>14, FS_Union
<1>16. IsFiniteSet(((A \union B) \union (C \union D)) \union E)
  BY <1>13, <1>15, FS_Union
<1>17. Inodes \subseteq ((A \union B) \union (C \union D)) \union E
  BY <1>3, <1>4, <1>5, <1>6, <1>7, <1>8 DEF RoomForAFile, InUse
<1> QED BY <1>16, <1>17, FS_Subset

(* Nobody uploads what another request is about to put in place, wherever   *)
(* one task of a workload uploads.                                          *)
OneUploads == \A l \in Loads, t, u \in Tasks : "upload" \in l.may[t] /\ "upload" \in l.may[u] => t = u

Allowed == load \in Loads /\ \A t \in Tasks : job[t].at # "idle" => job[t].op \in load.may[t]

LEMMA AllowedInit == Init => Allowed
<1> SUFFICES ASSUME Init PROVE Allowed
  OBVIOUS
<1>1. load \in Loads /\ job = [t \in Tasks |-> Idle]
  BY DEF Init
<1> QED BY <1>1 DEF Allowed, Idle

LEMMA AllowedStep ==
    ASSUME Typed, Control, Leases, Allowed, [Next]_vars PROVE Allowed'
<1>1. load' = load
  BY DEF Next, vars
<1>2. CASE UNCHANGED job
  BY <1>1, <1>2 DEF Allowed
<1>3. ASSUME NEW t \in Tasks, Request(t) PROVE Allowed'
  <2>1. PICK j : Start(t, j)
    BY <1>3 DEF Request, StartDelete, StartDownload, StartCreate, StartResize, StartRename, StartClone, StartUpload
  <2>2. j.op \in load.may[t] /\ job'[t] = j /\ \A u \in Tasks \ {t} : job'[u] = job[u]
    BY <2>1 DEF Start, Typed
  <2> QED BY <1>1, <2>2 DEF Allowed
<1>4. CASE Restart
  <2>1. job' = [t \in Tasks |-> Idle]
    BY <1>4 DEF Restart
  <2> QED BY <1>1, <2>1 DEF Allowed, Idle
<1>5. ASSUME NEW s \in Sessions, Session(s) PROVE Allowed'
  BY <1>2, <1>5, SessionsLeaveTasks
<1>6. CASE Sweep
  BY <1>2, <1>6 DEF Sweep, SweepSees, SweepChecks, SweepRemoves
<1>7. ASSUME NEW t \in Tasks, Operation(t) PROVE Allowed'
  <2>1. job[t].at # "idle" /\ OthersWait(t) /\ (SameBut(t) \/ job'[t] = Idle)
    BY <1>7, JobsOn
  <2> QED BY <1>1, <2>1 DEF Allowed, OthersWait, SameBut, Idle
<1>8. CASE UNCHANGED vars
  BY <1>2, <1>8 DEF vars, taskVars
<1> QED BY <1>3, <1>4, <1>5, <1>6, <1>7, <1>8 DEF Next

LEMMA AloneFinishes ==
    ASSUME OneUploads, Typed, Control, Allowed PROVE FinishesAlone
<1> SUFFICES ASSUME NEW t \in Tasks, job[t].op = "upload", job[t].at \in {"lock", "act", "move"}
             PROVE  uploading[job[t].from] = None
  BY DEF FinishesAlone
<1>1. PICK k \in Keys : k = job[t].from
  BY InKeys
<1>2. ASSUME NEW u \in Tasks, uploading[k] = u PROVE FALSE
  <2>1. job[u].op = "upload" /\ job[u].at \in OfAChunk
    BY <1>2 DEF Control, MutexOK
  <2>2. u = t
    BY <2>1 DEF OneUploads, Allowed, OfAChunk
  <2> QED BY <2>1, <2>2 DEF OfAChunk
<1>3. uploading[k] \in Tasks \union {None}
  BY DEF Typed, MayBe
<1> QED BY <1>1, <1>2, <1>3

(* All of it together, where files do not run out and one task of each      *)
(* workload uploads: guests, operations of the page, Sweep and restarts in  *)
(* any order leave no image locked, resize no disk under a guest, open no   *)
(* file for writing twice, and copy no image half before and half after a   *)
(* change.                                                                  *)
THEOREM FolderIsSafe ==
    ASSUME IsFiniteSet(Keys), IsFiniteSet(Sessions), ~IsFiniteSet(Inodes), OneUploads
    PROVE  Spec => [](NothingLeftBehind /\ OpenImagesAreSafe /\ CopyIsOfOneMoment)
<1>1. FilesInv => Typed /\ Control /\ Leases /\ FilesOK /\ WorkOK
  BY RegistryFacts DEF FilesInv, KeptInv
<1>2. FilesInv => RoomForAFile
  BY <1>1, AlwaysRoom
<1>3. FilesInv /\ Allowed => KeepsOut
  BY <1>1, AloneFinishes, FinishesAloneKeepsOut
<1>4. Init => FilesInv /\ CopiesOK /\ Allowed
  BY KeptInit, FilesInit, CopiesInit, AllowedInit DEF FilesInv
<1>5. FilesInv /\ CopiesOK /\ Allowed /\ [Next]_vars => (FilesInv /\ CopiesOK /\ Allowed)'
  BY <1>1, <1>2, <1>3, FilesInvStep, CopiesStep, AllowedStep
<1>6. FilesInv /\ CopiesOK => NothingLeftBehind /\ OpenImagesAreSafe /\ CopyIsOfOneMoment
  <2>1. CopiesOK => CopyIsOfOneMoment
    BY DEF CopiesOK, CopyOK, ReadSoFar, CopiedSoFar, CopiedWhole, CopyIsOfOneMoment, At
  <2> QED BY <1>1, <2>1, NothingIsLeft, FilesAreSafe
<1> QED BY <1>4, <1>5, <1>6, PTL DEF Spec

(* Sweep removes no staging file that a chunk is being sent to, wherever a  *)
(* workload either sweeps or uploads.                                       *)
SweepsOrUploads == \A l \in Loads : l.sweeps => \A t \in Tasks : "upload" \notin l.may[t]

SweepsAsDue == sweep.at # "idle" => load.sweeps

LEMMA OperationLeavesSweep ==
    ASSUME NEW t \in Tasks, Operation(t) PROVE sweep' = sweep
<1>1. CASE Locks(t) \/ Release(t)
  BY <1>1 DEF Locks, Lock, Release
<1>2. CASE \/ CreateOpen(t) \/ CreateExtend(t) \/ ResizeOpen(t) \/ ResizeTruncate(t)
           \/ RenameCheck(t) \/ RenameMove(t) \/ Remove(t)
           \/ DownloadOpen(t) \/ DownloadBlock(t) \/ DownloadEnd(t)
  BY <1>2 DEF CreateOpen, CreateExtend, ResizeOpen, ResizeTruncate, RenameCheck, RenameMove, Remove,
     DownloadOpen, DownloadBlock, DownloadEnd, NoHandles
<1>3. CASE \/ CloneCheck(t) \/ CloneClear(t) \/ CloneBegin(t) \/ CloneOpen(t) \/ CloneBlock(t)
           \/ CloneCopied(t) \/ CloneStop(t) \/ CloneCheckAgain(t) \/ CloneMove(t)
  BY <1>3 DEF CloneCheck, CloneClear, CloneBegin, CloneOpen, CloneBlock, CloneCopied, CloneStop, CloneCheckAgain,
     CloneMove, NoHandles
<1>4. CASE \/ UploadBegin(t) \/ UploadFit(t) \/ UploadOpen(t) \/ UploadClear(t)
           \/ (\E v \in Blocks : UploadBlock(t, v)) \/ UploadUndo(t) \/ UploadExtend(t)
           \/ UploadUnlock(t) \/ FinishStat(t) \/ FinishCheck(t) \/ FinishMove(t)
  BY <1>4 DEF UploadBegin, UploadFit, UploadOpen, UploadClear, UploadBlock, UploadUndo, UploadExtend, UploadUnlock,
     FinishStat, FinishCheck, FinishMove, NoHandles
<1> QED BY <1>1, <1>2, <1>3, <1>4 DEF Operation

LEMMA SweepsAsDueStep ==
    ASSUME Typed, SweepsAsDue, [Next]_vars PROVE SweepsAsDue'
<1>1. load' = load
  BY DEF Next, vars
<1>2. sweep' = sweep \/ sweep'.at = "idle" \/ sweep.at # "idle" \/ load.sweeps
  <2>1. CASE Sweep
    BY <2>1 DEF Sweep, SweepSees, SweepChecks, SweepRemoves
  <2>2. CASE Restart
    BY <2>2 DEF Restart, NoSweep
  <2>3. CASE sweep.at = "idle" /\ ~Sweep /\ ~Restart
    <3>1. ASSUME NEW s \in Sessions, Session(s) PROVE sweep' = sweep
      BY <3>1 DEF Session, Ask, Acquire, Disconnect, Open, Write, Shut, Detach, taskVars
    <3>2. ASSUME NEW t \in Tasks, Request(t) PROVE sweep' = sweep
      BY <3>2, RequestsAreFresh DEF Fresh
    <3>3. ASSUME NEW t \in Tasks, Operation(t) PROVE sweep' = sweep
      BY <3>3, OperationLeavesSweep
    <3> QED BY <2>3, <3>1, <3>2, <3>3 DEF Next, vars, taskVars
  <2> QED BY <2>1, <2>2, <2>3
<1> QED BY <1>1, <1>2 DEF SweepsAsDue

LEMMA SweepKeepsAway ==
    ASSUME SweepsOrUploads, Typed, WorkOK, Allowed, SweepsAsDue PROVE SweepKeepsOff
<1> SUFFICES ASSUME sweep.at = "remove", sweep.kind = "upload" PROVE work[<<"upload", sweep.key>>] = 0
  BY DEF SweepKeepsOff
<1>1. PICK x \in Kinds \X Keys : x = <<"upload", sweep.key>>
  BY DEF Typed, Kinds
<1>2. load.sweeps /\ load \in Loads
  BY DEF SweepsAsDue, Allowed
<1>3. ASSUME NEW t \in Tasks, Works(t, x) PROVE FALSE
  <2>1. job[t].op = "upload" /\ job[t].at # "idle"
    BY <1>1, <1>3 DEF Works
  <2> QED BY <1>2, <2>1 DEF Allowed, SweepsOrUploads
<1>4. Workers(x) = {}
  BY <1>3 DEF Workers
<1> QED BY <1>1, <1>4, FS_EmptySet DEF WorkOK

(* Both conditions hold where files do not run out, one task of a workload  *)
(* uploads, and no workload both uploads and sweeps: then every image is    *)
(* put in place as it was asked.                                            *)
THEOREM UploadsArriveWhole ==
    ASSUME IsFiniteSet(Keys), IsFiniteSet(Sessions), ~IsFiniteSet(Inodes), OneUploads, SweepsOrUploads
    PROVE  Spec => PutInPlaceAsAsked
<1>1. FilesInv => Typed /\ Control /\ Leases /\ FilesOK /\ WorkOK
  BY RegistryFacts DEF FilesInv, KeptInv
<1>2. FilesInv /\ Allowed /\ SweepsAsDue => RoomForAFile /\ FinishesAlone /\ SweepKeepsOff
  BY <1>1, AlwaysRoom, AloneFinishes, SweepKeepsAway
<1>3. Init => FilesInv /\ Allowed /\ SweepsAsDue
  <2>1. Init => SweepsAsDue
    BY DEF Init, NoSweep, SweepsAsDue
  <2> QED BY <2>1, KeptInit, FilesInit, AllowedInit DEF FilesInv
<1>4. FilesInv /\ Allowed /\ SweepsAsDue /\ [Next]_vars => (FilesInv /\ Allowed /\ SweepsAsDue)'
  BY <1>1, <1>2, FilesInvStep, AllowedStep, SweepsAsDueStep, FinishesAloneKeepsOut
<1> QED BY <1>2, <1>3, <1>4, UploadsArePlacedAsAsked, PTL DEF Spec
=============================================================================
