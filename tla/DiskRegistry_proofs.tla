-------------------------- MODULE DiskRegistry_proofs --------------------------
(***************************************************************************)
(* Proofs about DiskRegistry, for every set of images, sessions and tasks. *)
(* The inductive invariant IInv says that the entry of an image agrees     *)
(* with the leases that sessions and tasks hold on it, and that an entry   *)
(* never says two things that exclude each other.                          *)
(***************************************************************************)
EXTENDS DiskRegistry, FiniteSetTheorems, TLAPS

(* No entry claims two uses that exclude each other: this is what acquire   *)
(* looks at, and EntriesMatchLeases makes it a fact about the leases.       *)
EntriesExclude ==
    \A k \in Keys :
        /\ entries[k].exclusive =>
              entries[k].writer = None /\ entries[k].readers = {} /\ entries[k].holds = 0
        /\ entries[k].writer # None => entries[k].holds = 0

(* The entry only says that it is held exclusively; one task does.          *)
OneExclusive ==
    \A k \in Keys : \A t, u \in Holding(k, "Exclusive") : t = u

IInv ==
    /\ TypeOK
    /\ EntriesMatchLeases /\ EntriesExclude /\ OneExclusive
    /\ WaitsForItsOwnWriter

-----------------------------------------------------------------------------
(* The holders of a mode are among the tasks, so they can be counted.        *)
LEMMA HoldingFinite ==
    ASSUME NEW k, NEW m
    PROVE  IsFiniteSet(Holding(k, m)) /\ Cardinality(Holding(k, m)) \in Nat
  BY TasksAssumption, FS_Subset, FS_CardinalityType DEF Holding

(* A hold count of zero means that nobody holds.                            *)
LEMMA NoHolders ==
    ASSUME EntriesMatchLeases, NEW k \in Keys, entries[k].holds = 0
    PROVE  Holding(k, "Hold") = {}
  BY HoldingFinite, FS_EmptySet DEF EntriesMatchLeases

-----------------------------------------------------------------------------
(* acquire and release make an entry of an entry.                           *)
LEMMA GrantedType ==
    ASSUME NEW e \in Entry, NEW s, NEW mode \in SessionModes \union TaskModes,
           mode \in SessionModes => s \in Sessions
    PROVE  Granted(e, mode, s) \in Entry
<1>1. CASE mode = "Reader" BY <1>1 DEF Granted, Entry, SessionModes
<1>2. CASE mode = "Writer" BY <1>2 DEF Granted, Entry, SessionModes
<1>3. CASE mode = "Hold" BY <1>3 DEF Granted, Entry
<1>4. CASE mode = "Exclusive" BY <1>4 DEF Granted, Entry
<1> QED BY <1>1, <1>2, <1>3, <1>4 DEF SessionModes, TaskModes

LEMMA ReturnedType ==
    ASSUME NEW e \in Entry, NEW s, NEW mode \in SessionModes \union TaskModes,
           mode = "Hold" => e.holds # 0
    PROVE  Returned(e, mode, s) \in Entry
<1>1. CASE mode = "Reader" BY <1>1 DEF Returned, Entry
<1>2. CASE mode = "Writer" BY <1>2 DEF Returned, Entry
<1>3. CASE mode = "Hold" BY <1>3 DEF Returned, Entry
<1>4. CASE mode = "Exclusive" BY <1>4 DEF Returned, Entry
<1> QED BY <1>1, <1>2, <1>3, <1>4 DEF SessionModes, TaskModes

-----------------------------------------------------------------------------
LEMMA TypeInit == Init => TypeOK
  BY NoneAssumption DEF Init, TypeOK, Empty, Entry, PCs, SessionModes, TaskModes

LEMMA TypeStep == IInv /\ [Next]_regVars => TypeOK'
<1> SUFFICES ASSUME IInv, [Next]_regVars PROVE TypeOK'
  OBVIOUS
<1> USE DEF IInv, TypeOK, Become
<1>1. CASE UNCHANGED regVars
  BY <1>1 DEF regVars
<1>2. ASSUME NEW s \in Sessions, Step(s) PROVE TypeOK'
  <2> ask[s] \in [key : Keys, mode : SessionModes] /\ pc[s] \in PCs
    OBVIOUS
  <2>1. CASE Ask(s) BY <2>1 DEF Ask, PCs
  <2>2. CASE Attach(s) BY <2>2, GrantedType DEF Attach, PCs
  <2>3. CASE Refuse(s) BY <2>3 DEF Refuse, PCs
  <2>4. CASE PickVictim(s) BY <2>4 DEF PickVictim, PCs, Entry
  <2>5. CASE Evict(s) BY <2>5 DEF Evict, WaitsForItsOwnWriter, PCs
  <2>6. CASE Retry(s) BY <2>6 DEF Retry, PCs
  <2>7. CASE GiveUp(s) BY <2>7 DEF GiveUp, PCs
  <2>8. CASE Disconnect(s) BY <2>8 DEF Disconnect, PCs
  <2>9. CASE Detach(s) BY <2>9, ReturnedType DEF Detach, PCs, SessionModes
  <2> QED BY <1>2, <2>1, <2>2, <2>3, <2>4, <2>5, <2>6, <2>7, <2>8, <2>9 DEF Step
<1>3. ASSUME NEW t \in Tasks, TaskStep(t) PROVE TypeOK'
  <2> PICK k \in Keys, mode \in TaskModes : TakeLease(t, k, mode) \/ DropLease(t, k, mode)
    BY <1>3 DEF TaskStep
  <2>1. CASE TakeLease(t, k, mode)
    <3>1. Granted(entries[k], mode, None) \in Entry
      BY GrantedType DEF TaskModes, SessionModes
    <3>2. leases' \in [Tasks -> SUBSET (Keys \X TaskModes)]
      BY <2>1 DEF TakeLease
    <3> QED BY <2>1, <3>1, <3>2 DEF TakeLease
  <2>2. CASE DropLease(t, k, mode)
    <3>1. mode = "Hold" => entries[k].holds # 0
      BY <2>2, NoHolders DEF DropLease, Holding
    <3>2. Returned(entries[k], mode, None) \in Entry
      BY <3>1, ReturnedType
    <3>3. leases' \in [Tasks -> SUBSET (Keys \X TaskModes)]
      BY <2>2 DEF DropLease
    <3> QED BY <2>2, <3>2, <3>3 DEF DropLease
  <2> QED BY <2>1, <2>2
<1>4. CASE Restart BY <1>4, NoneAssumption DEF Restart, Empty, PCs, Entry
<1> QED BY <1>1, <1>2, <1>3, <1>4 DEF Next

-----------------------------------------------------------------------------
(* The part of the invariant that relates entries and leases.               *)
LeaseInv == EntriesMatchLeases /\ EntriesExclude /\ OneExclusive

LEMMA LeaseInit == Init => LeaseInv
<1> SUFFICES ASSUME Init PROVE LeaseInv
  OBVIOUS
<1>1. \A k \in Keys, m \in TaskModes : Holding(k, m) = {}
  BY DEF Init, Holding
<1>2. \A k \in Keys, m \in SessionModes : Attached(k, m) = {}
  BY DEF Init, Attached
<1> QED
  BY <1>1, <1>2, FS_EmptySet
  DEF LeaseInv, EntriesMatchLeases, EntriesExclude, OneExclusive, Init, Empty, TaskModes,
      SessionModes

(* A step that leaves entries and leases as they are and lets nobody attach *)
(* or detach: all that acquire does before it grants, and Disconnect.       *)
Quiet ==
    /\ UNCHANGED <<entries, ask, leases>>
    /\ \A s \in Sessions : pc'[s] = "attached" <=> pc[s] = "attached"

LEMMA QuietKeepsLeases == LeaseInv /\ Quiet => LeaseInv'
<1> SUFFICES ASSUME LeaseInv, Quiet PROVE LeaseInv'
  OBVIOUS
<1>1. \A k \in Keys, m \in TaskModes : Holding(k, m)' = Holding(k, m)
  BY DEF Quiet, Holding
<1>2. \A k \in Keys, m \in SessionModes : Attached(k, m)' = Attached(k, m)
  BY DEF Quiet, Attached
<1> QED
  BY <1>1, <1>2
  DEF Quiet, LeaseInv, EntriesMatchLeases, EntriesExclude, OneExclusive, TaskModes,
      SessionModes

LEMMA AttachKeepsLeases ==
    ASSUME TypeOK, LeaseInv, NEW s \in Sessions, Attach(s)
    PROVE  LeaseInv'
<1> DEFINE k == ask[s].key
           m == ask[s].mode
           g == Granted(entries[k], m, s)
<1> k \in Keys /\ m \in SessionModes /\ entries[k] \in Entry
  BY DEF TypeOK
<1>1. entries' = [entries EXCEPT ![k] = g]
  BY DEF Attach
<1>2. /\ g.writer = IF m = "Writer" THEN s ELSE entries[k].writer
      /\ g.readers = IF m = "Reader" THEN entries[k].readers \union {s} ELSE entries[k].readers
      /\ g.holds = entries[k].holds
      /\ g.exclusive = entries[k].exclusive
  <2>1. CASE m = "Reader" BY <2>1 DEF Granted, Entry
  <2>2. CASE m = "Writer" BY <2>2 DEF Granted, Entry
  <2> QED BY <2>1, <2>2 DEF SessionModes
<1>3. \A l \in Keys, n \in TaskModes : Holding(l, n)' = Holding(l, n)
  BY DEF Attach, Holding
<1>4. \A l \in Keys, n \in SessionModes :
         Attached(l, n)' = IF l = k /\ n = m THEN Attached(l, n) \union {s} ELSE Attached(l, n)
  <2> SUFFICES ASSUME NEW l \in Keys, NEW n \in SessionModes
               PROVE  Attached(l, n)' = IF l = k /\ n = m THEN Attached(l, n) \union {s}
                                        ELSE Attached(l, n)
    OBVIOUS
  <2>1. pc' = [pc EXCEPT ![s] = "attached"] /\ ask' = ask /\ pc[s] = "asking"
    BY DEF Attach, Become
  <2>2. ask[s] = [key |-> k, mode |-> m]
    BY DEF TypeOK
  <2> QED BY <2>1, <2>2 DEF Attached, TypeOK
<1>5. ~entries[k].exclusive
      /\ (m = "Writer" => entries[k].writer = None /\ entries[k].holds = 0)
  BY DEF Attach, SessionRefused, RefusedWriter, Refused, TypeOK, Entry
<1>6. EntriesMatchLeases'
  <2> SUFFICES ASSUME NEW l \in Keys
               PROVE  /\ Attached(l, "Writer")' = {entries'[l].writer} \ {None}
                      /\ Attached(l, "Reader")' = entries'[l].readers
                      /\ Cardinality(Holding(l, "Hold")') = entries'[l].holds
                      /\ entries'[l].exclusive <=> Holding(l, "Exclusive")' # {}
    BY DEF EntriesMatchLeases
  <2>1. CASE l = k
    <3>1. entries'[l] = g
      BY <1>1, <2>1 DEF TypeOK
    <3>2. /\ Attached(l, "Writer") = {entries[l].writer} \ {None}
          /\ Attached(l, "Reader") = entries[l].readers
          /\ Cardinality(Holding(l, "Hold")) = entries[l].holds
          /\ entries[l].exclusive <=> Holding(l, "Exclusive") # {}
      BY DEF LeaseInv, EntriesMatchLeases
    <3>3. Holding(l, "Hold")' = Holding(l, "Hold") /\ Holding(l, "Exclusive")' = Holding(l, "Exclusive")
      BY <1>3 DEF TaskModes
    <3>4. Attached(l, "Writer")' = {entries'[l].writer} \ {None}
      <4>1. CASE m = "Writer"
        BY <4>1, <3>1, <3>2, <2>1, <1>2, <1>4, <1>5, NoneAssumption DEF SessionModes
      <4>2. CASE m # "Writer"
        BY <4>2, <3>1, <3>2, <2>1, <1>2, <1>4 DEF SessionModes
      <4> QED BY <4>1, <4>2
    <3>5. Attached(l, "Reader")' = entries'[l].readers
      BY <3>1, <3>2, <2>1, <1>2, <1>4 DEF SessionModes
    <3>6. Cardinality(Holding(l, "Hold")') = entries'[l].holds
      BY <3>1, <3>2, <3>3, <2>1, <1>2
    <3>7. entries'[l].exclusive <=> Holding(l, "Exclusive")' # {}
      BY <3>1, <3>2, <3>3, <2>1, <1>2
    <3> QED BY <3>4, <3>5, <3>6, <3>7
  <2>2. CASE l # k
    <3>1. entries'[l] = entries[l]
      BY <1>1, <2>2 DEF TypeOK
    <3> QED BY <3>1, <2>2, <1>3, <1>4
            DEF LeaseInv, EntriesMatchLeases, SessionModes, TaskModes
  <2> QED BY <2>1, <2>2
<1>7. EntriesExclude'
  BY <1>1, <1>2, <1>5 DEF LeaseInv, EntriesExclude, TypeOK
<1>8. OneExclusive'
  BY <1>3 DEF LeaseInv, OneExclusive, TaskModes
<1> QED BY <1>6, <1>7, <1>8 DEF LeaseInv

LEMMA DetachKeepsLeases ==
    ASSUME TypeOK, LeaseInv, NEW s \in Sessions, Detach(s)
    PROVE  LeaseInv'
<1> DEFINE k == ask[s].key
           m == ask[s].mode
           g == Returned(entries[k], m, s)
<1> k \in Keys /\ m \in SessionModes /\ entries[k] \in Entry
  BY DEF TypeOK
<1>1. entries' = [entries EXCEPT ![k] = g]
  BY DEF Detach
<1>2. /\ g.writer = IF m = "Writer" /\ entries[k].writer = s THEN None ELSE entries[k].writer
      /\ g.readers = IF m = "Reader" THEN entries[k].readers \ {s} ELSE entries[k].readers
      /\ g.holds = entries[k].holds
      /\ g.exclusive = entries[k].exclusive
  <2>1. CASE m = "Reader" BY <2>1 DEF Returned, Entry
  <2>2. CASE m = "Writer" BY <2>2 DEF Returned, Entry
  <2> QED BY <2>1, <2>2 DEF SessionModes
<1>3. \A l \in Keys, n \in TaskModes : Holding(l, n)' = Holding(l, n)
  BY DEF Detach, Holding
<1>4. \A l \in Keys, n \in SessionModes :
         Attached(l, n)' = IF l = k /\ n = m THEN Attached(l, n) \ {s} ELSE Attached(l, n)
  <2> SUFFICES ASSUME NEW l \in Keys, NEW n \in SessionModes
               PROVE  Attached(l, n)' = IF l = k /\ n = m THEN Attached(l, n) \ {s}
                                        ELSE Attached(l, n)
    OBVIOUS
  <2>1. pc' = [pc EXCEPT ![s] = "released"] /\ ask' = ask /\ pc[s] = "attached"
    BY DEF Detach, Become
  <2>2. ask[s] = [key |-> k, mode |-> m]
    BY DEF TypeOK
  <2> QED BY <2>1, <2>2 DEF Attached, TypeOK
<1>5. s \in Attached(k, m)
  BY DEF Attached, Detach, TypeOK
<1>6. EntriesMatchLeases'
  <2> SUFFICES ASSUME NEW l \in Keys
               PROVE  /\ Attached(l, "Writer")' = {entries'[l].writer} \ {None}
                      /\ Attached(l, "Reader")' = entries'[l].readers
                      /\ Cardinality(Holding(l, "Hold")') = entries'[l].holds
                      /\ entries'[l].exclusive <=> Holding(l, "Exclusive")' # {}
    BY DEF EntriesMatchLeases
  <2>1. CASE l = k
    <3>1. entries'[l] = g
      BY <1>1, <2>1 DEF TypeOK
    <3>2. /\ Attached(l, "Writer") = {entries[l].writer} \ {None}
          /\ Attached(l, "Reader") = entries[l].readers
          /\ Cardinality(Holding(l, "Hold")) = entries[l].holds
          /\ entries[l].exclusive <=> Holding(l, "Exclusive") # {}
      BY DEF LeaseInv, EntriesMatchLeases
    <3>3. Holding(l, "Hold")' = Holding(l, "Hold") /\ Holding(l, "Exclusive")' = Holding(l, "Exclusive")
      BY <1>3 DEF TaskModes
    <3>4. Attached(l, "Writer")' = {entries'[l].writer} \ {None}
      <4>1. CASE m = "Writer"
        BY <4>1, <3>1, <3>2, <2>1, <1>2, <1>4, <1>5, NoneAssumption DEF SessionModes
      <4>2. CASE m # "Writer"
        BY <4>2, <3>1, <3>2, <2>1, <1>2, <1>4 DEF SessionModes
      <4> QED BY <4>1, <4>2
    <3>5. Attached(l, "Reader")' = entries'[l].readers
      BY <3>1, <3>2, <2>1, <1>2, <1>4 DEF SessionModes
    <3>6. Cardinality(Holding(l, "Hold")') = entries'[l].holds
      BY <3>1, <3>2, <3>3, <2>1, <1>2
    <3>7. entries'[l].exclusive <=> Holding(l, "Exclusive")' # {}
      BY <3>1, <3>2, <3>3, <2>1, <1>2
    <3> QED BY <3>4, <3>5, <3>6, <3>7
  <2>2. CASE l # k
    <3>1. entries'[l] = entries[l]
      BY <1>1, <2>2 DEF TypeOK
    <3> QED BY <3>1, <2>2, <1>3, <1>4
            DEF LeaseInv, EntriesMatchLeases, SessionModes, TaskModes
  <2> QED BY <2>1, <2>2
<1>7. EntriesExclude'
  BY <1>1, <1>2 DEF LeaseInv, EntriesExclude, TypeOK
<1>8. OneExclusive'
  BY <1>3 DEF LeaseInv, OneExclusive, TaskModes
<1> QED BY <1>6, <1>7, <1>8 DEF LeaseInv

LEMMA TakeKeepsLeases ==
    ASSUME TypeOK, LeaseInv, NEW t \in Tasks, NEW k \in Keys, NEW m \in TaskModes,
           TakeLease(t, k, m)
    PROVE  LeaseInv'
<1> DEFINE g == Granted(entries[k], m, None)
<1> entries[k] \in Entry
  BY DEF TypeOK
<1>1. entries' = [entries EXCEPT ![k] = g] /\ t \notin Holding(k, m)
  BY DEF TakeLease, Holding
<1>2. /\ g.writer = entries[k].writer
      /\ g.readers = entries[k].readers
      /\ g.holds = IF m = "Hold" THEN entries[k].holds + 1 ELSE entries[k].holds
      /\ g.exclusive = IF m = "Exclusive" THEN TRUE ELSE entries[k].exclusive
  <2>1. CASE m = "Hold" BY <2>1 DEF Granted, Entry
  <2>2. CASE m = "Exclusive" BY <2>2 DEF Granted, Entry
  <2> QED BY <2>1, <2>2 DEF TaskModes
<1>3. \A l \in Keys, n \in TaskModes :
         Holding(l, n)' = IF l = k /\ n = m THEN Holding(l, n) \union {t} ELSE Holding(l, n)
  <2> leases' = [leases EXCEPT ![t] = @ \union {<<k, m>>}]
    BY DEF TakeLease
  <2> QED BY DEF Holding, TypeOK
<1>4. \A l \in Keys, n \in SessionModes : Attached(l, n)' = Attached(l, n)
  BY DEF TakeLease, Attached
<1>5. /\ ~entries[k].exclusive
      /\ entries[k].writer = None
      /\ m = "Exclusive" => entries[k].readers = {} /\ entries[k].holds = 0
  BY DEF TakeLease, Refused, TypeOK, Entry, TaskModes
<1>6. EntriesMatchLeases'
  <2> SUFFICES ASSUME NEW l \in Keys
               PROVE  /\ Attached(l, "Writer")' = {entries'[l].writer} \ {None}
                      /\ Attached(l, "Reader")' = entries'[l].readers
                      /\ Cardinality(Holding(l, "Hold")') = entries'[l].holds
                      /\ entries'[l].exclusive <=> Holding(l, "Exclusive")' # {}
    BY DEF EntriesMatchLeases
  <2>1. CASE l = k
    <3>1. entries'[l] = g
      BY <1>1, <2>1 DEF TypeOK
    <3>2. Cardinality(Holding(k, m) \union {t}) = Cardinality(Holding(k, m)) + 1
      BY <1>1, HoldingFinite, FS_AddElement
    <3> QED BY <3>1, <3>2, <2>1, <1>2, <1>3, <1>4
            DEF LeaseInv, EntriesMatchLeases, SessionModes, TaskModes
  <2>2. CASE l # k
    <3>1. entries'[l] = entries[l]
      BY <1>1, <2>2 DEF TypeOK
    <3> QED BY <3>1, <2>2, <1>3, <1>4
            DEF LeaseInv, EntriesMatchLeases, SessionModes, TaskModes
  <2> QED BY <2>1, <2>2
<1>7. EntriesExclude'
  BY <1>1, <1>2, <1>5 DEF LeaseInv, EntriesExclude, TypeOK
<1>8. OneExclusive'
  <2>1. Holding(k, "Exclusive") = {}
    BY <1>5 DEF LeaseInv, EntriesMatchLeases
  <2> QED BY <2>1, <1>3 DEF LeaseInv, OneExclusive, TaskModes
<1> QED BY <1>6, <1>7, <1>8 DEF LeaseInv

LEMMA DropKeepsLeases ==
    ASSUME TypeOK, LeaseInv, NEW t \in Tasks, NEW k \in Keys, NEW m \in TaskModes,
           DropLease(t, k, m)
    PROVE  LeaseInv'
<1> DEFINE g == Returned(entries[k], m, None)
<1> entries[k] \in Entry
  BY DEF TypeOK
<1>1. entries' = [entries EXCEPT ![k] = g] /\ t \in Holding(k, m)
  BY DEF DropLease, Holding
<1> m = "Hold" => entries[k].holds # 0
  BY <1>1, NoHolders DEF LeaseInv
<1>2. /\ g.writer = entries[k].writer
      /\ g.readers = entries[k].readers
      /\ g.holds = IF m = "Hold" THEN entries[k].holds - 1 ELSE entries[k].holds
      /\ g.exclusive = IF m = "Exclusive" THEN FALSE ELSE entries[k].exclusive
  <2>1. CASE m = "Hold" BY <2>1 DEF Returned, Entry
  <2>2. CASE m = "Exclusive" BY <2>2 DEF Returned, Entry
  <2> QED BY <2>1, <2>2 DEF TaskModes
<1>3. \A l \in Keys, n \in TaskModes :
         Holding(l, n)' = IF l = k /\ n = m THEN Holding(l, n) \ {t} ELSE Holding(l, n)
  <2> leases' = [leases EXCEPT ![t] = @ \ {<<k, m>>}]
    BY DEF DropLease
  <2> QED BY DEF Holding, TypeOK
<1>4. \A l \in Keys, n \in SessionModes : Attached(l, n)' = Attached(l, n)
  BY DEF DropLease, Attached
<1>5. m = "Exclusive" => Holding(k, m) \ {t} = {}
  BY <1>1 DEF LeaseInv, OneExclusive
<1>6. EntriesMatchLeases'
  <2> SUFFICES ASSUME NEW l \in Keys
               PROVE  /\ Attached(l, "Writer")' = {entries'[l].writer} \ {None}
                      /\ Attached(l, "Reader")' = entries'[l].readers
                      /\ Cardinality(Holding(l, "Hold")') = entries'[l].holds
                      /\ entries'[l].exclusive <=> Holding(l, "Exclusive")' # {}
    BY DEF EntriesMatchLeases
  <2>1. CASE l = k
    <3>1. entries'[l] = g
      BY <1>1, <2>1 DEF TypeOK
    <3>2. Cardinality(Holding(k, m) \ {t}) = Cardinality(Holding(k, m)) - 1
      BY <1>1, HoldingFinite, FS_RemoveElement
    <3> QED BY <3>1, <3>2, <2>1, <1>2, <1>3, <1>4, <1>5
            DEF LeaseInv, EntriesMatchLeases, SessionModes, TaskModes
  <2>2. CASE l # k
    <3>1. entries'[l] = entries[l]
      BY <1>1, <2>2 DEF TypeOK
    <3> QED BY <3>1, <2>2, <1>3, <1>4
            DEF LeaseInv, EntriesMatchLeases, SessionModes, TaskModes
  <2> QED BY <2>1, <2>2
<1>7. EntriesExclude'
  BY <1>1, <1>2 DEF LeaseInv, EntriesExclude, TypeOK
<1>8. OneExclusive'
  BY <1>3 DEF LeaseInv, OneExclusive, TaskModes
<1> QED BY <1>6, <1>7, <1>8 DEF LeaseInv

LEMMA RestartKeepsLeases == Restart => LeaseInv'
<1> SUFFICES ASSUME Restart PROVE LeaseInv'
  OBVIOUS
<1>1. \A k \in Keys, m \in TaskModes : Holding(k, m)' = {}
  BY DEF Restart, Holding
<1>2. \A k \in Keys, m \in SessionModes : Attached(k, m)' = {}
  BY DEF Restart, Attached
<1> QED
  BY <1>1, <1>2, FS_EmptySet
  DEF LeaseInv, EntriesMatchLeases, EntriesExclude, OneExclusive, Restart, Empty, TaskModes,
      SessionModes

-----------------------------------------------------------------------------
(* Takeovers: who waits, waits for a session of its own client that is on   *)
(* its way out.  Only a session that detaches changes what a waiter waits   *)
(* for, and then it is released.                                            *)
LEMMA WaitStep == IInv /\ [Next]_regVars => WaitsForItsOwnWriter'
<1> SUFFICES ASSUME IInv, [Next]_regVars PROVE WaitsForItsOwnWriter'
  OBVIOUS
<1> USE DEF IInv, TypeOK, Become, WaitsForItsOwnWriter
<1>1. CASE UNCHANGED regVars
  BY <1>1 DEF regVars
<1>2. ASSUME NEW s \in Sessions, Step(s) PROVE WaitsForItsOwnWriter'
  <2>1. CASE Ask(s) BY <2>1 DEF Ask
  <2>2. CASE Attach(s) BY <2>2 DEF Attach
  <2>3. CASE Refuse(s) BY <2>3 DEF Refuse
  <2>4. CASE PickVictim(s)
    <3> DEFINE w == entries[ask[s].key].writer
    <3>1. /\ w # None /\ Cert[s] # NoCert /\ Cert[w] = Cert[s]
          /\ ask[s].mode = "Writer" /\ ask[s].key \in Keys
          /\ ask[s] = [key |-> ask[s].key, mode |-> "Writer"]
      BY <2>4 DEF PickVictim, SessionRefused, RefusedWriter, TakesOver
    <3>2. w \in Attached(ask[s].key, "Writer")
      BY <3>1 DEF EntriesMatchLeases
    <3>3. w \in Sessions /\ pc[w] = "attached" /\ ask[w] = ask[s]
      BY <3>1, <3>2 DEF Attached
    <3> HIDE DEF w
    <3>4. /\ victim' = [victim EXCEPT ![s] = w] /\ pc' = [pc EXCEPT ![s] = "evicting"]
          /\ pc[s] = "asking" /\ UNCHANGED <<ask, closed>>
      BY <2>4 DEF PickVictim, w
    <3> QED BY <3>1, <3>3, <3>4
  <2>5. CASE Evict(s) BY <2>5 DEF Evict
  <2>6. CASE Retry(s) BY <2>6 DEF Retry
  <2>7. CASE GiveUp(s) BY <2>7 DEF GiveUp
  <2>8. CASE Disconnect(s) BY <2>8 DEF Disconnect
  <2>9. CASE Detach(s) BY <2>9 DEF Detach
  <2> QED BY <1>2, <2>1, <2>2, <2>3, <2>4, <2>5, <2>6, <2>7, <2>8, <2>9 DEF Step
<1>3. ASSUME NEW t \in Tasks, TaskStep(t) PROVE WaitsForItsOwnWriter'
  BY <1>3 DEF TaskStep, TakeLease, DropLease
<1>4. CASE Restart BY <1>4 DEF Restart
<1> QED BY <1>1, <1>2, <1>3, <1>4 DEF Next

-----------------------------------------------------------------------------
(* The invariant is inductive.                                              *)
LEMMA InvInit == Init => IInv
  BY TypeInit, LeaseInit DEF IInv, LeaseInv, Init, WaitsForItsOwnWriter

LEMMA InvStep == IInv /\ [Next]_regVars => IInv'
<1> SUFFICES ASSUME IInv, [Next]_regVars PROVE LeaseInv'
  BY TypeStep, WaitStep DEF IInv, LeaseInv
<1> TypeOK /\ LeaseInv
  BY DEF IInv, LeaseInv
<1>1. CASE UNCHANGED regVars
  BY <1>1, QuietKeepsLeases DEF regVars, Quiet
<1>2. ASSUME NEW s \in Sessions, Step(s) PROVE LeaseInv'
  <2>1. CASE Attach(s) BY <2>1, AttachKeepsLeases
  <2>2. CASE Detach(s) BY <2>2, DetachKeepsLeases
  <2>3. CASE Ask(s) \/ Refuse(s) \/ PickVictim(s) \/ Evict(s) \/ Retry(s) \/ GiveUp(s) \/ Disconnect(s)
    <3>1. Quiet
      BY <2>3
      DEF Quiet, TypeOK, Become, Ask, Refuse, PickVictim, Evict, Retry, GiveUp, Disconnect
    <3> QED BY <3>1, QuietKeepsLeases
  <2> QED BY <1>2, <2>1, <2>2, <2>3 DEF Step
<1>3. ASSUME NEW t \in Tasks, TaskStep(t) PROVE LeaseInv'
  BY <1>3, TakeKeepsLeases, DropKeepsLeases DEF TaskStep
<1>4. CASE Restart BY <1>4, RestartKeepsLeases
<1> QED BY <1>1, <1>2, <1>3, <1>4 DEF Next

LEMMA Invariance == Spec => []IInv
  BY InvInit, InvStep, PTL DEF Spec

-----------------------------------------------------------------------------
(* Every variable of the registry keeps its type: no hold count goes below  *)
(* zero, and no entry names a session that is not one.                      *)
THEOREM TypeCorrect == Spec => []TypeOK
  BY Invariance, PTL DEF IInv

(* The entry of every image says exactly what is held on it, so that no     *)
(* image stays locked by a lease that was released and none is free that    *)
(* somebody holds (acquire and release of locks.go).                        *)
THEOREM EntriesAreTheLeases == Spec => []EntriesMatchLeases
  BY Invariance, PTL DEF IInv

(* A takeover waits only for a session of its own client that was closed,   *)
(* and never for one that waits itself.                                     *)
THEOREM TakeoversDoNotWaitForEachOther == Spec => []WaitsForItsOwnWriter
  BY Invariance, PTL DEF IInv

-----------------------------------------------------------------------------
(* The leases as DiskLocks sees them.                                       *)

(* Two leases on one image are compatible, by what the entry says of both.  *)
HeldExclude ==
    \A k \in Keys : \A g, h \in HeldOn(k) : g # h => Locks!Compatible(g.mode, h.mode)

LEMMA InvExcludes == IInv => HeldExclude
<1> SUFFICES ASSUME IInv, NEW k \in Keys, NEW g \in HeldOn(k), NEW h \in HeldOn(k), g # h
             PROVE  Locks!Compatible(g.mode, h.mode)
  BY DEF HeldExclude
<1> DEFINE e == entries[k]
<1> USE DEF IInv
<1>1. PICK x, m : /\ g = [who |-> x, mode |-> m]
                  /\ \/ m \in SessionModes /\ x \in Attached(k, m)
                     \/ m \in TaskModes /\ x \in Holding(k, m)
  BY DEF HeldOn, Attached, Holding
<1>2. PICK y, n : /\ h = [who |-> y, mode |-> n]
                  /\ \/ n \in SessionModes /\ y \in Attached(k, n)
                     \/ n \in TaskModes /\ y \in Holding(k, n)
  BY DEF HeldOn, Attached, Holding
<1>3. x # y \/ m # n
  BY <1>1, <1>2
<1>4. /\ e.exclusive => e.writer = None /\ e.readers = {} /\ e.holds = 0
      /\ e.writer # None => e.holds = 0
      /\ \A t, u \in Holding(k, "Exclusive") : t = u
  BY DEF EntriesExclude, OneExclusive
<1>5. m \in SessionModes \union TaskModes /\ n \in SessionModes \union TaskModes
  BY <1>1, <1>2
<1>6. \/ m = "Writer" /\ n = "Writer" /\ x = y
      \/ m = "Exclusive" /\ n = "Exclusive" /\ x = y
      \/ {m, n} \subseteq {"Reader", "Hold"}
      \/ {m, n} = {"Reader", "Writer"}
  <2>1. /\ m = "Writer" => e.writer = x /\ x # None
        /\ m = "Reader" => x \in e.readers
        /\ m = "Hold" => e.holds # 0
        /\ m = "Exclusive" => e.exclusive /\ x \in Holding(k, "Exclusive")
    BY <1>1, NoHolders DEF EntriesMatchLeases, SessionModes, TaskModes
  <2>2. /\ n = "Writer" => e.writer = y /\ y # None
        /\ n = "Reader" => y \in e.readers
        /\ n = "Hold" => e.holds # 0
        /\ n = "Exclusive" => e.exclusive /\ y \in Holding(k, "Exclusive")
    BY <1>2, NoHolders DEF EntriesMatchLeases, SessionModes, TaskModes
  <2> HIDE DEF e, IInv
  <2>3. CASE m = "Writer" BY <2>1, <2>2, <2>3, <1>4, <1>5 DEF SessionModes, TaskModes
  <2>4. CASE m = "Reader" BY <2>1, <2>2, <2>4, <1>4, <1>5 DEF SessionModes, TaskModes
  <2>5. CASE m = "Hold" BY <2>1, <2>2, <2>5, <1>4, <1>5 DEF SessionModes, TaskModes
  <2>6. CASE m = "Exclusive" BY <2>1, <2>2, <2>6, <1>4, <1>5 DEF SessionModes, TaskModes
  <2> QED BY <1>5, <2>3, <2>4, <2>5, <2>6 DEF SessionModes, TaskModes
<1> QED BY <1>1, <1>2, <1>3, <1>6 DEF Locks!Compatible

(* One writer at a time, none while the image is downloaded or cloned, and  *)
(* nothing beside a resize, rename, delete or upload: whatever sessions and *)
(* requests do, and however takeovers go (type Mode of locks.go).           *)
THEOREM LeasesAreExclusive == Spec => []LeasesExclude
<1>1. HeldExclude => LeasesExclude
  BY DEF HeldExclude, LeasesExclude, Locks!Exclusion
<1> QED BY <1>1, Invariance, InvExcludes, PTL

-----------------------------------------------------------------------------
(* The registry implements DiskLocks: a step takes one lease that goes with *)
(* the others, drops one, drops all of them, or leaves them as they are.    *)

Held == [k \in Keys |-> HeldOn(k)]

SessionLeases(k) ==
    {l \in [who : Sessions, mode : SessionModes] :
        pc[l.who] = "attached" /\ ask[l.who] = [key |-> k, mode |-> l.mode]}

TaskLeases(k) ==
    {l \in [who : Tasks, mode : TaskModes] : <<k, l.mode>> \in leases[l.who]}

LEMMA HeldInit == Init => Locks!Init
<1> SUFFICES ASSUME Init PROVE \A k \in Keys : HeldOn(k) = {}
  BY DEF Locks!Init
<1> QED BY DEF Init, HeldOn, Attached, Holding

(* One lease more, or one lease less, is a step of DiskLocks.               *)
LEMMA OneMore ==
    ASSUME NEW k \in Keys, NEW l \in Locks!Lease, HeldExclude',
           l \notin HeldOn(k), HeldOn(k)' = HeldOn(k) \union {l},
           \A n \in Keys \ {k} : HeldOn(n)' = HeldOn(n)
    PROVE  Locks!Next
<1>1. \A h \in HeldOn(k) : Locks!Compatible(l.mode, h.mode)
  <2> TAKE h \in HeldOn(k)
  <2> h \in HeldOn(k)' /\ l \in HeldOn(k)' /\ h # l
    OBVIOUS
  <2> QED BY DEF HeldExclude
<1>2. Held' = [Held EXCEPT ![k] = @ \union {l}] /\ Held[k] = HeldOn(k)
  BY DEF Held
<1>3. Locks!Take(k, l)
  BY <1>1, <1>2 DEF Locks!Take, Held
<1> QED BY <1>3 DEF Locks!Next

LEMMA OneLess ==
    ASSUME NEW k \in Keys, NEW l \in Locks!Lease,
           l \in HeldOn(k), HeldOn(k)' = HeldOn(k) \ {l},
           \A n \in Keys \ {k} : HeldOn(n)' = HeldOn(n)
    PROVE  Locks!Next
<1>1. Held' = [Held EXCEPT ![k] = @ \ {l}] /\ Held[k] = HeldOn(k)
  BY DEF Held
<1>2. Locks!Drop(k, l)
  BY <1>1 DEF Locks!Drop, Held
<1> QED BY <1>2 DEF Locks!Next

LEMMA AttachTakes ==
    ASSUME IInv, HeldExclude', NEW s \in Sessions, Attach(s)
    PROVE  Locks!Next
<1> PICK k \in Keys, m \in SessionModes : ask[s] = [key |-> k, mode |-> m]
  BY DEF IInv, TypeOK
<1> PICK l : l = [who |-> s, mode |-> m]
  OBVIOUS
<1>1. l \in Locks!Lease
  BY DEF Locks!Lease, Locks!Modes, SessionModes, TaskModes
<1>2. /\ pc[s] = "asking" /\ pc' = [pc EXCEPT ![s] = "attached"]
      /\ UNCHANGED <<ask, leases>>
  BY DEF Attach, Become
<1>3. \A n \in Keys, o \in SessionModes :
         Attached(n, o)' = IF n = k /\ o = m THEN Attached(n, o) \union {s} ELSE Attached(n, o)
  BY <1>2 DEF Attached, IInv, TypeOK
<1>4. \A n \in Keys, o \in TaskModes :
         Holding(n, o)' = Holding(n, o)
  BY <1>2 DEF Holding, IInv, TypeOK
<1>5. l \notin HeldOn(k)
  BY <1>2, TasksAssumption DEF HeldOn, Attached, Holding, SessionModes, TaskModes
<1>6. HeldOn(k)' = HeldOn(k) \union {l}
  <2>1. SessionLeases(k)' = SessionLeases(k) \union {l}
    BY <1>2, <1>3 DEF SessionLeases, Attached, IInv, TypeOK
  <2>2. TaskLeases(k)' = TaskLeases(k)
    BY <1>2, <1>4 DEF TaskLeases, Holding, IInv, TypeOK
  <2>3. l \notin TaskLeases(k)
    BY <1>1, TasksAssumption DEF TaskLeases, SessionLeases, SessionModes, TaskModes
  <2> QED BY <2>1, <2>2, <2>3 DEF HeldOn, SessionLeases, TaskLeases
<1>7. \A n \in Keys \ {k} : HeldOn(n)' = HeldOn(n)
  BY <1>3, <1>4 DEF HeldOn, Attached, Holding
<1> QED BY <1>1, <1>5, <1>6, <1>7, OneMore

LEMMA DetachDrops ==
    ASSUME IInv, NEW s \in Sessions, Detach(s)
    PROVE  Locks!Next
<1> PICK k \in Keys, m \in SessionModes : ask[s] = [key |-> k, mode |-> m]
  BY DEF IInv, TypeOK
<1> PICK l : l = [who |-> s, mode |-> m]
  OBVIOUS
<1>1. l \in Locks!Lease
  BY DEF Locks!Lease, Locks!Modes, SessionModes, TaskModes
<1>2. /\ pc[s] = "attached" /\ pc' = [pc EXCEPT ![s] = "released"]
      /\ UNCHANGED <<ask, leases>>
  BY DEF Detach, Become
<1>3. \A n \in Keys, o \in SessionModes :
         Attached(n, o)' = IF n = k /\ o = m THEN Attached(n, o) \ {s} ELSE Attached(n, o)
  BY <1>2 DEF Attached, IInv, TypeOK
<1>4. \A n \in Keys, o \in TaskModes :
         Holding(n, o)' = Holding(n, o)
  BY <1>2 DEF Holding, IInv, TypeOK
<1>5. l \in HeldOn(k)
  BY <1>2, TasksAssumption DEF HeldOn, Attached, Holding, SessionModes, TaskModes
<1>6. HeldOn(k)' = HeldOn(k) \ {l}
  <2>1. SessionLeases(k)' = SessionLeases(k) \ {l}
    BY <1>2, <1>3 DEF SessionLeases, Attached, IInv, TypeOK
  <2>2. TaskLeases(k)' = TaskLeases(k)
    BY <1>2, <1>4 DEF TaskLeases, Holding, IInv, TypeOK
  <2>3. l \notin TaskLeases(k)
    BY <1>1, TasksAssumption DEF TaskLeases, SessionLeases, SessionModes, TaskModes
  <2> QED BY <2>1, <2>2, <2>3 DEF HeldOn, SessionLeases, TaskLeases
<1>7. \A n \in Keys \ {k} : HeldOn(n)' = HeldOn(n)
  BY <1>3, <1>4 DEF HeldOn, Attached, Holding
<1> QED BY <1>1, <1>5, <1>6, <1>7, OneLess

LEMMA TakeTakes ==
    ASSUME IInv, HeldExclude', NEW t \in Tasks, NEW k \in Keys, NEW m \in TaskModes,
           TakeLease(t, k, m)
    PROVE  Locks!Next
<1> PICK l : l = [who |-> t, mode |-> m]
  OBVIOUS
<1>1. l \in Locks!Lease
  BY DEF Locks!Lease, Locks!Modes, SessionModes, TaskModes
<1>2. /\ <<k, m>> \notin leases[t] /\ leases' = [leases EXCEPT ![t] = @ \union {<<k, m>>}]
      /\ UNCHANGED <<ask, pc>>
  BY DEF TakeLease
<1>3. \A n \in Keys, o \in SessionModes :
         Attached(n, o)' = Attached(n, o)
  BY <1>2 DEF Attached, IInv, TypeOK
<1>4. \A n \in Keys, o \in TaskModes :
         Holding(n, o)' = IF n = k /\ o = m THEN Holding(n, o) \union {t} ELSE Holding(n, o)
  BY <1>2 DEF Holding, IInv, TypeOK
<1>5. l \notin HeldOn(k)
  BY <1>2, TasksAssumption DEF HeldOn, Attached, Holding, SessionModes, TaskModes
<1>6. HeldOn(k)' = HeldOn(k) \union {l}
  <2>1. SessionLeases(k)' = SessionLeases(k)
    BY <1>2, <1>3 DEF SessionLeases, Attached, IInv, TypeOK
  <2>2. TaskLeases(k)' = TaskLeases(k) \union {l}
    BY <1>2, <1>4 DEF TaskLeases, Holding, IInv, TypeOK
  <2>3. l \notin SessionLeases(k)
    BY <1>1, TasksAssumption DEF TaskLeases, SessionLeases, SessionModes, TaskModes
  <2> QED BY <2>1, <2>2, <2>3 DEF HeldOn, SessionLeases, TaskLeases
<1>7. \A n \in Keys \ {k} : HeldOn(n)' = HeldOn(n)
  BY <1>3, <1>4 DEF HeldOn, Attached, Holding
<1> QED BY <1>1, <1>5, <1>6, <1>7, OneMore

LEMMA DropDrops ==
    ASSUME IInv, NEW t \in Tasks, NEW k \in Keys, NEW m \in TaskModes,
           DropLease(t, k, m)
    PROVE  Locks!Next
<1> PICK l : l = [who |-> t, mode |-> m]
  OBVIOUS
<1>1. l \in Locks!Lease
  BY DEF Locks!Lease, Locks!Modes, SessionModes, TaskModes
<1>2. /\ <<k, m>> \in leases[t] /\ leases' = [leases EXCEPT ![t] = @ \ {<<k, m>>}]
      /\ UNCHANGED <<ask, pc>>
  BY DEF DropLease
<1>3. \A n \in Keys, o \in SessionModes :
         Attached(n, o)' = Attached(n, o)
  BY <1>2 DEF Attached, IInv, TypeOK
<1>4. \A n \in Keys, o \in TaskModes :
         Holding(n, o)' = IF n = k /\ o = m THEN Holding(n, o) \ {t} ELSE Holding(n, o)
  BY <1>2 DEF Holding, IInv, TypeOK
<1>5. l \in HeldOn(k)
  BY <1>2, TasksAssumption DEF HeldOn, Attached, Holding, SessionModes, TaskModes
<1>6. HeldOn(k)' = HeldOn(k) \ {l}
  <2>1. SessionLeases(k)' = SessionLeases(k)
    BY <1>2, <1>3 DEF SessionLeases, Attached, IInv, TypeOK
  <2>2. TaskLeases(k)' = TaskLeases(k) \ {l}
    BY <1>2, <1>4 DEF TaskLeases, Holding, IInv, TypeOK
  <2>3. l \notin SessionLeases(k)
    BY <1>1, TasksAssumption DEF TaskLeases, SessionLeases, SessionModes, TaskModes
  <2> QED BY <2>1, <2>2, <2>3 DEF HeldOn, SessionLeases, TaskLeases
<1>7. \A n \in Keys \ {k} : HeldOn(n)' = HeldOn(n)
  BY <1>3, <1>4 DEF HeldOn, Attached, Holding
<1> QED BY <1>1, <1>5, <1>6, <1>7, OneLess

LEMMA QuietStutters == IInv /\ Quiet => Held' = Held
<1> SUFFICES ASSUME IInv, Quiet PROVE \A k \in Keys : HeldOn(k)' = HeldOn(k)
  BY DEF Held
<1> QED BY DEF Quiet, HeldOn, Attached, Holding

LEMMA RestartDrops == Restart => Locks!Next
<1> SUFFICES ASSUME Restart PROVE \A k \in Keys : HeldOn(k)' = {}
  BY DEF Locks!Next, Locks!DropAll
<1> QED BY DEF Restart, HeldOn, Attached, Holding

LEMMA RefinementStep ==
    IInv /\ HeldExclude' /\ [Next]_regVars => [Locks!Next]_Held
<1> SUFFICES ASSUME IInv, HeldExclude', [Next]_regVars PROVE Locks!Next \/ Held' = Held
  OBVIOUS
<1>1. CASE UNCHANGED regVars
  BY <1>1, QuietStutters DEF regVars, Quiet
<1>2. ASSUME NEW s \in Sessions, Step(s) PROVE Locks!Next \/ Held' = Held
  <2>1. CASE Attach(s) BY <2>1, AttachTakes
  <2>2. CASE Detach(s) BY <2>2, DetachDrops
  <2>3. CASE \/ Ask(s) \/ Refuse(s) \/ PickVictim(s) \/ Evict(s)
             \/ Retry(s) \/ GiveUp(s) \/ Disconnect(s)
    <3>1. Quiet
      BY <2>3
      DEF Quiet, IInv, TypeOK, Become, Ask, Refuse, PickVictim, Evict, Retry, GiveUp, Disconnect
    <3> QED BY <3>1, QuietStutters
  <2> QED BY <1>2, <2>1, <2>2, <2>3 DEF Step
<1>3. ASSUME NEW t \in Tasks, TaskStep(t) PROVE Locks!Next \/ Held' = Held
  BY <1>3, TakeTakes, DropDrops DEF TaskStep
<1>4. CASE Restart BY <1>4, RestartDrops
<1> QED BY <1>1, <1>2, <1>3, <1>4 DEF Next

(* The registry does to the leases on an image only what DiskLocks allows:  *)
(* it takes one that goes with all the others, gives one back, or loses all *)
(* of them with the process.                                                *)
THEOREM RegistryImplementsLocks == Spec => ImplementsLocks
<1>1. Init => Locks!Init
  BY HeldInit
<1>2. IInv /\ HeldExclude' /\ [Next]_regVars => [Locks!Next]_Held
  BY RefinementStep
<1>3. IInv => HeldExclude
  BY InvExcludes
<1> QED BY <1>1, <1>2, <1>3, Invariance, PTL DEF Spec, ImplementsLocks, Locks!Spec, Held
=============================================================================
