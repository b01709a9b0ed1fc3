------------------------------- MODULE Nbd_proofs -------------------------------
(***************************************************************************)
(* Proofs about the NBD server.  Of NbdServer, for any connections, clients *)
(* and settings: its connections use the registry as DiskRegistry says, so *)
(* that what is proved of the registry holds of them, and the one writer   *)
(* the registry lets in is the one VM that writes.  Of NbdTransmission,    *)
(* for any requests, slots and budget: its replies are true, nothing       *)
(* touches the image after the end begins, and the budget gets back what   *)
(* it gave.                                                                *)
(***************************************************************************)
EXTENDS NbdServer, NbdTransmission, FiniteSetTheorems, TLAPS

-----------------------------------------------------------------------------
(* Every step is a step of the registry for one connection, or none.        *)
LEMMA RegistryStep == [Next]_vars => [Reg!Next]_regVars
<1> SUFFICES ASSUME [Next]_vars PROVE [Reg!Next]_regVars
  OBVIOUS
<1>1. ASSUME NEW c \in Conns, Reg!Step(c) PROVE Reg!Next
  BY <1>1 DEF Reg!Next
<1>2. CASE UNCHANGED vars
  BY <1>2 DEF vars
<1>3. ASSUME NEW c \in Conns, Takes(c) \/ Runs(c) \/ TransmitEnds(c) \/ Disconnects(c)
      PROVE  [Reg!Next]_regVars
  <2>1. CASE Takes(c) \/ Admits(c) \/ TurnsAway(c) \/ StartTLS(c) \/ LogsIn(c) \/ Leaves(c)
             \/ Replies(c) \/ ReplyFails(c) \/ Ends(c)
    BY <2>1 DEF Takes, Admits, TurnsAway, StartTLS, LogsIn, Leaves, Replies, ReplyFails, Ends
  <2>2. CASE AsksForImage(c) \/ Waits(c) \/ Attaches(c) \/ AttachFails(c)
    BY <1>1, <2>2 DEF AsksForImage, Waits, Attaches, AttachFails, Reg!Step
  <2>3. CASE TransmitEnds(c) \/ Disconnects(c)
    BY <1>1, <2>3 DEF TransmitEnds, Disconnects, Reg!Step
  <2> QED BY <1>3, <2>1, <2>2, <2>3 DEF Runs
<1>4. CASE Reload
  BY <1>4 DEF Reload, ReloadSwaps, ReloadLooks, ReloadJudges, ReloadEnds
<1>5. CASE ShutdownBegins \/ ShutdownSteps
  BY <1>5 DEF ShutdownBegins, ShutdownSteps, ShutdownUnlistens, ShutdownCloses, ShutdownReturns
<1> QED BY <1>2, <1>3, <1>4, <1>5 DEF Next

(* The server uses the registry as its specification allows (attach and     *)
(* transmit of conn.go).                                                    *)
THEOREM ServerUsesRegistry == Spec => UsesTheRegistry
<1>1. Init => Reg!Init
  BY DEF Init
<1> QED BY <1>1, RegistryStep, PTL DEF Spec, UsesTheRegistry, Reg!Spec, regVars, Reg!regVars

-----------------------------------------------------------------------------
(* What ServedUnderALease and OneVMWrites rest on: how far a connection is  *)
(* says how far its session of the registry is, and a writer that is        *)
(* attached is the one its entry names.                                     *)
Typed ==
    /\ entries \in [Keys -> Reg!Entry]
    /\ pc \in [Conns -> Reg!PCs]
    /\ ask \in [Conns -> [key : Keys, mode : Reg!SessionModes]]
    /\ phase \in [Conns -> Phases]
    /\ id \in [Conns -> [writable : BOOLEAN] \union {None}]
    /\ conns \subseteq Conns

BeforeLogin == {"new", "taken", "options", "tls"}
Waiting == {"asking", "evicting", "waiting"}

InStep ==
    \A c \in Conns :
        /\ phase[c] \in BeforeLogin => pc[c] = "new"
        /\ phase[c] = "user" => pc[c] \notin Waiting \union {"attached"}
        /\ phase[c] = "attaching" => pc[c] \in Waiting
        /\ phase[c] \in {"replying", "transmit"} => pc[c] = "attached"
        /\ phase[c] \in {"ending", "gone"} => pc[c] \notin Waiting
        /\ phase[c] \in {"options", "tls", "user", "attaching", "replying", "transmit", "ending"}
              => c \in conns

LoggedIn ==
    \A c \in Conns :
        /\ phase[c] \in {"user", "attaching"} => id[c] # None
        /\ pc[c] \in Waiting \union {"attached"} =>
              id[c] # None /\ (ask[c].mode = "Writer" <=> id[c].writable)

WritersAreNamed ==
    \A c \in Conns :
        pc[c] = "attached" /\ ask[c].mode = "Writer" => entries[ask[c].key].writer = c

IInv == Typed /\ InStep /\ LoggedIn /\ WritersAreNamed

LEMMA InvInit == Init => IInv
<1> SUFFICES ASSUME Init PROVE IInv
  OBVIOUS
<1>1. Reg!Empty \in Reg!Entry
  BY DEF Reg!Empty, Reg!Entry
<1> QED BY <1>1 DEF Init, IInv, Typed, InStep, LoggedIn, WritersAreNamed, Reg!Init, Reg!PCs,
               Phases, BeforeLogin, Waiting

(* What a step of a reload, of Shutdown or of Disconnect leaves alone.      *)
Quiet == UNCHANGED <<entries, pc, ask, phase, id, conns>>

LEMMA QuietKeeps == IInv /\ Quiet => IInv'
  BY DEF Quiet, IInv, Typed, InStep, LoggedIn, WritersAreNamed

(* A connection goes on without a step of the registry.                     *)
LEMMA OwnStepsKeep ==
    ASSUME IInv, NEW c \in Conns,
           Takes(c) \/ Admits(c) \/ TurnsAway(c) \/ StartTLS(c) \/ LogsIn(c) \/ Leaves(c)
             \/ Replies(c) \/ ReplyFails(c) \/ Ends(c)
    PROVE  IInv'
<1> USE DEF IInv, Typed, InStep, LoggedIn, To, Phases, BeforeLogin, Waiting
<1>0. UNCHANGED <<entries, pc, ask>>
  BY DEF Takes, Admits, TurnsAway, StartTLS, LogsIn, Leaves, Replies, ReplyFails, Ends, regVars
<1>1. WritersAreNamed'
  BY <1>0 DEF WritersAreNamed
<1>2. CASE Takes(c) \/ TurnsAway(c) \/ StartTLS(c)
  BY <1>0, <1>1, <1>2 DEF Takes, TurnsAway, StartTLS
<1>6. CASE Leaves(c) \/ Replies(c) \/ ReplyFails(c)
  BY <1>0, <1>1, <1>6 DEF Leaves, Replies, ReplyFails
<1>3. CASE Admits(c)
  BY <1>0, <1>1, <1>3 DEF Admits
<1>4. CASE LogsIn(c)
  <2>1. [writable |-> Cert[c] \in using[c].write] \in [writable : BOOLEAN]
    OBVIOUS
  <2> QED BY <1>0, <1>1, <1>4, <2>1, NoneAssumption DEF LogsIn
<1>5. CASE Ends(c)
  BY <1>0, <1>1, <1>5 DEF Ends
<1> QED BY <1>2, <1>3, <1>4, <1>5, <1>6

(* A connection that waits for its image, asks for it, or is refused.       *)
LEMMA AskingKeeps ==
    ASSUME IInv, NEW c \in Conns,
           AsksForImage(c) \/ Waits(c)
             \/ (phase[c] = "attaching" /\ (Reg!Refuse(c) \/ Reg!GiveUp(c)) /\ AttachFails(c))
    PROVE  IInv'
<1> USE DEF IInv, Typed, InStep, LoggedIn, To, Phases, BeforeLogin, Waiting, WritersAreNamed,
            Reg!PCs, Reg!Become
<1>1. CASE AsksForImage(c)
  BY <1>1 DEF AsksForImage, Reg!Ask
<1>2. CASE Waits(c)
  <2>1. UNCHANGED <<entries, ask, phase, id, conns>> /\ phase[c] = "attaching"
    BY <1>2 DEF Waits, Reg!PickVictim, Reg!Evict, Reg!Retry
  <2>2. PICK p \in Waiting : pc' = [pc EXCEPT ![c] = p]
    BY <1>2 DEF Waits, Reg!PickVictim, Reg!Evict, Reg!Retry
  <2> QED BY <2>1, <2>2
<1>3. CASE phase[c] = "attaching" /\ (Reg!Refuse(c) \/ Reg!GiveUp(c)) /\ AttachFails(c)
  <2>1. UNCHANGED <<ask, conns, id, using, entries>> /\ phase[c] = "attaching"
    BY <1>3 DEF AttachFails, Reg!Refuse, Reg!GiveUp, adminVars
  <2>2. phase' = [phase EXCEPT ![c] = "user"] /\ pc' = [pc EXCEPT ![c] = "refused"]
    BY <1>3 DEF AttachFails, Reg!Refuse, Reg!GiveUp
  <2> QED BY <2>1, <2>2
<1> QED BY <1>1, <1>2, <1>3

(* It is granted: no other writer of the image was attached.                *)
LEMMA AttachKeeps ==
    ASSUME IInv, NEW c \in Conns, Attaches(c)
    PROVE  IInv'
<1> DEFINE k == ask[c].key
<1> USE DEF IInv, Typed
<1>1. ask[c] \in [key : Keys, mode : Reg!SessionModes] /\ entries[k] \in Reg!Entry
  OBVIOUS
<1>2. pc[c] = "asking" /\ phase[c] = "attaching"
      /\ (ask[c].mode = "Writer" => entries[k].writer = None)
      /\ entries' = [entries EXCEPT ![k] = Reg!Granted(entries[k], ask[c].mode, c)]
      /\ pc' = [pc EXCEPT ![c] = "attached"] /\ phase' = [phase EXCEPT ![c] = "replying"]
      /\ UNCHANGED <<ask, id, conns>>
  BY DEF Attaches, Reg!Attach, Reg!Become, To
<1>3. /\ Reg!Granted(entries[k], ask[c].mode, c) \in Reg!Entry
      /\ ask[c].mode = "Writer" => Reg!Granted(entries[k], ask[c].mode, c).writer = c
      /\ ask[c].mode # "Writer" =>
            Reg!Granted(entries[k], ask[c].mode, c).writer = entries[k].writer
  BY <1>1 DEF Reg!Granted, Reg!Entry, Reg!SessionModes
<1>4. Typed'
  BY <1>1, <1>2, <1>3 DEF Reg!PCs, Phases
<1>5. InStep' /\ LoggedIn'
  BY <1>2 DEF InStep, LoggedIn, BeforeLogin, Waiting
<1>6. WritersAreNamed'
  BY <1>1, <1>2, <1>3, NoneAssumption DEF WritersAreNamed
<1> QED BY <1>4, <1>5, <1>6

(* It lets go of its lease: the entry still names another writer.           *)
LEMMA DetachKeeps ==
    ASSUME IInv, NEW c \in Conns, Reg!Detach(c),
           \/ phase[c] = "replying" /\ To(c, "user")
           \/ phase[c] = "transmit" /\ To(c, "ending"),
           UNCHANGED <<id, conns>>
    PROVE  IInv'
<1> DEFINE k == ask[c].key
<1> USE DEF IInv, Typed
<1>1. ask[c] \in [key : Keys, mode : Reg!SessionModes] /\ entries[k] \in Reg!Entry
  OBVIOUS
<1>2. pc[c] = "attached" /\ pc' = [pc EXCEPT ![c] = "released"]
      /\ entries' = [entries EXCEPT ![k] = Reg!Returned(entries[k], ask[c].mode, c)]
      /\ ask' = ask
  BY DEF Reg!Detach, Reg!Become
<1>3. /\ Reg!Returned(entries[k], ask[c].mode, c) \in Reg!Entry
      /\ entries[k].writer # c =>
            Reg!Returned(entries[k], ask[c].mode, c).writer = entries[k].writer
  BY <1>1 DEF Reg!Returned, Reg!Entry, Reg!SessionModes
<1>4. Typed'
  BY <1>1, <1>2, <1>3 DEF Reg!PCs, Phases, To
<1>5. InStep' /\ LoggedIn'
  BY <1>2 DEF InStep, LoggedIn, BeforeLogin, Waiting, To
<1>6. ASSUME NEW d \in Conns, pc'[d] = "attached", ask'[d].mode = "Writer"
      PROVE  entries'[ask'[d].key].writer = d
  <2>1. d # c /\ pc[d] = "attached" /\ ask[d].mode = "Writer" /\ ask[d].key \in Keys
        /\ entries[ask[d].key].writer = d
    BY <1>2, <1>6 DEF WritersAreNamed
  <2> QED BY <1>1, <1>2, <1>3, <2>1
<1> QED BY <1>4, <1>5, <1>6 DEF WritersAreNamed

LEMMA InvStep == IInv /\ [Next]_vars => IInv'
<1> SUFFICES ASSUME IInv, [Next]_vars PROVE IInv'
  OBVIOUS
<1>1. CASE UNCHANGED vars
  BY <1>1, QuietKeeps DEF vars, regVars, Quiet
<1>2. ASSUME NEW c \in Conns, Takes(c) \/ Runs(c) \/ TransmitEnds(c) \/ Disconnects(c)
      PROVE  IInv'
  <2>1. CASE Takes(c) \/ Admits(c) \/ TurnsAway(c) \/ StartTLS(c) \/ LogsIn(c) \/ Leaves(c)
             \/ Replies(c) \/ ReplyFails(c) \/ Ends(c)
    BY <2>1, OwnStepsKeep
  <2>2. CASE AsksForImage(c) \/ Waits(c)
    BY <2>2, AskingKeeps
  <2>3. CASE Attaches(c)
    BY <2>3, AttachKeeps
  <2>4. CASE AttachFails(c)
    <3>1. CASE phase[c] = "attaching" /\ (Reg!Refuse(c) \/ Reg!GiveUp(c))
      BY <2>4, <3>1, AskingKeeps
    <3>2. CASE phase[c] = "replying" /\ Reg!Detach(c)
      BY <2>4, <3>2, DetachKeeps DEF AttachFails
    <3> QED BY <2>4, <3>1, <3>2 DEF AttachFails
  <2>5. CASE TransmitEnds(c)
    BY <2>5, DetachKeeps DEF TransmitEnds
  <2>6. CASE Disconnects(c)
    BY <2>6, QuietKeeps DEF Disconnects, Reg!Disconnect, Quiet
  <2> QED BY <1>2, <2>1, <2>2, <2>3, <2>4, <2>5, <2>6 DEF Runs
<1>3. CASE Reload
  BY <1>3, QuietKeeps DEF Reload, ReloadSwaps, ReloadLooks, ReloadJudges, ReloadEnds, regVars, Quiet
<1>4. CASE ShutdownBegins \/ ShutdownSteps
  BY <1>4, QuietKeeps DEF ShutdownBegins, ShutdownSteps, ShutdownUnlistens, ShutdownCloses,
                          ShutdownReturns, regVars, Quiet
<1> QED BY <1>1, <1>2, <1>3, <1>4 DEF Next

LEMMA Invariance == Spec => []IInv
  BY InvInit, InvStep, PTL DEF Spec

-----------------------------------------------------------------------------
(* A connection that is served has the lease of its image, is one Reload    *)
(* and Shutdown find, and logged in for the mode of its lease (serve,       *)
(* attach and transmit of conn.go).                                         *)
THEOREM ServesUnderALease == Spec => []ServedUnderALease
<1>1. IInv => ServedUnderALease
  BY DEF IInv, InStep, LoggedIn, ServedUnderALease, Serving, Waiting
<1> QED BY <1>1, Invariance, PTL

(* "One VM at a time may attach a disk read-write" (NBD.md:13): two         *)
(* connections that are served and may write have different images.         *)
THEOREM WritesAlone == Spec => []OneVMWrites
<1>1. IInv => OneVMWrites
  <2> SUFFICES ASSUME IInv, NEW c \in Conns, NEW d \in Conns, Serving(c), Serving(d),
                      id[c].writable, id[d].writable, ask[c].key = ask[d].key
               PROVE  c = d
    BY DEF OneVMWrites
  <2>1. pc[c] = "attached" /\ pc[d] = "attached"
    BY DEF IInv, InStep, Serving
  <2>2. ask[c].mode = "Writer" /\ ask[d].mode = "Writer"
    BY <2>1 DEF IInv, LoggedIn, Waiting
  <2> QED BY <2>1, <2>2 DEF IInv, WritersAreNamed
<1> QED BY <1>1, Invariance, PTL

-----------------------------------------------------------------------------
(* A connection the settings no longer admit, or one that logs in by older  *)
(* ones, is one the reload has yet to judge, or judged too early.           *)
Stale(c) == (phase[c] = "tls" /\ using[c] # settings) \/ Unwanted(c)

StaleIsKnown ==
    /\ reload \in [at : {"no", "swapped", "judging"}, left : SUBSET Conns]
    /\ using \in [Conns -> Settings \union {None}]
    /\ \A c \in Conns :
          Stale(c) => \/ c \in missed
                      \/ reload.at = "swapped"
                      \/ reload.at = "judging" /\ c \in reload.left

(* What a login says of an account is what the settings say of it.          *)
LEMMA MayWrite ==
    ASSUME NEW r, NEW client, NEW clients, r = [writable |-> client \in clients]
    PROVE  r.writable => client \in clients
  BY Zenon

(* A connection that is stale after a step of its own was stale before.     *)
LEMMA OwnStepsStayKnown ==
    ASSUME IInv, settings \in Settings, StaleIsKnown, NEW c \in Conns,
           Takes(c) \/ Runs(c) \/ TransmitEnds(c) \/ Disconnects(c)
    PROVE  StaleIsKnown'
<1> USE DEF IInv, Typed, StaleIsKnown
<1>1. UNCHANGED <<settings, reload, missed>> /\ cut \subseteq cut' /\ closed \subseteq closed'
  <2>1. CASE Takes(c) \/ Admits(c) \/ TurnsAway(c) \/ StartTLS(c) \/ LogsIn(c) \/ Leaves(c)
             \/ Replies(c) \/ ReplyFails(c) \/ Ends(c)
    BY <2>1 DEF Takes, Admits, TurnsAway, StartTLS, LogsIn, Leaves, Replies, ReplyFails, Ends,
                adminVars, regVars
  <2>2. CASE AsksForImage(c) \/ Waits(c) \/ Attaches(c)
    BY <2>2 DEF AsksForImage, Waits, Attaches, adminVars, Reg!Ask, Reg!PickVictim, Reg!Evict,
                Reg!Retry, Reg!Attach
  <2>3. CASE AttachFails(c) \/ TransmitEnds(c) \/ Disconnects(c)
    BY <2>3 DEF AttachFails, TransmitEnds, Disconnects, adminVars, Reg!Refuse, Reg!GiveUp,
                Reg!Detach, Reg!Disconnect
  <2> QED BY <2>1, <2>2, <2>3 DEF Runs
<1>2. using' \in [Conns -> Settings \union {None}]
      /\ \A d \in Conns : phase'[d] = "tls" /\ using'[d] # settings
                             => phase[d] = "tls" /\ using[d] # settings
  <2>1. CASE Takes(c) \/ StartTLS(c)
    BY <2>1 DEF Takes, StartTLS, To
  <2>2. CASE using' = using /\ \E p \in Phases \ {"tls"} : To(c, p)
    BY <2>2 DEF To
  <2>3. CASE UNCHANGED <<using, phase>>
    BY <2>3
  <2> QED BY <2>1, <2>2, <2>3 DEF Runs, Phases, Admits, TurnsAway, LogsIn, Leaves, AsksForImage,
             Waits, Attaches, AttachFails, Replies, ReplyFails, Ends, TransmitEnds, Disconnects
<1>3. ASSUME NEW d \in Conns, Unwanted(d)'
      PROVE  Stale(d)
  <2> USE <1>3 DEF Unwanted, Refuses, Down, Stale
  <2>1. CASE LogsIn(c)
    <3>1. CASE d = c
      <4>1. /\ phase[c] = "tls" /\ Cert[c] \in using[c].admit
            /\ id'[c] = [writable |-> Cert[c] \in using[c].write]
        BY <2>1 DEF LogsIn
      <4>2. id'[c].writable => Cert[c] \in using[c].write
        BY <4>1, MayWrite
      <4>3. \/ Cert[c] \notin settings.admit
            \/ Cert[c] \in using[c].write /\ Cert[c] \notin settings.write
        BY <1>1, <3>1, <4>2
      <4> QED BY <3>1, <4>1, <4>3
    <3>2. CASE d # c
      BY <1>1, <2>1, <3>2 DEF LogsIn, To
    <3> QED BY <3>1, <3>2
  <2>2. ASSUME id' = id,
               \/ phase' = phase
               \/ phase[c] \in {"user", "attaching", "replying", "transmit"}
                  /\ \E p \in Phases : To(c, p)
               \/ \E p \in {"taken", "options", "tls", "ending", "gone"} : To(c, p)
        PROVE  Stale(d)
    BY <1>1, <2>2 DEF To
  <2> QED BY <2>1, <2>2 DEF Runs, Phases, Takes, Admits, TurnsAway, StartTLS, Leaves, AsksForImage,
             Waits, Attaches, AttachFails, Replies, ReplyFails, Ends, TransmitEnds, Disconnects
<1> QED BY <1>1, <1>2, <1>3 DEF Stale

(* A reload judges all there are, and knows what it judged too early.       *)
LEMMA ReloadKnows ==
    ASSUME IInv, StaleIsKnown, Reload
    PROVE  StaleIsKnown'
<1> USE DEF StaleIsKnown, regVars
<1>1. ASSUME NEW set \in Settings, ReloadSwaps(set) PROVE StaleIsKnown'
  BY <1>1 DEF ReloadSwaps
<1>2. CASE ReloadLooks
  <2>1. ASSUME NEW d \in Conns, Stale(d) PROVE d \in conns
    BY <2>1 DEF Stale, Unwanted, IInv, InStep
  <2>2. reload' = [at |-> "judging", left |-> conns \intersect Conns]
    BY <1>2 DEF ReloadLooks, IInv, Typed
  <2>3. \A d \in Conns : Stale(d)' <=> Stale(d)
    BY <1>2 DEF ReloadLooks, Stale, Unwanted, Refuses, Down
  <2> QED BY <1>2, <2>1, <2>2, <2>3 DEF ReloadLooks
<1>3. CASE ReloadEnds
  <2>1. \A d \in Conns : Stale(d)' <=> Stale(d)
    BY <1>3 DEF ReloadEnds, Stale, Unwanted, Refuses, Down
  <2> QED BY <1>3, <2>1 DEF ReloadEnds
<1>4. ASSUME NEW c \in Conns, ReloadJudges(c) PROVE StaleIsKnown'
  <2>1. /\ reload' = [reload EXCEPT !.left = @ \ {c}] /\ reload.at = "judging"
        /\ UNCHANGED <<settings, phase, using, id, closed>> /\ cut \subseteq cut'
    BY <1>4 DEF ReloadJudges
  <2>2. \A d \in Conns : Stale(d)' => Stale(d)
    BY <2>1 DEF Stale, Unwanted, Refuses, Down
  <2>3. missed \subseteq missed' \union {c}
    BY <1>4 DEF ReloadJudges
  <2>4. Stale(c)' => c \in missed'
    BY <1>4, <2>1 DEF ReloadJudges, Stale, Unwanted, Refuses, Down
  <2> QED BY <2>1, <2>2, <2>3, <2>4
<1> QED BY <1>1, <1>2, <1>3, <1>4 DEF Reload

(* "Connections the new settings no longer admit are closed at once"        *)
(* (NBD.md:49): when no reload is under way, the one connection that can    *)
(* stay is one the last reload judged during its TLS handshake.             *)
THEOREM ReloadFindsTheRest == Spec => []OnlyTheAdmittedAndMissedStay
<1> DEFINE Known == IInv /\ settings \in Settings /\ StaleIsKnown
<1>1. Init => Known
  BY InvInit DEF Init, StaleIsKnown, Stale, Unwanted
<1>2. Known /\ [Next]_vars => Known'
  <2> SUFFICES ASSUME IInv, settings \in Settings, StaleIsKnown, [Next]_vars
               PROVE  settings' \in Settings /\ StaleIsKnown'
    BY InvStep
  <2>1. CASE UNCHANGED vars
    BY <2>1 DEF vars, regVars, adminVars, StaleIsKnown, Stale, Unwanted, Refuses, Down
  <2>2. ASSUME NEW c \in Conns, Takes(c) \/ Runs(c) \/ TransmitEnds(c) \/ Disconnects(c)
        PROVE  settings' = settings
    BY <2>2 DEF Runs, Takes, Admits, TurnsAway, StartTLS, LogsIn, Leaves, AsksForImage, Waits,
                Attaches, AttachFails, Replies, ReplyFails, Ends, TransmitEnds, Disconnects, adminVars
  <2>3. CASE Reload
    BY <2>3, ReloadKnows DEF Reload, ReloadSwaps, ReloadLooks, ReloadEnds, ReloadJudges
  <2>4. CASE ShutdownBegins \/ ShutdownSteps
    <3>1. UNCHANGED <<regVars, adminVars, conns, phase, using, id>> /\ cut \subseteq cut'
      BY <2>4 DEF ShutdownBegins, ShutdownSteps, ShutdownUnlistens, ShutdownCloses, ShutdownReturns
    <3>2. \A d \in Conns : Stale(d)' => Stale(d)
      BY <3>1 DEF regVars, adminVars, Stale, Unwanted, Refuses, Down
    <3> QED BY <3>1, <3>2 DEF adminVars, StaleIsKnown
  <2> QED BY <2>1, <2>2, <2>3, <2>4, OwnStepsStayKnown DEF Next
<1>3. Known => OnlyTheAdmittedAndMissedStay
  BY DEF StaleIsKnown, Stale, OnlyTheAdmittedAndMissedStay
<1> QED BY <1>1, <1>2, <1>3, PTL DEF Spec

-----------------------------------------------------------------------------
(* The transmission.                                                        *)
(* The types of what the proofs below speak of.                             *)
TransmissionTyped ==
    /\ at \in Ats
    /\ now \in Requests \union {NoRequest}
    /\ state \in [Requests -> States]
    /\ ok \subseteq Requests /\ replies \subseteq Requests
    /\ written \subseteq Requests /\ stable \subseteq Requests
    /\ covers \in [Requests -> SUBSET Requests]

(* The request in the hands of the reader is one no worker has.             *)
InHand ==
    /\ at \in {"paying", "loading", "placing"} <=> now # NoRequest
    /\ now # NoRequest => state[now] = "unsent"

(* A sync covers writes that are in the file, also the one it is for; what  *)
(* was done well is in the file, and stable where that was asked for.       *)
Synchronised ==
    /\ ~Writable => written = {}
    /\ \A r \in Requests :
        /\ covers[r] \subseteq written
        /\ state[r] \in {"unsent", "running", "syncing"} => r \notin ok
        /\ state[r] = "syncing" /\ Writes(r) => r \in written
        /\ state[r] = "syncing" /\ r \in Fua => r \in covers[r]
        /\ r \in ok => /\ Writes(r) => r \in written
                       /\ r \in Fua => r \in stable
                       /\ Kind[r] = "flush" => covers[r] \subseteq stable

TransmissionInv == TransmissionTyped /\ InHand /\ QuietAtTheEnd /\ Synchronised

-----------------------------------------------------------------------------
LEMMA TransmissionInvInit == TransmissionInit => TransmissionInv
  BY RequestsAssumption
  DEF TransmissionInit, TransmissionInv, TransmissionTyped, Ats, States, InHand, QuietAtTheEnd, InFlight, Synchronised

LEMMA TypedStep == TransmissionInv /\ [TransmissionNext]_transmissionVars => TransmissionTyped'
<1> SUFFICES ASSUME TransmissionInv, [TransmissionNext]_transmissionVars PROVE TransmissionTyped'
  OBVIOUS
<1> USE DEF TransmissionInv, TransmissionTyped, Becomes, Ats, States
<1>1. CASE UNCHANGED transmissionVars
  BY <1>1 DEF transmissionVars
<1>2. CASE Reader
  <2>1. ASSUME NEW r \in Requests, ReadHeader(r) PROVE TransmissionTyped'
    BY <2>1 DEF ReadHeader, Answered
  <2>2. CASE LeavesLoop \/ Pay \/ Load \/ LoadFails
    BY <2>2 DEF LeavesLoop, Pay, Load, LoadFails
  <2>3. CASE Place
    BY <2>3 DEF Place, InHand
  <2>4. CASE Drained \/ CloseImage \/ ReleaseLease
    BY <2>4 DEF Drained, CloseImage, ReleaseLease
  <2>5. CASE EndSync
    BY <2>5 DEF EndSync
  <2> QED BY <1>2, <2>1, <2>2, <2>3, <2>4, <2>5 DEF Reader
<1>3. ASSUME NEW r \in Requests, Works(r) \/ Sends(r) \/ SendFails(r) PROVE TransmissionTyped'
  <2>1. CASE Fails(r) \/ SyncFails(r) \/ Locks(r) \/ Refunds(r) \/ Finishes(r) \/ SendFails(r)
    BY <2>1 DEF Fails, SyncFails, Locks, Refunds, Finishes, SendFails
  <2>2. CASE Reads(r) \/ Sends(r)
    BY <2>2 DEF Reads, Sends
  <2>3. CASE Stores(r)
    BY <2>3 DEF Stores
  <2>4. CASE Flushes(r)
    BY <2>4 DEF Flushes
  <2>5. CASE Synced(r)
    BY <2>5 DEF Synced
  <2> QED BY <1>3, <2>1, <2>2, <2>3, <2>4, <2>5 DEF Works
<1>4. CASE Close
  BY <1>4 DEF Close
<1> QED BY <1>1, <1>2, <1>3, <1>4 DEF TransmissionNext

LEMMA QuietStep == TransmissionInv /\ [TransmissionNext]_transmissionVars => InHand' /\ QuietAtTheEnd'
<1> SUFFICES ASSUME TransmissionInv, [TransmissionNext]_transmissionVars PROVE InHand' /\ QuietAtTheEnd'
  OBVIOUS
<1> USE RequestsAssumption DEF TransmissionInv, TransmissionTyped, Becomes, InHand, QuietAtTheEnd, InFlight, States, Ats
<1>1. CASE UNCHANGED transmissionVars
  BY <1>1 DEF transmissionVars
<1>2. CASE Reader
  <2>1. ASSUME NEW r \in Requests, ReadHeader(r) PROVE InHand' /\ QuietAtTheEnd'
    BY <2>1 DEF ReadHeader
  <2>2. CASE LeavesLoop \/ Pay \/ Load \/ LoadFails
    BY <2>2 DEF LeavesLoop, Pay, Load, LoadFails
  <2>3. CASE Place
    BY <2>3 DEF Place
  <2>4. CASE Drained \/ EndSync \/ CloseImage \/ ReleaseLease
    BY <2>4 DEF Drained, EndSync, CloseImage, ReleaseLease
  <2> QED BY <1>2, <2>1, <2>2, <2>3, <2>4 DEF Reader
<1>3. ASSUME NEW r \in Requests, Works(r) \/ Sends(r) \/ SendFails(r)
      PROVE  InHand' /\ QuietAtTheEnd'
  <2>1. r \in InFlight /\ now' = now /\ at' = at /\ r # now
    BY <1>3 DEF Works, Fails, Reads, Stores, Flushes, Synced, SyncFails, Locks, Refunds,
       Finishes, Sends, SendFails
  <2>2. \A q \in Requests \ {r} : state'[q] = state[q]
    BY <1>3 DEF Works, Fails, Reads, Stores, Flushes, Synced, SyncFails, Locks, Refunds,
       Finishes, Sends, SendFails
  <2> QED BY <2>1, <2>2
<1>4. CASE Close
  BY <1>4 DEF Close
<1> QED BY <1>1, <1>2, <1>3, <1>4 DEF TransmissionNext

LEMMA SynchronisedStep == TransmissionInv /\ [TransmissionNext]_transmissionVars => Synchronised'
<1> SUFFICES ASSUME TransmissionInv, [TransmissionNext]_transmissionVars PROVE Synchronised'
  OBVIOUS
<1> USE RequestsAssumption DEF TransmissionInv, TransmissionTyped, Becomes, Synchronised, Writes
<1>1. CASE UNCHANGED transmissionVars
  BY <1>1 DEF transmissionVars
<1>2. CASE Reader
  <2>1. ASSUME NEW r \in Requests, ReadHeader(r) PROVE Synchronised'
    <3>1. Answered \subseteq written
      BY DEF Answered
    <3> QED BY <2>1, <3>1 DEF ReadHeader
  <2>2. CASE LeavesLoop \/ Pay \/ Load \/ LoadFails
    BY <2>2 DEF LeavesLoop, Pay, Load, LoadFails
  <2>3. CASE Place
    BY <2>3 DEF Place, InHand
  <2>4. CASE Drained \/ CloseImage \/ ReleaseLease
    BY <2>4 DEF Drained, CloseImage, ReleaseLease
  <2>5. CASE EndSync
    BY <2>5 DEF EndSync
  <2> QED BY <1>2, <2>1, <2>2, <2>3, <2>4, <2>5 DEF Reader
<1>3. ASSUME NEW r \in Requests, Works(r) \/ Sends(r) \/ SendFails(r) PROVE Synchronised'
  <2>1. CASE Fails(r) \/ SyncFails(r) \/ Locks(r) \/ Refunds(r) \/ Finishes(r) \/ SendFails(r) \/ Sends(r)
    BY <2>1 DEF Fails, SyncFails, Locks, Refunds, Finishes, SendFails, Sends
  <2>2. CASE Reads(r)
    BY <2>2 DEF Reads
  <2>3. CASE Stores(r)
    BY <2>3 DEF Stores
  <2>4. CASE Flushes(r)
    BY <2>4 DEF Flushes
  <2>5. CASE Synced(r)
    BY <2>5 DEF Synced
  <2> QED BY <1>3, <2>1, <2>2, <2>3, <2>4, <2>5 DEF Works
<1>4. CASE Close
  BY <1>4 DEF Close
<1> QED BY <1>1, <1>2, <1>3, <1>4 DEF TransmissionNext

LEMMA TransmissionInvariance == TransmissionSpec => []TransmissionInv
<1>1. TransmissionInv /\ [TransmissionNext]_transmissionVars => TransmissionInv'
  BY TypedStep, QuietStep, SynchronisedStep DEF TransmissionInv
<1> QED BY <1>1, TransmissionInvInit, PTL DEF TransmissionSpec

-----------------------------------------------------------------------------
(* A reply that says a request was done means it: the write is in the file, *)
(* with FUA it is stable, and after a flush so is every write answered      *)
(* before it (handle and fua of transmission.go).                           *)
THEOREM RepliesAreKept == TransmissionSpec => []RepliesAreTrue
<1>1. TransmissionInv => RepliesAreTrue
  BY DEF TransmissionInv, TransmissionTyped, Synchronised, RepliesAreTrue
<1> QED BY <1>1, TransmissionInvariance, PTL

(* Once the image is synced for the last time no worker has a request and   *)
(* the reader has none either, until the lease is released and after.       *)
THEOREM EndIsQuiet == TransmissionSpec => []QuietAtTheEnd
  BY TransmissionInvariance, PTL DEF TransmissionInv
-----------------------------------------------------------------------------
(***************************************************************************)
(* The budget.  What the requests in memory hold is a fold over a set, so  *)
(* what a fold gives comes first: by induction over the subsets of a finite*)
(* set, in the form of a set of the subsets of which a statement holds.    *)
(***************************************************************************)
(* Induction over the subsets of a finite set, of what a set says.          *)
LEMMA SubsetInduction ==
  ASSUME NEW S, IsFiniteSet(S), NEW Good,
         \A T \in SUBSET S : (\A U \in SUBSET T : U # T => U \in Good) => T \in Good
  PROVE  \A T \in SUBSET S : T \in Good
<1> DEFINE Bad == (SUBSET S) \ Good
<1> SUFFICES ASSUME Bad # {} PROVE FALSE
  OBVIOUS
<1>1. IsWellFoundedOn(StrictSubsetOrdering(S), SUBSET S)
  <2>1. IsWellFoundedOn(StrictSubsetOrdering(S), FiniteSubsetsOf(S))
    BY FS_StrictSubsetOrderingWellFounded
  <2>2. FiniteSubsetsOf(S) = SUBSET S
    BY FS_FiniteSubsetsOfFinite
  <2> QED BY <2>1, <2>2
<1>2. PICK T \in Bad : \A U \in Bad : <<U, T>> \notin StrictSubsetOrdering(S)
  <2> HIDE DEF Bad
  <2>1. Bad \subseteq SUBSET S
    BY DEF Bad
  <2> QED BY <1>1, <2>1, WFMin
<1>3. ASSUME NEW U \in SUBSET T, U # T PROVE U \in Good
  <2>1. U \in SUBSET S /\ T \in SUBSET S
    BY <1>2
  <2>2. <<U, T>> \in StrictSubsetOrdering(S)
    BY <1>3, <2>1 DEF StrictSubsetOrdering
  <2> QED BY <1>2, <2>1, <2>2
<1> QED BY <1>2, <1>3

(* What MapThenSumSet folds with: g sums the costs of every subset of A.    *)
IsSum(g, A) ==
  g = [s \in SUBSET A |->
         IF s = {} THEN 0 ELSE LET x == CHOOSE x \in s : TRUE IN Cost(x) + g[s \ {x}]]

LEMMA SumIsFold == \A A : MapThenSumSet(Cost, A) = (CHOOSE g : IsSum(g, A))[A]
  BY DEF MapThenSumSet, MapThenFoldSet, IsSum

LEMMA SumStep ==
  ASSUME NEW g, NEW A, IsSum(g, A), NEW s \in SUBSET A, s # {}
  PROVE  \E x \in s : x = (CHOOSE y \in s : TRUE) /\ g[s] = Cost(x) + g[s \ {x}]
  BY DEF IsSum

LEMMA SumsAgree ==
  ASSUME NEW A, IsFiniteSet(A), NEW B, NEW g, NEW h, IsSum(g, A), IsSum(h, B)
  PROVE  \A s \in SUBSET A : s \subseteq B => g[s] = h[s]
<1> DEFINE Good == {s \in SUBSET A : s \subseteq B => g[s] = h[s]}
<1>1. ASSUME NEW T \in SUBSET A, \A U \in SUBSET T : U # T => U \in Good
      PROVE  T \in Good
  <2>1. CASE T = {}
    BY <2>1 DEF IsSum
  <2>2. CASE T # {} /\ T \subseteq B
    <3>1. PICK x \in T : x = (CHOOSE y \in T : TRUE) /\ g[T] = Cost(x) + g[T \ {x}]
      BY <2>2, SumStep
    <3>2. \E z \in T : z = (CHOOSE y \in T : TRUE) /\ h[T] = Cost(z) + h[T \ {z}]
      BY <2>2, SumStep
    <3>3. g[T \ {x}] = h[T \ {x}]
      BY <1>1, <2>2
    <3> QED BY <3>1, <3>2, <3>3
  <2> QED BY <2>1, <2>2
<1>2. \A T \in SUBSET A : T \in Good
  <2>1. IsFiniteSet(A)
    BY FS_Subset, RequestsAssumption
  <2> HIDE DEF Good
  <2> QED BY <1>1, <2>1, SubsetInduction
<1> QED BY <1>2

LEMMA SumExists ==
  ASSUME NEW A, IsFiniteSet(A)
  PROVE  \E g : IsSum(g, A)
<1> DEFINE Good == {s \in SUBSET A : \E g : IsSum(g, s)}
<1>1. ASSUME NEW T \in SUBSET A, \A U \in SUBSET T : U # T => U \in Good
      PROVE  T \in Good
  <2>1. PICK G : G = [U \in SUBSET T |-> CHOOSE g : IsSum(g, U)]
    OBVIOUS
  <2>2. ASSUME NEW U \in SUBSET T, U # T PROVE IsSum(G[U], U)
    BY <1>1, <2>1, <2>2
  <2>3. PICK h : h = [s \in SUBSET T |->
                        IF s = {} THEN 0
                        ELSE LET x == CHOOSE x \in s : TRUE IN Cost(x) + G[s \ {x}][s \ {x}]]
    OBVIOUS
  <2>4. ASSUME NEW s \in SUBSET T, s # T PROVE h[s] = G[s][s]
    <3>1. CASE s = {}
      BY <2>2, <2>3, <2>4, <3>1 DEF IsSum
    <3>2. CASE s # {}
      <4>1. PICK x \in s : x = (CHOOSE y \in s : TRUE) /\ G[s][s] = Cost(x) + G[s][s \ {x}]
        BY <2>2, <2>4, <3>2, SumStep
      <4>2. h[s] = Cost(x) + G[s \ {x}][s \ {x}]
        BY <2>3, <3>2, <4>1
      <4>3. IsSum(G[s], s) /\ IsSum(G[s \ {x}], s \ {x})
        BY <2>2, <2>4, <4>1
      <4>4. IsFiniteSet(s)
        BY FS_Subset
      <4>5. G[s][s \ {x}] = G[s \ {x}][s \ {x}]
        BY <4>3, <4>4, SumsAgree
      <4> QED BY <4>1, <4>2, <4>5
    <3> QED BY <3>1, <3>2
  <2>5. ASSUME NEW s \in SUBSET T, s # {}, NEW x \in s PROVE h[s \ {x}] = G[s \ {x}][s \ {x}]
    BY <2>4, <2>5
  <2>6. ASSUME NEW s \in SUBSET T
        PROVE  h[s] = IF s = {} THEN 0
                      ELSE LET x == CHOOSE x \in s : TRUE IN Cost(x) + h[s \ {x}]
    <3>1. CASE s = {}
      BY <2>3, <3>1
    <3>2. CASE s # {}
      <4>1. PICK x : x = CHOOSE y \in s : TRUE
        OBVIOUS
      <4>2. x \in s
        BY <3>2, <4>1
      <4>3. h[s] = Cost(x) + G[s \ {x}][s \ {x}]
        BY <2>3, <3>2, <4>1
      <4> QED BY <2>5, <3>2, <4>1, <4>2, <4>3
    <3> QED BY <3>1, <3>2
  <2>7. IsSum(h, T)
    BY <2>3, <2>6 DEF IsSum
  <2> QED BY <2>7
<1>2. \A T \in SUBSET A : T \in Good
  <2> HIDE DEF Good
  <2> QED BY <1>1, SubsetInduction
<1> QED BY <1>2

LEMMA CostType == \A r \in Requests : Cost(r) \in Nat
  BY RequestsAssumption DEF Cost

LEMMA SumTakesAny ==
  \A A \in SUBSET Requests : \A g : IsSum(g, A) =>
    \A s \in SUBSET A : g[s] \in Nat /\ \A x \in s : g[s] = Cost(x) + g[s \ {x}]
<1> SUFFICES ASSUME NEW A \in SUBSET Requests, NEW g, IsSum(g, A)
             PROVE  \A s \in SUBSET A :
                      g[s] \in Nat /\ \A x \in s : g[s] = Cost(x) + g[s \ {x}]
  OBVIOUS
<1> DEFINE Good == {s \in SUBSET A : g[s] \in Nat /\ \A x \in s : g[s] = Cost(x) + g[s \ {x}]}
<1>1. ASSUME NEW T \in SUBSET A, \A U \in SUBSET T : U # T => U \in Good
      PROVE  T \in Good
  <2>1. CASE T = {}
    BY <2>1 DEF IsSum
  <2>2. CASE T # {}
    <3>1. PICK x \in T : g[T] = Cost(x) + g[T \ {x}]
      BY <2>2, SumStep
    <3>2. g[T \ {x}] \in Nat /\ Cost(x) \in Nat
      BY <1>1, CostType
    <3>3. ASSUME NEW y \in T, y # x PROVE g[T] = Cost(y) + g[T \ {y}]
      <4>1. T \ {x} \in Good /\ y \in T \ {x}
        BY <1>1, <3>3
      <4>2. g[T \ {x}] = Cost(y) + g[(T \ {x}) \ {y}]
        BY <4>1
      <4>3. T \ {y} \in Good /\ x \in T \ {y}
        BY <1>1, <3>3
      <4>4. g[T \ {y}] = Cost(x) + g[(T \ {y}) \ {x}]
        BY <4>3
      <4>5. (T \ {x}) \ {y} = (T \ {y}) \ {x} /\ (T \ {x}) \ {y} \in Good
        BY <1>1
      <4>6. Cost(x) \in Nat /\ Cost(y) \in Nat /\ g[(T \ {x}) \ {y}] \in Nat
        BY <4>5, CostType
      <4>7. g[T] = Cost(x) + (Cost(y) + g[(T \ {x}) \ {y}])
        BY <3>1, <4>2
      <4>8. g[T \ {y}] = Cost(x) + g[(T \ {x}) \ {y}]
        BY <4>4, <4>5
      <4> HIDE DEF Good
      <4> QED BY <4>6, <4>7, <4>8
    <3>4. g[T] \in Nat
      BY <3>1, <3>2
    <3>5. \A y \in T : g[T] = Cost(y) + g[T \ {y}]
      BY <3>1, <3>3
    <3> QED BY <3>4, <3>5
  <2> QED BY <2>1, <2>2
<1>2. \A T \in SUBSET A : T \in Good
  <2>1. IsFiniteSet(A)
    BY FS_Subset, RequestsAssumption
  <2> HIDE DEF Good
  <2> QED BY <1>1, <2>1, SubsetInduction
<1> QED BY <1>2

(* What the requests of a set cost together.                               *)
Owed(A) == MapThenSumSet(Cost, A)

(* The sum of costs: of nothing it is zero, and one more adds its cost.     *)
LEMMA SumOfCosts ==
  /\ Owed({}) = 0
  /\ \A A \in SUBSET Requests :
        /\ Owed(A) \in Nat
        /\ \A x \in A : Owed(A) = Cost(x) + Owed(A \ {x})
<1>1. ASSUME NEW A \in SUBSET Requests
      PROVE  /\ IsFiniteSet(A)
             /\ \E g : IsSum(g, A) /\ Owed(A) = g[A]
  <2>1. IsFiniteSet(A)
    BY FS_Subset, RequestsAssumption
  <2>2. PICK g : IsSum(g, A) /\ g = (CHOOSE h : IsSum(h, A))
    BY <2>1, SumExists
  <2>3. MapThenSumSet(Cost, A) = g[A]
    BY <2>2, SumIsFold
  <2> QED BY <2>1, <2>2, <2>3 DEF Owed
<1>2. Owed({}) = 0
  <2>1. PICK g : IsSum(g, {}) /\ Owed({}) = g[{}]
    BY <1>1
  <2> QED BY <2>1 DEF IsSum
<1>3. ASSUME NEW A \in SUBSET Requests
      PROVE  /\ Owed(A) \in Nat
             /\ \A x \in A : Owed(A) = Cost(x) + Owed(A \ {x})
  <2>1. PICK g : IsSum(g, A) /\ Owed(A) = g[A]
    BY <1>1
  <2>2. \A s \in SUBSET A : g[s] \in Nat /\ \A x \in s : g[s] = Cost(x) + g[s \ {x}]
    <3>1. IsSum(g, A)
      BY <2>1
    <3>2. \A h : IsSum(h, A) =>
            \A s \in SUBSET A : h[s] \in Nat /\ \A x \in s : h[s] = Cost(x) + h[s \ {x}]
      BY SumTakesAny
    <3> QED BY <3>1, <3>2
  <2>3. ASSUME NEW x \in A PROVE Owed(A \ {x}) = g[A \ {x}]
    <3>1. PICK h : IsSum(h, A \ {x}) /\ Owed(A \ {x}) = h[A \ {x}]
      BY <1>1
    <3>2. g[A \ {x}] = h[A \ {x}]
      BY <1>1, <2>1, <3>1, SumsAgree
    <3> QED BY <3>1, <3>2
  <2> QED BY <2>1, <2>2, <2>3
<1> QED BY <1>2, <1>3

-----------------------------------------------------------------------------
(* Whoever is charged is a request; requests in flight are finite in number.*)
LEMMA ChargedAreRequests ==
  TransmissionInv => /\ Charged \in SUBSET Requests /\ IsFiniteSet(InFlight)
          /\ InFlight \subseteq Requests
<1> SUFFICES ASSUME TransmissionInv
             PROVE  /\ Charged \in SUBSET Requests /\ IsFiniteSet(InFlight)
                    /\ InFlight \subseteq Requests
  OBVIOUS
<1>1. Charged \in SUBSET Requests
  BY DEF TransmissionInv, TransmissionTyped, InHand, Charged
<1>2. InFlight \in SUBSET Requests
  BY DEF InFlight
<1> QED BY <1>1, <1>2, RequestsAssumption, FS_Subset

FreeIsANumber == free \in Int

(* A step leaves what is charged as it is, or what it pays or gives back is *)
(* the cost of the request that joins or leaves it.                         *)
Balanced ==
  \/ Charged' = Charged /\ free' = free
  \/ \E r \in Requests : r \notin Charged /\ Charged' = Charged \union {r} /\ free' = free - Cost(r)
  \/ \E r \in Charged : Charged' = Charged \ {r} /\ free' = free + Cost(r)

LEMMA StepsBalance == TransmissionInv /\ FreeIsANumber /\ [TransmissionNext]_transmissionVars => Balanced
<1> SUFFICES ASSUME TransmissionInv, FreeIsANumber, [TransmissionNext]_transmissionVars PROVE Balanced
  OBVIOUS
<1> USE RequestsAssumption DEF TransmissionInv, TransmissionTyped, InHand, FreeIsANumber, Balanced, Charged, Becomes, States, Ats
<1>1. CASE UNCHANGED transmissionVars
  BY <1>1 DEF transmissionVars
<1>2. CASE Reader
  <2>1. ASSUME NEW r \in Requests, ReadHeader(r) PROVE Balanced
    <3>1. CASE at' = "paying"
      BY <2>1, <3>1 DEF ReadHeader
    <3>2. CASE at' # "paying"
      <4>1. Cost(r) = 0 /\ at' = "placing" /\ now' = r /\ free' = free - Cost(r)
        <5>1. ~(Kind[r] = "write") /\ ~(Kind[r] = "read" /\ Length[r] <= MaxBlock)
          BY <2>1, <3>2 DEF ReadHeader
        <5> QED BY <2>1, <3>2, <5>1 DEF ReadHeader, Cost
      <4>2. r \notin Charged /\ Charged' = Charged \union {r}
        BY <2>1, <4>1 DEF ReadHeader
      <4> QED BY <4>1, <4>2
    <3> QED BY <3>1, <3>2
  <2>2. CASE LeavesLoop \/ Load \/ Drained \/ EndSync \/ CloseImage \/ ReleaseLease
    BY <2>2 DEF LeavesLoop, Load, Drained, EndSync, CloseImage, ReleaseLease
  <2>3. CASE Pay
    BY <2>3 DEF Pay
  <2>4. CASE LoadFails
    BY <2>4 DEF LoadFails
  <2>5. CASE Place
    BY <2>5 DEF Place
  <2> QED BY <1>2, <2>1, <2>2, <2>3, <2>4, <2>5 DEF Reader
<1>3. ASSUME NEW r \in Requests, Works(r) \/ Sends(r) \/ SendFails(r) PROVE Balanced
  <2>1. CASE Refunds(r)
    BY <2>1 DEF Refunds
  <2>2. CASE Finishes(r)
    BY <2>2 DEF Finishes
  <2>3. CASE ~Refunds(r) /\ ~Finishes(r)
    <3>1. /\ UNCHANGED <<at, now, free>>
          /\ \E t \in {"syncing", "replying", "sending", "leaving"} : Becomes(r, t)
          /\ state[r] \notin {"unsent", "refunded", "done"}
      BY <1>3, <2>3 DEF Works, Fails, Reads, Stores, Flushes, Synced, SyncFails, Locks, Sends, SendFails
    <3> QED BY <3>1
  <2> QED BY <2>1, <2>2, <2>3
<1>4. CASE Close
  BY <1>4 DEF Close
<1> QED BY <1>1, <1>2, <1>3, <1>4 DEF TransmissionNext

(* No step but one that found a slot free takes one.                        *)
LEMMA SlotsStep ==
  TransmissionInv /\ Cardinality(InFlight) <= MaxInFlight /\ [TransmissionNext]_transmissionVars => Cardinality(InFlight') <= MaxInFlight
<1> SUFFICES ASSUME TransmissionInv, Cardinality(InFlight) <= MaxInFlight, [TransmissionNext]_transmissionVars
             PROVE  Cardinality(InFlight') <= MaxInFlight
  OBVIOUS
<1>1. CASE Place
  <2>1. InFlight' = InFlight \union {now}
    BY <1>1, RequestsAssumption DEF Place, Becomes, InFlight, TransmissionInv, TransmissionTyped, InHand, States
  <2>2. PICK F : F = InFlight
    OBVIOUS
  <2>3. IsFiniteSet(F)
    BY <2>2, ChargedAreRequests
  <2>4. Cardinality(F) \in Nat
    BY <2>3, FS_CardinalityType
  <2>5. Cardinality(F \union {now}) \in {Cardinality(F), Cardinality(F) + 1}
    BY <2>3, FS_AddElement
  <2> QED BY <1>1, <2>1, <2>2, <2>4, <2>5, LimitsAssumption DEF Place
<1>2. CASE ~Place
  <2>1. InFlight' \subseteq InFlight
    <3>1. ASSUME NEW r \in Requests, state'[r] # state[r]
          PROVE  state[r] \notin {"unsent", "done"}
      BY <1>2, <3>1 DEF TransmissionNext, Reader, Works, ReadHeader, LeavesLoop, Pay, Load, LoadFails, Drained, EndSync,
         CloseImage, ReleaseLease, Fails, Reads, Stores, Flushes, Synced, SyncFails, Locks, Sends,
         SendFails, Refunds, Finishes, Close, transmissionVars, Becomes, TransmissionInv, TransmissionTyped, States
    <3> QED BY <3>1 DEF InFlight
  <2>2. Cardinality(InFlight') <= Cardinality(InFlight) /\ Cardinality(InFlight) \in Nat
    BY <2>1, ChargedAreRequests, FS_Subset, FS_CardinalityType
  <2>3. Cardinality(InFlight') \in Nat
    BY <2>1, ChargedAreRequests, FS_Subset, FS_CardinalityType
  <2> QED BY <2>2, <2>3, LimitsAssumption
<1> QED BY <1>1, <1>2

LEMMA BudgetStep ==
  TransmissionInv /\ BudgetIsKept /\ FreeIsANumber /\ [TransmissionNext]_transmissionVars => BudgetIsKept' /\ FreeIsANumber'
<1> SUFFICES ASSUME TransmissionInv, BudgetIsKept, FreeIsANumber, [TransmissionNext]_transmissionVars
             PROVE  BudgetIsKept' /\ FreeIsANumber'
  OBVIOUS
<1>1. Cardinality(InFlight') <= MaxInFlight
  BY SlotsStep DEF BudgetIsKept
<1>2. PICK C, D : C = Charged /\ D = Charged'
  OBVIOUS
<1>3. C \in SUBSET Requests /\ D \in SUBSET Requests
  <2>1. TransmissionInv'
    BY TypedStep, QuietStep, SynchronisedStep DEF TransmissionInv
  <2>2. Charged' \in SUBSET Requests
    BY <2>1 DEF TransmissionInv, TransmissionTyped, InHand, Charged
  <2> QED BY <1>2, <2>2, ChargedAreRequests
<1>4. free = InFlightBytes - Owed(C)
  BY <1>2 DEF BudgetIsKept, Owed
<1>5. free' = InFlightBytes - Owed(D)
  <2>1. Balanced
    BY StepsBalance
  <2>2. CASE C = D /\ free' = free
    BY <1>4, <2>2
  <2>3. CASE \E r \in Requests : r \notin C /\ D = C \union {r} /\ free' = free - Cost(r)
    <3>1. PICK r \in Requests : r \notin C /\ D = C \union {r} /\ free' = free - Cost(r)
      BY <2>3
    <3>2. Owed(D) = Cost(r) + Owed(C)
      <4>1. r \in D /\ D \ {r} = C
        BY <3>1
      <4> QED BY <1>3, <4>1, SumOfCosts
    <3>3. Owed(C) \in Nat /\ Cost(r) \in Nat
      BY <1>3, SumOfCosts, CostType
    <3> QED BY <1>4, <3>1, <3>2, <3>3, LimitsAssumption
  <2>4. CASE \E r \in C : D = C \ {r} /\ free' = free + Cost(r)
    <3>1. PICK r \in C : D = C \ {r} /\ free' = free + Cost(r)
      BY <2>4
    <3>2. Owed(C) = Cost(r) + Owed(D)
      BY <1>3, <3>1, SumOfCosts
    <3>3. Owed(D) \in Nat /\ Cost(r) \in Nat
      BY <1>3, SumOfCosts, CostType
    <3> QED BY <1>4, <3>1, <3>2, <3>3, LimitsAssumption
  <2> QED BY <1>2, <2>1, <2>2, <2>3, <2>4 DEF Balanced
<1>6. free' \in Int
  BY <1>3, <1>5, SumOfCosts, LimitsAssumption
<1>7. Owed(Charged') = Owed(D)
  BY <1>2
<1> QED BY <1>1, <1>5, <1>6, <1>7 DEF BudgetIsKept, FreeIsANumber, Owed

(* Whatever a request leaves by, its bytes go back to the budget and its    *)
(* slot to the next: for any budget, requests and slots (budget.acquire and *)
(* release, and the semaphore, of transmission.go).                         *)
THEOREM BudgetStaysKept == TransmissionSpec => []BudgetIsKept
<1>1. TransmissionInit => BudgetIsKept /\ FreeIsANumber
  <2> SUFFICES ASSUME TransmissionInit PROVE BudgetIsKept /\ FreeIsANumber
    OBVIOUS
  <2>1. Charged = {} /\ InFlight = {}
    BY DEF TransmissionInit, Charged, InFlight
  <2>2. Cardinality(InFlight) = 0
    BY <2>1, FS_EmptySet
  <2>3. Owed(Charged) = 0
    BY <2>1, SumOfCosts
  <2> QED BY <2>2, <2>3, LimitsAssumption DEF TransmissionInit, BudgetIsKept, FreeIsANumber, Owed
<1>2. TransmissionInv /\ [TransmissionNext]_transmissionVars => TransmissionInv'
  BY TypedStep, QuietStep, SynchronisedStep DEF TransmissionInv
<1> QED BY <1>1, <1>2, TransmissionInvInit, BudgetStep, PTL DEF TransmissionSpec
=============================================================================
