----------------------------- MODULE DiskRegistry -----------------------------
(***************************************************************************)
(* The registry of leases of one folder of disk images, as in              *)
(* internal/disks/locks.go: what every image is in use by, kept in one     *)
(* entry per image under one mutex, and the takeover by which a client     *)
(* that lost its connection ends its own old session and waits for it.     *)
(*                                                                         *)
(* Two kinds of holder use it.  A session is one NBD connection: a Session *)
(* object is made for it, asks for one image once, and is over when it     *)
(* lets go.  A task is a request of the Disks page, a download or a clone  *)
(* job, which takes Hold and Exclusive leases and never waits for one.     *)
(* One action is one critical section of registry.mu, or a step taken      *)
(* without it.                                                             *)
(***************************************************************************)
EXTENDS Naturals, FiniteSets

CONSTANTS Keys,       \* images
          Sessions,   \* the NBD connections of a run, each used once
          Tasks,      \* the page requests and jobs that may run at once
          Cert,       \* session -> fingerprint of its client certificate
          NoCert,     \* the empty fingerprint
          None        \* no session

ASSUME NoneAssumption == None \notin Sessions
ASSUME TasksAssumption == IsFiniteSet(Tasks) /\ Tasks \intersect Sessions = {}

VARIABLES entries,    \* registry.entries: image -> entry
          pc,         \* session -> how far acquire, or its session, is
          ask,        \* session -> image and mode it asks for
          victim,     \* session -> the session it takes over from
          closed,     \* sessions whose closeOnce has fired
          leases      \* task -> leases it holds, each an image and a mode

regVars == <<entries, pc, ask, victim, closed, leases>>

TaskModes == {"Hold", "Exclusive"}
SessionModes == {"Reader", "Writer"}

(* An entry the map does not hold is one that is empty: acquire makes it    *)
(* and release deletes it within the mutex, so nobody sees the difference.  *)
Entry == [writer : Sessions \union {None}, readers : SUBSET Sessions,
          holds : Nat, exclusive : BOOLEAN]

Empty == [writer |-> None, readers |-> {}, holds |-> 0, exclusive |-> FALSE]

PCs == {"new", "asking", "evicting", "waiting", "attached", "refused", "released"}

-----------------------------------------------------------------------------
(* The switch of acquire.                                                   *)

(* Mutated: whoever comes takes over.                                       *)
AnyoneTakesOver(e, s) == e.writer # None

(* The writer of e is the same client, which a writer takes over from.      *)
TakesOver(e, s) ==
    /\ e.writer # None
    /\ Cert[s] # NoCert
    /\ Cert[e.writer] = Cert[s]

(* Mutated: a writer does not keep an image from being held.                *)
RefusedButForWriter(e, mode) ==
    \/ e.exclusive
    \/ mode = "Exclusive" /\ (e.writer # None \/ e.readers # {} \/ e.holds > 0)
    \/ mode = "Writer" /\ e.holds > 0

Refused(e, mode) ==
    \/ e.exclusive
    \/ mode = "Exclusive" /\ (e.writer # None \/ e.readers # {} \/ e.holds > 0)
    \/ mode = "Hold" /\ e.writer # None
    \/ mode = "Writer" /\ e.holds > 0

(* Mutated: holds are looked at for other modes only.                       *)
RefusedWriterButForHolds(e, s) ==
    e.exclusive \/ (e.writer # None /\ ~TakesOver(e, s))

(* A writer in the way of a writer is looked at before the holds are.       *)
RefusedWriter(e, s) ==
    \/ e.exclusive
    \/ IF e.writer # None THEN ~TakesOver(e, s) ELSE e.holds > 0

SessionRefused(e, s) ==
    IF ask[s].mode = "Writer" THEN RefusedWriter(e, s) ELSE Refused(e, "Reader")

(* What a lease of the mode adds to an entry; s is the session of a reader  *)
(* or writer.                                                               *)
Granted(e, mode, s) ==
    CASE mode = "Reader"    -> [e EXCEPT !.readers = e.readers \union {s}]
      [] mode = "Writer"    -> [e EXCEPT !.writer = s]
      [] mode = "Hold"      -> [e EXCEPT !.holds = e.holds + 1]
      [] mode = "Exclusive" -> [e EXCEPT !.exclusive = TRUE]

(* Mutated: a reader that goes takes all readers with it.                   *)
ReturnedForAll(e, mode, s) ==
    CASE mode = "Reader"    -> [e EXCEPT !.readers = {}]
      [] mode = "Writer"    -> IF e.writer = s THEN [e EXCEPT !.writer = None] ELSE e
      [] mode = "Hold"      -> [e EXCEPT !.holds = e.holds - 1]
      [] mode = "Exclusive" -> [e EXCEPT !.exclusive = FALSE]

(* What release takes from it.                                              *)
Returned(e, mode, s) ==
    CASE mode = "Reader"    -> [e EXCEPT !.readers = e.readers \ {s}]
      [] mode = "Writer"    -> IF e.writer = s THEN [e EXCEPT !.writer = None] ELSE e
      [] mode = "Hold"      -> [e EXCEPT !.holds = e.holds - 1]
      [] mode = "Exclusive" -> [e EXCEPT !.exclusive = FALSE]

-----------------------------------------------------------------------------
Init ==
    /\ entries = [k \in Keys |-> Empty]
    /\ pc = [s \in Sessions |-> "new"]
    /\ ask \in [Sessions -> [key : Keys, mode : SessionModes]]
    /\ victim = [s \in Sessions |-> None]
    /\ closed = {}
    /\ leases = [t \in Tasks |-> {}]

Become(s, state) == pc' = [pc EXCEPT ![s] = state]

(* NewSession, and Attach as far as the call of acquire.                    *)
Ask(s) ==
    /\ pc[s] = "new"
    /\ Become(s, "asking")
    /\ UNCHANGED <<entries, ask, victim, closed, leases>>

(* Mutated: a writer goes in without waiting for the one it takes over.     *)
AttachAtOnce(s) ==
    LET k == ask[s].key  e == entries[k] IN
    /\ pc[s] = "asking"
    /\ ~SessionRefused(e, s)
    /\ entries' = [entries EXCEPT ![k] = Granted(e, ask[s].mode, s)]
    /\ Become(s, "attached")
    /\ UNCHANGED <<ask, victim, closed, leases>>

(* acquire puts the session into the entry and registers it in byID.        *)
Attach(s) ==
    LET k == ask[s].key  e == entries[k] IN
    /\ pc[s] = "asking"
    /\ ~SessionRefused(e, s)
    /\ ask[s].mode = "Writer" => e.writer = None
    /\ entries' = [entries EXCEPT ![k] = Granted(e, ask[s].mode, s)]
    /\ Become(s, "attached")
    /\ UNCHANGED <<ask, victim, closed, leases>>

Refuse(s) ==
    /\ pc[s] = "asking"
    /\ SessionRefused(entries[ask[s].key], s)
    /\ Become(s, "refused")
    /\ UNCHANGED <<entries, ask, victim, closed, leases>>

(* acquire finds the same client attached and leaves the mutex with the     *)
(* session it is about to close.                                            *)
PickVictim(s) ==
    LET e == entries[ask[s].key] IN
    /\ pc[s] = "asking"
    /\ ~SessionRefused(e, s)
    /\ ask[s].mode = "Writer" /\ e.writer # None
    /\ victim' = [victim EXCEPT ![s] = e.writer]
    /\ Become(s, "evicting")
    /\ UNCHANGED <<entries, ask, closed, leases>>

(* victim.Close: closes its connection, once, whoever else also asks.       *)
Evict(s) ==
    /\ pc[s] = "evicting"
    /\ closed' = closed \union {victim[s]}
    /\ Become(s, "waiting")
    /\ UNCHANGED <<entries, ask, victim, leases>>

(* victim.released is closed: acquire goes round its loop once more.        *)
Retry(s) ==
    /\ pc[s] = "waiting"
    /\ pc[victim[s]] = "released"
    /\ Become(s, "asking")
    /\ UNCHANGED <<entries, ask, victim, closed, leases>>

(* Mutated: there is no timer, only the session it waits for.               *)
GiveUpNever(s) ==
    /\ pc[s] = "waiting"
    /\ pc[victim[s]] = "released"
    /\ Become(s, "refused")
    /\ UNCHANGED <<entries, ask, victim, closed, leases>>

(* The takeoverWait ran out first.  A released channel that is ready when   *)
(* the timer fires may lose to it: select picks either.                     *)
GiveUp(s) ==
    /\ pc[s] = "waiting"
    /\ Become(s, "refused")
    /\ UNCHANGED <<entries, ask, victim, closed, leases>>

(* Disconnect on the Disks page, which closes a session byID holds.         *)
Disconnect(s) ==
    /\ pc[s] = "attached"
    /\ s \notin closed
    /\ closed' = closed \union {s}
    /\ UNCHANGED <<entries, pc, ask, victim, leases>>

(* lease.Release of a session: the client went, or its session was closed.  *)
Detach(s) ==
    LET k == ask[s].key IN
    /\ pc[s] = "attached"
    /\ entries' = [entries EXCEPT ![k] = Returned(entries[k], ask[s].mode, s)]
    /\ Become(s, "released")
    /\ UNCHANGED <<ask, victim, closed, leases>>

(* acquire for a task, which is refused, and changes nothing, or granted.   *)
TakeLease(t, k, mode) ==
    /\ ~Refused(entries[k], mode)
    /\ \A m \in TaskModes : <<k, m>> \notin leases[t]
    /\ entries' = [entries EXCEPT ![k] = Granted(entries[k], mode, None)]
    /\ leases' = [leases EXCEPT ![t] = @ \union {<<k, mode>>}]
    /\ UNCHANGED <<pc, ask, victim, closed>>

DropLease(t, k, mode) ==
    /\ <<k, mode>> \in leases[t]
    /\ entries' = [entries EXCEPT ![k] = Returned(entries[k], mode, None)]
    /\ leases' = [leases EXCEPT ![t] = @ \ {<<k, mode>>}]
    /\ UNCHANGED <<pc, ask, victim, closed>>

(* The server stops and starts again: the registry lived in its memory, and *)
(* so did the connections and the requests.                                 *)
Restart ==
    /\ entries' = [k \in Keys |-> Empty]
    /\ pc' = [s \in Sessions |-> IF pc[s] = "new" THEN "new" ELSE "released"]
    /\ leases' = [t \in Tasks |-> {}]
    /\ UNCHANGED <<ask, victim, closed>>

Step(s) ==
    \/ Ask(s) \/ Attach(s) \/ Refuse(s) \/ PickVictim(s) \/ Evict(s)
    \/ Retry(s) \/ GiveUp(s) \/ Disconnect(s) \/ Detach(s)

TaskStep(t) ==
    \E k \in Keys, mode \in TaskModes : TakeLease(t, k, mode) \/ DropLease(t, k, mode)

Next ==
    \/ \E s \in Sessions : Step(s)
    \/ \E t \in Tasks : TaskStep(t)
    \/ Restart

Spec == Init /\ [][Next]_regVars

(* The goroutine of a connection goes on running, and its timer fires.  No  *)
(* session has to let go, not even one that was closed: it may hang in the  *)
(* filesystem, which is what takeoverWait is for.                           *)
Fairness ==
    \A s \in Sessions :
        /\ WF_regVars(Attach(s) \/ Refuse(s) \/ PickVictim(s))
        /\ WF_regVars(Evict(s))
        /\ WF_regVars(Retry(s) \/ GiveUp(s))

FairSpec == Spec /\ Fairness

-----------------------------------------------------------------------------
TypeOK ==
    /\ entries \in [Keys -> Entry]
    /\ pc \in [Sessions -> PCs]
    /\ ask \in [Sessions -> [key : Keys, mode : SessionModes]]
    /\ victim \in [Sessions -> Sessions \union {None}]
    /\ closed \subseteq Sessions
    /\ leases \in [Tasks -> SUBSET (Keys \X TaskModes)]

Attached(k, mode) ==
    {s \in Sessions : pc[s] = "attached" /\ ask[s] = [key |-> k, mode |-> mode]}

Holding(k, mode) == {t \in Tasks : <<k, mode>> \in leases[t]}

(* The entry of an image says exactly what is held on it: no lease is lost  *)
(* and none is left behind, whoever comes, goes, is closed or takes over.   *)
EntriesMatchLeases ==
    \A k \in Keys :
        /\ Attached(k, "Writer") = {entries[k].writer} \ {None}
        /\ Attached(k, "Reader") = entries[k].readers
        /\ Cardinality(Holding(k, "Hold")) = entries[k].holds
        /\ entries[k].exclusive <=> Holding(k, "Exclusive") # {}

(* The leases of the image k, as DiskLocks has them.                        *)
HeldOn(k) ==
    {l \in [who : Sessions, mode : SessionModes] :
        pc[l.who] = "attached" /\ ask[l.who] = [key |-> k, mode |-> l.mode]}
    \union {l \in [who : Tasks, mode : TaskModes] : <<k, l.mode>> \in leases[l.who]}

Locks == INSTANCE DiskLocks WITH Holders <- Sessions \union Tasks,
                                 held <- [k \in Keys |-> HeldOn(k)]

(* What the modes are for (locks.go, type Mode): one writer, none while the *)
(* image is downloaded or cloned, and nothing beside an exclusive lease.    *)
LeasesExclude == Locks!Exclusion

(* The registry does nothing to the leases that DiskLocks does not allow:   *)
(* one lease is taken or dropped at a time, and only when it may be.        *)
ImplementsLocks == Locks!Spec

(* A takeover waits for a session of the same client that has, or had, the  *)
(* image read-write, and that was closed, whoever of several newcomers      *)
(* closed it: never for one that itself waits, so that no two newcomers     *)
(* wait for each other, and never for another client's.                     *)
WaitsForItsOwnWriter ==
    \A s \in Sessions :
        pc[s] \in {"evicting", "waiting"} =>
            /\ victim[s] \in Sessions /\ pc[victim[s]] \in {"attached", "released"}
            /\ ask[victim[s]] = ask[s] /\ ask[s].mode = "Writer"
            /\ Cert[victim[s]] = Cert[s] /\ Cert[s] # NoCert
            /\ pc[s] = "waiting" => victim[s] \in closed

(* acquire comes back: a newcomer attaches or is refused, however many of   *)
(* the same client come at once, and however late the old one lets go.      *)
AcquireReturns ==
    \A s \in Sessions :
        pc[s] = "asking" ~> pc[s] \in {"attached", "refused", "released"}
=============================================================================
