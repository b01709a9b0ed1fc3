------------------------------- MODULE NbdServer -------------------------------
(***************************************************************************)
(* The NBD server (internal/nbd: server.go, conn.go): its accept loop, its *)
(* connections from the greeting to the end, the settings a reload swaps   *)
(* under them, and its shutdown.  Every connection is a session of         *)
(* DiskRegistry once it attaches an image.                                 *)
(*                                                                         *)
(* A client is its certificate.  What settings say of a client is whether  *)
(* they admit it (its CA, the revocation list, its account) and whether    *)
(* its account may write.  What a connection does once it transmits is     *)
(* NbdTransmission.  A connection asks for an image once.                  *)
(***************************************************************************)
EXTENDS Naturals, FiniteSets

CONSTANTS Keys, Conns, Cert, NoCert, None,   \* of DiskRegistry; a connection is a session
          Settings     \* the configurations a reload may bring

ASSUME NoneAssumption == None \notin Conns /\ None \notin [writable : BOOLEAN]
ASSUME SettingsAssumption ==
    \A set \in Settings :
        set.maxConnections \in Nat /\ set.write \subseteq set.admit /\ NoCert \notin set.admit

VARIABLES entries, pc, ask, victim, closed, leases   \* of DiskRegistry
VARIABLES settings,   \* Server.snapshot
          conns,      \* Server.conns
          phase,      \* connection -> how far its goroutine is
          using,      \* connection -> settings the step it is in took, or None
          id,         \* connection -> whom it logged in as: may it write, or None
          cut,        \* connections closed by the server or by their own end
          reload,     \* how far Reload is, and the connections it has yet to judge
          shutdown,   \* how far Shutdown is, and the connections it has yet to close
          missed      \* history: connections a reload judged during their handshake

Reg == INSTANCE DiskRegistry WITH Sessions <- Conns, Tasks <- {}

regVars == <<entries, pc, ask, victim, closed, leases>>
adminVars == <<settings, reload, missed>>
vars == <<regVars, adminVars, conns, phase, using, id, cut, shutdown>>

Phases == {"new", "taken", "options", "tls", "user", "attaching", "replying",
           "transmit", "ending", "gone"}

(* Its socket is closed: it can neither read nor write any more.            *)
Down(c) == c \in cut \union closed

To(c, p) == phase' = [phase EXCEPT ![c] = p]

-----------------------------------------------------------------------------
(* The accept loop: one connection at a time, past its address and then,    *)
(* under the mutex, past the limit of the settings it took first.           *)

Takes(c) ==
    /\ phase[c] = "new" /\ \A d \in Conns : phase[d] # "taken"
    /\ shutdown.at \in {"no", "begun"}
    /\ using' = [using EXCEPT ![c] = settings]
    /\ To(c, "taken")
    /\ UNCHANGED <<regVars, adminVars, conns, id, cut, shutdown>>

(* Mutated: a connection accepted before the listener closed is let in.     *)
AdmitsWhileShuttingDown(c) ==
    /\ phase[c] = "taken"
    /\ Cardinality(conns) < using[c].maxConnections
    /\ conns' = conns \union {c}
    /\ To(c, "options")
    /\ UNCHANGED <<regVars, adminVars, using, id, cut, shutdown>>

Admits(c) ==
    /\ phase[c] = "taken"
    /\ shutdown.at = "no" /\ Cardinality(conns) < using[c].maxConnections
    /\ conns' = conns \union {c}
    /\ To(c, "options")
    /\ UNCHANGED <<regVars, adminVars, using, id, cut, shutdown>>

(* The address is not allowed, the server is full, or shutting down.        *)
TurnsAway(c) ==
    /\ phase[c] = "taken"
    /\ To(c, "gone")
    /\ UNCHANGED <<regVars, adminVars, conns, using, id, cut, shutdown>>

-----------------------------------------------------------------------------
(* The handshake.                                                           *)

(* startTLS takes the settings of this moment ...                           *)
StartTLS(c) ==
    /\ phase[c] = "options" /\ ~Down(c)
    /\ using' = [using EXCEPT ![c] = settings]
    /\ To(c, "tls")
    /\ UNCHANGED <<regVars, adminVars, conns, id, cut, shutdown>>

(* ... and verify judges the client by them.                                *)
LogsIn(c) ==
    /\ phase[c] = "tls" /\ ~Down(c)
    /\ Cert[c] \in using[c].admit
    /\ id' = [id EXCEPT ![c] = [writable |-> Cert[c] \in using[c].write]]
    /\ To(c, "user")
    /\ UNCHANGED <<regVars, adminVars, conns, using, cut, shutdown>>

(* The login is refused, the client leaves or breaks the protocol, its      *)
(* HandshakeTimeout is over, or its socket is closed: serve returns.        *)
Leaves(c) ==
    /\ phase[c] \in {"options", "tls", "user"}
    /\ cut' = cut \union {c}
    /\ To(c, "ending")
    /\ UNCHANGED <<regVars, adminVars, conns, using, id, shutdown>>

(* Mutated: the session is not told whether its account may write.          *)
AsksForEitherMode(c) ==
    /\ phase[c] = "user"
    /\ Reg!Ask(c)
    /\ To(c, "attaching")
    /\ UNCHANGED <<adminVars, conns, using, id, cut, shutdown>>

(* attach, of NBD_OPT_GO and NBD_OPT_EXPORT_NAME.                           *)
AsksForImage(c) ==
    /\ phase[c] = "user"
    /\ ask[c].mode = IF id[c].writable THEN "Writer" ELSE "Reader"
    /\ Reg!Ask(c)
    /\ To(c, "attaching")
    /\ UNCHANGED <<adminVars, conns, using, id, cut, shutdown>>

Waits(c) ==
    /\ phase[c] = "attaching"
    /\ Reg!PickVictim(c) \/ Reg!Evict(c) \/ Reg!Retry(c)
    /\ UNCHANGED <<adminVars, conns, phase, using, id, cut, shutdown>>

Attaches(c) ==
    /\ phase[c] = "attaching"
    /\ Reg!Attach(c)
    /\ To(c, "replying")
    /\ UNCHANGED <<adminVars, conns, using, id, cut, shutdown>>

(* The image is in use, or could not be opened once it had the lease.       *)
AttachFails(c) ==
    /\ \/ phase[c] = "attaching" /\ (Reg!Refuse(c) \/ Reg!GiveUp(c))
       \/ phase[c] = "replying" /\ Reg!Detach(c)
    /\ To(c, "user")
    /\ UNCHANGED <<adminVars, conns, using, id, cut, shutdown>>

(* The replies to NBD_OPT_GO, and transmit begins.                          *)
Replies(c) ==
    /\ phase[c] = "replying" /\ ~Down(c)
    /\ To(c, "transmit")
    /\ UNCHANGED <<regVars, adminVars, conns, using, id, cut, shutdown>>

(* A reply cannot be written: negotiate returns the error, and serve does   *)
(* without transmit, which is where the image would be let go of.           *)
ReplyFails(c) ==
    /\ phase[c] = "replying"
    /\ cut' = cut \union {c}
    /\ To(c, "ending")
    /\ UNCHANGED <<regVars, adminVars, conns, using, id, shutdown>>

(* transmit is over, its requests done, its image synced and let go of.     *)
TransmitEnds(c) ==
    /\ phase[c] = "transmit"
    /\ Reg!Detach(c)
    /\ cut' = cut \union {c}
    /\ To(c, "ending")
    /\ UNCHANGED <<adminVars, conns, using, id, shutdown>>

(* The deferred end of the goroutine.                                       *)
Ends(c) ==
    /\ phase[c] = "ending"
    /\ conns' = conns \ {c}
    /\ To(c, "gone")
    /\ UNCHANGED <<regVars, adminVars, using, id, cut, shutdown>>

(* Mutated: the page gives back the lease of the session it closes.         *)
DisconnectsAndReleases(c) ==
    /\ pc[c] = "attached" /\ c \notin closed
    /\ closed' = closed \union {c}
    /\ entries' = [entries EXCEPT ![ask[c].key] = Reg!Returned(@, ask[c].mode, c)]
    /\ UNCHANGED <<pc, ask, victim, leases, adminVars, conns, phase, using, id, cut, shutdown>>

(* Disconnect on the Disks page.                                            *)
Disconnects(c) ==
    /\ Reg!Disconnect(c)
    /\ UNCHANGED <<adminVars, conns, phase, using, id, cut, shutdown>>

-----------------------------------------------------------------------------
(* Reload: the settings are swapped, then the connections of that moment    *)
(* are judged one by one.                                                   *)

Refuses(set, c) ==
    /\ id[c] # None
    /\ Cert[c] \notin set.admit \/ (id[c].writable /\ Cert[c] \notin set.write)

ReloadSwaps(set) ==
    /\ reload.at = "no" /\ set # settings
    /\ settings' = set
    /\ reload' = [at |-> "swapped", left |-> {}]
    /\ UNCHANGED <<regVars, conns, phase, using, id, cut, shutdown, missed>>

ReloadLooks ==
    /\ reload.at = "swapped"
    /\ reload' = [at |-> "judging", left |-> conns]
    /\ UNCHANGED <<regVars, settings, conns, phase, using, id, cut, shutdown, missed>>

(* Mutated: only connections that have their image are judged.              *)
ReloadJudgesTheAttached(c) ==
    /\ reload.at = "judging" /\ c \in reload.left
    /\ cut' = IF Refuses(settings, c) /\ pc[c] = "attached" THEN cut \union {c} ELSE cut
    /\ missed' = IF phase[c] = "tls" /\ using[c] # settings
                 THEN missed \union {c} ELSE missed \ {c}
    /\ reload' = [reload EXCEPT !.left = @ \ {c}]
    /\ UNCHANGED <<regVars, settings, conns, phase, using, id, shutdown>>

ReloadJudges(c) ==
    /\ reload.at = "judging" /\ c \in reload.left
    /\ cut' = IF Refuses(settings, c) THEN cut \union {c} ELSE cut
    /\ missed' = IF phase[c] = "tls" /\ using[c] # settings
                 THEN missed \union {c} ELSE missed \ {c}
    /\ reload' = [reload EXCEPT !.left = @ \ {c}]
    /\ UNCHANGED <<regVars, settings, conns, phase, using, id, shutdown>>

ReloadEnds ==
    /\ reload = [at |-> "judging", left |-> {}]
    /\ reload' = [at |-> "no", left |-> {}]
    /\ UNCHANGED <<regVars, settings, conns, phase, using, id, cut, shutdown, missed>>

-----------------------------------------------------------------------------
(* Shutdown: no connection is added from here on; the listener is closed,   *)
(* and then the connections there were; then it waits for their goroutines. *)

ShutdownBegins ==
    /\ shutdown.at = "no"
    /\ shutdown' = [at |-> "begun", left |-> conns]
    /\ UNCHANGED <<regVars, adminVars, conns, phase, using, id, cut>>

ShutdownUnlistens ==
    /\ shutdown.at = "begun"
    /\ shutdown' = [shutdown EXCEPT !.at = "closing"]
    /\ UNCHANGED <<regVars, adminVars, conns, phase, using, id, cut>>

ShutdownCloses(c) ==
    /\ shutdown.at = "closing" /\ c \in shutdown.left
    /\ cut' = cut \union {c}
    /\ shutdown' = [shutdown EXCEPT !.left = @ \ {c}]
    /\ UNCHANGED <<regVars, adminVars, conns, phase, using, id>>

ShutdownReturns ==
    /\ shutdown = [at |-> "closing", left |-> {}]
    /\ \A c \in Conns : phase[c] \in {"new", "gone"}
    /\ shutdown' = [shutdown EXCEPT !.at = "done"]
    /\ UNCHANGED <<regVars, adminVars, conns, phase, using, id, cut>>

-----------------------------------------------------------------------------
Init ==
    /\ Reg!Init
    /\ settings \in Settings
    /\ conns = {}
    /\ phase = [c \in Conns |-> "new"]
    /\ using = [c \in Conns |-> None]
    /\ id = [c \in Conns |-> None]
    /\ cut = {}
    /\ reload = [at |-> "no", left |-> {}]
    /\ shutdown = [at |-> "no", left |-> {}]
    /\ missed = {}

(* What its goroutine does, or the accept loop for it, of its own accord.   *)
Runs(c) ==
    \/ Admits(c) \/ TurnsAway(c) \/ StartTLS(c) \/ LogsIn(c) \/ Leaves(c)
    \/ AsksForImage(c) \/ Waits(c) \/ Attaches(c) \/ AttachFails(c)
    \/ Replies(c) \/ ReplyFails(c) \/ Ends(c)

Reload == (\E set \in Settings : ReloadSwaps(set)) \/ ReloadLooks \/ ReloadEnds
          \/ \E c \in Conns : ReloadJudges(c)

ShutdownSteps ==
    ShutdownUnlistens \/ ShutdownReturns \/ \E c \in Conns : ShutdownCloses(c)

Next ==
    \/ \E c \in Conns : Takes(c) \/ Runs(c) \/ TransmitEnds(c) \/ Disconnects(c)
    \/ Reload
    \/ ShutdownBegins \/ ShutdownSteps

Spec == Init /\ [][Next]_vars

(* Goroutines run.  A handshake ends by its deadline, a transmission when   *)
(* its socket is closed and the requests in flight are done: the disk is    *)
(* taken to answer them.                                                    *)
Fairness ==
    /\ \A c \in Conns : WF_vars(Runs(c)) /\ WF_vars(Down(c) /\ TransmitEnds(c))
    /\ WF_vars(ShutdownSteps)

FairSpec == Spec /\ Fairness

-----------------------------------------------------------------------------
TypeOK ==
    /\ Reg!TypeOK
    /\ settings \in Settings
    /\ conns \subseteq Conns
    /\ phase \in [Conns -> Phases]
    /\ using \in [Conns -> Settings \union {None}]
    /\ id \in [Conns -> [writable : BOOLEAN] \union {None}]
    /\ cut \subseteq Conns
    /\ reload \in [at : {"no", "swapped", "judging"}, left : SUBSET Conns]
    /\ shutdown \in [at : {"no", "begun", "closing", "done"}, left : SUBSET Conns]
    /\ missed \subseteq Conns

Serving(c) == phase[c] = "transmit"

(* "One VM at a time may attach a disk read-write" (NBD.md:13), also while  *)
(* the connection that is taken over still works off its last requests.     *)
OneVMWrites ==
    \A c, d \in Conns :
        Serving(c) /\ Serving(d) /\ id[c].writable /\ id[d].writable /\ ask[c].key = ask[d].key
            => c = d

(* A connection that is served has the lease of its image, and is one that  *)
(* Reload and Shutdown will find; whoever has the lease logged in for it.   *)
ServedUnderALease ==
    \A c \in Conns :
        /\ Serving(c) => pc[c] = "attached" /\ c \in conns
        /\ pc[c] = "attached" => id[c] # None /\ (ask[c].mode = "Writer" <=> id[c].writable)

Unwanted(c) ==
    phase[c] \in {"user", "attaching", "replying", "transmit"} /\ ~Down(c) /\ Refuses(settings, c)

(* "Connections the new settings no longer admit are closed at once"        *)
(* (NBD.md:49): all but those the reload judged while their TLS handshake   *)
(* ran on the settings before it; it finds every other one, whenever it was *)
(* accepted or logged in.                                                   *)
OnlyTheAdmittedAndMissedStay ==
    reload.at = "no" => \A c \in Conns : Unwanted(c) => c \in missed

(* "The lease has to be released when the session ends" (disks.go:336).     *)
LeaseEndsWithItsConnection ==
    \A c \in Conns : phase[c] = "gone" => pc[c] # "attached"

(* Connections use the registry as its specification allows.                *)
UsesTheRegistry == Reg!Spec

(* Shutdown comes back, whatever the connections are in: a handshake, the   *)
(* wait of a takeover, or the transmission.                                 *)
ShutdownComesBack == shutdown.at = "begun" ~> shutdown.at = "done"
=============================================================================
