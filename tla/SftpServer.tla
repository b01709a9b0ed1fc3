------------------------------ MODULE SftpServer ------------------------------
(***************************************************************************)
(* The SFTP server (internal/sftp: server.go, auth.go): connections        *)
(* counted where they are accepted, the login and its grace time, sessions,*)
(* the watch for idle clients and the keepalives, and Shutdown.            *)
(*                                                                         *)
(* Time is that of the timers: each may run out whenever it runs.  What a  *)
(* session does with files is SharedFolder's; here it is that the client   *)
(* sent something.  A client that is silent sends and answers nothing any  *)
(* more, and its network does not say so.                                  *)
(***************************************************************************)
EXTENDS Naturals, FiniteSets

CONSTANTS Conns, Hosts, HostOf,          \* connections, and the addresses they come from
          MaxConnections, MaxConnectionsPerHost, MaxSessions, KeepAliveCountMax,
          Loads                          \* who comes, and which watches are on

VARIABLES server,    \* up, closing or down, and the connections left to close
          conns,     \* of Server
          perHost,   \* of Server
          conn,      \* connection -> where its goroutines and timers are
          known,     \* whether the account is configured
          load       \* clients, and watches out of "grace", "idle", "alive"; never changes

vars == <<server, conns, perHost, conn, known, load>>

Unborn == [at |-> "none", raw |-> "up", silent |-> FALSE, grace |-> "off", admitted |-> FALSE,
           account |-> FALSE, sessions |-> 0, idle |-> "off", seen |-> FALSE,
           alive |-> "off", pending |-> FALSE, missed |-> 0]

Becomes(c, new) == conn' = [conn EXCEPT ![c] = new]
Stays == UNCHANGED <<server, conns, perHost, known, load>>
At(c, at) == conn[c].at = at
Closed(c) == [conn[c] EXCEPT !.raw = "closed"]

Connected(h) == {c \in conns : HostOf[c] = h}

-----------------------------------------------------------------------------
(* accept: counted under the mutex, before the goroutine that serves it.    *)

HasRoom(c) ==
  /\ Cardinality(conns) < MaxConnections
  /\ MaxConnectionsPerHost > 0 => perHost[HostOf[c]] < MaxConnectionsPerHost

Refuses(c) ==
  /\ At(c, "none") /\ c \in load.clients /\ server.at # "down" /\ (server.at = "closing" \/ ~HasRoom(c))
  /\ Becomes(c, [Closed(c) EXCEPT !.at = "gone"])
  /\ Stays

Accepts(c) ==
  /\ At(c, "none") /\ c \in load.clients /\ server.at = "up" /\ HasRoom(c)
  /\ conns' = conns \cup {c}
  /\ perHost' = [perHost EXCEPT ![HostOf[c]] = @ + 1]
  /\ Becomes(c, [conn[c] EXCEPT !.at = "counted"])
  /\ UNCHANGED <<server, known, load>>

(* serve takes the settings, with or without the account, and starts the    *)
(* clock of the login.                                                      *)
Serves(c) ==
  /\ At(c, "counted")
  /\ Becomes(c, [conn[c] EXCEPT !.at = "login", !.account = known,
                                !.grace = IF "grace" \in load.watches THEN "runs" ELSE "off"])
  /\ Stays

(* The client: it is let in by the settings of now, or goes, or falls       *)
(* silent.                                                                  *)
LogsIn(c) ==
  /\ At(c, "login") /\ ~conn[c].silent /\ conn[c].raw = "up" /\ known
  /\ Becomes(c, [conn[c] EXCEPT !.at = "in", !.admitted = TRUE])
  /\ Stays

FallsSilent(c) ==
  /\ conn[c].at \in {"login", "serving"} /\ ~conn[c].silent
  /\ Becomes(c, [conn[c] EXCEPT !.silent = TRUE])
  /\ Stays

Leaves(c) ==
  /\ conn[c].at \in {"login", "in", "serving"} /\ ~conn[c].silent /\ conn[c].raw = "up"
  /\ Becomes(c, Closed(c))
  /\ Stays

-----------------------------------------------------------------------------
(* loginGrace.  Its function has begun before it says so.                   *)

GraceRunsOut(c) ==
  /\ conn[c].grace = "runs"
  /\ Becomes(c, [conn[c] EXCEPT !.grace = "begun"])
  /\ Stays

GraceCloses(c) ==
  /\ conn[c].grace = "begun"
  /\ Becomes(c, [Closed(c) EXCEPT !.grace = "fired"])
  /\ Stays

(* The handshake is over: the clock is stopped if it still runs, and serve  *)
(* looks whether it has fired.                                              *)
Stopped(c) == IF conn[c].grace = "runs" THEN "off" ELSE conn[c].grace

HandshakeFails(c) ==
  /\ At(c, "login") /\ conn[c].raw = "closed"
  /\ Becomes(c, [conn[c] EXCEPT !.at = "leaving", !.grace = Stopped(c)])
  /\ Stays

(* The account is that of the settings before the login, which may not have *)
(* it; the watches begin.                                                   *)
Begins(c) ==
  /\ At(c, "in")
  /\ IF conn[c].grace = "fired" \/ ~conn[c].account
     THEN Becomes(c, [Closed(c) EXCEPT !.at = "leaving", !.grace = Stopped(c)])
     ELSE Becomes(c, [conn[c] EXCEPT !.at = "serving", !.grace = Stopped(c),
            !.idle = IF "idle" \in load.watches THEN "runs" ELSE "off", !.seen = TRUE,
            !.alive = IF "alive" \in load.watches THEN "runs" ELSE "off"])
  /\ Stays

-----------------------------------------------------------------------------
(* Sessions.                                                                *)

(* One loop takes the channels the client asks for.                         *)
Opens(c) ==
  /\ At(c, "serving") /\ conn[c].raw = "up" /\ ~conn[c].silent
  /\ conn[c].sessions < MaxSessions
  /\ Becomes(c, [conn[c] EXCEPT !.sessions = @ + 1])
  /\ Stays

Requests(c) ==
  /\ conn[c].sessions > 0 /\ conn[c].raw = "up" /\ ~conn[c].silent
  /\ Becomes(c, [conn[c] EXCEPT !.seen = TRUE])
  /\ Stays

(* The client ends one, or what it reads from is closed under it.           *)
SessionEnds(c) ==
  /\ conn[c].sessions > 0 /\ conn[c].raw = "up" /\ ~conn[c].silent
  /\ Becomes(c, [conn[c] EXCEPT !.sessions = @ - 1])
  /\ Stays

SessionBreaks(c) ==
  /\ conn[c].sessions > 0 /\ conn[c].raw = "closed"
  /\ Becomes(c, [conn[c] EXCEPT !.sessions = @ - 1])
  /\ Stays

-----------------------------------------------------------------------------
(* watchIdle: the timer runs for what is left since the client sent         *)
(* something, and closes the connection when that is nothing.               *)

(* Mutated: the timer is not set again when something came.                 *)
IdleLooksOnce(c) ==
  /\ conn[c].idle = "runs" /\ At(c, "serving")
  /\ Becomes(c, [(IF conn[c].seen THEN conn[c] ELSE Closed(c)) EXCEPT !.idle = "ended"])
  /\ Stays

IdleLooks(c) ==
  /\ conn[c].idle = "runs" /\ At(c, "serving")
  /\ IF conn[c].seen
     THEN Becomes(c, [conn[c] EXCEPT !.seen = FALSE])
     ELSE Becomes(c, [Closed(c) EXCEPT !.idle = "ended"])
  /\ Stays

(* keepAlive: a tick with no request out sends one, and one with a request  *)
(* that is not answered counts.                                             *)
Ticks(c) ==
  /\ conn[c].alive = "runs" /\ At(c, "serving")
  /\ IF ~conn[c].pending
     THEN Becomes(c, [conn[c] EXCEPT !.pending = TRUE])
     ELSE IF conn[c].missed + 1 >= KeepAliveCountMax
     THEN Becomes(c, [Closed(c) EXCEPT !.alive = "ended", !.missed = @ + 1])
     ELSE Becomes(c, [conn[c] EXCEPT !.missed = @ + 1])
  /\ Stays

Replies(c) ==
  /\ conn[c].alive = "runs" /\ conn[c].pending /\ conn[c].raw = "up" /\ ~conn[c].silent
  /\ Becomes(c, [conn[c] EXCEPT !.pending = FALSE, !.missed = 0])
  /\ Stays

-----------------------------------------------------------------------------
(* The end of serve: the watches are stopped; then the connection is        *)
(* counted out.                                                             *)

ChannelsEnd(c) ==
  /\ At(c, "serving") /\ conn[c].raw = "closed"
  /\ Becomes(c, [conn[c] EXCEPT !.at = "leaving",
                   !.idle = IF @ = "runs" THEN "ended" ELSE @,
                   !.alive = IF @ = "runs" THEN "ending" ELSE @])
  /\ Stays

AliveEnds(c) ==
  /\ conn[c].alive = "ending"
  /\ Becomes(c, [conn[c] EXCEPT !.alive = "ended"])
  /\ Stays

CountedOut(c) == [perHost EXCEPT ![HostOf[c]] = @ - 1]

CountsOut(c) ==
  /\ At(c, "leaving")
  /\ conns' = conns \ {c}
  /\ perHost' = CountedOut(c)
  /\ Becomes(c, [Unborn EXCEPT !.at = "gone", !.raw = "closed",
                   !.sessions = conn[c].sessions, !.alive = conn[c].alive])
  /\ UNCHANGED <<server, known, load>>

-----------------------------------------------------------------------------
(* Reload: the account comes or goes.  Shutdown.                            *)

Reloads ==
  /\ server.at = "up" /\ known' = ~known
  /\ UNCHANGED <<server, conns, perHost, conn, load>>

ShutdownBegins ==
  /\ server.at = "up"
  /\ server' = [at |-> "closing", left |-> conns]
  /\ UNCHANGED <<conns, perHost, conn, known, load>>

ShutdownCloses(c) ==
  /\ server.at = "closing" /\ c \in server.left
  /\ server' = [server EXCEPT !.left = @ \ {c}]
  /\ Becomes(c, Closed(c))
  /\ UNCHANGED <<conns, perHost, known, load>>

(* Everything that is waited for: the connections, sessions and keepalives. *)
Waited(c) ==
  \/ conn[c].at \notin {"none", "gone"}
  \/ conn[c].sessions > 0 \/ conn[c].alive \in {"runs", "ending"}

ShutdownReturns ==
  /\ server = [at |-> "closing", left |-> {}] /\ \A c \in Conns : ~Waited(c)
  /\ server' = [server EXCEPT !.at = "down"]
  /\ UNCHANGED <<conns, perHost, conn, known, load>>

-----------------------------------------------------------------------------
Init ==
  /\ server = [at |-> "up", left |-> {}]
  /\ conns = {} /\ perHost = [h \in Hosts |-> 0]
  /\ conn = [c \in Conns |-> Unborn]
  /\ known \in BOOLEAN /\ load \in Loads

Serve(c) ==
  Serves(c) \/ HandshakeFails(c) \/ Begins(c) \/ ChannelsEnd(c) \/ CountsOut(c)
Timers(c) == GraceRunsOut(c) \/ GraceCloses(c)
Client(c) ==
  LogsIn(c) \/ FallsSilent(c) \/ Leaves(c) \/ Opens(c) \/ Requests(c) \/ Replies(c)
Shuts == ShutdownReturns \/ \E c \in Conns : ShutdownCloses(c)

Next ==
  \/ \E c \in Conns :
       \/ Refuses(c) \/ Accepts(c) \/ Serve(c) \/ Timers(c) \/ Client(c)
       \/ SessionEnds(c) \/ SessionBreaks(c) \/ IdleLooks(c) \/ Ticks(c) \/ AliveEnds(c)
  \/ Reloads \/ ShutdownBegins \/ Shuts

Spec == Init /\ [][Next]_vars

(* Goroutines run and timers run out; a client has to do nothing, but a     *)
(* session whose connection is closed ends.                                 *)
Fairness ==
  /\ \A c \in Conns :
       /\ WF_vars(Serve(c)) /\ WF_vars(Timers(c))
       /\ WF_vars(IdleLooks(c)) /\ WF_vars(Ticks(c)) /\ WF_vars(AliveEnds(c))
       /\ WF_vars(SessionBreaks(c))
  /\ WF_vars(Shuts)

FairSpec == Spec /\ Fairness

-----------------------------------------------------------------------------
(* What is counted is what there is: the counters decide who is let in.     *)
CountersAreTrue ==
  /\ conns = {c \in Conns : conn[c].at \notin {"none", "gone"}}
  /\ Cardinality(conns) <= MaxConnections
  /\ \A h \in Hosts : /\ perHost[h] = Cardinality(Connected(h))
                      /\ MaxConnectionsPerHost > 0 => perHost[h] <= MaxConnectionsPerHost

(* A client that has fallen silent does not keep its place for ever, if the *)
(* login has a grace time and the idle or the dead are looked for.          *)
SilentClientsGo ==
  []<>("grace" \in load.watches /\ load.watches \cap {"idle", "alive"} # {} =>
         \A c \in Conns : ~conn[c].silent)

(* Shutdown comes back, whatever the clients do.                            *)
ShutdownComesBack == []<>(server.at # "closing")
=============================================================================
