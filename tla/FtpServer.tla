------------------------------- MODULE FtpServer -------------------------------
(***************************************************************************)
(* The FTP server (internal/ftp: server.go, conn.go, data.go, auth.go):    *)
(* accepting and counting connections, the two goroutines of each, one     *)
(* that reads commands and one that runs them, passive data channels with  *)
(* the goroutine that accepts for them, transfers and ABOR, and Shutdown.  *)
(*                                                                         *)
(* A client sends the commands of its script, and a command is its number  *)
(* there.  What a transfer moves is not looked at (SharedFolder has the    *)
(* files), nor are the commands that only ask or change a file: they are   *)
(* all NOOP.  Of the data channels the passive ones are modelled.          *)
(***************************************************************************)
EXTENDS Naturals, Sequences, FiniteSets

CONSTANTS Conns,
          MaxConnections,
          Capacity,          \* of the channel of commands: 8 in the code
          Scripts,           \* what the clients of a run send, Conns -> sequence of names
          Timeouts           \* which of IdleTimeout and TransferIdleTimeout are on

VARIABLES script,   \* what the clients send; never changes
          server,   \* whether Shutdown runs, and the connections it has yet to close
          conn,     \* of a connection: its goroutines, queue, login, data mode, transfer
          setup,    \* connection -> its passive data channels, in their order
          asked,    \* connection -> how many commands the client has sent
          answered, \* connection -> commands that have their last answer, in its order
          limits,   \* the timeouts of this run; never changes
          known,    \* whether the account is configured
          missed    \* connections that Shutdown's closing and aborting did not reach

vars == <<script, server, conn, setup, asked, answered, limits, known, missed>>

TimedOut == 0       \* what the reader hands over in place of a command

NoTransfer == [active |-> FALSE, aborted |-> 0, data |-> 0, ok |-> TRUE]
Unborn == [at |-> "none", ctrl |-> "up", read |-> 0, reader |-> "reads", line |-> 0,
           queue |-> <<>>, loop |-> "select", run |-> 0, login |-> FALSE, mode |-> 0,
           transfer |-> NoTransfer]

(* The first ABOR counts, and n is no command when Shutdown aborts.         *)
Aborted(c, n) ==
  [conn[c].transfer EXCEPT !.aborted = IF @ = 0 THEN n ELSE @, !.ok = FALSE]

Registered == {c \in Conns : conn[c].at = "open"}
Served == {c \in Conns : conn[c].at \in {"accepted", "open"}}
Name(c, n) == script[c][n]

Becomes(c, new) == conn' = [conn EXCEPT ![c] = new]
Answers(c, ns) == answered' = [answered EXCEPT ![c] = @ \o ns]

-----------------------------------------------------------------------------
(* accept and serve.                                                        *)

Accepts(c) ==
  /\ conn[c].at = "none" /\ script[c] # <<>> /\ server.at \in {"up", "marked"}
  /\ IF server.at = "up" /\ Cardinality(Registered) < MaxConnections
     THEN Becomes(c, [Unborn EXCEPT !.at = "accepted"])
     ELSE Becomes(c, [Unborn EXCEPT !.at = "gone", !.ctrl = "closed"])
  /\ UNCHANGED <<script, server, setup, asked, answered, limits, known, missed>>

(* serve: register, and the welcome.  Shutdown may have taken its list.     *)
Registers(c) ==
  /\ conn[c].at = "accepted"
  /\ Becomes(c, [conn[c] EXCEPT !.at = "open"])
  /\ missed' = IF server.at = "up" THEN missed ELSE missed \cup {c}
  /\ UNCHANGED <<script, server, setup, asked, answered, limits, known>>

(* The client: a command, or the end of the connection.                     *)
Asks(c) ==
  /\ conn[c].at = "open" /\ conn[c].ctrl = "up" /\ asked[c] < Len(script[c])
  /\ asked' = [asked EXCEPT ![c] = @ + 1]
  /\ UNCHANGED <<script, server, conn, setup, answered, limits, known, missed>>

Leaves(c) ==
  /\ conn[c].at = "open" /\ conn[c].ctrl = "up"
  /\ Becomes(c, [conn[c] EXCEPT !.ctrl = "left"])
  /\ UNCHANGED <<script, server, setup, asked, answered, limits, known, missed>>

-----------------------------------------------------------------------------
(* readLoop.                                                                *)

Reading(c) == conn[c].at = "open" /\ conn[c].reader = "reads"
HasRead(c) == conn[c].read + 1
HasLine(c) == conn[c].ctrl # "closed" /\ conn[c].read < asked[c]

(* Mutated: an ABOR that a transfer took is handed to the loop as well.     *)
AbortsAndHandsOver(c) ==
  /\ Becomes(c, [conn[c] EXCEPT !.read = @ + 1, !.reader = "offers", !.line = HasRead(c),
                                !.transfer = Aborted(c, HasRead(c))])
  /\ UNCHANGED answered

(* abortTransfer: the data connection is closed, endTransfer answers.       *)
Aborts(c) ==
  /\ Becomes(c, [conn[c] EXCEPT !.read = @ + 1,
                                !.transfer = Aborted(c, HasRead(c))])
  /\ UNCHANGED answered

(* A line is an ABOR for the transfer there is, an AUTH, answered here      *)
(* before the login, or for the loop.                                       *)
ReadsLine(c) ==
  /\ Reading(c) /\ HasLine(c)
  /\ LET name == Name(c, HasRead(c)) IN
     IF name = "ABOR" /\ conn[c].transfer.active THEN Aborts(c)
     ELSE IF name = "AUTH" /\ ~conn[c].login
     THEN /\ Answers(c, <<HasRead(c)>>)
          /\ Becomes(c, [conn[c] EXCEPT !.read = @ + 1])
     ELSE /\ Becomes(c, [conn[c] EXCEPT !.read = @ + 1, !.reader = "offers",
                                        !.line = HasRead(c)])
          /\ UNCHANGED answered
  /\ UNCHANGED <<script, server, setup, asked, limits, known, missed>>

(* The connection is idle unless a transfer is active; the transfer that    *)
(* waits for its data connection is not.                                    *)
ReadTimesOut(c) ==
  /\ Reading(c) /\ "idle" \in limits /\ conn[c].ctrl = "up" /\ ~HasLine(c)
  /\ ~conn[c].transfer.active
  /\ Becomes(c, [conn[c] EXCEPT !.reader = "offers", !.line = TimedOut])
  /\ UNCHANGED <<script, server, setup, asked, answered, limits, known, missed>>

(* It blocks while the channel is full, also when nobody takes from it.     *)
HandsOver(c) ==
  /\ conn[c].at = "open" /\ conn[c].reader = "offers" /\ Len(conn[c].queue) < Capacity
  /\ Becomes(c, [conn[c] EXCEPT !.queue = Append(@, conn[c].line),
                                !.reader = IF conn[c].line = TimedOut THEN "ended" ELSE "reads"])
  /\ UNCHANGED <<script, server, setup, asked, answered, limits, known, missed>>

ReaderEnds(c) ==
  /\ Reading(c) /\ ~HasLine(c) /\ conn[c].ctrl # "up"
  /\ Becomes(c, [conn[c] EXCEPT !.reader = "ended"])
  /\ UNCHANGED <<script, server, setup, asked, answered, limits, known, missed>>

-----------------------------------------------------------------------------
(* Passive data channels.                                                   *)

Channel(listener) == [listener |-> listener, acceptor |-> "accepts", holds |-> 0, late |-> FALSE]

(* Mutated: only the listener is closed, and not what waits in the channel. *)
Unlistened(c) ==
  LET n == Len(setup[c]) IN
  IF n = 0 THEN setup[c] ELSE [setup[c] EXCEPT ![n].listener = "closed"]

(* closeData, of the channel that is set up, if one is: what waits in it is *)
(* closed, what its acceptor has yet to put there is not.                   *)
Drained(c) ==
  LET n == Len(setup[c]) IN
  IF n = 0 THEN setup[c]
  ELSE [setup[c] EXCEPT ![n] = [@ EXCEPT
         !.listener = "closed", !.holds = 0,
         !.late = setup[c][n].late \/ setup[c][n].acceptor = "puts"]]

(* The client of the connection connects to a port that listens.            *)
Connects(c, n) ==
  /\ setup[c][n].listener = "open" /\ setup[c][n].acceptor = "accepts"
  /\ setup' = [setup EXCEPT ![c][n] = [@ EXCEPT !.listener = "closed", !.acceptor = "puts"]]
  /\ UNCHANGED <<script, server, conn, asked, answered, limits, known, missed>>

(* The acceptor puts it into the channel it was started for.                *)
Puts(c, n) ==
  /\ setup[c][n].acceptor = "puts"
  /\ setup' = [setup EXCEPT ![c][n] = [@ EXCEPT !.acceptor = "done", !.holds = n]]
  /\ UNCHANGED <<script, server, conn, asked, answered, limits, known, missed>>

-----------------------------------------------------------------------------
(* loop, dispatch and the commands.                                         *)

Ends(c) == [conn[c] EXCEPT !.queue = Tail(@), !.loop = "ended"]
Goes(c) == [conn[c] EXCEPT !.queue = Tail(@)]

Selecting(c) == conn[c].at = "open" /\ conn[c].loop = "select"
Takes(c) == Selecting(c) /\ conn[c].queue # <<>>

(* The reader's timeout; a command that ends the connection: QUIT, one      *)
(* before the login that needs it, one of an account that is gone.          *)
LoopEnds(c) ==
  /\ Takes(c)
  /\ LET n == Head(conn[c].queue) IN
     \/ n = TimedOut /\ UNCHANGED answered
     \/ /\ n # TimedOut
        /\ \/ Name(c, n) = "QUIT"
           \/ ~conn[c].login /\ Name(c, n) \in {"PASV", "RETR", "ABOR"}
           \/ conn[c].login /\ ~known
        /\ Answers(c, <<n>>)
  /\ Becomes(c, Ends(c))
  /\ UNCHANGED <<script, server, setup, asked, limits, known, missed>>

Runs(c, names) ==
  /\ Takes(c) /\ Head(conn[c].queue) # TimedOut
  /\ Name(c, Head(conn[c].queue)) \in names
  /\ conn[c].login => known

(* LOGIN succeeds for a configured account; an ABOR that no transfer took   *)
(* is a command like any other.                                             *)
RunsCommand(c) ==
  /\ Runs(c, {"LOGIN", "NOOP", "AUTH"} \cup IF conn[c].login THEN {"ABOR"} ELSE {})
  /\ LET n == Head(conn[c].queue) IN
     /\ Answers(c, <<n>>)
     /\ IF Name(c, n) = "LOGIN" /\ ~known
        THEN Becomes(c, Ends(c))
        ELSE Becomes(c, [Goes(c) EXCEPT !.login = @ \/ Name(c, n) = "LOGIN"])
  /\ UNCHANGED <<script, server, setup, asked, limits, known, missed>>

(* listenPassive.                                                           *)
SetsUp(c) ==
  /\ conn[c].login /\ Runs(c, {"PASV"})
  /\ Answers(c, <<Head(conn[c].queue)>>)
  /\ setup' = [setup EXCEPT ![c] = Append(Drained(c), Channel("open"))]
  /\ Becomes(c, [Goes(c) EXCEPT !.mode = Len(setup[c]) + 1])
  /\ UNCHANGED <<script, server, asked, limits, known, missed>>

(* withData: refused without a data channel, and otherwise it waits for the *)
(* connection.                                                              *)
Opens(c) ==
  /\ conn[c].login /\ Runs(c, {"RETR"})
  /\ IF conn[c].mode = 0
     THEN Answers(c, <<Head(conn[c].queue)>>) /\ Becomes(c, Goes(c))
     ELSE /\ Becomes(c, [Goes(c) EXCEPT !.loop = "opens", !.run = Head(conn[c].queue)])
          /\ UNCHANGED answered
  /\ UNCHANGED <<script, server, setup, asked, limits, known, missed>>

(* openData, closeData and beginTransfer.                                   *)
Begins(c) ==
  LET n == conn[c].mode
      held == setup[c][n].holds
  IN /\ conn[c].loop = "opens" /\ held # 0
     /\ setup' = [setup EXCEPT ![c] = [Drained(c) EXCEPT ![n].holds = 0]]
     /\ Becomes(c, [conn[c] EXCEPT !.loop = "moves", !.mode = 0,
                      !.transfer = [NoTransfer EXCEPT !.active = TRUE, !.data = held]])
     /\ missed' = IF server.at = "up" \/ c \in server.left THEN missed ELSE missed \cup {c}
     /\ UNCHANGED <<script, server, asked, answered, limits, known>>

DataTimesOut(c) ==
  /\ conn[c].loop = "opens"
  /\ setup' = [setup EXCEPT ![c] = Drained(c)]
  /\ Becomes(c, [conn[c] EXCEPT !.loop = "select", !.mode = 0, !.run = 0])
  /\ Answers(c, <<conn[c].run>>)
  /\ UNCHANGED <<script, server, asked, limits, known, missed>>

(* The transfer comes to its end: everything is moved, or it fails, because *)
(* the client breaks it off.                                                *)
Moves(c) ==
  /\ conn[c].loop = "moves"
  /\ \E ok \in BOOLEAN :
       /\ ok => conn[c].transfer.ok
       /\ Becomes(c, [conn[c] EXCEPT !.loop = "moved", !.transfer.ok = ok])
  /\ UNCHANGED <<script, server, setup, asked, answered, limits, known, missed>>

(* It fails by itself: it was aborted, or nothing moves for too long.       *)
Breaks(c) ==
  /\ conn[c].loop = "moves" /\ (~conn[c].transfer.ok \/ "transfer" \in limits)
  /\ Becomes(c, [conn[c] EXCEPT !.loop = "moved", !.transfer.ok = FALSE])
  /\ UNCHANGED <<script, server, setup, asked, answered, limits, known, missed>>

(* endTransfer, and the answer: to the command, and to the ABOR there was.  *)
EndsTransfer(c) ==
  /\ conn[c].loop = "moved"
  /\ Answers(c, <<conn[c].run>> \o IF conn[c].transfer.aborted \in DOMAIN script[c]
                                   THEN <<conn[c].transfer.aborted>> ELSE <<>>)
  /\ Becomes(c, [conn[c] EXCEPT !.loop = "select", !.run = 0, !.transfer = NoTransfer])
  /\ UNCHANGED <<script, server, setup, asked, limits, known, missed>>

(* The reader has closed the channel and it is empty.                       *)
LoopHasEnded(c) ==
  /\ Selecting(c) /\ conn[c].queue = <<>> /\ conn[c].reader = "ended"
  /\ Becomes(c, [conn[c] EXCEPT !.loop = "ended"])
  /\ UNCHANGED <<script, server, setup, asked, answered, limits, known, missed>>

(* What serve defers: closeData, close and unregister.                      *)
Unregisters(c) ==
  /\ conn[c].at = "open" /\ conn[c].loop = "ended"
  /\ setup' = [setup EXCEPT ![c] = Drained(c)]
  /\ Becomes(c, [conn[c] EXCEPT !.at = "gone", !.ctrl = "closed", !.mode = 0])
  /\ UNCHANGED <<script, server, asked, answered, limits, known, missed>>

-----------------------------------------------------------------------------
(* Reload takes the account away; Shutdown.                                 *)

Reloads ==
  /\ known /\ server.at = "up"
  /\ known' = FALSE
  /\ UNCHANGED <<script, server, conn, setup, asked, answered, limits, missed>>

ShutdownBegins ==
  /\ server.at = "up"
  /\ server' = [at |-> "marked", left |-> Registered]
  /\ UNCHANGED <<script, conn, setup, asked, answered, limits, known, missed>>

ShutdownListens ==
  /\ server.at = "marked"
  /\ server' = [server EXCEPT !.at = "closing"]
  /\ UNCHANGED <<script, conn, setup, asked, answered, limits, known, missed>>

(* abortTransfer and close; the transfer is answered as if an ABOR had come.*)
ShutdownCloses(c) ==
  /\ server.at = "closing" /\ c \in server.left
  /\ server' = [server EXCEPT !.left = @ \ {c}]
  /\ Becomes(c, [conn[c] EXCEPT
       !.ctrl = "closed",
       !.transfer = IF @.active THEN Aborted(c, Len(script[c]) + 1) ELSE @])
  /\ UNCHANGED <<script, setup, asked, answered, limits, known, missed>>

ShutdownReturns ==
  /\ server = [at |-> "closing", left |-> {}] /\ Served = {}
  /\ server' = [server EXCEPT !.at = "down"]
  /\ UNCHANGED <<script, conn, setup, asked, answered, limits, known, missed>>

-----------------------------------------------------------------------------
Init ==
  /\ script \in Scripts
  /\ server = [at |-> "up", left |-> {}]
  /\ conn = [c \in Conns |-> Unborn] /\ setup = [c \in Conns |-> <<>>]
  /\ asked = [c \in Conns |-> 0] /\ answered = [c \in Conns |-> <<>>]
  /\ limits \in Timeouts /\ known = TRUE /\ missed = {}

Reader(c) == ReadsLine(c) \/ HandsOver(c) \/ ReaderEnds(c)
Loop(c) ==
  \/ LoopEnds(c) \/ RunsCommand(c) \/ SetsUp(c) \/ Opens(c) \/ Begins(c) \/ Breaks(c)
  \/ EndsTransfer(c) \/ LoopHasEnded(c) \/ Unregisters(c)
Shuts == ShutdownListens \/ ShutdownReturns \/ \E c \in Conns : ShutdownCloses(c)

Next ==
  \/ \E c \in Conns :
       \/ Accepts(c) \/ Registers(c) \/ Asks(c) \/ Leaves(c) \/ Reader(c) \/ ReadTimesOut(c)
       \/ Loop(c) \/ Moves(c) \/ DataTimesOut(c)
       \/ \E n \in 1 .. Len(setup[c]) : Connects(c, n) \/ Puts(c, n)
  \/ Reloads \/ ShutdownBegins \/ Shuts

Spec == Init /\ [][Next]_vars

(* Goroutines run and time passes; no client has to do anything.            *)
Fairness ==
  /\ \A c \in Conns :
       /\ WF_vars(Registers(c)) /\ WF_vars(Reader(c)) /\ WF_vars(ReadTimesOut(c))
       /\ WF_vars(Loop(c)) /\ WF_vars(DataTimesOut(c))
  /\ WF_vars(Shuts)

FairSpec == Spec /\ Fairness

-----------------------------------------------------------------------------
(* A transfer moves over the connection made for the last data channel the  *)
(* client asked for (data.go:46: only the client that asked may use it),    *)
(* however late the acceptor of an earlier one comes.                       *)
DataIsOfItsOwnSetup ==
  \A c \in Conns : conn[c].loop = "moves" => conn[c].transfer.data = Len(setup[c])

(* However clients pipeline, and whichever goroutine answers: no command    *)
(* has two answers; they come in the order of the commands, but for an      *)
(* ABOR and an AUTH the reader takes; and when the server waits again none  *)
(* is owed, but for an ABOR whose transfer was aborted already.             *)
OneAnswerEach ==
  \A c \in Conns :
    LET a == answered[c] IN
    /\ \A i, j \in DOMAIN a : i < j =>
         \/ a[i] < a[j]
         \/ a[j] # a[i] /\ Name(c, a[i]) \in {"ABOR", "AUTH"}
    /\ Reading(c) /\ Selecting(c) /\ conn[c].queue = <<>> /\ ~HasLine(c) /\ conn[c].ctrl = "up" =>
         \A n \in 1 .. asked[c] :
           \/ \E i \in DOMAIN a : a[i] = n
           \/ Name(c, n) = "ABOR" /\ \E m \in 1 .. n - 1 : Name(c, m) = "ABOR"

(* A connection that is gone listens nowhere, and has no data connection    *)
(* but one whose acceptor held it when the channel was drained.             *)
NothingIsKept ==
  \A c \in Conns : conn[c].at = "gone" =>
    \A n \in DOMAIN setup[c] :
      /\ setup[c][n].listener = "closed"
      /\ setup[c][n].holds # 0 => setup[c][n].late

(* Shutdown comes back, also with a transfer whose client never reads       *)
(* again (server.go:229); but a connection it did not reach, for it was     *)
(* accepted before and registered after, or began a transfer after, stays   *)
(* until a timeout ends it, if the timeouts are on.                         *)
ShutdownComesBack ==
  []<>(server.at = "closing" =>
         \E c \in missed \cap Served :
           \/ conn[c].ctrl = "up" /\ "idle" \notin limits
           \/ conn[c].loop = "moves" /\ "transfer" \notin limits)
=============================================================================
