------------------------------- MODULE TftpServer -------------------------------
(***************************************************************************)
(* The TFTP server (internal/tftp: server.go, read.go, write.go): requests *)
(* dispatched one at a time, the slots they reserve, downloads in windows  *)
(* of blocks and uploads in lock step over a network that loses, doubles,  *)
(* delays and reorders, and Shutdown.                                      *)
(*                                                                         *)
(* The network needs no state: a packet that was sent once may arrive any  *)
(* number of times, or never, at any time until it is Stale, so that a     *)
(* retransmission sends nothing new.  A block of a file is its number, and *)
(* on the wire that number modulo BlockNumbers; the last block of a file   *)
(* is short.  A client sends one request, whose duplicates admit ignores.  *)
(***************************************************************************)
EXTENDS Naturals, Sequences, FiniteSets

CONSTANTS Clients, Hosts,          \* client addresses, and the hosts they are of
          None,                    \* no file, no packet
          Loads,                   \* what the clients of a run may ask for
          MaxConnections, MaxConnectionsPerHost, AllowOverwrite,
          BlockNumbers             \* 2^16 in the code

ASSUME LimitsAssumption ==
    /\ MaxConnections \in Nat /\ MaxConnectionsPerHost \in Nat
    /\ AllowOverwrite \in BOOLEAN
    /\ BlockNumbers \in Nat \ {0}
ASSUME LoadsAssumption ==
    \A l \in Loads :
        /\ l.asks \in [Clients -> {"read", "write", "nothing"}]
        /\ l.host \in [Clients -> Hosts]
        /\ l.full \in [Clients -> Nat]         \* how many blocks are full, before the last
        /\ l.ends \in [Clients -> {"short", "empty"}]
        /\ l.window \in [Clients -> 1 .. BlockNumbers - 1]
        /\ l.options \in [Clients -> BOOLEAN]
        /\ l.retries \in Nat
        /\ \A c \in Clients : None # [by |-> c, blocks |-> [n \in 1 .. l.full[c] + 1 |-> n]]

VARIABLES load,       \* what the clients ask for; never changes
          at,         \* client -> how far its request, or its transfer, is
          transfers, pending, hostTransfers,   \* of Server
          inHand,     \* client -> packet its transfer has read and not handled yet
          attempts,   \* client -> timeouts since the last packet
          windowBase, \* download -> blocks acknowledged
          sent,       \* download -> blocks sent, the window among them
          stored,     \* upload -> blocks in its temporary file
          temporary,  \* uploads whose temporary file is there
          file,       \* what is at the destination of the uploads
          completed,  \* transfers reported as complete
          late,       \* transfers that outlived TransferTimeout
          cancelled,  \* transfers whose context is cancelled
          woken,      \* of these, those whose read deadline has been set to now
          shutdown,   \* how far Shutdown is, and the transfers it has yet to cancel
          got,        \* client -> blocks it received, in its order
          acked       \* client -> blocks it knows the server has

slotVars == <<transfers, pending, hostTransfers>>
dataVars == <<windowBase, sent, stored, temporary, file, completed>>
stopVars == <<late, cancelled, woken, shutdown>>
clientVars == <<got, acked>>
vars == <<load, at, slotVars, inHand, attempts, dataVars, stopVars, clientVars>>

Dispatching == {"admitted", "looked"}
Waiting == {"oack", "await"}
Running == Waiting \union {"handling", "placing", "dallying", "cleanup", "releasing"}

Reads(c) == load.asks[c] = "read"
Writes(c) == load.asks[c] = "write"

Total(c) == load.full[c] + 1
Blocks(c) == [n \in 1 .. Total(c) |-> n]

(* Those that hold a slot.                                                  *)
Holders == {c \in Clients : at[c] \in Dispatching \union Running}

To(c, stage) == at' = [at EXCEPT ![c] = stage]
Least(a, b) == IF a < b THEN a ELSE b

-----------------------------------------------------------------------------
(* The dispatcher, which is one goroutine.                                  *)

Idle == \A c \in Clients : at[c] \notin Dispatching
Listening == shutdown.at \in {"no", "cancelling"}

HasRoom(c) ==
    /\ Cardinality(transfers) + pending < MaxConnections
    /\ hostTransfers[load.host[c]] < MaxConnectionsPerHost

Admits(c) ==
    /\ at[c] = "asking" /\ load.asks[c] # "nothing" /\ Idle /\ Listening
    /\ shutdown.at = "no" /\ HasRoom(c)
    /\ pending' = pending + 1
    /\ hostTransfers' = [hostTransfers EXCEPT ![load.host[c]] = @ + 1]
    /\ To(c, "admitted")
    /\ UNCHANGED <<load, transfers, inHand, attempts, dataVars, stopVars, clientVars>>

(* It is not allowed, there is no room, or the server shuts down.           *)
TurnsAway(c) ==
    /\ at[c] = "asking" /\ load.asks[c] # "nothing" /\ Idle /\ Listening
    /\ To(c, "refused")
    /\ UNCHANGED <<load, slotVars, inHand, attempts, dataVars, stopVars, clientVars>>

(* A download finds its file and opens it; an upload finds its name free,   *)
(* unless it may overwrite, and makes its temporary file.                   *)
Looks(c) ==
    /\ at[c] = "admitted"
    /\ Writes(c) => file = None \/ AllowOverwrite
    /\ temporary' = IF Writes(c) THEN temporary \union {c} ELSE temporary
    /\ To(c, "looked")
    /\ UNCHANGED <<load, slotVars, inHand, attempts, windowBase, sent, stored, file, completed,
                   stopVars, clientVars>>

(* release.                                                                 *)
GivesBack(c) ==
    /\ transfers' = transfers \ {c}
    /\ pending' = IF pending > 0 THEN pending - 1 ELSE 0
    /\ hostTransfers' = [hostTransfers EXCEPT ![load.host[c]] = @ - 1]

(* The file is not there or cannot be opened, or there is no socket.        *)
Refuses(c) ==
    /\ at[c] \in Dispatching
    /\ GivesBack(c)
    /\ temporary' = temporary \ {c}
    /\ To(c, "refused")
    /\ UNCHANGED <<load, inHand, attempts, windowBase, sent, stored, file, completed,
                   stopVars, clientVars>>

(* The blocks in the window when the first b are acknowledged: what is left *)
(* to read, or the empty block that ends a file whose last block is full.   *)
InWindow(c, b) ==
    LET left == load.full[c] + (IF load.ends[c] = "short" THEN 1 ELSE 0) - b IN
    IF left = 0 THEN 1 ELSE Least(load.window[c], left)

(* begin, and the goroutine: it sends the options, or the first window or   *)
(* acknowledgement at once, unless the file cannot be read.                 *)
Begins(c) ==
    /\ at[c] = "looked"
    /\ transfers' = transfers \union {c}
    /\ pending' = IF pending > 0 THEN pending - 1 ELSE 0
    /\ \/ /\ Reads(c) /\ load.options[c]
          /\ To(c, "oack") /\ UNCHANGED sent
       \/ /\ Reads(c) /\ ~load.options[c]
          /\ \/ To(c, "await") /\ sent' = [sent EXCEPT ![c] = InWindow(c, 0)]
             \/ To(c, "cleanup") /\ UNCHANGED sent
       \/ /\ Writes(c)
          /\ To(c, "await") /\ UNCHANGED sent
    /\ UNCHANGED <<load, hostTransfers, inHand, attempts, windowBase, stored, temporary, file,
                   completed, stopVars, clientVars>>

-----------------------------------------------------------------------------
(* The clients: packets are delivered while they are not so old that their  *)
(* number has come round again.                                             *)

SameNumber(a, b) == a % BlockNumbers = b % BlockNumbers

(* A download takes the block it waits for.                                 *)
ClientTakes(c, n) ==
    /\ Reads(c) /\ n \in 1 .. sent[c] /\ Len(got[c]) < Total(c)
    /\ Len(got[c]) + 1 < n + BlockNumbers
    /\ SameNumber(n, Len(got[c]) + 1)
    /\ got' = [got EXCEPT ![c] = Append(@, n)]
    /\ UNCHANGED <<load, at, slotVars, inHand, attempts, dataVars, stopVars, acked>>

(* Acknowledgements of an upload: the last block's is sent by finish.       *)
Acknowledged(c) == IF c \in completed THEN Total(c) ELSE Least(Len(stored[c]), load.full[c])

ClientLearns(c) ==
    /\ Writes(c) /\ acked[c] < Acknowledged(c)
    /\ acked' = [acked EXCEPT ![c] = @ + 1]
    /\ UNCHANGED <<load, at, slotVars, inHand, attempts, dataVars, stopVars, got>>

(* What a client may have sent: an acknowledgement of anything it received  *)
(* in order, any block up to the next one, or an error.                     *)
Sendable(c) ==
    {[op |-> "ERROR", block |-> 0]}
    \union (IF Reads(c)
            THEN {[op |-> "ACK", block |-> a] : a \in
                     {a \in 0 .. Len(got[c]) : windowBase[c] + load.window[c] < a + BlockNumbers}}
            ELSE {[op |-> "DATA", block |-> n] : n \in
                     {n \in 1 .. Least(acked[c] + 1, Total(c)) : Len(stored[c]) + 1 < n + BlockNumbers}})

-----------------------------------------------------------------------------
(* A transfer waits for a packet.  The deadline is looked at first, whether *)
(* there is a packet or not.                                                *)

(* Mutated: the deadline of a read does not regard that of the transfer.    *)
ReceivesForEver(c, packet) ==
    /\ at[c] \in Waiting /\ c \notin woken
    /\ packet \in Sendable(c)
    /\ inHand' = [inHand EXCEPT ![c] = [of |-> at[c], packet |-> packet]]
    /\ attempts' = [attempts EXCEPT ![c] = 0]
    /\ To(c, "handling")
    /\ UNCHANGED <<load, slotVars, dataVars, stopVars, clientVars>>

Receives(c, packet) ==
    /\ at[c] \in Waiting /\ c \notin woken \union late
    /\ packet \in Sendable(c)
    /\ inHand' = [inHand EXCEPT ![c] = [of |-> at[c], packet |-> packet]]
    /\ attempts' = [attempts EXCEPT ![c] = 0]
    /\ To(c, "handling")
    /\ UNCHANGED <<load, slotVars, dataVars, stopVars, clientVars>>

(* A read times out: the transfer ends, or resends and waits again.         *)
TimesOut(c) ==
    /\ at[c] \in Waiting
    /\ IF c \in cancelled \union late \/ attempts[c] = load.retries
       THEN To(c, "cleanup") /\ UNCHANGED attempts
       ELSE attempts' = [attempts EXCEPT ![c] = @ + 1] /\ UNCHANGED at
    /\ UNCHANGED <<load, slotVars, inHand, dataVars, stopVars, clientVars>>

(* Its TransferTimeout is over.                                             *)
GetsLate(c) ==
    /\ at[c] \in Waiting \union {"handling"} /\ c \notin late
    /\ late' = late \union {c}
    /\ UNCHANGED <<load, at, slotVars, inHand, attempts, dataVars, cancelled, woken, shutdown,
                   clientVars>>

(* The goroutine that waits for the context sets the read deadline to now,  *)
(* which a transfer that is not in a read will set anew before its next.    *)
Wakes(c) ==
    /\ c \in cancelled /\ at[c] \in Waiting
    /\ woken' = woken \union {c}
    /\ UNCHANGED <<load, at, slotVars, inHand, attempts, dataVars, late, cancelled, shutdown,
                   clientVars>>

-----------------------------------------------------------------------------
(* A transfer handles a packet.                                             *)

Handling(c) == at[c] = "handling"
Packet(c) == inHand[c].packet
Handled(c, stage) ==
    /\ To(c, stage)
    /\ inHand' = [inHand EXCEPT ![c] = None]
    /\ UNCHANGED <<load, slotVars, attempts, stopVars, clientVars>>

(* An error from the client, or one of the disk: to read the next blocks,   *)
(* or to write this one.                                                    *)
Fails(c) ==
    /\ Handling(c)
    /\ Handled(c, "cleanup") /\ UNCHANGED dataVars

(* The options are acknowledged by block zero, and the first window sent.   *)
Handshake(c) ==
    /\ Handling(c) /\ inHand[c].of = "oack" /\ Packet(c).op = "ACK"
    /\ IF SameNumber(Packet(c).block, 0)
       THEN Handled(c, "await") /\ sent' = [sent EXCEPT ![c] = InWindow(c, 0)]
       ELSE Handled(c, "oack") /\ UNCHANGED sent
    /\ UNCHANGED <<windowBase, stored, temporary, file, completed>>

(* How far an acknowledgement moves the window, as the wire has it.         *)
Moves(c) ==
    ((Packet(c).block % BlockNumbers) + BlockNumbers - (windowBase[c] % BlockNumbers)) % BlockNumbers

(* Mutated: only an acknowledgement of nothing new is stale.                *)
NothingNew(c) == Moves(c) = 0

StaleAck(c) == Moves(c) = 0 \/ Moves(c) > sent[c] - windowBase[c]

(* ack: stale, the end, or a window that moves and is filled up.            *)
HandlesAck(c) ==
    /\ Handling(c) /\ inHand[c].of = "await" /\ Packet(c).op = "ACK"
    /\ LET base == windowBase[c] + Moves(c) IN
       \/ /\ StaleAck(c)
          /\ Handled(c, "await") /\ UNCHANGED dataVars
       \/ /\ ~StaleAck(c) /\ base = Total(c)
          /\ completed' = completed \union {c}
          /\ Handled(c, "cleanup")
          /\ UNCHANGED <<windowBase, sent, stored, temporary, file>>
       \/ /\ ~StaleAck(c) /\ base # Total(c)
          /\ windowBase' = [windowBase EXCEPT ![c] = base]
          /\ sent' = [sent EXCEPT ![c] = base + InWindow(c, base)]
          /\ Handled(c, "await")
          /\ UNCHANGED <<stored, temporary, file, completed>>

OutOfOrder(c) == ~SameNumber(Packet(c).block, Len(stored[c]) + 1)

(* A duplicate is acknowledged once more; the block expected is stored, and *)
(* the last one goes to finish.                                             *)
HandlesData(c) ==
    /\ Handling(c) /\ Packet(c).op = "DATA"
    /\ IF OutOfOrder(c)
       THEN Handled(c, "await") /\ UNCHANGED stored
       ELSE /\ stored' = [stored EXCEPT ![c] = Append(@, Packet(c).block)]
            /\ Handled(c, IF Packet(c).block = Total(c) THEN "placing" ELSE "await")
    /\ UNCHANGED <<windowBase, sent, temporary, file, completed>>

(* finish: the rename over the destination, and the last acknowledgement.   *)
Places(c) ==
    /\ at[c] = "placing"
    /\ file' = [by |-> c, blocks |-> stored[c]]
    /\ temporary' = temporary \ {c}
    /\ completed' = completed \union {c}
    /\ To(c, "dallying")
    /\ UNCHANGED <<load, slotVars, inHand, attempts, windowBase, sent, stored, stopVars, clientVars>>

(* The close or the rename fails; or dally has waited for its interval.     *)
Finishes(c) ==
    /\ at[c] \in {"placing", "dallying"}
    /\ To(c, "cleanup")
    /\ UNCHANGED <<load, slotVars, inHand, attempts, dataVars, stopVars, clientVars>>

CleansUp(c) ==
    /\ at[c] = "cleanup"
    /\ temporary' = IF c \in completed THEN temporary ELSE temporary \ {c}
    /\ To(c, "releasing")
    /\ UNCHANGED <<load, slotVars, inHand, attempts, windowBase, sent, stored, file, completed,
                   stopVars, clientVars>>

Releases(c) ==
    /\ at[c] = "releasing"
    /\ GivesBack(c)
    /\ To(c, "over")
    /\ UNCHANGED <<load, inHand, attempts, dataVars, stopVars, clientVars>>

-----------------------------------------------------------------------------
(* Shutdown: the transfers there are, not the one that is being admitted.   *)

ShutdownBegins ==
    /\ shutdown.at = "no"
    /\ shutdown' = [at |-> "cancelling", left |-> transfers]
    /\ UNCHANGED <<load, at, slotVars, inHand, attempts, dataVars, late, cancelled, woken, clientVars>>

ShutdownCancels(c) ==
    /\ shutdown.at = "cancelling" /\ c \in shutdown.left
    /\ cancelled' = cancelled \union {c}
    /\ shutdown' = [shutdown EXCEPT !.left = @ \ {c}]
    /\ UNCHANGED <<load, at, slotVars, inHand, attempts, dataVars, late, woken, clientVars>>

ShutdownCloses ==
    /\ shutdown = [at |-> "cancelling", left |-> {}]
    /\ shutdown' = [shutdown EXCEPT !.at = "waiting"]
    /\ UNCHANGED <<load, at, slotVars, inHand, attempts, dataVars, late, cancelled, woken, clientVars>>

ShutdownReturns ==
    /\ shutdown.at = "waiting" /\ Holders = {}
    /\ shutdown' = [shutdown EXCEPT !.at = "done"]
    /\ UNCHANGED <<load, at, slotVars, inHand, attempts, dataVars, late, cancelled, woken, clientVars>>

-----------------------------------------------------------------------------
Init ==
    /\ load \in Loads
    /\ at = [c \in Clients |-> "asking"]
    /\ transfers = {} /\ pending = 0 /\ hostTransfers = [h \in Hosts |-> 0]
    /\ inHand = [c \in Clients |-> None] /\ attempts = [c \in Clients |-> 0]
    /\ windowBase = [c \in Clients |-> 0] /\ sent = [c \in Clients |-> 0]
    /\ stored = [c \in Clients |-> <<>>] /\ temporary = {} /\ file = None
    /\ completed = {} /\ late = {} /\ cancelled = {} /\ woken = {}
    /\ shutdown = [at |-> "no", left |-> {}]
    /\ got = [c \in Clients |-> <<>>] /\ acked = [c \in Clients |-> 0]

Dispatches(c) == Admits(c) \/ TurnsAway(c) \/ Looks(c) \/ Refuses(c) \/ Begins(c)

Handles(c) == Fails(c) \/ Handshake(c) \/ HandlesAck(c) \/ HandlesData(c)

Ends(c) == Places(c) \/ Finishes(c) \/ CleansUp(c) \/ Releases(c)

Client(c) == ClientLearns(c) \/ \E n \in 1 .. sent[c] : ClientTakes(c, n)

Shuts == ShutdownCloses \/ ShutdownReturns \/ \E c \in Clients : ShutdownCancels(c)

Next ==
    \/ \E c \in Clients :
        \/ Dispatches(c) \/ Client(c)
        \/ \E packet \in Sendable(c) : Receives(c, packet)
        \/ TimesOut(c) \/ GetsLate(c) \/ Wakes(c) \/ Handles(c) \/ Ends(c)
    \/ ShutdownBegins \/ Shuts

Spec == Init /\ [][Next]_vars

(* Goroutines run and time passes; no client has to do anything.            *)
Fairness ==
    /\ \A c \in Clients :
        /\ WF_vars(Looks(c) \/ Refuses(c) \/ Begins(c))
        /\ WF_vars(TimesOut(c)) /\ WF_vars(GetsLate(c)) /\ WF_vars(Handles(c)) /\ WF_vars(Ends(c))
    /\ WF_vars(Shuts)

FairSpec == Spec /\ Fairness

-----------------------------------------------------------------------------
(* A client that has a download complete has every block of it once and in  *)
(* order, whatever the network and the numbers on the wire did, and so it   *)
(* has when the server records it as complete.                              *)
DownloadIsWhole ==
    \A c \in Clients : Reads(c) =>
        /\ Len(got[c]) <= Total(c) /\ got[c] = SubSeq(Blocks(c), 1, Len(got[c]))
        /\ c \in completed => got[c] = Blocks(c)

(* "a client that sees that acknowledgement knows the file is there"        *)
(* (write.go:174): what is at the destination is always a whole upload of   *)
(* somebody, and a client that was told so has put its own there.           *)
UploadIsThere ==
    /\ file # None => file.by \in completed /\ file.blocks = Blocks(file.by)
    /\ \A c \in Clients : Writes(c) /\ acked[c] = Total(c) =>
           file # None /\ stored[c] = Blocks(c)

(* The limits hold although pending counts a release for any transfer, and  *)
(* however a transfer ended nothing of it is left: no temporary file (what  *)
(* write.go:289 promises), no slot, and once nobody is served the counters  *)
(* are back to nothing.                                                     *)
NothingIsKept ==
    /\ \A c \in temporary : at[c] \in {"looked"} \union Running
    /\ Cardinality(Holders) <= MaxConnections
    /\ \A h \in Hosts : /\ hostTransfers[h] = Cardinality({c \in Holders : load.host[c] = h})
                        /\ hostTransfers[h] <= MaxConnectionsPerHost
    /\ Holders = {} => pending = 0 /\ transfers = {}

(* Shutdown comes back, which it does when nobody is served any more        *)
(* (server.go:171), also when a transfer began after it looked, or was      *)
(* woken between two reads, and its client goes on for ever.                *)
ShutdownComesBack == []<>(shutdown.at \notin {"cancelling", "waiting"})
=============================================================================
