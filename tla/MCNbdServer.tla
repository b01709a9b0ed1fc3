------------------------------ MODULE MCNbdServer ------------------------------
(* An instance of NbdServer for TLC.                                        *)
EXTENDS NbdServer

CONSTANTS k1, c1, c2, alice

(* Two connections of one client.                                           *)
Certs == [c \in Conns |-> alice]

Configuration(max, admit, write) == [maxConnections |-> max, admit |-> admit, write |-> write]

(* The client may write, and there is room for both; or it may only read,   *)
(* and there is room for one.                                               *)
Everybody == Configuration(2, {alice}, {alice})
Configurations == {Everybody, Configuration(1, {alice}, {})}

(* The server starts with the client let in.                                *)
InitOfEverybody == Init /\ settings = Everybody /\ ask[c2].mode = "Writer"
OfEverybody == InitOfEverybody /\ [][Next]_vars /\ Fairness
=============================================================================
