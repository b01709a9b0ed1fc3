----------------------------- MODULE Servers_proofs -----------------------------
(***************************************************************************)
(* Proofs about the file servers, TFTP, FTP and SFTP, for any clients,     *)
(* limits, scripts and files: what a client is told was moved was moved,   *)
(* every command is answered once, and who is gone holds nothing.          *)
(***************************************************************************)
EXTENDS MCServers, Integers, FiniteSetTheorems, SequenceTheorems, TLAPS

-----------------------------------------------------------------------------
(* Numbers on the wire.  Two that are less than a round apart are the same  *)
(* when they look the same, and a window knows how far it was moved.        *)
LEMMA SameRound ==
    \A a, b \in Nat : a < b + BlockNumbers /\ b < a + BlockNumbers /\ SameNumber(a, b) => a = b
<1> SUFFICES ASSUME NEW a \in Nat, NEW b \in Nat, a < b + BlockNumbers, b < a + BlockNumbers, SameNumber(a, b)
             PROVE  a = b
  OBVIOUS
<1>1. PICK B \in Nat \ {0} : B = BlockNumbers
  BY LimitsAssumption
<1>2. PICK p \in Int, q \in Int : a = B * p + (a % B) /\ b = B * q + (b % B)
  <2>1. \A n \in Nat : n \div B \in Int /\ n = B * (n \div B) + (n % B)
    OBVIOUS
  <2> QED BY <2>1
<1>3. a % B = b % B
  BY <1>1 DEF SameNumber
<1>4. a - b = B * (p - q)
  BY <1>1, <1>2, <1>3
<1>5. p - q < 1 /\ p - q > -1
  BY <1>1, <1>4
<1> QED BY <1>1, <1>4, <1>5
(* An acknowledgement of what was sent, not more than a round old, moves    *)
(* the window to itself, or looks as if it moved it past its end.           *)
LEMMA WindowMoves ==
    \A a, b, e, w \in Nat :
        /\ w < BlockNumbers /\ b + w < a + BlockNumbers /\ a <= e /\ e <= b + w
        => LET m == ((a % BlockNumbers) + BlockNumbers - (b % BlockNumbers)) % BlockNumbers IN
           m \in Nat /\ (m # 0 /\ m <= e - b => b + m = a)
<1>1. PICK B \in Nat \ {0} : B = BlockNumbers
  BY LimitsAssumption
<1>2. \A n \in Int : n \div B \in Int /\ n % B \in 0 .. B - 1 /\ n = B * (n \div B) + (n % B)
  OBVIOUS
<1> SUFFICES ASSUME NEW a \in Nat, NEW b \in Nat, NEW e \in Nat, NEW w \in Nat,
                    w < B, b + w < a + B, a <= e, e <= b + w
             PROVE  LET m == ((a % B) + B - (b % B)) % B IN
                    m \in Nat /\ (m # 0 /\ m <= e - b => b + m = a)
  BY <1>1
<1>3. PICK ra \in 0 .. B - 1, qa \in Int : ra = a % B /\ a = B * qa + ra
  <2>1. a \div B \in Int /\ a % B \in 0 .. B - 1 /\ a = B * (a \div B) + (a % B)
    BY <1>2
  <2> QED BY <2>1
<1>4. PICK rb \in 0 .. B - 1, qb \in Int : rb = b % B /\ b = B * qb + rb
  <2>1. b \div B \in Int /\ b % B \in 0 .. B - 1 /\ b = B * (b \div B) + (b % B)
    BY <1>2
  <2> QED BY <2>1
<1>5. PICK m \in 0 .. B - 1, q \in Int : m = (ra + B - rb) % B /\ ra + B - rb = B * q + m
  <2>1. ra + B - rb \in Int
    OBVIOUS
  <2> QED BY <1>2, <2>1
<1>6. ASSUME m # 0, m <= e - b PROVE b + m = a
  <2>1. b = B * qb + rb /\ a = B * qa + ra /\ ra + B - rb = B * q + m
    BY <1>3, <1>4, <1>5
  <2>2. PICK k \in Int : k = qb + 1 - q - qa
    OBVIOUS
  <2>3. B * k = B * qb + B - B * q - B * qa
    BY <2>2
  <2>4. b + m - a = B * k
    BY <2>1, <2>3
  <2>5. b + m - a < B /\ b + m - a > -B
    BY <1>6
  <2>6. k = 0
    BY <2>4, <2>5
  <2> QED BY <2>4, <2>6
<1>7. ((a % B) + B - (b % B)) % B = m
  BY <1>3, <1>4, <1>5
<1>8. m \in Nat
  OBVIOUS
<1> QED BY <1>6, <1>7, <1>8

-----------------------------------------------------------------------------
(* TFTP.  What a client and its transfer are, by how far they are.          *)
Stages == {"asking", "refused", "over"} \union Dispatching \union Running
Hands == [of : Waiting, packet : [op : {"ACK", "DATA", "ERROR"}, block : Nat]]

TftpTypes ==
    /\ load \in Loads
    /\ at \in [Clients -> Stages] /\ inHand \in [Clients -> Hands \union {None}]
    /\ windowBase \in [Clients -> Nat] /\ sent \in [Clients -> Nat] /\ acked \in [Clients -> Nat]
    /\ stored \in [Clients -> Seq(Nat)] /\ got \in [Clients -> Seq(Nat)]
    /\ temporary \subseteq Clients /\ completed \subseteq Clients

NotBegun == {"asking", "refused", "oack"} \union Dispatching
Counted(s) == \A n \in 1 .. Len(s) : s[n] = n

(* A download has sent what its window reaches, and moved it no further     *)
(* than the client says.                                                    *)
DownloadOK(c) ==
    Reads(c) =>
        /\ Counted(got[c]) /\ windowBase[c] < Total(c)
        /\ windowBase[c] <= Len(got[c]) /\ Len(got[c]) <= sent[c]
        /\ sent[c] <= Total(c) /\ sent[c] <= windowBase[c] + load.window[c]
        /\ sent[c] \in {0, windowBase[c] + InWindow(c, windowBase[c])}
        /\ c \in completed => Len(got[c]) = Total(c)
        /\ at[c] \in NotBegun => sent[c] = 0
        /\ at[c] \notin {"placing", "dallying"}
        /\ at[c] = "handling" =>
              /\ inHand[c] \in Hands /\ inHand[c].packet.op \in {"ACK", "ERROR"}
              /\ inHand[c].of = "oack" => sent[c] = 0
              /\ inHand[c].packet.op = "ACK" =>
                    /\ inHand[c].packet.block <= Len(got[c])
                    /\ windowBase[c] + load.window[c] < inHand[c].packet.block + BlockNumbers

(* An upload has stored the blocks in their order, and all of them before   *)
(* anybody is told so.                                                      *)
UploadOK(c) ==
    Writes(c) =>
        /\ Counted(stored[c]) /\ Len(stored[c]) <= Total(c)
        /\ acked[c] <= Acknowledged(c)
        /\ at[c] = "placing" \/ c \in completed => Len(stored[c]) = Total(c)
        /\ c \in completed => at[c] \in {"dallying", "cleanup", "releasing", "over"} /\ file # None
        /\ at[c] = "handling" =>
              /\ inHand[c] \in Hands /\ inHand[c].packet.op \in {"DATA", "ERROR"}
              /\ inHand[c].packet.op = "DATA" =>
                    /\ inHand[c].packet.block \in 1 .. Total(c)
                    /\ inHand[c].packet.block <= Len(stored[c]) + 1
                    /\ Len(stored[c]) + 1 < inHand[c].packet.block + BlockNumbers

TransferOK(c) ==
    /\ DownloadOK(c) /\ UploadOK(c)
    /\ at[c] \notin {"asking", "refused"} => Reads(c) \/ Writes(c)
    /\ c \in temporary =>
          Writes(c) /\ c \notin completed /\ at[c] \in {"looked"} \union (Running \ {"releasing"})

FileOK ==
    file # None => file.by \in completed /\ Writes(file.by) /\ file.blocks = Blocks(file.by)

(* The slots: what is pending is the request that is dispatched, if any is. *)
OfHost(h) == {c \in Holders : load.host[c] = h}
SlotsOK ==
    /\ transfers = {c \in Clients : at[c] \in Running}
    /\ \A c, d \in Clients : at[c] \in Dispatching /\ at[d] \in Dispatching => c = d
    /\ pending \in {0, 1} /\ (pending = 1 => ~Idle)
    /\ IsFiniteSet(Holders) /\ Cardinality(Holders) <= MaxConnections
    /\ hostTransfers \in [Hosts -> Nat]
    /\ \A h \in Hosts : hostTransfers[h] = Cardinality(OfHost(h)) /\ hostTransfers[h] <= MaxConnectionsPerHost

TftpInv == TftpTypes /\ SlotsOK /\ FileOK /\ \A c \in Clients : TransferOK(c)

LEMMA LoadFacts ==
    ASSUME load \in Loads, NEW c \in Clients
    PROVE  /\ load.full[c] \in Nat /\ load.window[c] \in Nat /\ load.window[c] >= 1
           /\ load.window[c] < BlockNumbers /\ BlockNumbers \in Nat /\ load.host[c] \in Hosts
           /\ Total(c) \in Nat /\ Total(c) >= 1
           /\ ~(Reads(c) /\ Writes(c))
           /\ load.ends[c] \in {"short", "empty"} /\ load.retries \in Nat
           /\ None # [by |-> c, blocks |-> Blocks(c)]
<1>1. /\ load.asks \in [Clients -> {"read", "write", "nothing"}]
      /\ load.host \in [Clients -> Hosts] /\ load.full \in [Clients -> Nat]
      /\ load.ends \in [Clients -> {"short", "empty"}]
      /\ load.window \in [Clients -> 1 .. BlockNumbers - 1] /\ load.retries \in Nat
  BY LoadsAssumption
<1>2. None # [by |-> c, blocks |-> [n \in 1 .. load.full[c] + 1 |-> n]]
  BY LoadsAssumption
<1>3. None # [by |-> c, blocks |-> Blocks(c)]
  BY <1>2 DEF Blocks, Total
<1> QED BY <1>1, <1>3, LimitsAssumption DEF Total, Reads, Writes

LEMMA WindowFits ==
    ASSUME load \in Loads, NEW c \in Clients, NEW b \in Nat, b < Total(c)
    PROVE  /\ InWindow(c, b) \in Nat /\ InWindow(c, b) >= 1 /\ InWindow(c, b) <= load.window[c]
           /\ b + InWindow(c, b) <= Total(c)
  BY LoadFacts DEF InWindow, Least, Total

LEMMA WindowGrows ==
    ASSUME load \in Loads, NEW c \in Clients, NEW a \in Nat, NEW b \in Nat, a < b, b < Total(c)
    PROVE  a + InWindow(c, a) <= b + InWindow(c, b)
  BY LoadFacts DEF InWindow, Least, Total

(* What is as it was is as it should be.                                    *)
SameTransfer(d) ==
    /\ at'[d] = at[d] /\ inHand'[d] = inHand[d] /\ windowBase'[d] = windowBase[d] /\ sent'[d] = sent[d]
    /\ stored'[d] = stored[d] /\ got'[d] = got[d] /\ acked'[d] = acked[d]
    /\ (d \in temporary' <=> d \in temporary) /\ (d \in completed' <=> d \in completed)

LEMMA OneTransfer ==
    ASSUME \A d \in Clients : TransferOK(d), NEW c \in Clients, load' = load,
           file # None => file' # None,
           \A d \in Clients \ {c} : SameTransfer(d), TransferOK(c)'
    PROVE  \A d \in Clients : TransferOK(d)'
<1> SUFFICES ASSUME NEW d \in Clients \ {c} PROVE TransferOK(d)'
  OBVIOUS
<1>1. SameTransfer(d) /\ TransferOK(d)
  OBVIOUS
<1>2. DownloadOK(d)'
  BY <1>1 DEF TransferOK, DownloadOK, SameTransfer, Reads, Total, Counted, InWindow
<1>3. UploadOK(d)'
  BY <1>1 DEF TransferOK, UploadOK, SameTransfer, Writes, Total, Counted, Acknowledged
<1> QED BY <1>1, <1>2, <1>3 DEF TransferOK, SameTransfer, Reads, Writes

LEMMA SlotsKept ==
    ASSUME SlotsOK, load' = load, UNCHANGED slotVars,
           \A d \in Clients : (at'[d] \in Running <=> at[d] \in Running)
                              /\ (at'[d] \in Dispatching <=> at[d] \in Dispatching)
    PROVE  SlotsOK'
<1>1. Holders' = Holders /\ Idle' = Idle
  BY DEF Holders, Idle
<1>2. \A h \in Hosts : OfHost(h)' = OfHost(h)
  BY <1>1 DEF OfHost
<1> QED BY <1>1, <1>2 DEF SlotsOK, slotVars

LEMMA FileKept ==
    ASSUME FileOK, load' = load, file' = file, completed \subseteq completed' PROVE FileOK'
  BY DEF FileOK, Writes, Blocks, Total
LEMMA TftpInit == Init => TftpInv
<1> SUFFICES ASSUME Init PROVE TftpInv
  OBVIOUS
<1> USE DEF Init
<1>1. TftpTypes
  BY DEF TftpTypes, Stages
<1>2. Holders = {} /\ \A h \in Hosts : OfHost(h) = {}
  BY DEF Holders, OfHost, Dispatching, Running, Waiting
<1>3. IsFiniteSet({}) /\ Cardinality({}) = 0
  BY FS_EmptySet
<1>4. SlotsOK
  <2>1. transfers = {c \in Clients : at[c] \in Running} /\ \A c \in Clients : at[c] \notin Dispatching
    BY DEF Running, Waiting, Dispatching
  <2>2. IsFiniteSet(Holders) /\ Cardinality(Holders) <= MaxConnections
    BY <1>2, <1>3, LimitsAssumption
  <2>3. \A h \in Hosts : hostTransfers[h] = Cardinality(OfHost(h)) /\ hostTransfers[h] <= MaxConnectionsPerHost
    <3>1. \A h \in Hosts : hostTransfers[h] = 0
      OBVIOUS
    <3> HIDE DEF Init
    <3> QED BY <1>2, <1>3, <3>1, LimitsAssumption
  <2> QED BY <2>1, <2>2, <2>3 DEF SlotsOK
<1>5. FileOK
  BY DEF FileOK
<1>6. ASSUME NEW c \in Clients PROVE TransferOK(c)
  BY LoadFacts DEF TransferOK, DownloadOK, UploadOK, Counted, Acknowledged, Least
<1> QED BY <1>1, <1>4, <1>5, <1>6 DEF TftpInv

(* The client.                                                              *)
LEMMA ClientStep ==
    ASSUME TftpInv, NEW c \in Clients, Client(c) PROVE TftpInv'
<1> USE DEF TftpInv
<1>1. load' = load /\ at' = at /\ UNCHANGED slotVars /\ inHand' = inHand /\ UNCHANGED dataVars
  BY DEF Client, ClientLearns, ClientTakes
<1>2. SlotsOK'
  BY <1>1, SlotsKept
<1>3. FileOK'
  BY <1>1, FileKept DEF dataVars
<1>4. load \in Loads /\ got[c] \in Seq(Nat) /\ sent[c] \in Nat /\ acked[c] \in Nat /\ windowBase[c] \in Nat
  BY DEF TftpTypes
<1>5. ASSUME NEW n \in 1 .. sent[c], ClientTakes(c, n) PROVE TftpInv'
  <2>1. Reads(c) /\ ~Writes(c) /\ got' = [got EXCEPT ![c] = Append(got[c], n)] /\ acked' = acked /\ n \in Nat
    BY <1>4, <1>5, LoadFacts DEF ClientTakes
  <2>2. n = Len(got[c]) + 1
    <3>1. Len(got[c]) + 1 < n + BlockNumbers /\ SameNumber(n, Len(got[c]) + 1)
      BY <1>5 DEF ClientTakes
    <3>2. n < Len(got[c]) + 1 + BlockNumbers
      <4>1. DownloadOK(c)
        BY DEF TransferOK
      <4>2. /\ windowBase[c] <= Len(got[c]) /\ sent[c] <= windowBase[c] + load.window[c]
        BY <2>1, <4>1 DEF DownloadOK
      <4>3. load.window[c] \in Nat /\ load.window[c] < BlockNumbers /\ BlockNumbers \in Nat
        BY <1>4, LoadFacts
      <4>4. n <= sent[c] /\ n \in Nat /\ Len(got[c]) \in Nat
        BY <1>4
      <4> HIDE DEF TftpInv
      <4> QED BY <1>4, <4>2, <4>3, <4>4, SMTT(20)
    <3>3. Len(got[c]) + 1 \in Nat
      BY <1>4
    <3> QED BY <2>1, <3>1, <3>2, <3>3, SameRound
  <2>3. got'[c] = Append(got[c], n) /\ got' \in [Clients -> Seq(Nat)]
    BY <1>4, <2>1 DEF TftpTypes
  <2>4. /\ Len(got'[c]) = Len(got[c]) + 1 /\ Counted(got'[c])
    <3>1. PICK g \in Seq(Nat) : g = got[c] /\ Counted(g)
      BY <1>4, <2>1 DEF TransferOK, DownloadOK
    <3>2. Len(Append(g, n)) = Len(g) + 1 /\ Counted(Append(g, n))
      BY <2>1, <2>2, <3>1 DEF Counted
    <3> QED BY <2>3, <3>1, <3>2
  <2>5. TftpTypes'
    BY <1>1, <2>1, <2>3 DEF TftpTypes, dataVars
  <2>6. TransferOK(c)'
    <3>1. DownloadOK(c)'
      <4>1. Len(got[c]) < Total(c)
        BY <1>5 DEF ClientTakes
      <4>2. Len(got[c]) + 1 <= sent[c] /\ Len(got[c]) \in Nat
        BY <1>4, <2>2
      <4>3. PICK m \in Nat : m = Len(got[c]) /\ Len(got'[c]) = m + 1
        BY <2>4, <4>2
      <4>4. DownloadOK(c)
        BY DEF TransferOK
      <4>5. at[c] = "handling" /\ inHand[c].packet.op = "ACK" => inHand[c].packet.block <= m + 1
        BY <2>1, <4>3, <4>4 DEF DownloadOK, Hands
      <4> QED BY <1>1, <1>4, <2>1, <2>4, <4>1, <4>2, <4>3, <4>4, <4>5, LoadFacts
              DEF DownloadOK, Reads, Total, InWindow, dataVars
    <3> QED BY <1>1, <2>1, <3>1 DEF TransferOK, UploadOK, Reads, Writes, Total, dataVars
  <2>7. \A d \in Clients \ {c} : SameTransfer(d)
    BY <1>1, <2>1 DEF SameTransfer, dataVars, TftpTypes
  <2>8. \A d \in Clients : TransferOK(d)'
    BY <1>1, <2>6, <2>7, OneTransfer DEF dataVars
  <2> QED BY <1>2, <1>3, <2>5, <2>8
<1>6. CASE ClientLearns(c)
  <2>1. Writes(c) /\ ~Reads(c) /\ acked[c] < Acknowledged(c) /\ acked' = [acked EXCEPT ![c] = acked[c] + 1] /\ got' = got
    BY <1>4, <1>6, LoadFacts DEF ClientLearns
  <2>2. TftpTypes'
    BY <1>1, <1>4, <2>1 DEF TftpTypes, dataVars
  <2>3. TransferOK(c)'
    <3>1. Acknowledged(c)' = Acknowledged(c) /\ Acknowledged(c) \in Int
      BY <1>1, <1>4, LoadFacts DEF Acknowledged, Least, Total, dataVars, TftpTypes
    <3>2. acked'[c] = acked[c] + 1 /\ acked'[c] <= Acknowledged(c)
      BY <1>4, <2>1, <3>1 DEF TftpTypes
    <3>3. UploadOK(c)'
      BY <1>1, <3>1, <3>2 DEF TransferOK, UploadOK, Writes, Total, dataVars
    <3> QED BY <1>1, <2>1, <3>3 DEF TransferOK, DownloadOK, Reads, Writes, Total, dataVars
  <2>4. \A d \in Clients \ {c} : SameTransfer(d)
    BY <1>1, <2>1 DEF SameTransfer, dataVars, TftpTypes
  <2>5. \A d \in Clients : TransferOK(d)'
    BY <1>1, <2>3, <2>4, OneTransfer DEF dataVars
  <2> QED BY <1>2, <1>3, <2>2, <2>5
<1> QED BY <1>5, <1>6 DEF Client
(* A transfer waits.                                                        *)
LEMMA OthersStay ==
    ASSUME TftpTypes, NEW c \in Clients, NEW stage \in Stages, at' = [at EXCEPT ![c] = stage]
    PROVE  /\ at' \in [Clients -> Stages] /\ at'[c] = stage
           /\ \A d \in Clients \ {c} : at'[d] = at[d]
  BY DEF TftpTypes

LEMMA ReceivesStep ==
    ASSUME TftpInv, NEW c \in Clients, NEW packet \in Sendable(c), Receives(c, packet) PROVE TftpInv'
<1> USE DEF TftpInv
<1>1. /\ load' = load /\ UNCHANGED slotVars /\ UNCHANGED dataVars /\ UNCHANGED clientVars
      /\ at[c] \in Waiting /\ at' = [at EXCEPT ![c] = "handling"]
      /\ inHand' = [inHand EXCEPT ![c] = [of |-> at[c], packet |-> packet]]
  BY DEF Receives, To
<1>2. /\ load \in Loads /\ got[c] \in Seq(Nat) /\ sent[c] \in Nat /\ acked[c] \in Nat /\ windowBase[c] \in Nat
      /\ stored[c] \in Seq(Nat) /\ Len(got[c]) \in Nat /\ Len(stored[c]) \in Nat
  BY DEF TftpTypes
<1>3. /\ at' \in [Clients -> Stages] /\ at'[c] = "handling"
      /\ \A d \in Clients \ {c} : at'[d] = at[d]
  BY <1>1, OthersStay DEF Stages, Running
<1>4. SlotsOK'
  BY <1>1, <1>3, SlotsKept DEF Running, Waiting, Dispatching
<1>5. FileOK'
  BY <1>1, FileKept DEF dataVars
<1>6. /\ packet \in [op : {"ACK", "DATA", "ERROR"}, block : Nat]
      /\ Reads(c) => packet.op \in {"ACK", "ERROR"}
      /\ Writes(c) => packet.op \in {"DATA", "ERROR"}
      /\ packet.op = "ACK" => /\ packet.block <= Len(got[c])
                              /\ windowBase[c] + load.window[c] < packet.block + BlockNumbers
      /\ packet.op = "DATA" => /\ packet.block \in 1 .. Least(acked[c] + 1, Total(c))
                               /\ Len(stored[c]) + 1 < packet.block + BlockNumbers
  <2>1. CASE packet = [op |-> "ERROR", block |-> 0]
    BY <2>1
  <2>2. CASE Reads(c) /\ packet \in {[op |-> "ACK", block |-> a] : a \in
                     {a \in 0 .. Len(got[c]) : windowBase[c] + load.window[c] < a + BlockNumbers}}
    BY <1>2, <2>2, LoadFacts
  <2>3. CASE ~Reads(c) /\ packet \in {[op |-> "DATA", block |-> n] : n \in
                     {n \in 1 .. Least(acked[c] + 1, Total(c)) : Len(stored[c]) + 1 < n + BlockNumbers}}
    BY <1>2, <2>3
  <2> QED BY <2>1, <2>2, <2>3 DEF Sendable
<1>7. inHand'[c] = [of |-> at[c], packet |-> packet] /\ inHand'[c] \in Hands
      /\ \A d \in Clients \ {c} : inHand'[d] = inHand[d]
  BY <1>1, <1>6 DEF TftpTypes, Hands
<1>8. TftpTypes'
  BY <1>1, <1>3, <1>7 DEF TftpTypes, dataVars, clientVars
<1>9. DownloadOK(c)'
  <2>1. ASSUME Reads(c), inHand'[c].of = "oack" PROVE sent[c] = 0
    BY <1>7, <2>1 DEF TransferOK, DownloadOK, NotBegun
  <2>2. Reads(c) => DownloadOK(c) /\ inHand'[c].packet = packet
    BY <1>7 DEF TransferOK
  <2> QED BY <1>1, <1>3, <1>6, <1>7, <2>1, <2>2 DEF DownloadOK, Reads, Total, InWindow, dataVars, clientVars, NotBegun, Dispatching
<1>10. UploadOK(c)'
  <2>1. ASSUME Writes(c) PROVE c \notin completed /\ acked[c] <= Least(Len(stored[c]), load.full[c])
    BY <1>1, <2>1 DEF TransferOK, UploadOK, Waiting, Acknowledged
  <2>2. ASSUME Writes(c), packet.op = "DATA"
        PROVE  packet.block \in 1 .. Total(c) /\ packet.block <= Len(stored[c]) + 1
    BY <1>2, <1>6, <2>1, <2>2, LoadFacts DEF Least
  <2>3. UploadOK(c)
    BY DEF TransferOK
  <2>4. Acknowledged(c)' = Acknowledged(c)
    BY <1>1 DEF Acknowledged, dataVars, Total
  <2>5. inHand'[c].packet = packet
    BY <1>7
  <2> QED BY <1>1, <1>3, <1>6, <1>7, <2>1, <2>2, <2>3, <2>4, <2>5
          DEF UploadOK, Writes, Total, dataVars, clientVars
<1>11. TransferOK(c)'
  BY <1>1, <1>3, <1>9, <1>10 DEF TransferOK, dataVars, Running, Waiting, Reads, Writes
<1>12. \A d \in Clients \ {c} : SameTransfer(d)
  BY <1>1, <1>3, <1>7 DEF SameTransfer, dataVars, clientVars
<1>13. \A d \in Clients : TransferOK(d)'
  BY <1>1, <1>11, <1>12, OneTransfer DEF dataVars
<1> QED BY <1>4, <1>5, <1>8, <1>13

LEMMA WaitsStep ==
    ASSUME TftpInv, NEW c \in Clients, TimesOut(c) \/ GetsLate(c) \/ Wakes(c) PROVE TftpInv'
<1> USE DEF TftpInv
<1>1. /\ load' = load /\ UNCHANGED slotVars /\ inHand' = inHand /\ UNCHANGED dataVars /\ UNCHANGED clientVars
      /\ at' = at \/ (at[c] \in Waiting /\ at' = [at EXCEPT ![c] = "cleanup"])
  BY DEF TimesOut, GetsLate, Wakes, To
<1>2. PICK stage \in Stages : /\ at' = [at EXCEPT ![c] = stage]
                              /\ stage = at[c] \/ (at[c] \in Waiting /\ stage = "cleanup")
  <2>1. at \in [Clients -> Stages] /\ at[c] \in Stages /\ "cleanup" \in Stages
    BY DEF TftpTypes, Stages, Running
  <2>2. CASE at' = at
    BY <2>1, <2>2
  <2> QED BY <1>1, <2>1, <2>2
<1>3. at' \in [Clients -> Stages] /\ at'[c] = stage /\ \A d \in Clients \ {c} : at'[d] = at[d]
  BY <1>2, OthersStay
<1>4. SlotsOK'
  BY <1>1, <1>2, <1>3, SlotsKept DEF Running, Waiting, Dispatching
<1>5. FileOK'
  BY <1>1, FileKept DEF dataVars
<1>6. TftpTypes'
  BY <1>1, <1>3 DEF TftpTypes, dataVars, clientVars
<1>7. DownloadOK(c)'
  BY <1>1, <1>2, <1>3 DEF TransferOK, DownloadOK, Reads, Total, InWindow, dataVars, clientVars, NotBegun, Dispatching, Waiting
<1>8. UploadOK(c)'
  <2>1. Acknowledged(c)' = Acknowledged(c)
    BY <1>1 DEF Acknowledged, dataVars, Total
  <2> QED BY <1>1, <1>2, <1>3, <2>1 DEF TransferOK, UploadOK, Writes, Total, dataVars, clientVars, Waiting
<1>9. TransferOK(c)'
  BY <1>1, <1>2, <1>3, <1>7, <1>8 DEF TransferOK, dataVars, Running, Waiting, Reads, Writes
<1>10. \A d \in Clients \ {c} : SameTransfer(d)
  BY <1>1, <1>3 DEF SameTransfer, dataVars, clientVars
<1>11. \A d \in Clients : TransferOK(d)'
  BY <1>1, <1>9, <1>10, OneTransfer DEF dataVars
<1> QED BY <1>4, <1>5, <1>6, <1>11

(* Shutdown touches no transfer by itself.                                  *)
LEMMA ShutsStep ==
    ASSUME TftpInv, ShutdownBegins \/ Shuts \/ UNCHANGED vars PROVE TftpInv'
<1> USE DEF TftpInv
<1>1. /\ load' = load /\ at' = at /\ UNCHANGED slotVars /\ inHand' = inHand
      /\ UNCHANGED dataVars /\ UNCHANGED clientVars
  BY DEF ShutdownBegins, Shuts, ShutdownCancels, ShutdownCloses, ShutdownReturns, vars
<1>2. SlotsOK'
  BY <1>1, SlotsKept
<1>3. FileOK'
  BY <1>1, FileKept DEF dataVars
<1>4. TftpTypes'
  BY <1>1 DEF TftpTypes, dataVars, clientVars
<1>5. ASSUME NEW c \in Clients PROVE TransferOK(c)'
  <2>1. Acknowledged(c)' = Acknowledged(c)
    BY <1>1 DEF Acknowledged, dataVars, Total
  <2> QED BY <1>1, <2>1 DEF TransferOK, DownloadOK, UploadOK, Reads, Writes, Total, InWindow, dataVars, clientVars
<1> QED BY <1>2, <1>3, <1>4, <1>5
(* What an acknowledgement may make of the window of a download.            *)
MovesTo(c, stage, base, end) ==
    /\ Reads(c) /\ stage \in {"await", "cleanup"}
    /\ windowBase' = [windowBase EXCEPT ![c] = base] /\ sent' = [sent EXCEPT ![c] = end]
    /\ UNCHANGED <<stored, temporary, file>>
    /\ base < Total(c) /\ base <= Len(got[c]) /\ Len(got[c]) <= end
    /\ end <= Total(c) /\ end <= base + load.window[c] /\ end \in {0, base + InWindow(c, base)}
    /\ \/ completed' = completed
       \/ completed' = completed \union {c} /\ Len(got[c]) = Total(c)

(* A transfer handles what it has in hand.                                  *)
LEMMA HandlesStep ==
    ASSUME TftpInv, NEW c \in Clients, Handles(c) PROVE TftpInv'
<1> USE DEF TftpInv
<1>1. at[c] = "handling" /\ load' = load /\ UNCHANGED slotVars /\ UNCHANGED clientVars
  BY DEF Handles, Fails, Handshake, HandlesAck, HandlesData, Handling, Handled
<1>2. PICK stage \in {"cleanup", "await", "oack", "placing"} :
        Handled(c, stage) /\ at' = [at EXCEPT ![c] = stage] /\ inHand' = [inHand EXCEPT ![c] = None]
  BY DEF Handles, Fails, Handshake, HandlesAck, HandlesData, Handled, To
<1>3. /\ at' \in [Clients -> Stages] /\ at'[c] = stage
      /\ \A d \in Clients \ {c} : at'[d] = at[d]
  BY <1>2, OthersStay DEF Stages, Running, Waiting
<1>4. inHand'[c] = None /\ inHand' \in [Clients -> Hands \union {None}]
      /\ \A d \in Clients \ {c} : inHand'[d] = inHand[d]
  BY <1>2 DEF TftpTypes
<1>5. SlotsOK'
  BY <1>1, <1>2, <1>3, SlotsKept DEF Running, Waiting, Dispatching
<1>6. /\ load \in Loads /\ got[c] \in Seq(Nat) /\ sent[c] \in Nat /\ acked[c] \in Nat /\ windowBase[c] \in Nat
      /\ stored[c] \in Seq(Nat) /\ Len(got[c]) \in Nat /\ Len(stored[c]) \in Nat
  BY DEF TftpTypes
<1>7. (Reads(c) \/ Writes(c)) /\ DownloadOK(c) /\ UploadOK(c)
  BY <1>1 DEF TransferOK
<1>8. ~(Reads(c) /\ Writes(c))
  BY <1>6, LoadFacts
<1>9. inHand[c] \in Hands
  BY <1>1, <1>7 DEF DownloadOK, UploadOK
<1>10. PICK packet \in [op : {"ACK", "DATA", "ERROR"}, block : Nat] : packet = inHand[c].packet
  BY <1>9 DEF Hands
<1>11. Packet(c) = packet
  BY <1>10 DEF Packet
(* Nothing but the stage.                                                   *)
<1>12. ASSUME UNCHANGED dataVars, Reads(c) => stage # "placing" /\ (stage = "oack" => sent[c] = 0),
              stage = "placing" => Len(stored[c]) = Total(c)
       PROVE  TftpInv'
  <2>1. TftpTypes'
    BY <1>1, <1>3, <1>4, <1>12 DEF TftpTypes, dataVars, clientVars
  <2>2. FileOK'
    BY <1>1, <1>12, FileKept DEF dataVars
  <2>3. DownloadOK(c)'
    BY <1>1, <1>2, <1>3, <1>7, <1>12 DEF DownloadOK, Reads, Total, InWindow, dataVars, clientVars, NotBegun, Dispatching
  <2>4. UploadOK(c)'
    <3>1. Acknowledged(c)' = Acknowledged(c)
      BY <1>1, <1>12 DEF Acknowledged, dataVars, Total
    <3>2. Writes(c) => c \notin completed
      BY <1>1, <1>7 DEF UploadOK
    <3> QED BY <1>1, <1>2, <1>3, <1>7, <1>12, <3>1, <3>2 DEF UploadOK, Writes, Total, dataVars, clientVars
  <2>5. TransferOK(c)'
    BY <1>1, <1>2, <1>3, <1>7, <1>12, <2>3, <2>4 DEF TransferOK, dataVars, Running, Waiting, Reads, Writes
  <2>6. \A d \in Clients \ {c} : SameTransfer(d)
    BY <1>1, <1>3, <1>4, <1>12 DEF SameTransfer, dataVars, clientVars
  <2>7. \A d \in Clients : TransferOK(d)'
    BY <1>1, <1>12, <2>5, <2>6, OneTransfer DEF dataVars
  <2> QED BY <1>5, <2>1, <2>2, <2>7
(* The window of a download.                                                *)
<1>13. ASSUME NEW base \in Nat, NEW end \in Nat, MovesTo(c, stage, base, end)
       PROVE  TftpInv'
  <2>1. /\ windowBase' \in [Clients -> Nat] /\ windowBase'[c] = base
        /\ sent' \in [Clients -> Nat] /\ sent'[c] = end
        /\ \A d \in Clients \ {c} : windowBase'[d] = windowBase[d] /\ sent'[d] = sent[d]
    BY <1>13 DEF TftpTypes, MovesTo
  <2>2. TftpTypes'
    BY <1>1, <1>3, <1>4, <1>13, <2>1 DEF TftpTypes, clientVars, MovesTo
  <2>3. FileOK'
    BY <1>1, <1>13, FileKept DEF MovesTo
  <2>4. DownloadOK(c)'
    BY <1>1, <1>2, <1>3, <1>7, <1>13, <2>1 DEF DownloadOK, Reads, Total, InWindow, clientVars, NotBegun, Dispatching, MovesTo
  <2>5. ~Writes(c)' /\ Reads(c)' /\ (c \in temporary' => Writes(c))
    BY <1>1, <1>8, <1>13 DEF TransferOK, Reads, Writes, MovesTo
  <2>6. TransferOK(c)'
    BY <1>8, <1>13, <2>4, <2>5 DEF TransferOK, UploadOK, MovesTo
  <2>7. \A d \in Clients \ {c} : SameTransfer(d)
    BY <1>1, <1>3, <1>4, <1>13, <2>1 DEF SameTransfer, clientVars, MovesTo
  <2>8. \A d \in Clients : TransferOK(d)'
    BY <1>1, <1>13, <2>6, <2>7, OneTransfer DEF MovesTo
  <2> QED BY <1>5, <2>2, <2>3, <2>8
<1>14. CASE Fails(c)
  <2>1. stage = "cleanup" /\ UNCHANGED dataVars
    <3>1. at' = [at EXCEPT ![c] = "cleanup"] /\ UNCHANGED dataVars
      BY <1>14 DEF Fails, Handled, To
    <3> QED BY <1>3, <3>1 DEF TftpTypes
  <2> QED BY <1>12, <2>1
<1>15. CASE Handshake(c)
  <2>1. /\ inHand[c].of = "oack" /\ packet.op = "ACK" /\ UNCHANGED <<windowBase, stored, temporary, file, completed>>
        /\ \/ at' = [at EXCEPT ![c] = "await"] /\ sent' = [sent EXCEPT ![c] = InWindow(c, 0)]
           \/ at' = [at EXCEPT ![c] = "oack"] /\ UNCHANGED sent
    BY <1>11, <1>15 DEF Handshake, Handled, To
  <2>2. Reads(c) /\ sent[c] = 0 /\ got[c] = <<>> /\ windowBase[c] = 0
    <3>1. Reads(c)
      BY <1>1, <1>7, <1>10, <2>1 DEF UploadOK
    <3>2. sent[c] = 0
      BY <1>1, <1>7, <2>1, <3>1 DEF DownloadOK
    <3>3. Len(got[c]) = 0 /\ windowBase[c] = 0
      BY <1>6, <1>7, <3>1, <3>2 DEF DownloadOK
    <3> QED BY <1>6, <3>1, <3>2, <3>3
  <2>3. CASE at' = [at EXCEPT ![c] = "await"] /\ sent' = [sent EXCEPT ![c] = InWindow(c, 0)]
    <3>1. stage = "await"
      BY <1>3, <2>3 DEF TftpTypes
    <3>2. 0 < Total(c) /\ Total(c) \in Nat
      BY <1>6, LoadFacts
    <3>3. PICK end \in Nat : end = InWindow(c, 0) /\ end <= load.window[c] /\ 0 + end <= Total(c)
      BY <1>6, <3>2, WindowFits
    <3>4. windowBase' = [windowBase EXCEPT ![c] = 0]
      BY <2>1, <2>2 DEF TftpTypes
    <3>5. Len(got[c]) = 0
      BY <2>2
    <3>6. UNCHANGED <<stored, temporary, file>> /\ completed' = completed /\ sent' = [sent EXCEPT ![c] = end]
      BY <2>1, <2>3, <3>3
    <3>7. Len(got[c]) <= end /\ 0 <= Len(got[c]) /\ end <= 0 + load.window[c] /\ end = 0 + InWindow(c, 0)
      BY <1>6, <3>3, <3>5, LoadFacts
    <3>8. MovesTo(c, stage, 0, end)
      BY <2>2, <3>1, <3>2, <3>3, <3>4, <3>6, <3>7 DEF MovesTo
    <3> QED BY <1>13, <3>8
  <2>4. CASE at' = [at EXCEPT ![c] = "oack"] /\ UNCHANGED sent
    <3>1. stage = "oack"
      BY <1>3, <2>4 DEF TftpTypes
    <3> QED BY <1>12, <2>1, <2>2, <2>4, <3>1 DEF dataVars
  <2> QED BY <2>1, <2>3, <2>4
<1>16. CASE HandlesAck(c)
  <2>1. packet.op = "ACK"
    BY <1>11, <1>16 DEF HandlesAck
  <2>2. Reads(c)
    BY <1>1, <1>7, <1>10, <2>1 DEF UploadOK
  <2>3. /\ packet.block <= Len(got[c]) /\ windowBase[c] + load.window[c] < packet.block + BlockNumbers
        /\ windowBase[c] < Total(c) /\ windowBase[c] <= Len(got[c]) /\ Len(got[c]) <= sent[c]
        /\ sent[c] <= Total(c) /\ sent[c] <= windowBase[c] + load.window[c]
    BY <1>1, <1>7, <1>10, <2>1, <2>2 DEF DownloadOK
  <2>4. load.window[c] \in Nat /\ load.window[c] < BlockNumbers /\ packet.block \in Nat
    BY <1>6, LoadFacts
  <2>5. packet.block <= sent[c]
    BY <1>6, <2>3, <2>4
  <2>6. PICK m \in Nat : m = Moves(c) /\ (m # 0 /\ m <= sent[c] - windowBase[c] => windowBase[c] + m = packet.block)
    BY <1>6, <1>11, <2>3, <2>4, <2>5, WindowMoves, ZenonT(30) DEF Moves
  <2>7. CASE StaleAck(c) /\ Handled(c, "await") /\ UNCHANGED dataVars
    <3>1. stage = "await"
      BY <1>3, <2>7 DEF TftpTypes, Handled, To
    <3> QED BY <1>12, <2>7, <3>1
  <2>8. ASSUME ~StaleAck(c) PROVE windowBase[c] + m = packet.block
    BY <1>6, <2>6, <2>8 DEF StaleAck
  <2>9. CASE /\ ~StaleAck(c) /\ windowBase[c] + Moves(c) = Total(c)
             /\ completed' = completed \union {c} /\ Handled(c, "cleanup")
             /\ UNCHANGED <<windowBase, sent, stored, temporary, file>>
    <3>1. stage = "cleanup"
      BY <1>3, <2>9 DEF TftpTypes, Handled, To
    <3>2. Len(got[c]) = Total(c)
      BY <1>6, <2>3, <2>4, <2>6, <2>8, <2>9, LoadFacts, SMTT(20)
    <3>3. windowBase' = [windowBase EXCEPT ![c] = windowBase[c]] /\ sent' = [sent EXCEPT ![c] = sent[c]]
      BY <2>9 DEF TftpTypes
    <3>4. MovesTo(c, stage, windowBase[c], sent[c])
      BY <1>1, <1>6, <1>7, <2>2, <2>3, <2>9, <3>1, <3>2, <3>3 DEF MovesTo, DownloadOK
    <3> QED BY <1>6, <1>13, <3>4
  <2>10. CASE /\ ~StaleAck(c) /\ windowBase[c] + Moves(c) # Total(c)
              /\ windowBase' = [windowBase EXCEPT ![c] = windowBase[c] + Moves(c)]
              /\ sent' = [sent EXCEPT ![c] = windowBase[c] + Moves(c) + InWindow(c, windowBase[c] + Moves(c))]
              /\ Handled(c, "await") /\ UNCHANGED <<stored, temporary, file, completed>>
    <3>1. stage = "await"
      BY <1>3, <2>10 DEF TftpTypes, Handled, To
    <3>2. PICK base \in Nat : base = windowBase[c] + Moves(c) /\ base = packet.block
      BY <1>6, <2>4, <2>6, <2>8, <2>10
    <3>3. base <= Len(got[c]) /\ base < Total(c)
      BY <1>6, <2>3, <2>10, <3>2, LoadFacts, SMTT(20)
    <3>4. PICK n \in Nat : n = InWindow(c, base) /\ n <= load.window[c] /\ base + n <= Total(c)
      BY <1>6, <3>3, WindowFits
    <3>5. PICK end \in Nat : end = base + n
      OBVIOUS
    <3>6. Len(got[c]) <= end
      <4>1. sent[c] \in {0, windowBase[c] + InWindow(c, windowBase[c])}
        BY <1>7, <2>2 DEF DownloadOK
      <4>2. windowBase[c] < base
        BY <1>6, <2>6, <2>10, <3>2 DEF StaleAck
      <4>3. windowBase[c] + InWindow(c, windowBase[c]) <= end
        BY <1>6, <3>3, <3>4, <3>5, <4>2, WindowGrows
      <4> QED BY <1>6, <2>3, <3>5, <4>1, <4>3
    <3>7. /\ windowBase' = [windowBase EXCEPT ![c] = base] /\ sent' = [sent EXCEPT ![c] = end]
          /\ UNCHANGED <<stored, temporary, file>> /\ completed' = completed
      BY <2>10, <3>2, <3>4, <3>5
    <3>8. end <= base + load.window[c] /\ end <= Total(c) /\ end = base + InWindow(c, base)
      BY <1>6, <3>4, <3>5, LoadFacts
    <3>9. MovesTo(c, stage, base, end)
      BY <2>2, <3>1, <3>3, <3>6, <3>7, <3>8 DEF MovesTo
    <3> QED BY <1>13, <3>9
  <2> QED BY <1>16, <2>7, <2>9, <2>10 DEF HandlesAck
<1>17. CASE HandlesData(c)
  <2>1. packet.op = "DATA"
    BY <1>11, <1>17 DEF HandlesData
  <2>2. Writes(c) /\ ~Reads(c)
    BY <1>1, <1>7, <1>8, <1>10, <2>1 DEF DownloadOK
  <2>3. /\ packet.block \in 1 .. Total(c) /\ packet.block <= Len(stored[c]) + 1
        /\ Len(stored[c]) + 1 < packet.block + BlockNumbers /\ c \notin completed
        /\ Counted(stored[c]) /\ Len(stored[c]) <= Total(c)
    BY <1>1, <1>7, <1>10, <2>1, <2>2 DEF UploadOK
  <2>4. CASE OutOfOrder(c)
    <3>1. at' = [at EXCEPT ![c] = "await"] /\ UNCHANGED dataVars
      BY <1>17, <2>4 DEF HandlesData, Handled, To, dataVars
    <3>2. stage = "await"
      BY <1>3, <3>1 DEF TftpTypes
    <3> QED BY <1>12, <3>1, <3>2
  <2>5. CASE ~OutOfOrder(c)
    <3>1. /\ stored' = [stored EXCEPT ![c] = Append(stored[c], packet.block)]
          /\ UNCHANGED <<windowBase, sent, temporary, file, completed>>
          /\ at' = [at EXCEPT ![c] = IF packet.block = Total(c) THEN "placing" ELSE "await"]
      BY <1>11, <1>17, <2>5 DEF HandlesData, Handled, To
    <3>2. stage = IF packet.block = Total(c) THEN "placing" ELSE "await"
      BY <1>3, <3>1 DEF TftpTypes
    <3>3. packet.block = Len(stored[c]) + 1
      <4>1. SameNumber(packet.block, Len(stored[c]) + 1)
        BY <1>11, <2>5 DEF OutOfOrder
      <4>2. Len(stored[c]) + 1 \in Nat /\ packet.block < Len(stored[c]) + 1 + BlockNumbers
        BY <1>6, <2>3, LimitsAssumption
      <4> QED BY <2>3, <4>1, <4>2, SameRound
    <3>4. PICK g \in Seq(Nat), b \in Nat : g = stored[c] /\ b = packet.block
      BY <1>6
    <3>5. stored'[c] = Append(g, b) /\ stored' \in [Clients -> Seq(Nat)]
          /\ \A d \in Clients \ {c} : stored'[d] = stored[d]
      BY <3>1, <3>4 DEF TftpTypes
    <3>6. Len(Append(g, b)) = Len(g) + 1 /\ Counted(Append(g, b))
      BY <2>3, <3>3, <3>4 DEF Counted
    <3>7. TftpTypes'
      BY <1>1, <1>3, <1>4, <3>1, <3>5 DEF TftpTypes, clientVars
    <3>8. FileOK'
      BY <1>1, <3>1, FileKept
    <3>9. UploadOK(c)'
      <4>1. acked[c] <= Least(Len(g), load.full[c])
        BY <1>7, <2>2, <2>3, <3>4 DEF UploadOK, Acknowledged
      <4>2. acked[c] <= Least(Len(g) + 1, load.full[c]) /\ Len(g) + 1 = b
        BY <1>6, <3>3, <3>4, <4>1, LoadFacts DEF Least
      <4>3. Len(stored'[c]) = Len(g) + 1 /\ Counted(stored'[c])
        BY <3>5, <3>6
      <4>4. Acknowledged(c)' = Least(Len(g) + 1, load.full[c])
        BY <1>1, <2>3, <3>1, <4>3 DEF Acknowledged
      <4> QED BY <1>1, <1>2, <1>3, <2>3, <3>1, <3>2, <3>4, <4>2, <4>3, <4>4
              DEF UploadOK, Writes, Total, clientVars
    <3>10. ~Reads(c)' /\ Writes(c)'
      BY <1>1, <2>2 DEF Reads, Writes
    <3>11. TransferOK(c)'
      BY <1>1, <1>3, <2>3, <3>1, <3>2, <3>9, <3>10 DEF TransferOK, DownloadOK, Running, Waiting
    <3>12. \A d \in Clients \ {c} : SameTransfer(d)
      BY <1>1, <1>3, <1>4, <3>1, <3>5 DEF SameTransfer, clientVars
    <3>13. \A d \in Clients : TransferOK(d)'
      BY <1>1, <3>1, <3>11, <3>12, OneTransfer
    <3> QED BY <1>5, <3>7, <3>8, <3>13
  <2> QED BY <2>4, <2>5
<1> QED BY <1>14, <1>15, <1>16, <1>17 DEF Handles
(* A slot is taken and given back.                                          *)
LEMMA SlotGivenBack ==
    ASSUME TftpInv, NEW c \in Holders, NEW stage \in {"refused", "over"}, GivesBack(c), load' = load,
           at' = [at EXCEPT ![c] = stage]
    PROVE  SlotsOK'
<1>1. c \in Clients /\ load \in Loads /\ at[c] \in Dispatching \union Running
  BY DEF TftpInv, TftpTypes, Holders
<1>2. at'[c] = stage /\ \A d \in Clients \ {c} : at'[d] = at[d]
  BY <1>1, OthersStay DEF TftpInv, Stages
<1>3. stage \notin Dispatching \union Running
  BY DEF Dispatching, Running, Waiting
<1>4. Holders' = Holders \ {c}
  BY <1>1, <1>2, <1>3 DEF Holders
<1>5. /\ IsFiniteSet(Holders) /\ Cardinality(Holders) <= MaxConnections
      /\ hostTransfers \in [Hosts -> Nat] /\ pending \in {0, 1}
      /\ \A h \in Hosts : hostTransfers[h] = Cardinality(OfHost(h)) /\ hostTransfers[h] <= MaxConnectionsPerHost
  BY DEF TftpInv, SlotsOK
<1>6. IsFiniteSet(Holders \ {c}) /\ Cardinality(Holders \ {c}) = Cardinality(Holders) - 1
  BY <1>5, FS_RemoveElement
<1>7. IsFiniteSet(Holders') /\ Cardinality(Holders') <= MaxConnections
  <2>1. Cardinality(Holders) \in Nat
    BY <1>5, FS_CardinalityType
  <2> QED BY <1>4, <1>5, <1>6, <2>1, LimitsAssumption
<1>8. PICK own \in Hosts : own = load.host[c]
  BY <1>1, LoadFacts
<1>9. hostTransfers' = [hostTransfers EXCEPT ![own] = hostTransfers[own] - 1]
  BY <1>8 DEF GivesBack
<1>10. ASSUME NEW h \in Hosts
       PROVE  /\ hostTransfers'[h] \in Nat /\ hostTransfers'[h] = Cardinality(OfHost(h)')
              /\ hostTransfers'[h] <= MaxConnectionsPerHost
  <2>1. IsFiniteSet(OfHost(h))
    BY <1>5, FS_Subset DEF OfHost
  <2>2. CASE h # own
    <3>1. OfHost(h)' = OfHost(h)
      BY <1>4, <1>8, <2>2 DEF OfHost
    <3> QED BY <1>5, <1>9, <2>2, <3>1
  <2>3. CASE h = own
    <3>1. OfHost(h)' = OfHost(h) \ {c} /\ c \in OfHost(h)
      BY <1>4, <1>8, <2>3 DEF OfHost
    <3>2. Cardinality(OfHost(h) \ {c}) = Cardinality(OfHost(h)) - 1 /\ Cardinality(OfHost(h) \ {c}) \in Nat
      BY <2>1, <3>1, FS_RemoveElement, FS_CardinalityType
    <3>3. hostTransfers[h] = Cardinality(OfHost(h)) /\ hostTransfers[h] <= MaxConnectionsPerHost
          /\ hostTransfers[h] \in Nat
      BY <1>5
    <3>4. hostTransfers'[h] = hostTransfers[h] - 1
      BY <1>5, <1>9, <2>3
    <3> QED BY <3>1, <3>2, <3>3, <3>4, LimitsAssumption
  <2> QED BY <2>2, <2>3
<1>11. hostTransfers' \in [Hosts -> Nat]
  BY <1>5, <1>9, <1>10
<1>12. transfers' = {d \in Clients : at'[d] \in Running}
  BY <1>1, <1>2, <1>3 DEF GivesBack, TftpInv, SlotsOK
<1>13. \A d, e \in Clients : at'[d] \in Dispatching /\ at'[e] \in Dispatching => d = e
  BY <1>2, <1>3 DEF TftpInv, SlotsOK
<1>14. pending' = 0
  BY <1>5 DEF GivesBack
<1> QED BY <1>7, <1>10, <1>11, <1>12, <1>13, <1>14 DEF SlotsOK

LEMMA SlotTaken ==
    ASSUME TftpInv, NEW c \in Clients, Admits(c) PROVE SlotsOK'
<1>1. /\ at[c] = "asking" /\ Idle /\ HasRoom(c) /\ load' = load /\ transfers' = transfers
      /\ at' = [at EXCEPT ![c] = "admitted"] /\ pending' = pending + 1
  BY DEF Admits, To
<1>2. at'[c] = "admitted" /\ \A d \in Clients \ {c} : at'[d] = at[d]
  BY <1>1, OthersStay DEF TftpInv, Stages, Dispatching
<1>3. Holders = transfers /\ c \notin Holders /\ pending = 0
  BY <1>1 DEF TftpInv, SlotsOK, Holders, Idle, Dispatching, Running, Waiting
<1>4. Holders' = Holders \union {c}
  BY <1>1, <1>2 DEF Holders, Dispatching
<1>5. /\ IsFiniteSet(Holders) /\ hostTransfers \in [Hosts -> Nat]
      /\ \A h \in Hosts : hostTransfers[h] = Cardinality(OfHost(h)) /\ hostTransfers[h] <= MaxConnectionsPerHost
  BY DEF TftpInv, SlotsOK
<1>6. PICK own \in Hosts : own = load.host[c]
  BY LoadFacts DEF TftpInv, TftpTypes
<1>7. Cardinality(Holders) < MaxConnections /\ hostTransfers[own] < MaxConnectionsPerHost
  <2>1. Cardinality(Holders) \in Nat
    BY <1>5, FS_CardinalityType
  <2> QED BY <1>1, <1>3, <1>6, <2>1 DEF HasRoom
<1>8. IsFiniteSet(Holders') /\ Cardinality(Holders') <= MaxConnections
  <2>1. IsFiniteSet(Holders \union {c}) /\ Cardinality(Holders \union {c}) = Cardinality(Holders) + 1
    BY <1>3, <1>5, FS_AddElement
  <2>2. Cardinality(Holders) \in Nat
    BY <1>5, FS_CardinalityType
  <2> QED BY <1>4, <1>7, <2>1, <2>2, LimitsAssumption
<1>9. hostTransfers' = [hostTransfers EXCEPT ![own] = hostTransfers[own] + 1]
  BY <1>6 DEF Admits
<1>10. ASSUME NEW h \in Hosts
       PROVE  /\ hostTransfers'[h] \in Nat /\ hostTransfers'[h] = Cardinality(OfHost(h)')
              /\ hostTransfers'[h] <= MaxConnectionsPerHost
  <2>1. IsFiniteSet(OfHost(h))
    BY <1>5, FS_Subset DEF OfHost
  <2>2. CASE h # own
    <3>1. OfHost(h)' = OfHost(h)
      BY <1>1, <1>4, <1>6, <2>2 DEF OfHost
    <3> QED BY <1>5, <1>9, <2>2, <3>1
  <2>3. CASE h = own
    <3>1. OfHost(h)' = OfHost(h) \union {c} /\ c \notin OfHost(h)
      BY <1>1, <1>3, <1>4, <1>6, <2>3 DEF OfHost
    <3>2. Cardinality(OfHost(h) \union {c}) = Cardinality(OfHost(h)) + 1
      BY <2>1, <3>1, FS_AddElement
    <3>3. hostTransfers[h] = Cardinality(OfHost(h)) /\ hostTransfers[h] \in Nat
      BY <1>5
    <3>4. hostTransfers'[h] = hostTransfers[h] + 1
      BY <1>5, <1>9, <2>3
    <3> QED BY <1>7, <2>3, <3>1, <3>2, <3>3, <3>4, LimitsAssumption
  <2> QED BY <2>2, <2>3
<1>11. hostTransfers' \in [Hosts -> Nat]
  BY <1>5, <1>9, <1>10
<1>12. transfers' = {d \in Clients : at'[d] \in Running}
  BY <1>1, <1>2 DEF TftpInv, SlotsOK, Running, Waiting
<1>13. (\A d, e \in Clients : at'[d] \in Dispatching /\ at'[e] \in Dispatching => d = e) /\ ~Idle'
  BY <1>1, <1>2 DEF Idle, Dispatching
<1>14. pending' = 1
  BY <1>1, <1>3
<1> QED BY <1>8, <1>10, <1>11, <1>12, <1>13, <1>14 DEF SlotsOK

(* The dispatcher.                                                          *)
LEMMA DispatchesStep ==
    ASSUME TftpInv, NEW c \in Clients, Dispatches(c) PROVE TftpInv'
<1> USE DEF TftpInv
<1>1. /\ at[c] \in {"asking", "admitted", "looked"} /\ load' = load /\ inHand' = inHand
      /\ UNCHANGED <<windowBase, stored, file, completed>> /\ UNCHANGED clientVars
  BY DEF Dispatches, Admits, TurnsAway, Looks, Refuses, Begins, dataVars, Dispatching
<1>2. load \in Loads /\ at \in [Clients -> Stages] /\ sent \in [Clients -> Nat]
  BY DEF TftpTypes
<1>3. FileOK'
  BY <1>1, FileKept
<1>4. DownloadOK(c) /\ UploadOK(c) /\ (Writes(c) => c \notin completed)
  BY <1>1 DEF TransferOK, UploadOK
<1>5. ASSUME NEW stage \in {"admitted", "looked", "refused", "oack", "await", "cleanup"},
             at' = [at EXCEPT ![c] = stage],
             stage = "refused" \/ Reads(c) \/ Writes(c),
             \/ sent' = sent
             \/ Reads(c) /\ stage = "await" /\ sent' = [sent EXCEPT ![c] = InWindow(c, 0)],
             c \in temporary' => Writes(c) /\ stage \in {"looked", "await", "cleanup"},
             temporary' \subseteq temporary \union {c}, temporary \ {c} \subseteq temporary'
      PROVE  TftpTypes' /\ \A d \in Clients : TransferOK(d)'
  <2>1. at' \in [Clients -> Stages] /\ at'[c] = stage /\ \A d \in Clients \ {c} : at'[d] = at[d]
    BY <1>5, OthersStay DEF Stages, Dispatching, Running, Waiting
  <2>2. \A b \in Nat : b = 0 => 0 < Total(c) /\ Total(c) \in Nat
    BY <1>2, LoadFacts
  <2>3. PICK first \in Nat : /\ first = InWindow(c, 0) /\ first <= load.window[c] /\ 0 + first <= Total(c)
    BY <1>2, <2>2, WindowFits
  <2>4. /\ sent' \in [Clients -> Nat] /\ \A d \in Clients \ {c} : sent'[d] = sent[d]
        /\ sent'[c] = sent[c] \/ (Reads(c) /\ stage = "await" /\ sent'[c] = first)
    BY <1>2, <1>5, <2>3
  <2>5. TftpTypes'
    BY <1>1, <1>5, <2>1, <2>4 DEF TftpTypes, clientVars
  <2>6. DownloadOK(c)'
    <3> SUFFICES ASSUME Reads(c) PROVE DownloadOK(c)'
      BY <1>1 DEF DownloadOK, Reads
    <3>1. sent[c] = 0 /\ got[c] \in Seq(Nat) /\ windowBase[c] \in Nat
      BY <1>1, <1>4 DEF DownloadOK, NotBegun, Dispatching, TftpTypes
    <3>2. Len(got[c]) = 0 /\ windowBase[c] = 0
      BY <1>4, <3>1 DEF DownloadOK
    <3>3. sent'[c] = 0 \/ (stage = "await" /\ sent'[c] = windowBase[c] + InWindow(c, windowBase[c])
                           /\ sent'[c] = first)
      BY <2>3, <2>4, <3>1, <3>2
    <3>4. sent'[c] \in Nat /\ sent'[c] <= Total(c) /\ sent'[c] <= windowBase[c] + load.window[c]
      BY <1>2, <2>3, <3>2, <3>3, LoadFacts
    <3> QED BY <1>1, <1>4, <1>5, <2>1, <3>2, <3>3, <3>4 DEF DownloadOK, Reads, Total, InWindow, clientVars, NotBegun,
            Dispatching
  <2>7. UploadOK(c)'
    <3>1. Acknowledged(c)' = Acknowledged(c)
      BY <1>1 DEF Acknowledged, Total
    <3> QED BY <1>1, <1>4, <1>5, <2>1, <3>1 DEF UploadOK, Writes, Total, clientVars
  <2>8. TransferOK(c)'
    BY <1>1, <1>4, <1>5, <2>1, <2>6, <2>7 DEF TransferOK, Running, Waiting, Reads, Writes
  <2>9. \A d \in Clients \ {c} : SameTransfer(d)
    BY <1>1, <1>5, <2>1, <2>4 DEF SameTransfer, clientVars
  <2>10. \A d \in Clients : TransferOK(d)'
    BY <1>1, <2>8, <2>9, OneTransfer
  <2> QED BY <2>5, <2>10
<1>6. c \notin temporary \/ at[c] = "looked"
  BY <1>1 DEF TransferOK, Running, Waiting
<1>7. c \in temporary => Writes(c)
  BY DEF TransferOK
<1>8. at[c] # "asking" => Reads(c) \/ Writes(c)
  BY <1>1 DEF TransferOK
<1>9. CASE Admits(c)
  <2>1. at' = [at EXCEPT ![c] = "admitted"] /\ sent' = sent /\ temporary' = temporary /\ at[c] = "asking"
        /\ load.asks[c] # "nothing"
    BY <1>9 DEF Admits, To, dataVars
  <2>2. Reads(c) \/ Writes(c)
    BY <1>2, <2>1, LoadsAssumption DEF Reads, Writes
  <2> QED BY <1>3, <1>5, <1>6, <1>9, <2>1, <2>2, SlotTaken
<1>10. CASE TurnsAway(c)
  <2>1. at' = [at EXCEPT ![c] = "refused"] /\ sent' = sent /\ temporary' = temporary /\ at[c] = "asking"
        /\ UNCHANGED slotVars
    BY <1>10 DEF TurnsAway, To, dataVars
  <2>2. SlotsOK'
    <3>1. at'[c] = "refused" /\ \A d \in Clients \ {c} : at'[d] = at[d]
      BY <1>2, <2>1
    <3> QED BY <1>1, <2>1, <3>1, SlotsKept DEF Running, Waiting, Dispatching
  <2> QED BY <1>3, <1>5, <1>6, <2>1, <2>2
<1>11. CASE Looks(c)
  <2>1. at' = [at EXCEPT ![c] = "looked"] /\ sent' = sent /\ at[c] = "admitted" /\ UNCHANGED slotVars
        /\ temporary' = IF Writes(c) THEN temporary \union {c} ELSE temporary
    BY <1>11 DEF Looks, To, dataVars
  <2>2. SlotsOK'
    <3>1. at'[c] = "looked" /\ \A d \in Clients \ {c} : at'[d] = at[d]
      BY <1>2, <2>1
    <3> QED BY <1>1, <2>1, <3>1, SlotsKept DEF Running, Waiting, Dispatching
  <2> QED BY <1>3, <1>5, <1>6, <1>8, <2>1, <2>2
<1>12. CASE Refuses(c)
  <2>1. at' = [at EXCEPT ![c] = "refused"] /\ sent' = sent /\ temporary' = temporary \ {c}
        /\ GivesBack(c) /\ at[c] \in Dispatching
    BY <1>12 DEF Refuses, To
  <2>2. SlotsOK'
    <3>1. c \in Holders
      BY <2>1 DEF Holders
    <3> QED BY <1>1, <2>1, <3>1, SlotGivenBack
  <2> QED BY <1>3, <1>5, <2>1, <2>2
<1>13. CASE Begins(c)
  <2>1. /\ at[c] = "looked" /\ transfers' = transfers \union {c} /\ hostTransfers' = hostTransfers
        /\ pending' = (IF pending > 0 THEN pending - 1 ELSE 0) /\ temporary' = temporary
    BY <1>13 DEF Begins, dataVars
  <2>2. PICK stage \in {"oack", "await", "cleanup"} :
           /\ at' = [at EXCEPT ![c] = stage]
           /\ \/ sent' = sent
              \/ Reads(c) /\ stage = "await" /\ sent' = [sent EXCEPT ![c] = InWindow(c, 0)]
           /\ stage = "oack" => Reads(c)
    BY <1>13 DEF Begins, To
  <2>3. at'[c] = stage /\ \A d \in Clients \ {c} : at'[d] = at[d]
    BY <1>2, <2>2
  <2>4. c \in temporary' => stage \in {"await", "cleanup"}
    BY <1>2, <1>7, <2>1, <2>2, LoadFacts
  <2>5. SlotsOK'
    <3>1. transfers' = {d \in Clients : at'[d] \in Running}
      BY <2>1, <2>3 DEF SlotsOK, Running, Waiting
    <3>2. \A d \in Clients : at'[d] \notin Dispatching
      BY <2>1, <2>3 DEF SlotsOK, Dispatching
    <3>3. Holders' = Holders
      BY <2>1, <2>3 DEF Holders, Dispatching, Running, Waiting
    <3>4. \A h \in Hosts : OfHost(h)' = OfHost(h)
      BY <1>1, <3>3 DEF OfHost
    <3>5. pending' = 0
      BY <2>1 DEF SlotsOK
    <3> QED BY <2>1, <3>1, <3>2, <3>3, <3>4, <3>5 DEF SlotsOK
  <2> QED BY <1>3, <1>5, <1>7, <1>8, <2>1, <2>2, <2>4, <2>5
<1> QED BY <1>9, <1>10, <1>11, <1>12, <1>13 DEF Dispatches
(* The end of a transfer.                                                   *)
LEMMA EndsStep ==
    ASSUME TftpInv, NEW c \in Clients, Ends(c) PROVE TftpInv'
<1> USE DEF TftpInv
<1>1. /\ at[c] \in {"placing", "dallying", "cleanup", "releasing"} /\ load' = load /\ inHand' = inHand
      /\ UNCHANGED <<windowBase, sent, stored>> /\ UNCHANGED clientVars
      /\ completed \subseteq completed' /\ completed' \subseteq completed \union {c}
      /\ temporary' \subseteq temporary /\ temporary \ {c} \subseteq temporary'
  BY DEF Ends, Places, Finishes, CleansUp, Releases, dataVars
<1>2. load \in Loads /\ at \in [Clients -> Stages]
  BY DEF TftpTypes
<1>3. DownloadOK(c) /\ UploadOK(c) /\ (Reads(c) \/ Writes(c)) /\ ~(Reads(c) /\ Writes(c))
  BY <1>1, <1>2, LoadFacts DEF TransferOK
<1>4. ASSUME NEW stage \in {"dallying", "cleanup", "releasing", "over"},
             at' = [at EXCEPT ![c] = stage],
             Reads(c) => stage # "dallying" /\ completed' = completed,
             c \in completed' /\ Writes(c) => file' # None /\ Len(stored[c]) = Total(c),
             file # None => file' # None,
             c \in temporary' => c \notin completed' /\ stage \in {"dallying", "cleanup"}
      PROVE  TftpTypes' /\ \A d \in Clients : TransferOK(d)'
  <2>1. at' \in [Clients -> Stages] /\ at'[c] = stage /\ \A d \in Clients \ {c} : at'[d] = at[d]
    BY <1>4, OthersStay DEF Stages, Dispatching, Running, Waiting
  <2>2. TftpTypes'
    BY <1>1, <1>4, <2>1 DEF TftpTypes, clientVars
  <2>3. DownloadOK(c)'
    BY <1>1, <1>3, <1>4, <2>1 DEF DownloadOK, Reads, Total, InWindow, clientVars, NotBegun, Dispatching
  <2>4. UploadOK(c)'
    <3> SUFFICES ASSUME Writes(c) PROVE UploadOK(c)'
      BY <1>1 DEF UploadOK, Writes
    <3>1. acked[c] <= Acknowledged(c)'
      <4>1. acked[c] <= Acknowledged(c)
        BY <1>3 DEF UploadOK
      <4>2. stored[c] \in Seq(Nat) /\ acked[c] \in Nat
        BY DEF TftpTypes
      <4>3. /\ Acknowledged(c) = IF c \in completed THEN Total(c) ELSE Least(Len(stored[c]), load.full[c])
            /\ Acknowledged(c)' = IF c \in completed' THEN Total(c) ELSE Least(Len(stored[c]), load.full[c])
        BY <1>1 DEF Acknowledged, Total
      <4>4. CASE c \in completed' /\ c \notin completed
        BY <1>2, <4>1, <4>2, <4>3, <4>4, LoadFacts DEF Least, Total
      <4>5. CASE c \in completed' <=> c \in completed
        BY <4>1, <4>3, <4>5
      <4> QED BY <1>1, <4>4, <4>5
    <3> QED BY <1>1, <1>3, <1>4, <2>1, <3>1 DEF UploadOK, Writes, Total, clientVars
  <2>5. TransferOK(c)'
    BY <1>1, <1>3, <1>4, <2>1, <2>3, <2>4 DEF TransferOK, Running, Waiting, Reads, Writes
  <2>6. \A d \in Clients \ {c} : SameTransfer(d)
    BY <1>1, <1>4, <2>1 DEF SameTransfer, clientVars
  <2>7. \A d \in Clients : TransferOK(d)'
    BY <1>1, <1>4, <2>5, <2>6, OneTransfer
  <2> QED BY <2>2, <2>7
<1>5. ASSUME NEW stage \in Running, at[c] \in Running, at' = [at EXCEPT ![c] = stage], UNCHANGED slotVars
      PROVE  SlotsOK'
  <2>1. at'[c] = stage /\ \A d \in Clients \ {c} : at'[d] = at[d]
    BY <1>2, <1>5
  <2> QED BY <1>1, <1>5, <2>1, SlotsKept DEF Running, Waiting, Dispatching
<1>6. c \in completed => (Writes(c) => file # None /\ Len(stored[c]) = Total(c))
  BY <1>3 DEF UploadOK
<1>7. CASE Places(c)
  <2>1. /\ at[c] = "placing" /\ file' = [by |-> c, blocks |-> stored[c]] /\ temporary' = temporary \ {c}
        /\ completed' = completed \union {c} /\ at' = [at EXCEPT ![c] = "dallying"] /\ UNCHANGED slotVars
    BY <1>7 DEF Places, To
  <2>2. Writes(c) /\ ~Reads(c) /\ Counted(stored[c]) /\ Len(stored[c]) = Total(c)
    BY <1>3, <2>1 DEF DownloadOK, UploadOK
  <2>3. stored[c] = Blocks(c)
    <3>1. stored[c] \in Seq(Nat)
      BY DEF TftpTypes
    <3>2. stored[c] = [n \in 1 .. Len(stored[c]) |-> stored[c][n]]
      BY <3>1
    <3> QED BY <2>2, <3>2 DEF Blocks, Counted
  <2>4. file' # None /\ FileOK'
    <3>1. file' # None
      BY <1>2, <2>1, <2>3, LoadFacts
    <3>2. file'.by = c /\ file'.blocks = Blocks(c)
      BY <2>1, <2>3
    <3>3. Blocks(c)' = Blocks(c) /\ Writes(c)'
      BY <1>1, <2>2 DEF Blocks, Total, Writes
    <3> QED BY <2>1, <3>1, <3>2, <3>3 DEF FileOK, Blocks, Total, Writes
  <2>5. SlotsOK'
    BY <1>5, <2>1 DEF Running
  <2> QED BY <1>4, <2>1, <2>2, <2>4, <2>5
<1>8. CASE Finishes(c)
  <2>1. at' = [at EXCEPT ![c] = "cleanup"] /\ UNCHANGED dataVars /\ UNCHANGED slotVars
        /\ at[c] \in {"placing", "dallying"}
    BY <1>8 DEF Finishes, To
  <2>2. FileOK'
    BY <1>1, <2>1, FileKept DEF dataVars
  <2>3. SlotsOK'
    BY <1>5, <2>1 DEF Running
  <2>4. Writes(c)
    BY <1>3, <2>1 DEF DownloadOK
  <2>5. c \in temporary => c \notin completed
    BY DEF TransferOK
  <2> QED BY <1>4, <1>6, <2>1, <2>2, <2>3, <2>4, <2>5, <1>3 DEF dataVars
<1>9. CASE CleansUp(c)
  <2>1. /\ at[c] = "cleanup" /\ temporary' = IF c \in completed THEN temporary ELSE temporary \ {c}
        /\ at' = [at EXCEPT ![c] = "releasing"] /\ UNCHANGED slotVars /\ completed' = completed /\ file' = file
    BY <1>9 DEF CleansUp, To
  <2>2. FileOK'
    BY <1>1, <2>1, FileKept
  <2>3. SlotsOK'
    BY <1>5, <2>1 DEF Running
  <2>4. c \notin temporary'
    BY <2>1 DEF TransferOK
  <2>5. CASE Writes(c)
    BY <1>3, <1>4, <1>6, <2>1, <2>2, <2>3, <2>4, <2>5
  <2>6. CASE Reads(c)
    BY <1>3, <1>4, <1>6, <2>1, <2>2, <2>3, <2>4, <2>6
  <2> QED BY <1>3, <2>5, <2>6
<1>10. CASE Releases(c)
  <2>1. /\ at[c] = "releasing" /\ GivesBack(c) /\ at' = [at EXCEPT ![c] = "over"]
        /\ UNCHANGED dataVars
    BY <1>10 DEF Releases, To
  <2>2. FileOK'
    BY <1>1, <2>1, FileKept DEF dataVars
  <2>3. SlotsOK'
    <3>1. c \in Holders
      BY <2>1 DEF Holders, Running
    <3> QED BY <1>1, <2>1, <3>1, SlotGivenBack
  <2>4. c \notin temporary
    BY <2>1 DEF TransferOK, Running, Waiting
  <2> QED BY <1>3, <1>4, <1>6, <2>1, <2>2, <2>3, <2>4 DEF dataVars
<1> QED BY <1>7, <1>8, <1>9, <1>10 DEF Ends

LEMMA TftpStep == TftpInv /\ [Next]_vars => TftpInv'
<1> SUFFICES ASSUME TftpInv, [Next]_vars PROVE TftpInv'
  OBVIOUS
<1>1. ASSUME NEW c \in Clients,
             \/ Dispatches(c) \/ Client(c) \/ \E packet \in Sendable(c) : Receives(c, packet)
             \/ TimesOut(c) \/ GetsLate(c) \/ Wakes(c) \/ Handles(c) \/ Ends(c)
      PROVE  TftpInv'
  BY <1>1, DispatchesStep, ClientStep, ReceivesStep, WaitsStep, HandlesStep, EndsStep
<1>2. CASE ShutdownBegins \/ Shuts \/ UNCHANGED vars
  BY <1>2, ShutsStep
<1> QED BY <1>1, <1>2 DEF Next

(* What the invariant says of what clients were told, and of what is left.  *)
LEMMA TftpIsTrue == TftpInv => DownloadIsWhole /\ UploadIsThere /\ NothingIsKept
<1> SUFFICES ASSUME TftpInv PROVE DownloadIsWhole /\ UploadIsThere /\ NothingIsKept
  OBVIOUS
<1> USE DEF TftpInv
<1>1. ASSUME NEW c \in Clients, NEW s \in Seq(Nat), Counted(s), Len(s) <= Total(c), Len(s) \in Nat
      PROVE  s = SubSeq(Blocks(c), 1, Len(s)) /\ (Len(s) = Total(c) => s = Blocks(c))
  <2>1. Total(c) \in Nat
    BY LoadFacts DEF TftpTypes
  <2>2. s = [n \in 1 .. Len(s) |-> s[n]]
    OBVIOUS
  <2>3. s = [n \in 1 .. Len(s) |-> n]
    BY <1>1, <2>2 DEF Counted
  <2>4. Blocks(c) \in Seq(Nat) /\ Len(Blocks(c)) = Total(c) /\ \A n \in 1 .. Total(c) : Blocks(c)[n] = n
    BY <2>1 DEF Blocks
  <2>5. SubSeq(Blocks(c), 1, Len(s)) = [n \in 1 .. Len(s) |-> Blocks(c)[n]]
    BY <1>1, <2>4
  <2>6. \A n \in 1 .. Len(s) : Blocks(c)[n] = n
    BY <1>1, <2>1, <2>4
  <2> QED BY <2>3, <2>5, <2>6 DEF Blocks
<1>2. DownloadIsWhole
  <2> SUFFICES ASSUME NEW c \in Clients, Reads(c)
               PROVE  /\ Len(got[c]) <= Total(c) /\ got[c] = SubSeq(Blocks(c), 1, Len(got[c]))
                      /\ c \in completed => got[c] = Blocks(c)
    BY DEF DownloadIsWhole
  <2>1. /\ got[c] \in Seq(Nat) /\ Len(got[c]) \in Nat /\ sent[c] \in Nat /\ Total(c) \in Nat
    BY LoadFacts DEF TftpTypes
  <2>2. /\ Counted(got[c]) /\ Len(got[c]) <= sent[c] /\ sent[c] <= Total(c)
        /\ c \in completed => Len(got[c]) = Total(c)
    BY DEF TransferOK, DownloadOK
  <2> QED BY <1>1, <2>1, <2>2
<1>3. UploadIsThere
  <2>1. ASSUME NEW c \in Clients, Writes(c), acked[c] = Total(c)
        PROVE  file # None /\ stored[c] = Blocks(c)
    <3>1. /\ stored[c] \in Seq(Nat) /\ Len(stored[c]) \in Nat /\ acked[c] \in Nat /\ Total(c) \in Nat
      BY LoadFacts DEF TftpTypes
    <3>2. UploadOK(c)
      BY DEF TransferOK
    <3>3. c \in completed
      BY <2>1, <3>1, <3>2, LoadFacts DEF UploadOK, Acknowledged, Least, Total, TftpTypes
    <3>4. Counted(stored[c]) /\ Len(stored[c]) = Total(c) /\ file # None
      BY <2>1, <3>2, <3>3 DEF UploadOK
    <3> QED BY <1>1, <3>1, <3>4
  <2> QED BY <2>1 DEF UploadIsThere, FileOK
<1>4. NothingIsKept
  <2>1. ASSUME NEW h \in Hosts
        PROVE  /\ hostTransfers[h] = Cardinality({c \in Holders : load.host[c] = h})
               /\ hostTransfers[h] <= MaxConnectionsPerHost
    BY DEF SlotsOK, OfHost
  <2>2. ASSUME Holders = {} PROVE pending = 0 /\ transfers = {}
    BY <2>2 DEF SlotsOK, Holders, Idle
  <2>3. \A c \in temporary : at[c] \in {"looked"} \union Running
    BY DEF TftpTypes, TransferOK
  <2>4. Cardinality(Holders) <= MaxConnections
    BY DEF SlotsOK
  <2> QED BY <2>1, <2>2, <2>3, <2>4 DEF NothingIsKept
<1> QED BY <1>2, <1>3, <1>4
-----------------------------------------------------------------------------
(* FTP.  A connection, its commands cmds, its answers, its channels and what*)
(* the client has sent.                                                     *)
Commands == {"LOGIN", "PASV", "RETR", "NOOP", "ABOR", "AUTH", "QUIT"}
FtpSessions ==
    [at : {"none", "accepted", "open", "gone"}, ctrl : {"up", "left", "closed"}, read : Nat,
     reader : {"reads", "offers", "ended"}, line : Nat, queue : Seq(Nat),
     loop : {"select", "opens", "moves", "moved", "ended"}, run : Nat, login : BOOLEAN, mode : Nat,
     transfer : [active : BOOLEAN, aborted : Nat, data : Nat, ok : BOOLEAN]]
Channels ==
    [listener : {"open", "closed"}, acceptor : {"accepts", "puts", "done"}, holds : Nat, late : BOOLEAN]

FtpTypes ==
    /\ script \in Scripts /\ session \in [Clients -> FtpSessions]
    /\ setup \in [Clients -> Seq(Channels)]
    /\ asked \in [Clients -> Nat] /\ answered \in [Clients -> Seq(Nat)]

(* A data channel that is no more the last one, or the connection of which  *)
(* is gone, was drained; the last one is that of the transfer.              *)
Drains(channel) ==
    channel.listener = "closed" /\ (channel.acceptor = "puts" \/ channel.holds # 0 => channel.late)

ChannelsOK(s, ch) ==
    /\ s.mode \in {0, Len(ch)}
    /\ \A n \in 1 .. Len(ch) :
          ch[n].holds \in {0, n} /\ (n < Len(ch) \/ s.at = "gone" => Drains(ch[n]))
    /\ s.loop = "opens" => s.mode # 0
    /\ s.loop = "moves" => s.transfer.data = Len(ch)
    /\ s.at \in {"none", "accepted"} => ch = <<>> /\ s.loop = "select"
    /\ s.loop \in {"opens", "moves", "moved"} => s.at = "open"

(* The loop's command, if it has one, and the abort of its transfer.        *)
LoopOK(s) ==
    /\ s.loop \in {"select", "ended"} <=> s.run = 0
    /\ s.loop \in {"moves", "moved"} <=> s.transfer.active
    /\ ~s.transfer.active => s.transfer.aborted = 0

(* The commands that are owed an answer, which will be last when it comes.  *)
Early(cmds, n) == cmds[n] \in {"ABOR", "AUTH"}
Fits(cmds, a, p) == \A i \in 1 .. Len(a) : a[i] < p \/ (a[i] # p /\ Early(cmds, a[i]))
InOrder(cmds, a) ==
    \A i, j \in 1 .. Len(a) : i < j => a[i] < a[j] \/ (a[j] # a[i] /\ Early(cmds, a[i]))

QueueOK(cmds, s, a) ==
    /\ \A i \in 1 .. Len(s.queue) :
          s.queue[i] # 0 => /\ s.queue[i] <= s.read /\ s.run < s.queue[i]
                            /\ Fits(cmds, a, s.queue[i]) /\ s.queue[i] # s.transfer.aborted
    /\ \A i, j \in 1 .. Len(s.queue) : i < j => s.queue[j] = 0 \/ s.queue[i] < s.queue[j]
    /\ s.reader = "offers" /\ s.line # 0 =>
          /\ s.line = s.read /\ s.run < s.line /\ Fits(cmds, a, s.line) /\ s.line # s.transfer.aborted
          /\ \A i \in 1 .. Len(s.queue) : s.queue[i] < s.line

AnswersOK(cmds, s, a, k) ==
    /\ s.read <= k /\ k <= Len(cmds)
    /\ \A i \in 1 .. Len(a) : a[i] \in 1 .. s.read
    /\ InOrder(cmds, a) /\ (s.at \in {"none", "accepted"} => a = <<>>)
    /\ s.run # 0 => s.run <= s.read /\ Fits(cmds, a, s.run)
    /\ s.transfer.aborted \in 1 .. Len(cmds) =>
          /\ s.transfer.aborted <= s.read /\ s.run < s.transfer.aborted
          /\ Fits(cmds, a, s.transfer.aborted) /\ cmds[s.transfer.aborted] = "ABOR"
    /\ s.transfer.aborted > Len(cmds) => s.ctrl = "closed"

(* Every command that was read is answered or owed, or it is a late ABOR.   *)
Accounted(cmds, s, a, n) ==
    \/ \E i \in 1 .. Len(a) : a[i] = n
    \/ n = s.run \/ n = s.transfer.aborted
    \/ \E i \in 1 .. Len(s.queue) : s.queue[i] = n
    \/ s.reader = "offers" /\ s.line = n
    \/ cmds[n] = "ABOR" /\ \E m \in 1 .. n - 1 : cmds[m] = "ABOR"

Owed(cmds, s, a, k) ==
    /\ QueueOK(cmds, s, a) /\ AnswersOK(cmds, s, a, k)
    /\ \A n \in 1 .. s.read : Accounted(cmds, s, a, n)

SessionOK(cmds, s, a, ch, k) == ChannelsOK(s, ch) /\ LoopOK(s) /\ Owed(cmds, s, a, k)

FtpInv == FtpTypes /\ \A c \in Clients : SessionOK(script[c], session[c], answered[c], setup[c], asked[c])

-----------------------------------------------------------------------------
(* What the parts of a connection are.                                      *)
LEMMA Fields == \A s \in FtpSessions :
    /\ s.read \in Nat /\ s.line \in Nat /\ s.run \in Nat /\ s.mode \in Nat /\ s.queue \in Seq(Nat)
    /\ s.login \in BOOLEAN /\ s.transfer.active \in BOOLEAN /\ s.transfer.aborted \in Nat
    /\ s.transfer.data \in Nat /\ s.transfer.ok \in BOOLEAN
    /\ s.at \in {"none", "accepted", "open", "gone"} /\ s.ctrl \in {"up", "left", "closed"}
    /\ s.reader \in {"reads", "offers", "ended"} /\ s.loop \in {"select", "opens", "moves", "moved", "ended"}
BY DEF FtpSessions

(* A command that comes later fits behind the answers, and so does one      *)
(* that was late: the answers stay in order.                                *)
LEMMA AnswersGrow ==
    ASSUME NEW cmds \in Seq(Commands), NEW a \in Seq(Nat), NEW h \in Nat, Fits(cmds, a, h)
    PROVE  /\ a \o <<h>> \in Seq(Nat)
           /\ Len(a \o <<h>>) = Len(a) + 1 /\ (a \o <<h>>)[Len(a) + 1] = h
           /\ \A i \in 1 .. Len(a) : (a \o <<h>>)[i] = a[i]
           /\ \A i \in 1 .. Len(a) + 1 : i \in 1 .. Len(a) \/ i = Len(a) + 1
           /\ InOrder(cmds, a) => InOrder(cmds, a \o <<h>>)
           /\ \A p \in Nat : Fits(cmds, a, p) /\ (h < p \/ (h # p /\ Early(cmds, h)))
                               => Fits(cmds, a \o <<h>>, p)
<1> DEFINE g == a \o <<h>>
<1>1. g \in Seq(Nat) /\ Len(g) = Len(a) + 1 /\ Len(a) \in Nat /\ g[Len(a) + 1] = h
  OBVIOUS
<1>2. \A i \in 1 .. Len(a) : g[i] = a[i] /\ a[i] \in Nat
  OBVIOUS
<1>3. \A i \in 1 .. Len(a) + 1 : i \in 1 .. Len(a) \/ i = Len(a) + 1
  BY <1>1
<1> HIDE DEF g
<1>4. ASSUME InOrder(cmds, a) PROVE InOrder(cmds, g)
  <2> SUFFICES ASSUME NEW i \in 1 .. Len(a) + 1, NEW j \in 1 .. Len(a) + 1, i < j
               PROVE  g[i] < g[j] \/ (g[j] # g[i] /\ Early(cmds, g[i]))
    BY <1>1 DEF InOrder
  <2>1. i \in 1 .. Len(a)
    BY <1>1
  <2>2. CASE j = Len(a) + 1
    BY <2>1, <2>2, <1>1, <1>2 DEF Fits
  <2>3. CASE j \in 1 .. Len(a)
    BY <2>1, <2>3, <1>2, <1>4 DEF InOrder
  <2> QED BY <1>3, <2>2, <2>3
<1>5. ASSUME NEW p \in Nat, Fits(cmds, a, p), h < p \/ (h # p /\ Early(cmds, h))
      PROVE  Fits(cmds, g, p)
  BY <1>1, <1>2, <1>3, <1>5 DEF Fits
<1> QED BY <1>1, <1>2, <1>3, <1>4, <1>5 DEF g

(* What is owed stays owed when the queue, the answers and the loop's       *)
(* command stay, and so does the command the reader offers.                 *)
Alike(cmds, s, t) ==
    /\ t.read = s.read /\ t.queue = s.queue /\ t.run = s.run
    /\ (t.reader = "offers" /\ t.line # 0) <=> (s.reader = "offers" /\ s.line # 0)
    /\ t.reader = "offers" /\ t.line # 0 => t.line = s.line
    /\ s.ctrl = "closed" => t.ctrl = "closed"
    /\ \/ t.transfer.aborted = s.transfer.aborted
       \/ /\ s.transfer.aborted \notin 1 .. Len(cmds)
          /\ t.transfer.aborted = 0 \/ (t.transfer.aborted > Len(cmds) /\ t.ctrl = "closed")
    /\ t.at \in {"none", "accepted"} => s.at \in {"none", "accepted"}

LEMMA AlikeOwes ==
    ASSUME NEW cmds \in Seq(Commands), NEW s \in FtpSessions, NEW t \in FtpSessions, NEW a \in Seq(Nat),
           NEW k \in Nat, NEW m \in Nat, k <= m, m <= Len(cmds), Owed(cmds, s, a, k), Alike(cmds, s, t)
    PROVE  Owed(cmds, t, a, m)
<1> USE Fields DEF Alike, Owed
<1>1. s.read <= Len(cmds) /\ Len(cmds) \in Nat /\ Len(s.queue) \in Nat
  BY SMTT(20) DEF AnswersOK
<1>2. \A i \in 1 .. Len(s.queue) : s.queue[i] \in Nat /\ (s.queue[i] # 0 => s.queue[i] <= s.read)
  BY SMTT(20) DEF QueueOK
<1>3. QueueOK(cmds, t, a)
  <2>1. \A i \in 1 .. Len(t.queue) :
          t.queue[i] # 0 => /\ t.queue[i] <= t.read /\ t.run < t.queue[i]
                            /\ Fits(cmds, a, t.queue[i]) /\ t.queue[i] # t.transfer.aborted
    BY <1>1, <1>2, SMTT(20) DEF QueueOK
  <2>2. t.reader = "offers" /\ t.line # 0 =>
          /\ t.line = t.read /\ t.run < t.line /\ Fits(cmds, a, t.line) /\ t.line # t.transfer.aborted
          /\ \A i \in 1 .. Len(t.queue) : t.queue[i] < t.line
    BY <1>1 DEF QueueOK
  <2> QED BY <2>1, <2>2 DEF QueueOK
<1>4. AnswersOK(cmds, t, a, m)
  <2>1. /\ t.read <= m /\ m <= Len(cmds) /\ \A i \in 1 .. Len(a) : a[i] \in 1 .. t.read
        /\ InOrder(cmds, a) /\ (t.at \in {"none", "accepted"} => a = <<>>)
        /\ t.run # 0 => t.run <= t.read /\ Fits(cmds, a, t.run)
    BY <1>1 DEF AnswersOK
  <2>2. t.transfer.aborted \in 1 .. Len(cmds) =>
          /\ t.transfer.aborted <= t.read /\ t.run < t.transfer.aborted
          /\ Fits(cmds, a, t.transfer.aborted) /\ cmds[t.transfer.aborted] = "ABOR"
    BY <1>1 DEF AnswersOK
  <2>3. t.transfer.aborted > Len(cmds) => t.ctrl = "closed"
    BY <1>1 DEF AnswersOK
  <2> QED BY <2>1, <2>2, <2>3 DEF AnswersOK
<1>5. ASSUME NEW n \in 1 .. t.read PROVE Accounted(cmds, t, a, n)
  <2>1. n \in Nat /\ n # 0 /\ n \in 1 .. Len(cmds) /\ Accounted(cmds, s, a, n)
    BY <1>1
  <2> QED BY <2>1 DEF Accounted
<1> QED BY <1>3, <1>4, <1>5
(* The loop takes the command at the head of the queue.                     *)
LEMMA TakesHead ==
    ASSUME NEW cmds \in Seq(Commands), NEW s \in FtpSessions, NEW t \in FtpSessions, NEW a \in Seq(Nat),
           NEW k \in Nat, Owed(cmds, s, a, k), s.run = 0, s.transfer.aborted = 0, s.queue # <<>>,
           t = [s EXCEPT !.queue = Tail(s.queue), !.run = Head(s.queue), !.loop = t.loop]
    PROVE  Owed(cmds, t, a, k)
<1>0. /\ s.queue \in Seq(Nat) /\ s.read \in Nat /\ s.line \in Nat /\ s.transfer.aborted \in Nat
      /\ t.queue \in Seq(Nat) /\ t.run \in Nat
  BY Fields
<1> USE DEF Owed
<1>1. /\ t.read = s.read /\ t.queue = Tail(s.queue) /\ t.run = Head(s.queue) /\ t.reader = s.reader
      /\ t.line = s.line /\ t.transfer = s.transfer /\ t.ctrl = s.ctrl /\ t.at = s.at
  BY DEF FtpSessions
<1>2. PICK q \in Seq(Nat), r \in Seq(Nat), h \in Nat : q = s.queue /\ r = t.queue /\ h = t.run
  BY <1>0
<1>3. /\ Len(q) \in Nat /\ Len(q) # 0 /\ Len(r) = Len(q) - 1 /\ h = q[1] /\ h \in Nat
      /\ \A i \in 1 .. Len(r) : r[i] = q[i + 1] /\ i + 1 \in 1 .. Len(q)
      /\ \A i \in 1 .. Len(q) : q[i] \in Nat /\ (i = 1 \/ (i - 1 \in 1 .. Len(r) /\ q[i] = r[i - 1]))
  <2>1. q # <<>> /\ r = Tail(q) /\ h = Head(q)
    BY <1>1, <1>2
  <2>2. Len(q) \in Nat /\ Len(q) # 0 /\ Len(r) = Len(q) - 1 /\ h = q[1] /\ h \in Nat
    BY <2>1
  <2>3. \A i \in 1 .. Len(r) : r[i] = q[i + 1] /\ i + 1 \in 1 .. Len(q)
    BY <2>1, <2>2
  <2>4. ASSUME NEW i \in 1 .. Len(q), i # 1 PROVE i - 1 \in 1 .. Len(r) /\ q[i] = r[i - 1]
    <3>1. i - 1 \in 1 .. Len(r) /\ (i - 1) + 1 = i
      BY <2>2, <2>4, SMTT(20)
    <3> QED BY <3>1, <2>3
  <2> QED BY <2>2, <2>3, <2>4, SMTT(20)
<1>4. /\ \A i \in 1 .. Len(q) : q[i] # 0 => q[i] <= s.read /\ Fits(cmds, a, q[i])
      /\ \A i, j \in 1 .. Len(q) : i < j => q[j] = 0 \/ q[i] < q[j]
      /\ s.reader = "offers" /\ s.line # 0 =>
            /\ s.line = s.read /\ Fits(cmds, a, s.line)
            /\ \A i \in 1 .. Len(q) : q[i] < s.line
  BY <1>2 DEF QueueOK
<1>5. QueueOK(cmds, t, a)
  <2>1. ASSUME NEW i \in 1 .. Len(r), r[i] # 0
        PROVE  /\ r[i] <= s.read /\ h < r[i] /\ Fits(cmds, a, r[i]) /\ r[i] # s.transfer.aborted
    <3>0. i \in Nat /\ i >= 1 /\ 1 < i + 1 /\ 1 \in 1 .. Len(q)
      BY <1>3, SMTT(20)
    <3>1. i + 1 \in 1 .. Len(q) /\ r[i] = q[i + 1] /\ 1 \in 1 .. Len(q) /\ 1 < i + 1 /\ q[i + 1] # 0
      BY <3>0, <2>1, <1>3
    <3>2. q[1] < q[i + 1] /\ q[i + 1] <= s.read /\ Fits(cmds, a, q[i + 1])
      BY <3>1, <1>4
    <3> QED BY <3>1, <3>2, <1>3
  <2>2. ASSUME NEW i \in 1 .. Len(r), NEW j \in 1 .. Len(r), i < j
        PROVE  r[j] = 0 \/ r[i] < r[j]
    <3>1. i + 1 \in 1 .. Len(q) /\ r[i] = q[i + 1] /\ j + 1 \in 1 .. Len(q) /\ r[j] = q[j + 1]
      BY <1>3
    <3>2. i + 1 < j + 1
      BY <2>2
    <3> QED BY <3>1, <3>2, <1>4
  <2>3. s.reader = "offers" /\ s.line # 0 =>
          /\ s.line = s.read /\ h < s.line /\ Fits(cmds, a, s.line) /\ s.line # s.transfer.aborted
          /\ \A i \in 1 .. Len(r) : r[i] < s.line
    <3> SUFFICES ASSUME s.reader = "offers", s.line # 0
                 PROVE  /\ s.line = s.read /\ h < s.line /\ Fits(cmds, a, s.line)
                        /\ s.line # s.transfer.aborted /\ \A i \in 1 .. Len(r) : r[i] < s.line
      OBVIOUS
    <3>1. 1 \in 1 .. Len(q) /\ h = q[1]
      BY <1>3
    <3>2. s.line = s.read /\ Fits(cmds, a, s.line) /\ \A i \in 1 .. Len(q) : q[i] < s.line
      BY <1>4
    <3>3. ASSUME NEW i \in 1 .. Len(r) PROVE r[i] < s.line
      BY <3>2, <1>3
    <3> QED BY <3>1, <3>2, <3>3
  <2> QED BY <2>1, <2>2, <2>3, <1>1, <1>2 DEF QueueOK
<1>6. AnswersOK(cmds, t, a, k)
  <2>1. h # 0 => h <= s.read /\ Fits(cmds, a, h)
    <3>1. 1 \in 1 .. Len(q) /\ h = q[1]
      BY <1>3
    <3> QED BY <3>1, <1>4
  <2>2. 0 \notin 1 .. Len(cmds) /\ ~(0 > Len(cmds))
    OBVIOUS
  <2> QED BY <2>1, <2>2, <1>1, <1>2 DEF AnswersOK
<1>7. ASSUME NEW n \in 1 .. t.read PROVE Accounted(cmds, t, a, n)
  <2>1. n # 0 /\ Accounted(cmds, s, a, n)
    BY <1>0, <1>1
  <2>2. ASSUME NEW i \in 1 .. Len(q), q[i] = n PROVE n = h \/ \E j \in 1 .. Len(r) : r[j] = n
    BY <2>2, <1>3
  <2> QED BY <2>1, <2>2, <1>1, <1>2 DEF Accounted
<1> QED BY <1>5, <1>6, <1>7

(* The command that runs is answered.                                       *)
LEMMA AnswersRun ==
    ASSUME NEW cmds \in Seq(Commands), NEW s \in FtpSessions, NEW t \in FtpSessions, NEW a \in Seq(Nat),
           NEW k \in Nat, Owed(cmds, s, a, k), s.run # 0, s.at = "open",
           Alike(cmds, [s EXCEPT !.run = 0], t)
    PROVE  Owed(cmds, t, a \o <<s.run>>, k)
<1>0. /\ s.queue \in Seq(Nat) /\ s.read \in Nat /\ s.line \in Nat /\ s.transfer.aborted \in Nat
      /\ s.run \in Nat
  BY Fields
<1> DEFINE u == [s EXCEPT !.run = 0]
<1>1. /\ u \in FtpSessions /\ u.read = s.read /\ u.queue = s.queue /\ u.run = 0 /\ u.reader = s.reader
      /\ u.line = s.line /\ u.transfer = s.transfer /\ u.ctrl = s.ctrl /\ u.at = s.at
  BY DEF FtpSessions
<1> HIDE DEF u
<1>2. PICK h \in Nat, g \in Seq(Nat) : h = s.run /\ g = a \o <<h>>
  <2>1. a \o <<s.run>> \in Seq(Nat)
    BY <1>0
  <2> QED BY <2>1, <1>0
<1>3. h # 0 /\ Fits(cmds, a, h) /\ InOrder(cmds, a) /\ h <= s.read
  BY <1>2 DEF Owed, AnswersOK
<1>4. /\ Len(g) = Len(a) + 1 /\ g[Len(a) + 1] = h /\ \A i \in 1 .. Len(a) : g[i] = a[i]
      /\ \A i \in 1 .. Len(g) : i \in 1 .. Len(a) \/ i = Len(a) + 1
      /\ InOrder(cmds, g) /\ Len(a) \in Nat
      /\ \A p \in Nat : Fits(cmds, a, p) /\ h < p => Fits(cmds, g, p)
  BY <1>2, <1>3, AnswersGrow
<1>5. QueueOK(cmds, u, g)
  <2>1. \A i \in 1 .. Len(s.queue) : s.queue[i] \in Nat
    BY <1>0, ElementOfSeq
  <2>2. \A i \in 1 .. Len(u.queue) :
          u.queue[i] # 0 => /\ u.queue[i] <= u.read /\ u.run < u.queue[i]
                            /\ Fits(cmds, g, u.queue[i]) /\ u.queue[i] # u.transfer.aborted
    <3> SUFFICES ASSUME NEW i \in 1 .. Len(s.queue), s.queue[i] # 0
                 PROVE  /\ s.queue[i] <= s.read /\ 0 < s.queue[i]
                        /\ Fits(cmds, g, s.queue[i]) /\ s.queue[i] # s.transfer.aborted
      BY <1>1
    <3>1. /\ s.queue[i] <= s.read /\ s.run < s.queue[i] /\ s.queue[i] \in Nat
          /\ Fits(cmds, a, s.queue[i]) /\ s.queue[i] # s.transfer.aborted
      BY <2>1 DEF Owed, QueueOK
    <3>2. PICK p \in Nat : p = s.queue[i]
      BY <3>1
    <3>3. p # 0 /\ h < p /\ Fits(cmds, a, p)
      BY <3>1, <3>2, <1>2
    <3>4. Fits(cmds, g, p) /\ 0 < p
      BY <3>3, <1>4
    <3> QED BY <3>1, <3>2, <3>4
  <2>3. u.reader = "offers" /\ u.line # 0 =>
          /\ u.line = u.read /\ u.run < u.line /\ Fits(cmds, g, u.line) /\ u.line # u.transfer.aborted
          /\ \A i \in 1 .. Len(u.queue) : u.queue[i] < u.line
    <3> SUFFICES ASSUME s.reader = "offers", s.line # 0
                 PROVE  /\ s.line = s.read /\ 0 < s.line /\ Fits(cmds, g, s.line)
                        /\ s.line # s.transfer.aborted /\ \A i \in 1 .. Len(s.queue) : s.queue[i] < s.line
      BY <1>1
    <3>1. /\ s.line = s.read /\ s.run < s.line /\ Fits(cmds, a, s.line) /\ s.line # s.transfer.aborted
          /\ \A i \in 1 .. Len(s.queue) : s.queue[i] < s.line
      BY DEF Owed, QueueOK
    <3> QED BY <3>1, <1>0, <1>2, <1>4
  <2> QED BY <2>2, <2>3, <1>1 DEF Owed, QueueOK
<1>6. AnswersOK(cmds, u, g, k)
  <2>1. \A i \in 1 .. Len(g) : g[i] \in 1 .. u.read
    BY <1>0, <1>1, <1>3, <1>4, SMTT(20) DEF Owed, AnswersOK
  <2>2. u.transfer.aborted \in 1 .. Len(cmds) =>
          /\ u.transfer.aborted <= u.read /\ u.run < u.transfer.aborted
          /\ Fits(cmds, g, u.transfer.aborted) /\ cmds[u.transfer.aborted] = "ABOR"
    BY <1>0, <1>1, <1>2, <1>4, SMTT(20) DEF Owed, AnswersOK
  <2>3. u.read <= k /\ k <= Len(cmds) /\ (u.transfer.aborted > Len(cmds) => u.ctrl = "closed")
    BY <1>1 DEF Owed, AnswersOK
  <2> QED BY <2>1, <2>2, <2>3, <1>1, <1>4 DEF AnswersOK
<1>7. ASSUME NEW n \in 1 .. u.read PROVE Accounted(cmds, u, g, n)
  <2>1. Accounted(cmds, s, a, n)
    BY <1>1 DEF Owed
  <2>2. ASSUME n = h \/ \E i \in 1 .. Len(a) : a[i] = n PROVE \E i \in 1 .. Len(g) : g[i] = n
    <3>1. 1 .. Len(g) = (1 .. Len(a)) \cup {Len(a) + 1}
      BY <1>4
    <3> QED BY <2>2, <3>1, <1>4
  <2> QED BY <2>1, <2>2, <1>1, <1>2 DEF Accounted
<1>8. Owed(cmds, u, g, k)
  BY <1>5, <1>6, <1>7 DEF Owed
<1>9. Alike(cmds, u, t) /\ k <= Len(cmds)
  BY DEF u, Owed, AnswersOK
<1>10. Owed(cmds, t, g, k)
  BY <1>1, <1>8, <1>9, AlikeOwes
<1> QED BY <1>2, <1>10

(* The ABOR of the transfer is answered, after the command it aborted.      *)
LEMMA AnswersAborted ==
    ASSUME NEW cmds \in Seq(Commands), NEW s \in FtpSessions, NEW t \in FtpSessions, NEW a \in Seq(Nat),
           NEW k \in Nat, Owed(cmds, s, a, k), s.transfer.aborted \in 1 .. Len(cmds), s.run = 0,
           t = [s EXCEPT !.transfer = t.transfer, !.loop = t.loop], t.transfer.aborted = 0, s.at = "open"
    PROVE  Owed(cmds, t, a \o <<s.transfer.aborted>>, k)
<1>0. /\ s.queue \in Seq(Nat) /\ s.read \in Nat /\ s.line \in Nat /\ s.transfer.aborted \in Nat
  BY Fields
<1>1. /\ t.read = s.read /\ t.queue = s.queue /\ t.run = 0 /\ t.reader = s.reader
      /\ t.line = s.line /\ t.ctrl = s.ctrl /\ t.at = s.at
  BY DEF FtpSessions
<1>2. PICK h \in Nat, g \in Seq(Nat) : h = s.transfer.aborted /\ g = a \o <<h>>
  <2>1. a \o <<s.transfer.aborted>> \in Seq(Nat)
    BY <1>0
  <2> QED BY <2>1, <1>0
<1>3. /\ h # 0 /\ Fits(cmds, a, h) /\ InOrder(cmds, a) /\ h <= s.read /\ Early(cmds, h) /\ cmds[h] = "ABOR"
  BY <1>2 DEF Owed, AnswersOK, Early
<1>4. /\ Len(g) = Len(a) + 1 /\ g[Len(a) + 1] = h /\ \A i \in 1 .. Len(a) : g[i] = a[i]
      /\ \A i \in 1 .. Len(g) : i \in 1 .. Len(a) \/ i = Len(a) + 1
      /\ InOrder(cmds, g) /\ Len(a) \in Nat
      /\ \A p \in Nat : Fits(cmds, a, p) /\ h # p => Fits(cmds, g, p)
  BY <1>2, <1>3, AnswersGrow
<1>5. QueueOK(cmds, t, g)
  <2>1. \A i \in 1 .. Len(s.queue) : s.queue[i] \in Nat
    BY <1>0, ElementOfSeq
  <2>2. \A i \in 1 .. Len(t.queue) :
          t.queue[i] # 0 => /\ t.queue[i] <= t.read /\ t.run < t.queue[i]
                            /\ Fits(cmds, g, t.queue[i]) /\ t.queue[i] # t.transfer.aborted
    BY <2>1, <1>0, <1>1, <1>2, <1>4 DEF Owed, QueueOK
  <2>3. t.reader = "offers" /\ t.line # 0 =>
          /\ t.line = t.read /\ t.run < t.line /\ Fits(cmds, g, t.line) /\ t.line # t.transfer.aborted
          /\ \A i \in 1 .. Len(t.queue) : t.queue[i] < t.line
    BY <1>0, <1>1, <1>2, <1>4 DEF Owed, QueueOK
  <2> QED BY <2>2, <2>3, <1>1 DEF Owed, QueueOK
<1>6. AnswersOK(cmds, t, g, k)
  <2>1. \A i \in 1 .. Len(g) : g[i] \in 1 .. t.read
    <3>1. h \in 1 .. s.read /\ \A i \in 1 .. Len(a) : a[i] \in 1 .. s.read
      BY <1>0, <1>3 DEF Owed, AnswersOK
    <3> QED BY <3>1, <1>1, <1>4
  <2>2. t.read <= k /\ k <= Len(cmds) /\ Len(cmds) \in Nat
    BY <1>1 DEF Owed, AnswersOK
  <2> QED BY <2>1, <2>2, <1>1, <1>4 DEF AnswersOK
<1>7. ASSUME NEW n \in 1 .. t.read PROVE Accounted(cmds, t, g, n)
  <2>1. Accounted(cmds, s, a, n)
    BY <1>1 DEF Owed
  <2>2. ASSUME n = h \/ \E i \in 1 .. Len(a) : a[i] = n PROVE \E i \in 1 .. Len(g) : g[i] = n
    <3>1. 1 .. Len(g) = (1 .. Len(a)) \cup {Len(a) + 1}
      BY <1>4
    <3> QED BY <2>2, <3>1, <1>4
  <2> QED BY <2>1, <2>2, <1>1, <1>2 DEF Accounted
<1> QED BY <1>2, <1>5, <1>6, <1>7 DEF Owed
(* The reader takes the next line: an AUTH it answers, an ABOR that goes to *)
(* the transfer, or a command it offers.                                    *)
LineTaken(cmds, s, t, a, g, h) ==
    \/ /\ cmds[h] = "AUTH" /\ g = a \o <<h>>
       /\ t.reader = "reads" /\ t.transfer = s.transfer
    \/ /\ cmds[h] = "ABOR" /\ g = a
       /\ t.reader = "reads"
       /\ t.transfer.aborted = IF s.transfer.aborted = 0 THEN h ELSE s.transfer.aborted
    \/ /\ g = a
       /\ t.reader = "offers" /\ t.line = h /\ t.transfer = s.transfer

LEMMA TakesLine ==
    ASSUME NEW cmds \in Seq(Commands), NEW s \in FtpSessions, NEW t \in FtpSessions, NEW a \in Seq(Nat),
           NEW k \in Nat, NEW g \in Seq(Nat), Owed(cmds, s, a, k), s.reader = "reads", s.ctrl # "closed",
           s.read < k, s.at = "open",
           t.at = s.at, t.read = s.read + 1, t.queue = s.queue, t.run = s.run, t.ctrl = s.ctrl,
           LineTaken(cmds, s, t, a, g, s.read + 1)
    PROVE  Owed(cmds, t, g, k)
<1>0. /\ s.queue \in Seq(Nat) /\ s.read \in Nat /\ s.line \in Nat /\ s.transfer.aborted \in Nat
      /\ s.run \in Nat /\ t.transfer.aborted \in Nat
  BY Fields
<1>1. PICK h \in Nat, o \in Nat, p \in Nat : h = s.read + 1 /\ o = s.transfer.aborted /\ p = t.transfer.aborted
  <2>1. s.read + 1 \in Nat
    BY <1>0
  <2> QED BY <1>0, <2>1
<1>2. /\ h <= k /\ k <= Len(cmds) /\ h # 0 /\ InOrder(cmds, a) /\ s.run < h /\ Len(cmds) \in Nat
      /\ \A i \in 1 .. Len(a) : a[i] \in 1 .. s.read
  BY <1>0, <1>1 DEF Owed, AnswersOK
<1>3. Fits(cmds, a, h)
  <2>1. \A i \in 1 .. Len(a) : a[i] < h
    BY <1>0, <1>1, <1>2, SMTT(20)
  <2> QED BY <2>1 DEF Fits
<1>4. /\ \A i \in 1 .. Len(g) : g[i] \in 1 .. h
      /\ InOrder(cmds, g)
      /\ \A q \in Nat : Fits(cmds, a, q) /\ q < h => Fits(cmds, g, q)
      /\ g = a \/ (\E i \in 1 .. Len(g) : g[i] = h)
      /\ \A i \in 1 .. Len(a) : i \in 1 .. Len(g) /\ g[i] = a[i]
  <2>1. CASE g = a
    BY <2>1, <1>0, <1>1, <1>2, SMTT(20)
  <2>2. CASE cmds[h] = "AUTH" /\ g = a \o <<h>>
    <3>1. /\ Len(g) = Len(a) + 1 /\ g[Len(a) + 1] = h /\ \A i \in 1 .. Len(a) : g[i] = a[i]
          /\ \A i \in 1 .. Len(g) : i \in 1 .. Len(a) \/ i = Len(a) + 1
          /\ InOrder(cmds, g) /\ Len(a) \in Nat
          /\ \A q \in Nat : Fits(cmds, a, q) /\ h # q => Fits(cmds, g, q)
      BY <2>2, <1>2, <1>3, AnswersGrow DEF Early
    <3>2. 1 .. Len(g) = (1 .. Len(a)) \cup {Len(a) + 1}
      BY <3>1
    <3>3. \A q \in Nat : q < h => h # q
      BY <1>1
    <3>4. \A i \in 1 .. Len(g) : g[i] \in 1 .. h
      <4>1. h \in 1 .. h /\ \A i \in 1 .. Len(a) : a[i] \in 1 .. h
        BY <1>0, <1>1, <1>2, SMTT(20)
      <4> QED BY <4>1, <3>1, <3>2
    <3>5. \A q \in Nat : Fits(cmds, a, q) /\ q < h => Fits(cmds, g, q)
      BY <3>1, <3>3
    <3>6. \E i \in 1 .. Len(g) : g[i] = h
      BY <3>1, <3>2
    <3>7. \A i \in 1 .. Len(a) : i \in 1 .. Len(g) /\ g[i] = a[i]
      BY <3>1, <3>2
    <3> QED BY <3>1, <3>4, <3>5, <3>6, <3>7
  <2> QED BY <2>1, <2>2, <1>1 DEF LineTaken
<1>5. \A i \in 1 .. Len(s.queue) :
        s.queue[i] \in Nat /\ (s.queue[i] # 0 => s.queue[i] < h /\ s.run < s.queue[i] /\ Fits(cmds, g, s.queue[i]))
  <2> SUFFICES ASSUME NEW i \in 1 .. Len(s.queue), s.queue[i] # 0
               PROVE  s.queue[i] < h /\ s.run < s.queue[i] /\ Fits(cmds, g, s.queue[i])
    <3>1. \A i \in 1 .. Len(s.queue) : s.queue[i] \in Nat
      BY <1>0, ElementOfSeq
    <3> QED BY <3>1
  <2>1. PICK q \in Nat : q = s.queue[i]
    BY <1>0
  <2>2. q # 0 /\ q <= s.read /\ s.run < q /\ Fits(cmds, a, q)
    BY <2>1 DEF Owed, QueueOK
  <2>3. q < h
    BY <2>2, <1>0, <1>1
  <2> QED BY <2>1, <2>2, <2>3, <1>4
<1>6. /\ o \in 1 .. Len(cmds) => o <= s.read /\ s.run < o /\ Fits(cmds, a, o) /\ cmds[o] = "ABOR"
      /\ ~(o > Len(cmds))
  BY <1>1 DEF Owed, AnswersOK
<1>7. o = 0 \/ o < h
  BY <1>0, <1>1, <1>2, <1>6
<1>8. p = o \/ (p = h /\ cmds[h] = "ABOR" /\ g = a /\ t.reader = "reads")
  BY <1>1 DEF LineTaken
<1>9. QueueOK(cmds, t, g)
  <2>1. ASSUME NEW i \in 1 .. Len(s.queue), s.queue[i] # 0 PROVE s.queue[i] # p
    <3>1. s.queue[i] # o
      BY <2>1, <1>1 DEF Owed, QueueOK
    <3>2. s.queue[i] # h
      BY <2>1, <1>5, <1>1
    <3> QED BY <3>1, <3>2, <1>8
  <2>2. ASSUME NEW i \in 1 .. Len(s.queue), s.queue[i] # 0 PROVE s.queue[i] <= h
    BY <2>2, <1>5, <1>1
  <2>3. t.reader = "offers" /\ t.line # 0 =>
          /\ t.line = h /\ Fits(cmds, g, h) /\ h # p
          /\ \A i \in 1 .. Len(s.queue) : s.queue[i] < h
    <3> SUFFICES ASSUME t.reader = "offers"
                 PROVE /\ t.line = h /\ Fits(cmds, g, h) /\ h # p
                       /\ \A i \in 1 .. Len(s.queue) : s.queue[i] < h
      OBVIOUS
    <3>1. t.line = h /\ g = a /\ p = o
      BY <1>1 DEF LineTaken
    <3>2. ASSUME NEW i \in 1 .. Len(s.queue) PROVE s.queue[i] < h
      BY <1>1, <1>2, <1>5
    <3> QED BY <3>1, <3>2, <1>2, <1>3, <1>7
  <2>4. \A i, j \in 1 .. Len(s.queue) : i < j => s.queue[j] = 0 \/ s.queue[i] < s.queue[j]
    BY DEF Owed, QueueOK
  <2> QED BY <2>1, <2>2, <2>3, <2>4, <1>1, <1>2, <1>5 DEF QueueOK
<1>10. AnswersOK(cmds, t, g, k)
  <2>1. s.run # 0 => s.run <= h /\ Fits(cmds, g, s.run)
    <3>1. s.run # 0 => s.run <= s.read /\ Fits(cmds, a, s.run)
      BY DEF Owed, AnswersOK
    <3> QED BY <3>1, <1>0, <1>1, <1>2, <1>4
  <2>2. p \in 1 .. Len(cmds) => p <= h /\ s.run < p /\ Fits(cmds, g, p) /\ cmds[p] = "ABOR"
    <3>1. CASE p = o
      <4> SUFFICES ASSUME o \in 1 .. Len(cmds)
                   PROVE  o <= h /\ s.run < o /\ Fits(cmds, g, o) /\ cmds[o] = "ABOR"
        BY <3>1
      <4>1. s.run < o /\ Fits(cmds, a, o) /\ cmds[o] = "ABOR"
        BY <1>6
      <4>2. o < h
        BY <1>7
      <4>3. Fits(cmds, g, o)
        BY <4>1, <4>2, <1>4
      <4> QED BY <4>1, <4>2, <4>3
    <3>2. CASE p = h /\ cmds[h] = "ABOR" /\ g = a
      BY <3>2, <1>2, <1>3
    <3> QED BY <3>1, <3>2, <1>8
  <2>3. ~(p > Len(cmds))
    BY <1>1, <1>2, <1>6, <1>8
  <2> QED BY <2>1, <2>2, <2>3, <1>1, <1>2, <1>4 DEF AnswersOK
<1>11. ASSUME NEW n \in 1 .. t.read PROVE Accounted(cmds, t, g, n)
  <2>1. n \in Nat /\ n # 0 /\ (n = h \/ n \in 1 .. s.read)
    BY <1>0, <1>1
  <2>2. CASE n \in 1 .. s.read
    <3>1. Accounted(cmds, s, a, n)
      BY <2>2 DEF Owed
    <3>2. ASSUME n = o PROVE n = p
      BY <3>2, <2>1, <1>1 DEF LineTaken
    <3>3. ASSUME NEW i \in 1 .. Len(a), a[i] = n PROVE \E j \in 1 .. Len(g) : g[j] = n
      BY <3>3, <1>4
    <3> QED BY <3>1, <3>2, <3>3, <1>1 DEF Accounted
  <2>3. CASE n = h
    <3>1. CASE cmds[h] = "AUTH" /\ g = a \o <<h>>
      <4>1. \E i \in 1 .. Len(g) : g[i] = h
        <5>1. g # a
          <6>1. Len(g) = Len(a) + 1 /\ Len(a) \in Nat
            BY <3>1, <1>3, AnswersGrow
          <6> QED BY <6>1
        <5> QED BY <5>1, <1>4
      <4> QED BY <4>1, <2>3 DEF Accounted
    <3>2. CASE cmds[h] = "ABOR" /\ p = IF o = 0 THEN h ELSE o
      <4>1. o # 0 => o \in 1 .. h - 1 /\ cmds[o] = "ABOR"
        BY <1>0, <1>1, <1>2, <1>6, <1>7, SMTT(20)
      <4> QED BY <4>1, <3>2, <2>3, <1>1 DEF Accounted
    <3>3. CASE t.reader = "offers" /\ t.line = h
      BY <3>3, <2>3 DEF Accounted
    <3> QED BY <3>1, <3>2, <3>3, <1>1 DEF LineTaken
  <2> QED BY <2>1, <2>2, <2>3
<1> QED BY <1>9, <1>10, <1>11 DEF Owed

(* The reader hands over what it offers.                                    *)
LEMMA HandsLine ==
    ASSUME NEW cmds \in Seq(Commands), NEW s \in FtpSessions, NEW t \in FtpSessions, NEW a \in Seq(Nat),
           NEW k \in Nat, Owed(cmds, s, a, k), s.reader = "offers", s.at = "open",
           t = [s EXCEPT !.queue = Append(@, s.line), !.reader = t.reader], t.reader # "offers"
    PROVE  Owed(cmds, t, a, k)
<1>0. /\ s.queue \in Seq(Nat) /\ s.read \in Nat /\ s.line \in Nat /\ s.transfer.aborted \in Nat
      /\ s.run \in Nat
  BY Fields
<1>1. /\ t.read = s.read /\ t.queue = Append(s.queue, s.line) /\ t.run = s.run
      /\ t.line = s.line /\ t.transfer = s.transfer /\ t.ctrl = s.ctrl /\ t.at = s.at
  BY DEF FtpSessions
<1>2. PICK q \in Seq(Nat), h \in Nat : q = s.queue /\ h = s.line
  BY <1>0
<1>3. PICK r \in Seq(Nat) : r = Append(q, h)
  <2>1. Append(q, h) \in Seq(Nat)
    OBVIOUS
  <2> QED BY <2>1
<1>4. /\ Len(r) = Len(q) + 1 /\ r[Len(q) + 1] = h /\ Len(q) \in Nat
      /\ \A i \in 1 .. Len(q) : r[i] = q[i] /\ q[i] \in Nat
  BY <1>3
<1>5. 1 .. Len(r) = (1 .. Len(q)) \cup {Len(q) + 1}
  BY <1>4
<1>6. /\ \A i \in 1 .. Len(q) :
            q[i] # 0 => /\ q[i] <= s.read /\ s.run < q[i] /\ Fits(cmds, a, q[i]) /\ q[i] # s.transfer.aborted
      /\ \A i, j \in 1 .. Len(q) : i < j => q[j] = 0 \/ q[i] < q[j]
      /\ h # 0 =>
            /\ h = s.read /\ s.run < h /\ Fits(cmds, a, h) /\ h # s.transfer.aborted
            /\ \A i \in 1 .. Len(q) : q[i] < h
  BY <1>2 DEF Owed, QueueOK
<1>7. QueueOK(cmds, t, a)
  <2>1. ASSUME NEW i \in 1 .. Len(r), r[i] # 0
        PROVE  r[i] <= s.read /\ s.run < r[i] /\ Fits(cmds, a, r[i]) /\ r[i] # s.transfer.aborted
    <3>1. CASE i \in 1 .. Len(q)
      BY <2>1, <3>1, <1>4, <1>6
    <3>2. CASE i = Len(q) + 1
      BY <2>1, <3>2, <1>0, <1>4, <1>6
    <3> QED BY <3>1, <3>2, <1>5
  <2>2. ASSUME NEW i \in 1 .. Len(r), NEW j \in 1 .. Len(r), i < j
        PROVE  r[j] = 0 \/ r[i] < r[j]
    <3>1. i \in 1 .. Len(q)
      BY <2>2, <1>4
    <3>2. CASE j \in 1 .. Len(q)
      BY <2>2, <3>1, <3>2, <1>4, <1>6
    <3>3. CASE j = Len(q) + 1
      BY <3>1, <3>3, <1>4, <1>6
    <3> QED BY <3>2, <3>3, <1>5
  <2> QED BY <2>1, <2>2, <1>1, <1>2, <1>3, SMTT(20) DEF QueueOK
<1>8. AnswersOK(cmds, t, a, k)
  BY <1>1 DEF Owed, AnswersOK
<1>9. ASSUME NEW n \in 1 .. t.read PROVE Accounted(cmds, t, a, n)
  <2>1. Accounted(cmds, s, a, n)
    BY <1>1 DEF Owed
  <2>2. ASSUME n = h \/ \E i \in 1 .. Len(q) : q[i] = n PROVE \E i \in 1 .. Len(r) : r[i] = n
    BY <2>2, <1>4, <1>5
  <2> QED BY <2>1, <2>2, <1>1, <1>2, <1>3 DEF Accounted
<1> QED BY <1>7, <1>8, <1>9 DEF Owed

(* A connection of which nothing was read owes nothing.                     *)
LEMMA NothingOwed ==
    ASSUME NEW cmds \in Seq(Commands), NEW s \in FtpSessions, NEW k \in Nat, k <= Len(cmds),
           s.read = 0, s.queue = <<>>, s.run = 0, s.reader = "reads", s.transfer = Ftp!NoTransfer
    PROVE  Owed(cmds, s, <<>>, k)
<1>1. s.transfer.aborted = 0 /\ Len(cmds) \in Nat
  BY DEF Ftp!NoTransfer
<1>2. QueueOK(cmds, s, <<>>)
  BY DEF QueueOK
<1>3. AnswersOK(cmds, s, <<>>, k)
  BY <1>1 DEF AnswersOK, InOrder
<1> QED BY <1>2, <1>3 DEF Owed
-----------------------------------------------------------------------------
(* The channel that is set up is drained; those before it were.             *)
LastDrained(ch) ==
    LET n == Len(ch) IN
    IF n = 0 THEN ch
    ELSE [ch EXCEPT ![n] = [@ EXCEPT !.listener = "closed", !.holds = 0,
                                     !.late = ch[n].late \/ ch[n].acceptor = "puts"]]

LEMMA DrainedIsLastDrained == \A c \in Clients : Ftp!Drained(c) = LastDrained(setup[c])
BY DEF Ftp!Drained, LastDrained

LEMMA DrainsLast ==
    ASSUME NEW ch \in Seq(Channels), NEW d, NEW n \in Nat, n = Len(ch), d = LastDrained(ch),
           \A i \in 1 .. Len(ch) : ch[i].holds \in {0, i} /\ (i < Len(ch) => Drains(ch[i]))
    PROVE  /\ d \in Seq(Channels) /\ Len(d) = n
           /\ \A i \in 1 .. n : d[i].holds \in {0, i} /\ Drains(d[i])
           /\ n # 0 => d[n].holds = 0
<1>1. CASE n = 0
  <2>1. d = ch /\ 1 .. Len(ch) = {}
    BY <1>1 DEF LastDrained
  <2> QED BY <1>1, <2>1
<1>2. CASE n # 0
  <2>1. n \in 1 .. Len(ch) /\ ch[n] \in Channels
    BY <1>2
  <2>2. PICK w \in Channels : w = ch[n]
    BY <2>1
  <2>0. PICK x : x = [ch[n] EXCEPT !.listener = "closed", !.holds = 0, !.late = ch[n].late \/ ch[n].acceptor = "puts"]
    OBVIOUS
  <2>3. x = [w EXCEPT !.listener = "closed", !.holds = 0, !.late = w.late \/ w.acceptor = "puts"]
    BY <2>0, <2>2
  <2>4. x \in Channels /\ x.holds = 0 /\ x.listener = "closed" /\ x.acceptor = w.acceptor
    BY <2>3 DEF Channels
  <2>5. x.acceptor = "puts" => x.late
    BY <2>2, <2>3 DEF Channels
  <2>6. Drains(x)
    BY <2>4, <2>5 DEF Drains
  <2>7. d = [ch EXCEPT ![n] = x]
    BY <1>2, <2>0 DEF LastDrained
  <2>8. d \in Seq(Channels) /\ Len(d) = Len(ch)
    BY <2>1, <2>4, <2>7
  <2>9. \A i \in 1 .. Len(ch) : d[i] = IF i = n THEN x ELSE ch[i]
    BY <2>1, <2>7
  <2>10. \A i \in 1 .. Len(ch) : i # n => i < Len(ch)
    BY <1>2
  <2> QED BY <2>1, <2>4, <2>6, <2>8, <2>9, <2>10
<1> QED BY <1>1, <1>2

(* A new one is set up behind drained ones.                                 *)
LEMMA OneMoreChannel ==
    ASSUME NEW d \in Seq(Channels), \A i \in 1 .. Len(d) : d[i].holds \in {0, i} /\ Drains(d[i])
    PROVE  LET g == Append(d, Ftp!Channel("open"))
           IN  /\ g \in Seq(Channels) /\ Len(g) = Len(d) + 1
               /\ \A i \in 1 .. Len(g) : g[i].holds \in {0, i} /\ (i < Len(g) => Drains(g[i]))
<1> DEFINE w == Ftp!Channel("open")
           g == Append(d, w)
<1>1. w \in Channels /\ w.holds = 0
  BY DEF Channels, Ftp!Channel
<1> HIDE DEF w
<1>2. g \in Seq(Channels)
  BY <1>1
<1>3. Len(g) = Len(d) + 1 /\ g[Len(d) + 1] = w /\ Len(d) \in Nat /\ \A i \in 1 .. Len(d) : g[i] = d[i]
  BY <1>1
<1> HIDE DEF g
<1>4. \A i \in 1 .. Len(g) : (i \in 1 .. Len(d) \/ i = Len(d) + 1) /\ (i < Len(g) => i \in 1 .. Len(d))
  BY <1>3
<1>5. ASSUME NEW i \in 1 .. Len(g) PROVE g[i].holds \in {0, i} /\ (i < Len(g) => Drains(g[i]))
  BY <1>1, <1>3, <1>4
<1>6. g \in Seq(Channels) /\ Len(g) = Len(d) + 1
  BY <1>2, <1>3
<1> QED BY <1>5, <1>6 DEF g, w

(* Its acceptor accepts, and puts what it accepted into it.                 *)
LEMMA AcceptorGoes ==
    ASSUME NEW ch \in Seq(Channels), NEW s \in FtpSessions, ChannelsOK(s, ch), NEW n \in 1 .. Len(ch), NEW x,
           \/ /\ ch[n].listener = "open"
              /\ x = [ch[n] EXCEPT !.listener = "closed", !.acceptor = "puts"]
           \/ /\ ch[n].acceptor = "puts"
              /\ x = [ch[n] EXCEPT !.acceptor = "done", !.holds = n]
    PROVE  [ch EXCEPT ![n] = x] \in Seq(Channels) /\ ChannelsOK(s, [ch EXCEPT ![n] = x])
<1>1. PICK w \in Channels : w = ch[n]
  BY ElementOfSeq
<1>2. n \in Nat /\ w.holds \in {0, n} /\ (n < Len(ch) \/ s.at = "gone" => Drains(w))
  BY <1>1 DEF ChannelsOK
<1>3. x \in Channels /\ x.holds \in {0, n} /\ (Drains(w) => Drains(x))
  <2>1. CASE w.listener = "open" /\ x = [w EXCEPT !.listener = "closed", !.acceptor = "puts"]
    BY <2>1, <1>2 DEF Channels, Drains
  <2>2. CASE w.acceptor = "puts" /\ x = [w EXCEPT !.acceptor = "done", !.holds = n]
    <3>1. x \in Channels /\ x.holds = n /\ x.listener = w.listener /\ x.late = w.late
      BY <2>2, <1>2 DEF Channels
    <3> QED BY <2>2, <3>1 DEF Drains
  <2> QED BY <1>1, <2>1, <2>2
<1>4. PICK d : d = [ch EXCEPT ![n] = x]
  OBVIOUS
<1>5. d \in Seq(Channels) /\ Len(d) = Len(ch) /\ \A i \in 1 .. Len(ch) : d[i] = IF i = n THEN x ELSE ch[i]
  BY <1>3, <1>4
<1>6. ASSUME NEW i \in 1 .. Len(ch)
      PROVE  d[i].holds \in {0, i} /\ (i < Len(ch) \/ s.at = "gone" => Drains(d[i]))
  BY <1>2, <1>3, <1>5 DEF ChannelsOK
<1>7. ch = <<>> => d = <<>>
  BY <1>4
<1>8. ChannelsOK(s, d)
  BY <1>5, <1>6, <1>7 DEF ChannelsOK
<1> QED BY <1>4, <1>5, <1>8

-----------------------------------------------------------------------------
(* One connection changes.                                                  *)
Changes(c, s, a, ch, k) ==
    /\ script' = script
    /\ session' = [session EXCEPT ![c] = s] /\ answered' = [answered EXCEPT ![c] = a]
    /\ setup' = [setup EXCEPT ![c] = ch] /\ asked' = [asked EXCEPT ![c] = k]

LEMMA OneChanges ==
    ASSUME FtpInv, NEW c \in Clients, NEW s \in FtpSessions, NEW a \in Seq(Nat), NEW ch \in Seq(Channels),
           NEW k \in Nat, Changes(c, s, a, ch, k), SessionOK(script[c], s, a, ch, k)
    PROVE  FtpInv'
<1> USE DEF FtpTypes
<1>1. /\ session \in [Clients -> FtpSessions] /\ setup \in [Clients -> Seq(Channels)]
      /\ asked \in [Clients -> Nat] /\ answered \in [Clients -> Seq(Nat)]
  BY DEF FtpInv
<1>2. FtpTypes'
  BY <1>1 DEF FtpInv, Changes
<1>3. ASSUME NEW e \in Clients
      PROVE  SessionOK(script'[e], session'[e], answered'[e], setup'[e], asked'[e])
  <2>1. CASE e = c
    <3>1. /\ script'[e] = script[c] /\ session'[e] = s /\ answered'[e] = a /\ setup'[e] = ch /\ asked'[e] = k
      BY <1>1, <2>1 DEF Changes
    <3> QED BY <3>1
  <2>2. CASE e # c
    <3>1. /\ script'[e] = script[e] /\ session'[e] = session[e] /\ answered'[e] = answered[e]
          /\ setup'[e] = setup[e] /\ asked'[e] = asked[e]
      BY <1>1, <2>2 DEF Changes
    <3> QED BY <3>1 DEF FtpInv
  <2> QED BY <2>1, <2>2
<1> QED BY <1>2, <1>3 DEF FtpInv

(* A connection as it is, its parts named.                                  *)
LEMMA SessionFacts ==
    ASSUME FtpInv, NEW c \in Clients
    PROVE  /\ script[c] \in Seq(Commands) /\ session[c] \in FtpSessions /\ answered[c] \in Seq(Nat)
           /\ setup[c] \in Seq(Channels) /\ asked[c] \in Nat
           /\ SessionOK(script[c], session[c], answered[c], setup[c], asked[c])
           /\ session = [session EXCEPT ![c] = session[c]] /\ answered = [answered EXCEPT ![c] = answered[c]]
           /\ setup = [setup EXCEPT ![c] = setup[c]] /\ asked = [asked EXCEPT ![c] = asked[c]]
<1>1. script \in [Clients -> Seq(Commands)]
  BY ServersAssumption DEF FtpInv, FtpTypes, Commands
<1> QED BY <1>1 DEF FtpInv, FtpTypes
(* Only the goroutines of the connection change, and what is owed stays.    *)
LEMMA QuietStep ==
    ASSUME FtpInv, NEW c \in Clients, NEW t \in FtpSessions,
           UNCHANGED <<script, setup, answered, asked>>, session' = [session EXCEPT ![c] = t],
           Alike(script[c], session[c], t), ChannelsOK(t, setup[c]), LoopOK(t)
    PROVE  FtpInv'
<1>1. PICK cmds \in Seq(Commands), s \in FtpSessions, a \in Seq(Nat), ch \in Seq(Channels), k \in Nat :
        cmds = script[c] /\ s = session[c] /\ a = answered[c] /\ ch = setup[c] /\ k = asked[c]
  BY SessionFacts
<1>2. SessionOK(cmds, s, a, ch, k) /\ Changes(c, t, a, ch, k)
  BY <1>1, SessionFacts DEF Changes
<1>3. k <= Len(cmds)
  BY <1>2 DEF SessionOK, Owed, AnswersOK
<1>4. Owed(cmds, t, a, k)
  BY <1>1, <1>2, <1>3, AlikeOwes DEF SessionOK
<1>5. SessionOK(cmds, t, a, ch, k)
  BY <1>1, <1>4 DEF SessionOK
<1> QED BY <1>1, <1>2, <1>5, OneChanges

LEMMA QuietActions ==
    ASSUME FtpInv, NEW c \in Clients,
           \/ Ftp!Registers(c) \/ Ftp!Leaves(c) \/ Ftp!ReadTimesOut(c) \/ Ftp!ReaderEnds(c) \/ Ftp!Moves(c)
           \/ Ftp!Breaks(c) \/ Ftp!LoopHasEnded(c) \/ Ftp!ShutdownCloses(c)
    PROVE  FtpInv'
<1>1. PICK cmds \in Seq(Commands), s \in FtpSessions, ch \in Seq(Channels) :
        cmds = script[c] /\ s = session[c] /\ ch = setup[c]
  BY SessionFacts
<1>2. ChannelsOK(s, ch) /\ LoopOK(s)
  BY <1>1, SessionFacts DEF SessionOK
<1>3. /\ s.read \in Nat /\ s.line \in Nat /\ s.transfer.aborted \in Nat /\ Len(cmds) \in Nat
      /\ s.queue \in Seq(Nat) /\ s.transfer.active \in BOOLEAN
  BY Fields
<1>4. ASSUME NEW t \in FtpSessions, UNCHANGED <<script, setup, answered, asked>>,
             session' = [session EXCEPT ![c] = t], Alike(cmds, s, t), ChannelsOK(t, ch), LoopOK(t)
      PROVE  FtpInv'
  BY <1>1, <1>4, QuietStep
<1>5. CASE Ftp!Registers(c)
  <2>1. PICK t : t = [s EXCEPT !.at = "open"]
    OBVIOUS
  <2>2. /\ session' = [session EXCEPT ![c] = t] /\ s.at = "accepted" /\ UNCHANGED <<script, setup, answered, asked>>
    BY <1>1, <1>5, <2>1 DEF Ftp!Registers, Ftp!Becomes
  <2>3. t \in FtpSessions /\ Alike(cmds, s, t)
    BY <2>1, <2>2 DEF FtpSessions, Alike
  <2>4. /\ t.at = "open" /\ t.loop = s.loop /\ t.mode = s.mode /\ t.transfer = s.transfer /\ t.run = s.run
    BY <2>1 DEF FtpSessions
  <2>5. ChannelsOK(t, ch)
    BY <2>2, <2>4, <1>2 DEF ChannelsOK
  <2>6. LoopOK(t)
    BY <2>4, <1>2 DEF LoopOK
  <2> QED BY <1>4, <2>2, <2>3, <2>5, <2>6
<1>6. CASE Ftp!Leaves(c)
  <2>1. PICK t : t = [s EXCEPT !.ctrl = "left"]
    OBVIOUS
  <2>2. /\ session' = [session EXCEPT ![c] = t] /\ s.ctrl = "up" /\ UNCHANGED <<script, setup, answered, asked>>
    BY <1>1, <1>6, <2>1 DEF Ftp!Leaves, Ftp!Becomes
  <2>3. t \in FtpSessions /\ Alike(cmds, s, t)
    BY <2>1, <2>2 DEF FtpSessions, Alike
  <2>4. /\ t.at = s.at /\ t.loop = s.loop /\ t.mode = s.mode /\ t.transfer = s.transfer /\ t.run = s.run
    BY <2>1 DEF FtpSessions
  <2>5. ChannelsOK(t, ch) /\ LoopOK(t)
    BY <2>4, <1>2 DEF ChannelsOK, LoopOK
  <2> QED BY <1>4, <2>2, <2>3, <2>5
<1>7. CASE Ftp!ReadTimesOut(c)
  <2>1. PICK t : t = [s EXCEPT !.reader = "offers", !.line = 0]
    OBVIOUS
  <2>2. /\ session' = [session EXCEPT ![c] = t] /\ s.reader = "reads" /\ UNCHANGED <<script, setup, answered, asked>>
    BY <1>1, <1>7, <2>1 DEF Ftp!ReadTimesOut, Ftp!Reading, Ftp!Becomes, Ftp!TimedOut
  <2>3. t \in FtpSessions /\ Alike(cmds, s, t)
    BY <2>1, <2>2 DEF FtpSessions, Alike
  <2>4. /\ t.at = s.at /\ t.loop = s.loop /\ t.mode = s.mode /\ t.transfer = s.transfer /\ t.run = s.run
    BY <2>1 DEF FtpSessions
  <2>5. ChannelsOK(t, ch) /\ LoopOK(t)
    BY <2>4, <1>2 DEF ChannelsOK, LoopOK
  <2> QED BY <1>4, <2>2, <2>3, <2>5
<1>8. CASE Ftp!ReaderEnds(c)
  <2>1. PICK t : t = [s EXCEPT !.reader = "ended"]
    OBVIOUS
  <2>2. /\ session' = [session EXCEPT ![c] = t] /\ s.reader = "reads" /\ UNCHANGED <<script, setup, answered, asked>>
    BY <1>1, <1>8, <2>1 DEF Ftp!ReaderEnds, Ftp!Reading, Ftp!Becomes
  <2>3. t \in FtpSessions /\ Alike(cmds, s, t)
    BY <2>1, <2>2 DEF FtpSessions, Alike
  <2>4. /\ t.at = s.at /\ t.loop = s.loop /\ t.mode = s.mode /\ t.transfer = s.transfer /\ t.run = s.run
    BY <2>1 DEF FtpSessions
  <2>5. ChannelsOK(t, ch) /\ LoopOK(t)
    BY <2>4, <1>2 DEF ChannelsOK, LoopOK
  <2> QED BY <1>4, <2>2, <2>3, <2>5
<1>9. CASE Ftp!Moves(c) \/ Ftp!Breaks(c)
  <2>1. PICK ok \in BOOLEAN :
          /\ session' = [session EXCEPT ![c] = [s EXCEPT !.loop = "moved", !.transfer.ok = ok]]
          /\ s.loop = "moves" /\ UNCHANGED <<script, setup, answered, asked>>
    BY <1>1, <1>9 DEF Ftp!Moves, Ftp!Breaks, Ftp!Becomes
  <2>2. PICK t : t = [s EXCEPT !.loop = "moved", !.transfer.ok = ok]
    OBVIOUS
  <2>3. t \in FtpSessions /\ Alike(cmds, s, t)
    BY <2>2 DEF FtpSessions, Alike
  <2>4. /\ t.at = s.at /\ t.loop = "moved" /\ t.mode = s.mode /\ t.run = s.run
        /\ t.transfer.active = s.transfer.active /\ t.transfer.aborted = s.transfer.aborted
    BY <2>2 DEF FtpSessions
  <2>5. ChannelsOK(t, ch) /\ LoopOK(t)
    BY <2>1, <2>4, <1>2 DEF ChannelsOK, LoopOK
  <2> QED BY <1>4, <2>1, <2>2, <2>3, <2>5
<1>10. CASE Ftp!LoopHasEnded(c)
  <2>1. PICK t : t = [s EXCEPT !.loop = "ended"]
    OBVIOUS
  <2>2. /\ session' = [session EXCEPT ![c] = t] /\ s.loop = "select" /\ s.at = "open"
        /\ UNCHANGED <<script, setup, answered, asked>>
    BY <1>1, <1>10, <2>1 DEF Ftp!LoopHasEnded, Ftp!Selecting, Ftp!Becomes
  <2>3. t \in FtpSessions /\ Alike(cmds, s, t)
    BY <2>1, <2>2 DEF FtpSessions, Alike
  <2>4. /\ t.at = s.at /\ t.loop = "ended" /\ t.mode = s.mode /\ t.transfer = s.transfer /\ t.run = s.run
    BY <2>1 DEF FtpSessions
  <2>5. ChannelsOK(t, ch) /\ LoopOK(t)
    BY <2>2, <2>4, <1>2 DEF ChannelsOK, LoopOK
  <2> QED BY <1>4, <2>2, <2>3, <2>5
<1>11. CASE Ftp!ShutdownCloses(c)
  <2>1. PICK tr : tr = IF s.transfer.active
                       THEN [s.transfer EXCEPT !.aborted = IF s.transfer.aborted = 0 THEN Len(cmds) + 1 ELSE s.transfer.aborted,
                                               !.ok = FALSE]
                       ELSE s.transfer
    OBVIOUS
  <2>2. PICK t : t = [s EXCEPT !.ctrl = "closed", !.transfer = tr]
    OBVIOUS
  <2>3. /\ session' = [session EXCEPT ![c] = t] /\ UNCHANGED <<script, setup, answered, asked>>
    BY <1>1, <1>11, <2>1, <2>2 DEF Ftp!ShutdownCloses, Ftp!Aborted, Ftp!Becomes
  <2>4. /\ tr \in [active : BOOLEAN, aborted : Nat, data : Nat, ok : BOOLEAN]
        /\ tr.active = s.transfer.active /\ tr.data = s.transfer.data
        /\ tr.aborted = IF s.transfer.active /\ s.transfer.aborted = 0 THEN Len(cmds) + 1 ELSE s.transfer.aborted
    <3>1. s.transfer \in [active : BOOLEAN, aborted : Nat, data : Nat, ok : BOOLEAN]
      BY DEF FtpSessions
    <3>2. CASE s.transfer.active
      <4>1. PICK o \in Nat : o = IF s.transfer.aborted = 0 THEN Len(cmds) + 1 ELSE s.transfer.aborted
        BY <1>3
      <4>2. tr = [s.transfer EXCEPT !.aborted = o, !.ok = FALSE]
        BY <3>2, <4>1, <2>1
      <4>3. /\ tr \in [active : BOOLEAN, aborted : Nat, data : Nat, ok : BOOLEAN]
            /\ tr.active = s.transfer.active /\ tr.data = s.transfer.data /\ tr.aborted = o
        BY <3>1, <4>2
      <4> QED BY <3>2, <4>1, <4>3
    <3>3. CASE ~s.transfer.active
      BY <3>1, <3>3, <2>1, <1>3
    <3> QED BY <3>2, <3>3
  <2>5. /\ t \in FtpSessions /\ t.at = s.at /\ t.loop = s.loop /\ t.mode = s.mode /\ t.run = s.run
        /\ t.transfer = tr /\ t.ctrl = "closed" /\ t.read = s.read /\ t.queue = s.queue
        /\ t.reader = s.reader /\ t.line = s.line
    BY <2>2, <2>4 DEF FtpSessions
  <2>6. 0 \notin 1 .. Len(cmds) /\ Len(cmds) + 1 > Len(cmds)
    BY <1>3
  <2>7. Alike(cmds, s, t)
    BY <2>4, <2>5, <2>6 DEF Alike
  <2>8. ChannelsOK(t, ch) /\ LoopOK(t)
    BY <2>4, <2>5, <1>2 DEF ChannelsOK, LoopOK
  <2> QED BY <1>4, <2>3, <2>5, <2>7, <2>8
<1> QED BY <1>5, <1>6, <1>7, <1>8, <1>9, <1>10, <1>11
(* The loop takes a command and answers it at once; it takes the reader's   *)
(* timeout and answers nothing.                                             *)
LEMMA TakesAndAnswers ==
    ASSUME NEW cmds \in Seq(Commands), NEW s \in FtpSessions, NEW t \in FtpSessions, NEW a \in Seq(Nat),
           NEW k \in Nat, NEW g, Owed(cmds, s, a, k), LoopOK(s), s.loop = "select", s.at = "open",
           s.queue # <<>>, g = IF Head(s.queue) = 0 THEN a ELSE a \o <<Head(s.queue)>>,
           t.queue = Tail(s.queue), t.run = 0, t.read = s.read, t.reader = s.reader, t.line = s.line,
           t.transfer = s.transfer, t.ctrl = s.ctrl, t.at = s.at
    PROVE  g \in Seq(Nat) /\ Owed(cmds, t, g, k)
<1>1. /\ s.queue \in Seq(Nat) /\ s.run = 0 /\ s.transfer.aborted = 0
  BY Fields DEF LoopOK
<1>2. PICK h \in Nat, q \in Seq(Nat) : h = Head(s.queue) /\ q = Tail(s.queue)
  <2>1. Head(s.queue) \in Nat /\ Tail(s.queue) \in Seq(Nat)
    BY <1>1
  <2> QED BY <2>1
<1>3. PICK u : u = [s EXCEPT !.queue = q, !.run = h]
  OBVIOUS
<1>4. /\ u \in FtpSessions /\ u.queue = q /\ u.run = h /\ u.read = s.read /\ u.reader = s.reader
      /\ u.line = s.line /\ u.transfer = s.transfer /\ u.ctrl = s.ctrl /\ u.at = s.at /\ u.loop = s.loop
      /\ u = [s EXCEPT !.queue = Tail(s.queue), !.run = Head(s.queue), !.loop = u.loop]
  BY <1>2, <1>3 DEF FtpSessions
<1>5. Owed(cmds, u, a, k) /\ k <= Len(cmds)
  BY <1>1, <1>4, TakesHead DEF Owed, AnswersOK
<1>6. CASE h = 0
  <2>1. Alike(cmds, u, t)
    BY <1>2, <1>4, <1>6 DEF Alike
  <2> QED BY <1>2, <1>4, <1>5, <1>6, <2>1, AlikeOwes
<1>7. CASE h # 0
  <2>1. PICK v : v = [u EXCEPT !.run = 0]
    OBVIOUS
  <2>2. /\ v.queue = q /\ v.run = 0 /\ v.read = s.read /\ v.reader = s.reader
        /\ v.line = s.line /\ v.transfer = s.transfer /\ v.ctrl = s.ctrl /\ v.at = s.at
    BY <1>4, <2>1 DEF FtpSessions
  <2>3. Alike(cmds, v, t)
    BY <1>2, <2>2 DEF Alike
  <2>4. Owed(cmds, t, a \o <<h>>, k)
    BY <1>4, <1>5, <1>7, <2>1, <2>3, AnswersRun
  <2>5. a \o <<h>> \in Seq(Nat)
    OBVIOUS
  <2> QED BY <1>2, <1>7, <2>4, <2>5
<1> QED BY <1>6, <1>7

(* The commands: one that ends the connection, one that is answered at      *)
(* once, and one that sets up a data channel.                               *)
LEMMA CommandSteps ==
    ASSUME FtpInv, NEW c \in Clients,
           Ftp!LoopEnds(c) \/ Ftp!RunsCommand(c) \/ Ftp!SetsUp(c) \/ Ftp!Opens(c)
    PROVE  FtpInv'
<1>1. PICK cmds \in Seq(Commands), s \in FtpSessions, a \in Seq(Nat), ch \in Seq(Channels), k \in Nat :
        cmds = script[c] /\ s = session[c] /\ a = answered[c] /\ ch = setup[c] /\ k = asked[c]
  BY SessionFacts
<1>2. /\ ChannelsOK(s, ch) /\ LoopOK(s) /\ Owed(cmds, s, a, k)
      /\ session \in [Clients -> FtpSessions] /\ answered \in [Clients -> Seq(Nat)]
      /\ setup \in [Clients -> Seq(Channels)] /\ asked \in [Clients -> Nat]
  BY <1>1, SessionFacts DEF SessionOK, FtpInv, FtpTypes
<1>3. /\ s.loop = "select" /\ s.at = "open" /\ s.queue # <<>> /\ UNCHANGED <<script, asked>>
  BY <1>1 DEF Ftp!LoopEnds, Ftp!RunsCommand, Ftp!SetsUp, Ftp!Opens, Ftp!Runs, Ftp!Takes, Ftp!Selecting
<1>4. PICK q \in Seq(Nat), h \in Nat : q = Tail(s.queue) /\ h = Head(s.queue)
  <2>1. s.queue \in Seq(Nat)
    BY Fields
  <2>2. Head(s.queue) \in Nat /\ Tail(s.queue) \in Seq(Nat)
    BY <1>3, <2>1
  <2> QED BY <2>2
<1>5. asked' = [asked EXCEPT ![c] = k]
  BY <1>1, <1>2, <1>3
<1>6. PICK g : g = IF h = 0 THEN a ELSE a \o <<h>>
  OBVIOUS
<1>7. ASSUME NEW t \in FtpSessions, NEW d \in Seq(Channels), session' = [session EXCEPT ![c] = t],
             answered' = [answered EXCEPT ![c] = g], setup' = [setup EXCEPT ![c] = d],
             t.queue = q, t.run = 0, t.read = s.read, t.reader = s.reader, t.line = s.line,
             t.transfer = s.transfer, t.ctrl = s.ctrl, t.at = s.at, t.loop \in {"select", "ended"},
             ChannelsOK(t, d)
      PROVE  FtpInv'
  <2>1. g \in Seq(Nat) /\ Owed(cmds, t, g, k)
    BY <1>2, <1>3, <1>4, <1>6, <1>7, TakesAndAnswers
  <2>2. LoopOK(t)
    BY <1>2, <1>3, <1>7 DEF LoopOK
  <2>3. SessionOK(cmds, t, g, d, k)
    BY <1>7, <2>1, <2>2 DEF SessionOK
  <2>4. Changes(c, t, g, d, k)
    BY <1>3, <1>5, <1>7 DEF Changes
  <2> QED BY <1>1, <2>1, <2>3, <2>4, OneChanges
<1>8. CASE Ftp!LoopEnds(c)
  <2>1. PICK t : t = [s EXCEPT !.queue = q, !.loop = "ended"]
    OBVIOUS
  <2>2. /\ t \in FtpSessions /\ t.queue = q /\ t.run = 0 /\ t.read = s.read /\ t.reader = s.reader /\ t.line = s.line
        /\ t.transfer = s.transfer /\ t.ctrl = s.ctrl /\ t.at = s.at /\ t.loop = "ended" /\ t.mode = s.mode
    <3>1. s.run = 0
      BY <1>2, <1>3 DEF LoopOK
    <3> QED BY <2>1, <3>1 DEF FtpSessions
  <2>3. /\ session' = [session EXCEPT ![c] = t] /\ setup' = [setup EXCEPT ![c] = ch]
        /\ answered' = [answered EXCEPT ![c] = g]
    <3>1. session' = [session EXCEPT ![c] = t] /\ setup' = setup
      BY <1>1, <1>4, <1>8, <2>1 DEF Ftp!LoopEnds, Ftp!Becomes, Ftp!Ends
    <3>2. answered' = [answered EXCEPT ![c] = g]
      <4>1. CASE h = 0
        BY <4>1, <1>1, <1>2, <1>4, <1>6, <1>8 DEF Ftp!LoopEnds, Ftp!TimedOut
      <4>2. CASE h # 0
        BY <4>2, <1>1, <1>2, <1>4, <1>6, <1>8 DEF Ftp!LoopEnds, Ftp!TimedOut, Ftp!Answers
      <4> QED BY <4>1, <4>2
    <3>3. setup' = [setup EXCEPT ![c] = ch]
      BY <1>1, <1>2, <3>1
    <3> QED BY <3>1, <3>2, <3>3
  <2>4. ChannelsOK(t, ch)
    BY <1>2, <1>3, <2>2 DEF ChannelsOK
  <2> QED BY <1>7, <2>2, <2>3, <2>4
<1>9. CASE Ftp!RunsCommand(c)
  <2>1. PICK l \in BOOLEAN, e \in {"select", "ended"} :
          session' = [session EXCEPT ![c] = [s EXCEPT !.queue = q, !.loop = e, !.login = l]]
    <3>1. s.login \in BOOLEAN
      BY Fields
    <3>2. \/ session' = [session EXCEPT ![c] = [s EXCEPT !.queue = q, !.loop = "ended"]]
          \/ session' = [session EXCEPT ![c] = [[s EXCEPT !.queue = q] EXCEPT !.login = s.login \/ cmds[h] = "LOGIN"]]
      <4>1. [s EXCEPT !.queue = q].login = s.login
        BY DEF FtpSessions
      <4> QED BY <4>1, <1>1, <1>4, <1>9 DEF Ftp!RunsCommand, Ftp!Becomes, Ftp!Ends, Ftp!Goes, Ftp!Name
    <3>3. [s EXCEPT !.queue = q, !.loop = "ended"] = [s EXCEPT !.queue = q, !.loop = "ended", !.login = s.login]
      BY DEF FtpSessions
    <3>4. ASSUME NEW l \in BOOLEAN
          PROVE  [[s EXCEPT !.queue = q] EXCEPT !.login = l] = [s EXCEPT !.queue = q, !.loop = "select", !.login = l]
      BY <1>3 DEF FtpSessions
    <3>5. (s.login \/ cmds[h] = "LOGIN") \in BOOLEAN
      OBVIOUS
    <3> QED BY <3>1, <3>2, <3>3, <3>4, <3>5
  <2>2. PICK t : t = [s EXCEPT !.queue = q, !.loop = e, !.login = l]
    OBVIOUS
  <2>3. /\ t \in FtpSessions /\ t.queue = q /\ t.run = 0 /\ t.read = s.read /\ t.reader = s.reader /\ t.line = s.line
        /\ t.transfer = s.transfer /\ t.ctrl = s.ctrl /\ t.at = s.at /\ t.loop = e /\ t.mode = s.mode
    <3>1. s.run = 0
      BY <1>2, <1>3 DEF LoopOK
    <3> QED BY <2>2, <3>1 DEF FtpSessions
  <2>4. setup' = setup /\ answered' = [answered EXCEPT ![c] = a \o <<h>>] /\ h # 0
    BY <1>1, <1>4, <1>9 DEF Ftp!RunsCommand, Ftp!Runs, Ftp!TimedOut, Ftp!Answers
  <2>5. setup' = [setup EXCEPT ![c] = ch] /\ answered' = [answered EXCEPT ![c] = g]
    BY <1>1, <1>2, <1>6, <2>4
  <2>6. ChannelsOK(t, ch)
    BY <1>2, <1>3, <2>3 DEF ChannelsOK
  <2> QED BY <1>7, <2>1, <2>2, <2>3, <2>5, <2>6
<1>10. CASE Ftp!SetsUp(c)
  <2>1. PICK n \in Nat : n = Len(ch)
    OBVIOUS
  <2>2. PICK t : t = [s EXCEPT !.queue = q, !.mode = n + 1]
    OBVIOUS
  <2>3. /\ t \in FtpSessions /\ t.queue = q /\ t.run = 0 /\ t.read = s.read /\ t.reader = s.reader /\ t.line = s.line
        /\ t.transfer = s.transfer /\ t.ctrl = s.ctrl /\ t.at = s.at /\ t.loop = "select" /\ t.mode = n + 1
    <3>1. s.run = 0
      BY <1>2, <1>3 DEF LoopOK
    <3>2. n + 1 \in Nat
      OBVIOUS
    <3> QED BY <1>3, <2>2, <3>1, <3>2 DEF FtpSessions
  <2>4. PICK d : d = Ftp!Drained(c)
    OBVIOUS
  <2>5. /\ session' = [session EXCEPT ![c] = t]
        /\ setup' = [setup EXCEPT ![c] = Append(d, Ftp!Channel("open"))]
        /\ answered' = [answered EXCEPT ![c] = a \o <<h>>] /\ h # 0
    <3>1. [[s EXCEPT !.queue = q] EXCEPT !.mode = n + 1] = t
      BY <2>2 DEF FtpSessions
    <3> QED BY <3>1, <1>1, <1>4, <1>10, <2>1, <2>4
          DEF Ftp!SetsUp, Ftp!Runs, Ftp!TimedOut, Ftp!Answers, Ftp!Becomes, Ftp!Goes
  <2>6. d \in Seq(Channels) /\ Len(d) = n /\ \A i \in 1 .. Len(d) : d[i].holds \in {0, i} /\ Drains(d[i])
    <3>1. d = LastDrained(ch)
      BY <1>1, <2>4, DrainedIsLastDrained
    <3>2. \A i \in 1 .. Len(ch) : ch[i].holds \in {0, i} /\ (i < Len(ch) => Drains(ch[i]))
      BY <1>2 DEF ChannelsOK
    <3> QED BY <3>1, <3>2, <2>1, DrainsLast
  <2>7. PICK f \in Seq(Channels) : f = Append(d, Ftp!Channel("open"))
    BY <2>6, OneMoreChannel
  <2>8. /\ Len(f) = n + 1
        /\ \A i \in 1 .. Len(f) : f[i].holds \in {0, i} /\ (i < Len(f) => Drains(f[i]))
    BY <2>6, <2>7, OneMoreChannel
  <2>9. ChannelsOK(t, f)
    BY <1>3, <2>3, <2>8 DEF ChannelsOK
  <2>10. answered' = [answered EXCEPT ![c] = g]
    BY <1>6, <2>5
  <2> QED BY <1>7, <2>3, <2>5, <2>7, <2>9, <2>10
<1>11. CASE Ftp!Opens(c) /\ s.mode = 0
  <2>1. PICK t : t = [s EXCEPT !.queue = q]
    OBVIOUS
  <2>2. /\ t \in FtpSessions /\ t.queue = q /\ t.run = 0 /\ t.read = s.read /\ t.reader = s.reader /\ t.line = s.line
        /\ t.transfer = s.transfer /\ t.ctrl = s.ctrl /\ t.at = s.at /\ t.loop = "select" /\ t.mode = s.mode
    <3>1. s.run = 0
      BY <1>2, <1>3 DEF LoopOK
    <3> QED BY <1>3, <2>1, <3>1 DEF FtpSessions
  <2>3. /\ session' = [session EXCEPT ![c] = t] /\ setup' = setup
        /\ answered' = [answered EXCEPT ![c] = a \o <<h>>] /\ h # 0
    BY <1>1, <1>4, <1>11, <2>1 DEF Ftp!Opens, Ftp!Runs, Ftp!TimedOut, Ftp!Answers, Ftp!Becomes, Ftp!Goes
  <2>4. setup' = [setup EXCEPT ![c] = ch] /\ answered' = [answered EXCEPT ![c] = g]
    BY <1>1, <1>2, <1>6, <2>3
  <2>5. ChannelsOK(t, ch)
    BY <1>2, <1>3, <2>2 DEF ChannelsOK
  <2> QED BY <1>7, <2>2, <2>3, <2>4, <2>5
<1>12. CASE Ftp!Opens(c) /\ s.mode # 0
  <2>1. PICK t : t = [s EXCEPT !.queue = q, !.loop = "opens", !.run = h]
    OBVIOUS
  <2>2. /\ t \in FtpSessions /\ t.run = h /\ t.transfer = s.transfer /\ t.at = s.at
        /\ t.loop = "opens" /\ t.mode = s.mode
    BY <2>1 DEF FtpSessions
  <2>3. /\ session' = [session EXCEPT ![c] = t] /\ setup' = setup /\ answered' = answered /\ h # 0
    <3>1. [[s EXCEPT !.queue = q] EXCEPT !.loop = "opens", !.run = h] = t
      BY <2>1 DEF FtpSessions
    <3> QED BY <3>1, <1>1, <1>4, <1>12 DEF Ftp!Opens, Ftp!Runs, Ftp!TimedOut, Ftp!Becomes, Ftp!Goes
  <2>4. Owed(cmds, t, a, k)
    <3>1. s.run = 0 /\ s.transfer.aborted = 0
      BY <1>2, <1>3 DEF LoopOK
    <3>2. t = [s EXCEPT !.queue = Tail(s.queue), !.run = Head(s.queue), !.loop = t.loop]
      BY <1>4, <2>1, <2>2 DEF FtpSessions
    <3> QED BY <1>2, <1>3, <2>2, <3>1, <3>2, TakesHead
  <2>5. ChannelsOK(t, ch) /\ LoopOK(t)
    BY <1>2, <1>3, <1>12, <2>2, <2>3 DEF ChannelsOK, LoopOK
  <2>6. SessionOK(cmds, t, a, ch, k)
    BY <2>4, <2>5 DEF SessionOK
  <2>7. Changes(c, t, a, ch, k)
    BY <1>1, <1>2, <1>3, <1>5, <2>3 DEF Changes
  <2> QED BY <1>1, <2>2, <2>6, <2>7, OneChanges
<1> QED BY <1>8, <1>9, <1>10, <1>11, <1>12
(* A connection is accepted or refused; its client sends a command.         *)
LEMMA Arrivals == ASSUME FtpInv, NEW c \in Clients, Ftp!Accepts(c) \/ Ftp!Asks(c) PROVE FtpInv'
<1>1. PICK cmds \in Seq(Commands), s \in FtpSessions, a \in Seq(Nat), ch \in Seq(Channels), k \in Nat :
        cmds = script[c] /\ s = session[c] /\ a = answered[c] /\ ch = setup[c] /\ k = asked[c]
  BY SessionFacts
<1>2. /\ ChannelsOK(s, ch) /\ LoopOK(s) /\ Owed(cmds, s, a, k) /\ Len(cmds) \in Nat
      /\ session = [session EXCEPT ![c] = s] /\ answered = [answered EXCEPT ![c] = a]
      /\ setup = [setup EXCEPT ![c] = ch] /\ asked = [asked EXCEPT ![c] = k]
  BY <1>1, SessionFacts DEF SessionOK
<1>3. CASE Ftp!Accepts(c)
  <2>1. PICK t : /\ session' = [session EXCEPT ![c] = t]
                 /\ \/ t = [Ftp!Unborn EXCEPT !.at = "accepted"]
                    \/ t = [Ftp!Unborn EXCEPT !.at = "gone", !.ctrl = "closed"]
    BY <1>3 DEF Ftp!Accepts, Ftp!Becomes
  <2>2. /\ t \in FtpSessions /\ t.at \in {"accepted", "gone"} /\ t.read = 0 /\ t.queue = <<>> /\ t.run = 0
        /\ t.reader = "reads" /\ t.transfer = Ftp!NoTransfer /\ t.mode = 0 /\ t.loop = "select"
    <3>1. Ftp!Unborn \in FtpSessions
      BY DEF FtpSessions, Ftp!Unborn, Ftp!NoTransfer
    <3>2. /\ Ftp!Unborn.read = 0 /\ Ftp!Unborn.queue = <<>> /\ Ftp!Unborn.run = 0 /\ Ftp!Unborn.mode = 0
          /\ Ftp!Unborn.reader = "reads" /\ Ftp!Unborn.transfer = Ftp!NoTransfer /\ Ftp!Unborn.loop = "select"
      BY DEF Ftp!Unborn
    <3> HIDE DEF Ftp!Unborn
    <3> QED BY <2>1, <3>1, <3>2, ZenonT(30) DEF FtpSessions
  <2>3. /\ UNCHANGED <<script, setup, answered, asked>> /\ s.at = "none"
    BY <1>1, <1>3 DEF Ftp!Accepts
  <2>4. a = <<>> /\ ch = <<>> /\ k <= Len(cmds)
    BY <1>2, <2>3 DEF Owed, AnswersOK, ChannelsOK
  <2>5. Owed(cmds, t, a, k)
    BY <2>2, <2>4, NothingOwed
  <2>6. LoopOK(t) /\ ChannelsOK(t, ch)
    BY <2>2, <2>4 DEF LoopOK, ChannelsOK, Ftp!NoTransfer
  <2>7. SessionOK(cmds, t, a, ch, k) /\ Changes(c, t, a, ch, k)
    BY <1>2, <2>1, <2>3, <2>5, <2>6 DEF SessionOK, Changes
  <2> QED BY <1>1, <2>2, <2>7, OneChanges
<1>4. CASE Ftp!Asks(c)
  <2>1. PICK m \in Nat : m = k + 1
    OBVIOUS
  <2>2. k < Len(cmds) /\ asked' = [asked EXCEPT ![c] = m] /\ UNCHANGED <<script, session, setup, answered>>
    BY <1>1, <1>4, <2>1 DEF Ftp!Asks
  <2>3. Alike(cmds, s, s) /\ k <= m /\ m <= Len(cmds)
    BY <1>2, <2>1, <2>2 DEF Alike
  <2>4. Owed(cmds, s, a, m)
    BY <1>2, <2>3, AlikeOwes
  <2>5. SessionOK(cmds, s, a, ch, m) /\ Changes(c, s, a, ch, m)
    BY <1>2, <2>2, <2>4 DEF SessionOK, Changes
  <2> QED BY <1>1, <2>5, OneChanges
<1> QED BY <1>3, <1>4

(* The reader reads a line, and hands over what it offers.                  *)
LEMMA ReaderSteps == ASSUME FtpInv, NEW c \in Clients, Ftp!ReadsLine(c) \/ Ftp!HandsOver(c) PROVE FtpInv'
<1>1. PICK cmds \in Seq(Commands), s \in FtpSessions, a \in Seq(Nat), ch \in Seq(Channels), k \in Nat :
        cmds = script[c] /\ s = session[c] /\ a = answered[c] /\ ch = setup[c] /\ k = asked[c]
  BY SessionFacts
<1>2. /\ ChannelsOK(s, ch) /\ LoopOK(s) /\ Owed(cmds, s, a, k) /\ Len(cmds) \in Nat
      /\ session = [session EXCEPT ![c] = s] /\ answered = [answered EXCEPT ![c] = a]
      /\ setup = [setup EXCEPT ![c] = ch] /\ asked = [asked EXCEPT ![c] = k]
  BY <1>1, SessionFacts DEF SessionOK
<1>3. /\ s.read \in Nat /\ s.line \in Nat /\ s.transfer.aborted \in Nat /\ s.queue \in Seq(Nat)
      /\ s.transfer \in [active : BOOLEAN, aborted : Nat, data : Nat, ok : BOOLEAN]
  BY Fields DEF FtpSessions
<1>4. ASSUME NEW t \in FtpSessions, NEW g \in Seq(Nat), session' = [session EXCEPT ![c] = t],
             answered' = [answered EXCEPT ![c] = g], UNCHANGED <<script, setup, asked>>,
             t.at = s.at, t.run = s.run, t.mode = s.mode, t.loop = s.loop,
             t.transfer.active = s.transfer.active, t.transfer.data = s.transfer.data,
             t.transfer.active \/ t.transfer.aborted = s.transfer.aborted, Owed(cmds, t, g, k)
      PROVE  FtpInv'
  <2>1. ChannelsOK(t, ch) /\ LoopOK(t)
    BY <1>2, <1>4 DEF ChannelsOK, LoopOK
  <2>2. SessionOK(cmds, t, g, ch, k) /\ Changes(c, t, g, ch, k)
    BY <1>2, <1>4, <2>1 DEF SessionOK, Changes
  <2> QED BY <1>1, <1>4, <2>2, OneChanges
<1>5. CASE Ftp!ReadsLine(c)
  <2>1. PICK h \in Nat : h = s.read + 1
    BY <1>3
  <2>2. /\ s.at = "open" /\ s.reader = "reads" /\ s.ctrl # "closed" /\ s.read < k
        /\ UNCHANGED <<script, setup, asked>>
    BY <1>1, <1>5 DEF Ftp!ReadsLine, Ftp!Reading, Ftp!HasLine
  <2>3. CASE cmds[h] = "ABOR" /\ s.transfer.active
    <3>1. PICK o \in Nat : o = IF s.transfer.aborted = 0 THEN h ELSE s.transfer.aborted
      BY <1>3
    <3>2. PICK tr : tr = [s.transfer EXCEPT !.aborted = o, !.ok = FALSE]
      OBVIOUS
    <3>3. /\ tr \in [active : BOOLEAN, aborted : Nat, data : Nat, ok : BOOLEAN]
          /\ tr.active = s.transfer.active /\ tr.aborted = o /\ tr.data = s.transfer.data
      BY <1>3, <3>2
    <3>4. PICK t : t = [s EXCEPT !.read = h, !.transfer = tr]
      OBVIOUS
    <3>5. /\ t \in FtpSessions /\ t.read = h /\ t.transfer = tr /\ t.at = s.at /\ t.run = s.run /\ t.mode = s.mode
          /\ t.loop = s.loop /\ t.queue = s.queue /\ t.ctrl = s.ctrl /\ t.reader = "reads"
      BY <2>2, <3>3, <3>4 DEF FtpSessions
    <3>6. session' = [session EXCEPT ![c] = t] /\ answered' = [answered EXCEPT ![c] = a]
      <4>1. Ftp!Aborted(c, h) = tr
        BY <1>1, <3>1, <3>2 DEF Ftp!Aborted
      <4>2. Ftp!HasRead(c) = h /\ Ftp!Name(c, h) = cmds[h]
        BY <1>1, <2>1 DEF Ftp!HasRead, Ftp!Name
      <4>3. Ftp!Aborts(c)
        BY <1>1, <1>5, <2>3, <4>2 DEF Ftp!ReadsLine
      <4>4. session' = [session EXCEPT ![c] = [s EXCEPT !.read = s.read + 1, !.transfer = tr]] /\ answered' = answered
        BY <1>1, <4>1, <4>2, <4>3 DEF Ftp!Aborts, Ftp!Becomes
      <4> QED BY <1>2, <2>1, <3>4, <4>4
    <3>7. LineTaken(cmds, s, t, a, a, h)
      BY <2>3, <3>1, <3>3, <3>5 DEF LineTaken
    <3>8. Owed(cmds, t, a, k)
      BY <1>2, <2>1, <2>2, <3>5, <3>7, TakesLine
    <3> QED BY <1>4, <2>2, <2>3, <3>3, <3>5, <3>6, <3>8
  <2>4. CASE ~(cmds[h] = "ABOR" /\ s.transfer.active) /\ cmds[h] = "AUTH" /\ ~s.login
    <3>1. PICK t : t = [s EXCEPT !.read = h]
      OBVIOUS
    <3>2. /\ t \in FtpSessions /\ t.read = h /\ t.transfer = s.transfer /\ t.at = s.at /\ t.run = s.run /\ t.mode = s.mode
          /\ t.loop = s.loop /\ t.queue = s.queue /\ t.ctrl = s.ctrl /\ t.reader = "reads"
      BY <2>2, <3>1 DEF FtpSessions
    <3>3. PICK g \in Seq(Nat) : g = a \o <<h>>
      <4>1. a \o <<h>> \in Seq(Nat)
        OBVIOUS
      <4> QED BY <4>1
    <3>4. session' = [session EXCEPT ![c] = t] /\ answered' = [answered EXCEPT ![c] = g]
      <4>1. Ftp!HasRead(c) = h /\ Ftp!Name(c, h) = cmds[h]
        BY <1>1, <2>1 DEF Ftp!HasRead, Ftp!Name
      <4> QED BY <1>1, <1>5, <2>1, <2>4, <3>1, <3>3, <4>1 DEF Ftp!ReadsLine, Ftp!Answers, Ftp!Becomes
    <3>5. LineTaken(cmds, s, t, a, g, h)
      BY <2>4, <3>2, <3>3 DEF LineTaken
    <3>6. Owed(cmds, t, g, k)
      BY <1>2, <2>1, <2>2, <3>2, <3>5, TakesLine
    <3> QED BY <1>4, <2>2, <3>2, <3>4, <3>6
  <2>5. CASE ~(cmds[h] = "ABOR" /\ s.transfer.active) /\ ~(cmds[h] = "AUTH" /\ ~s.login)
    <3>1. PICK t : t = [s EXCEPT !.read = h, !.reader = "offers", !.line = h]
      OBVIOUS
    <3>2. /\ t \in FtpSessions /\ t.read = h /\ t.transfer = s.transfer /\ t.at = s.at /\ t.run = s.run /\ t.mode = s.mode
          /\ t.loop = s.loop /\ t.queue = s.queue /\ t.ctrl = s.ctrl /\ t.reader = "offers" /\ t.line = h
      BY <2>2, <3>1 DEF FtpSessions
    <3>3. session' = [session EXCEPT ![c] = t] /\ answered' = answered
      <4>1. Ftp!HasRead(c) = h /\ Ftp!Name(c, h) = cmds[h]
        BY <1>1, <2>1 DEF Ftp!HasRead, Ftp!Name
      <4> QED BY <1>1, <1>5, <2>1, <2>5, <3>1, <4>1 DEF Ftp!ReadsLine, Ftp!Becomes
    <3>4. answered' = [answered EXCEPT ![c] = a]
      BY <1>2, <3>3
    <3>5. LineTaken(cmds, s, t, a, a, h)
      BY <3>2 DEF LineTaken
    <3>6. Owed(cmds, t, a, k)
      BY <1>2, <2>1, <2>2, <3>2, <3>5, TakesLine
    <3> QED BY <1>4, <2>2, <3>2, <3>3, <3>4, <3>6
  <2> QED BY <2>3, <2>4, <2>5
<1>6. CASE Ftp!HandsOver(c)
  <2>1. PICK e \in {"ended", "reads"} :
          session' = [session EXCEPT ![c] = [s EXCEPT !.queue = Append(@, s.line), !.reader = e]]
    BY <1>1, <1>6 DEF Ftp!HandsOver, Ftp!Becomes
  <2>2. PICK t : t = [s EXCEPT !.queue = Append(@, s.line), !.reader = e]
    OBVIOUS
  <2>3. s.at = "open" /\ s.reader = "offers" /\ UNCHANGED <<script, setup, answered, asked>>
    BY <1>1, <1>6 DEF Ftp!HandsOver
  <2>4. /\ t \in FtpSessions /\ t.transfer = s.transfer /\ t.at = s.at /\ t.run = s.run /\ t.mode = s.mode
        /\ t.loop = s.loop /\ t.reader = e
    <3>1. Append(s.queue, s.line) \in Seq(Nat)
      BY <1>3
    <3> QED BY <2>2, <3>1 DEF FtpSessions
  <2>5. Owed(cmds, t, a, k)
    BY <1>2, <2>2, <2>3, <2>4, HandsLine, ZenonT(30)
  <2>6. answered' = [answered EXCEPT ![c] = a]
    BY <1>2, <2>3
  <2> QED BY <1>4, <2>1, <2>2, <2>3, <2>4, <2>5, <2>6
<1> QED BY <1>5, <1>6
(* A transfer begins over the channel set up last, or times out; it ends    *)
(* and answers; the connection is unregistered.                             *)
LEMMA TransferSteps ==
    ASSUME FtpInv, NEW c \in Clients,
           Ftp!Begins(c) \/ Ftp!DataTimesOut(c) \/ Ftp!EndsTransfer(c) \/ Ftp!Unregisters(c)
    PROVE  FtpInv'
<1>1. PICK cmds \in Seq(Commands), s \in FtpSessions, a \in Seq(Nat), ch \in Seq(Channels), k \in Nat :
        cmds = script[c] /\ s = session[c] /\ a = answered[c] /\ ch = setup[c] /\ k = asked[c]
  BY SessionFacts
<1>2. /\ ChannelsOK(s, ch) /\ LoopOK(s) /\ Owed(cmds, s, a, k) /\ k <= Len(cmds)
      /\ session = [session EXCEPT ![c] = s] /\ answered = [answered EXCEPT ![c] = a]
      /\ setup = [setup EXCEPT ![c] = ch] /\ asked = [asked EXCEPT ![c] = k]
  BY <1>1, SessionFacts DEF SessionOK, Owed, AnswersOK
<1>3. /\ s.run \in Nat /\ s.transfer.aborted \in Nat /\ s.transfer.active \in BOOLEAN
  BY Fields
<1>4. ASSUME NEW t \in FtpSessions, NEW g \in Seq(Nat), NEW d \in Seq(Channels), session' = [session EXCEPT ![c] = t],
             answered' = [answered EXCEPT ![c] = g], setup' = [setup EXCEPT ![c] = d], UNCHANGED <<script, asked>>,
             ChannelsOK(t, d), LoopOK(t), Owed(cmds, t, g, k)
      PROVE  FtpInv'
  <2>1. SessionOK(cmds, t, g, d, k) /\ Changes(c, t, g, d, k)
    BY <1>2, <1>4 DEF SessionOK, Changes
  <2> QED BY <1>1, <1>4, <2>1, OneChanges
<1>5. PICK n \in Nat, d \in Seq(Channels) :
        /\ n = Len(ch) /\ d = Ftp!Drained(c) /\ Len(d) = n
        /\ \A i \in 1 .. n : d[i].holds \in {0, i} /\ Drains(d[i])
        /\ n # 0 => d[n].holds = 0
  <2>1. Ftp!Drained(c) = LastDrained(ch)
    BY <1>1, DrainedIsLastDrained
  <2>2. \A i \in 1 .. Len(ch) : ch[i].holds \in {0, i} /\ (i < Len(ch) => Drains(ch[i]))
    BY <1>2 DEF ChannelsOK
  <2>3. Len(ch) \in Nat
    OBVIOUS
  <2> QED BY <2>1, <2>2, <2>3, DrainsLast
<1>6. n = 0 => d = <<>>
  BY <1>5
<1>7. CASE Ftp!Begins(c)
  <2>1. /\ s.loop = "opens" /\ UNCHANGED <<script, asked, answered>>
        /\ s.mode = n /\ n # 0 /\ s.at = "open"
    BY <1>1, <1>2, <1>5, <1>7 DEF Ftp!Begins, ChannelsOK
  <2>2. n \in 1 .. Len(ch) /\ ch[n] \in Channels
    BY <1>5, <2>1
  <2>3. ch[n].holds = n
    BY <1>1, <1>2, <1>7, <2>1, <2>2 DEF Ftp!Begins, ChannelsOK
  <2>4. PICK tr : tr = [Ftp!NoTransfer EXCEPT !.active = TRUE, !.data = n]
    OBVIOUS
  <2>5. tr \in [active : BOOLEAN, aborted : Nat, data : Nat, ok : BOOLEAN] /\ tr.active = TRUE /\ tr.aborted = 0 /\ tr.data = n
    BY <2>4 DEF Ftp!NoTransfer
  <2>6. PICK t : t = [s EXCEPT !.loop = "moves", !.mode = 0, !.transfer = tr]
    OBVIOUS
  <2>7. /\ t \in FtpSessions /\ t.loop = "moves" /\ t.mode = 0 /\ t.transfer = tr /\ t.read = s.read /\ t.queue = s.queue
        /\ t.run = s.run /\ t.reader = s.reader /\ t.line = s.line /\ t.ctrl = s.ctrl /\ t.at = s.at
    BY <2>5, <2>6 DEF FtpSessions
  <2>8. PICK f : f = [d EXCEPT ![n].holds = 0]
    OBVIOUS
  <2>9. f \in Seq(Channels) /\ Len(f) = n /\ \A i \in 1 .. n : f[i].holds \in {0, i} /\ Drains(f[i])
    <3>1. PICK w \in Channels : w = d[n]
      BY <1>5, <2>2
    <3>2. PICK x : x = [w EXCEPT !.holds = 0]
      OBVIOUS
    <3>3. x = w
      BY <1>5, <2>1, <3>1, <3>2 DEF Channels
    <3>4. f = [d EXCEPT ![n] = x]
      BY <2>8, <3>1, <3>2
    <3>5. f = d
      BY <1>5, <3>1, <3>3, <3>4
    <3> QED BY <1>5, <3>5
  <2>10. session' = [session EXCEPT ![c] = t] /\ setup' = [setup EXCEPT ![c] = f]
    <3>1. setup' = [setup EXCEPT ![c] = f]
      BY <1>1, <1>5, <1>7, <2>1, <2>8 DEF Ftp!Begins
    <3>2. session' = [session EXCEPT ![c] = t]
      BY <1>1, <1>7, <2>1, <2>3, <2>4, <2>6 DEF Ftp!Begins, Ftp!Becomes
    <3> QED BY <3>1, <3>2
  <2>11. answered' = [answered EXCEPT ![c] = a]
    BY <1>2, <2>1
  <2>12. ChannelsOK(t, f)
    BY <2>1, <2>5, <2>7, <2>9 DEF ChannelsOK
  <2>13. LoopOK(t) /\ Alike(cmds, s, t)
    <3>1. s.transfer.aborted = 0 /\ s.run # 0
      BY <1>2, <2>1 DEF LoopOK
    <3> QED BY <3>1, <2>5, <2>7 DEF LoopOK, Alike
  <2>14. Owed(cmds, t, a, k)
    BY <1>2, <2>7, <2>13, AlikeOwes
  <2> QED BY <1>4, <2>1, <2>7, <2>9, <2>10, <2>11, <2>12, <2>13, <2>14
<1>8. CASE Ftp!DataTimesOut(c)
  <2>1. PICK t : t = [s EXCEPT !.loop = "select", !.mode = 0, !.run = 0]
    OBVIOUS
  <2>2. /\ session' = [session EXCEPT ![c] = t] /\ setup' = [setup EXCEPT ![c] = d] /\ s.loop = "opens"
        /\ answered' = [answered EXCEPT ![c] = a \o <<s.run>>] /\ UNCHANGED <<script, asked>>
    BY <1>1, <1>5, <1>8, <2>1 DEF Ftp!DataTimesOut, Ftp!Becomes, Ftp!Answers
  <2>3. /\ t \in FtpSessions /\ t.loop = "select" /\ t.mode = 0 /\ t.transfer = s.transfer /\ t.read = s.read /\ t.queue = s.queue
        /\ t.run = 0 /\ t.reader = s.reader /\ t.line = s.line /\ t.ctrl = s.ctrl /\ t.at = s.at
    BY <2>1 DEF FtpSessions
  <2>4. s.at = "open" /\ s.run # 0 /\ LoopOK(t)
    BY <1>2, <2>2, <2>3 DEF ChannelsOK, LoopOK
  <2>5. PICK v : v = [s EXCEPT !.run = 0]
    OBVIOUS
  <2>6. Alike(cmds, v, t)
    <3>1. /\ v.transfer = s.transfer /\ v.read = s.read /\ v.queue = s.queue
          /\ v.run = 0 /\ v.reader = s.reader /\ v.line = s.line /\ v.ctrl = s.ctrl /\ v.at = s.at
      BY <2>5 DEF FtpSessions
    <3> QED BY <2>3, <3>1 DEF Alike
  <2>7. Owed(cmds, t, a \o <<s.run>>, k)
    BY <1>2, <2>3, <2>4, <2>5, <2>6, AnswersRun
  <2>8. a \o <<s.run>> \in Seq(Nat)
    BY <1>3
  <2>9. ChannelsOK(t, d)
    BY <1>5, <2>3, <2>4 DEF ChannelsOK
  <2> QED BY <1>4, <2>2, <2>3, <2>4, <2>7, <2>8, <2>9
<1>9. CASE Ftp!EndsTransfer(c)
  <2>1. PICK t : t = [s EXCEPT !.loop = "select", !.run = 0, !.transfer = Ftp!NoTransfer]
    OBVIOUS
  <2>2. /\ session' = [session EXCEPT ![c] = t] /\ setup' = setup /\ s.loop = "moved" /\ UNCHANGED <<script, asked>>
    BY <1>1, <1>9, <2>1 DEF Ftp!EndsTransfer, Ftp!Becomes
  <2>3. /\ t \in FtpSessions /\ t.loop = "select" /\ t.mode = s.mode /\ t.transfer = Ftp!NoTransfer /\ t.read = s.read
        /\ t.queue = s.queue /\ t.run = 0 /\ t.reader = s.reader /\ t.line = s.line /\ t.ctrl = s.ctrl /\ t.at = s.at
    <3>1. Ftp!NoTransfer \in [active : BOOLEAN, aborted : Nat, data : Nat, ok : BOOLEAN]
      BY DEF Ftp!NoTransfer
    <3> QED BY <2>1, <3>1 DEF FtpSessions
  <2>4. s.at = "open" /\ s.run # 0 /\ s.transfer.active
    BY <1>2, <2>2 DEF ChannelsOK, LoopOK
  <2>5. ~Ftp!NoTransfer.active /\ Ftp!NoTransfer.aborted = 0
    BY DEF Ftp!NoTransfer
  <2>6. PICK b \in Seq(Nat) : b = a \o <<s.run>>
    <3>1. a \o <<s.run>> \in Seq(Nat)
      BY <1>3
    <3> QED BY <3>1
  <2>7. PICK v : v = [s EXCEPT !.run = 0]
    OBVIOUS
  <2>8. /\ v \in FtpSessions /\ v.transfer = s.transfer /\ v.read = s.read /\ v.queue = s.queue
        /\ v.run = 0 /\ v.reader = s.reader /\ v.line = s.line /\ v.ctrl = s.ctrl /\ v.at = s.at
        /\ t = [v EXCEPT !.transfer = t.transfer, !.loop = t.loop]
    <3>1. t = [[s EXCEPT !.run = 0] EXCEPT !.transfer = t.transfer, !.loop = t.loop]
      BY <2>1, <2>3 DEF FtpSessions
    <3> QED BY <2>7, <3>1 DEF FtpSessions
  <2>9. Alike(cmds, v, v)
    BY DEF Alike
  <2>10. Owed(cmds, v, b, k)
    BY <1>2, <2>4, <2>6, <2>7, <2>8, <2>9, AnswersRun
  <2>11. DOMAIN cmds = 1 .. Len(cmds) /\ Len(cmds) \in Nat /\ 0 \notin 1 .. Len(cmds)
    OBVIOUS
  <2>12. ChannelsOK(t, ch) /\ LoopOK(t)
    BY <1>2, <2>3, <2>4, <2>5 DEF ChannelsOK, LoopOK
  <2>13. setup' = [setup EXCEPT ![c] = ch]
    BY <1>2, <2>2
  <2>14. CASE s.transfer.aborted \in 1 .. Len(cmds)
    <3>1. PICK g \in Seq(Nat) : g = b \o <<s.transfer.aborted>>
      <4>1. b \o <<s.transfer.aborted>> \in Seq(Nat)
        BY <1>3
      <4> QED BY <4>1
    <3>2. Owed(cmds, t, g, k)
      BY <2>3, <2>4, <2>5, <2>8, <2>10, <2>14, <3>1, AnswersAborted
    <3>3. answered' = [answered EXCEPT ![c] = g]
      <4>1. answered' = [answered EXCEPT ![c] = a \o (<<s.run>> \o <<s.transfer.aborted>>)]
        BY <1>1, <1>9, <2>11, <2>14 DEF Ftp!EndsTransfer, Ftp!Answers
      <4>2. a \o (<<s.run>> \o <<s.transfer.aborted>>) = (a \o <<s.run>>) \o <<s.transfer.aborted>>
        BY <1>3
      <4> QED BY <4>1, <4>2, <2>6, <3>1
    <3> QED BY <1>4, <2>2, <2>3, <2>12, <2>13, <3>2, <3>3
  <2>15. CASE s.transfer.aborted \notin 1 .. Len(cmds)
    <3>1. Alike(cmds, v, t)
      BY <2>3, <2>5, <2>8, <2>15 DEF Alike
    <3>2. Owed(cmds, t, b, k)
      BY <1>2, <2>3, <2>8, <2>10, <3>1, AlikeOwes
    <3>3. answered' = [answered EXCEPT ![c] = b]
      <4>1. answered' = [answered EXCEPT ![c] = a \o (<<s.run>> \o <<>>)]
        BY <1>1, <1>9, <2>11, <2>15 DEF Ftp!EndsTransfer, Ftp!Answers
      <4>2. <<s.run>> \o <<>> = <<s.run>>
        BY <1>3
      <4> QED BY <4>1, <4>2, <2>6
    <3> QED BY <1>4, <2>2, <2>3, <2>12, <2>13, <3>2, <3>3
  <2> QED BY <2>14, <2>15
<1>10. CASE Ftp!Unregisters(c)
  <2>1. PICK t : t = [s EXCEPT !.at = "gone", !.ctrl = "closed", !.mode = 0]
    OBVIOUS
  <2>2. /\ session' = [session EXCEPT ![c] = t] /\ setup' = [setup EXCEPT ![c] = d]
        /\ s.loop = "ended" /\ UNCHANGED <<script, asked, answered>>
    BY <1>1, <1>5, <1>10, <2>1 DEF Ftp!Unregisters, Ftp!Becomes
  <2>3. /\ t \in FtpSessions /\ t.loop = "ended" /\ t.mode = 0 /\ t.transfer = s.transfer /\ t.read = s.read
        /\ t.queue = s.queue /\ t.run = s.run /\ t.reader = s.reader /\ t.line = s.line /\ t.ctrl = "closed" /\ t.at = "gone"
    BY <2>1, <2>2 DEF FtpSessions
  <2>4. LoopOK(t) /\ ChannelsOK(t, d) /\ Alike(cmds, s, t)
    <3>1. LoopOK(t)
      BY <1>2, <2>2, <2>3 DEF LoopOK
    <3>2. ChannelsOK(t, d)
      BY <1>5, <2>3 DEF ChannelsOK
    <3>3. Alike(cmds, s, t)
      BY <2>3 DEF Alike
    <3> QED BY <3>1, <3>2, <3>3
  <2>5. Owed(cmds, t, a, k)
    BY <1>2, <2>3, <2>4, AlikeOwes
  <2>6. answered' = [answered EXCEPT ![c] = a]
    BY <1>2, <2>2
  <2> QED BY <1>4, <2>2, <2>3, <2>4, <2>5, <2>6
<1> QED BY <1>7, <1>8, <1>9, <1>10

(* The client connects, and the acceptor hands the connection over.         *)
LEMMA AcceptorSteps ==
    ASSUME FtpInv, NEW c \in Clients, NEW n \in 1 .. Len(setup[c]), Ftp!Connects(c, n) \/ Ftp!Puts(c, n)
    PROVE  FtpInv'
<1>1. PICK cmds \in Seq(Commands), s \in FtpSessions, a \in Seq(Nat), ch \in Seq(Channels), k \in Nat :
        cmds = script[c] /\ s = session[c] /\ a = answered[c] /\ ch = setup[c] /\ k = asked[c]
  BY SessionFacts
<1>2. /\ ChannelsOK(s, ch) /\ LoopOK(s) /\ Owed(cmds, s, a, k)
      /\ session = [session EXCEPT ![c] = s] /\ answered = [answered EXCEPT ![c] = a]
      /\ asked = [asked EXCEPT ![c] = k]
  BY <1>1, SessionFacts DEF SessionOK
<1>3. PICK x : /\ \/ /\ ch[n].listener = "open"
                     /\ x = [ch[n] EXCEPT !.listener = "closed", !.acceptor = "puts"]
                  \/ /\ ch[n].acceptor = "puts"
                     /\ x = [ch[n] EXCEPT !.acceptor = "done", !.holds = n]
               /\ setup' = [setup EXCEPT ![c] = [ch EXCEPT ![n] = x]]
  BY <1>1 DEF Ftp!Connects, Ftp!Puts
<1>4. PICK d : d = [ch EXCEPT ![n] = x]
  OBVIOUS
<1>5. d \in Seq(Channels) /\ ChannelsOK(s, d)
  BY <1>1, <1>2, <1>3, <1>4, AcceptorGoes
<1>6. UNCHANGED <<script, session, answered, asked>>
  BY DEF Ftp!Connects, Ftp!Puts
<1>7. SessionOK(cmds, s, a, d, k) /\ Changes(c, s, a, d, k)
  BY <1>2, <1>3, <1>4, <1>5, <1>6 DEF SessionOK, Changes
<1> QED BY <1>1, <1>5, <1>7, OneChanges

-----------------------------------------------------------------------------
(* The invariant holds at first and every step of the server keeps it.      *)
LEMMA FtpInit == Ftp!Init => FtpInv
<1> SUFFICES ASSUME Ftp!Init PROVE FtpInv
  OBVIOUS
<1>1. script \in [Clients -> Seq(Commands)] /\ script \in Scripts
  BY ServersAssumption DEF Ftp!Init, Commands
<1>2. FtpTypes
  BY <1>1 DEF FtpTypes, Ftp!Init, Ftp!Unborn, Ftp!NoTransfer, FtpSessions
<1>3. ASSUME NEW c \in Clients
      PROVE  SessionOK(script[c], session[c], answered[c], setup[c], asked[c])
  <2>1. PICK cmds \in Seq(Commands) : cmds = script[c]
    BY <1>1
  <2>2. PICK s \in FtpSessions : s = session[c]
    BY <1>2 DEF FtpTypes
  <2>3. /\ s.at = "none" /\ s.read = 0 /\ s.queue = <<>> /\ s.run = 0 /\ s.reader = "reads"
        /\ s.transfer = Ftp!NoTransfer /\ s.mode = 0 /\ s.loop = "select"
    BY <2>2 DEF Ftp!Init, Ftp!Unborn
  <2>4. answered[c] = <<>> /\ setup[c] = <<>> /\ asked[c] = 0
    BY DEF Ftp!Init
  <2>5. 0 <= Len(cmds)
    OBVIOUS
  <2>6. Owed(cmds, s, <<>>, 0)
    BY <2>3, <2>5, NothingOwed
  <2>7. LoopOK(s) /\ ChannelsOK(s, <<>>)
    BY <2>3 DEF LoopOK, ChannelsOK, Ftp!NoTransfer
  <2> QED BY <2>1, <2>2, <2>4, <2>6, <2>7 DEF SessionOK
<1> QED BY <1>2, <1>3 DEF FtpInv

LEMMA FtpStep == FtpInv /\ [Ftp!Next]_(Ftp!vars) => FtpInv'
<1> SUFFICES ASSUME FtpInv, [Ftp!Next]_(Ftp!vars) PROVE FtpInv'
  OBVIOUS
<1>1. CASE UNCHANGED <<script, session, setup, asked, answered>>
  BY <1>1 DEF FtpInv, FtpTypes
<1>2. CASE UNCHANGED Ftp!vars
  BY <1>1, <1>2 DEF Ftp!vars
<1>3. ASSUME NEW c \in Clients,
             \/ Ftp!Accepts(c) \/ Ftp!Registers(c) \/ Ftp!Asks(c) \/ Ftp!Leaves(c) \/ Ftp!Reader(c)
             \/ Ftp!ReadTimesOut(c) \/ Ftp!Loop(c) \/ Ftp!Moves(c) \/ Ftp!DataTimesOut(c)
      PROVE  FtpInv'
  BY <1>3, QuietActions, CommandSteps, Arrivals, ReaderSteps, TransferSteps DEF Ftp!Reader, Ftp!Loop
<1>4. CASE Ftp!Reloads
  BY <1>1, <1>4 DEF Ftp!Reloads
<1>5. CASE Ftp!ShutdownBegins
  BY <1>1, <1>5 DEF Ftp!ShutdownBegins
<1>6. CASE Ftp!Shuts
  <2>1. CASE Ftp!ShutdownListens \/ Ftp!ShutdownReturns
    BY <1>1, <2>1 DEF Ftp!ShutdownListens, Ftp!ShutdownReturns
  <2> QED BY <1>6, <2>1, QuietActions DEF Ftp!Shuts
<1> QED BY <1>2, <1>3, <1>4, <1>5, <1>6, AcceptorSteps DEF Ftp!Next

(* What it says of transfers, answers and connections that are gone.        *)
LEMMA FtpIsTrue == FtpInv => Ftp!DataIsOfItsOwnSetup /\ Ftp!OneAnswerEach /\ Ftp!NothingIsKept
<1> SUFFICES ASSUME FtpInv PROVE Ftp!DataIsOfItsOwnSetup /\ Ftp!OneAnswerEach /\ Ftp!NothingIsKept
  OBVIOUS
<1>1. Ftp!DataIsOfItsOwnSetup
  BY DEF Ftp!DataIsOfItsOwnSetup, FtpInv, SessionOK, ChannelsOK
<1>2. Ftp!NothingIsKept
  <2> SUFFICES ASSUME NEW c \in Clients, session[c].at = "gone", NEW n \in DOMAIN setup[c]
               PROVE  setup[c][n].listener = "closed" /\ (setup[c][n].holds # 0 => setup[c][n].late)
    BY DEF Ftp!NothingIsKept
  <2>1. setup[c] \in Seq(Channels) /\ ChannelsOK(session[c], setup[c])
    BY SessionFacts DEF SessionOK
  <2>2. n \in 1 .. Len(setup[c])
    BY <2>1
  <2>3. Drains(setup[c][n])
    BY <2>1, <2>2 DEF ChannelsOK
  <2> QED BY <2>3 DEF Drains
<1>3. Ftp!OneAnswerEach
  <2> SUFFICES ASSUME NEW c \in Clients
               PROVE  LET a == answered[c] IN
                      /\ \A i, j \in DOMAIN a : i < j =>
                           \/ a[i] < a[j]
                           \/ a[j] # a[i] /\ Ftp!Name(c, a[i]) \in {"ABOR", "AUTH"}
                      /\ Ftp!Reading(c) /\ Ftp!Selecting(c) /\ session[c].queue = <<>> /\ ~Ftp!HasLine(c)
                           /\ session[c].ctrl = "up" =>
                           \A n \in 1 .. asked[c] :
                             \/ \E i \in DOMAIN a : a[i] = n
                             \/ Ftp!Name(c, n) = "ABOR" /\ \E m \in 1 .. n - 1 : Ftp!Name(c, m) = "ABOR"
    BY DEF Ftp!OneAnswerEach
  <2>1. PICK cmds \in Seq(Commands), s \in FtpSessions, a \in Seq(Nat), ch \in Seq(Channels), k \in Nat :
          cmds = script[c] /\ s = session[c] /\ a = answered[c] /\ ch = setup[c] /\ k = asked[c]
    BY SessionFacts
  <2>2. LoopOK(s) /\ Owed(cmds, s, a, k) /\ s.read \in Nat
    BY <2>1, SessionFacts, Fields DEF SessionOK
  <2>3. DOMAIN a = 1 .. Len(a) /\ \A n : Ftp!Name(c, n) = cmds[n]
    BY <2>1 DEF Ftp!Name
  <2>4. \A i, j \in DOMAIN a : i < j =>
          a[i] < a[j] \/ (a[j] # a[i] /\ cmds[a[i]] \in {"ABOR", "AUTH"})
    BY <2>2, <2>3 DEF Owed, AnswersOK, InOrder, Early
  <2>5. ASSUME Ftp!Reading(c), Ftp!Selecting(c), session[c].queue = <<>>, ~Ftp!HasLine(c), session[c].ctrl = "up",
               NEW n \in 1 .. k
        PROVE  \/ \E i \in DOMAIN a : a[i] = n
               \/ cmds[n] = "ABOR" /\ \E m \in 1 .. n - 1 : cmds[m] = "ABOR"
    <3>1. s.reader = "reads" /\ s.loop = "select" /\ s.queue = <<>> /\ ~(s.read < k)
      BY <2>1, <2>5 DEF Ftp!Reading, Ftp!Selecting, Ftp!HasLine
    <3>2. s.run = 0 /\ s.transfer.aborted = 0 /\ n \in 1 .. s.read /\ n # 0
      BY <2>2, <3>1 DEF LoopOK
    <3>3. Accounted(cmds, s, a, n)
      BY <2>2, <3>2 DEF Owed
    <3>4. ~\E i \in 1 .. Len(s.queue) : s.queue[i] = n
      BY <3>1
    <3> QED BY <2>3, <3>1, <3>2, <3>3, <3>4 DEF Accounted
  <2>6. \A i, j \in DOMAIN answered[c] : i < j =>
          \/ answered[c][i] < answered[c][j]
          \/ answered[c][j] # answered[c][i] /\ Ftp!Name(c, answered[c][i]) \in {"ABOR", "AUTH"}
    <3>1. answered[c] = a
      BY <2>1
    <3>2. SUFFICES ASSUME NEW i \in DOMAIN a, NEW j \in DOMAIN a, i < j
                   PROVE  a[i] < a[j] \/ (a[j] # a[i] /\ Ftp!Name(c, a[i]) \in {"ABOR", "AUTH"})
      BY <3>1
    <3>3. Ftp!Name(c, a[i]) = cmds[a[i]]
      BY <2>3
    <3>4. a[i] < a[j] \/ (a[j] # a[i] /\ cmds[a[i]] \in {"ABOR", "AUTH"})
      BY <2>4, <3>2
    <3> QED BY <3>3, <3>4
  <2>7. ASSUME Ftp!Reading(c), Ftp!Selecting(c), session[c].queue = <<>>, ~Ftp!HasLine(c), session[c].ctrl = "up",
               NEW n \in 1 .. asked[c]
        PROVE  \/ \E i \in DOMAIN answered[c] : answered[c][i] = n
               \/ Ftp!Name(c, n) = "ABOR" /\ \E m \in 1 .. n - 1 : Ftp!Name(c, m) = "ABOR"
    <3>1. answered[c] = a /\ asked[c] = k
      BY <2>1
    <3>2. \/ \E i \in DOMAIN a : a[i] = n
          \/ cmds[n] = "ABOR" /\ \E m \in 1 .. n - 1 : cmds[m] = "ABOR"
      BY <2>5, <2>7, <3>1
    <3>3. Ftp!Name(c, n) = cmds[n] /\ \A m \in 1 .. n - 1 : Ftp!Name(c, m) = cmds[m]
      BY <2>3
    <3> QED BY <3>1, <3>2, <3>3
  <2> QED BY <2>6, <2>7
<1> QED BY <1>1, <1>2, <1>3
-----------------------------------------------------------------------------
(* SFTP: the connections that are served are the counted ones, and those of *)
(* an address are as many as its counter says.                              *)
SftpConns ==
    [at : {"none", "counted", "login", "in", "serving", "leaving", "gone"}, raw : {"up", "closed"},
     silent : BOOLEAN, grace : {"off", "runs", "begun", "fired"}, admitted : BOOLEAN, account : BOOLEAN,
     sessions : Nat, idle : {"off", "runs", "ended"}, seen : BOOLEAN,
     alive : {"off", "runs", "ending", "ended"}, pending : BOOLEAN, missed : Nat]

There(r) == r.at \notin {"none", "gone"}

SftpInv ==
    /\ conn \in [Clients -> SftpConns] /\ perHost \in [Hosts -> Nat] /\ configured \in BOOLEAN
    /\ conns = {c \in Clients : There(conn[c])} /\ IsFiniteSet(conns)
    /\ Cardinality(conns) <= MaxConnections
    /\ \A h \in Hosts : /\ perHost[h] = Cardinality(Sftp!Connected(h))
                        /\ MaxConnectionsPerHost > 0 => perHost[h] <= MaxConnectionsPerHost

LEMMA SftpCardinality == \A S : Sftp!Cardinality(S) = Cardinality(S)
BY DEF Cardinality, Sftp!Cardinality

(* Who is there stays there, and who is not does not come.                  *)
LEMMA SftpStays ==
    ASSUME SftpInv, NEW c \in Clients, NEW r \in SftpConns, conn' = [conn EXCEPT ![c] = r],
           There(r) <=> There(conn[c]), UNCHANGED <<conns, perHost, configured>>
    PROVE  SftpInv'
<1>1. conn' \in [Clients -> SftpConns] /\ \A e \in Clients : There(conn'[e]) <=> There(conn[e])
  BY DEF SftpInv
<1>2. {e \in Clients : There(conn'[e])} = {e \in Clients : There(conn[e])}
  BY <1>1
<1>3. \A h : Sftp!Connected(h)' = Sftp!Connected(h)
  BY DEF Sftp!Connected
<1> QED BY <1>1, <1>2, <1>3 DEF SftpInv

LEMMA SftpQuiet ==
    ASSUME SftpInv, NEW c \in Clients,
           \/ Sftp!Refuses(c) \/ Sftp!Serves(c) \/ Sftp!HandshakeFails(c) \/ Sftp!Begins(c) \/ Sftp!ChannelsEnd(c)
           \/ Sftp!Timers(c) \/ Sftp!Client(c) \/ Sftp!SessionEnds(c) \/ Sftp!SessionBreaks(c)
           \/ Sftp!IdleLooks(c) \/ Sftp!Ticks(c) \/ Sftp!AliveEnds(c) \/ Sftp!ShutdownCloses(c)
    PROVE  SftpInv'
<1>1. PICK s \in SftpConns : s = conn[c]
  BY DEF SftpInv
<1>2. /\ s.sessions \in Nat /\ s.missed \in Nat /\ s.grace \in {"off", "runs", "begun", "fired"}
      /\ s.idle \in {"off", "runs", "ended"} /\ s.alive \in {"off", "runs", "ending", "ended"}
  BY DEF SftpConns
<1>3. ASSUME NEW r \in SftpConns, conn' = [conn EXCEPT ![c] = r], There(r) <=> There(s),
             UNCHANGED <<conns, perHost, configured>>
      PROVE  SftpInv'
  BY <1>1, <1>3, SftpStays
<1>4. Sftp!Closed(c) = [s EXCEPT !.raw = "closed"] /\ \A at0 : Sftp!At(c, at0) <=> s.at = at0
  BY <1>1 DEF Sftp!Closed, Sftp!At
<1> USE DEF Sftp!Becomes, Sftp!Stays
<1>5. CASE Sftp!Refuses(c)
  <2>1. PICK r : r = [[s EXCEPT !.raw = "closed"] EXCEPT !.at = "gone"]
    OBVIOUS
  <2>2. r \in SftpConns /\ r.at = "gone"
    BY <2>1 DEF SftpConns
  <2>3. conn' = [conn EXCEPT ![c] = r] /\ s.at = "none" /\ UNCHANGED <<conns, perHost, configured>>
    BY <1>4, <1>5, <2>1 DEF Sftp!Refuses
  <2> QED BY <1>3, <2>2, <2>3 DEF There
<1>6. CASE Sftp!Serves(c)
  <2>1. PICK g \in {"runs", "off"} : g = IF "grace" \in watches.watches THEN "runs" ELSE "off"
    OBVIOUS
  <2>2. PICK r : r = [s EXCEPT !.at = "login", !.account = configured, !.grace = g]
    OBVIOUS
  <2>3. r \in SftpConns /\ r.at = "login"
    BY <2>2 DEF SftpConns, SftpInv
  <2>4. conn' = [conn EXCEPT ![c] = r] /\ s.at = "counted" /\ UNCHANGED <<conns, perHost, configured>>
    BY <1>1, <1>4, <1>6, <2>1, <2>2 DEF Sftp!Serves
  <2> QED BY <1>3, <2>3, <2>4 DEF There
<1>7. PICK g \in {"off", "runs", "begun", "fired"} : g = Sftp!Stopped(c)
  BY <1>1, <1>2 DEF Sftp!Stopped
<1>8. CASE Sftp!HandshakeFails(c)
  <2>1. PICK r : r = [s EXCEPT !.at = "leaving", !.grace = g]
    OBVIOUS
  <2>2. r \in SftpConns /\ r.at = "leaving"
    BY <2>1 DEF SftpConns
  <2>3. conn' = [conn EXCEPT ![c] = r] /\ s.at = "login" /\ UNCHANGED <<conns, perHost, configured>>
    BY <1>1, <1>4, <1>7, <1>8, <2>1 DEF Sftp!HandshakeFails
  <2> QED BY <1>3, <2>2, <2>3 DEF There
<1>9. CASE Sftp!Begins(c)
  <2>1. PICK i \in {"runs", "off"}, l \in {"runs", "off"} :
          /\ i = IF "idle" \in watches.watches THEN "runs" ELSE "off"
          /\ l = IF "alive" \in watches.watches THEN "runs" ELSE "off"
    OBVIOUS
  <2>2. PICK r : /\ \/ r = [[s EXCEPT !.raw = "closed"] EXCEPT !.at = "leaving", !.grace = g]
                    \/ r = [s EXCEPT !.at = "serving", !.grace = g, !.idle = i, !.seen = TRUE, !.alive = l]
                 /\ conn' = [conn EXCEPT ![c] = r]
    BY <1>1, <1>4, <1>7, <1>9, <2>1 DEF Sftp!Begins
  <2>3. r \in SftpConns /\ r.at \in {"leaving", "serving"}
    BY <2>2, ZenonT(30) DEF SftpConns
  <2>4. s.at = "in" /\ UNCHANGED <<conns, perHost, configured>>
    BY <1>4, <1>9 DEF Sftp!Begins
  <2> QED BY <1>3, <2>2, <2>3, <2>4 DEF There
<1>10. CASE Sftp!ChannelsEnd(c)
  <2>1. PICK i \in {"off", "runs", "ended"}, l \in {"off", "runs", "ending", "ended"} :
          i = (IF s.idle = "runs" THEN "ended" ELSE s.idle) /\ l = (IF s.alive = "runs" THEN "ending" ELSE s.alive)
    BY <1>2
  <2>2. PICK r : r = [s EXCEPT !.at = "leaving", !.idle = i, !.alive = l]
    OBVIOUS
  <2>3. r \in SftpConns /\ r.at = "leaving"
    BY <2>2 DEF SftpConns
  <2>4. conn' = [conn EXCEPT ![c] = r] /\ s.at = "serving" /\ UNCHANGED <<conns, perHost, configured>>
    BY <1>1, <1>4, <1>10, <2>1, <2>2 DEF Sftp!ChannelsEnd
  <2> QED BY <1>3, <2>3, <2>4 DEF There
<1>11. CASE Sftp!LogsIn(c)
  <2>1. PICK r : r = [s EXCEPT !.at = "in", !.admitted = TRUE]
    OBVIOUS
  <2>2. r \in SftpConns /\ r.at = "in"
    BY <2>1 DEF SftpConns
  <2>3. conn' = [conn EXCEPT ![c] = r] /\ s.at = "login" /\ UNCHANGED <<conns, perHost, configured>>
    BY <1>1, <1>4, <1>11, <2>1 DEF Sftp!LogsIn
  <2> QED BY <1>3, <2>2, <2>3 DEF There
<1>12. ASSUME NEW r, /\ \/ r = [s EXCEPT !.silent = TRUE] \/ r = [s EXCEPT !.raw = "closed"]
                        \/ r = [s EXCEPT !.grace = "begun"] \/ r = [[s EXCEPT !.raw = "closed"] EXCEPT !.grace = "fired"]
                        \/ r = [s EXCEPT !.seen = TRUE] \/ r = [s EXCEPT !.seen = FALSE]
                        \/ r = [[s EXCEPT !.raw = "closed"] EXCEPT !.idle = "ended"] \/ r = [s EXCEPT !.pending = TRUE]
                        \/ r = [s EXCEPT !.pending = FALSE, !.missed = 0] \/ r = [s EXCEPT !.alive = "ended"]
                     /\ conn' = [conn EXCEPT ![c] = r] /\ UNCHANGED <<conns, perHost, configured>>
       PROVE  SftpInv'
  <2> SUFFICES r \in SftpConns /\ r.at = s.at
    BY <1>3, <1>12 DEF There
  <2>1. CASE r = [s EXCEPT !.silent = TRUE] \/ r = [s EXCEPT !.raw = "closed"] \/ r = [s EXCEPT !.grace = "begun"]
    BY <2>1 DEF SftpConns
  <2>2. CASE \/ r = [[s EXCEPT !.raw = "closed"] EXCEPT !.grace = "fired"]
             \/ r = [[s EXCEPT !.raw = "closed"] EXCEPT !.idle = "ended"]
    BY <2>2 DEF SftpConns
  <2>3. CASE r = [s EXCEPT !.seen = TRUE] \/ r = [s EXCEPT !.seen = FALSE]
    BY <2>3 DEF SftpConns
  <2>4. CASE r = [s EXCEPT !.pending = TRUE] \/ r = [s EXCEPT !.alive = "ended"]
    BY <2>4 DEF SftpConns
  <2>5. CASE r = [s EXCEPT !.pending = FALSE, !.missed = 0]
    BY <2>5 DEF SftpConns
  <2> QED BY <1>12, <2>1, <2>2, <2>3, <2>4, <2>5
<1>13. ASSUME NEW n \in Nat, conn' = [conn EXCEPT ![c] = [s EXCEPT !.sessions = n]], UNCHANGED <<conns, perHost, configured>>
       PROVE  SftpInv'
  <2>1. PICK r : r = [s EXCEPT !.sessions = n]
    OBVIOUS
  <2>2. r \in SftpConns /\ r.at = s.at
    BY <2>1 DEF SftpConns
  <2> QED BY <1>3, <1>13, <2>1, <2>2 DEF There
<1>14. CASE \/ Sftp!FallsSilent(c) \/ Sftp!Leaves(c) \/ Sftp!Requests(c) \/ Sftp!GraceRunsOut(c) \/ Sftp!GraceCloses(c)
            \/ Sftp!AliveEnds(c) \/ Sftp!ShutdownCloses(c) \/ Sftp!Replies(c)
  BY <1>1, <1>4, <1>12, <1>14 DEF Sftp!FallsSilent, Sftp!Leaves, Sftp!Requests, Sftp!GraceRunsOut, Sftp!GraceCloses,
        Sftp!AliveEnds, Sftp!ShutdownCloses, Sftp!Replies
<1>15. CASE Sftp!IdleLooks(c)
  BY <1>1, <1>4, <1>12, <1>15 DEF Sftp!IdleLooks
<1>16. CASE Sftp!Opens(c)
  <2>1. s.sessions + 1 \in Nat /\ conn' = [conn EXCEPT ![c] = [s EXCEPT !.sessions = s.sessions + 1]]
        /\ UNCHANGED <<conns, perHost, configured>>
    BY <1>1, <1>2, <1>16 DEF Sftp!Opens
  <2> QED BY <1>13, <2>1
<1>17. CASE Sftp!SessionEnds(c) \/ Sftp!SessionBreaks(c)
  <2>1. s.sessions - 1 \in Nat /\ conn' = [conn EXCEPT ![c] = [s EXCEPT !.sessions = s.sessions - 1]]
        /\ UNCHANGED <<conns, perHost, configured>>
    BY <1>1, <1>2, <1>17 DEF Sftp!SessionEnds, Sftp!SessionBreaks
  <2> QED BY <1>13, <2>1
<1>18. CASE Sftp!Ticks(c)
  <2>1. PICK m \in Nat : m = s.missed + 1
    BY <1>2
  <2>2. PICK r : /\ \/ r = [s EXCEPT !.pending = TRUE]
                    \/ r = [[s EXCEPT !.raw = "closed"] EXCEPT !.alive = "ended", !.missed = m]
                    \/ r = [s EXCEPT !.missed = m]
                 /\ conn' = [conn EXCEPT ![c] = r]
    <3>1. [s EXCEPT !.raw = "closed"].missed = s.missed
      BY DEF SftpConns
    <3> QED BY <3>1, <1>1, <1>4, <1>18, <2>1 DEF Sftp!Ticks
  <2>3. r \in SftpConns /\ r.at = s.at
    BY <2>2 DEF SftpConns
  <2>4. UNCHANGED <<conns, perHost, configured>>
    BY <1>18 DEF Sftp!Ticks
  <2> QED BY <1>3, <2>2, <2>3, <2>4 DEF There
<1> QED BY <1>5, <1>6, <1>8, <1>9, <1>10, <1>11, <1>14, <1>15, <1>16, <1>17, <1>18 DEF Sftp!Timers, Sftp!Client
(* One more is counted, for all and for its address, or one less.           *)
LEMMA SftpAccepts == ASSUME SftpInv, NEW c \in Clients, Sftp!Accepts(c) PROVE SftpInv'
<1>1. PICK s \in SftpConns, h \in Hosts : s = conn[c] /\ h = HostOf[c]
  BY ServersAssumption DEF SftpInv
<1>2. PICK r : r = [s EXCEPT !.at = "counted"]
  OBVIOUS
<1>3. r \in SftpConns /\ There(r)
  BY <1>2 DEF SftpConns, There
<1>4. /\ conn' = [conn EXCEPT ![c] = r] /\ ~There(s) /\ configured' = configured
      /\ conns' = conns \cup {c} /\ perHost' = [perHost EXCEPT ![h] = perHost[h] + 1]
      /\ Cardinality(conns) < MaxConnections
      /\ MaxConnectionsPerHost > 0 => perHost[h] < MaxConnectionsPerHost
  BY <1>1, <1>2, SftpCardinality DEF Sftp!Accepts, Sftp!HasRoom, Sftp!Becomes, Sftp!At, There
<1>5. PICK O, N : O = conns /\ N = conns'
  OBVIOUS
<1>6. IsFiniteSet(O) /\ c \notin O /\ N = O \cup {c} /\ IsFiniteSet(N)
      /\ Cardinality(O) \in Nat /\ Cardinality(N) = Cardinality(O) + 1
  BY <1>1, <1>4, <1>5, FS_AddElement, FS_CardinalityType DEF SftpInv
<1>7. Cardinality(conns') <= MaxConnections /\ IsFiniteSet(conns')
  BY <1>4, <1>5, <1>6, LimitsAssumption
<1>8. conns' = {e \in Clients : There(conn'[e])} /\ conn' \in [Clients -> SftpConns]
  BY <1>1, <1>3, <1>4 DEF SftpInv
<1>9. perHost \in [Hosts -> Nat] /\ perHost' \in [Hosts -> Nat]
  BY <1>4 DEF SftpInv
<1>10. ASSUME NEW g \in Hosts
       PROVE  /\ perHost'[g] = Cardinality(Sftp!Connected(g)')
              /\ MaxConnectionsPerHost > 0 => perHost'[g] <= MaxConnectionsPerHost
  <2>1. PICK P, Q : P = Sftp!Connected(g) /\ Q = Sftp!Connected(g)'
    OBVIOUS
  <2>2. P = {e \in O : HostOf[e] = g} /\ Q = {e \in N : HostOf[e] = g}
    BY <1>5, <2>1 DEF Sftp!Connected
  <2>3. /\ perHost[g] = Cardinality(P) /\ perHost[g] \in Nat
        /\ MaxConnectionsPerHost > 0 => perHost[g] <= MaxConnectionsPerHost
    BY <1>9, <2>1, SftpCardinality DEF SftpInv
  <2>4. CASE g = h
    <3>1. Q = P \cup {c} /\ c \notin P /\ P \subseteq O
      BY <1>1, <1>6, <2>2, <2>4
    <3>2. Cardinality(Q) = Cardinality(P) + 1
      BY <3>1, <1>6, FS_Subset, FS_AddElement
    <3>3. perHost'[g] = perHost[g] + 1
      BY <1>4, <1>9, <2>4
    <3> QED BY <3>2, <3>3, <2>1, <2>3, <2>4, <1>4, LimitsAssumption
  <2>5. CASE g # h
    <3>1. Q = P
      BY <1>1, <1>6, <2>2, <2>5
    <3>2. perHost'[g] = perHost[g]
      BY <1>4, <1>9, <2>5
    <3> QED BY <3>1, <3>2, <2>1, <2>3
  <2> QED BY <2>4, <2>5
<1> QED BY <1>4, <1>7, <1>8, <1>9, <1>10 DEF SftpInv

LEMMA SftpCountsOut == ASSUME SftpInv, NEW c \in Clients, Sftp!CountsOut(c) PROVE SftpInv'
<1>1. PICK s \in SftpConns, h \in Hosts : s = conn[c] /\ h = HostOf[c]
  BY ServersAssumption DEF SftpInv
<1>2. PICK r : r = [Sftp!Unborn EXCEPT !.at = "gone", !.raw = "closed", !.sessions = s.sessions, !.alive = s.alive]
  OBVIOUS
<1>3. r \in SftpConns /\ ~There(r)
  <2>1. s.sessions \in Nat /\ s.alive \in {"off", "runs", "ending", "ended"}
    BY DEF SftpConns
  <2>2. Sftp!Unborn \in SftpConns
    BY DEF SftpConns, Sftp!Unborn
  <2>3. r \in SftpConns /\ r.at = "gone"
    BY <1>2, <2>1, <2>2 DEF SftpConns
  <2> QED BY <2>3 DEF There
<1>4. /\ conn' = [conn EXCEPT ![c] = r] /\ There(s) /\ configured' = configured
      /\ conns' = conns \ {c} /\ perHost' = [perHost EXCEPT ![h] = perHost[h] - 1]
  BY <1>1, <1>2 DEF Sftp!CountsOut, Sftp!CountedOut, Sftp!Becomes, Sftp!At, There
<1>5. PICK O, N : O = conns /\ N = conns'
  OBVIOUS
<1>6. IsFiniteSet(O) /\ c \in O /\ N = O \ {c} /\ IsFiniteSet(N)
      /\ Cardinality(O) \in Nat /\ Cardinality(N) = Cardinality(O) - 1
  BY <1>1, <1>4, <1>5, FS_RemoveElement, FS_CardinalityType DEF SftpInv
<1>7. Cardinality(conns') <= MaxConnections /\ IsFiniteSet(conns')
  BY <1>5, <1>6, LimitsAssumption DEF SftpInv
<1>8. conns' = {e \in Clients : There(conn'[e])} /\ conn' \in [Clients -> SftpConns]
  BY <1>1, <1>3, <1>4 DEF SftpInv
<1>9. perHost \in [Hosts -> Nat]
  BY DEF SftpInv
<1>10. ASSUME NEW g \in Hosts
       PROVE  /\ perHost'[g] = Cardinality(Sftp!Connected(g)') /\ perHost'[g] \in Nat
              /\ MaxConnectionsPerHost > 0 => perHost'[g] <= MaxConnectionsPerHost
  <2>1. PICK P, Q : P = Sftp!Connected(g) /\ Q = Sftp!Connected(g)'
    OBVIOUS
  <2>2. P = {e \in O : HostOf[e] = g} /\ Q = {e \in N : HostOf[e] = g}
    BY <1>5, <2>1 DEF Sftp!Connected
  <2>3. /\ perHost[g] = Cardinality(P) /\ perHost[g] \in Nat
        /\ MaxConnectionsPerHost > 0 => perHost[g] <= MaxConnectionsPerHost
    BY <1>9, <2>1, SftpCardinality DEF SftpInv
  <2>4. CASE g = h
    <3>1. Q = P \ {c} /\ c \in P /\ P \subseteq O
      BY <1>1, <1>6, <2>2, <2>4
    <3>2. Cardinality(Q) = Cardinality(P) - 1 /\ Cardinality(Q) \in Nat
      BY <3>1, <1>6, FS_Subset, FS_RemoveElement, FS_CardinalityType
    <3>3. perHost'[g] = perHost[g] - 1
      BY <1>4, <1>9, <2>4
    <3> QED BY <3>2, <3>3, <2>1, <2>3, LimitsAssumption
  <2>5. CASE g # h
    <3>1. Q = P
      BY <1>1, <1>6, <2>2, <2>5
    <3>2. perHost'[g] = perHost[g]
      BY <1>4, <1>9, <2>5
    <3> QED BY <3>1, <3>2, <2>1, <2>3
  <2> QED BY <2>4, <2>5
<1>11. perHost' \in [Hosts -> Nat]
  BY <1>4, <1>9, <1>10
<1> QED BY <1>4, <1>7, <1>8, <1>10, <1>11 DEF SftpInv

LEMMA SftpInit == Sftp!Init => SftpInv
<1> SUFFICES ASSUME Sftp!Init PROVE SftpInv
  OBVIOUS
<1>1. conn \in [Clients -> SftpConns] /\ \A c \in Clients : ~There(conn[c])
  BY DEF Sftp!Init, Sftp!Unborn, SftpConns, There
<1>2. conns = {} /\ conns = {c \in Clients : There(conn[c])}
  BY <1>1 DEF Sftp!Init
<1>3. IsFiniteSet(conns) /\ Cardinality(conns) = 0
  BY <1>2, FS_EmptySet
<1>4. \A h : Cardinality(Sftp!Connected(h)) = 0
  BY <1>2, FS_EmptySet DEF Sftp!Connected
<1> QED BY <1>1, <1>2, <1>3, <1>4, SftpCardinality, LimitsAssumption DEF SftpInv, Sftp!Init

LEMMA SftpStep == SftpInv /\ [Sftp!Next]_(Sftp!vars) => SftpInv'
<1> SUFFICES ASSUME SftpInv, [Sftp!Next]_(Sftp!vars) PROVE SftpInv'
  OBVIOUS
<1>1. ASSUME UNCHANGED <<conns, perHost, conn>>, configured' \in BOOLEAN PROVE SftpInv'
  <2>1. \A h : Sftp!Connected(h)' = Sftp!Connected(h)
    BY <1>1 DEF Sftp!Connected
  <2> QED BY <1>1, <2>1 DEF SftpInv
<1>2. configured \in BOOLEAN
  BY DEF SftpInv
<1>3. CASE UNCHANGED Sftp!vars
  BY <1>1, <1>2, <1>3 DEF Sftp!vars
<1>4. CASE Sftp!Reloads \/ Sftp!ShutdownBegins \/ Sftp!ShutdownReturns
  BY <1>1, <1>2, <1>4 DEF Sftp!Reloads, Sftp!ShutdownBegins, Sftp!ShutdownReturns
<1> QED BY <1>3, <1>4, SftpQuiet, SftpAccepts, SftpCountsOut DEF Sftp!Next, Sftp!Serve, Sftp!Shuts

LEMMA SftpIsTrue == SftpInv => Sftp!CountersAreTrue
BY SftpCardinality DEF SftpInv, Sftp!CountersAreTrue, There
-----------------------------------------------------------------------------
(* What a client was told was moved was moved: the blocks of a download are *)
(* those of the file, in order and all of them when it is complete, those   *)
(* of an upload are at its destination once the client has the last answer, *)
(* and FTP moves over the connection made for the data channel asked for    *)
(* last.  That is, whatever is lost, sent again or late, however many       *)
(* blocks and clients there are and wherever their numbers wrap.            *)
THEOREM TransfersStayWhole == Spec /\ Ftp!Spec => []TransfersAreWhole
<1>1. TftpInv /\ FtpInv => TransfersAreWhole
  BY TftpIsTrue, FtpIsTrue DEF TransfersAreWhole
<1>2. Spec => []TftpInv
  BY TftpInit, TftpStep, PTL DEF Spec
<1>3. Ftp!Spec => []FtpInv
  BY FtpInit, FtpStep, PTL DEF Ftp!Spec
<1> QED BY <1>1, <1>2, <1>3, PTL

(* Of a transfer or connection that is gone nothing stays behind, and the   *)
(* counters that decide who is let in are those of who is there, within     *)
(* their limits: no slot of a TFTP client, no listener or data connection   *)
(* of an FTP one that is not drained, no place of an SFTP one.              *)
THEOREM NothingDoesStay == Spec /\ Ftp!Spec /\ Sftp!Spec => []NothingStaysBehind
<1>1. TftpInv /\ FtpInv /\ SftpInv => NothingStaysBehind
  BY TftpIsTrue, FtpIsTrue, SftpIsTrue DEF NothingStaysBehind
<1>2. Spec => []TftpInv
  BY TftpInit, TftpStep, PTL DEF Spec
<1>3. Ftp!Spec => []FtpInv
  BY FtpInit, FtpStep, PTL DEF Ftp!Spec
<1>4. Sftp!Spec => []SftpInv
  BY SftpInit, SftpStep, PTL DEF Sftp!Spec
<1> QED BY <1>1, <1>2, <1>3, <1>4, PTL

(* However a client pipelines its commands, whichever goroutine answers and *)
(* whenever a transfer is aborted: no FTP command has two answers, answers  *)
(* come in the order of the commands but for the ABOR and AUTH the reader   *)
(* takes, and when the server waits again none is owed.                     *)
THEOREM AnswersStayInOrder == Ftp!Spec => []OneAnswerEach
<1>1. FtpInv => OneAnswerEach
  BY FtpIsTrue DEF OneAnswerEach
<1> QED BY <1>1, FtpInit, FtpStep, PTL DEF Ftp!Spec

(* The same of the three servers side by side, as they are model-checked.   *)
THEOREM ServersAreSafe == ServersSpec => [](TransfersAreWhole /\ NothingStaysBehind /\ OneAnswerEach)
<1>1. ServersInit => TftpInv /\ FtpInv /\ SftpInv
  BY TftpInit, FtpInit, SftpInit DEF ServersInit
<1>2. [ServersNext]_serversVars => [Next]_vars /\ [Ftp!Next]_(Ftp!vars) /\ [Sftp!Next]_(Sftp!vars)
  BY DEF ServersNext, serversVars, Either, ofFtp, ofSftp, Ftp!vars, Sftp!vars
<1>3. TftpInv /\ FtpInv /\ SftpInv /\ [ServersNext]_serversVars => (TftpInv /\ FtpInv /\ SftpInv)'
  BY <1>2, TftpStep, FtpStep, SftpStep
<1>4. TftpInv /\ FtpInv /\ SftpInv => TransfersAreWhole /\ NothingStaysBehind /\ OneAnswerEach
  BY TftpIsTrue, FtpIsTrue, SftpIsTrue DEF TransfersAreWhole, NothingStaysBehind, OneAnswerEach
<1> QED BY <1>1, <1>3, <1>4, PTL DEF ServersSpec
=============================================================================
