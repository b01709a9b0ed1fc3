------------------------------ MODULE MCServers ------------------------------
(***************************************************************************)
(* Instances of the file servers for TLC, one server at a time: TFTP, FTP  *)
(* and SFTP.  They share no variable; the ones that are not looked at stay *)
(* as they are, and none of them has anything to do then.                  *)
(***************************************************************************)
EXTENDS TftpServer, TLC

CONSTANTS c1, c2, c3, h1, h2,
          FtpConnections, Capacity, Scripts, Timeouts,         \* Ftp
          HostOf, MaxSessions, KeepAliveCountMax, Comers       \* Sftp

VARIABLES
  part,                                                             \* what is looked at
  script, ftpd, session, setup, asked, answered, limits, known, missed, \* Ftp
  sftpd, conns, perHost, conn, configured, watches                  \* Sftp

-----------------------------------------------------------------------------
(* TFTP: downloads whose numbers come round, in windows and in lock step,   *)
(* one of which ends in an empty block; uploads; three clients for two      *)
(* slots.                                                                   *)
Load(asks1, asks2, asks3, full, ends, window, options, retries) ==
    [asks    |-> [c \in Clients |-> CASE c = c1 -> asks1 [] c = c2 -> asks2 [] OTHER -> asks3],
     host    |-> [c \in Clients |-> IF c = c3 THEN h2 ELSE h1],
     full    |-> [c \in Clients |-> full],
     ends    |-> [c \in Clients |-> ends],
     window  |-> [c \in Clients |-> window],
     options |-> [c \in Clients |-> options],
     retries |-> retries]

OneUpload == Load("write", "nothing", "nothing", 0, "short", 1, FALSE, 0)

Mixes ==
    {Load("read", "nothing", "nothing", 8, "short", 3, TRUE, 2),
     Load("read", "nothing", "nothing", 6, "empty", 2, FALSE, 1),
     Load("read", "nothing", "nothing", 6, "short", 1, FALSE, 1),
     Load("write", "nothing", "nothing", 7, "short", 1, TRUE, 2),
     Load("write", "write", "write", 0, "short", 1, FALSE, 0),
     Load("read", "nothing", "write", 0, "short", 1, FALSE, 0),
     OneUpload}

-----------------------------------------------------------------------------
(* FTP: data channels set up twice, commands behind a transfer and aborts   *)
(* of it, commands before the login; two connections for one place.         *)
Script(a, b) == (c1 :> a) @@ (c2 :> b) @@ (c3 :> <<>>)
MCScripts ==
  {Script(<<"LOGIN", "PASV", "PASV", "RETR">>, <<>>),
   Script(<<"LOGIN", "PASV", "RETR", "NOOP", "ABOR", "ABOR">>, <<>>),
   Script(<<"LOGIN", "PASV", "RETR", "PASV", "RETR">>, <<>>),
   Script(<<"AUTH", "LOGIN", "AUTH", "QUIT">>, <<>>),
   Script(<<"LOGIN", "RETR", "ABOR", "QUIT">>, <<>>),
   Script(<<"NOOP">>, <<"PASV">>)}
MCTimeouts == {{}, {"idle", "transfer"}}

Ftp == INSTANCE FtpServer WITH
  Conns <- Clients, MaxConnections <- FtpConnections, server <- ftpd, conn <- session

-----------------------------------------------------------------------------
(* SFTP: three connections for two places, one for each address; and one    *)
(* connection after another that is watched.                                *)
MCHostOf == (c1 :> h1) @@ (c2 :> h1) @@ (c3 :> h2)
MCComers == {[watches |-> {}, clients |-> Clients],
             [watches |-> {"grace", "idle"}, clients |-> {c1, c2}],
             [watches |-> {"grace", "alive"}, clients |-> {c1, c2}]}

Sftp == INSTANCE SftpServer WITH
  Conns <- Clients, Loads <- Comers, server <- sftpd, known <- configured, load <- watches

(* A client sends commands and has an address; limits are numbers.          *)
ASSUME ServersAssumption ==
  /\ Scripts \subseteq [Clients -> Seq({"LOGIN", "PASV", "RETR", "NOOP", "ABOR", "AUTH", "QUIT"})]
  /\ HostOf \in [Clients -> Hosts]
  /\ FtpConnections \in Nat /\ MaxSessions \in Nat /\ KeepAliveCountMax \in Nat

-----------------------------------------------------------------------------
ofFtp == <<script, ftpd, session, setup, asked, answered, limits, known, missed>>
ofSftp == <<sftpd, conns, perHost, conn, configured, watches>>
serversVars == <<part, vars, ofFtp, ofSftp>>

ServersInit ==
  /\ part \in {"tftp", "ftp", "sftp"}
  /\ Init /\ (part # "tftp" => load = OneUpload)
  /\ Ftp!Init /\ (part # "ftp" => script = Script(<<"NOOP">>, <<"PASV">>) /\ limits = {})
  /\ Sftp!Init /\ (part # "sftp" => watches.watches = {} /\ configured)

Either(tftp, ftp, sftp) ==
  \/ part = "tftp" /\ tftp /\ UNCHANGED <<part, ofFtp, ofSftp>>
  \/ part = "ftp" /\ ftp /\ UNCHANGED <<part, vars, ofSftp>>
  \/ part = "sftp" /\ sftp /\ UNCHANGED <<part, vars, ofFtp>>

ServersNext == Either(Next, Ftp!Next, Sftp!Next)

(* The fairness of the server that is looked at: a client and a goroutine   *)
(* of each share a conjunct, for two of the three have nothing to do.       *)
ServersFairness ==
  /\ \A c \in Clients :
       /\ WF_serversVars(Either(Looks(c) \/ Refuses(c) \/ Begins(c), Ftp!Registers(c), Sftp!Serve(c)))
       /\ WF_serversVars(Either(TimesOut(c), Ftp!Reader(c), Sftp!Timers(c)))
       /\ WF_serversVars(Either(GetsLate(c), Ftp!ReadTimesOut(c), Sftp!IdleLooks(c)))
       /\ WF_serversVars(Either(Handles(c), Ftp!Loop(c), Sftp!Ticks(c)))
       /\ WF_serversVars(Either(Ends(c), Ftp!DataTimesOut(c), Sftp!AliveEnds(c)))
       /\ WF_serversVars(Either(FALSE, FALSE, Sftp!SessionBreaks(c)))
  /\ WF_serversVars(Either(Shuts, Ftp!Shuts, Sftp!Shuts))

ServersSpec == ServersInit /\ [][ServersNext]_serversVars /\ ServersFairness

(* What a client is told was moved was moved, whole and over the connection *)
(* that was made for it (TftpServer, FtpServer).                            *)
TransfersAreWhole == DownloadIsWhole /\ UploadIsThere /\ Ftp!DataIsOfItsOwnSetup

(* Who is gone holds nothing, and who is there is counted (TftpServer,      *)
(* FtpServer, SftpServer).                                                  *)
NothingStaysBehind == NothingIsKept /\ Ftp!NothingIsKept /\ Sftp!CountersAreTrue

(* Every command is answered once, and in its order (FtpServer).            *)
OneAnswerEach == Ftp!OneAnswerEach

(* A silent client does not keep its place for ever (SftpServer).           *)
SilentClientsGo == Sftp!SilentClientsGo

(* Shutdown of any of them comes back, whatever the clients do (TftpServer, *)
(* FtpServer, SftpServer).                                                  *)
EveryShutdownComesBack == ShutdownComesBack /\ Ftp!ShutdownComesBack /\ Sftp!ShutdownComesBack
=============================================================================
