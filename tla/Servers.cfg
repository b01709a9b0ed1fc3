CONSTANTS
  c1 = c1  c2 = c2  c3 = c3  h1 = h1  h2 = h2
  None = None
  Clients = {c1, c2, c3}
  Hosts = {h1, h2}
  Loads <- Mixes
  MaxConnections = 2
  MaxConnectionsPerHost = 1
  AllowOverwrite = FALSE
  BlockNumbers = 5
  FtpConnections = 1
  Capacity = 2
  Scripts <- MCScripts
  Timeouts <- MCTimeouts
  HostOf <- MCHostOf
  MaxSessions = 1
  KeepAliveCountMax = 2
  Comers <- MCComers
SPECIFICATION ServersSpec
CHECK_DEADLOCK FALSE
INVARIANTS
  TransfersAreWhole
  NothingStaysBehind
  OneAnswerEach
PROPERTIES
  SilentClientsGo
  EveryShutdownComesBack
