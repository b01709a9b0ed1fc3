CONSTANTS
  http = http  nbd = nbd  cleanup = cleanup  a = a  b = b  c = c
  Order <- Three
  Sections = {a, b, c}
  Port <- Ports
  Background = {cleanup}
  Configs <- Files
  Broken = Broken  Missing = Missing  None = None
  MaxEdits = 3
  MaxFailures = 2
  Admins = {1, 2}
  MaxHands = 1
  MaxCrashes = 1
  Uploads = {u1, u2}  Binaries = {b1, b2, b3, b4}
  Signed = {b1, b2, b3}  Native = {b1, b2, b4}  Sound = {b1, b3, b4}  First = b0
  Syncs = {1}  Askers = {x}  Every = 2
  MaxTime = 3
  MaxBuilds = 3
  MaxFaults = 1
SPECIFICATION ServerSpec
CHECK_DEADLOCK FALSE
INVARIANTS
  GoodSectionsRun
  AVersionIsThere
PROPERTIES
  FollowsTheFile
  NoEditIsLost
  SyncsTakeTurns
