CONSTANTS
  k1 = k1  k2 = k2  s1 = s1  s2 = s2  t1 = t1  t2 = t2
  alice = alice  None = None  NoCert = NoCert
  Keys = {k1, k2}
  Sessions = {s1, s2}
  Tasks = {t1, t2}
  Loads <- Files
  MaxLen = 2
  Blocks = {0, 1}
  Inodes = {1, 2, 3, 4, 5, 6}
  Cert <- Certs
SPECIFICATION OfOneImage
CHECK_DEADLOCK FALSE
INVARIANTS
  CopyIsOfOneMoment
  OpenImagesAreSafe
  NothingLeftBehind
PROPERTIES
  PutInPlaceAsAsked
