SPECIFICATION StorageSpec
CONSTANTS
  a = a
  b = b
  r1 = r1
  r2 = r2
  r3 = r3
  s1 = s1
  s2 = s2
  s3 = s3
  s4 = s4
  None = None
  Names = {a, b}
  Requests = {r1, r2, r3}
  Work <- MCWork
  Pieces = 2
  MaxLost = 1
  Senders = {s1, s2, s3, s4}
  Parts = {1, 2}
  Retention = 1
  MaxTime = 3
  MaxFaults = 1
  Writers = {1, 2}
  PageSize = 2
  MaxRequests = 2
SYMMETRY Symmetry
INVARIANT FilesAreWhole
INVARIANT ObjectIsAsNamed
PROPERTY OthersFilesAreMinded
PROPERTY DatesAreKept
PROPERTY ObjectsAreTrue
CHECK_DEADLOCK FALSE
