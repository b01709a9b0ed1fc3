CONSTANTS
  k1 = k1  s1 = s1  s2 = s2  s3 = s3  s4 = s4  t1 = t1  t2 = t2
  alice = alice  None = None  NoCert = NoCert
  Keys = {k1}
  Sessions = {s1, s2, s3, s4}
  Tasks = {t1, t2}
  Cert <- Certs
SPECIFICATION FairSpec
CHECK_DEADLOCK FALSE
INVARIANTS
  EntriesMatchLeases
  LeasesExclude
  WaitsForItsOwnWriter
PROPERTIES
  ImplementsLocks
  AcquireReturns
