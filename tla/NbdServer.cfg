CONSTANTS
  k1 = k1  c1 = c1  c2 = c2
  alice = alice  None = None  NoCert = NoCert
  Keys = {k1}
  Conns = {c1, c2}
  Cert <- Certs
  Settings <- Configurations
SPECIFICATION OfEverybody
CHECK_DEADLOCK FALSE
INVARIANTS
  OneVMWrites
  ServedUnderALease
  OnlyTheAdmittedAndMissedStay
PROPERTIES
  UsesTheRegistry
  ShutdownComesBack
