CONSTANTS
  k1 = k1  c1 = c1  c2 = c2
  alice = alice  None = None  NoCert = NoCert
  Keys = {k1}
  Conns = {c1}
  Cert <- Certs
  Settings <- Configurations
SPECIFICATION Spec
CHECK_DEADLOCK FALSE
INVARIANTS
  LeaseEndsWithItsConnection
