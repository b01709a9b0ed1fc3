CONSTANTS
  w = w  f = f  r = r  s = s  NoRequest = NoRequest
  Requests = {w, f, r, s}
  Kind <- Kinds
  Length <- Lengths
  Fua = {f}
  Writable = TRUE
  MaxBlock = 2
  MaxInFlight = 2
  InFlightBytes = 2
SPECIFICATION FairTransmission
CHECK_DEADLOCK FALSE
INVARIANTS
  BudgetIsKept
  RepliesAreTrue
  QuietAtTheEnd
PROPERTIES
  NobodyIsLeftWaiting
