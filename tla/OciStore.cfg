SPECIFICATION Spec
CONSTANTS
  r = r
  s = s
  t = t
  p1 = p1
  p2 = p2
  cx = cx
  cy = cy
  ix = ix
  iy = iy
  linux = linux
  arm = arm
  None = None
  Processes = {p1, p2}
  Repos = {r, s}
  Tags = {t}
  Blobs = {cx, cy}
  Images = {ix, iy}
  ConfigOf <- MCConfigOf
  LayersOf <- MCLayersOf
  PlatformOf <- MCPlatformOf
  Offered <- MCOffered
  CleansDuringPulls = FALSE
  MaxRequests = 2
  MaxPeriods = 1
SYMMETRY Symmetry
INVARIANT TagsAreWhole
PROPERTY PlatformsAreKept
CHECK_DEADLOCK FALSE
