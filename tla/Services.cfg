SPECIFICATION ServicesSpec
CONSTANTS
  x1 = x1
  x2 = x2
  x3 = x3
  r1 = r1
  r2 = r2
  c = c
  d = d
  p = p
  q = q
  Settings <- MCSettings
  Limit <- MCLimit
  Nobody = Nobody
  Unmade = Unmade
  Tree <- MCTree
  Directions = {"both", "push", "pull"}
  MaxEdits = 3
  MaxChanges = 3
  MaxFaults = 1
  Addresses = {x1, x2, x3}
  Slots = {r1, r2}
  Attempts = 2
  Lockout = 2
  EvictAbove = 1
  SweepEvery = 1
  MaxTracked = 2
  ShedBatch = 1
  Leeway = 1
  MaxTime = 4
  MaxReloads = 1
  MaxLogins = 2
  Jobs = {r1, r2}
  Selections = {c, d}
  k1 = k1
  k2 = k2
  t1 = t1
  t2 = t2
  PackageNames = {1, 2}
  PackageKinds = {"rpm", "fdroid", "jellyfin"}
  Configs <- MCConfigs
  PackageFiles <- MCPackages
  KeepNewest = 1
  MaxClock = 1
  MaxPackages = 2
  MaxRestarts = 1
SYMMETRY Symmetry
INVARIANT GuessesAreBounded
INVARIANT SessionsEnd
INVARIANT JobsEndAsTheySay
PROPERTY SyncIsTrue
PROPERTY KeepsItsRepository
CHECK_DEADLOCK FALSE
