CONSTANTS
  k1 = k1  k2 = k2  k3 = k3  c1 = c1  c2 = c2
  Keys = {k1, k2, k3}
  Schedules = {k3}
  Calls = {c1, c2}
  Fresh = 1
  ScheduleFresh = 1
  Fallback = 1
  Cooldown = 1
  Timeout = 1
  Margin = 1
  MaxKeys = 2
  MaxEntry = 1
  MaxCache = 1
  Sizes = {1}
  MaxStale = 1
  MayReset = TRUE
  MaxTime = 2
  MaxVersion = 2
  MaxInstance = 2
  MaxGeneration = 3
SPECIFICATION Spec
SYMMETRY Interchange
CHECK_DEADLOCK FALSE
INVARIANTS Bounded
PROPERTIES NewerStays UsableStays
