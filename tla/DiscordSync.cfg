CONSTANTS
  j1 = j1  j2 = j2  m1 = m1  m2 = m2
  Jobs = {j1, j2}
  Kind <- Kinds
  RevisionOf <- Two
  Revisions = {1, 2}
  Manifest <- Commands
  Other = Other
  Retries = 3
  Budget = 5
  Timeout = 2
  Backoff = 1
  Delays = {2}
  MaxAlien = 2
SPECIFICATION SyncSpec
CHECK_DEADLOCK FALSE
INVARIANTS ChangeReported Registered
PROPERTIES WritesJustified
