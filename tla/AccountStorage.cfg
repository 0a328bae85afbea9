CONSTANTS
  a = a  b = b  s = s  x = x
  Channels = {a, b}
  Sessions = {s}
  Subs = {x}
  Times = {1, 2}
  MaxStep = 5
SPECIFICATION StorageSpec
CHECK_DEADLOCK FALSE
INVARIANTS AlarmCovers
PROPERTIES KeepsAccount
