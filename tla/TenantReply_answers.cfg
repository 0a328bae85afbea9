CONSTANTS
  m1 = m1  m2 = m2  r1 = r1  r2 = r2  r3 = r3
  Messages = {m1, m2}
  Requests = {r1, r2, r3}
  MessageOf <- TwoInteractions
  Budget = 3
  Compute = 2
  Retention = 2
  Reads = 3
  Spacing = 1
  Retained = 2
  Active = 1
  MaxStale = 1
  WipeDelay = 1
  NoAlarm = 99
  LastReceipt = 1
  MaxTime = 6
  MaxActivation = 2
SPECIFICATION FairSpec
CHECK_DEADLOCK FALSE
INVARIANTS OneAnswer ComputedOnce
PROPERTIES EveryRequestEnds
