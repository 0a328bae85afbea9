CONSTANTS
  m1 = m1  m2 = m2  short = short  long = long
  Messages = {m1}
  Plans = {short, long}
  NoPlan = NoPlan
  PartsOf <- Both
  Budget = 2
  Lease = 1
  DeliveryLease = 1
  FailureLease = 1
  Retention = 1
  WipeDelay = 0
  NoAlarm = 99
  RetryDelays = {1}
  Active = 1
  Retained = 1
  MaxAge = 1
  FutureSkew = 0
  SentAt <- SentOnce
  MaxDelay = 0
  MaxStale = 1
  LastReceipt = 1
  MaxTime = 4
  MaxActivation = 2
  MaxRefused = 1
SPECIFICATION FairSpec
CHECK_DEADLOCK FALSE
INVARIANTS PartsInOrder OnePlan SingleCaller 
 
