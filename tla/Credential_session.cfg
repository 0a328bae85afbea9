CONSTANTS
  c1 = c1  c2 = c2
  Calls = {c1, c2}
  Alarm = c1
  NoCall = NoCall
  Hour = 2
  LeaseLength = 1
  Early = 0
  RetryDelay = 1
  CheckDelay = 1
  MaxFailures = 2
  Lifetimes = {1, 3}
  Never = 99
  LastCall = 2
  MaxTime = 4
  MaxInstance = 2
  MaxToken = 2
SPECIFICATION FairSpec
CHECK_DEADLOCK FALSE
INVARIANTS ValidatedHere SessionWatched
PROPERTIES KeepsSession HourlyCheck
