CONSTANTS
  c1 = c1  c2 = c2  a1 = a1  p1 = p1  p2 = p2  ch1 = ch1
  Calls = {c1, c2}
  Attempts = {a1}
  Channels = {ch1}
  Prints = {p1, p2}
  NoPrint = NoPrint
  NoCall = NoCall
  ChannelOf <- OneAttempt
  Deadline <- OneDeadline
  Retention = 1
  GlobalWindow = 1
  GlobalMessages = 1
  ChannelSpacing = 1
  MaxAttempts = 1
  TokenRetry = 1
  AuthRetry = 1
  LimitRetry = 1
  Resets = {1}
  StaleClock = TRUE
  Overlap = FALSE
  MaxTime = 2
  MaxInstance = 2
  MaxSession = 1
SPECIFICATION FairSpec
CHECK_DEADLOCK FALSE
PROPERTIES KeepsPromise EveryCallAnswered
