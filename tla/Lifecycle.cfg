CONSTANTS
  a = a  o = o  alarm = alarm
  Channels = {a}
  Operators = {o}
  Alarm = alarm
  NoProc = NoProc
  Configs <- Three
  MaxSub = 2
  MaxEvent = 2
SPECIFICATION FairSpec
CHECK_DEADLOCK FALSE
INVARIANTS RecordedOfEpoch ReadyNotDeleted RecoveryArmed
PROPERTIES ObligationKept OrphansEnd
