CONSTANTS
  v1 = v1  v2 = v2  x = x  y = y
  Visits = {v1, v2}
  NoVisit = NoVisit
  Channels = {x, y}
  NoChannel = NoChannel
  MaxRequest = 4
  MaxChanges = 1
SPECIFICATION WebsiteSpec
SYMMETRY Interchange
CHECK_DEADLOCK FALSE
INVARIANTS OneCommand
PROPERTIES AnswersCurrent ConsentMatches
