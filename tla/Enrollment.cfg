CONSTANTS
  a = a  b = b  s1 = s1  s2 = s2  d1 = d1  d2 = d2  o = o  k1 = k1  k2 = k2
  Channels = {a, b}
  Sender = Sender
  Sessions = {s1, s2}
  Digests = {d1, d2}
  Operators = {o}
  Calls = {k1, k2}
  NoCall = NoCall
  Configured = {a}
  MaxChannels = 1
  MaxIntents = 1
  MaxOAuth = 2
  MaxRevision = 2
  MaxRemoval = 2
SPECIFICATION Spec
CHECK_DEADLOCK FALSE
INVARIANTS NoResurrection Capacity SessionsAgree
PROPERTIES StatusForward
SYMMETRY Symmetry
