CONSTANTS
  r1 = r1  r2 = r2
  Requests = {r1, r2}
  Deliveries <- Numbers
  Delivery <- Samples
  BodyMs = 1  AgeMs = 1  SkewMs = 1
  AutocompleteMs = 1  RpcMs = 2
  MaxTime = 3  MaxChange = 2
SPECIFICATION IngressSpec
CHECK_DEADLOCK FALSE
INVARIANTS InTime
PROPERTIES Acknowledged Attributed
