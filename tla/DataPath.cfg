SPECIFICATION DataPathSpec
CONSTANTS
  Conns = {c1, c2}
  Gateways = {g1}
  Exports = {e1}
  ClientData = 2
  ServiceData = 1
  Capacity = 1
INVARIANT ForwardedToService
INVARIANT NothingCutOff
 
 
CHECK_DEADLOCK FALSE
