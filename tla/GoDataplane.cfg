SPECIFICATION DataplaneSpec
CONSTANTS
  Imports = {i1, i2}
  Ports = {1, 2}
  Clusters = {c1, c2}
  Endpoints = {1, 2}
  MaxGoroutines = 4
  MaxChanges = 3
  MaxRotations = 2
  MaxRestarts = 1
  MaxCrashes = 1
  MaxBreaks = 2
  MaxEvents = 3
INVARIANT NoStrayListener
 
 
PROPERTY StableRoutes
CHECK_DEADLOCK FALSE
