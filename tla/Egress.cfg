SPECIFICATION FairSpec
CONSTANTS
  r1 = r1
  r2 = r2
  sourceCount = 3
  Requests = {r1, r2}
  MaxRequests = 2
  MaxHealthy = 8
  Schemes = {"random", "round-robin", "static"}
  CounterBits = 2
INVARIANT NoSourceSkipped
INVARIANT RoundRobinBalanced
 
CHECK_DEADLOCK FALSE
