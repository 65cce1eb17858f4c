SPECIFICATION FairIngressSpec
CONSTANTS
  r1 = r1
  r2 = r2
  e1 = e1
  Replicas = {r1, r2}
  Exports = {e1}
  jwtExpirySeconds = 2
  MaxKeys = 3
  MaxTime = 3
  MaxTokens = 1
  MaxIngressChanges = 2
INVARIANT AccessEndsAfterDeletion
PROPERTY KeyShared
CHECK_DEADLOCK FALSE
