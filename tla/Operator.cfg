SPECIFICATION CommandsSpec
CONSTANTS
  i1 = i1
  i2 = i2
  n1 = n1
  n2 = n2
  Instances = {i1, i2}
  Namespaces = {n1, n2}
  None = None
  System = n1
  ClInstance = i1
  Setups <- MCSetups
  MaxFaults = 1
INVARIANT RemovedWithInstance
INVARIANT DeployCompletes
PROPERTY StatusSettles
PROPERTY DeletionEnds
 
PROPERTY DeleteLeavesNothing
CHECK_DEADLOCK FALSE
