SPECIFICATION FairSpec
CONSTANTS
  a = a
  b = b
  NoName = NoName
  Names = {a, b}
  SystemNames = {a}
  startPort = 2
  endPort = 5
  MaxPort = 5
  UserPorts = {2}
  MaxAddress = 2
  Environments <- MCEnvironments
INVARIANT ValidImportServed
 
 
 
PROPERTY UserServiceKept
PROPERTY Settles
CHECK_DEADLOCK FALSE
