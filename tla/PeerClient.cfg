SPECIFICATION FairClientSpec
CONSTANTS
  g1 = g1
  g2 = g2
  g3 = g3
  Main = Main
  clients = {g1, g2, g3}
INVARIANT ReturnIsJustified
INVARIANT NobodyLeftSending
PROPERTY CallReturns
CHECK_DEADLOCK FALSE
