SPECIFICATION ControlPlaneSpec
CONSTANTS
  Peers = {p1}
  Versions = 4
  Broken = {2}
  Nameless = {3}
  MaxEnds = 1
  N = 3
  Servers = {3}
  Sticky = {1, 3}
INVARIANT ConsumersAgree
 
 
CHECK_DEADLOCK FALSE
