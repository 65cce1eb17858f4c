SPECIFICATION FairPeerSpec
CONSTANTS
  NoPeer = NoPeer
  Peers = {peer1, peer2}
  MaxMonitors = 4
  healthyThreshold = 2
  unhealthyThreshold = 2
  MaxPeerChanges = 3
INVARIANT OneMonitorPerPeer
 
 
CHECK_DEADLOCK FALSE
