SPECIFICATION PodSpec
CONSTANTS
  p1 = p1
  p2 = p2
  p3 = p3
  ip1 = ip1
  ip2 = ip2
  host = host
  NoIP = NoIP
  NoPod = NoPod
  Pods = {p1, p2, p3}
  IPs = {ip1, ip2, host}
  HostIPs = {host}
  MaxPodChanges = 6
INVARIANT RunningPodFound
INVARIANT GonePodForgotten
CHECK_DEADLOCK FALSE
