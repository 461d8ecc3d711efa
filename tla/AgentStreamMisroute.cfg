\* One agent id that two clusters announce, one after the other.
SPECIFICATION Spec
CONSTANTS
  a1 = a1  a2 = a2  k1 = k1  k2 = k2
  Agents = {a1}
  Clusters = {k1, k2}
  Conns = {c1, c2}
  Cmds = {m1}
  Called = {k1, k2}
  Announce <- AnyAnnounce
  Beating = {}
  Workers = 1
  Cap = 1
  OutCap = 1
  None = None
INVARIANT RoutedToItsCluster
CHECK_DEADLOCK FALSE
