\* One connection without heartbeats and three calls, and more worker threads than
\* tasks that can block.
SPECIFICATION FairSpec
CONSTANTS
  a1 = a1  a2 = a2  k1 = k1  k2 = k2
  Agents = {a1}
  Clusters = {k1}
  Conns = {c1}
  Cmds = {m1, m2, m3}
  Called = {k1}
  Announce <- AnyAnnounce
  Beating = {}
  Workers = 3
  Cap = 1
  OutCap = 1
  None = None
CHECK_DEADLOCK FALSE
PROPERTY SendReturns
