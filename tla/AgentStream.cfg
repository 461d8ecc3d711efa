\* An agent id that two clusters announce and one that is its cluster's alone;
\* two connections, one of which lives to send heartbeats; two calls; channels of
\* one place, so that they fill up.
CONSTANTS
  a1 = a1  a2 = a2  k1 = k1  k2 = k2
  Agents = {a1, a2}
  Clusters = {k1, k2}
  Conns = {c1, c2}
  Cmds = {m1, m2}
  Called = {k1}
  Announce <- MixedAnnounce
  Beating = {c1}
  Workers = 1
  Cap = 1
  OutCap = 1
  None = None
SPECIFICATION FairSpec
INVARIANTS ReceiverOutlivesEntry StreamIntegrity 
PROPERTIES OwnerUnregisters ImplementsLink  
CHECK_DEADLOCK FALSE
