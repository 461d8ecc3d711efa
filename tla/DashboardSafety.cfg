\* Pipeline: two of a push, an opened and a closed pull request; one fault; a
\* cache one version behind.
CONSTANTS
  DashParts = {"pipeline", "accounts", "clusters"}
  p1 = p1  s1 = s1  s2 = s2
  Pushes = {s2}
  Opened <- OnePr
  Closed = {p1}
  PreviewSettings = {TRUE, FALSE}
  MaxDeliveries = 2
  MaxFaults = 1
  MaxLag = 1
  Prod = Prod
  Initial = Initial
  NoTrigger = NoTrigger
  NoPr = NoPr
  NoImage = NoImage
  Placeholder = Placeholder
\* Accounts: two users, two requests at a time, six in all; one fault.
  AcRequests = {1, 2}
  AcMaxUid = 2
  AcEmails = {1}
  AcIds = {1, 2}
  AcClaims <- SmallClaims
  AcMaxSessions = 2
  AcMaxFlows = 3
  AcMaxBegun = 6
  AcMaxFaults = 1
\* Clusters: a cluster, its successor, three tokens and two edits at a time.
  ClRequests = {1, 2}
  ClPks = {1, 2}
  ClMaxToken = 3
SPECIFICATION DashSpec
INVARIANTS OnlyBuiltImages SucceededIsPublished RestIsConverged
INVARIANTS DisabledPreviewsIgnored
INVARIANTS SessionsAreProvisioned LastTokenCounts
PROPERTIES LinksFollowIntent
CHECK_DEADLOCK FALSE
