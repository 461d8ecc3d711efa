\* A pull request after the first production build.
CONSTANTS
  p1 = p1  s1 = s1  s2 = s2
  Pushes = {}
  Opened <- OnePr
  Closed = {}
  PreviewSettings = {TRUE}
  MaxDeliveries = 2
  MaxFaults = 0
  MaxLag = 0
  Prod = Prod
  Initial = Initial
  NoTrigger = NoTrigger
  NoPr = NoPr
  NoImage = NoImage
  Placeholder = Placeholder
SPECIFICATION FairSpec
PROPERTY KeepsBuiltImage
CHECK_DEADLOCK FALSE
