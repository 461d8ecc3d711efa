\* A push while the operator handles the initial build.
CONSTANTS
  p1 = p1  s1 = s1  s2 = s2
  Pushes = {s1}
  Opened = {}
  Closed = {}
  PreviewSettings = {TRUE}
  MaxDeliveries = 2
  MaxFaults = 0
  MaxLag = 0
  Prod = Prod
  Initial = Initial
  NoTrigger = NoTrigger
  NoPr = NoPr
  NoImage = NoImage
  Placeholder = Placeholder
SPECIFICATION FairSpec
PROPERTY TriggerIsBuilt
CHECK_DEADLOCK FALSE
