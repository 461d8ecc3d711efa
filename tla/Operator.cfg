\* Pipeline: a pull request opens and closes, previews enabled or not; one
\* fault; a cache one version behind.
CONSTANTS
  OpParts = {"pipeline", "credentials"}
  p1 = p1  s2 = s2
  Pushes = {}
  Opened <- OnePr
  Closed = {p1}
  PreviewSettings = {TRUE, FALSE}
  MaxDeliveries = 2
  MaxFaults = 1
  MaxLag = 1
  Prod = Prod
  Initial = Initial
  NoTrigger = NoTrigger
  NoPr = NoPr
  NoImage = NoImage
  Placeholder = Placeholder
\* Credentials: three tenant actions or faults, Redis turned off and on, a cache
\* up to two versions behind.
  web = web  worker = worker
  Consumers = {web, worker}
  MaxUid = 4
  MaxGen = 5
  RcMaxFaults = 3
  MaxToggles = 2
  RcMaxLag = 2
  LagUntil = 8
  None = None
SPECIFICATION FairOpSpec
INVARIANTS OnlyApproved OwnSecretRecognised RestIsSettled
PROPERTIES PipelineConverges CredentialsCatchUp
CHECK_DEADLOCK FALSE
