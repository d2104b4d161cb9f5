CONSTANTS
  d = d  c1 = c1  c2 = c2  x = x  y = y
  NoPPI = NoPPI  NoDeployment = NoDeployment  NoKey = NoKey  NoImages = NoImages
  Deployments = {d}
  Policies = {pol}
  Containers = {c1}
  InitContainers = {c2}
  Images = {x, y}
  Namespace <- AppNamespace
  Labels <- AppLabels
  Name <- LongName
  Selector <- OnePolicy
  Key <- OwnKeys
  ImageHash <- Hash
  Templates <- OneImage
  Lag = FALSE
  Touches = TRUE
  MaxCreates = 1
  MaxDeletes = 1
  MaxEdits = 1
  MaxPolicyEdits = 0
  MaxFaults = 1
  MaxOutages = 0
  MaxRestarts = 1
SPECIFICATION FairSpec
INVARIANTS
  RecordedMeansCovered
PROPERTIES
  ImagesArePulled
