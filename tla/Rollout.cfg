CONSTANTS
  d = d  c1 = c1  c2 = c2  x = x  y = y
  NoPPI = NoPPI  NoDeployment = NoDeployment  NoKey = NoKey  NoImages = NoImages
  Deployments = {d}
  Policies = {pol}
  Containers = {c1}
  InitContainers = {c2}
  Images = {x, y}
  Namespace <- AppNamespace
  Labels <- AppLabels
  Name <- ShortName
  Selector <- OnePolicy
  Key <- OwnKeys
  ImageHash <- Hash
  Templates <- Rollouts
  Lag = TRUE
  Touches = TRUE
  MaxCreates = 1
  MaxDeletes = 0
  MaxEdits = 1
  MaxPolicyEdits = 1
  MaxFaults = 1
  MaxOutages = 1
  MaxRestarts = 1
SPECIFICATION Spec
INVARIANTS
  TypeOK
  RecordedMeansCovered
