CONSTANTS
  d = d  c1 = c1  x = x  y = y  pol = pol  n1 = n1
  NoPPI = NoPPI  NoJob = NoJob  NoDeployment = NoDeployment  NoKey = NoKey
  NoImages = NoImages
  Deployments = {d}
  Policies = {pol}
  Containers = {c1}
  InitContainers = {}
  Images = {x, y}
  Nodes = {n1}
  PPIs <- TheKeys
  Namespace <- AppNamespace
  Labels <- AppLabels
  DeploymentName <- LongName
  Selector <- OnePolicy
  Key <- Keys
  ImageHash <- OfImage
  Templates <- OneImage
  Name <- Names
  NodeHash <- OfNode
  NodeNames <- OnNode
  Matching <- NoMatch
  MaxAttempts <- NoRetry
  maxConcurrent = 2
  maxPerNode = 2
  PPILag = FALSE
  JobLag = FALSE
  ReadInTime = TRUE
  UserDeletes <- TheKeys
  MaxCreates = 6
  MaxEdits = 0
  MaxFaults = 0
  MaxRestarts = 1
  GaugeBound = 2
  Touches = FALSE
  MaxDeployments = 1
  MaxDeploymentDeletes = 0
  MaxDeploymentEdits = 1
  MaxDeploymentFaults = 0
SYMMETRY Symmetry
VIEW SeenButPulled
SPECIFICATION KwarmSpec
INVARIANTS
  CompletedHasImage
  NoJobOutlivesOwner
PROPERTIES
  RolloutSpec
