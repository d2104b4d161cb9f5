CONSTANTS
  pol = pol  other = other  d1 = d1  d2 = d2
  NoPolicy = NoPolicy  NoDeployment = NoDeployment
  Policies = {pol}
  Selectors <- Choices
  Deployments = {d1, d2}
  Namespaces = {"apps", "ops", ""}
  Namespace <- Places
  LabelSets <- Labels
  MaxEdits = 2
  MaxChanges = 1
  MaxSeconds = 1
  MaxFaults = 1
  MaxRestarts = 1
SPECIFICATION FairSpec
INVARIANTS
  TypeOK
  ReadyMeansCounted
  SelfWakeEnds
PROPERTIES
  CountSettles
  GaugeSettles
