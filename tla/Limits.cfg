CONSTANTS
  a = a  b = b  n1 = n1  n2 = n2
  NoPPI = NoPPI  NoJob = NoJob
  PPIs = {a, b}
  Nodes = {n1, n2}
  Name <- Distinct
  NodeHash <- Hash
  NodeNames <- Mixed
  Matching <- NoneMatch
  MaxAttempts <- NoRetry
  maxConcurrent = 2
  maxPerNode = 1
  PPILag = FALSE
  JobLag = FALSE
  ReadInTime = FALSE
  UserDeletes = {}
  MaxCreates = 1
  MaxEdits = 0
  MaxFaults = 0
  MaxRestarts = 0
  GaugeBound = 2
VIEW SeenButPulled
SPECIFICATION Spec
INVARIANTS
  SlotsMatchPulling
  JobsWithinLimit
  SummaryMatchesNodes
PROPERTIES
  CleanupSparesOthers
