CONSTANTS
  a = a  b = b  n1 = n1  n2 = n2
  NoPPI = NoPPI  NoJob = NoJob
  PPIs = {a}
  Nodes = {n1}
  Name <- Distinct
  NodeHash <- Hash
  NodeNames <- OnOne
  Matching <- NoneMatch
  MaxAttempts <- OneRetry
  maxConcurrent = 3
  maxPerNode = 3
  PPILag = FALSE
  JobLag = FALSE
  ReadInTime = TRUE
  UserDeletes = {}
  MaxCreates = 1
  MaxEdits = 0
  MaxFaults = 2
  MaxRestarts = 1
  GaugeBound = 2
SPECIFICATION FairSpec
INVARIANTS
  FailedMeansNotSucceeded
PROPERTIES
  Settles
  IsCleanedUp
  LifecycleSpec
