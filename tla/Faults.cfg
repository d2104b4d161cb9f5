CONSTANTS
  a = a  b = b  n1 = n1  n2 = n2
  NoPPI = NoPPI  NoJob = NoJob
  PPIs = {a}
  Nodes = {n1}
  Name <- Distinct
  NodeHash <- Hash
  NodeNames <- Selected
  Matching <- AllMatch
  MaxAttempts <- NoRetry
  maxConcurrent = 1
  maxPerNode = 1
  PPILag = TRUE
  JobLag = TRUE
  ReadInTime = FALSE
  UserDeletes = {a}
  MaxCreates = 2
  MaxEdits = 1
  MaxFaults = 1
  MaxRestarts = 0
  GaugeBound = 2
VIEW SeenSucceeded
SPECIFICATION Spec
INVARIANTS
  TypeOK
  SlotsMatchPulling
  CompletedMeansPulled
  GaugeWithinLimiter
  DeletesOnlyDone
PROPERTIES
  LifecycleSpec
