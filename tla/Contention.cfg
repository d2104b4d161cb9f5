CONSTANTS
  a = a  b = b  n1 = n1  n2 = n2
  NoPPI = NoPPI  NoJob = NoJob
  PPIs = {a, b}
  Nodes = {n1}
  Name <- Distinct
  NodeHash <- Hash
  NodeNames <- OnOne
  Matching <- NoneMatch
  MaxAttempts <- NoRetry
  maxConcurrent = 1
  maxPerNode = 2
  PPILag = FALSE
  JobLag = FALSE
  ReadInTime = FALSE
  UserDeletes = {}
  MaxCreates = 1
  MaxEdits = 0
  MaxFaults = 0
  MaxRestarts = 0
  GaugeBound = 2
SPECIFICATION FairSpec
INVARIANTS
  JobsWithinLimit
PROPERTIES
  Settles
  SlotsReturned
