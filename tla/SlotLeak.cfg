CONSTANTS
  a = a  b = b  n1 = n1  n2 = n2
  NoPPI = NoPPI  NoJob = NoJob
  PPIs = {a}
  Nodes = {n1}
  Name <- Distinct
  NodeHash <- Hash
  NodeNames <- OnOne
  Matching <- NoneMatch
  MaxAttempts <- NoRetry
  maxConcurrent = 2
  maxPerNode = 2
  PPILag = TRUE
  JobLag = FALSE
  ReadInTime = FALSE
  UserDeletes = {}
  MaxCreates = 1
  MaxEdits = 0
  MaxFaults = 0
  MaxRestarts = 0
  GaugeBound = 2
SPECIFICATION FairSpec
PROPERTIES
  SlotsReturned
