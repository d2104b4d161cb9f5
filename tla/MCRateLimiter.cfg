CONSTANTS
  Nodes = {n1, n2, n3, n4}
  maxConcurrent = 5
  maxPerNode = 0
SPECIFICATION Spec
INVARIANTS
  TypeOK
  LimitsHold
  ClusterWithinNodes
