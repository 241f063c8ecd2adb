SPECIFICATION TableSpec
CONSTANTS
  k1 = k1
  k2 = k2
  k3 = k3
  k4 = k4
  v1 = v1
  v2 = v2
  NULL = NULL
  Key = {k1, k2, k3, k4}
  Value = {v1, v2}
  Hash <- MCHash
  HashMod = 32
  StartBuckets = 2
  MaxChain = 1
  MaxBuckets = 4
  MaxSize = 3
INVARIANTS TableTypeOK GatherFits IterVisitsAll
PROPERTIES IsMap InsertEnds
CHECK_DEADLOCK FALSE
