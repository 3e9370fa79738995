\* Versioned puts, all of them within the advertised retry window, on an engine
\* whose window counts blocks: no DDL and no insert setting sizes it by time.
SPECIFICATION Spec
SYMMETRY SessionSymmetry
CONSTANTS
  k1 = k1  k2 = k2  v1 = v1  v2 = v2  sa = sa  sb = sb  p1 = p1  p2 = p2
  op1 = op1  op2 = op2  op3 = op3  op4 = op4
  Keys <- MCKeys
  Bodies <- MCBodies
  Scopes <- MCScopes
  Buckets <- MCBuckets
  BucketOfKey <- MCBucketOfKey
  Operations <- MCPutOperations
  Acceptable <- MCPutOperations
  DataOf <- MCPutData
  ScopeOf <- MCPutScope
  StableKeyOf <- MCPutKey
  AppendOnly = FALSE
  HasRetention = FALSE
  Sessions = {s1, s2}
  MaxBatchRows = 2
  EngineWindow = 1
  Skew = 0
  MaxClock = 2
  MaxWrites = 3
PROPERTIES RetryIdempotent
CHECK_DEADLOCK FALSE
