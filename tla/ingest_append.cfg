\* Append-only evidence in a table whose partitions pass their retention: two
\* sessions with clocks that differ, an engine that forgets all but the last
\* deduplication token.
SPECIFICATION Spec
SYMMETRY SessionSymmetry
CONSTANTS
  k1 = k1  k2 = k2  v1 = v1  v2 = v2  sa = sa  sb = sb  p1 = p1  p2 = p2
  op1 = op1  op2 = op2  op3 = op3  op4 = op4
  Keys <- MCKeys
  Bodies <- MCBodies
  Scopes <- MCScopes
  Buckets <- MCBuckets
  BucketOfKey <- MCBucketOfKey
  Operations <- MCAppendOperations
  Acceptable <- MCAppendOperations
  DataOf <- MCAppendData
  ScopeOf <- MCAppendScope
  StableKeyOf <- MCAppendKey
  AppendOnly = TRUE
  HasRetention = TRUE
  Sessions = {s1, s2}
  MaxBatchRows = 2
  EngineWindow = 1
  Skew = 1
  MaxClock = 0
  MaxWrites = 2
INVARIANTS TypeOK AcknowledgedVisible
PROPERTIES RetryIdempotent ImplementsEvidenceLog
CHECK_DEADLOCK FALSE
