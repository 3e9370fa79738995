\* Versioned puts of one record read without FINAL, in two scopes.
SPECIFICATION Spec
CONSTANTS
  k1 = k1  k2 = k2  v1 = v1  v2 = v2  sa = sa  sb = sb
  Keys = {k1}
  Bodies <- MCBodies
  Scopes <- MCScopes
  Plans <- MCBodyPlans
  PageSizes = {1, 2}
  TimeOf <- MCTimeOf
  IdentityOf <- MCIdentityOf
  BodyRank <- MCBodyRank
  Digest <- MCDigest
  TextRank = 10
  AppendOnly = FALSE
  QueryFinal = FALSE
  Versions = {0, 1}
  MaxRows = 3
  MaxFetches = 2
INVARIANTS PagesAdvance TraversalComplete ScopeKept
CHECK_DEADLOCK FALSE
