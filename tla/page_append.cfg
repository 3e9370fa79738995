\* Append-only evidence read through FINAL.
SPECIFICATION Spec
CONSTANTS
  k1 = k1  k2 = k2  v1 = v1  v2 = v2  sa = sa  sb = sb
  Keys <- MCKeys
  Bodies <- MCBodies
  Scopes = {sa}
  Plans <- MCPlans
  PageSizes = {1}
  TimeOf <- MCTimeOf
  IdentityOf <- MCIdentityOf
  BodyRank <- MCBodyRank
  Digest <- MCDigest
  TextRank = 10
  AppendOnly = TRUE
  QueryFinal = TRUE
  Versions = {0}
  MaxRows = 3
  MaxFetches = 3
INVARIANTS PagesAdvance TraversalComplete
CHECK_DEADLOCK FALSE
