\* The same inputs: wire plans that offer the range as one alternative.
SPECIFICATION Spec
CONSTANTS
  Horizon = 6
  Second = 2
  MaxSeconds = 2
  Base = 3
  Digits = 3
  MicroDigits = 2
  TickLimit = 40
  IntLimit = 4
  Scale = 1
  Precision = 2
  Fields = {"t", "i", "d"}
  HiddenRow = "row"
  HiddenScope = "scope"
  Filters <- Expressions
  Height <- MCHeight
  Inputs <- MCInputs
INVARIANTS WireScansBounded
CHECK_DEADLOCK FALSE
