\* A bundle with another retention, applied over the table of an earlier one.
SPECIFICATION Spec
SYMMETRY JobSymmetry
CONSTANTS
  legacy = legacy  month = month  year = year  narrow = narrow  wide = wide
  NoLayout = NoLayout
  Layouts <- MCLayouts
  ResourceOf <- MCResourceOf
  TableOf <- MCTableOf
  ColumnsOf <- MCColumnsOf
  OrderOf <- MCOrderOf
  RetentionOf <- MCRetentionOf
  IsAppendOnly <- MCIsAppendOnly
  Bundles <- MCBundles
  Jobs = {j1}
  Runtimes = {r1}
  EngineWindow = 0
  MaxApplies = 3
INVARIANTS NeverRelabelled
CHECK_DEADLOCK FALSE
