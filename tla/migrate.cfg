\* Standalone: two jobs, three calls of apply, one runtime that starts and stops.
SPECIFICATION Spec
SYMMETRY JobSymmetry
CONSTANTS
  legacy = legacy  month = month  year = year  narrow = narrow  wide = wide
  NoLayout = NoLayout
  Layouts <- MCLayouts
  ResourceOf <- MCResourceOf
  TableOf <- MCTableOf
  ColumnsOf <- MCColumnsOf
  OrderOf <- MCOrderOf
  RetentionOf <- MCRetentionOf
  IsAppendOnly <- MCIsAppendOnly
  Bundles <- MCBundles
  Jobs = {j1, j2}
  Runtimes = {r1}
  EngineWindow = 0
  MaxApplies = 3
INVARIANTS MetadataBacked AppliedIsSelected ReadyIsPhysical
CHECK_DEADLOCK FALSE
