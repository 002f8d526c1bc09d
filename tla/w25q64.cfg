SPECIFICATION Spec
CONSTANTS
  PageSize = 2
  SectorSize = 4
  Total = 8
  MaxLen = 5
  MaxCalls = 2
INVARIANTS Confined Exact
PROPERTIES ImplementsNorFlash
CHECK_DEADLOCK FALSE
