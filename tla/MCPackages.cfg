SPECIFICATION Spec
CONSTANTS
  Scenarios = {"store", "store_two", "cells", "cells_pilot", "os", "os_quiet", "os_pair", "codec"}
  None = None
  Torn = Torn
  Failed = Failed
  Off = Off
  one = one
  two = two
INVARIANTS InstallsVerify CellsKeepToSource  PackingExact
PROPERTIES ListedStays
CHECK_DEADLOCK FALSE
