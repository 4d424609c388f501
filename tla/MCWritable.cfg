SPECIFICATION Spec
CONSTANTS
  Path = {"shared", "fill", "readonly", "hashfail"}
  Writable = {"shared", "fill", "hashfail"}
  HashFail = {"hashfail"}
  Pid = {p1, p2, static}
  Admitted = {p1, p2}
  Block = {0, 1}
  Zero = 0
  MAX_FILE_SIZE = 2
  TOTAL_CAPACITY = 3
  VERSIONS = 8
  MaxVersion = 2
  None = None
SYMMETRY Interchangeable
INVARIANTS CommittedVerifies StatBracketsRead CapacityKept
CHECK_DEADLOCK FALSE
