SPECIFICATION Spec
CONSTANTS
  Node = {n1, n2, n3}
  Claim = {"p"}
  Block = {"d"}
  Programs <- OnlyData
  DataBases = {"repeat_byte", "ramp_u8", "no_such_basis"}
  Starts = {255}
  Lengths = {0, 2}
  Deltas = {0}
  Patches <- SomePatches
  Hashes <- SomeHashes
  ENERGY_LIMIT = 1500
  None = None
SYMMETRY Interchangeable
INVARIANT AcceptedBytesVerified
CHECK_DEADLOCK FALSE
