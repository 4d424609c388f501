SPECIFICATION Spec
CONSTANTS
  Scenarios = {"ledger_two"}
  None = None
  Torn = Torn
  Absent = Absent
  Off = Off
  Alone = p1
  Pair = {p1, p2}
  StatePaths = {"a"}
  StateContents = {x, y}
  MaxEntries = 4
  MaxTornEntries = 3
  MaxPairEntries = 3
  MaxDeaths = 1
  MaxReceipts = 4
  PackageKeys = {"app", "lib"}
  PackageTrees = {"t1", "t2"}
  SigningKeys = {"ours", "theirs"}
  TrustedKeys = {"ours"}
  OwnKey = "ours"
  MaxEvents = 5
  Devices = {"serial", "timer"}
  MemoryRanges <- TouchingRanges
  MaxTick = 2
  MaxCalls = 4
  MeshPeers = {"a", "b"}
  OwnPeer = "a"
  Values = {"v1", "v2"}
  Contexts = {"main"}
  Namespaces = {"pkg"}
  Authorities = {0, 1}
  Supports = {0, 1, 2}
  MaxMeshClaims = 3
  SwarmCosts = {0, 2, 3}
  SwarmScores = {1, 2}
  SwarmCells = 2
  SwarmBudget = 4
  MaxCandidates = 3
SYMMETRY Interchangeable
INVARIANT LostReceiptDetected
CHECK_DEADLOCK FALSE
