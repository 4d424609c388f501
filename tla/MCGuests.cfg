SPECIFICATION Spec
CONSTANTS
  Scenarios = {"tslang", "broker", "roots"}
  None = None
  Off = Off
  Texts <- SomeTexts
  Sentinels = {"BOGOS"}
  ExitCodes = {0, 7}
  SourceHashes <- SomeHashes
  InputFiles <- SomeFiles
  BUFFER = 2
  LIMIT = 4
  MaxLines = 3
  FileContents = {"v1", "v2"}
  SignedContent = "v1"
  Requests <- SomeRequests
  Grants <- SomeGrants
  RuntimePaths = {"w", "x"}
  MaxRequests = 2
  WorkPaths = {"a", "b", "long", "empty"}
  WorkContents = {"x", "huge"}
  PathLength <- SomeLengths
  ContentSize <- SomeSizes
  MAX_OBJECTS = 3
  MAX_PATHS = 2
  MAX_CONTENT = 8
  MAX_PATH_B = 3
  MaxTried = 4
INVARIANTS  AccessesReceipted 
PROPERTIES EveryRunEnds
CHECK_DEADLOCK FALSE
