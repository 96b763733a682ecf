SPECIFICATION Spec
CONSTANTS
  PackageId = "self"
  FirstUserId = 3
  FirstCompactId = 1
  CompactLimit = 4
  MaxLocalId = 6
  MaxDependencies = 3
  NoWorld = NoWorld
  InitialPackages <- Nestings
  Paths = {"a"}
  InitialPath = "a"
  NoFile = NoFile
  KnownIds <- RecordIds
  Payloads = {0, 1}
  Classes = {}
  Texts = {}
  OtherPackages = {}
  Rivals = {}
  StreamingLists = {}
  MaxBatch = 0
  MaxCalls = 1
PROPERTIES InsertionLandsInTarget
CHECK_DEADLOCK FALSE
