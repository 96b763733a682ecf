SPECIFICATION Spec
CONSTANTS
  PackageId = "self"
  FirstUserId = 3
  FirstCompactId = 1
  CompactLimit = 4
  MaxLocalId = 6
  MaxDependencies = 3
  NoWorld = NoWorld
  InitialPackages <- ScenePackages
  Paths = {"a"}
  InitialPath = "a"
  NoFile = NoFile
  KnownIds <- SceneIds
  Payloads = {0, 1}
  Classes = {"Full"}
  Texts = {0, 1}
  OtherPackages = {"base"}
  Rivals = {"self", "rival"}
  StreamingLists <- Overrides
  MaxBatch = 0
  MaxCalls = 2
PROPERTIES RemovalIsAccepted
CHECK_DEADLOCK FALSE
