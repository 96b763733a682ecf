SPECIFICATION Spec
CONSTANTS
  PackageId = "self"
  FirstUserId = 3
  FirstCompactId = 1
  CompactLimit = 4
  MaxLocalId = 6
  MaxDependencies = 3
  NoWorld = NoWorld
  InitialPackages <- FlatPackages
  Paths = {"a"}
  InitialPath = "a"
  NoFile = NoFile
  KnownIds <- FlatIds
  Payloads = {0}
  Classes = {"Full", "Compact", "Overlay"}
  Texts = {0}
  OtherPackages = {"other"}
  Rivals = {}
  StreamingLists = {}
  MaxBatch = 0
  MaxCalls = 3
PROPERTIES DependencyIsAdded
CHECK_DEADLOCK FALSE
