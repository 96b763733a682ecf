SPECIFICATION CursorSpec
CONSTANTS
  PackageId = "self"
  FirstUserId = 3
  FirstCompactId = 1
  CompactLimit = 4
  MaxLocalId = 6
  MaxDependencies = 3
  NoWorld = NoWorld
  InitialPackages <- ScenePackages
  Paths = {"a", "b"}
  InitialPath = "a"
  NoFile = NoFile
  KnownIds <- SceneIds
  Payloads = {0, 1}
  Classes = {"Full"}
  Texts = {0, 1}
  OtherPackages = {"base"}
  Rivals = {"self", "rival"}
  StreamingLists <- Overrides
  MaxBatch = 0
  MaxCalls = 3
  Unchecked <- ReadPackages
  NoSource = NoSource
  MaxCallsBefore = 1
INVARIANTS CleanHandleMatchesFile HeaderReadsBack FieldsCountOnce CursorAgreesWithIndex
PROPERTIES SavedSceneOffsetsAreExact
CHECK_DEADLOCK FALSE
