SPECIFICATION Spec
CONSTANTS
  PackageId = "self"
  SourceId = "source"
  FirstUserId = 3
  FirstCompactId = 1
  CompactLimit = 7
  MaxLocalId = 8
  MaxDependencies = 3
  NoWorld = NoWorld
  Destinations <- OpenDestinations
  Sources <- OpenSources
  Options <- MCOptions
  ReferenceSignatures = {"REFS"}
  ReplaceRecord = ReplaceRecord
  MergeId = MergeId
  NoPackage = NoPackage
INVARIANTS MergedPackageOpens RestIsKept TakenOverWithItsPlace MergeBringsNoIssues ReferencesNameTheSameRecord ChangeSetTellsTheDifference
CHECK_DEADLOCK FALSE
