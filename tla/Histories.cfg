SPECIFICATION Spec
CONSTANTS
  NilPackage = "nil"
  NoAuthor = ""
  ChangeSetIds <- AllIds
  Bodies <- AllBodies
  Drafts <- AllDrafts
  Files <- AllFiles
  MaxCount = 5
INVARIANTS StoreIsClosed StoredIsVerified HistoryReadsBack AncestryIsExact SearchIsLinear
