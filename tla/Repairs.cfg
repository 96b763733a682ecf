SPECIFICATION FairSpec
CONSTANTS
  PackageIds = {1, 2, 3, 4}
  InitialOrders <- Orders
  Graphs <- AllGraphs
  MaxMoves = 24
INVARIANTS RepairedOrderIsLoadable ReportReplays RefusalIsJustified
PROPERTIES RepairEnds
CHECK_DEADLOCK FALSE
