SPECIFICATION HandleSpec
CONSTANTS
  PackageIds = {1, 2, 3}
  Versions = {1, 2}
  Classes = {"Full", "Compact", "Overlay"}
  FullSlots = 2
  LocalSpan = 4
  CompactSlots = 2
  CompactSpan = 2
  Inputs <- AllInputs
INVARIANTS BuiltInDependencyOrder OneRuntimeIdPerRecord SerializingInvertsResolving LastStreamingOverrideWins ChainsAreComplete OverridesFollowOwner AvailableIsLargestSelfSufficient InspectionForetellsBuild EnumerationFindsWinners
CHECK_DEADLOCK FALSE
