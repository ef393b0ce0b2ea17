SPECIFICATION DataSpec
CONSTANTS
  Plans <- const_Plans
  PhysPlans <- const_PhysPlans
  FileNames <- const_FileNames
INVARIANTS RestoredIsSource RoutesAreSource FilesAreSource
CHECK_DEADLOCK FALSE
