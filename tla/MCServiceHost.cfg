\* An instance of the old and one of the new release, two tasks, three faults.
SPECIFICATION FairSpec
CONSTANTS
  Instances = {1, 2}
  Known <- MCKnown
  Tasks = {"supervisor", "relay"}
  MaxFaults = 3
INVARIANTS
  MigratedInOrder
  ServesWithSchema
PROPERTIES
  CleanExit
  Settles
CHECK_DEADLOCK FALSE
