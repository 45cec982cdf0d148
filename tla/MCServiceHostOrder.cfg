\* One instance, one signal.
SPECIFICATION Spec
CONSTANTS
  Instances = {1}
  Known <- MCKnown
  Tasks = {"relay"}
  MaxFaults = 1
INVARIANT StopsInOrder
CHECK_DEADLOCK FALSE
