\* Two orders and one fault, or one order and two faults; one piece or none.
SPECIFICATION FairSpec
CONSTANTS
  Orders = {o1, o2}
  None = None
  Requested <- MCRequested
  MaxStock = 1
  MaxTrouble = 3
INVARIANTS
  NothingForgotten
  NotifiedOnce
PROPERTIES
  PromiseKept
  ToldAsAssumed
  ReplayEnds
  EveryOrderConcludes
CHECK_DEADLOCK FALSE
