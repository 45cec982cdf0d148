\* Two deliveries at a time of three competing orders, each sent once or twice.
SPECIFICATION FairSpec
CONSTANTS
  Orders = {1, 2, 3}
  NoOrder = NoOrder
  MaxCopies = 2
  MaxFaults = 1
  Products <- MCProducts
  Stocked <- MCStocked
  Workers = {w1, w2}
  InitialStock <- MCInitialStock
  Items <- MCItems
INVARIANTS
  BackstopsNeverFire
  NoWaitCycle
  AckedIsDecided
  StockMatchesReservations
CHECK_DEADLOCK FALSE

PROPERTIES
  PromiseKept
