\* Two relays, batches of up to two rows: two rows and one fault, or one row
\* and two faults.
SPECIFICATION FairSpec
CONSTANTS
  Events = {1, 2}
  Relays = {r1, r2}
  NoRelay = NoRelay
  BatchSize = 2
  MaxTrouble = 3
INVARIANTS
  PublishedWasDelivered
  LeasesAreExclusive
  NoLostWakeUp
  AttemptsCountCopies
PROPERTIES
  PromiseKept
