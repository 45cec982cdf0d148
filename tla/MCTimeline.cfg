\* A known order and a stray event, two deliveries at a time, one reader, one fault;
\* for the view, up to two retries on a clock of four values.
SPECIFICATION FairSpec
CONSTANTS
  Orders = {"a", "x"}
  Known = {"a"}
  Workers = {w1, w2}
  Readers = {r1}
  None = None
  NotPublished = NotPublished
  StrayTypes = {"PaymentAuthorized"}
  MaxCopies = 1
  MaxFaults = 1
  Clock = {0, 1, 2, 3}
  MaxRetries = 2
INVARIANTS
  StatusReflectsTimeline
  ShownIsExplained
  ShownCausally
PROPERTIES
  EveryEventShows
CHECK_DEADLOCK FALSE
