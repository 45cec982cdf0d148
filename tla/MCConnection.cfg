\* Two publishers and the supervisor, three queues, three faults.
SPECIFICATION FairSpec
CONSTANTS
  Publishers = {p1, p2}
  Supervisor = supervisor
  Topology <- MCTopology
  Route <- MCRoute
  OwnQueue = "inventory"
  MaxConnectionRetries = 2
  MaxFaults = 3
INVARIANTS
  NoLeak
  SessionIsCurrent
  ClosedForGood
PROPERTIES
  CallsReturn
  TopologyCompletes
  ResubscribesAlone
