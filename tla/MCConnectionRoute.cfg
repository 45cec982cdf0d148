\* Two publishers on a new broker: a queue misses an event.
SPECIFICATION Spec
CONSTANTS
  Publishers = {p1, p2}
  Supervisor = supervisor
  Topology <- MCTopology
  Route <- MCRoute
  OwnQueue = "inventory"
  MaxConnectionRetries = 2
  MaxFaults = 1
INVARIANT NothingMissed
