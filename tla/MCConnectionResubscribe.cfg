\* One publisher, one fault: nobody subscribes again.
SPECIFICATION FairSpec
CONSTANTS
  Publishers = {p1}
  Supervisor = supervisor
  Topology <- MCTopology
  Route <- MCRoute
  OwnQueue = "inventory"
  MaxConnectionRetries = 2
  MaxFaults = 1
PROPERTY Resubscribes
