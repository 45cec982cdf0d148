\* Two copies of an event, another one and a malformed message; one fault.
SPECIFICATION FairSpec
CONSTANTS
  Messages = {1, 2, 3, 4}
  Events = {"e1", "e2"}
  EventOf <- MCEventOf
  Malformed = {4}
  PrefetchCount = 2
  MaxAttempts = 2
  CacheSize = 1
  MaxFaults = 1
INVARIANTS
  AckedWasHandled
  DeadLettersAreHopeless
  NothingStuck
  ClosedIsQuiet
CHECK_DEADLOCK FALSE

PROPERTIES
  EveryMessageSettles
