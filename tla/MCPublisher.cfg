\* Three publications of two events, two faults.
SPECIFICATION FairPublisherSpec
CONSTANTS
  Events = {e1, e2}
  MaxPublications = 3
  MaxChannelFaults = 2
PROPERTIES
  PromiseKept
  EveryPublicationEnds
CHECK_DEADLOCK FALSE
