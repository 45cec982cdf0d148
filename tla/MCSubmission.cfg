\* Four requests on two keys, two faults.
SPECIFICATION FairSpec
CONSTANTS
  Requests = {1, 2, 3, 4}
  Keys = {"k1", "k2"}
  Bodies = {"b1", "b2"}
  KeyOf <- MCKeyOf
  BodyOf <- MCBodyOf
  NoOrder = NoOrder
  MaxFaults = 2
INVARIANTS
  StoredOnce
  AnswersAreTrue
PROPERTIES
  PromiseKept
CHECK_DEADLOCK FALSE
