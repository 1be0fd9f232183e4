SPECIFICATION FairSpec
CONSTANTS
  Empty = Empty
  Card = Card
  Setups <- EachDisplay
  Modulus = 16
  MinTemp = 3
  MaxTemp = 9
  Requests = {2, 3, 9}
  Steps = {0, 2, 8}
  Seen <- Reading
CHECK_DEADLOCK FALSE
INVARIANTS
  SignalledApplied
  RegisteredOnce
PROPERTIES
  TowardTarget
  TransitionsEnd
