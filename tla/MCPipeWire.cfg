SPECIFICATION FairSpec
CONSTANTS
  Paths = {v0, v1}
  MaxGen = 2
  MaxEvents = 3
  Nums = {1}
  Burst = 2
CHECK_DEADLOCK FALSE
INVARIANTS
  MapTrue
  ToldTrue
  OwnFrames
PROPERTIES
  EventsHandled
