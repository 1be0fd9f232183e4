SPECIFICATION Spec
CONSTANTS
  IllMax = 2
  IllMin = 0
  Parsed <- Around
  Illuminances <- Printed
  Unset = Unset
  Supported = {"ALS"}
  Pluggable = {}
  Scripts = {}
  MaxPending = 1
  Values = {1, 2}
  MaxCaptures = 2
  Nums = {0, 2, 3}
CHECK_DEADLOCK FALSE
INVARIANTS
  FramesActuallyCaptured
