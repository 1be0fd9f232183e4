SPECIFICATION Spec
CONSTANTS
  IllMax = 2
  IllMin = 0
  Parsed <- Around
  Illuminances <- Printed
  Unset = Unset
  Supported = {"ALS", "YOCTOLIGHT", "CAMERA", "CUSTOM"}
  Pluggable = {"CAMERA", "CUSTOM"}
  Scripts = {a, b}
  MaxPending = 2
  Values = {1}
  MaxCaptures = 2
  Nums = {0, 2, 3}
CHECK_DEADLOCK FALSE
SYMMETRY Perms
INVARIANTS
  ReplyIsTaken
  ErrorOnlyIfNothing
  NoDeviceLeft
  FrameIsRatio
  RemovalTold
