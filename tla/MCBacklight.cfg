SPECIFICATION FairSpec
CONSTANTS
  lcd = lcd
  ext = ext
  Devices = {lcd, ext}
  Internal = {lcd}
  Flaky = {ext}
  Full = 4
  MaxOf <- Maxima
  Targets = {1, 5}
  Steps = {0, 2}
  MaxEvents = 2
INVARIANTS
  CacheInSync
  SignalInSync
  MapInSync
PROPERTIES
  TowardTarget
  SmoothEnds
CHECK_DEADLOCK FALSE
