SPECIFICATION FairSpec
CONSTANTS
  lcd = lcd
  ext = ext
  Devices = {lcd}
  Internal = {lcd}
  Flaky = {lcd}
  Full = 6
  MaxOf <- Maxima
  Targets = {0, 1, 3, 6}
  Steps = {0, 1, 2, 3}
  MaxEvents = 1
PROPERTIES
  EverySmoothEnds
CHECK_DEADLOCK FALSE
