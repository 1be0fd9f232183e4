SPECIFICATION Spec
CONSTANTS
  Keyboards = {k1, k2}
  Flaky = {k1}
  Reporting = {k2}
  Full = 2
  MaxOf <- OnOff
  Targets <- Requests
  Timeouts = {0, 2}
  MaxEvents = 2
INVARIANTS
  KnownInSync
  ToldInSync
PROPERTIES
  YesMeansAll
CHECK_DEADLOCK FALSE
