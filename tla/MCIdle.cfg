SPECIFICATION FairSpec
CONSTANTS
  Clients = {c1, c2}
  Senders = {s1, s2}
  Nobody = Nobody
  Timeouts = {1, 2}
  Horizon = 2
  MaxLate = 1
  MaxEvents = 4
  MaxQueued = 1
  Inotify = Inotify
  Bus = Bus
INVARIANTS
  WatchMatchesRunners
  IdlerCovers
  IdlerDrift
  TimerArmed
PROPERTIES
  ImplementsIdleClient
  IdleMeansAway
  AwayBecomesIdle
  InputWakes
