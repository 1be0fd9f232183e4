SPECIFICATION Spec
CONSTANTS
  Clients = {c1, c2}
  Senders = {s1}
  Nobody = Nobody
  Timeouts = {0, 1, 2}
  Horizon = 2
  MaxLate = 1
  MaxEvents = 4
  MaxQueued = 1
  Inotify = Inotify
  Bus = Bus
SYMMETRY Interchangeable
INVARIANTS
  IdlerCount
