SPECIFICATION ScreenSpec
CONSTANTS
  x = x
  wl = wl
  wl1 = wl1
  gpu = gpu
  fb = fb
  Framebuffers = {fb}
  DefaultFramebuffer = fb
  Empty = Empty
  Absent = Absent
  System = System
  Users = {u1, u2}
  XNames = {x}
  WlNames = {wl, wl1}
  Cards = {gpu}
  DefaultWl = wl
  DefaultCard = gpu
  XKinds <- XServers
  WlKinds <- AllOrOutputs
  CardKinds <- Working
  Targets = {2}
  Refusing = {gpu}
  MaxStarts = 2
SYMMETRY UserSymmetry
PROPERTIES
  AskedScreen
  
  PictureIsAsked
CHECK_DEADLOCK FALSE
