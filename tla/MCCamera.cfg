SPECIFICATION CameraSpec
CONSTANTS
  gain = gain
  brightness = brightness
  focus = focus
  zoom = zoom
  Absent = Absent
  Controls = {gain, brightness, focus, zoom}
  DefaultOps <- ResetFirst
  DefaultOf <- Defaults
  Presets <- FewPresets
  Areas = {"left", "right", "top"}
  Requests <- FewRequests
  Flaky = {gain, zoom}
INVARIANTS
  SettingsRestored
