\* Three cameras and three channels; the process runs again and again.
SPECIFICATION Spec
CONSTANTS
  Cameras = {0, 1, 2}
  ChannelIds = {1, 2, 3}
  NoCamera = NoCamera
  RequireMount = TRUE
  Maps <- SmallMaps
INVARIANTS
  TypeOK
  ServedMapRecorded
  OnlyNewerRowsInTheWay
