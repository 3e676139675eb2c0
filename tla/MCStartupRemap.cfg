\* A map that moves a camera to another channel.
SPECIFICATION Spec
CONSTANTS
  Cameras = {0, 1, 2}
  ChannelIds = {1, 2, 3}
  NoCamera = NoCamera
  RequireMount = TRUE
  Maps <- SmallMaps
INVARIANT ValidMapStarts
