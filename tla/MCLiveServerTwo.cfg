\* Two clients of one channel: the fan-out of a frame against their sessions.
SPECIFICATION Spec
CONSTANTS
  Channels = {ch1}
  SessionIds = {id1}
  NoSession = NoSession
  NoChannel = NoChannel
  Listeners = {"rtsp"}
  Clients = {c1, c2}
  NoClient = NoClient
  Requests <- Viewer
  FrameKinds <- JustKeys
  NoFrame = NoFrame
  MaxFrames = 1
  MaxBytes = 2
  MaxProduced = 2
SYMMETRY ClientSymmetry
INVARIANT DropAccounting
