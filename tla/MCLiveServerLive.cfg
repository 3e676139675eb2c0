\* Two channels and a client that may ask for either and keeps sending requests:
\* isolation of the channels, and what must eventually happen.
SPECIFICATION Spec
CONSTANTS
  Channels = {ch1, ch2}
  SessionIds = {id1}
  NoSession = NoSession
  NoChannel = NoChannel
  Listeners = {"rtsps"}
  Clients = {c1}
  NoClient = NoClient
  Requests <- Player
  FrameKinds <- JustKeys
  NoFrame = NoFrame
  MaxFrames = 1
  MaxBytes = 3
  MaxProduced = 2
INVARIANTS
  OnlyOwnChannel
PROPERTIES
  ShutdownCompletes
  HeadMovesOn
