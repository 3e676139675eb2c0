\* One client, one channel, both listeners: the whole life of the server.
SPECIFICATION Spec
CONSTANTS
  Channels = {ch1}
  SessionIds = {id1}
  NoSession = NoSession
  NoChannel = NoChannel
  Listeners = {"rtsp", "rtsps"}
  Clients = {c1}
  NoClient = NoClient
  Requests <- AllRequests
  FrameKinds <- AllKinds
  NoFrame = NoFrame
  MaxFrames = 2
  MaxBytes = 3
  MaxProduced = 3
INVARIANTS
  TypeOK
  EndedSessionHoldsNothing
  InOrder
  StartsWithKeyFrame
  DropAccounting
  SessionAccounting
  SocketClosedOnce
  TlsOutlivesSessions
  StopLeavesNothingRunning
  TeardownQuiet
