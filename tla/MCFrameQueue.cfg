SPECIFICATION Spec
CONSTANTS
  Threads = {ingest, session}
  NoThread = NoThread
  MaxFrames = 3
  MaxBytes = 5
  Sizes = {1, 2, 5, 6}
  MaxAccepted = 9
  MaxRefused = 1
INVARIANTS
  TypeOK
  WithinLimits
  BytesExact
  ClosedStaysEmpty
  PopsInOrder
  NoSilentLoss
PROPERTIES
  PushReturns
  KeepsLongestFit
