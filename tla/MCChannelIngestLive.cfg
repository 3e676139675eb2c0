\* Two channels: the shutdown and the reconnects do come.
SPECIFICATION Spec
CONSTANTS
  Channels = {ch1, ch2}
  Times = {1}
  NoPath = NoPath
  MaxAttempts = 2
  MaxFiles = 0
  MaxRestarts = 0
PROPERTIES
  StopCompletes
  ErrorLeadsToAttempt
