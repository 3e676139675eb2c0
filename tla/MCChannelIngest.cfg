\* One channel: failures, reconnects, shutdown, restarts of the process.
SPECIFICATION Spec
CONSTANTS
  Channels = {ch1}
  Times = {1, 2}
  NoPath = NoPath
  MaxAttempts = 2
  MaxFiles = 3
  MaxRestarts = 1
INVARIANTS
  TypeOK
  StatsAddUp
  CompleteIsFinalised
  EndOfStreamIndexesAll
  RowsMatchMessages
