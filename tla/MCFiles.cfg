SPECIFICATION FilesSpec
CONSTANTS
  Actors = {1, 2}
  Order <- OrderValue
  Shooters = {1}
  Delay = 1
  RespawnTicks = 2
  SnapshotEvery = 2
  Lookback = 3
  MaxTick = 6
  MaxCommands = 3
  MaxCount = 2
  MaxItems = 2
  Lengths <- LengthsValue
INVARIANTS
  ReplaysShowWhatHappened
  RoundTrip
  DamageRefused
  LevelReadsBack
CHECK_DEADLOCK FALSE
