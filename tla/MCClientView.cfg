SPECIFICATION ViewSpec
CONSTANTS
  Actors = {1}
  Positions = {0, 1, 3}
  TeleportDistance = 1
  MaxSamples = 2
  Delay = 1
  AreGhosts = TRUE
  MaxTime = 4
  MaxSnapshots = 4
  MaxElapsed = 2
  Me = 1
  OtherHumans = {2}
  Bots = {40}
  SyncKeys = {"prediction_enabled", "interpolation_enabled"}
  Flags = {"sv.bots_can_shoot"}
  Rates = {30, 60}
  MaxChanges = 2
  MaxLosses = 1
INVARIANTS
  ShownWasThere
  ShownIsUsed
  PanelIsSound
PROPERTIES
  SettingsSettle
CHECK_DEADLOCK FALSE
