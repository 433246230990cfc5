CONSTANTS
  Sessions = {1, 2}
  Bots = {40}
  Order <- MCOrder
  BotOrder <- MCBotOrder
  Team <- MCTeam
  Movers = {2}
  Remote = {1}
  MaxHealth = 1
  RespawnTicks = 2
  Protection = 1
  MaxRewind = 2
  MaxSamples = 4
  Delay = 0
  MaxBuffered = 4
  TicksPerStep = 1
  MaxTicks = 3
  MaxRepeats = 1
  ToggleTick = 1
SPECIFICATION CombatSpec
INVARIANT RewoundToView
CHECK_DEADLOCK FALSE
