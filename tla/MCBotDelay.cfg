SPECIFICATION Spec
CONSTANTS
  MaxPlayers = 1
  SessionIds = {a}
  FirstBotId = 10
  MaxBots = 1
  InitialBots = 1
  RespawnTicks = 2
  ClientTimeout = 0
INVARIANTS
  BotsStayDown
