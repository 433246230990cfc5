SPECIFICATION Spec
CONSTANTS
  MaxPlayers = 1
  SessionIds = {a, b}
  FirstBotId = 10
  MaxBots = 0
  InitialBots = 0
  RespawnTicks = 2
  ClientTimeout = 1
PROPERTIES
  FirstExitSelectsTeam
