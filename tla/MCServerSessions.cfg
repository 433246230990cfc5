SPECIFICATION Spec
CONSTANTS
  MaxPlayers = 2
  SessionIds = {a, b}
  FirstBotId = 10
  MaxBots = 1
  InitialBots = 1
  RespawnTicks = 1
  ClientTimeout = 1
SYMMETRY SessionIdSymmetry
INVARIANTS
  RosterMatchesSessions
  NoRemoteHumanControlled
  NothingOutlivesSession
PROPERTIES
  TickSettlesTeams
