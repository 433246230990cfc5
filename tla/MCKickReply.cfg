SPECIFICATION Spec
CONSTANTS
  MaxPlayers = 3
  SessionIds = {a, b, c, d}
  FirstBotId = 10
  MaxBots = 0
  InitialBots = 0
  RespawnTicks = 1
  ClientTimeout = 0
SYMMETRY SessionIdSymmetry
INVARIANTS
  RepliesReachAsker
