\* Commands, deaths, team changes and snapshots are bounded.  HalfSpace is
\* scaled down from 2^31; the bounds stay below it, as the code's rates do for
\* years.  When the counters are used up the server goes on ticking.
SPECIFICATION LiveSpec
CONSTANTS
  HalfSpace = 16
  RespawnTicks = 2
  MaxSeq = 2
  MaxKills = 1
  MaxTeamDeliveries = 1
  MaxSnapshots = 15
  MaxRefreshes = 0
  RepeatedSnapshots = 0
PROPERTIES
  PredictionConverges
