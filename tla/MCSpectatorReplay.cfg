SPECIFICATION ClientSpec
CONSTANTS
  Host = TRUE
  MaxFrames = 2
  MaxCheckpoints = 1
  SeekFrames = 2
  Inputs <- MCInputs
  Clients = {a}
  Seats = {2}
  Bots = {9}
  ConnectTimeout = 2
  HelloRetry = 1
  SilenceTimeout = 1
  ClientTimeout = 1
  MaxScheduled = 1
INVARIANTS
  SpectatorsStayDetached
CHECK_DEADLOCK FALSE
