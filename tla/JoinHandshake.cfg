SPECIFICATION Spec
CONSTANTS
  Clients = {a, b}
  Seats = {2}
  Bots = {}
  ConnectTimeout = 2
  HelloRetry = 1
  SilenceTimeout = 1
  ClientTimeout = 1
  MaxScheduled = 2
PROPERTIES
  StartSettles
  HostGoneEndsSessions
  SeatsComeFree
CHECK_DEADLOCK FALSE
