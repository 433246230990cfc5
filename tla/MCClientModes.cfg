SPECIFICATION ClientSpec
CONSTANTS
  Host = TRUE
  MaxFrames = 2
  MaxCheckpoints = 2
  SeekFrames = 2
  Inputs <- MCInputs
  Clients = {a, b}
  Seats = {2}
  Bots = {9}
  ConnectTimeout = 2
  HelloRetry = 1
  SilenceTimeout = 1
  ClientTimeout = 1
  MaxScheduled = 2
INVARIANTS
  OverlaysFreeCursor
  BackLeaves
  PlaybackWithinRecording
  PeerAsAssigned
PROPERTIES
  RecordingHasNoGaps
CHECK_DEADLOCK FALSE
