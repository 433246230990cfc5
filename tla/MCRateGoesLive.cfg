SPECIFICATION LiveSpec
CONSTANTS
  Second = 9
  Rates = {2, 9}
  NetworkStep = 3
  MaxInFlight = 2
PROPERTIES
  StagedRateGoesLive
