SPECIFICATION CadenceSpec
CONSTANTS
  Second = 9
  Rates = {2, 3, 9}
  NetworkStep = 3
  MaxInFlight = 1
PROPERTIES
  AnnouncedRateWasStaged
