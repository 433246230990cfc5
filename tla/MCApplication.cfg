SPECIFICATION Spec
CONSTRAINT OneAtATime
CONSTANTS
  HostTexts <- MCHostTexts
  PortTexts = {"p1", "p2", "bad"}
  Advertisers = {1, 2}
  EndpointOf <- MCEndpoints
  Labels = {1, 2}
  CapTexts = {1, 2, 100}
  BotTexts = {2, 3, 100}
  Locals = 1
  Rates <- MCRates
  DefaultTick = 60
  DefaultSnapshot = 20
  Profiles = 3
  Rows = 2
  Commands = {1, 3}
  Legacies = {2}
  WithControl = {1}
  LastTick <- MCLastTick
  Present <- MCPresent
  SeekStep = 1
  MaxCheckpoints = 2
  MaxPaths = 4
  ArenaSize = 1
  Slots = {1}
  MaxItems = 2
  MaxSaved = 1
  Bindings <- MCBindings
  DefaultBindings <- MCDefaults
  Names = {1, 2, 3}
  Looks = {1, 2}
  DefaultLook = 1
  NewName = 2
  MaxCharacters = 2
INVARIANTS
  RecordingsSurvive
  InsideIsSound
  EditingIsSound
  LaunchesWhatIsShown
  CharactersSurvive
  ShellIsSound
