\* Events of two muxers, requests in shim mode, and a host with phones of its own.
SPECIFICATION FairSpec
CONSTANTS
  Phones = {p1}
  Readers = {c1}
  SystemConfiguration = SystemConfiguration
  AnotherHost = AnotherHost
  None = None
  OldRecords = {p1}
  Services = {p1}
  Plugged = {p1}
  Base = 3
  UpIds = {1, 2}
  LocalDevices = 1
  MaxEpochs = 2
  MaxDrops = 1
  MaxFrames = 3
  Scenes <- FiveScenes
CHECK_DEADLOCK FALSE
INVARIANTS
  RepliesInTurn
  RoutedToOwner
  UpstreamViewFresh
  IdentityShared
  PairedPhoneFound
PROPERTIES
  ListenersLearn
  AnswersOrCloses
  PumpReleased
