SPECIFICATION FairSpec
CONSTANTS
  Machines = {"still", "governor", "rates", "pairing", "link", "control", "stream0", "size", "surfaces", "start"}
  \* StillScreen
  Passes = 2
  Attempts = 3
  MaxCaptures = 2
  MaxCoding = 1
  MaxDrops = 1
  \* SizeGovernor
  Cost <- MCCost
  Bitrates = {1, 5, 8}
  DownAfter = 3
  UpAfter = 5
  MinChangeGap = 4
  CalmGap = 2
  RetryHold = 7
  MaxUpAfter = 20
  \* RateControl
  MinRate = 10
  MaxRate = 13
  StepUp = 2
  ProbeAfter = 2
  HoldTicks = 3
  \* Pairing
  Viewers = {"v1", "v2"}
  MaxPins = 2
  Validity = 2
  Threshold = 2
  MaxLockout = 4
  MaxFailures = 4
  \* LinkPressure
  MaxSessions = 2
  MaxPackets = 2
  MaxLost = 1
  MaxQueue = 2
  SkipAbove = 1
  ResumeBelow = 1
  LossSamples = 2
  \* CaptureControl
  Intervals = {1, 2}
  ControlMaxSessions = 2
  \* Negotiation
  Offers <- MCOffers
  Displays <- MCDisplays
  Refresh = {15, 60}
  HostRates = {30, 120}
  Ceilings = {1000, 6000, 30000}
  MaxHeights = {0, 720, 1400}
  StandardHeights <- MCStandardHeights
  \* EncoderSize
  Sizes = {1, 2, 3, 4}
  Native = 4
  SizeMaxSessions = 2
  \* CaptureSurfaces
  Depth = 3
  SurfacesMaxCaptures = 3
  SurfacesMaxCoding = 1
  \* HostStart
  Values <- MCValues
  Overrides <- MCOverrides
  MaxGiven = 2
  Ephemeral = 50000
INVARIANTS TypeOK EndsOnCurrentScreen SettingsInForce  LossIsTheSessions
PROPERTIES OldSessionFirst RetriesSpread PinGuarded LinkUsed
CHECK_DEADLOCK FALSE
