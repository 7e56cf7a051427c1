SPECIFICATION FairSpec
CONSTANTS
  Machines = {"pipeline", "d3d12", "feedback", "reconnect", "recovery", "bits", "pixels", "times", "vt", "presenter", "reassembly"}
  \* ViewerPipeline
  MaxFrames = 5
  MaxLater = 2
  MaxSessions = 2
  Capacity = 1
  OutputCap = 2
  Delay = 0
  Surfaces = 4
  \* D3D12Decode
  MaxCalls = 3
  MaxErrors = 2
  \* ViewerFeedback
  FeedbackMaxFrames = 6
  Channel = 2
  \* Reconnect
  Hosts = {"h1", "h2"}
  Score <- MCScore
  MaxMoves = 3
  MaxFailures = 2
  MaxBackoff = 2
  \* StreamRecovery
  RecoveryMaxFrames = 2
  Fragments = 2
  Retained = 2
  MaxRounds = 2
  MaxLosses = 2
  MaxLost = 3
  \* Bitstream
  Codec = "hevc"
  ParameterSets <- MCParameterSets
  Slices <- MCSlices
  MaxSlices = 2
  BitsMaxFrames = 3
  ChunkSize = 5
  MinCapacity = 8
  \* Picture
  Block = 4
  SessionSizes <- MCSessionSizes
  Windows <- MCWindows
  RowPadding = {0, 3}
  \* FrameTimes
  Period = 10
  DelayWindow = 6
  MaxDelay = 1
  MaxResend = 2
  TimesMaxFrames = 3
  MaxTime = 13
  \* VtSessions
  VtMaxSessions = 3
  VtMaxFrames = 4
  MaxCoding = 2
  \* Presenter
  PresenterWindows = {1, 2}
  Codeds = {1, 2}
  PresenterSlices = {1}
  Addresses = {1, 2}
  MaxViews = 2
  MaxTextures = 3
  \* Reassembly
  Frames <- MCFrames
  MaxTotal = 2
  ReassemblyCapacity = 2
INVARIANTS TypeOK   LossRecovered BitstreamWhole 
PROPERTIES ShowsLive FramesShown DecodeEnds KeyframeAsked ReachesHost CatchesUp TimesTrue
CHECK_DEADLOCK FALSE
