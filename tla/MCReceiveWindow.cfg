SPECIFICATION FairSpec
CONSTANTS
  MaxHeldFrames = 3
  MaxGap = 1
  MaxNackRounds = 2
  RetrySlack = 1
  GiveUpSlack = 2
  KeyframeRetry = 3
  MaxRtt = 1
  InitialRtt = 0
  Rtts = {0, 2}
  AgeCap = 4
  Headers <- MCHeaders
INVARIANTS TypeOK ChainWhole WithinCapacity KnownHolesAsked
PROPERTIES FeedsDecodably LostForGood HolesResolved KeyframeAskedFor
