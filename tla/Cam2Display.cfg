SPECIFICATION MCSpec
CONSTANTS
  BUFCOUNT = 4
  Grants <- MCGrants
  MaxFrames = 5
  FlipMayFail = TRUE
  IoctlMayFail = TRUE
INVARIANTS
  TypeOK
  SingleOwner
  NoBufferLost
  OneFlipInFlight
  NoDmaAfterFree
  TearingNeedsLag
PROPERTIES
  ShowsLatestFrame
  QuitTerminates
  CalmFrameReachesScreen
CHECK_DEADLOCK FALSE
