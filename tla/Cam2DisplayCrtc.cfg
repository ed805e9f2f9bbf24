SPECIFICATION MCSpec
CONSTANTS
  BUFCOUNT = 4
  Grants <- MCFull
  MaxFrames = 4
  FlipMayFail = FALSE
  IoctlMayFail = TRUE
INVARIANT
  CrtcRestored
CHECK_DEADLOCK FALSE
