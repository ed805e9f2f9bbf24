SPECIFICATION MCSpec
CONSTANTS
  BUFCOUNT = 4
  Grants <- MCFull
  MaxFrames = 4
  FlipMayFail = FALSE
  IoctlMayFail = FALSE
INVARIANT
  NoTearing
CHECK_DEADLOCK FALSE
