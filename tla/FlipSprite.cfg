SPECIFICATION Spec
CONSTANTS
  NUM_BUFFERS = 3
  MaxFrames = 3
  MayTimeOut = FALSE
  IoctlMayFail = FALSE
INVARIANT SpriteInStep
CHECK_DEADLOCK FALSE
