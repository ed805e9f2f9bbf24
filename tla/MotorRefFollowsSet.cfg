SPECIFICATION Spec
CONSTANTS
  Motors = {"bldc"}
  Specs <- MCSpecs
  Gains <- MCGains
  Speeds <- MCSpeeds
  Steps <- MCSteps
  UINT_MAX = 65535
  Depth = 4
  MaxInputs = 3
  MaxRestarts = 0
INVARIANT RefFollowsSet
\* The user stops at the bound; then nothing is left to do.
CHECK_DEADLOCK FALSE
