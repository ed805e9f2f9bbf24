SPECIFICATION Spec
CONSTANTS
  Motors = {"bldc", "stepper"}
  Specs <- MCSpecs
  Gains <- MCGains
  Speeds <- MCSpeeds
  Steps <- MCSteps
  UINT_MAX = 65535
  Depth = 3
  MaxInputs = 3
  MaxRestarts = 1
INVARIANT TypeOK
INVARIANT RunAgrees
INVARIANT DirAgrees
INVARIANT InputsAgree
\* The user stops at the bound; then nothing is left to do.
CHECK_DEADLOCK FALSE
