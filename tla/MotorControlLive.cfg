SPECIFICATION PatientSpec
CONSTANTS
  Motors = {"stepper"}
  Specs <- MCSpecs
  Gains = {124}
  Speeds <- MCSpeeds
  Steps <- MCReverse
  UINT_MAX = 65535
  Depth = 4
  MaxInputs = 4
  MaxRestarts = 1
INVARIANT SlewAgrees
PROPERTY SpeedSettles
PROPERTY RefreshEnds
PROPERTY StopArrives
\* The user stops at the bound; then nothing is left to do.
CHECK_DEADLOCK FALSE
