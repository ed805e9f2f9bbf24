SPECIFICATION KitsSpec
CONSTANTS
  Units = 4
  IntRange = 64
  BaseInt = 32
  SetPoint = 0
  KP = 1
  KI = 1
  Freqs <- MCFreqs
  INT_MAX = 4
  MaxLines = 6
INVARIANTS
  KitsTypeOK
  WritesMapped
  PresetCurrent
  TornBounded
  CommandFresh
PROPERTIES
  PresetArrives
  CommandExecuted
  GainSettles
\* The clock controller ends, and so does the gain control.
CHECK_DEADLOCK FALSE
