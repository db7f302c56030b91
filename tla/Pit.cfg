CONSTANTS
  Radix = 2
  Clocks = 2
  Used = {0, 2}
SPECIFICATION FairSpec
INVARIANTS Countdown
PROPERTIES EdgeOnTime TimerLives CalibrationEnds
