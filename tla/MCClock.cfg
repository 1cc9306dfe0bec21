CONSTANTS
  Hours = 11
  Minutes = 1
  Seconds = 1
  FirstTimes <- MCFirstTimes
  Word = 4294967
  Freq = 5000
  Million = 1000
  Threshold = 858
  Delays <- MCDelays
  CLOCK_DISPLAY_PWM_MAX = 1
  FilamentDivider = 0
  Brightness <- MCBrightness
  FirstBrightness = 2
  Period = 10
  Burst = 2
SPECIFICATION Spec
INVARIANT AtMostOneTorn
PROPERTY NoGarbageShown
PROPERTY EachFaceShown
