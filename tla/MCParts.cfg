CONSTANTS
  BufferLength = 134
  IdWord = 3
  Topics <- MCTopics
  Data <- MCData
  AckIds <- MCAckIds
  ConnectInfos <- MCConnectInfos
  MQTT_BUF_SIZE = 16
  LengthWord = 132
  Messages <- MCMessages
  MaxMessages = 2
  MaxSegment = 17
  MaxSegments = 2
  MaxPasses = 4
  Word = 4294967
  Freq = 5000
  Million = 1000
  Threshold = 858
  Delays <- MCDelays
  Positions = 3
  CLOCK_DISPLAY_PWM_MAX = 2
  FilamentDivider = 1
  Patterns <- MCPatterns
  Brightness <- MCBrightness
  FirstBrightness = 2
  Hours = 24
  Minutes = 25
  Seconds = 2
  FirstTimes <- MCFirstTimes
SPECIFICATION Spec
INVARIANT PublishReadsBack
INVARIANT IdsNotZero
INVARIANT ConnectReadsBack
INVARIANT WholeSegmentHandled
INVARIANT CutOnlyShortens
PROPERTY PassTakesOneMessage
INVARIANT LoadExact
INVARIANT DutyCycle
PROPERTY OnePatternPerTurn
PROPERTY ImplementsMultiplex
INVARIANT TypeOK
INVARIANT Drift
PROPERTY FaceComplete
PROPERTY ImplementsWallClock
CHECK_DEADLOCK FALSE
