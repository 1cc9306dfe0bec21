CONSTANTS
  MQTT_BUF_SIZE = 16
  LengthWord = 132
  Messages <- MCMessages
  MaxMessages = 2
  MaxSegment = 17
  MaxSegments = 2
  MaxPasses = 4
SPECIFICATION RecvSpec
PROPERTY AnotherMessage
CHECK_DEADLOCK FALSE
