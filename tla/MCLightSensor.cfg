CONSTANTS
  AdcValues <- MCAdcValues
  BehindTable <- MCBehindTable
  UserValues <- MCUserValues
  ReportCycle = 2
  MaxInFlight = 4
SPECIFICATION Spec
INVARIANT NewestFollowsLight
PROPERTY LightFollowed
PROPERTY EchoesEnd
